# Verification of policy-server

policy-server is a Kubernetes extension API server that keeps policy reports
outside etcd. This directory holds TLA+ specifications of it, the TLC
configurations that check them on small instances, and proofs, checked by TLAPS,
of what holds for instances of any size. Source paths below are relative to `src/`.

## 1. The system

| Component | Source | State | Operations |
|---|---|---|---|
| Policy report storage | `pkg/api/polr.go` | none of its own: a store, a broadcaster | `Create`, `Update` (two paths), `Delete`, `DeleteCollection`, `Get`, `List`, `Watch` |
| Cluster report storage | `pkg/api/cpolr.go` | as above, its own broadcaster | as above |
| Storage keys, list selection | `key`, `keyForList`, `List`, `listPolr` of both files | none | which stored values a list finds and returns |
| In-memory store | `pkg/storage/inmemory/client.go` | a Go map, an embedded mutex | `Create`, `Update`, `Delete`, `Get`, `List`, `Put`, `Close` |
| kine store | `pkg/storage/kine/client.go` | a database behind a gRPC client (external) | the same interface |
| Storage selection | `pkg/storage/store.go`, `monitoring.go` | the chosen store | `NewStorage`, metrics |
| Watch broadcaster | `k8s.io/apimachinery` (external) | an incoming queue, a channel per watcher | `Action`, `Watch`, `Stop` |
| API group | `pkg/api/install.go`, `interface.go`, `pkg/api/install/` | the two storages | `Install`, `Build` |
| Versioned API copies | `pkg/api/v1alpha1`, `v1alpha2`, `v1beta1` | as the storages | copies of `polr.go` and `cpolr.go`; no code calls their installers |
| Table conversion | `pkg/api/table.go` | none | printed columns |
| Server | `pkg/server/` | the generic API server | start-up, probes |
| Metric buckets | `pkg/utils/monitoring.go` | none | `BucketsForScrapeDuration` |
| Command | `cmd/` | options | `Validate`, `ServerConfig`, `runCommand` |
| OpenAPI definitions | `pkg/api/generated/openapi/` | none | generated; the documentation the findings quote |

How they interact. The API server runs each request in a goroutine and calls a
handler of a storage. A handler makes up to three calls of the store, one after
the other, then one of the broadcaster. Handlers share nothing but the store and
the broadcaster and hold no lock between calls: the store's mutex covers one
call. The store does not know the broadcaster: an event exists because a handler
sends it. A watcher registers with the broadcaster and is never told
what the store holds.

What makes this hard:

- *Concurrency.* Two handlers interleave between their store calls, and between
  a store call and its broadcast. The tests of the repository run no two
  requests together; only `BucketsForScrapeDuration` has a unit test.
- *Partial failure.* `DeleteCollection` can stop half way; the forced update
  drops the errors of all the calls it makes.
- *Ordering.* Events reach the broadcaster in the order of the `Action` calls,
  not of the writes. `List` iterates over a Go map.
- *Blocking.* With `WaitIfChannelFull` a watcher that stops reading fills its
  1000 slots, then stops the broadcaster's loop, and then every writer.
- *Restart.* The in-memory store loses everything; informers, which live in other
  processes, keep what they know and resume with a watch.
- *Two counters.* The handlers count a report's versions from 1; kine numbers its
  transactions. The handlers pass the one where the other is compared.
- *One store for all.* Both kinds of report, in every version, are rows of one
  store; only the format of the key keeps them apart.
- *Timeouts.* Store calls take `context.TODO()`: an expired request goes on and
  writes.

What makes each component correct:

- *Report storage*: each successful write is announced, once, and no write goes
  unannounced; watchers that have seen everything know what is stored; a refused
  or dry request changes nothing; a deleted report is not revived by a request
  that was under way; an update is not lost; `List` respects its selector.
- *Cluster report storage*: the same, and that a created report can be read.
- *Stores*: each call is atomic; a key is created once; update and delete need it.
- *Keys*: no two reports share one, and a list prefix finds those it is meant for.
- *Server and informers*: an informer that lists and watches knows what is stored;
  a request that was begun is answered.
- *Broadcaster*: every watcher gets all events sent after it registered, in one
  order; stopping a watcher releases everybody it blocked.
- *Metric buckets*: strictly increasing, with the timeout among them.

## 2. Modules

| Module | What it is |
|---|---|
| `InMemoryDb` | the map of `--debug`: each method a relation on the map before and after it and the error it returns |
| `Storage` | what `NewStorage` returns: `InMemoryDb`, or kine with its revisions |
| `ReportList`, `ReportKeys`, `ScrapeBuckets` | algorithms without state, as operators |
| `PolicyReportStore` | the handlers of `polr.go`, on `InMemoryDb`, with the log of the broadcaster |
| `PolicyReportProperties` | type invariant and properties of `PolicyReportStore` |
| `ReportFeed` | abstract specification: a dictionary with a feed, where each request is served at the key it names and its answer is true of that key; an apply may announce a report that it did not store if `FalseClaims` |
| `AskedReports` | `PolicyReportStore` with a history variable, what each request asked for; states that it implements `ReportFeed` |
| `StoredReports` | the handlers of `polr.go` and of `cpolr.go`, on `Storage`; `EXTENDS PolicyReportStore` for the steps that do not write |
| `StoredProperties` | type invariant and properties of `StoredReports` |
| `VersionedApis` | the copies in `v1alpha1`, `v1alpha2` and `v1beta1`: six storages on one store, with a broadcaster each |
| `EventLog` | abstract specification of a broadcaster: one log, each watcher follows it from a position |
| `Broadcaster`, `BroadcasterProperties` | the library's broadcaster with its channels, mutex and loop; its properties |
| `WatchedReports`, `WatchedProperties` | `PolicyReportStore` and `Broadcaster` together, without a log between them; what clients that write and clients that watch get |
| `PolicyServer`, `PolicyServerProperties` | the process around `StoredReports`: start, end, and informers that list, watch and lose connections; what they can rely on |
| `MCPolicyReportStore`, `MCAskedReports`, `MCWatchedReports`, `MCBroadcaster`, `MCVersionedApis`, `MCPolicyServer`, `MCPureFunctions` | instances for TLC |
| `*Proofs` | theorems and proofs, see section 4 |

How they compose:

    InMemoryDb -- Storage ----------.
        |                            \
    PolicyReportStore ---------- StoredReports -- VersionedApis
        |    |     (ReportList)       |
        |   AskedReports         PolicyServer
        |    .                        .
        |   ReportFeed                .
    WatchedReports -- Broadcaster -- EventLog

`PolicyReportStore` is the code over the map, where the races are studied;
`StoredReports` is the code over either store. That they agree where they overlap
is a theorem (`MapStoreServesPolicyReports`). `PolicyServer`, `StoredReports` and
`PolicyReportStore` use a log for a broadcaster; that the broadcaster's channels
amount to that log is the property `FollowsTheLog`. `WatchedReports` puts the broadcaster in
the place of the log; that this changes nothing for the handlers, and that the handlers use
the broadcaster as `Broadcaster` assumes, are the theorems `WatchedHandlers` and
`WatchedChannel`.

### PolicyReportStore

A thread `t` is a goroutine that serves a request. `pc[t]` names the next call it
makes; `req[t]` is the request with the report the handler holds in a local
variable, `todo[t]` the items a `DeleteCollection` still has to delete.
`db` is the store's map; `log` the events the broadcaster has accepted. `writes`
numbers the changes of the store and is seen by no guard; a UID is the number of
the write that made the report, which makes a UUID new without making it random.
An event carries the number of its write only for the sake of the properties
(0: it announces no write). `res[t]` is the last answer.

One store call or one broadcaster call is one step. What a handler computes after
a call, up to its next one, belongs to the step of that call: it touches local
variables only.

| Action | Code (`pkg/api/polr.go`) |
|---|---|
| `CreateReport` | `Create` up to `createPolr` and its store call |
| `UpdateGet` → `UpdateReread` → `UpdateStore` | `Update`, `forceAllowCreate` false: `getPolr`, `getPolr` again inside `updatePolr`, the store's `Update` |
| `ApplyGet` → `ApplyStore` | `Update`, `forceAllowCreate` true |
| `DeleteGet` → `DeleteStore` | `Delete`: `Get` and validation, `deletePolr` |
| `CollectionList` → (`CollectionItem` → `DeleteStore` → `Announce` → `AnnounceAgain`)* | `DeleteCollection`: `List`, then `Delete` and a second broadcast for each item |
| `Announce`, `AnnounceAgain` | the broadcaster's `Action` |
| `Quiet` | no code: the bound on requests is reached and all are answered |

`"rejected"` stands for a request that validation, or `UpdatedObject`, refuses: it
is a choice, since what is valid is decided outside this code. In `ApplyGet` it also
stands for the type assertion of `polr.go:139`, which panics if `UpdatedObject` returned no
object: the API server recovers and answers with an error, and nothing has been
written by then. A report is reduced
to what the handlers set or read: UID, resource version and labels. Namespace and
name are its key.

- `UpdateGet` may carry any UID of `0..writes`: the object of a PUT comes from the
  client and nothing compares it.
- `ApplyCreates`: whether `UpdatedObject`, given the nil report of a failed
  `getPolr`, makes an object. FALSE, the request failing, is what
  `k8s.io/apiserver` v0.29.0 (`go.mod:13`) is taken to do; only `Concurrent.cfg` sets
  TRUE, which allows more behaviours.
- `DeleteCollection` deletes items only if `isDryRun` is false and hands its options on to `Delete`
  (`polr.go:236-238`), so the items carry `dry = FALSE`. `DryRunPersistsNothing` looks at that flag and
  would not catch a collection that drops its own test; `ImplementsFeed`, which looks at what the client asked, does.
- There are no request contexts: the handlers pass none to the store (`polr.go:356`), so an expired
  request runs on, and a client's retry is another request beside it.
- `SerialClients`: clients never overlap requests on the same report. FALSE is
  the program; TRUE serves to say what is due to concurrency alone.

### AskedReports and ReportFeed

A thread forgets its request when it replies. `asked[t]` keeps what the client asked for: the
operation, the key or the keys of the collection, the labels of the object, and whether it is a dry run.
`AskedRequest` and `AskedCall` are the actions of `PolicyReportStore`, those that take a request and
those that go on with one, and only the former set `asked`.

`ReportFeed` knows `asked` and says what may be done for it. `Insert`, `Replace` and `Remove` change
the entry of a key that the request names, at most once before the request is answered, as its operation
and its labels say, and never for a dry run; only an apply need not heed that. `Send` feeds the change and
is the answer "ok". Any other answer changes nothing and is `Justified` by the report that the request
names: "missing" if it is not stored, "exists" if it is. A deletion of a collection is a series of
such removals (`SendAndGoOn`), each fed twice. In which order changes of different requests are fed is not
promised; how far that order may stray is `BoundedOvertaking`.

### Storage and StoredReports

kine's client is external and modelled as its interface: a row has the revision of
the transaction that wrote it last (`modified`), and `Update` and `Delete` take
effect only if the revision passed is that of the row. `StoreCreate`, `StoreUpdate`
and `StoreDelete` are the methods of the interface, by the implementation the
`debug` flag chose. `FirstRevision` is the database's revision before any report.

`StoredReports` has the calls that write over this interface: `PolrCreate`,
`UpdateCall` (the revision passed is the version just set, `polr.go:380`),
`ApplyCall`, `DeleteCall`. `cpolr.go` shares all but two of them: `CpolrCreate` and
`CpolrUpdateCall` call `createCpolr`, which ends in the store's `Update`
(`cpolr.go:341`). A cluster report's key has one of `ClusterScopes` in the place of
the namespace.

kine has no endpoints to talk to in this code (see section 5): what is modelled is
the code with a database configured through `WithEndpoints`.

### VersionedApis

A scope is a pair of version and namespace. Each of the six files has its keys, its
handlers up to their first store call (`...Requests`), the calls after that (`...Calls`) and one
action that is either. The bodies are those of `StoredReports`: the files differ from `pkg/api` in the
version of their types and, where no property looks, in what `Delete` answers and `DeleteCollection`
sends the second time: `pkg/api` makes an unstructured copy of the report (`polr.go:215`, `cpolr.go:201`),
the copies do not. The later calls on cluster reports are never reached, since no cluster
report is ever found, unless `ApplyCreates`. `at[t]` is the storage whose
request `t` serves, `feeds[s]` the events of that storage's broadcaster. No code
calls the installers `V1Alpha1Install`, `V1Alpha2Install` and `V1Beta1Install`; they
are modelled as installed together on one store.

### Broadcaster

The broadcaster is a library's; it is here because `NewBroadcaster(1000,
WaitIfChannelFull)` (`polr.go:33`), and handlers that call `Action` after they have
written, make its blocking the program's. `Action`, `Watch` and `Stop` take the mutex
and send to one channel (`Lock`, `SendEvent`, `SendFunction`); `Watch` and `Stop` send
a function and keep the mutex until the loop has run it. The loop takes an item
(`TakeEvent`, `RunFunction`) and copies an event to each watcher in an arbitrary order
(`Deliver`), waiting for those without room unless they have stopped
(`MayPassOver`). `Read` is the watch request, `Stall` a client that no longer takes
what it is sent, `CallStop` the end of the request. `from`, `log` and `got` are the
variables of `EventLog`.

### WatchedReports

A thread that is at `announce` calls `Action` (`CallAction`), competes for the mutex
(`Lock`) and goes on with its request in the step that puts its event in the common channel
(`SendEvent`, which is `Announce` or `AnnounceAgain` of the handler and `SendEvent` of the
channel at once). Its other steps (`Handle`) do not touch the channel. A `Watch` step is a step of
a watcher's request, `Loop` one of the broadcaster's goroutine. An event is its position in
the handlers' log, so `Broadcaster` is instantiated with `log <- Positions`. `since[w]` is a
history variable: how many writes there were when `w` began to follow.

### PolicyServer

`phase` is where the process is: `RunCommand`, `ServerConfig`, `OpenStore` and
`InstallAndRun` are the stages of `runCommand` and `Config.Complete`, each of which may
fail and end it; `Stop` ends a serving process between any two steps of its
requests: requests and logs are gone, so is the map, what kine holds is not. An
informer lists a namespace (`ListReports`, decoded as `listPolr` does), watches
(`WatchReports`), applies events (`ReceiveEvent`) and may lose its connection; then
it watches again or lists again. `view[i]` is a function from the keys of the reports it
knows, `seen[i]` its position in the log, and `missed[i]` a history variable: the reports that
changed while informer `i` was not watching.

### Functions

- `ReportList`: `SharedLabels` is the loop of `listPolr`, where one variable is decoded
  into again and again: `encoding/json` adds keys to the map it finds, so all items
  decoded after the first labelled one share one map. `Kept` is the filter of
  `List`, which gives up, and returns everything, at the first report without
  labels. `CollectionList` uses `Kept`; the iteration order of the Go map is a choice
  among `Orders`.
- `ReportKeys`: keys as sequences of path segments; all prefixes end in a slash.
- `ScrapeBuckets`: `BucketsForScrapeDuration` in half milliseconds, so that the
  halves the code computes of whole milliseconds are integers. Floating point is
  not modelled.

## 3. Runs

| Run | Instance | What it shows | States |
|---|---|---|---|
| `concurrent` | 3 threads, 2 reports, 4 requests | `TypeOK`; each request changes and answers for the report it names (`ImplementsFeed`); every write announced (`NoWriteForgotten`), once (`AnnouncedOnce`); an event overtakes fewer writes than there are threads (`BoundedOvertaking`); no late update revives a report (`NoResurrection`); no handler loops or starts over (`RequestsGetShorter`) | 649 000 |
| `serial` | broadcaster included; 2 threads, 2 reports, 1 watcher, 3 requests on distinct reports at a time | `WatchersConverge`, `LastReadIsStored`, `DeletedIsLastState`, `NoMidwayRefusal`, `VersionAdvances` | 434 000 |
| `watched` | broadcaster included; 2 threads, 1 report with 2 labellings, 1 watcher, 2 requests, no apply | no write misses a watcher (`NoWriteMissed`); every request is answered (`RequestsAnswered`); every change arrives (`ChangesArrive`); dry runs persist nothing (`DryRunPersistsNothing`) | 40 700 |
| `storages` | 3 versions, one report of each kind in each, 2 threads, 4 requests, both stores | storages do not touch each other's rows (`StoragesKeepApart`) and tell their own watchers of every change (`ToldOwnWatchers`); over kine versions lag behind revisions (`VersionsLagBehind`), so nothing can be deleted (`KineReportsNeverVanish`) and updates do not overwrite each other (`KineUpdatesFollow`); no cluster report is ever stored (`ClusterReportsNeverAppear`) and no watcher is ever told of one (`ClusterEventsNeverSent`) | 165 600 |
| `broadcaster` | 2 senders, 2 watchers, a common channel of 2, watcher channels of 1, 3 events | no event lost or repeated (`NothingLost`), one log for all (`FollowsTheLog`), nobody waits in a circle (`NoCircularWait`), `Action`, `Watch` and `Stop` return (`ActionsReturn`, `WatchAndStopReturn`) | 30 400 |
| `server` | 2 starts, 2 namespaces, 2 threads, 2 requests, 1 informer, 1 lost connection | an informer knows what it has not missed (`InformedUnlessMissed`), and gets there (`InformersConverge`); requests end (`RequestsEnd`) | 16 500 |
| `pure_functions` | lists of up to 3 reports, 2 labels with 2 values, all selectors; sets of up to 3 keys; resolutions of up to 25 s by the millisecond | a selector keeps all or nothing; the shared map is the last-writer merge; keys and prefixes find their reports; buckets increase and contain the resolution | 32 700 |
| `lost_update` | 2 threads, 1 report | violated: two updates store the same version | |
| `dry_apply` | 2 threads, 1 report, serial | violated: a dry server-side apply writes | |
| `diverge` | 2 threads, 1 report | violated: `Deleted` overtaken by `Added`, watchers keep a report that is gone | |
| `selector_ignored` | lists of up to 2 reports | violated: the selector does not restrict the list | |
| `informer_gap` | as `server` | violated: a change between list and watch stays unknown | |

The pairs are meant to be read together. `WatchersConverge` and `VersionAdvances`
hold in `serial` and fail in `diverge` and `lost_update`, where the requests of
clients overlap: the code is right for one client at a time, and wrong for two.
`DryRunPersistsNothing` holds in `watched` and fails in `dry_apply`, which has
server-side apply. `Informed` fails where `InformedUnlessMissed` holds: the gap
between list and watch, and the gap a restart makes, are the only things an informer
of serial clients misses.

`VersionAdvances` speaks of updates only: an apply sets the version back to 1 by
assignment (`polr.go:373`).

### Bounds

- *Threads.* Every race in this code is between two requests on one report.
  `concurrent` has three threads, so that the bound of `BoundedOvertaking` is
  reached with two overtaken writes.
- *Reports.* Two reports of one namespace: the smallest collection whose deletion
  can stop half way. Reports of different namespaces never meet in a handler; `storages`
  has one of each kind and version, `server` one that the informer lists and one that
  it does not.
- *`MaxCalls`.* Four requests fit create, update or apply, delete, and one more
  that races with any of them (`concurrent`, `storages`); three a report that is created, updated and
  overwritten, or two that are created and deleted as a collection (`serial`); two a
  change before and a change after a watcher begins to follow (`watched`); in `server` two
  are enough for a change before, during and after each gap (three was checked too:
  206 000 states, no error). The violations need two or three.
- *Labels.* One labelling where labels do not matter, two of one label where
  `DeleteCollection` selects (`watched`). In `MCPureFunctions`, two labels with two values are
  enough for maps that are disjoint, equal, overlapping and conflicting, and three
  items for a shared map that is set, overwritten and read.
- *`MaxEvents`* bounds calls of `Action`, of which a collection makes two for each item. In
  `serial` and `watched` it is no less than the requests can use, so it stops nothing.
- *Channels.* `Broadcaster` has capacity 2 for the common channel (25), so that events
  queue behind each other, and 1 for a watcher's (1000): with three events both are full at
  times, which is what matters. With the handlers both have capacity 1, so that a thread
  that announces waits for the loop, and the loop for the watcher, after one event.
  `NeverLost`, `NobodyWaitsInACircle` and `ImplementsTheLog` are proved for any capacities.
- *`FirstRevision`* is 1, the lowest there is and the one that allows most: a report
  written by the first transaction can be updated once in a row. From 2 on no
  update succeeds (theorem `KineFreezesReports`).
- *Resolutions* up to 25 s: below the first bucket, around every bucket, and above the last.
- *Symmetry.* Threads are interchangeable in `concurrent`, `serial` and
  `storages`, the names of reports in `concurrent` too; no definition chooses one and no liveness is
  checked there.
- *Deadlock* is checked everywhere: the only states in which nothing happens are
  those of `Quiet`, `AllTold`, `ApiQuiet`, `Rest`, `Settled` and `Full`.

### Fairness

- `Broadcaster.FairSpec`: the loop and the caller of a channel send run (`WF`), since
  goroutines do; Go's mutex is granted to a waiter that keeps waiting (its starvation
  mode), hence `SF` on `Lock`. A watch handler reads while its client does, and a
  stalled one is ended: by the API server's request timeout or by a failed write. Without the
  last assumption `ActionsReturn` fails, and with it every request that writes: that
  assumption is about the API server, not about this code. No handler has to call
  `Action`, no client has to watch or to stop.
- `WatchedReports.FairWatchedSpec`: the same of the loop, the mutex and the watch requests; the
  goroutine of a request that was begun runs, up to its call of `Action` and in it. No
  client has to make a request, or to watch.
- `PolicyServer.FairServerSpec`: the goroutine of a request that was begun runs, and an
  informer that is behind carries on. No client has to make a request, nothing
  makes the process stop, and nothing in the code starts it again, so
  `InformersConverge` assumes that from some time on it serves.
- All other runs check safety, without fairness.

## 4. Theorems

They hold for every set of keys, threads, watchers, labels, selectors and scopes, any
`Verbs`, both values of `SerialClients` and `ApplyCreates`, any `MaxCalls`, `DebugFlags`,
`FirstRevision` and channel capacities, except as the table says. Assumptions: those the
modules name (`KeysAssumption`, `VerbsAssumption`, `FlagsAssumption`, `NoReportAssumption`,
`NoRequestAssumption`, `DebugAssumption`, `RevisionAssumption`, `ScopesAssumption`,
`NamesAssumption`, `LimitsAssumption`, `QuestionAssumption`), which TLC evaluates in every run of a module that has them: flags are
Booleans, numbers are numbers, and the values that stand for "none" are none of the others.

The handlers over the map (`PolicyReportStore`):

| Theorem | Module | Statement |
|---|---|---|
| `TypeCorrect` | `PolicyReportProofs` | `Spec => []TypeOK` |
| `EveryWriteAnnounced` | `PolicyReportProofs` | `Spec => []NoWriteForgotten` |
| `WriteAnnouncedOnce` | `PolicyReportProofs` | `Spec => []AnnouncedOnce` |
| `OvertakingIsBounded` | `PolicyReportProofs` | `Spec => []BoundedOvertaking`, for finitely many threads |
| `HandlersImplementFeed` | `PolicyReportFeedProofs` | `AskedSpec => ImplementsFeed` |
| `DryRunsPersistNothing` | `PolicyReportProofs` | `Spec => DryRunPersistsNothing`, without server-side apply |
| `DeletedStaysDeleted` | `PolicyReportProofs` | `Spec => NoResurrection` |
| `RequestsHaveAnEnd` | `PolicyReportProofs` | `Spec => RequestsGetShorter` |
| `SerialUpdatesAdvance` | `PolicyReportProofs` | `Spec => VersionAdvances`, with `SerialClients` |
| `SerialDeletionsShowLastState` | `PolicyReportProofs` | `Spec => DeletedIsLastState`, with `SerialClients` |
| `SerialRequestsFinish` | `PolicyReportProofs` | `Spec => NoMidwayRefusal`, with `SerialClients` |
| `SerialWatchersConverge` | `PolicyReportProofs` | `Spec => []WatchersConverge`, with `SerialClients`, without `ApplyCreates` |

These hypotheses are those of the runs that check the properties; `lost_update`, `diverge`
and `dry_apply` show that the properties fail without them.

Both kinds of report over both stores, in all versions:

| Theorem | Module | Statement |
|---|---|---|
| `StoredTypeCorrect` | `StoredReportProofs` | `StoredSpec => []StoredTypeOK` |
| `VersionsStayBehind` | `StoredReportProofs` | `StoredSpec => []VersionsLagBehind` |
| `KineKeepsReports` | `StoredReportProofs` | `StoredSpec => KineReportsNeverVanish` |
| `KineUpdatesAreSerial` | `StoredReportProofs` | `StoredSpec => KineUpdatesFollow` |
| `KineFreezesReports` | `StoredReportProofs` | `FirstRevision >= 2` implies `StoredSpec => KineReportsNeverChange` |
| `ClusterReportsStayAway` | `StoredReportProofs` | `StoredSpec => ClusterReportsNeverAppear` |
| `NothingToldOfClusterReports` | `StoredReportProofs` | `StoredSpec => []ClusterEventsNeverSent`, without `ApplyCreates` |
| `MapStoreServesPolicyReports` | `StoredReportProofs` | with `--debug` and no cluster scopes, `StoredSpec => Spec` |
| `VersionsImplementStorages` | `VersionedApiProofs` | `ApiSpec => StoredSpec` |
| `StoragesStayApart` | `VersionedApiProofs` | `ApiSpec => StoragesKeepApart` |
| `OwnWatchersAreTold` | `VersionedApiProofs` | `ApiSpec => []ToldOwnWatchers` |

The server process and its informers:

| Theorem | Module | Statement |
|---|---|---|
| `InformersKnow` | `PolicyServerProofs` | `ServerSpec => []InformedUnlessMissed`, with `SerialClients` and `ApplyIsTold` |

`ApplyIsTold` says that server-side apply, if clients use it, does what it announces: `UpdatedObject`
makes no object of a missing report (`~ApplyCreates`), and the kine client has no endpoint, which is
so in this code (`utils/consts.go:18`). Over kine every apply would announce a report that the store
refused, and without `SerialClients` two updates may be announced in the other order; in `server`
with three requests TLC finds `InformedUnlessMissed` violated in both cases, so neither hypothesis
can be dropped.

The broadcaster:

| Theorem | Module | Statement |
|---|---|---|
| `BroadcasterInvariant` | `BroadcasterProofs` | `Spec => []Inv` |
| `NeverLost` | `BroadcasterProofs` | `Spec => []NothingLost` |
| `NobodyWaitsInACircle` | `BroadcasterProofs` | `Spec => []NoCircularWait` |
| `ImplementsTheLog` | `BroadcasterProofs` | `Spec => Promised!Spec`: all of `FollowsTheLog` but its fairness |

Handlers and broadcaster together:

| Theorem | Module | Statement |
|---|---|---|
| `WatchedHandlers` | `WatchedProofs` | `WatchedSpec => Spec` (of `PolicyReportStore`) |
| `WatchedChannel` | `WatchedProofs` | `WatchedSpec => Channel!Spec` (of `Broadcaster`) |
| `WatchersMissNoWrite` | `WatchedProofs` | `WatchedSpec => []NoWriteMissed` |
| `SerialWatchersReadTheStore` | `WatchedProofs` | `WatchedSpec => []LastReadIsStored`, with `SerialClients`, without `ApplyCreates` |
| `HandlersFollowTheLog` | `WatchedProofs` | `WatchedSpec => Channel!Promised!Spec` (of `EventLog`) |
| `HandlersWaitInNoCircle` | `WatchedProofs` | `WatchedSpec => []Channel!NoCircularWait` |

Functions, for inputs of any length (`Spec` is that of `MCPureFunctions`, without its bounds):

| Theorem | Module | Statement |
|---|---|---|
| `SelectorKeepsAllOrNothing`, `ListsAreAllOrNothing` | `PureFunctionProofs` | `AllOrNothing` for every list and every selector; `Spec => []ListAllOrNothing` |
| `SharedMapIsLastWriters`, `ListsAreLastWriters` | `PureFunctionProofs` | `LastWriterWins` for every list; `Spec => []ListLastWriterWins` |
| `KeysTellReportsApart`, `ListsFindTheirOwn`, `ListsAlwaysFindTheirOwn` | `PureFunctionProofs` | keys are injective, prefixes match the keys meant; `Spec => []ListFindsItsOwn` |
| `BucketsAlwaysIncrease`, `BucketsAreIncreasing` | `PureFunctionProofs` | `Increasing` for every whole number of milliseconds; `Spec => []BucketsIncrease` |
| `AcceptedResolutionIsABucket`, `BucketsAreAtTimeout` | `PureFunctionProofs` | every resolution of at least ten seconds is itself a bucket, a shorter one may be skipped for a bucket less than 5 ms away (6 ms is); `Spec => []BucketAtTimeout` |

How they are proved:

- `TypeOK` is inductive as it stands, because `ThreadsOK` says of each stage which
  object the request must hold. The proof goes by the control helpers (`Reply`,
  `Continue`, `Written`, `NextItem`), then by action.
- `NoWriteForgotten` and `AnnouncedOnce` are not inductive: a state in which two
  threads hold the same write number satisfies them and the next step breaks
  them. `FeedInv` adds that numbers are numbers of past writes (`SeqsArePast`),
  that no two threads hold one (`OneHolder`), that an apply has none before it
  writes (`ApplyIsUnnumbered`) and that a repetition is not in the log before it
  is sent (`RepeatIsFirst`). Each action is first shown to be one of four kinds of
  step (`Move`, `Write`, `Send`, `Repeat`), and each kind to keep `FeedInv`.
- `BoundedOvertaking` needs no induction over the log. When an event is sent, a write that
  it overtakes is not in the log, so by `NoWriteForgotten` some other thread holds its number;
  two writes have two holders. Overtaken writes thus map one to one to the threads other
  than the sender, and there is one thread fewer than threads.
- `DryRunsPersistNothing` rests on `AllSuit`: the request of a thread suits the call it is about to make (a dry
  run is about to make none that writes unless it is an apply, only deletions are at the stages of a deletion,
  and so on).
- `HandlersImplementFeed` needs `AllSuit` and `AskedInv`, which says of each thread (`Remembers`) that it is
  serving exactly if what it was asked is unanswered, and that the operation, the flag, the key and the items to
  come, and the labels it is about to store are those it was asked for. Each action is shown to be a step of
  `ReportFeed` for its thread: a store call that succeeds is a change, the first announcement, or the second of
  a collection, is `Send`, and everything else an answer or none yet. The unsent events are the image of
  the threads about to announce. An apply whose report vanished before its store call announces it all the same:
  that is a `Claim`, the only one there is, so the theorem also says that without apply the feed tells nothing that did not happen.
- `RequestsHaveAnEnd`: `CallsLeft` gives each stage more calls than the one after it and four to each
  item a collection has yet to delete. That this is a number needs `FewInv`: each write adds at most one
  report, so what a list finds is finite, even if `Keys` is not. Other threads never touch
  it (`Shortens`), so no change of the store can prolong a request.
- The serial theorems need that what a thread read still holds when it acts. `SerialInv`
  says that no two threads work on a common key (`Disjoint`), that what a thread knows of its key is
  what the store holds (`Current`: the object of a deletion, the version of an update), that an event
  about to be sent shows the stored state (`Truthful`), and that the items a
  `DeleteCollection` has not reached are still there (`ItemsRemain`). TLC checked it on
  two reports, two labellings and four requests, for both values of `ApplyCreates`. An update then finds the report
  it read, so it is not refused and stores a greater version.
- `WatchersConverge` adds `ToldInv`: the events about a report have a last one (`HasLatest`), and
  watchers know what is stored of each report or a thread is about to announce it (`ToldSoon`).
  `ApplyCreates` would make an object, and an event, of a report that is not stored; that is why the
  theorem excludes it.
- `NoResurrection` needs `UidsArePast`: no UID in the store, in a request under
  way or in an event is greater than the number of writes. Each action is shown
  to be a `LifeStep`, which replaces or removes only what the store holds, and
  makes an entry appear only with the next number.
- `VersionsLagBehind` needs to know what a thread holds. `StoredInv` says of a row
  (`RowsOK`) that its report's version is at least 1 and behind the row's revision by
  at least `FirstRevision`, and that its revision is one the database has reached; of a thread
  (`ThreadInv`) that the version an update is about to store is at most the row's
  revision, and equal to it only if the row is as it was read, and that a deletion
  holds a version below it. Both survive the steps of other threads because rows only
  grow: a revision is never smaller than before while the row exists. Deletion over
  kine therefore always conflicts; an update that does not is one that follows the
  report it read. With `FirstRevision >= 2` the equality cannot occur at all.
- `ClusterEventsNeverSent` needs `SilentInv`: no cluster report is stored, and no thread that serves one gets
  past its first store call, which finds nothing to update or to delete; a creation is refused by the store, and an
  apply has no object to announce.
- `MapStoreServesPolicyReports` takes each action of `StoredReports` over the map to the
  action of `PolicyReportStore` it stands for, with the same state; so every theorem about `Spec`
  is one about the storages over the map. `VersionsImplementStorages` takes each of the six
  storages to one of those two for some of the reports; so every theorem about `StoredSpec` is
  one about all versions at once.
- `StoragesKeepApart` and `ToldOwnWatchers` need `AtHome`: the key a thread works on, and the
  items it has yet to delete, belong to the storage whose request it serves. Each handler is shown to
  stay `Within` its storage: it changes rows of that storage only, sends events about its reports
  only, and a thread that writes is the one to announce next. `ToldOwnWatchers` is then inductive with `AtHome`.
- `InformersKnow` is the argument of the serial theorems once more, over both stores and through
  restarts. `ServingInv` says that no two threads work on a common report (`Apart`), that what a
  thread is about to announce is what the store holds (`Fits`), and that the last event about a report
  tells what is stored unless a thread is about to announce another (`LastEventTells`). Every
  handler step is a `HandlerStep`: it only reads, or it writes the report it announces next, or it sends
  that event. `Knows` is what carries an informer along: if no event about a report is to come
  (`WasTold`), what the informer has is what is stored. A list makes it so, receiving the last event
  makes it so, a watch keeps it by adding what it skips to `missed`, and the end of the process by
  adding everything. A server-side apply writes the report it read only over the map, so the
  invariant also says which store a serving process has (`HasStore`). TLC checked it over the
  instance of `server`.
- The broadcaster's `Inv` has six parts. `MutexInv`: who sends or waits holds the mutex. `QueueInv`:
  the common channel holds the end of the log in order, and a function only as its last item,
  since the caller that waits for it keeps the mutex. `LoopInv`: the watchers an event has yet to
  reach are registered, each once. `LifeInv`: who follows is registered, who is not has nothing.
  `FollowInv`: what a watcher has read and what is in its channel count on from where it
  began, up to the event the loop is at. `NothingLost` then puts three counted sequences together
  (`CountingOn`), and a step of the loop that runs a `Watch` is the `Join` of `EventLog`.
- `NobodyWaitsInACircle` adds `HeldInv`, the converse of `MutexInv`: who has the mutex sends or waits, and who waits
  has its function at the end of the common channel. So if the loop has nothing to hand on
  and nothing to take, the channel is empty, nobody waits, and whoever has the mutex, or the first who wants it, can go on. If it has,
  `LifeInv` says that the watcher it is at follows, or is stopped and may be passed over.
- `WatchedHandlers` and `WatchedChannel` take each step of `WatchedReports` to a step of either part or a stutter. The
  broadcaster of `WatchedReports` and the one that theorems are about are two instances of one
  module; `SameSpec` says that they are the same.
- `WatchersMissNoWrite` puts `NoWriteForgotten` and `NothingLost` together: the event of a write is in the log, and
  a watcher has, or has on its way, the log from where it joined. What is missing is that the events of the writes made since it
  began to follow come after that place. That is `SinceInv`: an event in the log before it is that of a write no later than `since[w]`.
- `SerialWatchersReadTheStore`: a watcher that has all of the log since it joined has, of the events it read about a
  report, as the last one the last of the log (`LastReadIsLatest`); `WatchersConverge` says what that one shows.
- `SharedMapIsLastWriters` is an induction after all. `SharedLabels` is a fold, which the community modules define by
  `CHOOSE` of a recursive function. The closed form (`Merged`: of each label the value of the last item that has it)
  satisfies the function's equation (`MergedIsAFold`), so there is such a function; and every function that satisfies it is
  the closed form (`FoldsAreMerged`), since there is no least number of items for which the two differ.
- `SelectorKeepsAllOrNothing` uses of `SharedLabels` only that it is the same for
  all items.
- `BucketsAlwaysIncrease` goes by the place of the timeout among the buckets; one that
  is inserted is above its lower neighbour because it was not skipped, and one that was skipped is close to a
  neighbour (the lemma `BucketsPinpointTimeout`). An accepted resolution is never skipped
  (`AcceptedResolutionIsABucket`): it is the last bucket, ten seconds, or above it and added.

Only model-checked: liveness (`ActionsReturn`, `WatchAndStopReturn`, the fairness of `FollowsTheLog`,
`RequestsAnswered`, `ChangesArrive`, `RequestsEnd`, `InformersConverge`). Fairness and `ENABLED` are
out of the prover's reach. What is proved towards it: a request has ever fewer calls to make
(`RequestsHaveAnEnd`), and nobody waits in a circle for the broadcaster (`HandlersWaitInNoCircle`).

Only proved: `KineReportsNeverChange`, which does not hold of the instance of `storages`
(`FirstRevision` is 1 there), and the refinements between the concrete modules
(`MapStoreServesPolicyReports`, `VersionsImplementStorages`).

## 5. Findings

With a run that shows them:

1. *Lost update* (`polr.go:371`, run `lost_update`). The version comes from a read
   that another update may follow, and the in-memory store ignores revisions.
2. *Dry-run apply writes* (`polr.go:141`, run `dry_apply`).
3. *Watchers diverge* (`polr.go:127`, run `diverge`).
4. *Selectors do not select* (`polr.go:76`, run `selector_ignored`). The same list
   is what `DeleteCollection` deletes.
5. *Informers miss changes* (`polr.go:252`, run `informer_gap`). `Watch` ignores the
   resource version, so what happens between a list and the watch after it is lost;
   after a restart with `--debug`, an informer that resumes with its watch keeps
   every report that was lost.

Shown by properties and theorems of the passing runs:

6. No cluster report can be stored: `createCpolr` calls the store's `Update`
   (`cpolr.go:341`; `ClusterReportsNeverAppear`). So none is ever found: an apply of one fails
   for want of an object (`cpolr.go:129-131`), and those who watch cluster reports
   are never told anything (`ClusterEventsNeverSent`). An apply of a policy report that is deleted
   between its two store calls is announced and answered with success, although the store refused it
   (`polr.go:141`; the `Claim` of `ReportFeed`).
7. With kine no report can be deleted, nor any updated unless the database has counted
   nothing before the first report: the handlers pass their own counter for the database's revision (`polr.go:380`, `387`;
   `KineReportsNeverVanish`, `KineFreezesReports`).
8. A list over all namespaces finds nothing (`polr.go:291`; `ListFindsItsOwn`).

Evident from the code, too shallow for a property:

9. Without `--debug` the server never serves: `utils.Endpoints` is empty
   (`pkg/utils/consts.go:18`), no code passes `WithEndpoints`, and the client refuses to be
   made without one. `manifests/` start it with `--debug`.
10. A PUT replaces the UID of the stored report by whatever the client's object has
    (`polr.go:179`).
11. An update between the read and the deletion of `Delete` makes the `Deleted` event
    carry a report older than the one deleted (`polr.go:212`); `DeletedIsLastState` holds
    only for serial clients.
12. `Watch` ignores namespace and selector (`polr.go:251`).
13. `listPolr` leaks not only labels: annotations, scope and results of earlier items stay in
    the shared variable too (`polr.go:335`).
14. The readiness probe always succeeds (`pkg/server/server.go:65`).

## 6. Not modelled

- OpenAPI definitions: generated descriptions of types.
- Registration of types, flags, metrics and probes: tables and wiring without state
  that changes after start-up. What of `cmd/` and `pkg/server/` decides whether the process
  serves is in `PolicyServer`.
- `Put` and `Close` of the in-memory store: called by no code in this repository.
  The mutex inside a store call: its methods lock it first and release it last, so a call is
  one step.
- Tables (`table.go` and its copies): the layout of what clients print; no state depends on it.
- Request contexts and their deadlines: no store call takes one.
- Within the handlers: field selectors, table options, JSON errors (what is stored
  is what was encoded), timestamps, and floating point.
- kine's own failures: a lost connection is an error the handlers treat like any other
  failed call, except that its write may have happened; the client is external.

## 7. What is left

1. The serial theorems for both stores at once: `StoredSpec` with kine, where an update or a
   deletion may be refused (`conflict`) although nobody else works on the report.
2. Informers of concurrent clients; cluster reports and kine with the broadcaster itself.
3. kine calls whose answer is lost.
