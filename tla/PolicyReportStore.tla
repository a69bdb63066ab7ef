-------------------------- MODULE PolicyReportStore --------------------------
(***************************************************************************)
(* The REST storage of policy reports, polrStore of pkg/api/polr.go, served*)
(* to concurrent requests.  Each request runs in a goroutine of the API    *)
(* server, a "thread" here.  A thread shares nothing with the others but   *)
(* the key-value store and the watch broadcaster; one store call or one    *)
(* broadcaster call is one step, and what a handler computes between two   *)
(* calls is folded into the step before it.                                *)
(***************************************************************************)
EXTENDS InMemoryDb, ReportList, FiniteSets

CONSTANTS
    Namespaces, Names,  \* a storage key is a pair <<namespace, name>>
    LabelMaps,          \* the labels a client may give a report
    Selectors,          \* the label selectors of DeleteCollection
    Threads,            \* the requests the API server handles at a time
    Verbs,              \* the operations clients use
    NoRequest,          \* a thread that serves nothing
    SerialClients,      \* clients never overlap requests on the same report
    ApplyCreates,       \* the API server builds an object for a missing report
    MaxCalls            \* bound: requests accepted in a behaviour

AllVerbs == {"create", "update", "apply", "delete", "deletecollection"}

ASSUME KeysAssumption == Keys \subseteq Namespaces \X Names
ASSUME VerbsAssumption == Verbs \subseteq AllVerbs
ASSUME FlagsAssumption == {SerialClients, ApplyCreates} \subseteq BOOLEAN

(***************************************************************************)
(* A report is reduced to the fields the handlers set or look at.  A UID is*)
(* the number of the write that created it, 0 for an absent one.           *)
(***************************************************************************)
Report == [uid : Nat, rv : Nat, labels : LabelMaps]

VARIABLES
    pc,      \* pc[t]: the next call thread t makes, "idle" between requests
    req,     \* req[t]: the request of t and the report it works on
    todo,    \* todo[t]: the keys a DeleteCollection has yet to delete
    res,     \* res[t]: the outcome t last replied with, "none" until it does
    log,     \* the events the broadcaster accepted, in order
    writes,  \* how many times the store has changed: numbers the writes
    calls    \* how many requests were accepted

vars == <<db, pc, req, todo, res, log, writes, calls>>

Request == [verb : AllVerbs, key : Keys, dry : BOOLEAN,
            obj : Report \cup {NoReport}, seq : Nat]

Event == [type : {"Added", "Deleted"}, key : Keys,
          obj : Report \cup {NoReport}, seq : Nat, again : BOOLEAN]

ASSUME NoReportAssumption == NoReport \notin Report \cup Event
ASSUME NoRequestAssumption == NoRequest \notin Request \cup Event

NoKeys == << >>

Init ==
    /\ DbInit
    /\ pc = [t \in Threads |-> "idle"]
    /\ req = [t \in Threads |-> NoRequest]
    /\ todo = [t \in Threads |-> NoKeys]
    /\ res = [t \in Threads |-> "none"]
    /\ log = << >>
    /\ writes = 0
    /\ calls = 0

-----------------------------------------------------------------------------
(* Steps of a handler.                                                     *)

\* keyForList: the keys of a namespace.
KeysOf(ns) == {k \in Keys : k[1] = ns}

WorkingOn(t) ==
    CASE req[t] = NoRequest -> {}
      [] req[t] # NoRequest /\ req[t].verb = "deletecollection" ->
             KeysOf(req[t].key[1])
      [] OTHER -> {req[t].key}

\* The API server hands a request on the keys ks to thread t.
Accept(t, verb, ks) ==
    /\ pc[t] = "idle"
    /\ verb \in Verbs
    /\ calls < MaxCalls
    /\ SerialClients => \A u \in Threads : ks \cap WorkingOn(u) = {}
    /\ calls' = calls + 1

\* Thread t returns from its request.
Reply(t, outcome) ==
    /\ pc' = [pc EXCEPT ![t] = "idle"]
    /\ req' = [req EXCEPT ![t] = NoRequest]
    /\ todo' = [todo EXCEPT ![t] = NoKeys]
    /\ res' = [res EXCEPT ![t] = outcome]

\* Thread t goes on to the call named by label, with request r.
Continue(t, label, r) ==
    /\ pc' = [pc EXCEPT ![t] = label]
    /\ req' = [req EXCEPT ![t] = r]
    /\ res' = [res EXCEPT ![t] = "none"]
    /\ UNCHANGED todo

\* The store has changed: number the write and announce it next.
Written(t, r) ==
    /\ writes' = writes + 1
    /\ Continue(t, "announce", [r EXCEPT !.seq = writes + 1])

NewRequest(verb, k, dry, obj) ==
    [verb |-> verb, key |-> k, dry |-> dry, obj |-> obj, seq |-> 0]

-----------------------------------------------------------------------------
(* Create.                                                                 *)

\* A new report is counted like one that is updated.
CreatedReportIncremented(labels) == [uid |-> writes + 1, rv |-> 2, labels |-> labels]

\* createPolr: resource version 1 and a new UID, whatever the client sent.
CreatedReport(labels) == [uid |-> writes + 1, rv |-> 1, labels |-> labels]

CreatePolr(t, r) ==
    \E err \in {"none", "exists"} :
        /\ DbCreate(r.key, r.obj, err)
        /\ IF err = "none" THEN Written(t, r)
                           ELSE Reply(t, err) /\ UNCHANGED writes

CreateReport(t, k, labels, dry) ==
    /\ Accept(t, "create", {k})
    /\ \/ Reply(t, "rejected") /\ UNCHANGED <<db, writes>>  \* Strict validation
       \/ dry /\ Reply(t, "ok") /\ UNCHANGED <<db, writes>>
       \/ ~dry /\ CreatePolr(t, NewRequest("create", k, dry, CreatedReport(labels)))
    /\ UNCHANGED log

-----------------------------------------------------------------------------
(* Update, when forceAllowCreate is false: PUT and the patches.            *)

\* The dry-run flag is not looked at.
UpdateGetIgnoringDryRun(t, k, labels, uid, dry) ==
    /\ Accept(t, "update", {k})
    /\ \/ ~Found(k) /\ Reply(t, "missing")
       \/ Found(k) /\ Reply(t, "rejected")
       \/ Found(k) /\ Continue(t, "reread",
              NewRequest("update", k, dry, [uid |-> uid, rv |-> 0, labels |-> labels]))
    /\ UNCHANGED <<db, log, writes>>

\* The client's object names the UID it likes; nothing compares it.
UpdateGet(t, k, labels, uid, dry) ==
    /\ Accept(t, "update", {k})
    /\ \/ ~Found(k) /\ Reply(t, "missing")
       \/ Found(k) /\ Reply(t, "rejected")  \* UpdatedObject, Strict validation
       \/ Found(k) /\ dry /\ Reply(t, "ok")
       \/ Found(k) /\ ~dry /\ Continue(t, "reread",
              NewRequest("update", k, dry, [uid |-> uid, rv |-> 0, labels |-> labels]))
    /\ UNCHANGED <<db, log, writes>>

\* The resource version is copied, not incremented.
UpdateRereadKeepsVersion(t) ==
    /\ pc[t] = "reread"
    /\ \/ ~Found(req[t].key) /\ Reply(t, "missing")
       \/ Found(req[t].key) /\ Continue(t, "update",
              [req[t] EXCEPT !.obj.rv = db[req[t].key].rv])
    /\ UNCHANGED <<db, log, writes, calls>>

\* The report has gone, which is as good as a success.
UpdateRereadForgives(t) ==
    /\ pc[t] = "reread"
    /\ \/ ~Found(req[t].key) /\ Reply(t, "ok")
       \/ Found(req[t].key) /\ Continue(t, "update",
              [req[t] EXCEPT !.obj.rv = db[req[t].key].rv + 1])
    /\ UNCHANGED <<db, log, writes, calls>>

\* updatePolr reads the report again for the resource version it increments.
UpdateReread(t) ==
    /\ pc[t] = "reread"
    /\ \/ ~Found(req[t].key) /\ Reply(t, "missing")
       \/ Found(req[t].key) /\ Continue(t, "update",
              [req[t] EXCEPT !.obj.rv = db[req[t].key].rv + 1])
    /\ UNCHANGED <<db, log, writes, calls>>

UpdateStore(t) ==
    /\ pc[t] = "update"
    /\ \E err \in {"none", "missing"} :
           /\ DbUpdate(req[t].key, req[t].obj, err)
           /\ IF err = "none" THEN Written(t, req[t])
                              ELSE Reply(t, err) /\ UNCHANGED writes
    /\ UNCHANGED <<log, calls>>

-----------------------------------------------------------------------------
(* Update, when forceAllowCreate is true: server-side apply.               *)

\* The error of getPolr is dropped, and so is that of UpdatedObject: when it
\* returns no object, the type assertion panics and the request fails.  That
\* is the case when it is handed the nil report of a failed getPolr, unless
\* ApplyCreates.  The dry-run flag is read but not looked at on this path.
ApplyGet(t, k, labels, dry) ==
    /\ Accept(t, "apply", {k})
    /\ \/ Reply(t, "rejected")
       \/ /\ Found(k) \/ ApplyCreates
          /\ Continue(t, "apply", NewRequest("apply", k, dry,
                 [uid |-> IF Found(k) THEN db[k].uid ELSE 0, rv |-> 1, labels |-> labels]))
    /\ UNCHANGED <<db, log, writes>>

\* updatePolr(polr, true); its error is dropped and the event sent regardless.
\* Sequence number 0 marks an event that announces no write.
ApplyStore(t) ==
    /\ pc[t] = "apply"
    /\ \E err \in {"none", "missing"} :
           /\ DbUpdate(req[t].key, req[t].obj, err)
           /\ IF err = "none" THEN Written(t, req[t])
                              ELSE Continue(t, "announce", req[t]) /\ UNCHANGED writes
    /\ UNCHANGED <<log, calls>>

-----------------------------------------------------------------------------
(* Delete and DeleteCollection.                                            *)

\* The report that was found is not kept for the event.
FindForDeleteKeepsNothing(t, r) ==
    \/ ~Found(r.key) /\ Reply(t, "missing")
    \/ Found(r.key) /\ Reply(t, "rejected")
    \/ Found(r.key) /\ r.dry /\ Reply(t, "ok")
    \/ Found(r.key) /\ ~r.dry /\ Continue(t, "delete", r)

\* The first half of Delete: find the report and validate its deletion.
FindForDelete(t, r) ==
    \/ ~Found(r.key) /\ Reply(t, "missing")
    \/ Found(r.key) /\ Reply(t, "rejected")  \* deleteValidation
    \/ Found(r.key) /\ r.dry /\ Reply(t, "ok")
    \/ Found(r.key) /\ ~r.dry /\ Continue(t, "delete", [r EXCEPT !.obj = db[r.key]])

DeleteGet(t, k, dry) ==
    /\ Accept(t, "delete", {k})
    /\ FindForDelete(t, NewRequest("delete", k, dry, NoReport))
    /\ UNCHANGED <<db, log, writes>>

\* The broadcast of a deletion is forgotten.
DeleteStoreSilently(t) ==
    /\ pc[t] = "delete"
    /\ \E err \in {"none", "missing"} :
           /\ DbDelete(req[t].key, err)
           /\ writes' = IF err = "none" THEN writes + 1 ELSE writes
           /\ Reply(t, IF err = "none" THEN "ok" ELSE err)
    /\ UNCHANGED <<log, calls>>

\* deletePolr, with the report that was read before.  A failure aborts the
\* collection that the deletion may be part of.
DeleteStore(t) ==
    /\ pc[t] = "delete"
    /\ \E err \in {"none", "missing"} :
           /\ DbDelete(req[t].key, err)
           /\ IF err = "none" THEN Written(t, req[t])
                              ELSE Reply(t, err) /\ UNCHANGED writes
    /\ UNCHANGED <<log, calls>>

\* The orders in which the iteration over the Go map may meet the keys of S.
Orders(S) == {f \in [1..Cardinality(S) -> S] : \A k \in S : \E i \in DOMAIN f : f[i] = k}

\* The loop does not move on from the item it deletes.
NextItemKeepsIt(t, items) ==
    \E i \in DOMAIN items :
        /\ \A j \in DOMAIN items : i <= j
        /\ pc' = [pc EXCEPT ![t] = "collect"]
        /\ req' = [req EXCEPT ![t] =
               NewRequest("deletecollection", items[i], FALSE, NoReport)]
        /\ todo' = [todo EXCEPT ![t] = items]
        /\ res' = [res EXCEPT ![t] = "none"]

\* Go on with the first of the remaining items, a function from positions.
NextItem(t, items) ==
    \E i \in DOMAIN items :
        /\ \A j \in DOMAIN items : i <= j
        /\ pc' = [pc EXCEPT ![t] = "collect"]
        /\ req' = [req EXCEPT ![t] =
               NewRequest("deletecollection", items[i], FALSE, NoReport)]
        /\ todo' = [todo EXCEPT ![t] = [j \in DOMAIN items \ {i} |-> items[j]]]
        /\ res' = [res EXCEPT ![t] = "none"]

\* List with the selector; nothing is locked between it and the deletions.
CollectionList(t, ns, selector, dry) ==
    /\ Accept(t, "deletecollection", KeysOf(ns))
    /\ \E order \in Orders({k \in KeysOf(ns) : Found(k)}) :
           LET kept == Kept([i \in DOMAIN order |-> db[order[i]].labels], selector)
           IN  IF dry \/ kept = {}
               THEN Reply(t, "ok")
               ELSE NextItem(t, [i \in kept |-> order[i]])
    /\ UNCHANGED <<db, log, writes>>

CollectionItem(t) ==
    /\ pc[t] = "collect"
    /\ FindForDelete(t, req[t])
    /\ UNCHANGED <<db, log, writes, calls>>

-----------------------------------------------------------------------------
(* The broadcaster's Action, an append to its queue.                       *)

\* Deletions are announced as Added like everything else.
EventTypeIsAdded(r) == "Added"

\* An update is announced as Added too: the code has no Modified event.
EventType(r) == IF r.verb \in {"delete", "deletecollection"} THEN "Deleted" ELSE "Added"

EventOf(r, again) ==
    [type |-> EventType(r), key |-> r.key, obj |-> r.obj, seq |-> r.seq, again |-> again]

\* The event goes out twice, from the handler and from a deferred call.
AnnounceTwice(t) ==
    /\ pc[t] = "announce"
    /\ log' = log \o <<EventOf(req[t], FALSE), EventOf(req[t], FALSE)>>
    /\ IF req[t].verb = "deletecollection"
       THEN Continue(t, "announceAgain", req[t])
       ELSE Reply(t, "ok")
    /\ UNCHANGED <<db, writes, calls>>

Announce(t) ==
    /\ pc[t] = "announce"
    /\ log' = Append(log, EventOf(req[t], FALSE))
    /\ IF req[t].verb = "deletecollection"
       THEN Continue(t, "announceAgain", req[t])
       ELSE Reply(t, "ok")
    /\ UNCHANGED <<db, writes, calls>>

\* The loop of DeleteCollection has no way out after its last item.
AnnounceAgainEndlessly(t) ==
    /\ pc[t] = "announceAgain" /\ DOMAIN todo[t] # {}
    /\ log' = Append(log, EventOf(req[t], TRUE))
    /\ NextItem(t, todo[t])
    /\ UNCHANGED <<db, writes, calls>>

\* DeleteCollection announces what the Delete it called has announced already.
AnnounceAgain(t) ==
    /\ pc[t] = "announceAgain"
    /\ log' = Append(log, EventOf(req[t], TRUE))
    /\ IF DOMAIN todo[t] = {} THEN Reply(t, "ok") ELSE NextItem(t, todo[t])
    /\ UNCHANGED <<db, writes, calls>>

-----------------------------------------------------------------------------
\* All requests are answered and the bound is reached: nothing is left to do.
Quiet ==
    /\ \A t \in Threads : pc[t] = "idle"
    /\ calls = MaxCalls
    /\ UNCHANGED vars

Serve(t) ==
    \/ \E k \in Keys, labels \in LabelMaps, dry \in BOOLEAN :
           \/ CreateReport(t, k, labels, dry)
           \/ \E uid \in 0..writes : UpdateGet(t, k, labels, uid, dry)
           \/ ApplyGet(t, k, labels, dry)
    \/ \E k \in Keys, dry \in BOOLEAN : DeleteGet(t, k, dry)
    \/ \E ns \in Namespaces, selector \in Selectors, dry \in BOOLEAN :
           CollectionList(t, ns, selector, dry)
    \/ UpdateReread(t) \/ UpdateStore(t)
    \/ ApplyStore(t)
    \/ DeleteStore(t) \/ CollectionItem(t)
    \/ Announce(t) \/ AnnounceAgain(t)

Next == (\E t \in Threads : Serve(t)) \/ Quiet

Spec == Init /\ [][Next]_vars
=============================================================================
