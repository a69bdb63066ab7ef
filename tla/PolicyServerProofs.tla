------------------------- MODULE PolicyServerProofs -------------------------
(***************************************************************************)
(* An informer knows the reports it has not missed: InformedUnlessMissed   *)
(* for any number of reports, threads, informers, requests, starts and     *)
(* lost connections, and over either store.                                *)
(***************************************************************************)
EXTENDS PolicyServerProperties, StoredReportProofs

-----------------------------------------------------------------------------
(* The invariant.                                                          *)

Apart == \A t, u \in Threads : t # u => WorkingOn(t) \cap WorkingOn(u) = {}

Announces(t, k) == pc[t] = "announce" /\ req[t].key = k

Silent(k) == \A t \in Threads : ~Announces(t, k)

\* The event shows what is stored under its key.
Tells(e) == IF e.type = "Deleted" THEN ~Found(e.key) ELSE Found(e.key) /\ db[e.key] = e.obj

\* The request of t fits the call it makes next, and the store fits what t
\* is about to announce.
Fits(t) ==
    /\ pc[t] = "apply" => req[t].verb = "apply" /\ debug /\ Found(req[t].key)
    /\ pc[t] \in {"reread", "update", "recreate"} => req[t].verb = "update"
    /\ pc[t] = "delete" => req[t].verb \in {"delete", "deletecollection"}
    /\ pc[t] \in {"collect", "announceAgain"} => req[t].verb = "deletecollection"
    /\ pc[t] = "announce" => Tells(EventOf(req[t], FALSE))
    /\ pc[t] = "announceAgain" => ~Found(req[t].key)
    /\ pc[t] # "idle" /\ req[t].verb = "deletecollection" =>
           \A i \in DOMAIN todo[t] : todo[t][i][1] = req[t].key[1]

\* The last event about a report shows what is stored, or another one follows.
LastEventTells ==
    \A n \in DOMAIN log :
        (\A m \in DOMAIN log : m > n => log[m].key # log[n].key) /\ Silent(log[n].key) =>
            Tells(log[n])

InformersOK ==
    /\ DOMAIN view = Informers /\ DOMAIN missed = Informers
    /\ mode \in [Informers -> {"list", "watch", "follow"}]
    /\ seen \in [Informers -> Nat]
    /\ \A i \in Informers : seen[i] <= Len(log)

\* Informer i was told all that has happened to k: its watch began before, and
\* no event is to come.
WasTold(i, k) ==
    /\ mode[i] # "list" /\ k[1] = ScopeOf[i] /\ k \notin missed[i] /\ Silent(k)
    /\ \A n \in DOMAIN log : n > seen[i] => log[n].key # k

Knows(i) == \A k \in Keys : WasTold(i, k) => Same(view[i], k)

ServingInv == Apart /\ (\A t \in Threads : Fits(t)) /\ LastEventTells

InformedInv == InformersOK /\ \A i \in Informers : Knows(i)

\* A process that got past NewStorage has a store.
HasStore == phase \in {"stored", "serving"} => debug \/ KineOpens

ServerInv == StoredInv /\ ServingInv /\ InformedInv /\ HasStore

\* Where a server-side apply does what it announces: over the map, and if the
\* API server makes no object of a report that is not there.
ApplyIsTold == "apply" \in Verbs => ~ApplyCreates /\ Endpoints = {}

-----------------------------------------------------------------------------
(* What a handler's step does to the thread, the store and the log.        *)

\* No other thread works on what request r is about.
Claims(t, r) ==
    \A u \in Threads \ {t} :
        (IF r.verb = "deletecollection" THEN KeysOf(r.key[1]) ELSE {r.key}) \cap WorkingOn(u) = {}

\* The items t has left to delete are in the namespace of request r.
ItemsMatch(t, r) ==
    r.verb = "deletecollection" => \A i \in DOMAIN todo[t] : todo[t][i][1] = r.key[1]

Placed(t) ==
    /\ Fits(t)'
    /\ \A u \in Threads \ {t} : WorkingOn(t)' \cap WorkingOn(u) = {}

HandlerStep(t) ==
    /\ Placed(t)
    /\ \/ UNCHANGED <<db, log>> /\ pc[t] # "announce"
       \/ /\ log' = log /\ pc[t] # "announce" /\ pc'[t] = "announce"
          /\ \A j \in Keys : db'[j] # db[j] => j = req'[t].key
       \/ /\ db' = db /\ pc[t] \in {"announce", "announceAgain"}
          /\ \E again \in BOOLEAN : log' = Append(log, EventOf(req[t], again))

LEMMA WorkOf ==
    ASSUME NEW t \in Threads, req[t] \in Request
    PROVE  WorkingOn(t) = IF req[t].verb = "deletecollection" THEN KeysOf(req[t].key[1])
                                                              ELSE {req[t].key}
<1>1. req[t] # NoRequest
  BY NoRequestAssumption
<1>2. QED
  BY <1>1 DEF WorkingOn

LEMMA WorkOfThen ==
    ASSUME NEW t \in Threads, req'[t] \in Request
    PROVE  WorkingOn(t)' = IF req'[t].verb = "deletecollection" THEN KeysOf(req'[t].key[1])
                                                                ELSE {req'[t].key}
<1>1. req'[t] # NoRequest
  BY NoRequestAssumption
<1>2. QED
  BY <1>1 DEF WorkingOn, KeysOf

LEMMA BusyHasRequest ==
    ASSUME StoredInv, NEW t \in Threads, pc[t] # "idle"
    PROVE  req[t] \in Request /\ req[t].key \in Keys /\ req[t].key \in WorkingOn(t)
<1>1. req[t] \in Request /\ req[t].key \in Keys
  BY DEF StoredInv, ThreadInv, Request
<1>2. QED
  BY <1>1, WorkOf DEF KeysOf

LEMMA AcceptedClaims ==
    ASSUME SerialClients, NEW t \in Threads, NEW verb, NEW r, r.verb # "deletecollection",
           Accept(t, verb, {r.key})
    PROVE  Claims(t, r)
  BY DEF Accept, Claims

LEMMA OwnClaims ==
    ASSUME StoredInv, ServingInv, NEW t \in Threads, pc[t] # "idle",
           NEW r, r.key = req[t].key, r.verb = req[t].verb
    PROVE  Claims(t, r) /\ ItemsMatch(t, r)
<1>1. req[t] \in Request
  BY BusyHasRequest
<1>2. Claims(t, r)
  BY <1>1, WorkOf DEF ServingInv, Apart, Claims
<1>3. ItemsMatch(t, r)
  BY DEF ServingInv, Fits, ItemsMatch
<1>4. QED
  BY <1>2, <1>3

LEMMA ReplyPlaces ==
    ASSUME StoredInv, NEW t \in Threads, NEW outcome, Reply(t, outcome)
    PROVE  Placed(t)
<1>1. pc'[t] = "idle" /\ req'[t] = NoRequest
  BY DEF StoredInv, ThreadFuns, Reply
<1>2. WorkingOn(t)' = {}
  BY <1>1 DEF WorkingOn
<1>3. QED
  BY <1>1, <1>2 DEF Placed, Fits

LEMMA ContinuePlaces ==
    ASSUME StoredInv, NEW t \in Threads, NEW stage, NEW r \in Request, Continue(t, stage, r),
           Claims(t, r), ItemsMatch(t, r),
           stage \in {"reread", "update", "recreate", "apply", "delete",
                       "announce", "announceAgain"},
           stage = "apply" => r.verb = "apply" /\ debug' /\ Found(r.key)',
           stage \in {"reread", "update", "recreate"} => r.verb = "update",
           stage = "delete" => r.verb \in {"delete", "deletecollection"},
           stage = "announce" => Tells(EventOf(r, FALSE))',
           stage = "announceAgain" => r.verb = "deletecollection" /\ ~Found(r.key)'
    PROVE  Placed(t) /\ pc'[t] = stage /\ req'[t] = r
<1>1. pc'[t] = stage /\ req'[t] = r /\ todo'[t] = todo[t]
  BY DEF StoredInv, ThreadFuns, Continue
<1>2. WorkingOn(t)' = IF r.verb = "deletecollection" THEN KeysOf(r.key[1]) ELSE {r.key}
  BY <1>1, WorkOfThen
<1>3. \A u \in Threads \ {t} : WorkingOn(t)' \cap WorkingOn(u) = {}
  BY <1>2 DEF Claims
<1>4. Fits(t)'
  BY <1>1 DEF Fits, ItemsMatch, Found, Tells, EventOf, EventType
<1>5. QED
  BY <1>1, <1>3, <1>4 DEF Placed

LEMMA NextItemPlaces ==
    ASSUME StoredInv, NEW t \in Threads, NEW items, NEW ns, NextItem(t, items),
           \A i \in DOMAIN items : items[i] \in KeysOf(ns),
           \A u \in Threads \ {t} : KeysOf(ns) \cap WorkingOn(u) = {}
    PROVE  Placed(t)
<1>1. PICK i \in DOMAIN items :
          /\ pc' = [pc EXCEPT ![t] = "collect"]
          /\ req' = [req EXCEPT ![t] = NewRequest("deletecollection", items[i], FALSE, NoReport)]
          /\ todo' = [todo EXCEPT ![t] = [j \in DOMAIN items \ {i} |-> items[j]]]
  BY DEF NextItem
<1>2. items[i] \in Keys /\ items[i][1] = ns
  BY DEF KeysOf
<1>3. /\ pc'[t] = "collect" /\ req'[t] = NewRequest("deletecollection", items[i], FALSE, NoReport)
      /\ todo'[t] = [j \in DOMAIN items \ {i} |-> items[j]]
  BY <1>1 DEF StoredInv, ThreadFuns
<1>4. req'[t] \in Request /\ req'[t].verb = "deletecollection" /\ req'[t].key = items[i]
  BY <1>2, <1>3 DEF NewRequest, Request, AllVerbs
<1>5. WorkingOn(t)' = KeysOf(ns)
  BY <1>2, <1>4, WorkOfThen
<1>6. \A j \in DOMAIN todo'[t] : todo'[t][j][1] = req'[t].key[1]
  BY <1>2, <1>3, <1>4 DEF KeysOf
<1>7. Fits(t)'
  BY <1>3, <1>4, <1>6 DEF Fits
<1>8. QED
  BY <1>5, <1>7 DEF Placed

(* A step that only reads: it replies or goes on to the next call.         *)
LEMMA ReplyStep ==
    ASSUME StoredInv, NEW t \in Threads, NEW outcome, Reply(t, outcome),
           UNCHANGED <<db, log>>, pc[t] # "announce"
    PROVE  HandlerStep(t)
  BY ReplyPlaces DEF HandlerStep

LEMMA ReadStep ==
    ASSUME StoredInv, NEW t \in Threads, NEW stage, NEW r \in Request, Continue(t, stage, r),
           Claims(t, r), ItemsMatch(t, r), UNCHANGED <<db, log, debug>>, pc[t] # "announce",
           stage \in {"reread", "update", "recreate", "apply", "delete"},
           stage = "apply" => r.verb = "apply" /\ debug /\ Found(r.key),
           stage \in {"reread", "update", "recreate"} => r.verb = "update",
           stage = "delete" => r.verb \in {"delete", "deletecollection"}
    PROVE  HandlerStep(t)
<1>1. Found(r.key)' <=> Found(r.key)
  BY DEF Found
<1>2. Placed(t)
  BY <1>1, ContinuePlaces
<1>3. QED
  BY <1>2 DEF HandlerStep

(* A call of the store that has returned.                                  *)
LEMMA CallStep ==
    ASSUME StoredInv, NEW t \in Threads, NEW r \in Request, NEW err, AfterCall(t, r, err),
           Claims(t, r), ItemsMatch(t, r), log' = log, pc[t] # "announce",
           err # "none" => db' = db,
           err = "none" => Tells(EventOf(r, FALSE))',
           \A j \in Keys : db'[j] # db[j] => j = r.key
    PROVE  HandlerStep(t)
<1>1. CASE err = "none"
  <2>1. PICK q : q = [r EXCEPT !.seq = writes + 1]
    OBVIOUS
  <2>2. q \in Request /\ q.key = r.key /\ q.verb = r.verb /\ q.obj = r.obj
    BY <2>1 DEF Request, StoredInv, CountsOK
  <2>3. Continue(t, "announce", q)
    BY <1>1, <2>1 DEF AfterCall, Written
  <2>4. Claims(t, q) /\ ItemsMatch(t, q)
    BY <2>2 DEF Claims, ItemsMatch
  <2>5. Tells(EventOf(q, FALSE))'
    BY <1>1, <2>2 DEF Tells, EventOf, EventType, Found
  <2>6. Placed(t) /\ pc'[t] = "announce" /\ req'[t] = q
    BY <2>2, <2>3, <2>4, <2>5, ContinuePlaces
  <2>7. QED
    BY <2>2, <2>6 DEF HandlerStep
<1>2. CASE err # "none"
  BY <1>2, ReplyStep DEF AfterCall
<1>3. QED
  BY <1>1, <1>2

(* What a call that stores a report, or removes one, leaves in the store.  *)
LEMMA StoringCall ==
    ASSUME StoredInv, NEW t \in Threads, NEW r \in Request,
           r.verb \in {"create", "update", "apply"},
           r.obj \in Report, NEW err, AfterCall(t, r, err), Claims(t, r),
           StoreCreate(r.key, r.obj, err) \/ \E rev : StoreUpdate(r.key, rev, r.obj, err),
           log' = log, pc[t] # "announce"
    PROVE  HandlerStep(t)
<1>1. r.key \in Keys /\ r.obj # NoReport /\ db \in [Keys -> Report \cup {NoReport}]
  BY NoReportAssumption DEF Request, StoredInv, RowsOK
<1>2. \/ err = "none" /\ db' = [db EXCEPT ![r.key] = r.obj]
      \/ err # "none" /\ db' = db
  BY DEF StoreCreate, StoreUpdate, DbCreate, DbUpdate, KineCreate, KineUpdate, Commit, Abort
<1>3. \A j \in Keys : db'[j] # db[j] => j = r.key
  BY <1>1, <1>2
<1>4. err = "none" => Tells(EventOf(r, FALSE))'
  BY <1>1, <1>2 DEF Tells, EventOf, EventType, Found
<1>5. ItemsMatch(t, r)
  BY DEF ItemsMatch
<1>6. QED
  BY <1>2, <1>3, <1>4, <1>5, CallStep

LEMMA RemovingCall ==
    ASSUME StoredInv, NEW t \in Threads, NEW r \in Request,
           r.verb \in {"delete", "deletecollection"},
           NEW err, AfterCall(t, r, err), Claims(t, r), ItemsMatch(t, r),
           NEW rev, StoreDelete(r.key, rev, err), log' = log, pc[t] # "announce"
    PROVE  HandlerStep(t)
<1>1. r.key \in Keys /\ db \in [Keys -> Report \cup {NoReport}]
  BY DEF Request, StoredInv, RowsOK
<1>2. \/ err = "none" /\ db' = [db EXCEPT ![r.key] = NoReport]
      \/ err # "none" /\ db' = db
  BY DEF StoreDelete, DbDelete, KineDelete, Commit, Abort
<1>3. \A j \in Keys : db'[j] # db[j] => j = r.key
  BY <1>1, <1>2
<1>4. err = "none" => Tells(EventOf(r, FALSE))'
  BY <1>1, <1>2 DEF Tells, EventOf, EventType, Found
<1>5. QED
  BY <1>2, <1>3, <1>4, CallStep

LEMMA FindStep ==
    ASSUME StoredInv, NEW t \in Threads, NEW r \in Request,
           r.verb \in {"delete", "deletecollection"}, Claims(t, r), ItemsMatch(t, r),
           FindForDelete(t, r), UNCHANGED <<db, log, debug>>, pc[t] # "announce"
    PROVE  HandlerStep(t)
<1> DEFINE q == [r EXCEPT !.obj = db[r.key]]
<1>1. db[r.key] \in Report \cup {NoReport}
  BY DEF Request, StoredInv, RowsOK
<1>2. q \in Request /\ q.key = r.key /\ q.verb = r.verb
  BY <1>1 DEF Request
<1>3. (\E outcome : Reply(t, outcome)) \/ Continue(t, "delete", q)
  BY DEF FindForDelete
<1> HIDE DEF q
<1>4. Claims(t, q) /\ ItemsMatch(t, q)
  BY <1>2 DEF Claims, ItemsMatch
<1>5. QED
  BY <1>2, <1>3, <1>4, ReplyStep, ReadStep

-----------------------------------------------------------------------------
(* The handlers: requests.                                                 *)

LEMMA CreateHandled ==
    ASSUME SerialClients, StoredInv, NEW t \in Threads, NEW k \in Keys, NEW labels \in LabelMaps,
           NEW dry \in BOOLEAN, PolrCreate(t, k, labels, dry) \/ CpolrCreate(t, k, labels, dry)
    PROVE  HandlerStep(t)
<1> DEFINE r == NewRequest("create", k, dry, CreatedReport(labels))
<1>1. CreatedReport(labels) \in Report
  BY CreatedReportType DEF StoredInv, CountsOK
<1>2. r \in Request /\ r.key = k /\ r.verb = "create" /\ r.obj \in Report
  BY <1>1, NewRequestType DEF AllVerbs
<1>3. Accept(t, "create", {k}) /\ log' = log
  BY DEF PolrCreate, CpolrCreate
<1>4. \/ \E outcome : Reply(t, outcome) /\ UNCHANGED db
      \/ \E err : /\ AfterCall(t, r, err)
                  /\ StoreCreate(k, r.obj, err) \/ StoreUpdate(k, 1, r.obj, err)
  BY DEF PolrCreate, CpolrCreate, CreateCpolr
<1> HIDE DEF r
<1>5. Claims(t, r)
  BY <1>2, <1>3, AcceptedClaims
<1>6. pc[t] # "announce"
  BY <1>3 DEF Accept
<1>7. ASSUME NEW outcome, Reply(t, outcome), UNCHANGED db PROVE HandlerStep(t)
  BY <1>3, <1>6, <1>7, ReplyStep
<1>8. ASSUME NEW err, AfterCall(t, r, err),
             StoreCreate(k, r.obj, err) \/ StoreUpdate(k, 1, r.obj, err)
      PROVE  HandlerStep(t)
  <2>1. StoreCreate(r.key, r.obj, err) \/ \E rev : StoreUpdate(r.key, rev, r.obj, err)
    BY <1>2, <1>8
  <2>2. log' = log
    BY <1>3
  <2>3. QED
    BY <1>2, <1>5, <1>6, <1>8, <2>1, <2>2, StoringCall
<1>9. QED
  BY <1>4, <1>7, <1>8

LEMMA ReadHandled ==
    ASSUME SerialClients, StoredInv, NEW t \in Threads, NEW k \in Keys, NEW labels \in LabelMaps,
           NEW dry \in BOOLEAN,
           \/ \E uid \in 0..writes : UpdateGet(t, k, labels, uid, dry)
           \/ CpolrUpdate(t, k, labels, dry),
           debug' = debug
    PROVE  HandlerStep(t)
<1>1. Accept(t, "update", {k}) /\ UNCHANGED <<db, log>>
  BY DEF UpdateGet, CpolrUpdate
<1>2. pc[t] # "announce"
  BY <1>1 DEF Accept
<1>3. ASSUME NEW outcome, Reply(t, outcome) PROVE HandlerStep(t)
  BY <1>1, <1>2, <1>3, ReplyStep
<1>4. ASSUME NEW obj \in Report, NEW stage \in {"reread", "recreate"},
             Continue(t, stage, NewRequest("update", k, dry, obj))
      PROVE  HandlerStep(t)
  <2> DEFINE r == NewRequest("update", k, dry, obj)
  <2>1. r \in Request /\ r.key = k /\ r.verb = "update"
    BY NewRequestType DEF AllVerbs
  <2> HIDE DEF r
  <2>2. Claims(t, r) /\ ItemsMatch(t, r)
    BY <1>1, <2>1, AcceptedClaims DEF ItemsMatch
  <2>3. Continue(t, stage, r)
    BY <1>4 DEF r
  <2>4. QED
    BY <1>1, <1>2, <2>1, <2>2, <2>3, ReadStep
<1>5. ASSUME NEW uid \in 0..writes, UpdateGet(t, k, labels, uid, dry) PROVE HandlerStep(t)
  <2>1. [uid |-> uid, rv |-> 0, labels |-> labels] \in Report
    BY DEF Report, StoredInv, CountsOK
  <2>2. QED
    BY <1>3, <1>4, <1>5, <2>1 DEF UpdateGet
<1>6. CASE CpolrUpdate(t, k, labels, dry)
  <2>1. [uid |-> 0, rv |-> 1, labels |-> labels] \in Report
    BY DEF Report
  <2>2. QED
    BY <1>3, <1>4, <1>6, <2>1 DEF CpolrUpdate
<1>7. QED
  BY <1>5, <1>6

LEMMA ApplyHandled ==
    ASSUME SerialClients, ~ApplyCreates, debug, debug' = debug, StoredInv, NEW t \in Threads,
           NEW k \in Keys, NEW labels \in LabelMaps, NEW dry \in BOOLEAN,
           ApplyGet(t, k, labels, dry)
    PROVE  HandlerStep(t)
<1>1. Accept(t, "apply", {k}) /\ UNCHANGED <<db, log>>
  BY DEF ApplyGet
<1>2. pc[t] # "announce"
  BY <1>1 DEF Accept
<1>3. PICK obj : obj = [uid |-> IF Found(k) THEN db[k].uid ELSE 0, rv |-> 1, labels |-> labels]
  OBVIOUS
<1>4. PICK r : r = NewRequest("apply", k, dry, obj)
  OBVIOUS
<1>5. CASE Found(k) /\ Continue(t, "apply", r)
  <2>1. obj \in Report
    BY <1>3, <1>5, FoundIsReport DEF StoredInv, RowsOK, Report
  <2>2. r \in Request /\ r.key = k /\ r.verb = "apply"
    BY <1>4, <2>1, NewRequestType DEF AllVerbs
  <2>3. Claims(t, r) /\ ItemsMatch(t, r)
    BY <1>1, <2>2, AcceptedClaims DEF ItemsMatch
  <2>4. QED
    BY <1>1, <1>2, <1>5, <2>2, <2>3, ReadStep
<1>6. CASE Reply(t, "rejected")
  BY <1>1, <1>2, <1>6, ReplyStep
<1>7. QED
  BY <1>3, <1>4, <1>5, <1>6 DEF ApplyGet

LEMMA DeleteHandled ==
    ASSUME SerialClients, StoredInv, NEW t \in Threads, NEW k \in Keys, NEW dry \in BOOLEAN,
           DeleteGet(t, k, dry), debug' = debug
    PROVE  HandlerStep(t)
<1> DEFINE r == NewRequest("delete", k, dry, NoReport)
<1>1. r \in Request /\ r.key = k /\ r.verb = "delete"
  BY NewRequestType DEF AllVerbs
<1>2. Accept(t, "delete", {k}) /\ FindForDelete(t, r) /\ UNCHANGED <<db, log>>
  BY DEF DeleteGet
<1> HIDE DEF r
<1>3. Claims(t, r) /\ ItemsMatch(t, r)
  BY <1>1, <1>2, AcceptedClaims DEF ItemsMatch
<1>4. pc[t] # "announce"
  BY <1>2 DEF Accept
<1>5. QED
  BY <1>1, <1>2, <1>3, <1>4, FindStep

LEMMA CollectionHandled ==
    ASSUME SerialClients, StoredInv, NEW t \in Threads, NEW ns, NEW selector, NEW dry,
           CollectionList(t, ns, selector, dry)
    PROVE  HandlerStep(t)
<1>1. Accept(t, "deletecollection", KeysOf(ns)) /\ UNCHANGED <<db, log>>
  BY DEF CollectionList
<1>2. pc[t] # "announce" /\ \A u \in Threads \ {t} : KeysOf(ns) \cap WorkingOn(u) = {}
  BY <1>1 DEF Accept
<1>3. PICK order \in Orders({j \in KeysOf(ns) : Found(j)}) :
          LET kept == Kept([i \in DOMAIN order |-> db[order[i]].labels], selector)
          IN  IF dry \/ kept = {}
              THEN Reply(t, "ok")
              ELSE NextItem(t, [i \in kept |-> order[i]])
  BY DEF CollectionList
<1> DEFINE kept == Kept([i \in DOMAIN order |-> db[order[i]].labels], selector)
           items == [i \in kept |-> order[i]]
<1>4. kept \subseteq DOMAIN order
  BY DEF Kept
<1>5. \A i \in DOMAIN order : order[i] \in KeysOf(ns)
  BY DEF Orders
<1>6. \A i \in DOMAIN items : items[i] \in KeysOf(ns)
  BY <1>4, <1>5
<1>7. CASE Reply(t, "ok")
  BY <1>1, <1>2, <1>7, ReplyStep
<1>8. CASE NextItem(t, items)
  <2> HIDE DEF items
  <2>1. Placed(t)
    BY <1>2, <1>6, <1>8, NextItemPlaces
  <2>2. QED
    BY <1>1, <1>2, <2>1 DEF HandlerStep
<1>9. QED
  BY <1>3, <1>7, <1>8

-----------------------------------------------------------------------------
(* The handlers: calls.                                                    *)

LEMMA RereadHandled ==
    ASSUME StoredInv, ServingInv, NEW t \in Threads, UpdateReread(t), debug' = debug
    PROVE  HandlerStep(t)
<1>1. pc[t] = "reread" /\ UNCHANGED <<db, log>>
  BY DEF UpdateReread
<1>2. req[t] \in Request /\ req[t].obj \in Report /\ req[t].verb = "update" /\ req[t].key \in Keys
  BY <1>1 DEF StoredInv, ThreadInv, ServingInv, Fits, Request
<1>3. CASE /\ Found(req[t].key)
           /\ Continue(t, "update", [req[t] EXCEPT !.obj.rv = db[req[t].key].rv + 1])
  <2>1. PICK r : r = [req[t] EXCEPT !.obj.rv = db[req[t].key].rv + 1]
    OBVIOUS
  <2>2. db[req[t].key].rv \in Nat
    BY <1>2, <1>3, FoundIsReport DEF StoredInv, RowsOK, Report
  <2>3. r \in Request /\ r.key = req[t].key /\ r.verb = req[t].verb
    BY <1>2, <2>1, <2>2 DEF Request, Report
  <2>4. Claims(t, r) /\ ItemsMatch(t, r)
    BY <1>1, <2>3, OwnClaims
  <2>5. QED
    BY <1>1, <1>2, <1>3, <2>1, <2>3, <2>4, ReadStep
<1>4. QED
  BY <1>1, <1>3, ReplyStep DEF UpdateReread

LEMMA StoreCallHandled ==
    ASSUME StoredInv, ServingInv, NEW t \in Threads,
           UpdateCall(t) \/ DeleteCall(t) \/ CpolrUpdateCall(t)
    PROVE  HandlerStep(t)
<1>1. pc[t] \in {"update", "delete", "recreate"} /\ log' = log
  BY DEF UpdateCall, DeleteCall, CpolrUpdateCall
<1>2. req[t] \in Request /\ req[t].obj \in Report
  BY <1>1 DEF StoredInv, ThreadInv
<1>3. CASE UpdateCall(t)
  <2>1. PICK err : /\ StoreUpdate(req[t].key, req[t].obj.rv, req[t].obj, err)
                   /\ AfterCall(t, req[t], err)
    BY <1>3 DEF UpdateCall
  <2>2. req[t].verb = "update" /\ Claims(t, req[t])
    BY <1>1, <1>2, <1>3, OwnClaims DEF UpdateCall, ServingInv, Fits
  <2>3. QED
    BY <1>1, <1>2, <2>1, <2>2, StoringCall
<1>4. CASE DeleteCall(t)
  <2>1. PICK err : StoreDelete(req[t].key, req[t].obj.rv, err) /\ AfterCall(t, req[t], err)
    BY <1>4 DEF DeleteCall
  <2>2. /\ req[t].verb \in {"delete", "deletecollection"}
        /\ Claims(t, req[t]) /\ ItemsMatch(t, req[t])
    BY <1>1, <1>2, <1>4, OwnClaims DEF DeleteCall, ServingInv, Fits
  <2>3. QED
    BY <1>1, <1>2, <2>1, <2>2, RemovingCall
<1>5. CASE CpolrUpdateCall(t)
  <2>1. PICK r : r = [req[t] EXCEPT !.obj = CreatedReport(req[t].obj.labels)]
    OBVIOUS
  <2>2. CreatedReport(req[t].obj.labels) \in Report
    BY <1>2, CreatedReportType DEF Report, StoredInv, CountsOK
  <2>3. r \in Request /\ r.obj \in Report /\ r.key = req[t].key /\ r.verb = req[t].verb
    BY <1>2, <2>1, <2>2 DEF Request
  <2>4. r.verb = "update" /\ Claims(t, r)
    BY <1>1, <1>5, <2>3, OwnClaims DEF CpolrUpdateCall, ServingInv, Fits
  <2>5. PICK err : StoreUpdate(r.key, 1, r.obj, err) /\ AfterCall(t, r, err)
    BY <1>5, <2>1 DEF CpolrUpdateCall, CreateCpolr
  <2>6. QED
    BY <1>1, <2>3, <2>4, <2>5, StoringCall
<1>6. QED
  BY <1>3, <1>4, <1>5

LEMMA ApplyCallHandled ==
    ASSUME StoredInv, ServingInv, NEW t \in Threads, ApplyCall(t)
    PROVE  HandlerStep(t)
<1>1. pc[t] = "apply" /\ log' = log
  BY DEF ApplyCall
<1>2. /\ req[t] \in Request /\ req[t].obj \in Report
      /\ req[t].verb = "apply" /\ debug /\ Found(req[t].key)
  BY <1>1 DEF StoredInv, ThreadInv, ServingInv, Fits
<1>3. PICK err : /\ StoreUpdate(req[t].key, 1, req[t].obj, err)
                 /\ IF err = "none" THEN Written(t, req[t])
                                    ELSE Continue(t, "announce", req[t]) /\ UNCHANGED writes
  BY DEF ApplyCall
<1>4. err = "none"
  BY <1>2, <1>3 DEF StoreUpdate, DbUpdate
<1>5. AfterCall(t, req[t], err) /\ Claims(t, req[t])
  BY <1>1, <1>2, <1>3, <1>4, OwnClaims DEF AfterCall
<1>6. QED
  BY <1>1, <1>2, <1>3, <1>5, StoringCall

LEMMA ItemHandled ==
    ASSUME StoredInv, ServingInv, NEW t \in Threads, CollectionItem(t), debug' = debug
    PROVE  HandlerStep(t)
<1>1. pc[t] = "collect" /\ FindForDelete(t, req[t]) /\ UNCHANGED <<db, log>>
  BY DEF CollectionItem
<1>2. req[t] \in Request /\ req[t].verb = "deletecollection"
  BY <1>1, BusyHasRequest DEF ServingInv, Fits
<1>3. Claims(t, req[t]) /\ ItemsMatch(t, req[t])
  BY <1>1, <1>2, OwnClaims
<1>4. QED
  BY <1>1, <1>2, <1>3, FindStep

LEMMA AnnounceHandled ==
    ASSUME StoredInv, ServingInv, NEW t \in Threads, Announce(t)
    PROVE  HandlerStep(t)
<1>1. /\ pc[t] = "announce" /\ db' = db
      /\ log' = Append(log, EventOf(req[t], FALSE))
  BY DEF Announce
<1>2. req[t] \in Request
  BY <1>1, BusyHasRequest
<1>3. CASE Reply(t, "ok")
  BY <1>1, <1>3, ReplyPlaces DEF HandlerStep
<1>4. CASE req[t].verb = "deletecollection" /\ Continue(t, "announceAgain", req[t])
  <2>1. PICK r : r = req[t]
    OBVIOUS
  <2>2. Claims(t, r) /\ ItemsMatch(t, r)
    BY <1>1, <1>2, <2>1, OwnClaims
  <2>3. ~Found(r.key)
    BY <1>1, <1>4, <2>1 DEF ServingInv, Fits, Tells, EventOf, EventType
  <2>4. ~Found(r.key)'
    BY <1>1, <2>3 DEF Found
  <2>5. Placed(t)
    BY <1>2, <1>4, <2>1, <2>2, <2>4, ContinuePlaces
  <2>6. QED
    BY <1>1, <2>5 DEF HandlerStep
<1>5. QED
  BY <1>3, <1>4 DEF Announce

LEMMA AnnounceAgainHandled ==
    ASSUME StoredInv, ServingInv, NEW t \in Threads, AnnounceAgain(t)
    PROVE  HandlerStep(t)
<1>1. /\ pc[t] = "announceAgain" /\ db' = db
      /\ log' = Append(log, EventOf(req[t], TRUE))
  BY DEF AnnounceAgain
<1>2. req[t] \in Request /\ req[t].verb = "deletecollection"
  BY <1>1, BusyHasRequest DEF ServingInv, Fits
<1>3. CASE Reply(t, "ok")
  BY <1>1, <1>3, ReplyPlaces DEF HandlerStep
<1>4. CASE NextItem(t, todo[t])
  <2>1. PICK items, ns : items = todo[t] /\ ns = req[t].key[1]
    OBVIOUS
  <2>2. Claims(t, req[t]) /\ ItemsMatch(t, req[t])
    BY <1>1, <1>2, OwnClaims
  <2>3. \A u \in Threads \ {t} : KeysOf(ns) \cap WorkingOn(u) = {}
    BY <1>2, <2>1, <2>2 DEF Claims
  <2>4. \A i \in DOMAIN items : items[i] \in KeysOf(ns)
    BY <1>2, <2>1, <2>2 DEF ItemsMatch, StoredInv, ThreadInv, KeysOf
  <2>5. Placed(t)
    BY <1>4, <2>1, <2>3, <2>4, NextItemPlaces
  <2>6. QED
    BY <1>1, <2>5 DEF HandlerStep
<1>5. QED
  BY <1>3, <1>4 DEF AnnounceAgain

LEMMA CommonRequestsHandled ==
    ASSUME SerialClients, "apply" \in Verbs => ~ApplyCreates /\ debug, debug' = debug,
           StoredInv, NEW t \in Threads, NEW ks \in SUBSET Keys, CommonRequests(t, ks)
    PROVE  HandlerStep(t)
<1>1. ASSUME NEW k \in ks, NEW labels \in LabelMaps, NEW dry \in BOOLEAN,
             ApplyGet(t, k, labels, dry)
      PROVE  HandlerStep(t)
  <2>1. "apply" \in Verbs
    BY <1>1 DEF ApplyGet, Accept
  <2>2. QED
    BY <1>1, <2>1, ApplyHandled
<1>2. ASSUME NEW k \in ks, NEW dry \in BOOLEAN, DeleteGet(t, k, dry) PROVE HandlerStep(t)
  BY <1>2, DeleteHandled
<1>3. ASSUME NEW ns, NEW selector, NEW dry, CollectionList(t, ns, selector, dry)
      PROVE  HandlerStep(t)
  BY <1>3, CollectionHandled
<1>4. QED
  BY <1>1, <1>2, <1>3 DEF CommonRequests

LEMMA CommonCallsHandled ==
    ASSUME StoredInv, ServingInv, NEW t \in Threads, CommonCalls(t), debug' = debug
    PROVE  HandlerStep(t)
  BY StoreCallHandled, ApplyCallHandled, ItemHandled, AnnounceHandled, AnnounceAgainHandled
     DEF CommonCalls

LEMMA ServeHandled ==
    ASSUME SerialClients, "apply" \in Verbs => ~ApplyCreates /\ debug, debug' = debug,
           StoredInv, ServingInv, NEW t \in Threads, ServePolr(t) \/ ServeCpolr(t)
    PROVE  HandlerStep(t)
<1>1. PolrKeys \in SUBSET Keys /\ CpolrKeys \in SUBSET Keys
  BY DEF PolrKeys, CpolrKeys
<1>2. CASE PolrRequests(t, PolrKeys)
  BY <1>1, <1>2, CreateHandled, ReadHandled, CommonRequestsHandled DEF PolrRequests
<1>3. CASE CpolrRequests(t, CpolrKeys)
  BY <1>1, <1>3, CreateHandled, ReadHandled, CommonRequestsHandled DEF CpolrRequests
<1>4. CASE PolrCalls(t)
  BY <1>4, RereadHandled, StoreCallHandled, CommonCallsHandled DEF PolrCalls
<1>5. CASE CpolrCalls(t)
  BY <1>5, StoreCallHandled, CommonCallsHandled DEF CpolrCalls
<1>6. QED
  BY <1>2, <1>3, <1>4, <1>5 DEF ServePolr, ServeCpolr

-----------------------------------------------------------------------------
(* A handler's step keeps the invariant.                                   *)

LEMMA WriterWorksOnIt ==
    ASSUME StoredInv', NEW t \in Threads, pc'[t] # "idle"
    PROVE  req'[t].key \in WorkingOn(t)'
<1>1. req'[t] \in Request /\ req'[t].key \in Keys
  BY DEF StoredInv, ThreadInv, Request
<1>2. QED
  BY <1>1, WorkOfThen DEF KeysOf

\* The log before and after a handler's step.
LogGrows(t) ==
    \/ log' = log
    \/ \E again \in BOOLEAN : LET e == EventOf(req[t], again)
                              IN  /\ e \in Event
                                  /\ DOMAIN log' = 1..(Len(log) + 1)
                                  /\ log'[Len(log) + 1] = e
                                  /\ \A n \in DOMAIN log : log'[n] = log[n]

LEMMA StepGrowsLog ==
    ASSUME StoredInv, NEW t \in Threads, HandlerStep(t)
    PROVE  LogGrows(t)
<1>1. log \in Seq(Event)
  BY DEF StoredInv, CountsOK
<1>2. ASSUME pc[t] \in {"announce", "announceAgain"},
             NEW again \in BOOLEAN, log' = Append(log, EventOf(req[t], again))
      PROVE  LogGrows(t)
  <2>1. EventOf(req[t], again) \in Event
    BY <1>2, BusyHasRequest, EventsHaveType
  <2>2. QED
    BY <1>1, <1>2, <2>1, AppendEvent DEF LogGrows
<1>3. QED
  BY <1>2 DEF HandlerStep, LogGrows

(* Of a report that nobody is about to announce, and of which the step has *)
(* announced nothing, nothing has changed.                                 *)
LEMMA UntoldIsUnchanged ==
    ASSUME StoredInv, NEW t \in Threads, OthersStay(t), HandlerStep(t),
           NEW k \in Keys, Silent(k)', \A n \in DOMAIN log' : n > Len(log) => log'[n].key # k
    PROVE  Silent(k) /\ db'[k] = db[k]
<1>1. \A u \in Threads \ {t} : ~Announces(u, k)
  BY DEF Silent, Announces, OthersStay
<1>2. CASE /\ pc[t] # "announce"
           /\ \/ db' = db
              \/ pc'[t] = "announce" /\ \A j \in Keys : db'[j] # db[j] => j = req'[t].key
  BY <1>1, <1>2 DEF Silent, Announces
<1>3. CASE db' = db /\ \E again \in BOOLEAN : log' = Append(log, EventOf(req[t], again))
  <2>1. PICK e : log' = Append(log, e) /\ e.key = req[t].key
    BY <1>3 DEF EventOf
  <2>2. log \in Seq(Event)
    BY DEF StoredInv, CountsOK
  <2>3. Len(log) + 1 \in DOMAIN log' /\ Len(log) + 1 > Len(log) /\ log'[Len(log) + 1] = e
    BY <2>1, <2>2
  <2>4. req[t].key # k
    BY <2>1, <2>3
  <2>5. QED
    BY <1>1, <1>3, <2>4 DEF Silent, Announces
<1>4. QED
  BY <1>2, <1>3 DEF HandlerStep

LEMMA StepKeepsApart ==
    ASSUME ServingInv, NEW t \in Threads, OthersStay(t), HandlerStep(t)
    PROVE  Apart'
<1>1. \A u \in Threads \ {t} : WorkingOn(u)' = WorkingOn(u)
  BY DEF OthersStay, WorkingOn, KeysOf
<1>2. QED
  BY <1>1 DEF ServingInv, Apart, HandlerStep, Placed

LEMMA StepKeepsFits ==
    ASSUME StoredInv, StoredInv', ServingInv, NEW t \in Threads, OthersStay(t), HandlerStep(t),
           debug' = debug, NEW u \in Threads
    PROVE  Fits(u)'
<1>1. CASE u = t
  BY <1>1 DEF HandlerStep, Placed
<1>2. CASE u # t
  <2>1. pc'[u] = pc[u] /\ req'[u] = req[u] /\ todo'[u] = todo[u] /\ Fits(u)
    BY <1>2 DEF OthersStay, ServingInv
  <2>2. pc[u] # "idle" => db'[req[u].key] = db[req[u].key]
    <3> SUFFICES ASSUME pc[u] # "idle", db'[req[u].key] # db[req[u].key] PROVE FALSE
      OBVIOUS
    <3>1. req[u].key \in Keys /\ req[u].key \in WorkingOn(u)
      BY BusyHasRequest
    <3>2. pc'[t] = "announce" /\ req'[t].key = req[u].key
      BY <3>1 DEF HandlerStep
    <3>3. req'[t].key \in WorkingOn(t)'
      BY <3>2, WriterWorksOnIt
    <3>4. QED
      BY <1>2, <3>1, <3>2, <3>3 DEF HandlerStep, Placed
  <2>3. QED
    BY <2>1, <2>2 DEF Fits, Tells, EventOf, EventType, Found
<1>3. QED
  BY <1>1, <1>2

(* What is announced is what is stored.                                    *)
LEMMA AnnouncedTells ==
    ASSUME ServingInv, NEW t \in Threads, pc[t] \in {"announce", "announceAgain"},
           NEW again \in BOOLEAN
    PROVE  Tells(EventOf(req[t], again))
<1>1. CASE pc[t] = "announce"
  BY <1>1 DEF ServingInv, Fits, Tells, EventOf, EventType
<1>2. CASE pc[t] = "announceAgain"
  BY <1>2 DEF ServingInv, Fits, Tells, EventOf, EventType
<1>3. QED
  BY <1>1, <1>2

LEMMA StepKeepsLastEvent ==
    ASSUME StoredInv, ServingInv, NEW t \in Threads, OthersStay(t), HandlerStep(t)
    PROVE  LastEventTells'
<1> SUFFICES ASSUME NEW n \in DOMAIN log', NEW e, e = log'[n], Silent(e.key)',
                    \A m \in DOMAIN log' : m > n => log'[m].key # e.key
             PROVE  Tells(e)'
  BY DEF LastEventTells, Silent, Announces, Tells, Found
<1>1. log \in Seq(Event) /\ LogGrows(t)
  BY StepGrowsLog DEF StoredInv, CountsOK
<1>2. CASE n \in DOMAIN log
  <2>1. e = log[n] /\ e.key \in Keys
    <3>1. log'[n] = log[n]
      BY <1>1, <1>2 DEF LogGrows
    <3>2. log[n] \in Event
      BY <1>1, <1>2
    <3>3. QED
      BY <3>1, <3>2 DEF Event
  <2>2. \A m \in DOMAIN log' : m > Len(log) => log'[m].key # e.key
    <3>1. Len(log) \in Nat /\ n \in 1..Len(log)
      BY <1>1, <1>2
    <3>2. DOMAIN log' \subseteq Nat
      BY <1>1 DEF LogGrows
    <3>3. QED
      BY <3>1, <3>2
  <2>3. Silent(e.key) /\ db'[e.key] = db[e.key]
    BY <2>1, <2>2, UntoldIsUnchanged
  <2>4. \A m \in DOMAIN log : m > n => log[m].key # e.key
    BY <1>1 DEF LogGrows
  <2>5. Tells(e)
    BY <1>2, <2>1, <2>3, <2>4 DEF ServingInv, LastEventTells
  <2>6. QED
    BY <2>3, <2>5 DEF Tells, Found
<1>3. CASE n \notin DOMAIN log
  <2>1. \/ log' = log
        \/ /\ db' = db /\ pc[t] \in {"announce", "announceAgain"}
           /\ \E again \in BOOLEAN : log' = Append(log, EventOf(req[t], again))
    BY DEF HandlerStep
  <2>2. db' = db /\ Tells(e)
    BY <1>1, <1>3, <2>1, AnnouncedTells
  <2>3. QED
    BY <2>2 DEF Tells, Found
<1>4. QED
  BY <1>2, <1>3

LEMMA StepKeepsServing ==
    ASSUME StoredInv, StoredInv', ServingInv, NEW t \in Threads, OthersStay(t), HandlerStep(t),
           debug' = debug
    PROVE  ServingInv'
  BY StepKeepsApart, StepKeepsFits, StepKeepsLastEvent DEF ServingInv

LEMMA StepKeepsInformed ==
    ASSUME StoredInv, ServingInv, InformedInv, NEW t \in Threads, OthersStay(t), HandlerStep(t),
           UNCHANGED informerVars
    PROVE  InformedInv'
<1>1. log \in Seq(Event) /\ LogGrows(t)
  BY StepGrowsLog DEF StoredInv, CountsOK
<1>2. InformersOK'
  <2>1. Len(log') >= Len(log)
    BY <1>1 DEF HandlerStep
  <2>2. QED
    BY <1>1, <2>1 DEF InformedInv, InformersOK, informerVars
<1>3. ASSUME NEW i \in Informers, NEW k \in Keys, WasTold(i, k)' PROVE Same(view[i], k)'
  <2>1. seen'[i] = seen[i] /\ seen[i] \in Nat /\ seen[i] <= Len(log) /\ view' = view
    BY DEF InformedInv, InformersOK, informerVars
  <2>2. \A n \in DOMAIN log' : n > seen[i] => log'[n].key # k
    BY <1>3, <2>1 DEF WasTold
  <2>3. \A n \in DOMAIN log' : n > Len(log) => log'[n].key # k
    BY <1>1, <2>1, <2>2
  <2>4. Silent(k) /\ db'[k] = db[k]
    BY <1>3, <2>3, UntoldIsUnchanged DEF WasTold
  <2>5. \A n \in DOMAIN log : n > seen[i] => log[n].key # k
    BY <1>1, <2>2 DEF LogGrows
  <2>6. WasTold(i, k)
    BY <1>3, <2>4, <2>5 DEF WasTold, informerVars
  <2>7. Same(view[i], k)
    BY <2>6 DEF InformedInv, Knows
  <2>8. QED
    BY <2>1, <2>4, <2>7 DEF Same, Found
<1>4. QED
  BY <1>2, <1>3 DEF InformedInv, Knows

-----------------------------------------------------------------------------
(* The steps of informers and of the process.                              *)

LEMMA ServingUnchanged ==
    ASSUME StoredInv, ServingInv, UNCHANGED storedVars
    PROVE  StoredInv' /\ ServingInv'
<1>1. StoredInv'
  BY NextKeepsStored
<1>2. UNCHANGED <<db, pc, req, todo, log, debug>>
  BY DEF storedVars, vars, storageVars
<1>3. Apart'
  BY <1>2 DEF ServingInv, Apart, WorkingOn, KeysOf
<1>4. \A t \in Threads : Fits(t)'
  BY <1>2 DEF ServingInv, Fits, Tells, EventOf, EventType, Found
<1>5. LastEventTells'
  BY <1>2 DEF ServingInv, LastEventTells, Silent, Announces, Tells, Found
<1>6. QED
  BY <1>1, <1>3, <1>4, <1>5 DEF ServingInv

\* A step of informer i, or one that makes it expect no more than before.
Informs(i) ==
    /\ UNCHANGED storedVars
    /\ InformersOK'
    /\ \A j \in Informers \ {i} : /\ mode'[j] = mode[j] /\ view'[j] = view[j]
                                  /\ seen'[j] = seen[j] /\ missed'[j] = missed[j]
    /\ Knows(i)'

LEMMA InformsKeepsInformed ==
    ASSUME InformedInv, NEW i \in Informers, Informs(i)
    PROVE  InformedInv'
<1>1. UNCHANGED <<db, pc, req, log>>
  BY DEF Informs, storedVars, vars
<1>2. ASSUME NEW j \in Informers \ {i} PROVE Knows(j)'
  BY <1>1 DEF Informs, InformedInv, Knows, WasTold, Silent, Announces, Same, Found
<1>3. QED
  BY <1>2 DEF Informs, InformedInv

LEMMA ListInforms ==
    ASSUME StoredInv, InformedInv, NEW i \in Informers, ListReports(i)
    PROVE  Informs(i)
<1>1. /\ UNCHANGED storedVars
      /\ mode' = [mode EXCEPT ![i] = "watch"]
      /\ seen' = [seen EXCEPT ![i] = Len(log)]
      /\ missed' = [missed EXCEPT ![i] = {}]
  BY DEF ListReports
<1>2. log' = log /\ db' = db /\ log \in Seq(Event) /\ db \in [Keys -> Report \cup {NoReport}]
  BY <1>1 DEF storedVars, vars, StoredInv, CountsOK, RowsOK
<1> DEFINE listed == {k \in KeysOf(ScopeOf[i]) : Found(k)}
<1>3. PICK order \in Orders(listed) :
          LET labelsOf == [n \in DOMAIN order |-> db[order[n]].labels]
              Listed(n) == [db[order[n]] EXCEPT !.labels = DecodedLabels(labelsOf, n)]
          IN  view' = [view EXCEPT ![i] = [k \in {order[n] : n \in DOMAIN order} |->
                  Listed(CHOOSE n \in DOMAIN order : order[n] = k)]]
  BY DEF ListReports
<1>4. {order[n] : n \in DOMAIN order} = listed
  BY DEF Orders
<1> DEFINE labelsOf == [n \in DOMAIN order |-> db[order[n]].labels]
           Listed(n) == [db[order[n]] EXCEPT !.labels = DecodedLabels(labelsOf, n)]
           at(k) == CHOOSE n \in DOMAIN order : order[n] = k
<1>5. view' = [view EXCEPT ![i] = [k \in listed |-> Listed(at(k))]]
  BY <1>3, <1>4
<1>6. /\ DOMAIN view'[i] = listed
      /\ \A k \in listed : view'[i][k] = Listed(at(k))
      /\ DOMAIN view' = Informers /\ \A j \in Informers \ {i} : view'[j] = view[j]
  BY <1>5 DEF InformedInv, InformersOK
<1>7. ASSUME NEW k \in listed
      PROVE  Listed(at(k)).uid = db[k].uid /\ Listed(at(k)).rv = db[k].rv
  <2>1. at(k) \in DOMAIN order /\ order[at(k)] = k
    BY <1>4
  <2>2. db[k] \in Report
    BY <1>2, FoundIsReport DEF KeysOf
  <2>3. QED
    BY <2>1, <2>2 DEF Report
<1> HIDE DEF listed, Listed, at
<1>8. InformersOK'
  BY <1>1, <1>2, <1>6 DEF InformedInv, InformersOK
<1>9. ASSUME NEW k \in Keys, k[1] = ScopeOf[i] PROVE Same(view[i], k)'
  <2>1. k \in listed <=> Found(k)
    BY <1>9 DEF listed, KeysOf
  <2>2. QED
    BY <1>2, <1>6, <1>7, <2>1 DEF Same, Found
<1>10. Knows(i)'
  BY <1>9 DEF Knows, WasTold
<1>11. QED
  BY <1>1, <1>6, <1>8, <1>10 DEF Informs, InformedInv, InformersOK

LEMMA WatchInforms ==
    ASSUME StoredInv, InformedInv, NEW i \in Informers, WatchReports(i)
    PROVE  Informs(i)
<1>1. /\ UNCHANGED storedVars /\ mode[i] = "watch"
      /\ mode' = [mode EXCEPT ![i] = "follow"]
      /\ seen' = [seen EXCEPT ![i] = Len(log)]
      /\ missed' = [missed EXCEPT ![i] = @ \cup {log[n].key : n \in (seen[i] + 1)..Len(log)}]
      /\ view' = view
  BY DEF WatchReports
<1>2. /\ log' = log /\ db' = db /\ pc' = pc /\ req' = req
      /\ Len(log) \in Nat /\ DOMAIN log = 1..Len(log)
  BY <1>1 DEF storedVars, vars, StoredInv, CountsOK
<1>3. InformersOK'
  BY <1>1, <1>2 DEF InformedInv, InformersOK
<1>4. ASSUME NEW k \in Keys, WasTold(i, k)' PROVE WasTold(i, k)
  <2>1. k \notin missed[i] /\ \A n \in (seen[i] + 1)..Len(log) : log[n].key # k
    BY <1>1, <1>4 DEF WasTold, InformedInv, InformersOK
  <2>2. \A n \in DOMAIN log : n > seen[i] => n \in (seen[i] + 1)..Len(log)
    BY <1>2 DEF InformedInv, InformersOK
  <2>3. Silent(k)
    BY <1>2, <1>4 DEF WasTold, Silent, Announces
  <2>4. QED
    BY <1>1, <1>4, <2>1, <2>2, <2>3 DEF WasTold
<1>5. Knows(i)'
  BY <1>1, <1>2, <1>4 DEF InformedInv, Knows, Same, Found
<1>6. QED
  BY <1>1, <1>3, <1>5 DEF Informs, InformedInv, InformersOK

LEMMA EventInforms ==
    ASSUME StoredInv, ServingInv, InformedInv, NEW i \in Informers, ReceiveEvent(i)
    PROVE  Informs(i)
<1>1. PICK e, s : e = log[seen[i] + 1] /\ s = seen[i]
  OBVIOUS
<1>2. /\ UNCHANGED storedVars /\ mode[i] = "follow" /\ s < Len(log) /\ mode' = mode
      /\ view' = [view EXCEPT ![i] = IF e.type = "Deleted" THEN Removed(@, e.key)
                                                          ELSE Stored(@, e.key, e.obj)]
      /\ seen' = [seen EXCEPT ![i] = @ + 1]
      /\ missed' = [missed EXCEPT ![i] = @ \ {e.key}]
  BY <1>1 DEF ReceiveEvent
<1>3. /\ log' = log /\ db' = db /\ pc' = pc /\ req' = req
      /\ Len(log) \in Nat /\ DOMAIN log = 1..Len(log)
  BY <1>2 DEF storedVars, vars, StoredInv, CountsOK
<1>4. /\ s \in Nat /\ s + 1 \in DOMAIN log /\ seen'[i] = s + 1
      /\ missed'[i] = missed[i] \ {e.key}
      /\ view'[i] = IF e.type = "Deleted" THEN Removed(view[i], e.key)
                                         ELSE Stored(view[i], e.key, e.obj)
  BY <1>1, <1>2, <1>3 DEF InformedInv, InformersOK
<1>5. InformersOK'
  BY <1>1, <1>2, <1>3, <1>4 DEF InformedInv, InformersOK
<1>6. ASSUME NEW k \in Keys, WasTold(i, k)' PROVE Same(view[i], k)'
  <2>1. Silent(k) /\ \A n \in DOMAIN log : n > s + 1 => log[n].key # k
    BY <1>3, <1>4, <1>6 DEF WasTold, Silent, Announces
  <2>2. CASE e.key = k
    <3>1. Tells(e)
      BY <1>1, <1>4, <2>1, <2>2 DEF ServingInv, LastEventTells
    <3>2. CASE e.type = "Deleted"
      BY <1>3, <1>4, <2>2, <3>1, <3>2 DEF Tells, Same, Found, Removed
    <3>3. CASE e.type # "Deleted"
      BY <1>3, <1>4, <2>2, <3>1, <3>3 DEF Tells, Same, Found, Stored
    <3>4. QED
      BY <3>2, <3>3
  <2>3. CASE e.key # k
    <3>1. \A n \in DOMAIN log : n > s => log[n].key # k
      BY <1>1, <1>3, <1>4, <2>1, <2>3
    <3>2. WasTold(i, k)
      BY <1>1, <1>2, <1>4, <1>6, <2>1, <2>3, <3>1 DEF WasTold
    <3>3. Same(view[i], k)
      BY <3>2 DEF InformedInv, Knows
    <3>4. /\ k \in DOMAIN view'[i] <=> k \in DOMAIN view[i]
          /\ k \in DOMAIN view[i] => view'[i][k] = view[i][k]
      BY <1>4, <2>3 DEF Removed, Stored
    <3>5. QED
      BY <1>3, <3>3, <3>4 DEF Same, Found
  <2>4. QED
    BY <2>2, <2>3
<1>7. QED
  BY <1>2, <1>5, <1>6 DEF Informs, Knows, InformedInv, InformersOK

LEMMA LosingInforms ==
    ASSUME InformedInv, NEW i \in Informers, LoseConnection(i)
    PROVE  Informs(i)
<1>1. /\ UNCHANGED storedVars /\ mode[i] = "follow" /\ UNCHANGED <<view, seen, missed>>
      /\ \E next \in {"watch", "list"} : mode' = [mode EXCEPT ![i] = next]
  BY DEF LoseConnection
<1>2. log' = log /\ db' = db /\ pc' = pc /\ req' = req
  BY <1>1 DEF storedVars, vars
<1>3. InformersOK'
  BY <1>1, <1>2 DEF InformedInv, InformersOK
<1>4. Knows(i)'
  BY <1>1, <1>2 DEF InformedInv, Knows, WasTold, Silent, Announces, Same, Found
<1>5. QED
  BY <1>1, <1>3, <1>4 DEF Informs, InformedInv, InformersOK

(* When the process ends, every report may have changed unseen.            *)
LEMMA StopKeeps ==
    ASSUME StoredInv, InformedInv, Stop
    PROVE  ServerInv'
<1>1. /\ pc' = [t \in Threads |-> "idle"] /\ req' = [t \in Threads |-> NoRequest]
      /\ todo' = [t \in Threads |-> NoKeys] /\ res' = [t \in Threads |-> "none"]
      /\ log' = << >>
      /\ db' = IF debug THEN NoReports ELSE db
      /\ UNCHANGED <<writes, calls, debug, modified, revision>>
  BY DEF Stop, storageVars
<1>2. /\ mode' = [i \in Informers |-> IF mode[i] = "follow" THEN "watch" ELSE mode[i]]
      /\ seen' = [i \in Informers |-> 0] /\ missed' = [i \in Informers |-> Keys]
      /\ view' = view
  BY DEF Stop
<1>3. StoredInv'
  <2>1. ThreadFuns' /\ CountsOK'
    BY <1>1 DEF StoredInv, ThreadFuns, CountsOK, StoredStages, Stages, StoredOutcomes, Outcomes
  <2>2. RowsOK'
    BY <1>1 DEF StoredInv, RowsOK, NoReports, Found
  <2>3. \A t \in Threads : ThreadInv(t)'
    BY <1>1 DEF ThreadInv, NoKeys
  <2>4. QED
    BY <2>1, <2>2, <2>3 DEF StoredInv
<1>4. ServingInv'
  <2>1. \A t \in Threads : WorkingOn(t)' = {}
    BY <1>1 DEF WorkingOn
  <2>2. QED
    BY <1>1, <2>1 DEF ServingInv, Apart, Fits, LastEventTells
<1>5. InformedInv'
  BY <1>1, <1>2 DEF InformedInv, InformersOK, Knows, WasTold
<1>6. HasStore'
  BY DEF Stop, Fail, HasStore
<1>7. QED
  BY <1>3, <1>4, <1>5, <1>6 DEF ServerInv

LEMMA InitServes == ServerInit => ServerInv
<1> SUFFICES ASSUME ServerInit PROVE ServerInv
  OBVIOUS
<1>1. StoredInv
  BY InitStored DEF ServerInit
<1>2. ServingInv
  <2>1. \A t \in Threads : pc[t] = "idle" /\ WorkingOn(t) = {}
    BY DEF ServerInit, StoredInit, Init, WorkingOn
  <2>2. log = << >>
    BY DEF ServerInit, StoredInit, Init
  <2>3. Apart /\ \A t \in Threads : Fits(t)
    BY <2>1 DEF Apart, Fits
  <2>4. LastEventTells
    BY <2>2 DEF LastEventTells
  <2>5. QED
    BY <2>3, <2>4 DEF ServingInv
<1>3. InformedInv
  BY DEF ServerInit, StoredInit, Init, InformedInv, InformersOK, Knows, WasTold
<1>4. QED
  BY <1>1, <1>2, <1>3 DEF ServerInit, HasStore, ServerInv

LEMMA NextServes ==
    ASSUME SerialClients, ApplyIsTold, ServerInv, [ServerNext]_serverVars
    PROVE  ServerInv'
<1>1. StoredInv /\ ServingInv /\ InformedInv
  BY DEF ServerInv
<1>2. ASSUME UNCHANGED <<storedVars, mode, view, seen, missed>>, HasStore' PROVE ServerInv'
  <2>1. UNCHANGED <<db, pc, req, log>>
    BY <1>2 DEF storedVars, vars
  <2>2. InformedInv'
    BY <1>1, <1>2, <2>1 DEF InformedInv, InformersOK, Knows, WasTold, Silent, Announces, Same, Found
  <2>3. QED
    BY <1>1, <1>2, <2>2, ServingUnchanged DEF ServerInv
<1>3. ASSUME UNCHANGED <<phase, debug>> PROVE HasStore'
  BY <1>3 DEF ServerInv, HasStore, KineOpens
<1>4. CASE RunCommand \/ ServerConfig \/ OpenStore \/ InstallAndRun
  <2>1. HasStore'
    BY <1>4 DEF RunCommand, ServerConfig, OpenStore, InstallAndRun, Fail, ServerInv, HasStore,
                KineOpens, storedVars, storageVars
  <2>2. QED
    BY <1>2, <1>4, <2>1 DEF RunCommand, ServerConfig, OpenStore, InstallAndRun, informerVars
<1>5. CASE Stop
  BY <1>1, <1>5, StopKeeps
<1>6. ASSUME NEW t \in Threads, ServeRequests(t) PROVE ServerInv'
  <2>1. (ServePolr(t) \/ ServeCpolr(t)) /\ phase = "serving" /\ phase' = phase
    BY <1>6 DEF ServeRequests, processVars
  <2>2. Moved(t)
    BY <1>1, <2>1, ServeMoves
  <2>3. debug' = debug /\ StoredInv' /\ OthersStay(t)
    BY <1>1, <2>2, OthersKeep DEF Moved, RowsStep, Grown
  <2>4. "apply" \in Verbs => ~ApplyCreates /\ debug
    BY <2>1 DEF ApplyIsTold, ServerInv, HasStore, KineOpens
  <2>5. HandlerStep(t)
    BY <1>1, <2>1, <2>3, <2>4, ServeHandled
  <2>6. ServingInv' /\ InformedInv'
    BY <1>1, <1>6, <2>3, <2>5, StepKeepsServing, StepKeepsInformed DEF ServeRequests
  <2>7. QED
    BY <1>3, <2>1, <2>3, <2>6 DEF ServerInv
<1>7. ASSUME NEW i \in Informers, Inform(i) \/ LoseConnection(i) PROVE ServerInv'
  <2>1. Informs(i)
    BY <1>1, <1>7, ListInforms, WatchInforms, EventInforms, LosingInforms DEF Inform
  <2>2. UNCHANGED <<phase, debug>>
    BY <1>7 DEF Inform, ListReports, WatchReports, ReceiveEvent, LoseConnection, processVars,
                storedVars, storageVars
  <2>3. QED
    BY <1>1, <1>3, <2>1, <2>2, InformsKeepsInformed, ServingUnchanged DEF ServerInv, Informs
<1>8. CASE Settled \/ UNCHANGED serverVars
  BY <1>2, <1>3, <1>8 DEF Settled, serverVars, informerVars, processVars, storedVars, storageVars
<1>9. QED
  BY <1>4, <1>5, <1>6, <1>7, <1>8 DEF ServerNext

-----------------------------------------------------------------------------
(* However requests, lost connections, failures to start and restarts come *)
(* about, an informer that has received every event knows of each report   *)
(* of its namespace what is stored, unless the report changed between a    *)
(* list, or a watch, and the watch after it (polr.go:56, 252); if clients  *)
(* do not overlap requests on a report, and use server-side apply only of  *)
(* a server without kine, as this code builds it.                          *)
THEOREM InformersKnow ==
    ASSUME SerialClients, ApplyIsTold
    PROVE  ServerSpec => []InformedUnlessMissed
<1>1. ServerInv /\ [ServerNext]_serverVars => ServerInv'
  BY NextServes
<1>2. ServerInv => InformedUnlessMissed
  <2> SUFFICES ASSUME ServerInv, NEW i \in Informers, NEW k \in Keys,
                      UpToDate(i), NoOneWorksOn(k), k[1] = ScopeOf[i], k \notin missed[i]
               PROVE  Same(view[i], k)
    BY DEF InformedUnlessMissed
  <2>1. Silent(k)
    BY BusyHasRequest DEF ServerInv, NoOneWorksOn, Silent, Announces
  <2>2. \A n \in DOMAIN log : ~(n > seen[i])
    BY DEF ServerInv, StoredInv, CountsOK, UpToDate
  <2>3. WasTold(i, k)
    BY <2>1, <2>2 DEF WasTold, UpToDate
  <2>4. QED
    BY <2>3 DEF ServerInv, InformedInv, Knows
<1>3. QED
  BY <1>1, <1>2, InitServes, PTL DEF ServerSpec
=============================================================================
