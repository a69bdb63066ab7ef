------------------------- MODULE PolicyReportProofs -------------------------
(***************************************************************************)
(* The types; every write is announced, once, and overtaken by few; a      *)
(* deleted report stays deleted; what clients can rely on that never       *)
(* overlap requests on a report; and requests end.  For any number of      *)
(* threads, reports and requests.                                          *)
(***************************************************************************)
EXTENDS PolicyReportProperties, FiniteSetTheorems, TLAPS

-----------------------------------------------------------------------------
(* Types: what the steps that end, continue or restart a request do to the *)
(* variables of the threads.                                               *)

LEMMA ReplyKeepsThreads ==
    ASSUME ThreadsOK, NEW t \in Threads, NEW outcome \in Outcomes, Reply(t, outcome)
    PROVE  ThreadsOK'
<1>1. pc' \in [Threads -> Stages] /\ pc'[t] = "idle"
  BY DEF ThreadsOK, Reply, Stages
<1>2. req' \in [Threads -> Request \cup {NoRequest}]
  BY DEF ThreadsOK, Reply
<1>3. res' \in [Threads -> Outcomes]
  BY DEF ThreadsOK, Reply
<1>4. DOMAIN todo' = Threads /\ todo'[t] = << >>
  BY DEF ThreadsOK, Reply, NoKeys
<1>5. ASSUME NEW u \in Threads
      PROVE  /\ \A i \in DOMAIN todo'[u] : todo'[u][i] \in Keys
             /\ pc'[u] # "idle" => req'[u] \in Request
             /\ pc'[u] \in {"reread", "update", "apply"} => req'[u].obj \in Report
  <2>1. CASE u = t
    BY <1>1, <1>4, <2>1
  <2>2. CASE u # t
    BY <2>2 DEF ThreadsOK, Reply
  <2>3. QED
    BY <2>1, <2>2
<1>6. QED
  BY <1>1, <1>2, <1>3, <1>4, <1>5 DEF ThreadsOK

LEMMA ContinueKeepsThreads ==
    ASSUME ThreadsOK, NEW t \in Threads, NEW stage \in Stages, NEW r \in Request,
           stage \in {"reread", "update", "apply"} => r.obj \in Report,
           Continue(t, stage, r)
    PROVE  ThreadsOK'
<1>1. pc' \in [Threads -> Stages]
  BY DEF ThreadsOK, Continue
<1>2. req' \in [Threads -> Request \cup {NoRequest}]
  BY DEF ThreadsOK, Continue
<1>3. res' \in [Threads -> Outcomes]
  BY DEF ThreadsOK, Continue, Outcomes
<1>4. todo' = todo
  BY DEF Continue
<1>5. ASSUME NEW u \in Threads
      PROVE  /\ pc'[u] # "idle" => req'[u] \in Request
             /\ pc'[u] \in {"reread", "update", "apply"} => req'[u].obj \in Report
  <2>1. CASE u = t
    BY <2>1 DEF ThreadsOK, Continue
  <2>2. CASE u # t
    BY <2>2 DEF ThreadsOK, Continue
  <2>3. QED
    BY <2>1, <2>2
<1>6. QED
  BY <1>1, <1>2, <1>3, <1>4, <1>5 DEF ThreadsOK

LEMMA WrittenKeepsThreads ==
    ASSUME ThreadsOK, writes \in Nat, NEW t \in Threads, NEW r \in Request, Written(t, r)
    PROVE  ThreadsOK' /\ writes' \in Nat
<1>1. [r EXCEPT !.seq = writes + 1] \in Request
  BY DEF Request
<1>2. "announce" \in Stages
  BY DEF Stages
<1>3. Continue(t, "announce", [r EXCEPT !.seq = writes + 1])
  BY DEF Written
<1>4. ThreadsOK'
  BY <1>1, <1>2, <1>3, ContinueKeepsThreads
<1>5. QED
  BY <1>4 DEF Written

LEMMA NextItemKeepsThreads ==
    ASSUME ThreadsOK, NEW t \in Threads, NEW items, \A i \in DOMAIN items : items[i] \in Keys,
           NextItem(t, items)
    PROVE  ThreadsOK'
<1>1. PICK i \in DOMAIN items :
          /\ pc' = [pc EXCEPT ![t] = "collect"]
          /\ req' = [req EXCEPT ![t] = NewRequest("deletecollection", items[i], FALSE, NoReport)]
          /\ todo' = [todo EXCEPT ![t] = [j \in DOMAIN items \ {i} |-> items[j]]]
          /\ res' = [res EXCEPT ![t] = "none"]
  BY DEF NextItem
<1>2. NewRequest("deletecollection", items[i], FALSE, NoReport) \in Request
  BY DEF NewRequest, Request, AllVerbs
<1>3. pc' \in [Threads -> Stages]
  BY <1>1 DEF ThreadsOK, Stages
<1>4. req' \in [Threads -> Request \cup {NoRequest}]
  BY <1>1, <1>2 DEF ThreadsOK
<1>5. res' \in [Threads -> Outcomes]
  BY <1>1 DEF ThreadsOK, Outcomes
<1>6. DOMAIN todo' = Threads
  BY <1>1 DEF ThreadsOK
<1>7. ASSUME NEW u \in Threads
      PROVE  /\ \A j \in DOMAIN todo'[u] : todo'[u][j] \in Keys
             /\ pc'[u] # "idle" => req'[u] \in Request
             /\ pc'[u] \in {"reread", "update", "apply"} => req'[u].obj \in Report
  <2>1. CASE u = t
    BY <1>1, <1>2, <2>1 DEF ThreadsOK
  <2>2. CASE u # t
    BY <1>1, <2>2 DEF ThreadsOK
  <2>3. QED
    BY <2>1, <2>2
<1>8. QED
  BY <1>3, <1>4, <1>5, <1>6, <1>7 DEF ThreadsOK

-----------------------------------------------------------------------------
(* Types: the store calls.                                                 *)

LEMMA DbCallsKeepType ==
    ASSUME db \in [Keys -> Report \cup {NoReport}],
           NEW k \in Keys, NEW v \in Report, NEW err,
           DbCreate(k, v, err) \/ DbUpdate(k, v, err) \/ DbDelete(k, err)
    PROVE  db' \in [Keys -> Report \cup {NoReport}]
  BY DEF DbCreate, DbUpdate, DbDelete

LEMMA FoundIsReport ==
    ASSUME db \in [Keys -> Report \cup {NoReport}], NEW k \in Keys, Found(k)
    PROVE  db[k] \in Report
  BY DEF Found

(* A new request is well typed.                                            *)
LEMMA NewRequestType ==
    ASSUME NEW verb \in AllVerbs, NEW k \in Keys, NEW dry \in BOOLEAN,
           NEW obj \in Report \cup {NoReport}
    PROVE  /\ NewRequest(verb, k, dry, obj) \in Request
           /\ NewRequest(verb, k, dry, obj).obj = obj
           /\ NewRequest(verb, k, dry, obj).key = k
           /\ NewRequest(verb, k, dry, obj).verb = verb
           /\ NewRequest(verb, k, dry, obj).seq = 0
  BY DEF NewRequest, Request

(* The events of a request are well typed.                                 *)
LEMMA EventsHaveType ==
    ASSUME NEW r \in Request, NEW again \in BOOLEAN
    PROVE  /\ EventOf(r, again) \in Event
           /\ EventOf(r, again).seq = r.seq
           /\ EventOf(r, again).obj = r.obj
           /\ EventOf(r, again).again = again
  BY DEF EventOf, EventType, Event, Request

LEMMA AppendEvent ==
    ASSUME log \in Seq(Event), NEW e \in Event, log' = Append(log, e)
    PROVE  /\ log' \in Seq(Event)
           /\ Len(log) \in Nat /\ DOMAIN log = 1..Len(log)
           /\ DOMAIN log' = 1..(Len(log) + 1)
           /\ log'[Len(log) + 1] = e
           /\ \A i \in DOMAIN log : log'[i] = log[i]
  OBVIOUS

-----------------------------------------------------------------------------
(* Types: the handlers.                                                    *)

LEMMA CreateKeepsType ==
    ASSUME TypeOK, NEW t \in Threads, NEW k \in Keys, NEW labels \in LabelMaps,
           NEW dry \in BOOLEAN, CreateReport(t, k, labels, dry)
    PROVE  TypeOK'
<1> DEFINE r == NewRequest("create", k, dry, CreatedReport(labels))
<1>1. calls' \in Nat /\ log' = log
  BY DEF TypeOK, CreateReport, Accept
<1>2. CreatedReport(labels) \in Report
  BY DEF TypeOK, CreatedReport, Report
<1>3. r \in Request /\ r.obj = CreatedReport(labels) /\ r.key = k
  BY <1>2, NewRequestType DEF AllVerbs
<1> HIDE DEF r
<1>4. CASE Reply(t, "rejected") /\ UNCHANGED <<db, writes>>
  BY <1>1, <1>4, ReplyKeepsThreads DEF TypeOK, Outcomes
<1>5. CASE Reply(t, "ok") /\ UNCHANGED <<db, writes>>
  BY <1>1, <1>5, ReplyKeepsThreads DEF TypeOK, Outcomes
<1>6. CASE CreatePolr(t, r)
  <2>1. PICK err \in {"none", "exists"} :
            /\ DbCreate(r.key, r.obj, err)
            /\ IF err = "none" THEN Written(t, r) ELSE Reply(t, err) /\ UNCHANGED writes
    BY <1>6 DEF CreatePolr
  <2>2. db' \in [Keys -> Report \cup {NoReport}]
    BY <1>2, <1>3, <2>1, DbCallsKeepType DEF TypeOK
  <2>3. CASE err = "none"
    BY <1>1, <1>3, <2>1, <2>2, <2>3, WrittenKeepsThreads DEF TypeOK
  <2>4. CASE err = "exists"
    BY <1>1, <2>1, <2>2, <2>4, ReplyKeepsThreads DEF TypeOK, Outcomes
  <2>5. QED
    BY <2>3, <2>4
<1>7. QED
  BY <1>4, <1>5, <1>6 DEF CreateReport, r

LEMMA UpdateGetKeepsType ==
    ASSUME TypeOK, NEW t \in Threads, NEW k \in Keys, NEW labels \in LabelMaps,
           NEW uid \in 0..writes, NEW dry \in BOOLEAN, UpdateGet(t, k, labels, uid, dry)
    PROVE  TypeOK'
<1> DEFINE obj == [uid |-> uid, rv |-> 0, labels |-> labels]
           r == NewRequest("update", k, dry, obj)
<1>1. calls' \in Nat /\ UNCHANGED <<db, log, writes>>
  BY DEF TypeOK, UpdateGet, Accept
<1>2. obj \in Report
  BY DEF TypeOK, Report
<1>3. r \in Request /\ r.obj \in Report
  BY <1>2, NewRequestType DEF AllVerbs
<1> HIDE DEF r
<1>4. ASSUME NEW answer \in {"missing", "rejected", "ok"}, Reply(t, answer)
      PROVE  TypeOK'
  BY <1>1, <1>4, ReplyKeepsThreads DEF TypeOK, Outcomes
<1>5. CASE Continue(t, "reread", r)
  BY <1>1, <1>3, <1>5, ContinueKeepsThreads DEF TypeOK, Stages
<1>6. QED
  BY <1>4, <1>5 DEF UpdateGet, r

LEMMA UpdateRereadKeepsType ==
    ASSUME TypeOK, NEW t \in Threads, UpdateReread(t)
    PROVE  TypeOK'
<1> DEFINE r == [req[t] EXCEPT !.obj.rv = db[req[t].key].rv + 1]
<1>1. UNCHANGED <<db, log, writes, calls>>
  BY DEF UpdateReread
<1>2. CASE Reply(t, "missing")
  BY <1>1, <1>2, ReplyKeepsThreads DEF TypeOK, Outcomes
<1>3. CASE Found(req[t].key) /\ Continue(t, "update", r)
  <2>1. req[t] \in Request /\ req[t].obj \in Report
    BY DEF TypeOK, ThreadsOK, UpdateReread
  <2>2. db[req[t].key].rv + 1 \in Nat
    BY <1>3, <2>1, FoundIsReport DEF TypeOK, Request, Report
  <2>3. r \in Request /\ r.obj \in Report
    BY <2>1, <2>2 DEF Request, Report
  <2> HIDE DEF r
  <2>4. ThreadsOK'
    BY <1>3, <2>3, ContinueKeepsThreads DEF TypeOK, Stages
  <2>5. QED
    BY <1>1, <2>4 DEF TypeOK
<1>4. QED
  BY <1>2, <1>3 DEF UpdateReread

LEMMA UpdateStoreKeepsType ==
    ASSUME TypeOK, NEW t \in Threads, UpdateStore(t)
    PROVE  TypeOK'
<1>1. UNCHANGED <<log, calls>>
  BY DEF UpdateStore
<1>2. req[t] \in Request /\ req[t].obj \in Report /\ req[t].key \in Keys
  BY DEF TypeOK, ThreadsOK, UpdateStore, Request
<1>3. PICK err \in {"none", "missing"} :
          /\ DbUpdate(req[t].key, req[t].obj, err)
          /\ IF err = "none" THEN Written(t, req[t]) ELSE Reply(t, err) /\ UNCHANGED writes
  BY DEF UpdateStore
<1>4. db' \in [Keys -> Report \cup {NoReport}]
  BY <1>2, <1>3, DbCallsKeepType DEF TypeOK
<1>5. CASE err = "none"
  BY <1>1, <1>2, <1>3, <1>4, <1>5, WrittenKeepsThreads DEF TypeOK
<1>6. CASE err = "missing"
  BY <1>1, <1>3, <1>4, <1>6, ReplyKeepsThreads DEF TypeOK, Outcomes
<1>7. QED
  BY <1>5, <1>6

LEMMA ApplyGetKeepsType ==
    ASSUME TypeOK, NEW t \in Threads, NEW k \in Keys, NEW labels \in LabelMaps,
           NEW dry \in BOOLEAN, ApplyGet(t, k, labels, dry)
    PROVE  TypeOK'
<1> DEFINE obj == [uid |-> IF Found(k) THEN db[k].uid ELSE 0, rv |-> 1, labels |-> labels]
           r == NewRequest("apply", k, dry, obj)
<1>1. calls' \in Nat /\ UNCHANGED <<db, log, writes>>
  BY DEF TypeOK, ApplyGet, Accept
<1>2. (IF Found(k) THEN db[k].uid ELSE 0) \in Nat
  BY FoundIsReport DEF TypeOK, Report
<1>3. obj \in Report
  BY <1>2 DEF Report
<1>4. r \in Request /\ r.obj \in Report
  BY <1>3, NewRequestType DEF AllVerbs
<1> HIDE DEF r
<1>5. CASE Reply(t, "rejected")
  BY <1>1, <1>5, ReplyKeepsThreads DEF TypeOK, Outcomes
<1>6. CASE Continue(t, "apply", r)
  BY <1>1, <1>4, <1>6, ContinueKeepsThreads DEF TypeOK, Stages
<1>7. QED
  BY <1>5, <1>6 DEF ApplyGet, r

LEMMA ApplyStoreKeepsType ==
    ASSUME TypeOK, NEW t \in Threads, ApplyStore(t)
    PROVE  TypeOK'
<1>1. UNCHANGED <<log, calls>>
  BY DEF ApplyStore
<1>2. req[t] \in Request /\ req[t].obj \in Report /\ req[t].key \in Keys
  BY DEF TypeOK, ThreadsOK, ApplyStore, Request
<1>3. PICK err \in {"none", "missing"} :
          /\ DbUpdate(req[t].key, req[t].obj, err)
          /\ IF err = "none" THEN Written(t, req[t])
                             ELSE Continue(t, "announce", req[t]) /\ UNCHANGED writes
  BY DEF ApplyStore
<1>4. db' \in [Keys -> Report \cup {NoReport}]
  BY <1>2, <1>3, DbCallsKeepType DEF TypeOK
<1>5. CASE err = "none"
  BY <1>1, <1>2, <1>3, <1>4, <1>5, WrittenKeepsThreads DEF TypeOK
<1>6. CASE err = "missing"
  <2>1. ThreadsOK'
    BY <1>2, <1>3, <1>6, ContinueKeepsThreads DEF TypeOK, Stages
  <2>2. QED
    BY <1>1, <1>3, <1>4, <1>6, <2>1 DEF TypeOK
<1>7. QED
  BY <1>5, <1>6

LEMMA FindForDeleteKeepsType ==
    ASSUME TypeOK, NEW t \in Threads, NEW r \in Request, FindForDelete(t, r),
           UNCHANGED <<db, log, writes>>, calls' \in Nat
    PROVE  TypeOK'
<1>1. ASSUME NEW answer \in {"missing", "rejected", "ok"}, Reply(t, answer)
      PROVE  TypeOK'
  BY <1>1, ReplyKeepsThreads DEF TypeOK, Outcomes
<1>2. CASE Continue(t, "delete", [r EXCEPT !.obj = db[r.key]])
  <2>1. [r EXCEPT !.obj = db[r.key]] \in Request
    BY DEF TypeOK, Request
  <2>2. ThreadsOK'
    BY <1>2, <2>1, ContinueKeepsThreads DEF TypeOK, Stages
  <2>3. QED
    BY <2>2 DEF TypeOK
<1>3. QED
  BY <1>1, <1>2 DEF FindForDelete

LEMMA DeleteGetKeepsType ==
    ASSUME TypeOK, NEW t \in Threads, NEW k \in Keys, NEW dry \in BOOLEAN,
           DeleteGet(t, k, dry)
    PROVE  TypeOK'
<1>1. NewRequest("delete", k, dry, NoReport) \in Request
  BY NewRequestType DEF AllVerbs
<1>2. calls' \in Nat
  BY DEF TypeOK, DeleteGet, Accept
<1>3. QED
  BY <1>1, <1>2, FindForDeleteKeepsType DEF DeleteGet

LEMMA DeleteStoreKeepsType ==
    ASSUME TypeOK, NEW t \in Threads, DeleteStore(t)
    PROVE  TypeOK'
<1>1. UNCHANGED <<log, calls>>
  BY DEF DeleteStore
<1>2. req[t] \in Request /\ req[t].key \in Keys
  BY DEF TypeOK, ThreadsOK, DeleteStore, Request
<1>3. PICK err \in {"none", "missing"} :
          /\ DbDelete(req[t].key, err)
          /\ IF err = "none" THEN Written(t, req[t]) ELSE Reply(t, err) /\ UNCHANGED writes
  BY DEF DeleteStore
<1>4. db' \in [Keys -> Report \cup {NoReport}]
  BY <1>2, <1>3 DEF TypeOK, DbDelete
<1>5. CASE err = "none"
  BY <1>1, <1>2, <1>3, <1>4, <1>5, WrittenKeepsThreads DEF TypeOK
<1>6. CASE err = "missing"
  BY <1>1, <1>3, <1>4, <1>6, ReplyKeepsThreads DEF TypeOK, Outcomes
<1>7. QED
  BY <1>5, <1>6

LEMMA CollectionListKeepsType ==
    ASSUME TypeOK, NEW t \in Threads, NEW ns \in Namespaces, NEW selector \in Selectors,
           NEW dry \in BOOLEAN, CollectionList(t, ns, selector, dry)
    PROVE  TypeOK'
<1>1. calls' \in Nat /\ UNCHANGED <<db, log, writes>>
  BY DEF TypeOK, CollectionList, Accept
<1>2. CASE Reply(t, "ok")
  BY <1>1, <1>2, ReplyKeepsThreads DEF TypeOK, Outcomes
<1>3. ASSUME NEW order \in Orders({k \in KeysOf(ns) : Found(k)}), NEW kept,
             kept \subseteq DOMAIN order, NextItem(t, [i \in kept |-> order[i]])
      PROVE  TypeOK'
  <2>1. \A i \in DOMAIN order : order[i] \in Keys
    BY DEF Orders, KeysOf
  <2>2. \A j \in kept : [i \in kept |-> order[i]][j] \in Keys
    BY <1>3, <2>1
  <2>3. ThreadsOK'
    BY <1>3, <2>2, NextItemKeepsThreads DEF TypeOK
  <2>4. QED
    BY <1>1, <2>3 DEF TypeOK
<1>4. \A labelsOf : Kept(labelsOf, selector) \subseteq DOMAIN labelsOf
  BY DEF Kept
<1>5. QED
  <2>1. PICK order \in Orders({k \in KeysOf(ns) : Found(k)}) :
            LET kept == Kept([i \in DOMAIN order |-> db[order[i]].labels], selector)
            IN  IF dry \/ kept = {} THEN Reply(t, "ok")
                                    ELSE NextItem(t, [i \in kept |-> order[i]])
    BY DEF CollectionList
  <2>2. Kept([i \in DOMAIN order |-> db[order[i]].labels], selector) \subseteq DOMAIN order
    BY <1>4
  <2>3. QED
    BY <1>2, <1>3, <2>1, <2>2

LEMMA AnnounceKeepsType ==
    ASSUME TypeOK, NEW t \in Threads, Announce(t)
    PROVE  TypeOK'
<1>1. UNCHANGED <<db, writes, calls>>
  BY DEF Announce
<1>2. req[t] \in Request
  BY DEF TypeOK, ThreadsOK, Announce
<1>3. log' \in Seq(Event)
  <2>1. EventOf(req[t], FALSE) \in Event
    BY <1>2, EventsHaveType
  <2>2. QED
    BY <2>1, AppendEvent DEF TypeOK, Announce
<1>4. CASE Continue(t, "announceAgain", req[t])
  <2>1. ThreadsOK'
    BY <1>2, <1>4, ContinueKeepsThreads DEF TypeOK, Stages
  <2>2. QED
    BY <1>1, <1>3, <2>1 DEF TypeOK
<1>5. CASE Reply(t, "ok")
  BY <1>1, <1>3, <1>5, ReplyKeepsThreads DEF TypeOK, Outcomes
<1>6. QED
  BY <1>4, <1>5 DEF Announce

LEMMA AnnounceAgainKeepsType ==
    ASSUME TypeOK, NEW t \in Threads, AnnounceAgain(t)
    PROVE  TypeOK'
<1>1. UNCHANGED <<db, writes, calls>>
  BY DEF AnnounceAgain
<1>2. req[t] \in Request
  BY DEF TypeOK, ThreadsOK, AnnounceAgain
<1>3. log' \in Seq(Event)
  <2>1. EventOf(req[t], TRUE) \in Event
    BY <1>2, EventsHaveType
  <2>2. QED
    BY <2>1, AppendEvent DEF TypeOK, AnnounceAgain
<1>4. CASE NextItem(t, todo[t])
  <2>1. ThreadsOK'
    BY <1>4, NextItemKeepsThreads DEF TypeOK, ThreadsOK
  <2>2. QED
    BY <1>1, <1>3, <2>1 DEF TypeOK
<1>5. CASE Reply(t, "ok")
  BY <1>1, <1>3, <1>5, ReplyKeepsThreads DEF TypeOK, Outcomes
<1>6. QED
  BY <1>4, <1>5 DEF AnnounceAgain

-----------------------------------------------------------------------------
(* Types: the specification.                                               *)

LEMMA InitHasType == Init => TypeOK
<1> SUFFICES ASSUME Init PROVE TypeOK
  OBVIOUS
<1>1. ThreadsOK
  BY DEF Init, ThreadsOK, Stages, Outcomes, NoKeys
<1>2. QED
  BY <1>1 DEF Init, DbInit, TypeOK

LEMMA NextKeepsType == TypeOK /\ [Next]_vars => TypeOK'
<1> SUFFICES ASSUME TypeOK, [Next]_vars PROVE TypeOK'
  OBVIOUS
<1>1. ASSUME NEW t \in Threads, Serve(t) PROVE TypeOK'
  <2>1. ASSUME NEW k \in Keys, NEW labels \in LabelMaps, NEW dry \in BOOLEAN,
               \/ CreateReport(t, k, labels, dry)
               \/ \E uid \in 0..writes : UpdateGet(t, k, labels, uid, dry)
               \/ ApplyGet(t, k, labels, dry)
        PROVE  TypeOK'
    BY <2>1, CreateKeepsType, UpdateGetKeepsType, ApplyGetKeepsType
  <2>2. ASSUME NEW k \in Keys, NEW dry \in BOOLEAN, DeleteGet(t, k, dry)
        PROVE  TypeOK'
    BY <2>2, DeleteGetKeepsType
  <2>3. ASSUME NEW ns \in Namespaces, NEW selector \in Selectors, NEW dry \in BOOLEAN,
               CollectionList(t, ns, selector, dry)
        PROVE  TypeOK'
    BY <2>3, CollectionListKeepsType
  <2>4. CASE UpdateReread(t)
    BY <2>4, UpdateRereadKeepsType
  <2>5. CASE UpdateStore(t)
    BY <2>5, UpdateStoreKeepsType
  <2>6. CASE ApplyStore(t)
    BY <2>6, ApplyStoreKeepsType
  <2>7. CASE DeleteStore(t)
    BY <2>7, DeleteStoreKeepsType
  <2>8. CASE CollectionItem(t)
    <3>1. req[t] \in Request
      BY <2>8 DEF TypeOK, ThreadsOK, CollectionItem
    <3>2. QED
      BY <2>8, <3>1, FindForDeleteKeepsType DEF TypeOK, CollectionItem
  <2>9. CASE Announce(t)
    BY <2>9, AnnounceKeepsType
  <2>10. CASE AnnounceAgain(t)
    BY <2>10, AnnounceAgainKeepsType
  <2>11. QED
    BY <1>1, <2>1, <2>2, <2>3, <2>4, <2>5, <2>6, <2>7, <2>8, <2>9, <2>10 DEF Serve
<1>2. CASE UNCHANGED vars
  BY <1>2 DEF vars, TypeOK, ThreadsOK
<1>3. QED
  BY <1>1, <1>2 DEF Next, Quiet

(* Every variable keeps its type, and a thread at a call has a request with*)
(* what the call needs, whatever the threads interleave.                   *)
THEOREM TypeCorrect == Spec => []TypeOK
  BY InitHasType, NextKeepsType, PTL DEF Spec

-----------------------------------------------------------------------------
(* The invariant.                                                          *)

Announcing(t) == pc[t] \in {"announce", "announceAgain"}

\* Sequence numbers are numbers of past writes.
SeqsArePast ==
    /\ \A i \in DOMAIN log : log[i].seq <= writes
    /\ \A t \in Threads : Announcing(t) => req[t].seq <= writes

\* Two threads never announce the same write.
OneHolder ==
    \A t, u \in Threads :
        Announcing(t) /\ Announcing(u) /\ req[t].seq # 0 /\ req[t].seq = req[u].seq => t = u

\* An apply has no number before it has written.
ApplyIsUnnumbered == \A t \in Threads : pc[t] = "apply" => req[t].seq = 0

\* The repetition of an event is not in the log before it is sent.
RepeatIsFirst ==
    \A t \in Threads : pc[t] = "announceAgain" /\ req[t].seq # 0 =>
        \A i \in DOMAIN log : log[i].seq = req[t].seq => ~log[i].again

FeedInv ==
    /\ SeqsArePast
    /\ OneHolder
    /\ ApplyIsUnnumbered
    /\ RepeatIsFirst
    /\ NoWriteForgotten
    /\ AnnouncedOnce

-----------------------------------------------------------------------------
(* What a step of t is to the feed: no write and no event, a write, the    *)
(* event of a write, or its repetition.                                    *)

Others(t) == \A u \in Threads \ {t} : pc'[u] = pc[u] /\ req'[u] = req[u]

Move(t) ==
    /\ ~Announcing(t)
    /\ UNCHANGED <<log, writes>>
    /\ Announcing(t)' => pc'[t] = "announce" /\ req'[t].seq = 0
    /\ pc'[t] = "apply" => req'[t].seq = 0

Write(t) ==
    /\ ~Announcing(t)
    /\ UNCHANGED log
    /\ writes' = writes + 1
    /\ pc'[t] = "announce" /\ req'[t].seq = writes + 1

Send(t) ==
    /\ pc[t] = "announce"
    /\ log' = Append(log, EventOf(req[t], FALSE))
    /\ UNCHANGED writes
    /\ pc'[t] = "idle" \/ (pc'[t] = "announceAgain" /\ req'[t] = req[t])

Repeat(t) ==
    /\ pc[t] = "announceAgain"
    /\ log' = Append(log, EventOf(req[t], TRUE))
    /\ UNCHANGED writes
    /\ pc'[t] \in {"idle", "collect"}

FeedStep(t) == Others(t) /\ (Move(t) \/ Write(t) \/ Send(t) \/ Repeat(t))

LEMMA ReplyMoves ==
    ASSUME ThreadsOK, NEW t \in Threads, NEW outcome, Reply(t, outcome)
    PROVE  Others(t) /\ pc'[t] = "idle"
  BY DEF ThreadsOK, Reply, Others

LEMMA ContinueMoves ==
    ASSUME ThreadsOK, NEW t \in Threads, NEW stage, NEW r, Continue(t, stage, r)
    PROVE  Others(t) /\ pc'[t] = stage /\ req'[t] = r
  BY DEF ThreadsOK, Continue, Others

LEMMA WrittenMoves ==
    ASSUME ThreadsOK, NEW t \in Threads, NEW r \in Request, Written(t, r)
    PROVE  Others(t) /\ pc'[t] = "announce" /\ req'[t].seq = writes + 1 /\ writes' = writes + 1
<1>1. Continue(t, "announce", [r EXCEPT !.seq = writes + 1])
  BY DEF Written
<1>2. Others(t) /\ pc'[t] = "announce" /\ req'[t] = [r EXCEPT !.seq = writes + 1]
  BY <1>1, ContinueMoves
<1>3. [r EXCEPT !.seq = writes + 1].seq = writes + 1
  BY DEF Request
<1>4. QED
  BY <1>2, <1>3 DEF Written

LEMMA NextItemMoves ==
    ASSUME ThreadsOK, NEW t \in Threads, NEW items, NextItem(t, items)
    PROVE  Others(t) /\ pc'[t] = "collect"
  BY DEF ThreadsOK, NextItem, Others

-----------------------------------------------------------------------------
(* The classification of the steps.                                        *)

LEMMA CreateFeedStep ==
    ASSUME TypeOK, NEW t \in Threads, NEW k \in Keys, NEW labels \in LabelMaps,
           NEW dry \in BOOLEAN, CreateReport(t, k, labels, dry)
    PROVE  FeedStep(t)
<1> DEFINE r == NewRequest("create", k, dry, CreatedReport(labels))
<1>1. CreatedReport(labels) \in Report
  BY DEF TypeOK, CreatedReport, Report
<1>2. r \in Request
  BY <1>1, NewRequestType DEF AllVerbs
<1> HIDE DEF r
<1>3. ThreadsOK /\ log' = log /\ ~Announcing(t)
  BY DEF TypeOK, CreateReport, Accept, Announcing
<1>4. ASSUME NEW answer, Reply(t, answer), UNCHANGED writes
      PROVE  FeedStep(t)
  BY <1>3, <1>4, ReplyMoves DEF FeedStep, Move, Announcing
<1>5. CASE CreatePolr(t, r)
  <2>1. CASE Written(t, r)
    BY <1>2, <1>3, <2>1, WrittenMoves DEF FeedStep, Write
  <2>2. QED
    BY <1>4, <1>5, <2>1 DEF CreatePolr
<1>6. QED
  BY <1>4, <1>5 DEF CreateReport, r

LEMMA UpdateGetFeedStep ==
    ASSUME TypeOK, NEW t \in Threads, NEW k, NEW labels, NEW uid, NEW dry,
           UpdateGet(t, k, labels, uid, dry)
    PROVE  FeedStep(t)
<1>1. ThreadsOK /\ UNCHANGED <<log, writes>> /\ ~Announcing(t)
  BY DEF TypeOK, UpdateGet, Accept, Announcing
<1>2. ASSUME NEW answer, Reply(t, answer)
      PROVE  FeedStep(t)
  BY <1>1, <1>2, ReplyMoves DEF FeedStep, Move, Announcing
<1>3. ASSUME NEW r, Continue(t, "reread", r)
      PROVE  FeedStep(t)
  BY <1>1, <1>3, ContinueMoves DEF FeedStep, Move, Announcing
<1>4. QED
  BY <1>2, <1>3 DEF UpdateGet

LEMMA UpdateRereadFeedStep ==
    ASSUME TypeOK, NEW t \in Threads, UpdateReread(t)
    PROVE  FeedStep(t)
<1>1. ThreadsOK /\ UNCHANGED <<log, writes>> /\ ~Announcing(t)
  BY DEF TypeOK, UpdateReread, Announcing
<1>2. ASSUME NEW answer, Reply(t, answer)
      PROVE  FeedStep(t)
  BY <1>1, <1>2, ReplyMoves DEF FeedStep, Move, Announcing
<1>3. ASSUME NEW r, Continue(t, "update", r)
      PROVE  FeedStep(t)
  BY <1>1, <1>3, ContinueMoves DEF FeedStep, Move, Announcing
<1>4. QED
  BY <1>2, <1>3 DEF UpdateReread

LEMMA UpdateStoreFeedStep ==
    ASSUME TypeOK, NEW t \in Threads, UpdateStore(t)
    PROVE  FeedStep(t)
<1>1. ThreadsOK /\ log' = log /\ ~Announcing(t) /\ req[t] \in Request
  BY DEF TypeOK, ThreadsOK, UpdateStore, Announcing
<1>2. CASE Written(t, req[t])
  BY <1>1, <1>2, WrittenMoves DEF FeedStep, Write
<1>3. ASSUME NEW answer, Reply(t, answer), UNCHANGED writes
      PROVE  FeedStep(t)
  BY <1>1, <1>3, ReplyMoves DEF FeedStep, Move, Announcing
<1>4. QED
  BY <1>2, <1>3 DEF UpdateStore

LEMMA ApplyGetFeedStep ==
    ASSUME TypeOK, NEW t \in Threads, NEW k \in Keys, NEW labels \in LabelMaps,
           NEW dry \in BOOLEAN, ApplyGet(t, k, labels, dry)
    PROVE  FeedStep(t)
<1>1. ThreadsOK /\ UNCHANGED <<log, writes>> /\ ~Announcing(t)
  BY DEF TypeOK, ApplyGet, Accept, Announcing
<1>2. CASE Reply(t, "rejected")
  BY <1>1, <1>2, ReplyMoves DEF FeedStep, Move, Announcing
<1>3. ASSUME NEW obj, Continue(t, "apply", NewRequest("apply", k, dry, obj))
      PROVE  FeedStep(t)
  <2>1. NewRequest("apply", k, dry, obj).seq = 0
    BY DEF NewRequest
  <2>2. QED
    BY <1>1, <1>3, <2>1, ContinueMoves DEF FeedStep, Move, Announcing
<1>4. QED
  BY <1>2, <1>3 DEF ApplyGet

LEMMA ApplyStoreFeedStep ==
    ASSUME TypeOK, ApplyIsUnnumbered, NEW t \in Threads, ApplyStore(t)
    PROVE  FeedStep(t)
<1>1. /\ ThreadsOK /\ log' = log /\ ~Announcing(t)
      /\ req[t] \in Request /\ req[t].seq = 0
  BY DEF TypeOK, ThreadsOK, ApplyIsUnnumbered, ApplyStore, Announcing
<1>2. CASE Written(t, req[t])
  BY <1>1, <1>2, WrittenMoves DEF FeedStep, Write
<1>3. CASE Continue(t, "announce", req[t]) /\ UNCHANGED writes
  BY <1>1, <1>3, ContinueMoves DEF FeedStep, Move, Announcing
<1>4. QED
  BY <1>2, <1>3 DEF ApplyStore

LEMMA FindForDeleteFeedStep ==
    ASSUME TypeOK, NEW t \in Threads, NEW r, FindForDelete(t, r),
           ~Announcing(t), UNCHANGED <<log, writes>>
    PROVE  FeedStep(t)
<1>1. ThreadsOK
  BY DEF TypeOK
<1>2. ASSUME NEW answer, Reply(t, answer)
      PROVE  FeedStep(t)
  BY <1>1, <1>2, ReplyMoves DEF FeedStep, Move, Announcing
<1>3. ASSUME NEW s, Continue(t, "delete", s)
      PROVE  FeedStep(t)
  BY <1>1, <1>3, ContinueMoves DEF FeedStep, Move, Announcing
<1>4. QED
  BY <1>2, <1>3 DEF FindForDelete

LEMMA DeleteStoreFeedStep ==
    ASSUME TypeOK, NEW t \in Threads, DeleteStore(t)
    PROVE  FeedStep(t)
<1>1. ThreadsOK /\ log' = log /\ ~Announcing(t) /\ req[t] \in Request
  BY DEF TypeOK, ThreadsOK, DeleteStore, Announcing
<1>2. CASE Written(t, req[t])
  BY <1>1, <1>2, WrittenMoves DEF FeedStep, Write
<1>3. ASSUME NEW answer, Reply(t, answer), UNCHANGED writes
      PROVE  FeedStep(t)
  BY <1>1, <1>3, ReplyMoves DEF FeedStep, Move, Announcing
<1>4. QED
  BY <1>2, <1>3 DEF DeleteStore

LEMMA CollectionListFeedStep ==
    ASSUME TypeOK, NEW t \in Threads, NEW ns, NEW selector, NEW dry,
           CollectionList(t, ns, selector, dry)
    PROVE  FeedStep(t)
<1>1. ThreadsOK /\ UNCHANGED <<log, writes>> /\ ~Announcing(t)
  BY DEF TypeOK, CollectionList, Accept, Announcing
<1>2. CASE Reply(t, "ok")
  BY <1>1, <1>2, ReplyMoves DEF FeedStep, Move, Announcing
<1>3. ASSUME NEW items, NextItem(t, items)
      PROVE  FeedStep(t)
  BY <1>1, <1>3, NextItemMoves DEF FeedStep, Move, Announcing
<1>4. QED
  BY <1>2, <1>3 DEF CollectionList

LEMMA AnnounceFeedStep ==
    ASSUME TypeOK, NEW t \in Threads, Announce(t) \/ AnnounceAgain(t)
    PROVE  FeedStep(t)
<1>1. ThreadsOK
  BY DEF TypeOK
<1>2. CASE Announce(t)
  <2>1. Others(t) /\ (pc'[t] = "idle" \/ (pc'[t] = "announceAgain" /\ req'[t] = req[t]))
    BY <1>1, <1>2, ReplyMoves, ContinueMoves DEF Announce
  <2>2. QED
    BY <1>2, <2>1 DEF FeedStep, Send, Announce
<1>3. CASE AnnounceAgain(t)
  <2>1. Others(t) /\ pc'[t] \in {"idle", "collect"}
    BY <1>1, <1>3, ReplyMoves, NextItemMoves DEF AnnounceAgain
  <2>2. QED
    BY <1>3, <2>1 DEF FeedStep, Repeat, AnnounceAgain
<1>4. QED
  BY <1>2, <1>3

LEMMA ServeFeedStep ==
    ASSUME TypeOK, ApplyIsUnnumbered, NEW t \in Threads, Serve(t)
    PROVE  FeedStep(t)
<1>1. CASE \E k \in Keys, labels \in LabelMaps, dry \in BOOLEAN :
             \/ CreateReport(t, k, labels, dry)
             \/ \E uid \in 0..writes : UpdateGet(t, k, labels, uid, dry)
             \/ ApplyGet(t, k, labels, dry)
  BY <1>1, CreateFeedStep, UpdateGetFeedStep, ApplyGetFeedStep
<1>2. ASSUME NEW k \in Keys, NEW dry \in BOOLEAN, DeleteGet(t, k, dry)
      PROVE  FeedStep(t)
  <2>1. ~Announcing(t) /\ UNCHANGED <<log, writes>>
    BY <1>2 DEF DeleteGet, Accept, Announcing
  <2>2. FindForDelete(t, NewRequest("delete", k, dry, NoReport))
    BY <1>2 DEF DeleteGet
  <2>3. QED
    BY <2>1, <2>2, FindForDeleteFeedStep
<1>3. CASE \E ns \in Namespaces, selector \in Selectors, dry \in BOOLEAN :
             CollectionList(t, ns, selector, dry)
  BY <1>3, CollectionListFeedStep
<1>4. CASE UpdateReread(t) \/ UpdateStore(t) \/ ApplyStore(t) \/ DeleteStore(t)
  BY <1>4, UpdateRereadFeedStep, UpdateStoreFeedStep, ApplyStoreFeedStep, DeleteStoreFeedStep
<1>5. CASE CollectionItem(t)
  BY <1>5, FindForDeleteFeedStep DEF CollectionItem, Announcing
<1>6. CASE Announce(t) \/ AnnounceAgain(t)
  BY <1>6, AnnounceFeedStep
<1>7. QED
  BY <1>1, <1>2, <1>3, <1>4, <1>5, <1>6 DEF Serve

-----------------------------------------------------------------------------
(* The invariant is inductive: one lemma per kind of step.                 *)

LEMMA MoveKeepsFeed ==
    ASSUME TypeOK, TypeOK', FeedInv, NEW t \in Threads, Others(t), Move(t)
    PROVE  FeedInv'
<1>1. SeqsArePast'
  BY DEF TypeOK, FeedInv, SeqsArePast, Others, Move, Announcing
<1>2. OneHolder'
  BY DEF FeedInv, OneHolder, Others, Move, Announcing
<1>3. ApplyIsUnnumbered'
  BY DEF FeedInv, ApplyIsUnnumbered, Others, Move
<1>4. RepeatIsFirst'
  BY DEF FeedInv, RepeatIsFirst, Others, Move, Announcing
<1>5. NoWriteForgotten'
  BY DEF FeedInv, NoWriteForgotten, Announced, AboutToAnnounce, Others, Move, Announcing
<1>6. AnnouncedOnce'
  BY DEF FeedInv, AnnouncedOnce, Announced, Others, Move, Announcing
<1>7. QED
  BY <1>1, <1>2, <1>3, <1>4, <1>5, <1>6 DEF FeedInv

LEMMA LogHasEvents ==
    ASSUME log \in Seq(Event), NEW i \in DOMAIN log
    PROVE  log[i] \in Event /\ log[i].seq \in Nat
<1>1. log[i] \in Event
  OBVIOUS
<1>2. QED
  BY <1>1 DEF Event

LEMMA WriteKeepsFeed ==
    ASSUME TypeOK, TypeOK', FeedInv, NEW t \in Threads, Others(t), Write(t)
    PROVE  FeedInv'
<1>1. \A i \in DOMAIN log : log[i].seq \in Nat /\ log[i].seq <= writes
  BY LogHasEvents DEF TypeOK, FeedInv, SeqsArePast
<1>2. \A u \in Threads : Announcing(u) => req[u].seq \in Nat /\ req[u].seq <= writes
  BY DEF TypeOK, ThreadsOK, FeedInv, SeqsArePast, Announcing, Request
<1>3. SeqsArePast'
  BY <1>1, <1>2 DEF TypeOK, SeqsArePast, Others, Write, Announcing
<1>4. OneHolder'
  BY <1>2 DEF TypeOK, FeedInv, OneHolder, Others, Write, Announcing
<1>5. ApplyIsUnnumbered'
  BY DEF FeedInv, ApplyIsUnnumbered, Others, Write
<1>6. RepeatIsFirst'
  BY DEF FeedInv, RepeatIsFirst, Others, Write, Announcing
<1>7. NoWriteForgotten'
  <2>1. ASSUME NEW n \in 1..writes'
        PROVE  Announced(n)' \/ \E u \in Threads : AboutToAnnounce(u, n)'
    <3>1. CASE n = writes + 1
      BY <3>1 DEF AboutToAnnounce, Write
    <3>2. CASE n # writes + 1
      <4>1. n \in 1..writes
        BY <2>1, <3>2 DEF TypeOK, Write
      <4>2. QED
        BY <4>1 DEF FeedInv, NoWriteForgotten, Announced, AboutToAnnounce, Others, Write, Announcing
    <3>3. QED
      BY <3>1, <3>2
  <2>2. QED
    BY <2>1 DEF NoWriteForgotten
<1>8. AnnouncedOnce'
  BY <1>1 DEF TypeOK, FeedInv, AnnouncedOnce, Announced, Others, Write, Announcing
<1>9. QED
  BY <1>3, <1>4, <1>5, <1>6, <1>7, <1>8 DEF FeedInv

LEMMA SendKeepsFeed ==
    ASSUME TypeOK, TypeOK', FeedInv, NEW t \in Threads, Others(t), Send(t)
    PROVE  FeedInv'
<1> DEFINE e == EventOf(req[t], FALSE)
           last == Len(log) + 1
<1>1. req[t] \in Request /\ req[t].seq <= writes
  BY DEF TypeOK, ThreadsOK, FeedInv, SeqsArePast, Send, Announcing
<1>2. e \in Event /\ e.seq = req[t].seq /\ e.again = FALSE
  BY <1>1, EventsHaveType
<1>3. /\ Len(log) \in Nat /\ DOMAIN log = 1..Len(log)
      /\ DOMAIN log' = 1..last
      /\ log'[last] = e
      /\ \A i \in DOMAIN log : log'[i] = log[i]
  BY <1>2, AppendEvent DEF TypeOK, Send
<1> HIDE DEF e
<1>4. SeqsArePast'
  <2>1. ASSUME NEW i \in DOMAIN log' PROVE log'[i].seq <= writes
    <3>1. CASE i = last
      BY <1>1, <1>2, <1>3, <3>1
    <3>2. CASE i # last
      BY <1>3, <2>1, <3>2 DEF FeedInv, SeqsArePast
    <3>3. QED
      BY <3>1, <3>2
  <2>2. ASSUME NEW u \in Threads, Announcing(u)' PROVE req'[u].seq <= writes
    BY <1>1, <2>2 DEF FeedInv, SeqsArePast, Others, Send, Announcing
  <2>3. QED
    BY <2>1, <2>2 DEF SeqsArePast, Send
<1>5. OneHolder'
  BY DEF FeedInv, OneHolder, Others, Send, Announcing
<1>6. ApplyIsUnnumbered'
  BY DEF FeedInv, ApplyIsUnnumbered, Others, Send
<1>7. ASSUME req[t].seq # 0, NEW i \in DOMAIN log
      PROVE  log[i].seq # req[t].seq
  BY <1>7 DEF FeedInv, AnnouncedOnce, Announced, Send
<1>8. RepeatIsFirst'
  <2>1. ASSUME NEW u \in Threads, pc'[u] = "announceAgain", req'[u].seq # 0,
               NEW i \in DOMAIN log', log'[i].seq = req'[u].seq
        PROVE  ~log'[i].again
    <3>1. CASE i = last
      BY <1>2, <1>3, <3>1
    <3>2. CASE i # last
      <4>1. i \in DOMAIN log /\ log'[i] = log[i]
        BY <1>3, <2>1, <3>2
      <4>2. u # t
        BY <1>7, <2>1, <4>1 DEF Send
      <4>3. QED
        BY <2>1, <4>1, <4>2 DEF FeedInv, RepeatIsFirst, Others
    <3>3. QED
      BY <3>1, <3>2
  <2>2. QED
    BY <2>1 DEF RepeatIsFirst
<1>9. NoWriteForgotten'
  <2>1. ASSUME NEW n \in 1..writes
        PROVE  Announced(n)' \/ \E u \in Threads : AboutToAnnounce(u, n)'
    <3>1. CASE Announced(n)
      BY <1>3, <3>1 DEF Announced
    <3>2. CASE AboutToAnnounce(t, n)
      BY <1>2, <1>3, <3>2 DEF Announced, AboutToAnnounce
    <3>3. CASE \E u \in Threads \ {t} : AboutToAnnounce(u, n)
      BY <3>3 DEF AboutToAnnounce, Others
    <3>4. QED
      BY <3>1, <3>2, <3>3 DEF FeedInv, NoWriteForgotten
  <2>2. QED
    BY <2>1 DEF NoWriteForgotten, Send
<1>10. AnnouncedOnce'
  <2>1. ASSUME NEW i \in DOMAIN log', NEW j \in DOMAIN log',
               log'[i].seq = log'[j].seq, log'[i].seq # 0, i < j
        PROVE  ~log'[i].again /\ log'[j].again
    <3>1. i \in DOMAIN log /\ log'[i] = log[i]
      BY <1>3, <2>1
    <3>2. j # last
      BY <1>2, <1>3, <1>7, <2>1, <3>1
    <3>3. j \in DOMAIN log /\ log'[j] = log[j]
      BY <1>3, <2>1, <3>2
    <3>4. QED
      BY <2>1, <3>1, <3>3 DEF FeedInv, AnnouncedOnce
  <2>2. ASSUME NEW u \in Threads, pc'[u] = "announce", req'[u].seq # 0
        PROVE  ~ \E i \in DOMAIN log' : log'[i].seq = req'[u].seq
    <3>1. u # t /\ pc[u] = "announce" /\ req'[u] = req[u]
      BY <2>2 DEF Send, Others
    <3>2. req[u].seq # req[t].seq
      BY <2>2, <3>1 DEF FeedInv, OneHolder, Send, Announcing
    <3>3. ~Announced(req[u].seq)
      BY <2>2, <3>1 DEF FeedInv, AnnouncedOnce
    <3>4. ASSUME NEW i \in DOMAIN log' PROVE log'[i].seq # req[u].seq
      <4>1. CASE i = last
        BY <1>2, <1>3, <3>2, <4>1
      <4>2. CASE i # last
        <5>1. i \in DOMAIN log /\ log'[i] = log[i]
          BY <1>3, <3>4, <4>2
        <5>2. QED
          BY <3>3, <5>1 DEF Announced
      <4>3. QED
        BY <4>1, <4>2
    <3>5. QED
      BY <3>1, <3>4
  <2>3. QED
    BY <2>1, <2>2 DEF AnnouncedOnce, Announced
<1>11. QED
  BY <1>4, <1>5, <1>6, <1>8, <1>9, <1>10 DEF FeedInv

LEMMA RepeatKeepsFeed ==
    ASSUME TypeOK, TypeOK', FeedInv, NEW t \in Threads, Others(t), Repeat(t)
    PROVE  FeedInv'
<1> DEFINE e == EventOf(req[t], TRUE)
           last == Len(log) + 1
<1>1. req[t] \in Request /\ req[t].seq <= writes
  BY DEF TypeOK, ThreadsOK, FeedInv, SeqsArePast, Repeat, Announcing
<1>2. e \in Event /\ e.seq = req[t].seq /\ e.again = TRUE
  BY <1>1, EventsHaveType
<1>3. /\ Len(log) \in Nat /\ DOMAIN log = 1..Len(log)
      /\ DOMAIN log' = 1..last
      /\ log'[last] = e
      /\ \A i \in DOMAIN log : log'[i] = log[i]
  BY <1>2, AppendEvent DEF TypeOK, Repeat
<1> HIDE DEF e
<1>4. ASSUME NEW i \in DOMAIN log'
      PROVE  \/ i = last /\ log'[i].seq = req[t].seq
             \/ i \in DOMAIN log /\ log'[i] = log[i]
  BY <1>2, <1>3, <1>4
<1>5. ASSUME NEW u \in Threads, Announcing(u)'
      PROVE  /\ u # t /\ Announcing(u) /\ pc'[u] = pc[u] /\ req'[u] = req[u]
             /\ req[u].seq # 0 => req[u].seq # req[t].seq
  <2>1. u # t /\ Announcing(u) /\ pc'[u] = pc[u] /\ req'[u] = req[u]
    BY <1>5 DEF Others, Repeat, Announcing
  <2>2. req[u].seq # 0 => req[u].seq # req[t].seq
    BY <2>1 DEF FeedInv, OneHolder, Repeat, Announcing
  <2>3. QED
    BY <2>1, <2>2
<1>6. SeqsArePast'
  <2>1. \A i \in DOMAIN log' : log'[i].seq <= writes
    BY <1>1, <1>4 DEF FeedInv, SeqsArePast
  <2>2. \A u \in Threads : Announcing(u)' => req'[u].seq <= writes
    BY <1>5 DEF FeedInv, SeqsArePast
  <2>3. QED
    BY <2>1, <2>2 DEF SeqsArePast, Repeat
<1>7. OneHolder'
  BY <1>5 DEF FeedInv, OneHolder
<1>8. ApplyIsUnnumbered'
  BY DEF FeedInv, ApplyIsUnnumbered, Others, Repeat
<1>9. RepeatIsFirst'
  <2>1. ASSUME NEW u \in Threads, pc'[u] = "announceAgain", req'[u].seq # 0,
               NEW i \in DOMAIN log', log'[i].seq = req'[u].seq
        PROVE  ~log'[i].again
    <3>1. /\ pc[u] = "announceAgain" /\ req'[u] = req[u] /\ req[u].seq # req[t].seq
      BY <1>5, <2>1 DEF Announcing
    <3>2. i \in DOMAIN log /\ log'[i] = log[i]
      BY <1>4, <2>1, <3>1
    <3>3. QED
      BY <2>1, <3>1, <3>2 DEF FeedInv, RepeatIsFirst
  <2>2. QED
    BY <2>1 DEF RepeatIsFirst
<1>10. NoWriteForgotten'
  <2>1. ASSUME NEW n \in 1..writes
        PROVE  Announced(n)' \/ \E u \in Threads : AboutToAnnounce(u, n)'
    <3>1. CASE Announced(n)
      BY <1>3, <3>1 DEF Announced
    <3>2. CASE \E u \in Threads : AboutToAnnounce(u, n)
      BY <3>2 DEF AboutToAnnounce, Others, Repeat
    <3>3. QED
      BY <3>1, <3>2 DEF FeedInv, NoWriteForgotten
  <2>2. QED
    BY <2>1 DEF NoWriteForgotten, Repeat
<1>11. AnnouncedOnce'
  <2>1. ASSUME NEW i \in DOMAIN log', NEW j \in DOMAIN log',
               log'[i].seq = log'[j].seq, log'[i].seq # 0, i < j
        PROVE  ~log'[i].again /\ log'[j].again
    <3>1. i \in DOMAIN log /\ log'[i] = log[i]
      BY <1>3, <2>1
    <3>2. CASE j = last
      <4>1. log[i].seq = req[t].seq /\ req[t].seq # 0
        BY <1>2, <1>3, <2>1, <3>1, <3>2
      <4>2. ~log[i].again
        BY <3>1, <4>1 DEF FeedInv, RepeatIsFirst, Repeat
      <4>3. QED
        BY <1>2, <1>3, <3>1, <3>2, <4>2
    <3>3. CASE j # last
      <4>1. j \in DOMAIN log /\ log'[j] = log[j]
        BY <1>4, <3>3
      <4>2. QED
        BY <2>1, <3>1, <4>1 DEF FeedInv, AnnouncedOnce
    <3>4. QED
      BY <3>2, <3>3
  <2>2. ASSUME NEW u \in Threads, pc'[u] = "announce", req'[u].seq # 0
        PROVE  ~ \E i \in DOMAIN log' : log'[i].seq = req'[u].seq
    <3>1. pc[u] = "announce" /\ req'[u] = req[u] /\ req[u].seq # req[t].seq
      BY <1>5, <2>2 DEF Announcing
    <3>2. ~Announced(req[u].seq)
      BY <2>2, <3>1 DEF FeedInv, AnnouncedOnce
    <3>3. QED
      BY <1>4, <3>1, <3>2 DEF Announced
  <2>3. QED
    BY <2>1, <2>2 DEF AnnouncedOnce, Announced
<1>12. QED
  BY <1>6, <1>7, <1>8, <1>9, <1>10, <1>11 DEF FeedInv

-----------------------------------------------------------------------------
(* The theorems.                                                           *)

LEMMA InitFeed == Init => FeedInv
  BY DEF Init, FeedInv, SeqsArePast, OneHolder, ApplyIsUnnumbered, RepeatIsFirst,
         NoWriteForgotten, AnnouncedOnce, Announcing

LEMMA NextKeepsFeed == TypeOK /\ TypeOK' /\ FeedInv /\ [Next]_vars => FeedInv'
<1> SUFFICES ASSUME TypeOK, TypeOK', FeedInv, [Next]_vars PROVE FeedInv'
  OBVIOUS
<1>1. ASSUME NEW t \in Threads, Serve(t) PROVE FeedInv'
  <2>1. FeedStep(t)
    BY <1>1, ServeFeedStep DEF FeedInv
  <2>2. QED
    BY <2>1, MoveKeepsFeed, WriteKeepsFeed, SendKeepsFeed, RepeatKeepsFeed DEF FeedStep
<1>2. CASE UNCHANGED vars
  BY <1>2 DEF vars, FeedInv, SeqsArePast, OneHolder, ApplyIsUnnumbered, RepeatIsFirst,
              NoWriteForgotten, AnnouncedOnce, Announced, AboutToAnnounce, Announcing
<1>3. QED
  BY <1>1, <1>2 DEF Next, Quiet

LEMMA FeedInvariant == Spec => []FeedInv
<1>1. TypeOK /\ TypeOK' /\ FeedInv /\ [Next]_vars => FeedInv'
  BY NextKeepsFeed
<1>2. QED
  BY <1>1, InitFeed, TypeCorrect, PTL DEF Spec

(* Every change of the store is announced or about to be by the thread that*)
(* made it, in every interleaving of any number of requests: no handler    *)
(* returns without its broadcast (polr.go:127, 183, 212).                  *)
THEOREM EveryWriteAnnounced == Spec => []NoWriteForgotten
<1>1. FeedInv => NoWriteForgotten
  BY DEF FeedInv
<1>2. QED
  BY <1>1, FeedInvariant, PTL

(* No change is announced twice, but for the repetition of deletions by    *)
(* DeleteCollection, which follows the announcement it repeats.            *)
THEOREM WriteAnnouncedOnce == Spec => []AnnouncedOnce
<1>1. FeedInv => AnnouncedOnce
  BY DEF FeedInv
<1>2. QED
  BY <1>1, FeedInvariant, PTL

-----------------------------------------------------------------------------
(* Overtaking: the writes an event overtakes are in the hands of threads.  *)

\* The writes before that of the i-th event of which none of the first i tells.
Overtaken(i) == {n \in 1..(log[i].seq - 1) : \A j \in 1..i : log[j].seq # n}

LEMMA FewHoldUnannounced ==
    ASSUME IsFiniteSet(Threads), TypeOK, FeedInv, NEW t \in Threads, Announcing(t),
           NEW S \in SUBSET (1..(req[t].seq - 1)), \A n \in S : ~Announced(n)
    PROVE  Cardinality(S) < Cardinality(Threads)
<1> DEFINE holder == [n \in S |-> CHOOSE u \in Threads : AboutToAnnounce(u, n)]
<1>1. req[t].seq \in Nat /\ req[t].seq <= writes /\ writes \in Nat
  BY DEF TypeOK, ThreadsOK, Request, FeedInv, SeqsArePast, Announcing
<1>2. ASSUME NEW n \in S
      PROVE  holder[n] \in Threads \ {t} /\ AboutToAnnounce(holder[n], n)
  <2>1. n \in 1..writes /\ n # req[t].seq
    BY <1>1
  <2>2. \E u \in Threads : AboutToAnnounce(u, n)
    BY <2>1 DEF FeedInv, NoWriteForgotten
  <2>3. holder[n] \in Threads /\ AboutToAnnounce(holder[n], n)
    BY <2>2
  <2>4. ~AboutToAnnounce(t, n)
    BY <2>1 DEF AboutToAnnounce
  <2>5. QED
    BY <2>3, <2>4
<1>3. holder \in Injection(S, Threads \ {t})
  <2>1. holder \in [S -> Threads \ {t}]
    BY <1>2
  <2>2. \A m, n \in S : holder[m] = holder[n] => m = n
    BY <1>2 DEF AboutToAnnounce
  <2> HIDE DEF holder
  <2>3. QED
    BY <2>1, <2>2 DEF Injection, IsInjective
<1> HIDE DEF holder
<1>4. IsFiniteSet(Threads \ {t}) /\ Cardinality(Threads \ {t}) = Cardinality(Threads) - 1
  BY FS_RemoveElement
<1>5. Cardinality(S) <= Cardinality(Threads \ {t}) /\ IsFiniteSet(S)
  BY <1>3, <1>4, FS_Injection
<1>6. Cardinality(Threads) \in Nat /\ Cardinality(S) \in Nat
  BY <1>5, FS_CardinalityType
<1>7. QED
  BY <1>4, <1>5, <1>6

LEMMA AppendKeepsBound ==
    ASSUME IsFiniteSet(Threads), TypeOK, FeedInv, BoundedOvertaking,
           NEW t \in Threads, Announcing(t), NEW again \in BOOLEAN,
           log' = Append(log, EventOf(req[t], again))
    PROVE  BoundedOvertaking'
<1> DEFINE e == EventOf(req[t], again)
           last == Len(log) + 1
<1>1. req[t] \in Request
  BY DEF TypeOK, ThreadsOK, Announcing
<1>2. e \in Event /\ e.seq = req[t].seq
  BY <1>1, EventsHaveType
<1> HIDE DEF e
<1>3. /\ Len(log) \in Nat /\ DOMAIN log = 1..Len(log)
      /\ DOMAIN log' = 1..last
      /\ log'[last] = e
      /\ \A i \in DOMAIN log : log'[i] = log[i]
  BY <1>2, AppendEvent DEF TypeOK, e
<1>4. ASSUME NEW i \in DOMAIN log'
      PROVE  Cardinality(Overtaken(i)') < Cardinality(Threads)
  <2>1. CASE i = last
    <3>1. \A n \in Overtaken(i)' : ~Announced(n)
      BY <1>3, <2>1 DEF Overtaken, Announced
    <3>2. Overtaken(i)' \in SUBSET (1..(req[t].seq - 1))
      BY <1>2, <1>3, <2>1 DEF Overtaken
    <3> DEFINE S == Overtaken(i)'
    <3> HIDE DEF S
    <3>3. QED
      BY <3>1, <3>2, FewHoldUnannounced DEF S
  <2>2. CASE i # last
    <3>1. i \in DOMAIN log /\ \A j \in 1..i : log'[j] = log[j]
      BY <1>3, <1>4, <2>2
    <3>2. Overtaken(i)' = Overtaken(i)
      BY <1>3, <3>1 DEF Overtaken
    <3>3. QED
      BY <3>1, <3>2 DEF BoundedOvertaking, Overtaken
  <2>3. QED
    BY <2>1, <2>2
<1>5. QED
  BY <1>4 DEF BoundedOvertaking, Overtaken

LEMMA NextKeepsBound ==
    ASSUME IsFiniteSet(Threads), TypeOK, FeedInv, BoundedOvertaking, [Next]_vars
    PROVE  BoundedOvertaking'
<1>1. ASSUME NEW t \in Threads, Serve(t) PROVE BoundedOvertaking'
  <2>1. FeedStep(t)
    BY <1>1, ServeFeedStep DEF FeedInv
  <2>2. CASE log' = log
    BY <2>2 DEF BoundedOvertaking
  <2>3. CASE Send(t) \/ Repeat(t)
    BY <2>3, AppendKeepsBound DEF Send, Repeat, Announcing
  <2>4. QED
    BY <2>1, <2>2, <2>3 DEF FeedStep, Move, Write
<1>2. CASE UNCHANGED vars
  BY <1>2 DEF vars, BoundedOvertaking
<1>3. QED
  BY <1>1, <1>2 DEF Next, Quiet

(* Events are out of order by less than the number of threads: whatever    *)
(* write an event overtakes, another thread has made it and is about to    *)
(* announce it.  The API server runs finitely many requests at a time.     *)
THEOREM OvertakingIsBounded ==
    ASSUME IsFiniteSet(Threads)
    PROVE  Spec => []BoundedOvertaking
<1>1. Init => BoundedOvertaking
  BY DEF Init, BoundedOvertaking
<1>2. TypeOK /\ FeedInv /\ BoundedOvertaking /\ [Next]_vars => BoundedOvertaking'
  BY NextKeepsBound
<1>3. QED
  BY <1>1, <1>2, TypeCorrect, FeedInvariant, PTL DEF Spec

-----------------------------------------------------------------------------
(* What a request may be at each call of its handler, whatever happened to *)
(* the store meanwhile.                                                    *)

\* The request of a thread suits the call it is at, and only that of an apply
\* is a dry run.
SuitsCall(t) ==
    /\ pc[t] # "idle" => (req[t].dry => req[t].verb = "apply")
    /\ pc[t] # "idle" => (req[t].verb = "apply" => "apply" \in Verbs)
    /\ pc[t] = "apply" => req[t].verb = "apply" /\ req[t].seq = 0
    /\ pc[t] \in {"reread", "update"} => req[t].verb = "update"
    /\ pc[t] \in {"collect", "announceAgain"} => req[t].verb = "deletecollection"
    /\ pc[t] = "delete" =>
           req[t].verb \in {"delete", "deletecollection"} /\ req[t].obj \in Report

AllSuit == \A t \in Threads : SuitsCall(t)

LEMMA ReplySuits ==
    ASSUME TypeOK, NEW t \in Threads, NEW outcome, Reply(t, outcome)
    PROVE  SuitsCall(t)'
  BY ReplyMoves DEF TypeOK, SuitsCall

\* The request that leads a thread to a stage is as that stage needs it.
LEMMA ContinueSuits ==
    ASSUME TypeOK, NEW t \in Threads, NEW stage, NEW r, Continue(t, stage, r),
           stage # "idle",
           r.dry => r.verb = "apply",
           r.verb = "apply" => "apply" \in Verbs,
           stage = "apply" => r.verb = "apply" /\ r.seq = 0,
           stage \in {"reread", "update"} => r.verb = "update",
           stage \in {"collect", "announceAgain"} => r.verb = "deletecollection",
           stage = "delete" => r.verb \in {"delete", "deletecollection"} /\ r.obj \in Report
    PROVE  SuitsCall(t)'
<1>1. pc'[t] = stage /\ req'[t] = r
  BY ContinueMoves DEF TypeOK
<1>2. QED
  BY <1>1 DEF SuitsCall

LEMMA WrittenSuits ==
    ASSUME TypeOK, NEW t \in Threads, NEW r \in Request, Written(t, r),
           r.dry => r.verb = "apply", r.verb = "apply" => "apply" \in Verbs
    PROVE  SuitsCall(t)'
<1> DEFINE s == [r EXCEPT !.seq = writes + 1]
<1>1. s.dry = r.dry /\ s.verb = r.verb
  BY DEF Request
<1>2. Continue(t, "announce", s)
  BY DEF Written
<1> HIDE DEF s
<1>3. QED
  BY <1>1, <1>2, ContinueSuits

LEMMA NextItemSuits ==
    ASSUME TypeOK, NEW t \in Threads, NEW items, NextItem(t, items)
    PROVE  SuitsCall(t)'
<1>1. pc'[t] = "collect"
  BY NextItemMoves DEF TypeOK
<1>2. PICK i \in DOMAIN items :
          req' = [req EXCEPT ![t] = NewRequest("deletecollection", items[i], FALSE, NoReport)]
  BY DEF NextItem
<1>3. req'[t].verb = "deletecollection" /\ ~req'[t].dry
  BY <1>2 DEF TypeOK, ThreadsOK, NewRequest
<1>4. QED
  BY <1>1, <1>3 DEF SuitsCall

LEMMA RequestSuits ==
    ASSUME TypeOK, NEW t \in Threads, NEW k \in Keys, NEW labels \in LabelMaps,
           NEW dry \in BOOLEAN,
           \/ CreateReport(t, k, labels, dry)
           \/ \E uid \in 0..writes : UpdateGet(t, k, labels, uid, dry)
           \/ ApplyGet(t, k, labels, dry)
    PROVE  SuitsCall(t)'
<1>1. ASSUME NEW outcome, Reply(t, outcome)
      PROVE  SuitsCall(t)'
  BY <1>1, ReplySuits
<1>2. CASE CreateReport(t, k, labels, dry)
  <2> DEFINE r == NewRequest("create", k, dry, CreatedReport(labels))
  <2>1. CreatedReport(labels) \in Report
    BY DEF TypeOK, CreatedReport, Report
  <2>2. r \in Request /\ r.verb = "create" /\ r.dry = dry
    BY <2>1, NewRequestType DEF AllVerbs, NewRequest
  <2> HIDE DEF r
  <2>3. CASE ~dry /\ CreatePolr(t, r)
    <3>1. Written(t, r) \/ \E err : Reply(t, err)
      BY <2>3 DEF CreatePolr
    <3>2. QED
      BY <1>1, <2>2, <2>3, <3>1, WrittenSuits
  <2>4. QED
    BY <1>1, <1>2, <2>3 DEF CreateReport, r
<1>3. ASSUME NEW uid \in 0..writes, UpdateGet(t, k, labels, uid, dry)
      PROVE  SuitsCall(t)'
  <2> DEFINE r == NewRequest("update", k, dry, [uid |-> uid, rv |-> 0, labels |-> labels])
  <2>1. r.verb = "update" /\ r.dry = dry
    BY DEF NewRequest
  <2> HIDE DEF r
  <2>2. CASE ~dry /\ Continue(t, "reread", r)
    BY <2>1, <2>2, ContinueSuits
  <2>3. QED
    BY <1>1, <1>3, <2>2 DEF UpdateGet, r
<1>4. CASE ApplyGet(t, k, labels, dry)
  <2> DEFINE r == NewRequest("apply", k, dry,
                      [uid |-> IF Found(k) THEN db[k].uid ELSE 0, rv |-> 1, labels |-> labels])
  <2>1. r.verb = "apply" /\ r.seq = 0 /\ "apply" \in Verbs
    BY <1>4 DEF NewRequest, ApplyGet, Accept
  <2> HIDE DEF r
  <2>2. CASE Continue(t, "apply", r)
    BY <2>1, <2>2, ContinueSuits
  <2>3. QED
    BY <1>1, <1>4, <2>2 DEF ApplyGet, r
<1>5. QED
  BY <1>2, <1>3, <1>4

LEMMA FindForDeleteSuits ==
    ASSUME TypeOK, NEW t \in Threads, NEW r \in Request,
           r.verb \in {"delete", "deletecollection"}, FindForDelete(t, r)
    PROVE  SuitsCall(t)'
<1> DEFINE s == [r EXCEPT !.obj = db[r.key]]
<1>1. CASE Found(r.key) /\ ~r.dry /\ Continue(t, "delete", s)
  <2>1. s.verb = r.verb /\ s.dry = r.dry /\ s.obj = db[r.key] /\ r.key \in Keys
    BY DEF Request
  <2>2. s.obj \in Report
    BY <1>1, <2>1, FoundIsReport DEF TypeOK
  <2> HIDE DEF s
  <2>3. QED
    BY <1>1, <2>1, <2>2, ContinueSuits
<1>2. QED
  BY <1>1, ReplySuits DEF FindForDelete

\* Later calls keep the request, and its verb decides what they may be.
LEMMA CallSuits ==
    ASSUME TypeOK, NEW t \in Threads, SuitsCall(t),
           \/ UpdateReread(t) \/ UpdateStore(t) \/ ApplyStore(t) \/ DeleteStore(t)
           \/ CollectionItem(t) \/ Announce(t) \/ AnnounceAgain(t)
    PROVE  SuitsCall(t)'
<1>1. req[t] \in Request /\ pc[t] # "idle"
  BY DEF TypeOK, ThreadsOK, UpdateReread, UpdateStore, ApplyStore, DeleteStore,
         CollectionItem, Announce, AnnounceAgain
<1>2. ASSUME NEW outcome, Reply(t, outcome)
      PROVE  SuitsCall(t)'
  BY <1>2, ReplySuits
<1>3. CASE Written(t, req[t])
  BY <1>1, <1>3, WrittenSuits DEF SuitsCall
<1>4. CASE UpdateReread(t)
  <2> DEFINE r == [req[t] EXCEPT !.obj.rv = db[req[t].key].rv + 1]
  <2>1. r.verb = "update" /\ r.dry = req[t].dry /\ ~req[t].dry
    BY <1>1, <1>4 DEF Request, SuitsCall, UpdateReread
  <2> HIDE DEF r
  <2>2. CASE Continue(t, "update", r)
    BY <2>1, <2>2, ContinueSuits
  <2>3. QED
    BY <1>2, <1>4, <2>2 DEF UpdateReread, r
<1>5. CASE UpdateStore(t) \/ DeleteStore(t)
  BY <1>2, <1>3, <1>5 DEF UpdateStore, DeleteStore
<1>6. CASE ApplyStore(t)
  <2>1. CASE Continue(t, "announce", req[t])
    BY <1>1, <2>1, ContinueSuits DEF SuitsCall
  <2>2. QED
    BY <1>3, <1>6, <2>1 DEF ApplyStore
<1>7. CASE CollectionItem(t)
  BY <1>1, <1>7, FindForDeleteSuits DEF CollectionItem, SuitsCall
<1>8. CASE Announce(t)
  <2>1. CASE req[t].verb = "deletecollection" /\ Continue(t, "announceAgain", req[t])
    BY <1>1, <2>1, ContinueSuits DEF SuitsCall
  <2>2. QED
    BY <1>2, <1>8, <2>1 DEF Announce
<1>9. CASE AnnounceAgain(t)
  BY <1>2, <1>9, NextItemSuits DEF AnnounceAgain
<1>10. QED
  BY <1>4, <1>5, <1>6, <1>7, <1>8, <1>9

LEMMA ServeSuits ==
    ASSUME TypeOK, NEW t \in Threads, SuitsCall(t), Serve(t)
    PROVE  SuitsCall(t)'
<1>1. ASSUME NEW k \in Keys, NEW dry \in BOOLEAN, DeleteGet(t, k, dry)
      PROVE  SuitsCall(t)'
  <2> DEFINE r == NewRequest("delete", k, dry, NoReport)
  <2>1. r \in Request /\ r.verb = "delete"
    BY NewRequestType DEF AllVerbs
  <2> HIDE DEF r
  <2>2. QED
    BY <1>1, <2>1, FindForDeleteSuits DEF DeleteGet, r
<1>2. ASSUME NEW ns, NEW selector, NEW dry, CollectionList(t, ns, selector, dry)
      PROVE  SuitsCall(t)'
  BY <1>2, ReplySuits, NextItemSuits DEF CollectionList
<1>3. QED
  BY <1>1, <1>2, RequestSuits, CallSuits DEF Serve

LEMMA NextSuits == TypeOK /\ ApplyIsUnnumbered /\ AllSuit /\ [Next]_vars => AllSuit'
<1>1. ASSUME TypeOK, ApplyIsUnnumbered, AllSuit, NEW t \in Threads, Serve(t),
             NEW u \in Threads
      PROVE  SuitsCall(u)'
  <2>1. CASE u = t
    BY <1>1, <2>1, ServeSuits DEF AllSuit
  <2>2. CASE u # t
    BY <1>1, <2>2, ServeFeedStep DEF AllSuit, SuitsCall, FeedStep, Others
  <2>3. QED
    BY <2>1, <2>2
<1>2. ASSUME AllSuit, UNCHANGED vars
      PROVE  AllSuit'
  BY <1>2 DEF AllSuit, SuitsCall, vars
<1>3. QED
  BY <1>1, <1>2 DEF Next, Quiet, AllSuit

LEMMA RequestsSuit == Spec => []AllSuit
<1>1. Init => AllSuit
  BY DEF Init, AllSuit, SuitsCall
<1>2. TypeOK /\ FeedInv /\ AllSuit /\ [Next]_vars => AllSuit'
  BY NextSuits DEF FeedInv
<1>3. QED
  BY <1>1, <1>2, TypeCorrect, FeedInvariant, PTL DEF Spec

(* No dry run of create, update, delete or deletecollection reaches a store*)
(* call that writes: each stops before (polr.go:122, 178, 206, 238).       *)
THEOREM DryRunsPersistNothing ==
    ASSUME "apply" \notin Verbs
    PROVE  Spec => DryRunPersistsNothing
<1>1. TypeOK /\ AllSuit' =>
        [\A t \in Threads :
            db' # db /\ pc'[t] = "announce" /\ pc[t] # "announce" => ~req'[t].dry]_vars
  BY DEF AllSuit, SuitsCall
<1>2. QED
  BY <1>1, TypeCorrect, RequestsSuit, PTL DEF DryRunPersistsNothing

-----------------------------------------------------------------------------
(* Deleted reports.  The invariant: no UID in the store, in a request that *)
(* is under way or in an event is that of a report yet to be created.      *)

Past(obj) == obj # NoReport => obj.uid <= writes

UidsArePast ==
    /\ \A k \in Keys : Past(db[k])
    /\ \A t \in Threads : pc[t] # "idle" => Past(req[t].obj)
    /\ \A i \in DOMAIN log : Past(log[i].obj)

\* What a step of t does to the reports.
DbMove ==
    \/ UNCHANGED <<db, writes>>
    \/ /\ writes' = writes + 1
       /\ \E k \in Keys : /\ Found(k)
                          /\ \E v : Past(v) /\ db' = [db EXCEPT ![k] = v]
    \/ /\ writes' = writes + 1
       /\ \E k \in Keys : /\ ~Found(k)
                          /\ \E v : /\ v.uid = writes + 1 /\ v.rv = 1
                                    /\ db' = [db EXCEPT ![k] = v]

\* What it does to the requests: it leaves those of the others alone.
ReqMove(t) ==
    /\ Others(t)
    /\ pc'[t] # "idle" /\ req'[t].obj # NoReport => req'[t].obj.uid <= writes'

\* What it does to the log.
LogMove(t) ==
    \/ log' = log
    \/ /\ pc[t] # "idle" /\ req[t] \in Request
       /\ \E again \in BOOLEAN : log' = Append(log, EventOf(req[t], again))

LifeStep(t) == DbMove /\ ReqMove(t) /\ LogMove(t)

-----------------------------------------------------------------------------
(* The handlers' steps.                                                    *)

LEMMA WrittenKeepsObj ==
    ASSUME ThreadsOK, NEW t \in Threads, NEW r \in Request, Written(t, r)
    PROVE  Others(t) /\ req'[t].obj = r.obj /\ writes' = writes + 1
<1>1. Continue(t, "announce", [r EXCEPT !.seq = writes + 1])
  BY DEF Written
<1>2. Others(t) /\ req'[t] = [r EXCEPT !.seq = writes + 1]
  BY <1>1, ContinueMoves
<1>3. [r EXCEPT !.seq = writes + 1].obj = r.obj
  BY DEF Request
<1>4. QED
  BY <1>2, <1>3 DEF Written

LEMMA ReplyReqMove ==
    ASSUME ThreadsOK, NEW t \in Threads, NEW answer, Reply(t, answer)
    PROVE  ReqMove(t)
  BY ReplyMoves DEF ReqMove

LEMMA ContinueReqMove ==
    ASSUME ThreadsOK, NEW t \in Threads, NEW stage, NEW r, Continue(t, stage, r), Past(r.obj),
           UNCHANGED writes
    PROVE  ReqMove(t)
  BY ContinueMoves DEF ReqMove, Past

LEMMA NextItemReqMove ==
    ASSUME ThreadsOK, NEW t \in Threads, NEW items, NextItem(t, items)
    PROVE  ReqMove(t)
<1>1. Others(t)
  BY NextItemMoves
<1>2. req'[t].obj = NoReport
  BY DEF ThreadsOK, NextItem, NewRequest
<1>3. QED
  BY <1>1, <1>2 DEF ReqMove, Past

LEMMA CreateLifeStep ==
    ASSUME TypeOK, NEW t \in Threads, NEW k \in Keys, NEW labels \in LabelMaps,
           NEW dry \in BOOLEAN, CreateReport(t, k, labels, dry)
    PROVE  LifeStep(t)
<1> DEFINE r == NewRequest("create", k, dry, CreatedReport(labels))
<1>1. CreatedReport(labels) \in Report
  BY DEF TypeOK, CreatedReport, Report
<1>2. r \in Request /\ r.obj = CreatedReport(labels) /\ r.key = k
  BY <1>1, NewRequestType DEF AllVerbs
<1>3. CreatedReport(labels).uid = writes + 1 /\ CreatedReport(labels).rv = 1
  BY DEF CreatedReport
<1> HIDE DEF r
<1>4. ThreadsOK /\ log' = log /\ LogMove(t) /\ writes \in Nat
  BY DEF TypeOK, CreateReport, LogMove
<1>5. ASSUME NEW answer, Reply(t, answer), UNCHANGED <<db, writes>>
      PROVE  LifeStep(t)
  BY <1>4, <1>5, ReplyReqMove DEF LifeStep, DbMove
<1>6. CASE CreatePolr(t, r)
  <2>1. PICK err \in {"none", "exists"} :
            /\ DbCreate(r.key, r.obj, err)
            /\ IF err = "none" THEN Written(t, r) ELSE Reply(t, err) /\ UNCHANGED writes
    BY <1>6 DEF CreatePolr
  <2>2. CASE err = "none"
    <3>1. Others(t) /\ req'[t].obj = CreatedReport(labels) /\ writes' = writes + 1
      BY <1>2, <1>4, <2>1, <2>2, WrittenKeepsObj
    <3>2. ~Found(k) /\ db' = [db EXCEPT ![k] = CreatedReport(labels)]
      BY <1>2, <2>1, <2>2 DEF DbCreate
    <3>3. DbMove
      BY <1>3, <3>1, <3>2 DEF DbMove
    <3>4. ReqMove(t)
      BY <1>3, <1>4, <3>1 DEF ReqMove, Past
    <3>5. QED
      BY <1>4, <3>3, <3>4 DEF LifeStep
  <2>3. CASE err = "exists"
    BY <1>5, <2>1, <2>3 DEF DbCreate
  <2>4. QED
    BY <2>2, <2>3
<1>7. QED
  BY <1>5, <1>6 DEF CreateReport, r

LEMMA UpdateGetLifeStep ==
    ASSUME TypeOK, NEW t \in Threads, NEW k \in Keys, NEW labels \in LabelMaps,
           NEW uid \in 0..writes, NEW dry \in BOOLEAN, UpdateGet(t, k, labels, uid, dry)
    PROVE  LifeStep(t)
<1>1. ThreadsOK /\ UNCHANGED <<db, log, writes>> /\ writes \in Nat
  BY DEF TypeOK, UpdateGet
<1>2. Past(NewRequest("update", k, dry, [uid |-> uid, rv |-> 0, labels |-> labels]).obj)
  BY DEF NewRequest, Past
<1>3. ASSUME NEW answer, Reply(t, answer) PROVE ReqMove(t)
  BY <1>1, <1>3, ReplyReqMove
<1>4. ASSUME NEW r, Past(r.obj), Continue(t, "reread", r) PROVE ReqMove(t)
  BY <1>1, <1>4, ContinueReqMove
<1>5. ReqMove(t)
  BY <1>2, <1>3, <1>4 DEF UpdateGet
<1>6. QED
  BY <1>1, <1>5 DEF LifeStep, DbMove, LogMove

LEMMA UpdateRereadLifeStep ==
    ASSUME TypeOK, UidsArePast, NEW t \in Threads, UpdateReread(t)
    PROVE  LifeStep(t)
<1>1. ThreadsOK /\ UNCHANGED <<db, log, writes>>
  BY DEF TypeOK, UpdateReread
<1>2. req[t] \in Request /\ req[t].obj \in Report /\ Past(req[t].obj)
  BY DEF TypeOK, ThreadsOK, UidsArePast, UpdateReread
<1>3. ASSUME NEW rv PROVE Past([req[t] EXCEPT !.obj.rv = rv].obj)
  BY <1>2, NoReportAssumption DEF Past, Request, Report
<1>4. ASSUME NEW answer, Reply(t, answer) PROVE ReqMove(t)
  BY <1>1, <1>4, ReplyReqMove
<1>5. ASSUME NEW r, Past(r.obj), Continue(t, "update", r) PROVE ReqMove(t)
  BY <1>1, <1>5, ContinueReqMove
<1>6. ReqMove(t)
  BY <1>3, <1>4, <1>5 DEF UpdateReread
<1>7. QED
  BY <1>1, <1>6 DEF LifeStep, DbMove, LogMove

LEMMA ApplyGetLifeStep ==
    ASSUME TypeOK, UidsArePast, NEW t \in Threads, NEW k \in Keys, NEW labels \in LabelMaps,
           NEW dry \in BOOLEAN, ApplyGet(t, k, labels, dry)
    PROVE  LifeStep(t)
<1> DEFINE uid == IF Found(k) THEN db[k].uid ELSE 0
<1>1. ThreadsOK /\ UNCHANGED <<db, log, writes>> /\ writes \in Nat
  BY DEF TypeOK, ApplyGet
<1>2. uid <= writes
  BY <1>1 DEF UidsArePast, Past, Found
<1>3. Past(NewRequest("apply", k, dry, [uid |-> uid, rv |-> 1, labels |-> labels]).obj)
  BY <1>2 DEF NewRequest, Past
<1>4. ASSUME NEW answer, Reply(t, answer) PROVE ReqMove(t)
  BY <1>1, <1>4, ReplyReqMove
<1>5. ASSUME NEW r, Past(r.obj), Continue(t, "apply", r) PROVE ReqMove(t)
  BY <1>1, <1>5, ContinueReqMove
<1>6. ReqMove(t)
  BY <1>3, <1>4, <1>5 DEF ApplyGet
<1>7. QED
  BY <1>1, <1>6 DEF LifeStep, DbMove, LogMove

LEMMA FindForDeleteLifeStep ==
    ASSUME TypeOK, UidsArePast, NEW t \in Threads, NEW r \in Request, FindForDelete(t, r),
           UNCHANGED <<db, log, writes>>
    PROVE  LifeStep(t)
<1>1. ThreadsOK /\ Past(db[r.key])
  BY DEF TypeOK, UidsArePast, Request
<1>2. Past([r EXCEPT !.obj = db[r.key]].obj)
  BY <1>1 DEF Request
<1>3. ASSUME NEW answer, Reply(t, answer) PROVE ReqMove(t)
  BY <1>1, <1>3, ReplyReqMove
<1>4. ASSUME NEW s, Past(s.obj), Continue(t, "delete", s) PROVE ReqMove(t)
  BY <1>1, <1>4, ContinueReqMove
<1>5. ReqMove(t)
  BY <1>2, <1>3, <1>4 DEF FindForDelete
<1>6. QED
  BY <1>5 DEF LifeStep, DbMove, LogMove

LEMMA CollectionListLifeStep ==
    ASSUME TypeOK, NEW t \in Threads, NEW ns, NEW selector, NEW dry,
           CollectionList(t, ns, selector, dry)
    PROVE  LifeStep(t)
<1>1. ThreadsOK /\ UNCHANGED <<db, log, writes>>
  BY DEF TypeOK, CollectionList
<1>2. ASSUME NEW answer, Reply(t, answer) PROVE ReqMove(t)
  BY <1>1, <1>2, ReplyReqMove
<1>3. ASSUME NEW items, NextItem(t, items) PROVE ReqMove(t)
  BY <1>1, <1>3, NextItemReqMove
<1>4. ReqMove(t)
  BY <1>2, <1>3 DEF CollectionList
<1>5. QED
  BY <1>1, <1>4 DEF LifeStep, DbMove, LogMove

LEMMA AnnounceLifeStep ==
    ASSUME TypeOK, UidsArePast, NEW t \in Threads, Announce(t) \/ AnnounceAgain(t)
    PROVE  LifeStep(t)
<1>1. ThreadsOK /\ UNCHANGED <<db, writes>> /\ LogMove(t) /\ Past(req[t].obj)
  BY DEF TypeOK, ThreadsOK, UidsArePast, Announce, AnnounceAgain, LogMove
<1>2. ASSUME NEW answer, Reply(t, answer) PROVE ReqMove(t)
  BY <1>1, <1>2, ReplyReqMove
<1>3. ASSUME NEW items, NextItem(t, items) PROVE ReqMove(t)
  BY <1>1, <1>3, NextItemReqMove
<1>4. ASSUME NEW r, Past(r.obj), Continue(t, "announceAgain", r) PROVE ReqMove(t)
  BY <1>1, <1>4, ContinueReqMove
<1>5. ReqMove(t)
  <2>1. CASE Announce(t)
    BY <1>1, <1>2, <1>4, <2>1 DEF Announce
  <2>2. CASE AnnounceAgain(t)
    BY <1>2, <1>3, <2>2 DEF AnnounceAgain
  <2>3. QED
    BY <2>1, <2>2
<1>6. QED
  BY <1>1, <1>5 DEF LifeStep, DbMove

(* The three calls that write with the report the request holds.           *)
LEMMA StoreLifeStep ==
    ASSUME TypeOK, UidsArePast, NEW t \in Threads,
           UpdateStore(t) \/ ApplyStore(t) \/ DeleteStore(t)
    PROVE  LifeStep(t)
<1>1. /\ ThreadsOK /\ log' = log /\ writes \in Nat
      /\ req[t] \in Request /\ req[t].key \in Keys /\ Past(req[t].obj)
  BY DEF TypeOK, ThreadsOK, UidsArePast, UpdateStore, ApplyStore, DeleteStore, Request
<1>2. PICK err \in {"none", "missing"} :
          /\ DbUpdate(req[t].key, req[t].obj, err) \/ DbDelete(req[t].key, err)
          /\ IF err = "none" THEN Written(t, req[t])
             ELSE (Reply(t, err) \/ Continue(t, "announce", req[t])) /\ UNCHANGED writes
  BY DEF UpdateStore, ApplyStore, DeleteStore
<1>3. CASE err = "none"
  <2>1. Others(t) /\ req'[t].obj = req[t].obj /\ writes' = writes + 1
    BY <1>1, <1>2, <1>3, WrittenKeepsObj
  <2>2. ReqMove(t)
    <3>1. req[t].obj # NoReport => req[t].obj.uid \in Nat
      BY <1>1 DEF Request, Report
    <3>2. QED
      BY <1>1, <2>1, <3>1 DEF ReqMove, Past
  <2>3. /\ Found(req[t].key)
        /\ \/ db' = [db EXCEPT ![req[t].key] = req[t].obj]
           \/ db' = [db EXCEPT ![req[t].key] = NoReport]
    BY <1>2, <1>3 DEF DbUpdate, DbDelete
  <2>4. Past(NoReport)
    BY DEF Past
  <2>5. DbMove
    BY <1>1, <2>1, <2>3, <2>4 DEF DbMove
  <2>6. QED
    BY <1>1, <2>2, <2>5 DEF LifeStep, LogMove
<1>4. CASE err = "missing"
  <2>1. UNCHANGED <<db, writes>>
    BY <1>2, <1>4 DEF DbUpdate, DbDelete
  <2>2. ReqMove(t)
    BY <1>1, <1>2, <1>4, <2>1, ReplyReqMove, ContinueReqMove
  <2>3. QED
    BY <1>1, <2>1, <2>2 DEF LifeStep, DbMove, LogMove
<1>5. QED
  BY <1>3, <1>4

LEMMA ServeLifeStep ==
    ASSUME TypeOK, UidsArePast, NEW t \in Threads, Serve(t)
    PROVE  LifeStep(t)
<1>1. CASE \E k \in Keys, labels \in LabelMaps, dry \in BOOLEAN :
             \/ CreateReport(t, k, labels, dry)
             \/ \E uid \in 0..writes : UpdateGet(t, k, labels, uid, dry)
             \/ ApplyGet(t, k, labels, dry)
  BY <1>1, CreateLifeStep, UpdateGetLifeStep, ApplyGetLifeStep
<1>2. ASSUME NEW k \in Keys, NEW dry \in BOOLEAN, DeleteGet(t, k, dry)
      PROVE  LifeStep(t)
  <2>1. NewRequest("delete", k, dry, NoReport) \in Request
    BY NewRequestType DEF AllVerbs
  <2>2. FindForDelete(t, NewRequest("delete", k, dry, NoReport)) /\ UNCHANGED <<db, log, writes>>
    BY <1>2 DEF DeleteGet
  <2>3. QED
    BY <2>1, <2>2, FindForDeleteLifeStep
<1>3. CASE \E ns \in Namespaces, selector \in Selectors, dry \in BOOLEAN :
             CollectionList(t, ns, selector, dry)
  BY <1>3, CollectionListLifeStep
<1>4. CASE UpdateReread(t)
  BY <1>4, UpdateRereadLifeStep
<1>5. CASE UpdateStore(t) \/ ApplyStore(t) \/ DeleteStore(t)
  BY <1>5, StoreLifeStep
<1>6. CASE CollectionItem(t)
  <2>1. req[t] \in Request
    BY <1>6 DEF TypeOK, ThreadsOK, CollectionItem
  <2>2. QED
    BY <1>6, <2>1, FindForDeleteLifeStep DEF CollectionItem
<1>7. CASE Announce(t) \/ AnnounceAgain(t)
  BY <1>7, AnnounceLifeStep
<1>8. QED
  BY <1>1, <1>2, <1>3, <1>4, <1>5, <1>6, <1>7 DEF Serve

-----------------------------------------------------------------------------
(* The invariant is kept, and no report that appears is an old one.        *)

LEMMA StepKeepsUidsPast ==
    ASSUME TypeOK, TypeOK', UidsArePast, NEW t \in Threads, LifeStep(t)
    PROVE  UidsArePast'
<1>1. writes \in Nat /\ writes' \in Nat /\ writes <= writes'
  BY DEF TypeOK, LifeStep, DbMove
<1>2. ASSUME NEW obj, obj # NoReport => obj.uid \in Nat, Past(obj)
      PROVE  obj # NoReport => obj.uid <= writes'
  BY <1>1, <1>2 DEF Past
<1>3. ASSUME NEW k \in Keys PROVE db'[k] # NoReport => db'[k].uid <= writes'
  <2>1. db \in [Keys -> Report \cup {NoReport}] /\ db' \in [Keys -> Report \cup {NoReport}]
    BY DEF TypeOK
  <2>2. db'[k] # NoReport => db'[k].uid \in Nat
    BY <2>1 DEF Report
  <2>3. CASE db'[k] = db[k]
    BY <1>2, <2>2, <2>3 DEF UidsArePast
  <2>4. CASE db'[k] # db[k]
    <3>1. Past(db'[k]) \/ (db'[k].uid = writes + 1 /\ writes' = writes + 1)
      BY <2>1, <2>4 DEF LifeStep, DbMove
    <3>2. QED
      BY <1>1, <1>2, <2>2, <3>1
  <2>5. QED
    BY <2>3, <2>4
<1>4. ASSUME NEW u \in Threads, pc'[u] # "idle"
      PROVE  req'[u].obj # NoReport => req'[u].obj.uid <= writes'
  <2>1. CASE u = t
    BY <1>4, <2>1 DEF LifeStep, ReqMove
  <2>2. CASE u # t
    <3>1. pc[u] # "idle" /\ req'[u] = req[u]
      BY <1>4, <2>2 DEF LifeStep, ReqMove, Others
    <3>2. req[u].obj # NoReport => req[u].obj.uid \in Nat
      BY <3>1 DEF TypeOK, ThreadsOK, Request, Report
    <3>3. QED
      BY <1>2, <3>1, <3>2 DEF UidsArePast
  <2>3. QED
    BY <2>1, <2>2
<1>5. ASSUME NEW i \in DOMAIN log'
      PROVE  log'[i].obj # NoReport => log'[i].obj.uid <= writes'
  <2>1. log' \in Seq(Event) /\ log \in Seq(Event)
    BY DEF TypeOK
  <2>2. log'[i].obj # NoReport => log'[i].obj.uid \in Nat
    <3>1. log'[i] \in Event
      BY <2>1, <1>5
    <3>2. log'[i].obj \in Report \cup {NoReport}
      BY <3>1 DEF Event
    <3>3. QED
      BY <3>2 DEF Report
  <2>3. CASE i \in DOMAIN log /\ log'[i] = log[i]
    BY <1>2, <2>2, <2>3 DEF UidsArePast
  <2>4. ASSUME NEW again \in BOOLEAN, log' = Append(log, EventOf(req[t], again)),
               pc[t] # "idle", req[t] \in Request
        PROVE  log'[i].obj # NoReport => log'[i].obj.uid <= writes'
    <3>1. EventOf(req[t], again) \in Event /\ EventOf(req[t], again).obj = req[t].obj
      BY <2>4, EventsHaveType
    <3>2. (i \in DOMAIN log /\ log'[i] = log[i]) \/ log'[i] = EventOf(req[t], again)
      BY <1>5, <2>1, <2>4, <3>1, AppendEvent
    <3>3. Past(req[t].obj)
      BY <2>4 DEF UidsArePast
    <3>4. QED
      BY <1>2, <2>2, <2>3, <3>1, <3>2, <3>3
  <2>5. CASE log' = log
    BY <1>5, <2>3, <2>5
  <2>6. QED
    BY <1>5, <2>4, <2>5 DEF LifeStep, LogMove
<1>6. QED
  BY <1>3, <1>4, <1>5 DEF UidsArePast, Past

LEMMA StepRevivesNothing ==
    ASSUME TypeOK, UidsArePast, NEW t \in Threads, LifeStep(t), NEW k \in Keys, Appears(k)
    PROVE  /\ db'[k].rv = 1
           /\ \A j \in Keys : Found(j) => db[j].uid # db'[k].uid
           /\ \A i \in DOMAIN log : log[i].obj # NoReport => log[i].obj.uid # db'[k].uid
<1>1. db \in [Keys -> Report \cup {NoReport}] /\ writes \in Nat
  BY DEF TypeOK
<1>2. db'[k].uid = writes + 1 /\ db'[k].rv = 1
  BY <1>1 DEF LifeStep, DbMove, Appears, Found
<1>3. ASSUME NEW obj \in Report, Past(obj) PROVE obj.uid # writes + 1
  BY <1>1, <1>3, NoReportAssumption DEF Past, Report
<1>4. ASSUME NEW j \in Keys, Found(j) PROVE db[j].uid # db'[k].uid
  BY <1>1, <1>2, <1>3, <1>4 DEF Found, UidsArePast
<1>5. ASSUME NEW i \in DOMAIN log, log[i].obj # NoReport PROVE log[i].obj.uid # db'[k].uid
  <2>1. log[i] \in Event
    BY DEF TypeOK
  <2>2. log[i].obj \in Report
    BY <1>5, <2>1 DEF Event
  <2>3. QED
    BY <1>2, <1>3, <2>2 DEF UidsArePast
<1>6. QED
  BY <1>2, <1>4, <1>5

-----------------------------------------------------------------------------
(* Nothing comes back.                                                     *)

LEMMA InitUids == Init => UidsArePast
  BY DEF Init, DbInit, UidsArePast, Past

LEMMA NextKeepsUidsPast == TypeOK /\ TypeOK' /\ UidsArePast /\ [Next]_vars => UidsArePast'
<1> SUFFICES ASSUME TypeOK, TypeOK', UidsArePast, [Next]_vars PROVE UidsArePast'
  OBVIOUS
<1>1. ASSUME NEW t \in Threads, Serve(t) PROVE UidsArePast'
  BY <1>1, ServeLifeStep, StepKeepsUidsPast
<1>2. CASE UNCHANGED vars
  BY <1>2 DEF vars, UidsArePast, Past
<1>3. QED
  BY <1>1, <1>2 DEF Next, Quiet

LEMMA NextRevivesNothing ==
    TypeOK /\ UidsArePast /\ [Next]_vars =>
        [\A k \in Keys : Appears(k) =>
            /\ db'[k].rv = 1
            /\ \A j \in Keys : Found(j) => db[j].uid # db'[k].uid
            /\ \A i \in DOMAIN log : log[i].obj # NoReport => log[i].obj.uid # db'[k].uid]_vars
<1>1. ASSUME TypeOK, UidsArePast, NEW t \in Threads, Serve(t)
      PROVE  \A k \in Keys : Appears(k) =>
                 /\ db'[k].rv = 1
                 /\ \A j \in Keys : Found(j) => db[j].uid # db'[k].uid
                 /\ \A i \in DOMAIN log : log[i].obj # NoReport => log[i].obj.uid # db'[k].uid
  BY <1>1, ServeLifeStep, StepRevivesNothing
<1>2. QED
  BY <1>1 DEF Next, Quiet

(* However creates, updates, applies and deletions of any number of clients*)
(* interleave, a deleted report is not brought back by an update that was  *)
(* under way (polr.go:381): updatePolr stores only over an existing entry, *)
(* and a report that appears has a UID no one has seen.                    *)
THEOREM DeletedStaysDeleted == Spec => NoResurrection
<1>1. TypeOK /\ TypeOK' /\ UidsArePast /\ [Next]_vars => UidsArePast'
  BY NextKeepsUidsPast
<1>2. Spec => []UidsArePast
  BY <1>1, InitUids, TypeCorrect, PTL DEF Spec
<1>3. QED
  BY <1>2, NextRevivesNothing, TypeCorrect, PTL DEF Spec, NoResurrection

-----------------------------------------------------------------------------
(* Clients that never overlap requests on a report: the invariant.         *)

\* No two threads work on one report.
Disjoint ==
    \A t, u \in Threads : t # u => WorkingOn(t) \cap WorkingOn(u) = {}

\* A thread's request fits the call it is at.
VerbFits(t) ==
    /\ pc[t] = "idle" => req[t] = NoRequest /\ DOMAIN todo[t] = {}
    /\ pc[t] # "idle" => res[t] = "none"
    /\ pc[t] \in {"reread", "update"} => req[t].verb = "update"
    /\ pc[t] = "apply" => req[t].verb = "apply"
    /\ pc[t] = "delete" => req[t].verb \in {"delete", "deletecollection"}
    /\ pc[t] \in {"collect", "announceAgain"} => req[t].verb = "deletecollection"

\* What a thread has read is what is stored, since nobody else writes it.
Current(t) ==
    /\ pc[t] \in {"reread", "update", "delete", "collect"} => Found(req[t].key)
    /\ pc[t] = "update" => req[t].obj.rv = db[req[t].key].rv + 1
    /\ pc[t] = "delete" => req[t].obj = db[req[t].key]
    /\ pc[t] = "apply" => Found(req[t].key) \/ ApplyCreates

\* What it is about to announce is what is stored.
Truthful(t) ==
    /\ pc[t] = "announce" /\ EventType(req[t]) = "Deleted" => ~Found(req[t].key)
    /\ pc[t] = "announce" /\ EventType(req[t]) = "Added" /\ ~ApplyCreates =>
           Found(req[t].key) /\ db[req[t].key] = req[t].obj
    /\ pc[t] = "announceAgain" => ~Found(req[t].key)

\* The items a collection still has to delete are stored, and are not met twice.
ItemsRemain(t) ==
    \A i \in DOMAIN todo[t] :
        /\ req[t].verb = "deletecollection"
        /\ Found(todo[t][i])
        /\ todo[t][i][1] = req[t].key[1]
        /\ todo[t][i] # req[t].key
        /\ \A j \in DOMAIN todo[t] : todo[t][i] = todo[t][j] => i = j

Mine(t) == VerbFits(t) /\ Current(t) /\ Truthful(t) /\ ItemsRemain(t)

FewFound == IsFiniteSet({k \in Keys : Found(k)})

SerialInv == Disjoint /\ (\A t \in Threads : Mine(t)) /\ FewFound

\* What a step of t does when no other thread works on its reports.
SerialStep(t) ==
    /\ Others(t)
    /\ \A u \in Threads \ {t} : todo'[u] = todo[u] /\ res'[u] = res[u]
    /\ \A u \in Threads \ {t} : WorkingOn(t)' \cap WorkingOn(u) = {}
    /\ \A k \in Keys : db'[k] # db[k] => pc'[t] = "announce" /\ req'[t].key = k
    /\ Mine(t)'
    /\ pc[t] \in {"reread", "update", "delete", "collect"} => res'[t] # "missing"

-----------------------------------------------------------------------------
(* The reports a thread works on.                                          *)

LEMMA BusyOnOne ==
    ASSUME NEW t \in Threads, req[t] \in Request, req[t].verb # "deletecollection"
    PROVE  WorkingOn(t) = {req[t].key}
<1>1. req[t] # NoRequest
  BY NoRequestAssumption
<1>2. QED
  BY <1>1 DEF WorkingOn

LEMMA BusyOnOneThen ==
    ASSUME NEW t \in Threads, req'[t] \in Request, req'[t].verb # "deletecollection"
    PROVE  WorkingOn(t)' = {req'[t].key}
<1>1. req'[t] # NoRequest
  BY NoRequestAssumption
<1>2. QED
  BY <1>1 DEF WorkingOn

LEMMA BusyOnMany ==
    ASSUME NEW t \in Threads, req[t] \in Request, req[t].verb = "deletecollection"
    PROVE  WorkingOn(t) = KeysOf(req[t].key[1])
<1>1. req[t] # NoRequest
  BY NoRequestAssumption
<1>2. QED
  BY <1>1 DEF WorkingOn

LEMMA BusyOnManyThen ==
    ASSUME NEW t \in Threads, req'[t] \in Request, req'[t].verb = "deletecollection"
    PROVE  WorkingOn(t)' = KeysOf(req'[t].key[1])
<1>1. req'[t] # NoRequest
  BY NoRequestAssumption
<1>2. QED
  BY <1>1 DEF WorkingOn

LEMMA KeyIsWorkedOn ==
    ASSUME TypeOK, NEW t \in Threads, pc[t] # "idle"
    PROVE  req[t] \in Request /\ req[t].key \in Keys /\ req[t].key \in WorkingOn(t)
<1>1. req[t] \in Request /\ req[t].key \in Keys
  BY DEF TypeOK, ThreadsOK, Request
<1>2. QED
  BY <1>1, BusyOnOne, BusyOnMany DEF KeysOf

LEMMA IdleWorksOnNothing ==
    ASSUME NEW t \in Threads, req'[t] = NoRequest
    PROVE  WorkingOn(t)' = {}
  BY DEF WorkingOn

-----------------------------------------------------------------------------
(* Steps that end a request or go on with it.                              *)

LEMMA ReplySerial ==
    ASSUME TypeOK, NEW t \in Threads, NEW answer, Reply(t, answer), UNCHANGED db,
           pc[t] \in {"reread", "update", "delete", "collect"} => answer # "missing"
    PROVE  SerialStep(t)
<1>1. Others(t) /\ pc'[t] = "idle" /\ req'[t] = NoRequest
  BY ReplyMoves DEF TypeOK, ThreadsOK, Reply
<1>2. /\ \A u \in Threads \ {t} : todo'[u] = todo[u] /\ res'[u] = res[u]
      /\ res'[t] = answer /\ DOMAIN todo'[t] = {}
  BY DEF TypeOK, ThreadsOK, Reply, NoKeys
<1>3. WorkingOn(t)' = {}
  BY <1>1, IdleWorksOnNothing
<1>4. Mine(t)'
  BY <1>1, <1>2 DEF Mine, VerbFits, Current, Truthful, ItemsRemain
<1>5. QED
  BY <1>1, <1>2, <1>3, <1>4 DEF SerialStep

\* Thread t goes on with request r, to which no other thread has a claim.
Continued(t, stage, r) ==
    /\ Others(t)
    /\ \A u \in Threads \ {t} : todo'[u] = todo[u] /\ res'[u] = res[u]
    /\ \A u \in Threads \ {t} : WorkingOn(t)' \cap WorkingOn(u) = {}
    /\ ItemsRemain(t)'
    /\ pc'[t] = stage /\ req'[t] = r /\ res'[t] = "none"

LEMMA ContinueFacts ==
    ASSUME TypeOK, NEW t \in Threads, NEW stage, NEW r, Continue(t, stage, r)
    PROVE  /\ Others(t) /\ pc'[t] = stage /\ req'[t] = r /\ res'[t] = "none" /\ todo' = todo
           /\ \A u \in Threads \ {t} : todo'[u] = todo[u] /\ res'[u] = res[u]
<1>1. Others(t) /\ pc'[t] = stage /\ req'[t] = r
  BY ContinueMoves DEF TypeOK
<1>2. QED
  BY <1>1 DEF TypeOK, ThreadsOK, Continue

LEMMA AcceptedContinues ==
    ASSUME SerialClients, TypeOK, SerialInv, NEW t \in Threads, NEW verb, NEW k \in Keys,
           Accept(t, verb, {k}), NEW r \in Request, r.key = k, r.verb # "deletecollection",
           NEW stage, Continue(t, stage, r)
    PROVE  Continued(t, stage, r)
<1>1. /\ Others(t) /\ pc'[t] = stage /\ req'[t] = r /\ res'[t] = "none" /\ todo' = todo
      /\ \A u \in Threads \ {t} : todo'[u] = todo[u] /\ res'[u] = res[u]
  BY ContinueFacts
<1>2. DOMAIN todo[t] = {}
  BY DEF Accept, SerialInv, Mine, VerbFits
<1>3. \A u \in Threads \ {t} : WorkingOn(t)' \cap WorkingOn(u) = {}
  BY <1>1, BusyOnOneThen DEF Accept
<1>4. ItemsRemain(t)'
  BY <1>1, <1>2 DEF ItemsRemain
<1>5. QED
  BY <1>1, <1>3, <1>4 DEF Continued

LEMMA OwnContinues ==
    ASSUME TypeOK, SerialInv, NEW t \in Threads, pc[t] # "idle",
           NEW r \in Request, r.key = req[t].key, r.verb = req[t].verb,
           NEW stage, Continue(t, stage, r),
           \A k \in Keys : db'[k] # db[k] => k = r.key
    PROVE  Continued(t, stage, r)
<1>1. /\ Others(t) /\ pc'[t] = stage /\ req'[t] = r /\ res'[t] = "none" /\ todo' = todo
      /\ \A u \in Threads \ {t} : todo'[u] = todo[u] /\ res'[u] = res[u]
  BY ContinueFacts
<1>2. req[t] \in Request
  BY KeyIsWorkedOn
<1>3. WorkingOn(t)' = WorkingOn(t)
  BY <1>1, <1>2, BusyOnOne, BusyOnMany, BusyOnOneThen, BusyOnManyThen
<1>4. \A u \in Threads \ {t} : WorkingOn(t)' \cap WorkingOn(u) = {}
  BY <1>3 DEF SerialInv, Disjoint
<1>5. ItemsRemain(t)'
  <2>1. ItemsRemain(t) /\ \A i \in DOMAIN todo[t] : todo[t][i] \in Keys
    BY DEF SerialInv, Mine, TypeOK, ThreadsOK
  <2>2. QED
    BY <1>1, <2>1 DEF ItemsRemain, Found
<1>6. QED
  BY <1>1, <1>4, <1>5 DEF Continued

LEMMA ContinuedSerial ==
    ASSUME NEW t \in Threads, NEW stage, NEW r, Continued(t, stage, r),
           VerbFits(t)', Current(t)', Truthful(t)',
           \A k \in Keys : db'[k] # db[k] => stage = "announce" /\ r.key = k
    PROVE  SerialStep(t)
  BY DEF Continued, SerialStep, Mine

\* A write of the report v, under the key of r, that is announced next.
LEMMA WrittenSerial ==
    ASSUME TypeOK, NEW t \in Threads, NEW r \in Request, NEW s \in Request,
           s = [r EXCEPT !.seq = writes + 1], Continued(t, "announce", s),
           NEW v, db' = [db EXCEPT ![r.key] = v],
           IF EventType(r) = "Deleted" THEN v = NoReport
                                       ELSE v = r.obj /\ v # NoReport
    PROVE  SerialStep(t)
<1>1. s.key = r.key /\ s.obj = r.obj /\ EventType(s) = EventType(r)
  BY DEF Request, EventType
<1>2. pc'[t] = "announce" /\ req'[t] = s /\ res'[t] = "none"
  BY DEF Continued
<1>3. r.key \in Keys /\ db'[r.key] = v /\ \A k \in Keys : db'[k] # db[k] => k = r.key
  BY DEF TypeOK, Request
<1>4. VerbFits(t)' /\ Current(t)'
  BY <1>2 DEF VerbFits, Current
<1>5. Truthful(t)'
  BY <1>1, <1>2, <1>3 DEF Truthful, Found, EventType
<1>6. QED
  BY <1>1, <1>3, <1>4, <1>5, ContinuedSerial

-----------------------------------------------------------------------------
(* The handlers' steps.                                                    *)

LEMMA CreateSerial ==
    ASSUME SerialClients, TypeOK, SerialInv, NEW t \in Threads, NEW k \in Keys,
           NEW labels \in LabelMaps, NEW dry \in BOOLEAN, CreateReport(t, k, labels, dry)
    PROVE  SerialStep(t)
<1> DEFINE obj == CreatedReport(labels)
           r == NewRequest("create", k, dry, obj)
           s == [r EXCEPT !.seq = writes + 1]
<1>1. Accept(t, "create", {k}) /\ pc[t] = "idle"
  BY DEF CreateReport, Accept
<1>2. obj \in Report /\ obj # NoReport
  BY NoReportAssumption DEF TypeOK, CreatedReport, Report
<1>3. r \in Request /\ r.obj = obj /\ r.key = k /\ r.verb = "create" /\ EventType(r) = "Added"
  BY <1>2 DEF NewRequest, Request, AllVerbs, EventType
<1> HIDE DEF obj, r
<1>4. s \in Request /\ s.key = k /\ s.verb = "create"
  BY <1>3 DEF TypeOK, Request
<1>5. ASSUME NEW answer, Reply(t, answer), UNCHANGED db
      PROVE  SerialStep(t)
  BY <1>1, <1>5, ReplySerial
<1>6. CASE CreatePolr(t, r)
  <2>1. CASE db' = [db EXCEPT ![k] = obj] /\ Written(t, r)
    <3>1. Continue(t, "announce", s)
      BY <2>1 DEF Written
    <3> HIDE DEF s
    <3>2. Continued(t, "announce", s)
      BY <1>1, <1>4, <3>1, AcceptedContinues
    <3>3. QED
      BY <1>2, <1>3, <1>4, <2>1, <3>2, WrittenSerial DEF s
  <2>2. CASE UNCHANGED db /\ Reply(t, "exists")
    BY <1>5, <2>2
  <2>3. QED
    BY <1>3, <1>6, <2>1, <2>2 DEF CreatePolr, DbCreate
<1>7. QED
  BY <1>5, <1>6 DEF CreateReport, r, obj

LEMMA UpdateGetSerial ==
    ASSUME SerialClients, TypeOK, SerialInv, NEW t \in Threads, NEW k \in Keys,
           NEW labels \in LabelMaps, NEW uid \in 0..writes, NEW dry \in BOOLEAN,
           UpdateGet(t, k, labels, uid, dry)
    PROVE  SerialStep(t)
<1> DEFINE obj == [uid |-> uid, rv |-> 0, labels |-> labels]
           r == NewRequest("update", k, dry, obj)
<1>1. Accept(t, "update", {k}) /\ pc[t] = "idle" /\ UNCHANGED db
  BY DEF UpdateGet, Accept
<1>2. obj \in Report
  BY DEF TypeOK, Report
<1>3. r \in Request /\ r.key = k /\ r.verb = "update"
  BY <1>2, NewRequestType DEF AllVerbs
<1> HIDE DEF r
<1>4. ASSUME NEW answer, Reply(t, answer)
      PROVE  SerialStep(t)
  BY <1>1, <1>4, ReplySerial
<1>5. CASE Found(k) /\ Continue(t, "reread", r)
  <2>1. Continued(t, "reread", r)
    BY <1>1, <1>3, <1>5, AcceptedContinues
  <2>2. VerbFits(t)' /\ Current(t)' /\ Truthful(t)'
    BY <1>1, <1>3, <1>5, <2>1 DEF Continued, VerbFits, Current, Truthful, Found
  <2>3. QED
    BY <1>1, <2>1, <2>2, ContinuedSerial
<1>6. QED
  BY <1>4, <1>5 DEF UpdateGet, r

LEMMA UpdateRereadSerial ==
    ASSUME TypeOK, SerialInv, NEW t \in Threads, UpdateReread(t)
    PROVE  SerialStep(t)
<1> DEFINE rv == db[req[t].key].rv + 1
           r == [req[t] EXCEPT !.obj.rv = rv]
<1>1. pc[t] = "reread" /\ UNCHANGED db
  BY DEF UpdateReread
<1>2. /\ req[t] \in Request /\ req[t].key \in Keys /\ req[t].obj \in Report
      /\ req[t].verb = "update" /\ Found(req[t].key)
  BY <1>1, KeyIsWorkedOn DEF TypeOK, ThreadsOK, SerialInv, Mine, VerbFits, Current
<1>3. rv \in Nat
  BY <1>2, FoundIsReport DEF TypeOK, Report
<1> HIDE DEF rv
<1>4. r \in Request /\ r.key = req[t].key /\ r.verb = "update" /\ r.obj.rv = rv
  BY <1>2, <1>3 DEF Request, Report
<1> HIDE DEF r
<1>5. Continue(t, "update", r)
  BY <1>2 DEF UpdateReread, r, rv
<1>6. Continued(t, "update", r)
  BY <1>1, <1>2, <1>4, <1>5, OwnContinues
<1>7. VerbFits(t)' /\ Current(t)' /\ Truthful(t)'
  BY <1>1, <1>2, <1>4, <1>6 DEF Continued, VerbFits, Current, Truthful, Found, rv
<1>8. QED
  BY <1>1, <1>6, <1>7, ContinuedSerial

LEMMA UpdateStoreSerial ==
    ASSUME TypeOK, SerialInv, NEW t \in Threads, UpdateStore(t)
    PROVE  SerialStep(t)
<1> DEFINE s == [req[t] EXCEPT !.seq = writes + 1]
<1>1. pc[t] = "update"
  BY DEF UpdateStore
<1>2. /\ req[t] \in Request /\ req[t].key \in Keys /\ req[t].obj \in Report
      /\ EventType(req[t]) = "Added" /\ Found(req[t].key)
  BY <1>1, KeyIsWorkedOn DEF TypeOK, ThreadsOK, SerialInv, Mine, VerbFits, Current, EventType
<1>3. s \in Request /\ s.key = req[t].key /\ s.verb = req[t].verb
  BY <1>2 DEF TypeOK, Request
<1>4. db' = [db EXCEPT ![req[t].key] = req[t].obj] /\ Continue(t, "announce", s)
  BY <1>2 DEF UpdateStore, DbUpdate, Written
<1> HIDE DEF s
<1>5. \A k \in Keys : db'[k] # db[k] => k = s.key
  BY <1>3, <1>4 DEF TypeOK
<1>6. Continued(t, "announce", s)
  BY <1>1, <1>3, <1>4, <1>5, OwnContinues
<1>7. req[t].obj # NoReport
  BY <1>2, NoReportAssumption
<1>8. QED
  BY <1>2, <1>3, <1>4, <1>6, <1>7, WrittenSerial DEF s

LEMMA ApplyGetSerial ==
    ASSUME SerialClients, TypeOK, SerialInv, NEW t \in Threads, NEW k \in Keys,
           NEW labels \in LabelMaps, NEW dry \in BOOLEAN, ApplyGet(t, k, labels, dry)
    PROVE  SerialStep(t)
<1> DEFINE obj == [uid |-> IF Found(k) THEN db[k].uid ELSE 0, rv |-> 1, labels |-> labels]
           r == NewRequest("apply", k, dry, obj)
<1>1. Accept(t, "apply", {k}) /\ pc[t] = "idle" /\ UNCHANGED db
  BY DEF ApplyGet, Accept
<1>2. (IF Found(k) THEN db[k].uid ELSE 0) \in Nat
  BY FoundIsReport DEF TypeOK, Report
<1>3. obj \in Report
  BY <1>2 DEF Report
<1>4. r \in Request /\ r.key = k /\ r.verb = "apply"
  BY <1>3, NewRequestType DEF AllVerbs
<1> HIDE DEF r
<1>5. CASE Reply(t, "rejected")
  BY <1>1, <1>5, ReplySerial
<1>6. CASE (Found(k) \/ ApplyCreates) /\ Continue(t, "apply", r)
  <2>1. Continued(t, "apply", r)
    BY <1>1, <1>4, <1>6, AcceptedContinues
  <2>2. VerbFits(t)' /\ Current(t)' /\ Truthful(t)'
    BY <1>1, <1>4, <1>6, <2>1 DEF Continued, VerbFits, Current, Truthful, Found
  <2>3. QED
    BY <1>1, <2>1, <2>2, ContinuedSerial
<1>7. QED
  BY <1>5, <1>6 DEF ApplyGet, r

LEMMA ApplyStoreSerial ==
    ASSUME TypeOK, SerialInv, NEW t \in Threads, ApplyStore(t)
    PROVE  SerialStep(t)
<1> DEFINE r == req[t]
           s == [r EXCEPT !.seq = writes + 1]
<1>1. pc[t] = "apply"
  BY DEF ApplyStore
<1>2. /\ r \in Request /\ r.key \in Keys /\ r.obj \in Report /\ EventType(r) = "Added"
      /\ Found(r.key) \/ ApplyCreates
  BY <1>1, KeyIsWorkedOn DEF TypeOK, ThreadsOK, SerialInv, Mine, VerbFits, Current, EventType
<1>3. CASE Found(r.key) /\ db' = [db EXCEPT ![r.key] = r.obj] /\ Written(t, r)
  <2>1. s \in Request /\ s.key = r.key /\ s.verb = r.verb
    BY <1>2 DEF TypeOK, Request
  <2>2. Continue(t, "announce", s)
    BY <1>3 DEF Written
  <2> HIDE DEF s
  <2>3. \A k \in Keys : db'[k] # db[k] => k = s.key
    BY <1>3, <2>1 DEF TypeOK
  <2>4. Continued(t, "announce", s)
    BY <1>1, <2>1, <2>2, <2>3, OwnContinues
  <2>5. r.obj # NoReport
    BY <1>2, NoReportAssumption
  <2>6. QED
    BY <1>2, <1>3, <2>1, <2>4, <2>5, WrittenSerial DEF s
<1>4. CASE ~Found(r.key) /\ UNCHANGED db /\ Continue(t, "announce", r)
  <2>1. Continued(t, "announce", r)
    BY <1>1, <1>2, <1>4, OwnContinues
  <2>2. VerbFits(t)' /\ Current(t)' /\ Truthful(t)'
    BY <1>2, <1>4, <2>1 DEF Continued, VerbFits, Current, Truthful, Found, EventType
  <2>3. QED
    BY <1>4, <2>1, <2>2, ContinuedSerial
<1>5. QED
  BY <1>3, <1>4 DEF ApplyStore, DbUpdate

\* The read of a report that is to be deleted, when the thread has it to itself.
LEMMA FoundSerial ==
    ASSUME TypeOK, NEW t \in Threads, NEW r \in Request, NEW s \in Request,
           r.verb \in {"delete", "deletecollection"}, s = [r EXCEPT !.obj = db[r.key]],
           Found(r.key), UNCHANGED db, Continued(t, "delete", s)
    PROVE  SerialStep(t)
<1>1. s.key = r.key /\ s.verb = r.verb /\ s.obj = db[r.key]
  BY DEF Request
<1>2. pc'[t] = "delete" /\ req'[t] = s /\ res'[t] = "none"
  BY DEF Continued
<1>3. VerbFits(t)' /\ Current(t)' /\ Truthful(t)'
  BY <1>1, <1>2 DEF VerbFits, Current, Truthful, Found
<1>4. QED
  BY <1>3, ContinuedSerial

LEMMA DeleteGetSerial ==
    ASSUME SerialClients, TypeOK, SerialInv, NEW t \in Threads, NEW k \in Keys,
           NEW dry \in BOOLEAN, DeleteGet(t, k, dry)
    PROVE  SerialStep(t)
<1> DEFINE r == NewRequest("delete", k, dry, NoReport)
           s == [r EXCEPT !.obj = db[r.key]]
<1>1. Accept(t, "delete", {k}) /\ pc[t] = "idle" /\ UNCHANGED db
  BY DEF DeleteGet, Accept
<1>2. r \in Request /\ r.key = k /\ r.verb = "delete"
  BY NewRequestType DEF AllVerbs
<1>3. FindForDelete(t, r)
  BY DEF DeleteGet
<1> HIDE DEF r
<1>4. s \in Request /\ s.key = k /\ s.verb = "delete"
  BY <1>2 DEF TypeOK, Request
<1>5. ASSUME NEW answer, Reply(t, answer)
      PROVE  SerialStep(t)
  BY <1>1, <1>5, ReplySerial
<1>6. CASE Found(r.key) /\ Continue(t, "delete", s)
  <2> HIDE DEF s
  <2>1. Continued(t, "delete", s)
    BY <1>1, <1>4, <1>6, AcceptedContinues
  <2>2. QED
    BY <1>1, <1>2, <1>4, <1>6, <2>1, FoundSerial DEF s
<1>7. QED
  BY <1>3, <1>5, <1>6 DEF FindForDelete

LEMMA CollectionItemSerial ==
    ASSUME TypeOK, SerialInv, NEW t \in Threads, CollectionItem(t)
    PROVE  SerialStep(t)
<1> DEFINE r == req[t]
           s == [r EXCEPT !.obj = db[r.key]]
<1>1. pc[t] = "collect" /\ UNCHANGED db /\ FindForDelete(t, r)
  BY DEF CollectionItem
<1>2. r \in Request /\ r.key \in Keys /\ r.verb = "deletecollection" /\ Found(r.key)
  BY <1>1, KeyIsWorkedOn DEF SerialInv, Mine, VerbFits, Current
<1>3. s \in Request /\ s.key = r.key /\ s.verb = r.verb
  BY <1>2 DEF TypeOK, Request
<1>4. ASSUME NEW answer \in {"rejected", "ok"}, Reply(t, answer)
      PROVE  SerialStep(t)
  BY <1>1, <1>4, ReplySerial
<1>5. CASE Continue(t, "delete", s)
  <2> HIDE DEF s
  <2>1. Continued(t, "delete", s)
    BY <1>1, <1>3, <1>5, OwnContinues
  <2>2. QED
    BY <1>1, <1>2, <1>3, <2>1, FoundSerial DEF s
<1>6. QED
  BY <1>1, <1>2, <1>4, <1>5 DEF FindForDelete

LEMMA DeleteStoreSerial ==
    ASSUME TypeOK, SerialInv, NEW t \in Threads, DeleteStore(t)
    PROVE  SerialStep(t)
<1> DEFINE s == [req[t] EXCEPT !.seq = writes + 1]
<1>1. pc[t] = "delete"
  BY DEF DeleteStore
<1>2. /\ req[t] \in Request /\ req[t].key \in Keys
      /\ EventType(req[t]) = "Deleted" /\ Found(req[t].key)
  BY <1>1, KeyIsWorkedOn DEF SerialInv, Mine, VerbFits, Current, EventType
<1>3. s \in Request /\ s.key = req[t].key /\ s.verb = req[t].verb
  BY <1>2 DEF TypeOK, Request
<1>4. db' = [db EXCEPT ![req[t].key] = NoReport] /\ Continue(t, "announce", s)
  BY <1>2 DEF DeleteStore, DbDelete, Written
<1> HIDE DEF s
<1>5. \A k \in Keys : db'[k] # db[k] => k = s.key
  BY <1>3, <1>4 DEF TypeOK
<1>6. Continued(t, "announce", s)
  BY <1>1, <1>3, <1>4, <1>5, OwnContinues
<1>7. QED
  BY <1>2, <1>3, <1>4, <1>6, WrittenSerial DEF s

\* A collection that has namespace ns to itself goes on with its next item.
LEMMA NextItemSerial ==
    ASSUME TypeOK, NEW t \in Threads, NEW items, NEW ns, NextItem(t, items), UNCHANGED db,
           \A i \in DOMAIN items : items[i] \in KeysOf(ns) /\ Found(items[i]),
           \A i, j \in DOMAIN items : items[i] = items[j] => i = j,
           \A u \in Threads \ {t} : KeysOf(ns) \cap WorkingOn(u) = {}
    PROVE  SerialStep(t)
<1>1. PICK i \in DOMAIN items :
          /\ pc' = [pc EXCEPT ![t] = "collect"]
          /\ req' = [req EXCEPT ![t] = NewRequest("deletecollection", items[i], FALSE, NoReport)]
          /\ todo' = [todo EXCEPT ![t] = [j \in DOMAIN items \ {i} |-> items[j]]]
          /\ res' = [res EXCEPT ![t] = "none"]
  BY DEF NextItem
<1> DEFINE r == NewRequest("deletecollection", items[i], FALSE, NoReport)
           rest == [j \in DOMAIN items \ {i} |-> items[j]]
<1>2. items[i] \in Keys /\ items[i][1] = ns /\ Found(items[i])
  BY DEF KeysOf
<1>3. r \in Request /\ r.key = items[i] /\ r.verb = "deletecollection"
  BY <1>2 DEF NewRequest, Request, AllVerbs
<1> HIDE DEF r
<1>4. /\ Others(t) /\ pc'[t] = "collect" /\ req'[t] = r /\ res'[t] = "none" /\ todo'[t] = rest
      /\ \A u \in Threads \ {t} : todo'[u] = todo[u] /\ res'[u] = res[u]
  BY <1>1 DEF TypeOK, ThreadsOK, Others, r
<1>5. WorkingOn(t)' = KeysOf(ns)
  BY <1>2, <1>3, <1>4, BusyOnManyThen
<1>6. ItemsRemain(t)'
  <2>1. ASSUME NEW j \in DOMAIN rest
        PROVE  /\ j \in DOMAIN items /\ j # i /\ rest[j] = items[j]
               /\ Found(items[j])' /\ items[j][1] = ns /\ items[j] # items[i]
    BY <2>1 DEF KeysOf, Found
  <2>2. \A j, m \in DOMAIN rest : rest[j] = rest[m] => j = m
    BY <2>1
  <2> HIDE DEF rest
  <2>3. QED
    BY <1>2, <1>3, <1>4, <2>1, <2>2 DEF ItemsRemain
<1>7. VerbFits(t)' /\ Current(t)' /\ Truthful(t)'
  BY <1>2, <1>3, <1>4 DEF VerbFits, Current, Truthful, Found
<1>8. QED
  BY <1>4, <1>5, <1>6, <1>7 DEF SerialStep, Mine

\* The map's iteration meets each key once.
LEMMA OrdersAreInjective ==
    ASSUME NEW S, IsFiniteSet(S), NEW order \in Orders(S)
    PROVE  \A i, j \in DOMAIN order : order[i] = order[j] => i = j
<1>1. Cardinality(S) \in Nat
  BY FS_CardinalityType
<1>2. IsFiniteSet(1..Cardinality(S)) /\ Cardinality(1..Cardinality(S)) = Cardinality(S)
  BY <1>1, FS_Interval
<1>3. order \in Surjection(1..Cardinality(S), S)
  BY DEF Orders, Surjection
<1>4. order \in Injection(1..Cardinality(S), S)
  BY <1>2, <1>3, FS_SurjSameCardinalityImpliesInj
<1>5. QED
  BY <1>4 DEF Injection, IsInjective

LEMMA CollectionListSerial ==
    ASSUME SerialClients, TypeOK, SerialInv, NEW t \in Threads, NEW ns, NEW selector, NEW dry,
           CollectionList(t, ns, selector, dry)
    PROVE  SerialStep(t)
<1> DEFINE S == {k \in KeysOf(ns) : Found(k)}
<1>1. pc[t] = "idle" /\ UNCHANGED db
  BY DEF CollectionList, Accept
<1>2. \A u \in Threads \ {t} : KeysOf(ns) \cap WorkingOn(u) = {}
  BY DEF CollectionList, Accept
<1>3. IsFiniteSet(S)
  <2>1. S \subseteq {k \in Keys : Found(k)}
    BY DEF KeysOf
  <2>2. QED
    BY <2>1, FS_Subset DEF SerialInv, FewFound
<1>4. CASE Reply(t, "ok")
  BY <1>1, <1>4, ReplySerial
<1>5. ASSUME NEW order \in Orders(S), NEW kept, kept \subseteq DOMAIN order,
             NextItem(t, [i \in kept |-> order[i]])
      PROVE  SerialStep(t)
  <2> DEFINE items == [i \in kept |-> order[i]]
  <2>1. \A i \in DOMAIN order : order[i] \in S
    BY DEF Orders
  <2>2. \A i, j \in DOMAIN order : order[i] = order[j] => i = j
    BY <1>3, OrdersAreInjective
  <2>3. \A i \in DOMAIN items : items[i] \in KeysOf(ns) /\ Found(items[i])
    BY <1>5, <2>1
  <2>4. \A i, j \in DOMAIN items : items[i] = items[j] => i = j
    BY <1>5, <2>2
  <2>5. NextItem(t, items)
    BY <1>5
  <2> HIDE DEF items
  <2>6. QED
    BY <1>1, <1>2, <2>3, <2>4, <2>5, NextItemSerial
<1>6. \A labelsOf : Kept(labelsOf, selector) \subseteq DOMAIN labelsOf
  BY DEF Kept
<1>7. QED
  <2>1. PICK order \in Orders(S) :
            LET kept == Kept([i \in DOMAIN order |-> db[order[i]].labels], selector)
            IN  IF dry \/ kept = {} THEN Reply(t, "ok")
                                    ELSE NextItem(t, [i \in kept |-> order[i]])
    BY DEF CollectionList
  <2>2. Kept([i \in DOMAIN order |-> db[order[i]].labels], selector) \subseteq DOMAIN order
    BY <1>6
  <2> HIDE DEF S
  <2>3. QED
    BY <1>4, <1>5, <2>1, <2>2

LEMMA AnnounceSerial ==
    ASSUME TypeOK, SerialInv, NEW t \in Threads, Announce(t)
    PROVE  SerialStep(t)
<1>1. pc[t] = "announce" /\ UNCHANGED db
  BY DEF Announce
<1>2. CASE Reply(t, "ok")
  BY <1>1, <1>2, ReplySerial
<1>3. CASE req[t].verb = "deletecollection" /\ Continue(t, "announceAgain", req[t])
  <2>1. req[t] \in Request /\ req[t].key \in Keys /\ ~Found(req[t].key)
    BY <1>1, <1>3, KeyIsWorkedOn DEF SerialInv, Mine, Truthful, EventType
  <2>2. Continued(t, "announceAgain", req[t])
    BY <1>1, <1>3, <2>1, OwnContinues
  <2>3. VerbFits(t)' /\ Current(t)' /\ Truthful(t)'
    BY <1>1, <1>3, <2>1, <2>2 DEF Continued, VerbFits, Current, Truthful, Found
  <2>4. QED
    BY <1>1, <2>2, <2>3, ContinuedSerial
<1>4. QED
  BY <1>2, <1>3 DEF Announce

LEMMA AnnounceAgainSerial ==
    ASSUME TypeOK, SerialInv, NEW t \in Threads, AnnounceAgain(t)
    PROVE  SerialStep(t)
<1> DEFINE ns == req[t].key[1]
<1>1. pc[t] = "announceAgain" /\ UNCHANGED db
  BY DEF AnnounceAgain
<1>2. CASE Reply(t, "ok")
  BY <1>1, <1>2, ReplySerial
<1>3. CASE NextItem(t, todo[t])
  <2>1. req[t] \in Request /\ req[t].verb = "deletecollection"
    BY <1>1, KeyIsWorkedOn DEF SerialInv, Mine, VerbFits
  <2>2. WorkingOn(t) = KeysOf(ns)
    BY <2>1, BusyOnMany
  <2>3. \A u \in Threads \ {t} : KeysOf(ns) \cap WorkingOn(u) = {}
    BY <2>2 DEF SerialInv, Disjoint
  <2>4. ItemsRemain(t) /\ \A i \in DOMAIN todo[t] : todo[t][i] \in Keys
    BY DEF SerialInv, Mine, TypeOK, ThreadsOK
  <2> HIDE DEF ns
  <2>5. /\ \A i \in DOMAIN todo[t] : todo[t][i] \in KeysOf(ns) /\ Found(todo[t][i])
        /\ \A i, j \in DOMAIN todo[t] : todo[t][i] = todo[t][j] => i = j
    BY <2>4 DEF ItemsRemain, KeysOf, ns
  <2>6. QED
    BY <1>1, <1>3, <2>3, <2>5, NextItemSerial
<1>4. QED
  BY <1>2, <1>3 DEF AnnounceAgain

LEMMA ServeSerial ==
    ASSUME SerialClients, TypeOK, SerialInv, NEW t \in Threads, Serve(t)
    PROVE  SerialStep(t)
<1>1. CASE \E k \in Keys, labels \in LabelMaps, dry \in BOOLEAN :
             \/ CreateReport(t, k, labels, dry)
             \/ \E uid \in 0..writes : UpdateGet(t, k, labels, uid, dry)
             \/ ApplyGet(t, k, labels, dry)
  BY <1>1, CreateSerial, UpdateGetSerial, ApplyGetSerial
<1>2. CASE \E k \in Keys, dry \in BOOLEAN : DeleteGet(t, k, dry)
  BY <1>2, DeleteGetSerial
<1>3. CASE \E ns \in Namespaces, selector \in Selectors, dry \in BOOLEAN :
             CollectionList(t, ns, selector, dry)
  BY <1>3, CollectionListSerial
<1>4. CASE UpdateReread(t) \/ UpdateStore(t) \/ ApplyStore(t)
  BY <1>4, UpdateRereadSerial, UpdateStoreSerial, ApplyStoreSerial
<1>5. CASE DeleteStore(t) \/ CollectionItem(t)
  BY <1>5, DeleteStoreSerial, CollectionItemSerial
<1>6. CASE Announce(t) \/ AnnounceAgain(t)
  BY <1>6, AnnounceSerial, AnnounceAgainSerial
<1>7. QED
  BY <1>1, <1>2, <1>3, <1>4, <1>5, <1>6 DEF Serve

-----------------------------------------------------------------------------
(* The invariant is inductive.                                             *)

LEMMA WriterWorksOnKey ==
    ASSUME TypeOK', NEW t \in Threads, SerialStep(t), NEW u \in Threads \ {t},
           NEW k \in Keys, k \in WorkingOn(u)
    PROVE  db'[k] = db[k]
<1>1. SUFFICES ASSUME pc'[t] = "announce", req'[t].key = k PROVE FALSE
  BY DEF SerialStep
<1>2. req'[t] \in Request
  BY <1>1 DEF TypeOK, ThreadsOK
<1>3. k \in WorkingOn(t)'
  BY <1>1, <1>2, BusyOnOneThen, BusyOnManyThen DEF KeysOf
<1>4. QED
  BY <1>3 DEF SerialStep

LEMMA StepKeepsOthers ==
    ASSUME TypeOK, TypeOK', SerialInv, NEW t \in Threads, SerialStep(t), NEW u \in Threads \ {t}
    PROVE  Mine(u)' /\ WorkingOn(u)' = WorkingOn(u)
<1>1. pc'[u] = pc[u] /\ req'[u] = req[u] /\ todo'[u] = todo[u] /\ res'[u] = res[u]
  BY DEF SerialStep, Others
<1>2. WorkingOn(u)' = WorkingOn(u)
  BY <1>1 DEF WorkingOn
<1>3. ASSUME NEW k \in Keys, k \in WorkingOn(u)
      PROVE  db'[k] = db[k]
  BY <1>3, WriterWorksOnKey
<1>4. pc[u] # "idle" => req[u] \in Request /\ req[u].key \in Keys /\ db'[req[u].key] = db[req[u].key]
  BY <1>3, KeyIsWorkedOn
<1>5. Mine(u)
  BY DEF SerialInv
<1>6. VerbFits(u)' /\ Current(u)' /\ Truthful(u)'
  BY <1>1, <1>4, <1>5 DEF Mine, VerbFits, Current, Truthful, Found
<1>7. ItemsRemain(u)'
  <2>1. ASSUME NEW i \in DOMAIN todo[u]
        PROVE  db'[todo[u][i]] = db[todo[u][i]]
    <3>1. /\ pc[u] # "idle" /\ req[u].verb = "deletecollection"
          /\ todo[u][i] \in Keys /\ todo[u][i][1] = req[u].key[1]
      BY <1>5, <2>1 DEF Mine, VerbFits, ItemsRemain, TypeOK, ThreadsOK
    <3>2. todo[u][i] \in WorkingOn(u)
      BY <1>4, <3>1, BusyOnMany DEF KeysOf
    <3>3. QED
      BY <1>3, <3>1, <3>2
  <2>2. QED
    BY <1>1, <1>5, <2>1 DEF Mine, ItemsRemain, Found
<1>8. QED
  BY <1>2, <1>6, <1>7 DEF Mine

LEMMA StepKeepsSerial ==
    ASSUME TypeOK, TypeOK', SerialInv, NEW t \in Threads, SerialStep(t)
    PROVE  SerialInv'
<1>1. \A u \in Threads \ {t} : Mine(u)' /\ WorkingOn(u)' = WorkingOn(u)
  BY StepKeepsOthers
<1>2. \A u \in Threads : Mine(u)'
  BY <1>1 DEF SerialStep
<1>3. Disjoint'
  <2>1. \A u \in Threads \ {t} : WorkingOn(t)' \cap WorkingOn(u)' = {}
    BY <1>1 DEF SerialStep
  <2>2. \A u, v \in Threads \ {t} : u # v => WorkingOn(u)' \cap WorkingOn(v)' = {}
    BY <1>1 DEF SerialInv, Disjoint
  <2>3. QED
    BY <2>1, <2>2 DEF Disjoint
<1>4. FewFound'
  <2> DEFINE before == {k \in Keys : Found(k)}
             after == {k \in Keys : Found(k)'}
  <2>1. after \subseteq before \cup {req'[t].key}
    BY DEF SerialStep, Found
  <2>2. IsFiniteSet(before \cup {req'[t].key})
    BY FS_AddElement DEF SerialInv, FewFound
  <2> HIDE DEF before
  <2>3. IsFiniteSet(after)
    BY <2>1, <2>2, FS_Subset
  <2>4. QED
    BY <2>3 DEF FewFound
<1>5. QED
  BY <1>2, <1>3, <1>4 DEF SerialInv

LEMMA InitSerial == Init => SerialInv
<1> SUFFICES ASSUME Init PROVE SerialInv
  OBVIOUS
<1>1. \A t \in Threads : Mine(t) /\ WorkingOn(t) = {}
  BY DEF Init, Mine, VerbFits, Current, Truthful, ItemsRemain, WorkingOn, NoKeys
<1>2. {k \in Keys : Found(k)} = {}
  BY DEF Init, DbInit, Found
<1>3. QED
  BY <1>1, <1>2, FS_EmptySet DEF SerialInv, Disjoint, FewFound

LEMMA SerialUnchanged ==
    ASSUME SerialInv, UNCHANGED vars
    PROVE  SerialInv'
<1>1. \A t \in Threads : Mine(t)' /\ WorkingOn(t)' = WorkingOn(t)
  BY DEF vars, SerialInv, Mine, VerbFits, Current, Truthful, ItemsRemain, WorkingOn, Found
<1>2. FewFound'
  BY DEF vars, SerialInv, FewFound, Found
<1>3. QED
  BY <1>1, <1>2 DEF SerialInv, Disjoint

LEMMA NextKeepsSerial ==
    ASSUME SerialClients, TypeOK, TypeOK', SerialInv, [Next]_vars
    PROVE  SerialInv'
<1>1. ASSUME NEW t \in Threads, Serve(t) PROVE SerialInv'
  BY <1>1, ServeSerial, StepKeepsSerial
<1>2. QED
  BY <1>1, SerialUnchanged DEF Next, Quiet

LEMMA SerialInvariant ==
    ASSUME SerialClients
    PROVE  Spec => []SerialInv
<1>1. TypeOK /\ TypeOK' /\ SerialInv /\ [Next]_vars => SerialInv'
  BY NextKeepsSerial
<1>2. QED
  BY <1>1, InitSerial, TypeCorrect, PTL DEF Spec

-----------------------------------------------------------------------------
(* What a step may do to a report: the action properties.                  *)

\* The step of another thread leaves pc[t] and req[t] as they are.
LEMMA ServerOf ==
    ASSUME SerialClients, TypeOK, SerialInv, [Next]_vars, NEW t \in Threads, pc'[t] # pc[t]
    PROVE  Serve(t) /\ SerialStep(t)
<1>1. PICK u \in Threads : Serve(u)
  BY DEF Next, Quiet, vars
<1>2. SerialStep(u)
  BY <1>1, ServeSerial
<1>3. u = t
  BY <1>2 DEF SerialStep, Others
<1>4. QED
  BY <1>1, <1>2, <1>3

LEMMA UpdateIsServed ==
    ASSUME NEW t \in Threads, Serve(t), pc[t] = "update"
    PROVE  UpdateStore(t)
  BY DEF Serve, CreateReport, UpdateGet, ApplyGet, DeleteGet, CollectionList, Accept,
         UpdateReread, ApplyStore, DeleteStore, CollectionItem, Announce, AnnounceAgain

LEMMA DeleteIsServed ==
    ASSUME NEW t \in Threads, Serve(t), pc[t] = "delete"
    PROVE  DeleteStore(t)
  BY DEF Serve, CreateReport, UpdateGet, ApplyGet, DeleteGet, CollectionList, Accept,
         UpdateReread, UpdateStore, ApplyStore, CollectionItem, Announce, AnnounceAgain

(* One client at a time: an update stores a version above the one it       *)
(* replaces, for nobody writes between its second read and its write       *)
(* (polr.go:371-380).                                                      *)
THEOREM SerialUpdatesAdvance ==
    ASSUME SerialClients
    PROVE  Spec => VersionAdvances
<1>1. ASSUME TypeOK, SerialInv, [Next]_vars,
             NEW t \in Threads, NEW k \in Keys,
             pc[t] = "update", pc'[t] = "announce", Changes(k)
      PROVE  db'[k].rv > db[k].rv
  <2>1. UpdateStore(t)
    BY <1>1, ServerOf, UpdateIsServed
  <2>2. /\ req[t] \in Request /\ req[t].key \in Keys /\ Found(req[t].key)
        /\ req[t].obj.rv = db[req[t].key].rv + 1
    BY <1>1, KeyIsWorkedOn DEF SerialInv, Mine, Current
  <2>3. db' = [db EXCEPT ![req[t].key] = req[t].obj]
    BY <2>1, <2>2 DEF UpdateStore, DbUpdate
  <2>4. k = req[t].key /\ db'[k] = req[t].obj
    BY <1>1, <2>2, <2>3 DEF TypeOK, Changes
  <2>5. db[k].rv \in Nat
    BY <1>1, FoundIsReport DEF TypeOK, Changes, Report
  <2>6. QED
    BY <2>2, <2>4, <2>5
<1>2. TypeOK /\ SerialInv /\ [Next]_vars =>
        [\A t \in Threads, k \in Keys :
            pc[t] = "update" /\ pc'[t] = "announce" /\ Changes(k) => db'[k].rv > db[k].rv]_vars
  BY <1>1
<1>3. QED
  BY <1>2, TypeCorrect, SerialInvariant, PTL DEF Spec, VersionAdvances

(* One client at a time: the Deleted event carries the report as it was    *)
(* when it was removed, though it was read before (polr.go:212).           *)
THEOREM SerialDeletionsShowLastState ==
    ASSUME SerialClients
    PROVE  Spec => DeletedIsLastState
<1>1. ASSUME TypeOK, SerialInv, [Next]_vars, NEW t \in Threads,
             pc[t] = "delete", Vanishes(req[t].key), pc'[t] = "announce"
      PROVE  req'[t].obj = db[req[t].key]
  <2>1. DeleteStore(t)
    BY <1>1, ServerOf, DeleteIsServed
  <2>2. req[t] \in Request /\ Found(req[t].key) /\ req[t].obj = db[req[t].key]
    BY <1>1, KeyIsWorkedOn DEF SerialInv, Mine, Current
  <2>3. Continue(t, "announce", [req[t] EXCEPT !.seq = writes + 1])
    BY <2>1, <2>2 DEF DeleteStore, DbDelete, Written
  <2>4. req'[t] = [req[t] EXCEPT !.seq = writes + 1]
    BY <1>1, <2>3, ContinueFacts
  <2>5. QED
    BY <2>2, <2>4 DEF Request
<1>2. TypeOK /\ SerialInv /\ [Next]_vars =>
        [\A t \in Threads : pc[t] = "delete" /\ Vanishes(req[t].key)
            /\ pc'[t] = "announce" => req'[t].obj = db[req[t].key]]_vars
  BY <1>1
<1>3. QED
  BY <1>2, TypeCorrect, SerialInvariant, PTL DEF Spec, DeletedIsLastState

(* One client at a time: once a request has found its report, no later call*)
(* of it fails because the report is gone, and a collection meets no item  *)
(* twice.                                                                  *)
THEOREM SerialRequestsFinish ==
    ASSUME SerialClients
    PROVE  Spec => NoMidwayRefusal
<1>1. ASSUME TypeOK, SerialInv, [Next]_vars, NEW t \in Threads,
             pc[t] \in {"reread", "update", "delete", "collect"}
      PROVE  res'[t] # "missing"
  <2>1. res[t] = "none"
    BY <1>1 DEF SerialInv, Mine, VerbFits
  <2>2. ASSUME NEW u \in Threads, Serve(u) PROVE res'[t] # "missing"
    <3>1. SerialStep(u)
      BY <1>1, <2>2, ServeSerial
    <3>2. QED
      BY <1>1, <2>1, <3>1 DEF SerialStep
  <2>3. QED
    BY <1>1, <2>1, <2>2 DEF Next, Quiet, vars
<1>2. TypeOK /\ SerialInv /\ [Next]_vars =>
        [\A t \in Threads : pc[t] \in {"reread", "update", "delete", "collect"} =>
            res'[t] # "missing"]_vars
  BY <1>1
<1>3. QED
  BY <1>2, TypeCorrect, SerialInvariant, PTL DEF Spec, NoMidwayRefusal

-----------------------------------------------------------------------------
(* What watchers know: the last event on each report.                      *)

About(k) == {i \in DOMAIN log : log[i].key = k}

Latest(k, i) == i \in About(k) /\ \A j \in About(k) : j <= i

HasLatest == \A k \in Keys : About(k) # {} => \E i \in About(k) : Latest(k, i)

\* Watchers know of each report what is stored, or are about to be told.
ToldSoon ==
    \A k \in Keys : Known(k) \/ \E t \in Threads : pc[t] = "announce" /\ req[t].key = k

ToldInv == HasLatest /\ ToldSoon

LEMMA LatestIsLast ==
    ASSUME log \in Seq(Event), NEW k \in Keys, NEW i, Latest(k, i)
    PROVE  LastEvent(k) = log[i]
<1>1. About(k) \subseteq Nat
  BY DEF About
<1>2. \A j \in About(k) : (\A m \in About(k) : m <= j) => j = i
  BY <1>1 DEF Latest
<1>3. (CHOOSE j \in About(k) : \A m \in About(k) : m <= j) = i
  BY <1>2 DEF Latest
<1>4. About(k) # {}
  BY DEF Latest
<1>5. QED
  BY <1>3, <1>4 DEF LastEvent, About

LEMMA LatestIsLastThen ==
    ASSUME log' \in Seq(Event), NEW k \in Keys, NEW i, Latest(k, i)'
    PROVE  LastEvent(k)' = log'[i]
<1>1. About(k)' \subseteq Nat
  BY DEF About
<1>2. \A j \in About(k)' : (\A m \in About(k)' : m <= j) => j = i
  BY <1>1 DEF Latest
<1>3. (CHOOSE j \in About(k)' : \A m \in About(k)' : m <= j) = i
  BY <1>2 DEF Latest
<1>4. About(k)' # {}
  BY DEF Latest
<1>5. QED
  BY <1>3, <1>4 DEF LastEvent, About

LEMMA AppendMovesLast ==
    ASSUME log \in Seq(Event), HasLatest, NEW e \in Event, log' = Append(log, e), NEW k \in Keys
    PROVE  /\ About(k)' # {} => \E i \in About(k)' : Latest(k, i)'
           /\ LastEvent(k)' = IF e.key = k THEN e ELSE LastEvent(k)
<1>1. PICK last \in Nat :
          /\ log' \in Seq(Event)
          /\ Len(log) \in Nat /\ DOMAIN log = 1..Len(log) /\ last = Len(log) + 1
          /\ DOMAIN log' = 1..last
          /\ log'[last] = e
          /\ \A i \in DOMAIN log : log'[i] = log[i]
  BY AppendEvent
<1>2. CASE e.key = k
  <2>1. Latest(k, last)' /\ last \in About(k)'
    BY <1>1, <1>2 DEF Latest, About
  <2>2. LastEvent(k)' = log'[last]
    BY <1>1, <2>1, LatestIsLastThen
  <2>3. QED
    BY <1>1, <1>2, <2>1, <2>2
<1>3. CASE e.key # k
  <2>1. About(k)' = About(k)
    BY <1>1, <1>3 DEF About
  <2>2. CASE About(k) = {}
    BY <1>3, <2>1, <2>2 DEF LastEvent, About
  <2>3. CASE About(k) # {}
    <3>1. PICK i \in About(k) : Latest(k, i)
      BY <2>3 DEF HasLatest
    <3>2. Latest(k, i)'
      BY <2>1, <3>1 DEF Latest
    <3>3. LastEvent(k) = log[i] /\ LastEvent(k)' = log'[i]
      BY <1>1, <3>1, <3>2, LatestIsLast, LatestIsLastThen
    <3>4. log'[i] = log[i]
      BY <1>1 DEF About
    <3>5. QED
      BY <1>3, <2>1, <3>2, <3>3, <3>4
  <2>4. QED
    BY <2>2, <2>3
<1>4. QED
  BY <1>2, <1>3

(* The announcing step of t: the event it sends shows what is stored.      *)
LEMMA AppendTells ==
    ASSUME ~ApplyCreates, TypeOK, SerialInv, ToldInv, NEW t \in Threads, Announcing(t), Others(t),
           NEW again \in BOOLEAN, again = (pc[t] = "announceAgain"),
           log' = Append(log, EventOf(req[t], again)), UNCHANGED db
    PROVE  ToldInv'
<1> DEFINE e == EventOf(req[t], again)
<1>1. req[t] \in Request /\ req[t].key \in Keys /\ Mine(t)
  BY KeyIsWorkedOn DEF SerialInv, Announcing
<1>2. e \in Event /\ e # NoReport
  <2>1. e \in Event
    BY <1>1, EventsHaveType, Zenon
  <2>2. QED
    BY <2>1, NoReportAssumption
<1>3. e.type = EventType(req[t]) /\ e.key = req[t].key /\ e.obj = req[t].obj
  BY DEF EventOf
<1>4. IF Found(req[t].key) THEN e.type = "Added" /\ e.obj = db[req[t].key]
                           ELSE e.type = "Deleted"
  BY <1>1, <1>3 DEF Mine, Truthful, VerbFits, Announcing, EventType
<1> HIDE DEF e
<1>5. log' = Append(log, e)
  BY DEF e
<1>6. ASSUME NEW k \in Keys
      PROVE  /\ About(k)' # {} => \E i \in About(k)' : Latest(k, i)'
             /\ LastEvent(k)' = IF e.key = k THEN e ELSE LastEvent(k)
  BY <1>2, <1>5, AppendMovesLast DEF TypeOK, ToldInv
<1>7. ASSUME NEW k \in Keys
      PROVE  Known(k)' \/ \E u \in Threads : pc'[u] = "announce" /\ req'[u].key = k
  <2>1. CASE k = req[t].key
    BY <1>2, <1>3, <1>4, <1>6, <2>1 DEF Known, Found
  <2>2. CASE k # req[t].key
    <3>1. LastEvent(k)' = LastEvent(k)
      BY <1>3, <1>6, <2>2
    <3>2. CASE Known(k)
      BY <3>1, <3>2 DEF Known, Found
    <3>3. CASE \E u \in Threads : pc[u] = "announce" /\ req[u].key = k
      BY <2>2, <3>3 DEF Others
    <3>4. QED
      BY <3>2, <3>3 DEF ToldInv, ToldSoon
  <2>3. QED
    BY <2>1, <2>2
<1>8. QED
  BY <1>6, <1>7 DEF ToldInv, HasLatest, ToldSoon

LEMMA SilenceTells ==
    ASSUME ToldInv, NEW t \in Threads, Others(t), ~Announcing(t), log' = log,
           \A k \in Keys : db'[k] # db[k] => pc'[t] = "announce" /\ req'[t].key = k
    PROVE  ToldInv'
<1>1. HasLatest'
  BY DEF ToldInv, HasLatest, Latest, About
<1>2. ASSUME NEW k \in Keys
      PROVE  Known(k)' \/ \E u \in Threads : pc'[u] = "announce" /\ req'[u].key = k
  <2>1. CASE Known(k) /\ db'[k] = db[k]
    BY <2>1 DEF Known, Found, LastEvent
  <2>2. CASE \E u \in Threads : pc[u] = "announce" /\ req[u].key = k
    BY <2>2 DEF Others, Announcing
  <2>3. QED
    BY <2>1, <2>2 DEF ToldInv, ToldSoon
<1>3. QED
  BY <1>1, <1>2 DEF ToldInv, ToldSoon

LEMMA SenderAnnounces ==
    ASSUME NEW t \in Threads, Serve(t), Announcing(t)
    PROVE  Announce(t) \/ AnnounceAgain(t)
  BY DEF Serve, CreateReport, UpdateGet, ApplyGet, DeleteGet, CollectionList, Accept,
         UpdateReread, UpdateStore, ApplyStore, DeleteStore, CollectionItem, Announcing

LEMMA NextTells ==
    ASSUME SerialClients, ~ApplyCreates, TypeOK, FeedInv, SerialInv, ToldInv, [Next]_vars
    PROVE  ToldInv'
<1>1. ASSUME NEW t \in Threads, Serve(t) PROVE ToldInv'
  <2>1. /\ Others(t)
        /\ \A k \in Keys : db'[k] # db[k] => pc'[t] = "announce" /\ req'[t].key = k
    BY <1>1, ServeSerial DEF SerialStep
  <2>2. CASE Move(t) \/ Write(t)
    BY <2>1, <2>2, SilenceTells DEF Move, Write
  <2>3. CASE Announce(t)
    BY <2>1, <2>3, AppendTells DEF Announce, Announcing
  <2>4. CASE AnnounceAgain(t)
    BY <2>1, <2>4, AppendTells DEF AnnounceAgain, Announcing
  <2>5. QED
    <3>1. FeedStep(t)
      BY <1>1, ServeFeedStep DEF FeedInv
    <3>2. QED
      BY <1>1, <2>2, <2>3, <2>4, <3>1, SenderAnnounces DEF FeedStep, Send, Repeat, Announcing
<1>2. CASE UNCHANGED vars
  BY <1>2 DEF vars, ToldInv, HasLatest, Latest, About, ToldSoon, Known, Found, LastEvent
<1>3. QED
  BY <1>1, <1>2 DEF Next, Quiet

LEMMA InitTells == Init => ToldInv
<1> SUFFICES ASSUME Init PROVE ToldInv
  OBVIOUS
<1>1. \A k \in Keys : About(k) = {}
  BY DEF Init, About
<1>2. \A k \in Keys : LastEvent(k) = NoReport /\ ~Found(k)
  BY <1>1 DEF Init, DbInit, Found, LastEvent, About
<1>3. QED
  BY <1>1, <1>2 DEF ToldInv, HasLatest, ToldSoon, Known

(* One client at a time, and no object made for a missing report: watchers *)
(* that have read all events know the state of each report at rest.        *)
THEOREM SerialWatchersConverge ==
    ASSUME SerialClients, ~ApplyCreates
    PROVE  Spec => []WatchersConverge
<1>1. TypeOK /\ FeedInv /\ SerialInv /\ ToldInv /\ [Next]_vars => ToldInv'
  BY NextTells
<1>2. ASSUME TypeOK, ToldInv PROVE WatchersConverge
  <2>1. ASSUME NEW t \in Threads, pc[t] = "announce" PROVE req[t].key \in WorkingOn(t)
    BY <1>2, <2>1, KeyIsWorkedOn
  <2>2. QED
    BY <1>2, <2>1 DEF WatchersConverge, ToldInv, ToldSoon
<1>3. QED
  BY <1>1, <1>2, InitTells, TypeCorrect, FeedInvariant, SerialInvariant, PTL DEF Spec

-----------------------------------------------------------------------------
(* Requests end: what is counted is finite.                                *)

FoundKeys == {k \in Keys : Found(k)}

\* Each write adds at most one report, so lists are finite, and so is what a
\* collection has yet to delete.
FewInv ==
    /\ IsFiniteSet(FoundKeys)
    /\ \A t \in Threads : IsFiniteSet(DOMAIN todo[t])

LEMMA CallsAreNumbers ==
    ASSUME TypeOK, FewInv, NEW t \in Threads
    PROVE  /\ CallsFrom(pc[t]) \in Nat /\ Cardinality(DOMAIN todo[t]) \in Nat
           /\ pc[t] # "idle" => CallsFrom(pc[t]) > 0
<1>1. pc[t] \in Stages
  BY DEF TypeOK, ThreadsOK
<1>2. CallsFrom(pc[t]) \in Nat /\ (pc[t] # "idle" => CallsFrom(pc[t]) > 0)
  BY <1>1 DEF Stages, CallsFrom
<1>3. QED
  BY <1>2, FS_CardinalityType DEF FewInv

\* t has fewer calls to make, or has begun, with finitely many items.
Shortens(t) ==
    /\ \A u \in Threads \ {t} : UNCHANGED <<pc[u], req[u], todo[u]>>
    /\ IsFiniteSet(DOMAIN todo'[t])
    /\ pc[t] # "idle" => CallsLeft(t)' < CallsLeft(t)

LEMMA ReplyShortens ==
    ASSUME TypeOK, FewInv, NEW t \in Threads, NEW answer, Reply(t, answer)
    PROVE  Shortens(t)
<1>1. \A u \in Threads \ {t} : UNCHANGED <<pc[u], req[u], todo[u]>>
  BY DEF TypeOK, ThreadsOK, Reply
<1>2. pc'[t] = "idle" /\ todo'[t] = << >>
  BY DEF TypeOK, ThreadsOK, Reply, NoKeys
<1>3. DOMAIN todo'[t] = {}
  BY <1>2
<1>4. IsFiniteSet(DOMAIN todo'[t]) /\ Cardinality(DOMAIN todo'[t]) = 0
  BY <1>3, FS_EmptySet
<1>5. CallsLeft(t)' = 0
  BY <1>2, <1>4 DEF CallsLeft, CallsFrom
<1>6. pc[t] # "idle" => CallsLeft(t) > 0
  BY CallsAreNumbers DEF CallsLeft
<1>7. QED
  BY <1>1, <1>4, <1>5, <1>6 DEF Shortens

LEMMA ContinueShortens ==
    ASSUME TypeOK, FewInv, NEW t \in Threads, NEW stage \in Stages, NEW r,
           Continue(t, stage, r),
           pc[t] # "idle" => CallsFrom(stage) < CallsFrom(pc[t])
    PROVE  Shortens(t)
<1>1. \A u \in Threads \ {t} : UNCHANGED <<pc[u], req[u], todo[u]>>
  BY DEF TypeOK, ThreadsOK, Continue
<1>2. pc'[t] = stage /\ todo'[t] = todo[t]
  BY DEF TypeOK, ThreadsOK, Continue
<1>3. CallsLeft(t)' = CallsFrom(stage) + 4 * Cardinality(DOMAIN todo[t])
  BY <1>2 DEF CallsLeft
<1>4. CallsFrom(stage) \in Nat
  BY DEF Stages, CallsFrom
<1>5. pc[t] # "idle" => CallsLeft(t)' < CallsLeft(t)
  BY <1>3, <1>4, CallsAreNumbers DEF CallsLeft
<1>6. QED
  BY <1>1, <1>2, <1>5 DEF Shortens, FewInv

LEMMA NextItemShortens ==
    ASSUME TypeOK, FewInv, NEW t \in Threads, NEW items, IsFiniteSet(DOMAIN items),
           NextItem(t, items), pc[t] # "idle" => pc[t] = "announceAgain" /\ items = todo[t]
    PROVE  Shortens(t)
<1>1. PICK i \in DOMAIN items :
          /\ pc' = [pc EXCEPT ![t] = "collect"]
          /\ req' = [req EXCEPT ![t] = NewRequest("deletecollection", items[i], FALSE, NoReport)]
          /\ todo' = [todo EXCEPT ![t] = [j \in DOMAIN items \ {i} |-> items[j]]]
  BY DEF NextItem
<1>2. \A u \in Threads \ {t} : UNCHANGED <<pc[u], req[u], todo[u]>>
  BY <1>1 DEF TypeOK, ThreadsOK
<1>3. pc'[t] = "collect" /\ DOMAIN todo'[t] = DOMAIN items \ {i}
  BY <1>1 DEF TypeOK, ThreadsOK
<1>4. /\ IsFiniteSet(DOMAIN todo'[t])
      /\ Cardinality(DOMAIN items \ {i}) = Cardinality(DOMAIN items) - 1
  BY <1>3, FS_RemoveElement
<1>5. CallsLeft(t)' = 4 + 4 * (Cardinality(DOMAIN items) - 1)
  BY <1>3, <1>4 DEF CallsLeft, CallsFrom
<1>6. Cardinality(DOMAIN items) \in Nat
  BY FS_CardinalityType
<1>7. ASSUME pc[t] # "idle" PROVE CallsLeft(t)' < CallsLeft(t)
  <2>1. CallsLeft(t) = 1 + 4 * Cardinality(DOMAIN items)
    BY <1>7 DEF CallsLeft, CallsFrom
  <2>2. QED
    BY <1>5, <1>6, <2>1
<1>8. QED
  BY <1>2, <1>4, <1>7 DEF Shortens

-----------------------------------------------------------------------------
(* Requests end: the handlers' steps.                                      *)

\* The requests, whose first calls find an idle thread.
LEMMA RequestShortens ==
    ASSUME TypeOK, FewInv, NEW t \in Threads, NEW k, NEW labels, NEW uid, NEW dry,
           \/ CreateReport(t, k, labels, dry)
           \/ UpdateGet(t, k, labels, uid, dry)
           \/ ApplyGet(t, k, labels, dry)
           \/ DeleteGet(t, k, dry)
    PROVE  Shortens(t)
<1>1. pc[t] = "idle"
  BY DEF CreateReport, UpdateGet, ApplyGet, DeleteGet, Accept
<1>2. (\E answer : Reply(t, answer)) \/ (\E stage \in Stages : \E r : Continue(t, stage, r))
  <2>1. CASE CreateReport(t, k, labels, dry)
    BY <2>1 DEF CreateReport, CreatePolr, Written, Stages
  <2>2. CASE UpdateGet(t, k, labels, uid, dry)
    BY <2>2 DEF UpdateGet, Stages
  <2>3. CASE ApplyGet(t, k, labels, dry)
    BY <2>3 DEF ApplyGet, Stages
  <2>4. CASE DeleteGet(t, k, dry)
    BY <2>4 DEF DeleteGet, FindForDelete, Stages
  <2>5. QED
    BY <2>1, <2>2, <2>3, <2>4
<1>3. QED
  BY <1>1, <1>2, ReplyShortens, ContinueShortens

LEMMA CallShortens ==
    ASSUME TypeOK, FewInv, NEW t \in Threads,
           \/ UpdateReread(t) \/ UpdateStore(t) \/ ApplyStore(t)
           \/ DeleteStore(t) \/ CollectionItem(t) \/ Announce(t)
    PROVE  Shortens(t)
<1>1. \/ \E answer : Reply(t, answer)
      \/ pc[t] = "reread" /\ \E r : Continue(t, "update", r)
      \/ pc[t] \in {"update", "apply", "delete"} /\ \E r : Continue(t, "announce", r)
      \/ pc[t] = "collect" /\ \E r : Continue(t, "delete", r)
      \/ pc[t] = "announce" /\ \E r : Continue(t, "announceAgain", r)
  <2>1. CASE UpdateReread(t)
    BY <2>1 DEF UpdateReread
  <2>2. CASE UpdateStore(t)
    BY <2>2 DEF UpdateStore, Written
  <2>3. CASE ApplyStore(t)
    BY <2>3 DEF ApplyStore, Written
  <2>4. CASE DeleteStore(t)
    BY <2>4 DEF DeleteStore, Written
  <2>5. CASE CollectionItem(t)
    BY <2>5 DEF CollectionItem, FindForDelete
  <2>6. CASE Announce(t)
    BY <2>6 DEF Announce
  <2>7. QED
    BY <2>1, <2>2, <2>3, <2>4, <2>5, <2>6
<1>2. ASSUME NEW stage \in {"update", "announce", "delete", "announceAgain"}, NEW r,
             Continue(t, stage, r),
             \/ pc[t] = "reread" /\ stage = "update"
             \/ pc[t] \in {"update", "apply", "delete"} /\ stage = "announce"
             \/ pc[t] = "collect" /\ stage = "delete"
             \/ pc[t] = "announce" /\ stage = "announceAgain"
      PROVE  Shortens(t)
  <2>1. CallsFrom(stage) < CallsFrom(pc[t])
    BY <1>2 DEF CallsFrom
  <2>2. stage \in Stages
    BY DEF Stages
  <2>3. QED
    BY <1>2, <2>1, <2>2, ContinueShortens
<1>3. QED
  BY <1>1, <1>2, ReplyShortens

LEMMA CollectionListShortens ==
    ASSUME TypeOK, FewInv, NEW t \in Threads, NEW ns, NEW selector, NEW dry,
           CollectionList(t, ns, selector, dry)
    PROVE  Shortens(t)
<1> DEFINE S == {k \in KeysOf(ns) : Found(k)}
<1>1. PICK order \in Orders(S) :
          LET kept == Kept([i \in DOMAIN order |-> db[order[i]].labels], selector)
          IN  IF dry \/ kept = {} THEN Reply(t, "ok")
                                  ELSE NextItem(t, [i \in kept |-> order[i]])
  BY DEF CollectionList
<1> DEFINE kept == Kept([i \in DOMAIN order |-> db[order[i]].labels], selector)
<1>2. kept \subseteq DOMAIN order
  BY DEF Kept
<1>3. IsFiniteSet(S)
  <2>1. S \subseteq FoundKeys
    BY DEF FoundKeys, KeysOf
  <2>2. QED
    BY <2>1, FS_Subset DEF FewInv
<1>4. DOMAIN order = 1..Cardinality(S) /\ Cardinality(S) \in Nat
  BY <1>3, FS_CardinalityType DEF Orders
<1>5. IsFiniteSet(kept)
  <2>1. IsFiniteSet(1..Cardinality(S))
    BY <1>4, FS_Interval
  <2>2. QED
    BY <1>2, <1>4, <2>1, FS_Subset
<1>6. pc[t] = "idle"
  BY DEF CollectionList, Accept
<1>7. CASE Reply(t, "ok")
  BY <1>7, ReplyShortens
<1>8. CASE NextItem(t, [i \in kept |-> order[i]])
  <2> DEFINE items == [i \in kept |-> order[i]]
  <2>1. DOMAIN items = kept
    OBVIOUS
  <2> HIDE DEF items, kept
  <2>2. NextItem(t, items)
    BY <1>8 DEF items
  <2>3. QED
    BY <1>5, <1>6, <2>1, <2>2, NextItemShortens
<1>9. QED
  BY <1>1, <1>7, <1>8

LEMMA AnnounceAgainShortens ==
    ASSUME TypeOK, FewInv, NEW t \in Threads, AnnounceAgain(t)
    PROVE  Shortens(t)
<1>1. IsFiniteSet(DOMAIN todo[t]) /\ pc[t] = "announceAgain"
  BY DEF FewInv, AnnounceAgain
<1>2. Reply(t, "ok") \/ NextItem(t, todo[t])
  BY DEF AnnounceAgain
<1>3. QED
  BY <1>1, <1>2, ReplyShortens, NextItemShortens

LEMMA ServeShortens ==
    ASSUME TypeOK, FewInv, NEW t \in Threads, Serve(t)
    PROVE  Shortens(t)
  BY RequestShortens, CallShortens, CollectionListShortens, AnnounceAgainShortens DEF Serve

\* A call of the store changes one entry.
LEMMA OneEntry ==
    ASSUME TypeOK, FewInv, NEW k, NEW v, NEW err,
           DbCreate(k, v, err) \/ DbUpdate(k, v, err) \/ DbDelete(k, err)
    PROVE  IsFiniteSet(FoundKeys')
<1>1. FoundKeys' \subseteq FoundKeys \cup {k}
  BY DEF TypeOK, FoundKeys, Found, DbCreate, DbUpdate, DbDelete
<1>2. IsFiniteSet(FoundKeys \cup {k})
  BY FS_AddElement DEF FewInv
<1>3. QED
  BY <1>1, <1>2, FS_Subset

LEMMA ServeFindsFew ==
    ASSUME TypeOK, FewInv, NEW t \in Threads, Serve(t)
    PROVE  IsFiniteSet(FoundKeys')
<1>1. \/ db' = db
      \/ \E k, v, err : DbCreate(k, v, err) \/ DbUpdate(k, v, err) \/ DbDelete(k, err)
  <2>1. ASSUME NEW k, NEW labels, NEW uid, NEW dry, NEW ns, NEW selector,
               \/ UpdateGet(t, k, labels, uid, dry) \/ ApplyGet(t, k, labels, dry)
               \/ DeleteGet(t, k, dry) \/ CollectionList(t, ns, selector, dry)
        PROVE  db' = db
    BY <2>1 DEF UpdateGet, ApplyGet, DeleteGet, CollectionList
  <2>2. ASSUME NEW k, NEW labels, NEW dry, CreateReport(t, k, labels, dry)
        PROVE  db' = db \/ \E j, v, err : DbCreate(j, v, err)
    BY <2>2 DEF CreateReport, CreatePolr
  <2>3. UpdateStore(t) \/ ApplyStore(t) => \E k, v, err : DbUpdate(k, v, err)
    BY DEF UpdateStore, ApplyStore
  <2>4. DeleteStore(t) => \E k, err : DbDelete(k, err)
    BY DEF DeleteStore
  <2>5. \/ UpdateReread(t) \/ CollectionItem(t) \/ Announce(t) \/ AnnounceAgain(t)
        => db' = db
    BY DEF UpdateReread, CollectionItem, Announce, AnnounceAgain
  <2>6. QED
    BY <2>1, <2>2, <2>3, <2>4, <2>5 DEF Serve
<1>2. CASE db' = db
  BY <1>2 DEF FewInv, FoundKeys, Found
<1>3. QED
  BY <1>1, <1>2, OneEntry

-----------------------------------------------------------------------------
(* Requests end: the theorem.                                              *)

LEMMA InitFew == Init => FewInv
<1> SUFFICES ASSUME Init PROVE FewInv
  OBVIOUS
<1>1. FoundKeys = {}
  BY DEF Init, DbInit, FoundKeys, Found
<1>2. ASSUME NEW t \in Threads PROVE DOMAIN todo[t] = {}
  <2>1. todo[t] = << >>
    BY DEF Init, NoKeys
  <2>2. QED
    BY <2>1
<1>3. QED
  BY <1>1, <1>2, FS_EmptySet DEF FewInv

LEMMA NextKeepsFew == TypeOK /\ FewInv /\ [Next]_vars => FewInv'
<1> SUFFICES ASSUME TypeOK, FewInv, [Next]_vars PROVE FewInv'
  OBVIOUS
<1>1. ASSUME NEW t \in Threads, Serve(t) PROVE FewInv'
  <2>1. Shortens(t) /\ IsFiniteSet(FoundKeys')
    BY <1>1, ServeShortens, ServeFindsFew
  <2>2. \A u \in Threads : IsFiniteSet(DOMAIN todo'[u])
    BY <2>1 DEF Shortens, FewInv
  <2>3. QED
    BY <2>1, <2>2 DEF FewInv
<1>2. CASE UNCHANGED vars
  BY <1>2 DEF vars, FewInv, FoundKeys, Found
<1>3. QED
  BY <1>1, <1>2 DEF Next, Quiet

(* Whatever other requests do to the store meanwhile, every step of a      *)
(* request leaves it fewer calls to make, at most four for each report that*)
(* its list found: no handler loops or starts over (polr.go:225-247).      *)
THEOREM RequestsHaveAnEnd == Spec => RequestsGetShorter
<1>1. ASSUME TypeOK, FewInv, Next, NEW t \in Threads, pc[t] # "idle"
      PROVE  CallsLeft(t)' < CallsLeft(t) \/ UNCHANGED <<pc[t], req[t], todo[t]>>
  <2>1. CASE UNCHANGED vars
    BY <2>1 DEF vars
  <2>2. ASSUME NEW u \in Threads, Serve(u)
        PROVE  CallsLeft(t)' < CallsLeft(t) \/ UNCHANGED <<pc[t], req[t], todo[t]>>
    BY <1>1, <2>2, ServeShortens DEF Shortens
  <2>3. QED
    BY <1>1, <2>1, <2>2 DEF Next, Quiet
<1>2. TypeOK /\ FewInv /\ [Next]_vars =>
          [\A t \in Threads : pc[t] # "idle" =>
              \/ CallsLeft(t)' < CallsLeft(t)
              \/ UNCHANGED <<pc[t], req[t], todo[t]>>]_vars
  BY <1>1
<1>3. TypeOK /\ FewInv /\ [Next]_vars => FewInv'
  BY NextKeepsFew
<1>4. QED
  BY <1>2, <1>3, InitFew, TypeCorrect, PTL DEF Spec, RequestsGetShorter
=============================================================================
