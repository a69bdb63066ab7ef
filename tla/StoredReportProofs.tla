------------------------- MODULE StoredReportProofs -------------------------
(***************************************************************************)
(* What StoredProperties says of kine and of cluster reports, for any      *)
(* number of threads, requests and reports and any first revision.  The    *)
(* argument: a report in kine is always at least FirstRevision behind the  *)
(* revision of its row, and rows are only ever rewritten with a higher one.*)
(***************************************************************************)
EXTENDS StoredProperties, PolicyReportProofs

(***************************************************************************)
(* The inductive invariant.                                                *)
(***************************************************************************)
ThreadFuns ==
    /\ pc \in [Threads -> StoredStages]
    /\ req \in [Threads -> Request \cup {NoRequest}]
    /\ res \in [Threads -> StoredOutcomes]
    /\ DOMAIN todo = Threads

\* A kine row has a revision exactly if it has a report, which is behind it.
RowsOK ==
    /\ db \in [Keys -> Report \cup {NoReport}]
    /\ modified \in [Keys -> Nat]
    /\ debug \in BOOLEAN
    /\ revision \in Nat /\ FirstRevision <= revision
    /\ \A k \in Keys : modified[k] <= revision
    /\ ~debug => \A k \in Keys :
           /\ ~Found(k) => modified[k] = 0
           /\ Found(k) => db[k].rv >= 1 /\ db[k].rv + FirstRevision <= modified[k]

\* What a thread has read is no newer than the row, and if the row has not
\* been written since, an update follows what is stored.
ThreadInv(t) ==
    /\ \A i \in DOMAIN todo[t] : todo[t][i] \in Keys
    /\ pc[t] # "idle" => req[t] \in Request
    /\ pc[t] \in {"reread", "update", "apply", "delete", "recreate"} => req[t].obj \in Report
    /\ pc[t] \in {"update", "apply"} => req[t].obj.rv >= 1
    /\ pc[t] = "update" /\ ~debug =>
           /\ req[t].obj.rv <= modified[req[t].key]
           /\ req[t].obj.rv = modified[req[t].key] => req[t].obj.rv = db[req[t].key].rv + 1
    /\ pc[t] = "delete" /\ ~debug => req[t].obj.rv < modified[req[t].key]

CountsOK == log \in Seq(Event) /\ writes \in Nat /\ calls \in Nat

StoredInv == ThreadFuns /\ RowsOK /\ CountsOK /\ \A t \in Threads : ThreadInv(t)

\* No row goes back to a lower revision, none changes and keeps its revision.
Grown ==
    /\ debug' = debug
    /\ ~debug => \A k \in Keys :
           /\ modified[k] <= modified'[k]
           /\ modified[k] = modified'[k] => db'[k] = db[k]

\* What a step does to the rows.
RowsStep ==
    /\ RowsOK'
    /\ Grown
    /\ ~debug => \A k \in Keys : Changes(k) => db'[k].rv = db[k].rv + 1 /\ FirstRevision = 1
    /\ \A k \in CpolrKeys : ~Appears(k)

OthersStay(t) ==
    \A u \in Threads \ {t} : pc'[u] = pc[u] /\ req'[u] = req[u] /\ todo'[u] = todo[u]

Moved(t) ==
    ThreadFuns' /\ OthersStay(t) /\ ThreadInv(t)' /\ RowsStep /\ CountsOK'

-----------------------------------------------------------------------------
(* The steps of a request.                                                 *)

LEMMA ReplyMove ==
    ASSUME ThreadFuns, NEW t \in Threads, NEW outcome \in StoredOutcomes, Reply(t, outcome)
    PROVE  ThreadFuns' /\ OthersStay(t) /\ ThreadInv(t)'
<1>1. ThreadFuns'
  BY DEF ThreadFuns, Reply, StoredStages, Stages
<1>2. OthersStay(t)
  BY DEF ThreadFuns, Reply, OthersStay
<1>3. pc'[t] = "idle" /\ todo'[t] = << >>
  BY DEF ThreadFuns, Reply, NoKeys
<1>4. QED
  BY <1>1, <1>2, <1>3 DEF ThreadInv

LEMMA ContinueMove ==
    ASSUME ThreadFuns, NEW t \in Threads, NEW stage \in StoredStages, NEW r \in Request,
           Continue(t, stage, r)
    PROVE  /\ ThreadFuns' /\ OthersStay(t)
           /\ pc'[t] = stage /\ req'[t] = r /\ todo'[t] = todo[t]
<1>1. ThreadFuns'
  BY DEF ThreadFuns, Continue, StoredOutcomes, Outcomes
<1>2. QED
  BY <1>1 DEF ThreadFuns, Continue, OthersStay

LEMMA WrittenMove ==
    ASSUME ThreadFuns, NEW t \in Threads, ThreadInv(t), writes \in Nat, NEW r \in Request,
           Written(t, r)
    PROVE  ThreadFuns' /\ OthersStay(t) /\ ThreadInv(t)' /\ writes' \in Nat
<1> DEFINE s == [r EXCEPT !.seq = writes + 1]
<1>1. s \in Request
  BY DEF Request
<1>2. "announce" \in StoredStages
  BY DEF StoredStages, Stages
<1> HIDE DEF s
<1>3. /\ ThreadFuns' /\ OthersStay(t)
      /\ pc'[t] = "announce" /\ req'[t] = s /\ todo'[t] = todo[t]
  BY <1>1, <1>2, ContinueMove DEF Written, s
<1>4. QED
  BY <1>1, <1>3 DEF ThreadInv, Written

LEMMA NextItemMove ==
    ASSUME ThreadFuns, NEW t \in Threads, NEW items, \A i \in DOMAIN items : items[i] \in Keys,
           NextItem(t, items)
    PROVE  ThreadFuns' /\ OthersStay(t) /\ ThreadInv(t)'
<1>1. PICK i \in DOMAIN items :
          /\ pc' = [pc EXCEPT ![t] = "collect"]
          /\ req' = [req EXCEPT ![t] = NewRequest("deletecollection", items[i], FALSE, NoReport)]
          /\ todo' = [todo EXCEPT ![t] = [j \in DOMAIN items \ {i} |-> items[j]]]
          /\ res' = [res EXCEPT ![t] = "none"]
  BY DEF NextItem
<1>2. NewRequest("deletecollection", items[i], FALSE, NoReport) \in Request
  BY NewRequestType DEF AllVerbs
<1>3. ThreadFuns'
  BY <1>1, <1>2 DEF ThreadFuns, StoredStages, Stages, StoredOutcomes, Outcomes
<1>4. OthersStay(t)
  BY <1>1 DEF ThreadFuns, OthersStay
<1>5. pc'[t] = "collect" /\ req'[t] \in Request /\ \A j \in DOMAIN todo'[t] : todo'[t][j] \in Keys
  BY <1>1, <1>2 DEF ThreadFuns
<1>6. QED
  BY <1>3, <1>4, <1>5 DEF ThreadInv

-----------------------------------------------------------------------------
(* The rows.                                                               *)

LEMMA RowsStay ==
    ASSUME RowsOK, UNCHANGED <<db, storageVars>>
    PROVE  RowsStep
<1>1. RowsOK'
  BY DEF RowsOK, storageVars, Found
<1>2. QED
  BY <1>1 DEF RowsOK, RowsStep, Grown, storageVars, Changes, Appears, Found, CpolrKeys

LEMMA CommitGrows ==
    ASSUME RowsOK, ~debug, debug' = debug, NEW k \in Keys, NEW v \in Report, Commit(k, v),
           v.rv >= 1, v.rv + FirstRevision <= revision + 1
    PROVE  RowsOK' /\ Grown
<1>1. /\ db' = [db EXCEPT ![k] = v]
      /\ revision' = revision + 1
      /\ modified' = [modified EXCEPT ![k] = revision + 1]
  BY NoReportAssumption DEF Commit
<1>2. revision' \in Nat /\ FirstRevision <= revision'
  BY <1>1, RevisionAssumption DEF RowsOK
<1>3. db' \in [Keys -> Report \cup {NoReport}] /\ modified' \in [Keys -> Nat]
  BY <1>1 DEF RowsOK
<1>4. ASSUME NEW j \in Keys
      PROVE  /\ modified'[j] <= revision'
             /\ db'[j] = NoReport => modified'[j] = 0
             /\ db'[j] # NoReport => db'[j].rv >= 1 /\ db'[j].rv + FirstRevision <= modified'[j]
             /\ modified[j] <= modified'[j]
             /\ modified[j] = modified'[j] => db'[j] = db[j]
  <2>1. CASE j = k
    BY <1>1, <2>1, NoReportAssumption DEF RowsOK
  <2>2. CASE j # k
    BY <1>1, <2>2 DEF RowsOK, Found
  <2>3. QED
    BY <2>1, <2>2
<1>5. QED
  BY <1>2, <1>3, <1>4 DEF RowsOK, Grown, Found

(* A creation adds a report that is behind the database's revision.        *)
LEMMA StoreCreateRows ==
    ASSUME RowsOK, NEW k \in Keys \ CpolrKeys, NEW v \in Report, v.rv = 1,
           NEW err, StoreCreate(k, v, err)
    PROVE  RowsStep
<1>1. debug' = debug
  BY DEF StoreCreate
<1>2. CASE debug
  <2>1. DbCreate(k, v, err) /\ UNCHANGED <<modified, revision>>
    BY <1>2 DEF StoreCreate
  <2>2. RowsOK'
    BY <1>1, <1>2, <2>1, DbCallsKeepType DEF RowsOK
  <2>3. \A j \in CpolrKeys : ~Appears(j)
    BY <2>1 DEF DbCreate, Appears, Found, RowsOK, CpolrKeys
  <2>4. QED
    BY <1>1, <1>2, <2>2, <2>3 DEF RowsStep, Grown
<1>3. CASE ~debug
  <2>1. CASE ~Found(k) /\ Commit(k, v)
    <3>1. v.rv >= 1 /\ v.rv + FirstRevision <= revision + 1
      BY RevisionAssumption DEF RowsOK
    <3>2. RowsOK' /\ Grown
      BY <1>1, <1>3, <2>1, <3>1, CommitGrows
    <3>3. \A j \in Keys : j # k => db'[j] = db[j]
      BY <2>1 DEF Commit, RowsOK
    <3>4. QED
      BY <2>1, <3>2, <3>3 DEF RowsStep, Changes, Appears, Found, CpolrKeys
  <2>2. CASE Abort
    BY <1>1, <2>2, RowsStay DEF Abort, storageVars
  <2>3. QED
    BY <1>3, <2>1, <2>2 DEF StoreCreate, KineCreate
<1>4. QED
  BY <1>2, <1>3 DEF RowsOK

(* An update that kine accepts follows the stored report, and there is such*)
(* an update only if the database had no revision before the first report. *)
LEMMA StoreUpdateRows ==
    ASSUME RowsOK, NEW k \in Keys, NEW v \in Report, v.rv >= 1, NEW rev \in Nat, rev >= 1,
           ~debug /\ modified[k] = rev => rev = v.rv /\ v.rv = db[k].rv + 1,
           NEW err, StoreUpdate(k, rev, v, err)
    PROVE  RowsStep
<1>1. debug' = debug
  BY DEF StoreUpdate
<1>2. CASE debug
  <2>1. DbUpdate(k, v, err) /\ UNCHANGED <<modified, revision>>
    BY <1>2 DEF StoreUpdate
  <2>2. RowsOK'
    BY <1>1, <1>2, <2>1, DbCallsKeepType DEF RowsOK
  <2>3. \A j \in CpolrKeys : ~Appears(j)
    BY <2>1 DEF DbUpdate, Appears, Found, RowsOK, CpolrKeys
  <2>4. QED
    BY <1>1, <1>2, <2>2, <2>3 DEF RowsStep, Grown
<1>3. CASE ~debug
  <2>1. CASE modified[k] = rev /\ Commit(k, v)
    <3>1. Found(k)
      BY <1>3, <2>1 DEF RowsOK
    <3>2. db[k] \in Report /\ db[k].rv \in Nat
      BY <3>1, FoundIsReport DEF RowsOK, Report
    <3>3. v.rv = db[k].rv + 1 /\ v.rv = modified[k] /\ FirstRevision = 1
      BY <1>3, <2>1, <3>1, <3>2, RevisionAssumption DEF RowsOK
    <3>4. v.rv + FirstRevision <= revision + 1
      BY <3>3 DEF RowsOK
    <3>5. RowsOK' /\ Grown
      BY <1>1, <1>3, <2>1, <3>4, CommitGrows
    <3>6. db'[k] = v /\ \A j \in Keys : j # k => db'[j] = db[j]
      BY <2>1 DEF Commit, RowsOK
    <3>7. QED
      BY <3>1, <3>3, <3>5, <3>6 DEF RowsStep, Changes, Appears, Found, CpolrKeys
  <2>2. CASE Abort
    BY <1>1, <2>2, RowsStay DEF Abort, storageVars
  <2>3. QED
    BY <1>3, <2>1, <2>2 DEF StoreUpdate, KineUpdate
<1>4. QED
  BY <1>2, <1>3 DEF RowsOK

(* Revision 1 is that of no row with a report.                             *)
LEMMA ForcedUpdateRows ==
    ASSUME RowsOK, NEW k \in Keys, NEW v \in Report, v.rv >= 1,
           NEW err, StoreUpdate(k, 1, v, err)
    PROVE  RowsStep
<1>1. ~(~debug /\ modified[k] = 1)
  <2> SUFFICES ASSUME ~debug, modified[k] = 1 PROVE FALSE
    OBVIOUS
  <2>1. Found(k)
    BY DEF RowsOK
  <2>2. db[k].rv \in Nat
    BY <2>1, FoundIsReport DEF RowsOK, Report
  <2>3. QED
    BY <2>1, <2>2, RevisionAssumption DEF RowsOK
<1>2. QED
  BY <1>1, StoreUpdateRows

(* Kine deletes no row whose revision is ahead of the one it is given.     *)
LEMMA StoreDeleteRows ==
    ASSUME RowsOK, NEW k \in Keys, NEW rev \in Nat, ~debug => rev < modified[k],
           NEW err, StoreDelete(k, rev, err)
    PROVE  RowsStep
<1>1. debug' = debug
  BY DEF StoreDelete
<1>2. CASE debug
  <2>1. DbDelete(k, err) /\ UNCHANGED <<modified, revision>>
    BY <1>2 DEF StoreDelete
  <2>2. RowsOK'
    BY <1>1, <1>2, <2>1 DEF RowsOK, DbDelete
  <2>3. \A j \in CpolrKeys : ~Appears(j)
    BY <2>1 DEF DbDelete, Appears, Found, RowsOK, CpolrKeys
  <2>4. QED
    BY <1>1, <1>2, <2>2, <2>3 DEF RowsStep, Grown
<1>3. CASE ~debug
  <2>1. modified[k] # rev
    BY <1>3 DEF RowsOK
  <2>2. QED
    BY <1>1, <1>3, <2>1, RowsStay DEF StoreDelete, KineDelete, Abort, storageVars
<1>4. QED
  BY <1>2, <1>3 DEF RowsOK
-----------------------------------------------------------------------------
(* The handlers.                                                           *)

LEMMA UnstoredReply ==
    ASSUME StoredInv, NEW t \in Threads, NEW outcome \in StoredOutcomes, Reply(t, outcome),
           UNCHANGED <<db, writes, log, storageVars>>, calls' \in Nat
    PROVE  Moved(t)
  BY ReplyMove, RowsStay DEF StoredInv, CountsOK, Moved

(* A call of the store that has returned.                                  *)
LEMMA AfterCallMove ==
    ASSUME StoredInv, NEW t \in Threads, NEW r \in Request, NEW err \in StoreErrors,
           AfterCall(t, r, err), RowsStep, log' = log, calls' \in Nat
    PROVE  Moved(t)
<1>1. CASE err = "none"
  BY <1>1, WrittenMove DEF AfterCall, StoredInv, CountsOK, Moved
<1>2. CASE err # "none"
  <2>1. err \in StoredOutcomes
    BY DEF StoreErrors, StoredOutcomes, Outcomes
  <2>2. Reply(t, err) /\ writes' = writes
    BY <1>2 DEF AfterCall
  <2>3. QED
    BY <2>1, <2>2, ReplyMove DEF StoredInv, CountsOK, Moved
<1>3. QED
  BY <1>1, <1>2

LEMMA CreatedReportType ==
    ASSUME writes \in Nat, NEW labels \in LabelMaps
    PROVE  CreatedReport(labels) \in Report /\ CreatedReport(labels).rv = 1
  BY DEF CreatedReport, Report

LEMMA PolrCreateMoves ==
    ASSUME StoredInv, NEW t \in Threads, NEW k \in PolrKeys, NEW labels \in LabelMaps,
           NEW dry \in BOOLEAN, PolrCreate(t, k, labels, dry)
    PROVE  Moved(t)
<1> DEFINE r == NewRequest("create", k, dry, CreatedReport(labels))
<1>1. calls' \in Nat /\ log' = log
  BY DEF StoredInv, CountsOK, PolrCreate, Accept
<1>2. r.obj \in Report /\ r.obj.rv = 1 /\ r \in Request /\ k \in Keys \ CpolrKeys
  BY CreatedReportType, NewRequestType DEF StoredInv, CountsOK, AllVerbs, PolrKeys, CpolrKeys
<1> HIDE DEF r
<1>3. ASSUME NEW answer \in {"rejected", "ok"}, Reply(t, answer),
             UNCHANGED <<db, writes, storageVars>>
      PROVE  Moved(t)
  BY <1>1, <1>3, UnstoredReply DEF StoredOutcomes, Outcomes
<1>4. ASSUME NEW err \in StoreErrors, StoreCreate(k, r.obj, err), AfterCall(t, r, err)
      PROVE  Moved(t)
  <2>1. RowsStep
    BY <1>2, <1>4, StoreCreateRows DEF StoredInv
  <2>2. QED
    BY <1>1, <1>2, <1>4, <2>1, AfterCallMove
<1>5. QED
  BY <1>3, <1>4 DEF PolrCreate, r

LEMMA CpolrCreateMoves ==
    ASSUME StoredInv, NEW t \in Threads, NEW k \in CpolrKeys, NEW labels \in LabelMaps,
           NEW dry \in BOOLEAN, CpolrCreate(t, k, labels, dry)
    PROVE  Moved(t)
<1> DEFINE r == NewRequest("create", k, dry, CreatedReport(labels))
<1>1. calls' \in Nat /\ log' = log
  BY DEF StoredInv, CountsOK, CpolrCreate, Accept
<1>2. r.obj \in Report /\ r.obj.rv = 1 /\ r \in Request /\ k \in Keys
  BY CreatedReportType, NewRequestType DEF StoredInv, CountsOK, AllVerbs, CpolrKeys
<1> HIDE DEF r
<1>3. ASSUME NEW answer \in {"rejected", "ok"}, Reply(t, answer),
             UNCHANGED <<db, writes, storageVars>>
      PROVE  Moved(t)
  BY <1>1, <1>3, UnstoredReply DEF StoredOutcomes, Outcomes
<1>4. ASSUME NEW err \in StoreErrors, CreateCpolr(k, r.obj, err), AfterCall(t, r, err)
      PROVE  Moved(t)
  <2>1. RowsStep
    BY <1>2, <1>4, ForcedUpdateRows DEF StoredInv, CreateCpolr
  <2>2. QED
    BY <1>1, <1>2, <1>4, <2>1, AfterCallMove
<1>5. QED
  BY <1>3, <1>4 DEF CpolrCreate, r

LEMMA UpdateGetMoves ==
    ASSUME StoredInv, NEW t \in Threads, NEW k \in Keys, NEW labels \in LabelMaps,
           NEW uid \in 0..writes, NEW dry \in BOOLEAN, UpdateGet(t, k, labels, uid, dry),
           UNCHANGED storageVars
    PROVE  Moved(t)
<1> DEFINE obj == [uid |-> uid, rv |-> 0, labels |-> labels]
           r == NewRequest("update", k, dry, obj)
<1>1. calls' \in Nat /\ UNCHANGED <<db, log, writes, storageVars>>
  BY DEF StoredInv, CountsOK, UpdateGet, Accept
<1>2. obj \in Report
  BY DEF StoredInv, CountsOK, Report
<1>3. r \in Request /\ r.obj \in Report
  BY <1>2, NewRequestType DEF AllVerbs
<1> HIDE DEF r
<1>4. ASSUME NEW answer \in {"missing", "rejected", "ok"}, Reply(t, answer)
      PROVE  Moved(t)
  BY <1>1, <1>4, UnstoredReply DEF StoredOutcomes, Outcomes
<1>5. CASE Continue(t, "reread", r)
  <2>1. "reread" \in StoredStages
    BY DEF StoredStages, Stages
  <2>2. /\ ThreadFuns' /\ OthersStay(t)
        /\ pc'[t] = "reread" /\ req'[t] = r /\ todo'[t] = todo[t]
    BY <1>3, <1>5, <2>1, ContinueMove DEF StoredInv
  <2>3. ThreadInv(t)'
    BY <1>3, <2>2 DEF StoredInv, ThreadInv
  <2>4. QED
    BY <1>1, <2>2, <2>3, RowsStay DEF StoredInv, CountsOK, Moved
<1>6. QED
  BY <1>4, <1>5 DEF UpdateGet, r

LEMMA CpolrUpdateMoves ==
    ASSUME StoredInv, NEW t \in Threads, NEW k \in CpolrKeys, NEW labels \in LabelMaps,
           NEW dry \in BOOLEAN, CpolrUpdate(t, k, labels, dry), UNCHANGED storageVars
    PROVE  Moved(t)
<1> DEFINE obj == [uid |-> 0, rv |-> 1, labels |-> labels]
           r == NewRequest("update", k, dry, obj)
<1>1. calls' \in Nat /\ UNCHANGED <<db, log, writes, storageVars>>
  BY DEF StoredInv, CountsOK, CpolrUpdate, Accept
<1>2. obj \in Report
  BY DEF Report
<1>3. r \in Request /\ r.obj \in Report
  BY <1>2, NewRequestType DEF AllVerbs, CpolrKeys
<1> HIDE DEF r
<1>4. ASSUME NEW answer \in {"missing", "rejected", "ok"}, Reply(t, answer)
      PROVE  Moved(t)
  BY <1>1, <1>4, UnstoredReply DEF StoredOutcomes, Outcomes
<1>5. CASE Continue(t, "recreate", r)
  <2>1. "recreate" \in StoredStages
    BY DEF StoredStages
  <2>2. /\ ThreadFuns' /\ OthersStay(t)
        /\ pc'[t] = "recreate" /\ req'[t] = r /\ todo'[t] = todo[t]
    BY <1>3, <1>5, <2>1, ContinueMove DEF StoredInv
  <2>3. ThreadInv(t)'
    BY <1>3, <2>2 DEF StoredInv, ThreadInv
  <2>4. QED
    BY <1>1, <2>2, <2>3, RowsStay DEF StoredInv, CountsOK, Moved
<1>6. QED
  BY <1>4, <1>5 DEF CpolrUpdate, r

LEMMA ApplyGetMoves ==
    ASSUME StoredInv, NEW t \in Threads, NEW k \in Keys, NEW labels \in LabelMaps,
           NEW dry \in BOOLEAN, ApplyGet(t, k, labels, dry), UNCHANGED storageVars
    PROVE  Moved(t)
<1> DEFINE obj == [uid |-> IF Found(k) THEN db[k].uid ELSE 0, rv |-> 1, labels |-> labels]
           r == NewRequest("apply", k, dry, obj)
<1>1. calls' \in Nat /\ UNCHANGED <<db, log, writes, storageVars>>
  BY DEF StoredInv, CountsOK, ApplyGet, Accept
<1>2. (IF Found(k) THEN db[k].uid ELSE 0) \in Nat
  BY FoundIsReport DEF StoredInv, RowsOK, Report
<1>3. obj \in Report /\ obj.rv = 1
  BY <1>2 DEF Report
<1>4. r \in Request /\ r.obj \in Report /\ r.obj.rv = 1
  BY <1>3, NewRequestType DEF AllVerbs
<1> HIDE DEF r
<1>5. CASE Reply(t, "rejected")
  BY <1>1, <1>5, UnstoredReply DEF StoredOutcomes, Outcomes
<1>6. CASE Continue(t, "apply", r)
  <2>1. "apply" \in StoredStages
    BY DEF StoredStages, Stages
  <2>2. /\ ThreadFuns' /\ OthersStay(t)
        /\ pc'[t] = "apply" /\ req'[t] = r /\ todo'[t] = todo[t]
    BY <1>4, <1>6, <2>1, ContinueMove DEF StoredInv
  <2>3. ThreadInv(t)'
    BY <1>4, <2>2 DEF StoredInv, ThreadInv
  <2>4. QED
    BY <1>1, <2>2, <2>3, RowsStay DEF StoredInv, CountsOK, Moved
<1>7. QED
  BY <1>5, <1>6 DEF ApplyGet, r

LEMMA UpdateRereadMoves ==
    ASSUME StoredInv, NEW t \in Threads, UpdateReread(t), UNCHANGED storageVars
    PROVE  Moved(t)
<1> DEFINE r == [req[t] EXCEPT !.obj.rv = db[req[t].key].rv + 1]
<1>1. UNCHANGED <<db, log, writes, calls, storageVars>>
  BY DEF UpdateReread
<1>2. CASE Reply(t, "missing")
  BY <1>1, <1>2, UnstoredReply DEF StoredInv, CountsOK, StoredOutcomes, Outcomes
<1>3. CASE Found(req[t].key) /\ Continue(t, "update", r)
  <2>1. req[t] \in Request /\ req[t].obj \in Report /\ req[t].key \in Keys
    BY DEF StoredInv, ThreadInv, UpdateReread, Request
  <2>2. db[req[t].key].rv \in Nat
    BY <1>3, <2>1, FoundIsReport DEF StoredInv, RowsOK, Report
  <2>3. /\ r \in Request /\ r.obj \in Report
        /\ r.obj.rv = db[req[t].key].rv + 1 /\ r.key = req[t].key
    BY <2>1, <2>2 DEF Request, Report
  <2> HIDE DEF r
  <2>4. "update" \in StoredStages
    BY DEF StoredStages, Stages
  <2>5. /\ ThreadFuns' /\ OthersStay(t)
        /\ pc'[t] = "update" /\ req'[t] = r /\ todo'[t] = todo[t]
    BY <1>3, <2>3, <2>4, ContinueMove DEF StoredInv
  <2>6. r.obj.rv >= 1 /\ (~debug => r.obj.rv <= modified[r.key])
    BY <1>3, <2>1, <2>2, <2>3, RevisionAssumption DEF StoredInv, RowsOK
  <2>7. ThreadInv(t)'
    BY <1>1, <2>3, <2>5, <2>6 DEF StoredInv, ThreadInv, storageVars
  <2>8. QED
    BY <1>1, <2>5, <2>7, RowsStay DEF StoredInv, CountsOK, Moved
<1>4. QED
  BY <1>2, <1>3 DEF UpdateReread

LEMMA UpdateCallMoves ==
    ASSUME StoredInv, NEW t \in Threads, UpdateCall(t)
    PROVE  Moved(t)
<1>1. UNCHANGED <<log, calls>>
  BY DEF UpdateCall
<1>2. /\ req[t] \in Request /\ req[t].obj \in Report /\ req[t].key \in Keys
      /\ req[t].obj.rv \in Nat /\ req[t].obj.rv >= 1
  BY DEF StoredInv, ThreadInv, UpdateCall, Request, Report
<1>3. PICK err \in StoreErrors :
          /\ StoreUpdate(req[t].key, req[t].obj.rv, req[t].obj, err)
          /\ AfterCall(t, req[t], err)
  BY DEF UpdateCall
<1>4. ~debug /\ modified[req[t].key] = req[t].obj.rv => req[t].obj.rv = db[req[t].key].rv + 1
  BY DEF StoredInv, ThreadInv, UpdateCall
<1>5. RowsStep
  BY <1>2, <1>3, <1>4, StoreUpdateRows DEF StoredInv
<1>6. QED
  BY <1>1, <1>2, <1>3, <1>5, AfterCallMove DEF StoredInv, CountsOK

LEMMA ApplyCallMoves ==
    ASSUME StoredInv, NEW t \in Threads, ApplyCall(t)
    PROVE  Moved(t)
<1>1. UNCHANGED <<log, calls>>
  BY DEF ApplyCall
<1>2. /\ req[t] \in Request /\ req[t].obj \in Report /\ req[t].key \in Keys
      /\ req[t].obj.rv >= 1
  BY DEF StoredInv, ThreadInv, ApplyCall, Request
<1>3. PICK err \in StoreErrors :
          /\ StoreUpdate(req[t].key, 1, req[t].obj, err)
          /\ IF err = "none" THEN Written(t, req[t])
                             ELSE Continue(t, "announce", req[t]) /\ UNCHANGED writes
  BY DEF ApplyCall
<1>4. RowsStep
  BY <1>2, <1>3, ForcedUpdateRows DEF StoredInv
<1>5. CASE err = "none"
  BY <1>1, <1>2, <1>3, <1>4, <1>5, WrittenMove DEF StoredInv, CountsOK, Moved
<1>6. CASE err # "none"
  <2>1. "announce" \in StoredStages
    BY DEF StoredStages, Stages
  <2>2. /\ ThreadFuns' /\ OthersStay(t)
        /\ pc'[t] = "announce" /\ req'[t] = req[t] /\ todo'[t] = todo[t]
    BY <1>2, <1>3, <1>6, <2>1, ContinueMove DEF StoredInv
  <2>3. ThreadInv(t)'
    BY <1>2, <2>2 DEF StoredInv, ThreadInv
  <2>4. QED
    BY <1>1, <1>3, <1>4, <1>6, <2>2, <2>3 DEF StoredInv, CountsOK, Moved
<1>7. QED
  BY <1>5, <1>6

LEMMA DeleteCallMoves ==
    ASSUME StoredInv, NEW t \in Threads, DeleteCall(t)
    PROVE  Moved(t)
<1>1. UNCHANGED <<log, calls>>
  BY DEF DeleteCall
<1>2. /\ req[t] \in Request /\ req[t].key \in Keys /\ req[t].obj.rv \in Nat
      /\ ~debug => req[t].obj.rv < modified[req[t].key]
  BY DEF StoredInv, ThreadInv, DeleteCall, Request, Report
<1>3. PICK err \in StoreErrors :
          StoreDelete(req[t].key, req[t].obj.rv, err) /\ AfterCall(t, req[t], err)
  BY DEF DeleteCall
<1>4. RowsStep
  BY <1>2, <1>3, StoreDeleteRows DEF StoredInv
<1>5. QED
  BY <1>1, <1>2, <1>3, <1>4, AfterCallMove DEF StoredInv, CountsOK

LEMMA CpolrUpdateCallMoves ==
    ASSUME StoredInv, NEW t \in Threads, CpolrUpdateCall(t)
    PROVE  Moved(t)
<1> DEFINE r == [req[t] EXCEPT !.obj = CreatedReport(req[t].obj.labels)]
<1>1. UNCHANGED <<log, calls>>
  BY DEF CpolrUpdateCall
<1>2. req[t] \in Request /\ req[t].obj \in Report /\ req[t].key \in Keys
  BY DEF StoredInv, ThreadInv, CpolrUpdateCall, Request
<1>3. r \in Request /\ r.obj \in Report /\ r.obj.rv = 1 /\ r.key = req[t].key
  BY <1>2, CreatedReportType DEF StoredInv, CountsOK, Request, Report
<1> HIDE DEF r
<1>4. PICK err \in StoreErrors : CreateCpolr(r.key, r.obj, err) /\ AfterCall(t, r, err)
  BY DEF CpolrUpdateCall, r
<1>5. RowsStep
  BY <1>2, <1>3, <1>4, ForcedUpdateRows DEF StoredInv, CreateCpolr
<1>6. QED
  BY <1>1, <1>3, <1>4, <1>5, AfterCallMove DEF StoredInv, CountsOK

LEMMA FindForDeleteMoves ==
    ASSUME StoredInv, NEW t \in Threads, NEW r \in Request, FindForDelete(t, r),
           UNCHANGED <<db, log, writes, storageVars>>, calls' \in Nat
    PROVE  Moved(t)
<1> DEFINE s == [r EXCEPT !.obj = db[r.key]]
<1>1. ASSUME NEW answer \in {"missing", "rejected", "ok"}, Reply(t, answer)
      PROVE  Moved(t)
  BY <1>1, UnstoredReply DEF StoredOutcomes, Outcomes
<1>2. CASE Found(r.key) /\ Continue(t, "delete", s)
  <2>1. r.key \in Keys
    BY DEF Request
  <2>2. db[r.key] \in Report /\ db[r.key].rv \in Nat
    BY <1>2, <2>1, FoundIsReport DEF StoredInv, RowsOK, Report
  <2>3. s \in Request /\ s.obj = db[r.key] /\ s.key = r.key
    BY <2>2 DEF Request
  <2> HIDE DEF s
  <2>4. "delete" \in StoredStages
    BY DEF StoredStages, Stages
  <2>5. /\ ThreadFuns' /\ OthersStay(t)
        /\ pc'[t] = "delete" /\ req'[t] = s /\ todo'[t] = todo[t]
    BY <1>2, <2>3, <2>4, ContinueMove DEF StoredInv
  <2>6. ~debug => s.obj.rv < modified[s.key]
    BY <1>2, <2>1, <2>2, <2>3, RevisionAssumption DEF StoredInv, RowsOK
  <2>7. ThreadInv(t)'
    BY <2>2, <2>3, <2>5, <2>6 DEF StoredInv, ThreadInv, storageVars
  <2>8. QED
    BY <2>5, <2>7, RowsStay DEF StoredInv, CountsOK, Moved
<1>3. QED
  BY <1>1, <1>2 DEF FindForDelete, s

LEMMA CollectionListMoves ==
    ASSUME StoredInv, NEW t \in Threads, NEW ns, NEW selector, NEW dry \in BOOLEAN,
           CollectionList(t, ns, selector, dry), UNCHANGED storageVars
    PROVE  Moved(t)
<1>1. calls' \in Nat /\ UNCHANGED <<db, log, writes, storageVars>>
  BY DEF StoredInv, CountsOK, CollectionList, Accept
<1>2. PICK order \in Orders({k \in KeysOf(ns) : Found(k)}) :
          LET kept == Kept([i \in DOMAIN order |-> db[order[i]].labels], selector)
          IN  IF dry \/ kept = {} THEN Reply(t, "ok")
                                  ELSE NextItem(t, [i \in kept |-> order[i]])
  BY DEF CollectionList
<1> DEFINE kept == Kept([i \in DOMAIN order |-> db[order[i]].labels], selector)
<1>3. kept \subseteq DOMAIN order
  BY DEF Kept
<1> HIDE DEF kept
<1>4. CASE Reply(t, "ok")
  BY <1>1, <1>4, UnstoredReply DEF StoredOutcomes, Outcomes
<1>5. CASE NextItem(t, [i \in kept |-> order[i]])
  <2>1. \A i \in kept : [j \in kept |-> order[j]][i] \in Keys
    BY <1>3 DEF Orders, KeysOf
  <2>2. QED
    BY <1>1, <1>5, <2>1, NextItemMove, RowsStay DEF StoredInv, CountsOK, Moved
<1>6. QED
  BY <1>2, <1>4, <1>5 DEF kept

LEMMA AnnounceMoves ==
    ASSUME StoredInv, NEW t \in Threads, Announce(t) \/ AnnounceAgain(t), UNCHANGED storageVars
    PROVE  Moved(t)
<1>1. UNCHANGED <<db, writes, calls, storageVars>>
  BY DEF Announce, AnnounceAgain
<1>2. req[t] \in Request /\ \A i \in DOMAIN todo[t] : todo[t][i] \in Keys
  BY DEF StoredInv, ThreadInv, Announce, AnnounceAgain
<1>3. log' \in Seq(Event)
  <2>1. EventOf(req[t], FALSE) \in Event /\ EventOf(req[t], TRUE) \in Event
    BY <1>2, EventsHaveType
  <2>2. QED
    BY <2>1, AppendEvent DEF StoredInv, CountsOK, Announce, AnnounceAgain
<1>4. RowsStep /\ CountsOK'
  BY <1>1, <1>3, RowsStay DEF StoredInv, CountsOK
<1>5. CASE Reply(t, "ok")
  BY <1>4, <1>5, ReplyMove DEF StoredInv, Moved, StoredOutcomes, Outcomes
<1>6. CASE NextItem(t, todo[t])
  BY <1>2, <1>4, <1>6, NextItemMove DEF StoredInv, Moved
<1>7. CASE Continue(t, "announceAgain", req[t])
  <2>1. "announceAgain" \in StoredStages
    BY DEF StoredStages, Stages
  <2>2. /\ ThreadFuns' /\ OthersStay(t)
        /\ pc'[t] = "announceAgain" /\ req'[t] = req[t] /\ todo'[t] = todo[t]
    BY <1>2, <1>7, <2>1, ContinueMove DEF StoredInv
  <2>3. ThreadInv(t)'
    BY <1>2, <2>2 DEF ThreadInv
  <2>4. QED
    BY <1>4, <2>2, <2>3 DEF Moved
<1>8. QED
  BY <1>5, <1>6, <1>7 DEF Announce, AnnounceAgain

-----------------------------------------------------------------------------
(* The specification.                                                      *)

(* What a thread knows survives the steps of others, since rows only grow. *)
LEMMA OthersKeep ==
    ASSUME StoredInv, NEW t \in Threads, Moved(t)
    PROVE  StoredInv'
<1>1. ASSUME NEW u \in Threads PROVE ThreadInv(u)'
  <2>1. CASE u = t
    BY <2>1 DEF Moved
  <2>2. CASE u # t
    <3>1. pc'[u] = pc[u] /\ req'[u] = req[u] /\ todo'[u] = todo[u] /\ debug' = debug
      BY <2>2 DEF Moved, OthersStay, RowsStep, Grown
    <3>2. ThreadInv(u)
      BY DEF StoredInv
    <3>3. pc[u] \in {"update", "delete"} =>
              req[u].key \in Keys /\ req[u].obj \in Report /\ req[u].obj.rv \in Nat
      BY <3>2 DEF ThreadInv, Request, Report
    <3>4. \A k \in Keys : modified[k] \in Nat /\ modified'[k] \in Nat
      BY DEF StoredInv, RowsOK, Moved, RowsStep
    <3>5. ~debug => \A k \in Keys :
              modified[k] <= modified'[k] /\ (modified[k] = modified'[k] => db'[k] = db[k])
      BY DEF Moved, RowsStep, Grown
    <3>6. pc[u] = "update" /\ ~debug =>
              /\ req[u].obj.rv <= modified'[req[u].key]
              /\ req[u].obj.rv = modified'[req[u].key] => req[u].obj.rv = db'[req[u].key].rv + 1
      BY <3>2, <3>3, <3>4, <3>5 DEF ThreadInv
    <3>7. pc[u] = "delete" /\ ~debug => req[u].obj.rv < modified'[req[u].key]
      BY <3>2, <3>3, <3>4, <3>5 DEF ThreadInv
    <3>8. QED
      BY <3>1, <3>2, <3>6, <3>7 DEF ThreadInv
  <2>3. QED
    BY <2>1, <2>2
<1>2. QED
  BY <1>1 DEF StoredInv, Moved, RowsStep

LEMMA CommonRequestsMove ==
    ASSUME StoredInv, NEW t \in Threads, NEW ks \in SUBSET Keys, CommonRequests(t, ks)
    PROVE  Moved(t)
<1>1. ASSUME NEW k \in ks, NEW dry \in BOOLEAN, DeleteGet(t, k, dry), UNCHANGED storageVars
      PROVE  Moved(t)
  <2>1. NewRequest("delete", k, dry, NoReport) \in Request
    BY NewRequestType DEF AllVerbs
  <2>2. calls' \in Nat
    BY <1>1 DEF StoredInv, CountsOK, DeleteGet, Accept
  <2>3. QED
    BY <1>1, <2>1, <2>2, FindForDeleteMoves DEF DeleteGet
<1>2. QED
  BY <1>1, ApplyGetMoves, CollectionListMoves DEF CommonRequests

LEMMA CommonCallsMove ==
    ASSUME StoredInv, NEW t \in Threads, CommonCalls(t)
    PROVE  Moved(t)
<1>1. CASE CollectionItem(t) /\ UNCHANGED storageVars
  <2>1. req[t] \in Request
    BY <1>1 DEF StoredInv, ThreadInv, CollectionItem
  <2>2. QED
    BY <1>1, <2>1, FindForDeleteMoves DEF StoredInv, CountsOK, CollectionItem
<1>2. QED
  BY <1>1, ApplyCallMoves, DeleteCallMoves, AnnounceMoves DEF CommonCalls

LEMMA ServeMoves ==
    ASSUME StoredInv, NEW t \in Threads, ServePolr(t) \/ ServeCpolr(t)
    PROVE  Moved(t)
<1>1. PolrKeys \in SUBSET Keys /\ CpolrKeys \in SUBSET Keys
  BY DEF PolrKeys, CpolrKeys
<1>2. CASE PolrRequests(t, PolrKeys)
  BY <1>1, <1>2, PolrCreateMoves, UpdateGetMoves, CommonRequestsMove DEF PolrRequests
<1>3. CASE CpolrRequests(t, CpolrKeys)
  BY <1>1, <1>3, CpolrCreateMoves, CpolrUpdateMoves, CommonRequestsMove DEF CpolrRequests
<1>4. CASE PolrCalls(t)
  BY <1>4, UpdateRereadMoves, UpdateCallMoves, CommonCallsMove DEF PolrCalls
<1>5. CASE CpolrCalls(t)
  BY <1>5, CpolrUpdateCallMoves, CommonCallsMove DEF CpolrCalls
<1>6. QED
  BY <1>2, <1>3, <1>4, <1>5 DEF ServePolr, ServeCpolr

LEMMA InitStored == StoredInit => StoredInv
<1> SUFFICES ASSUME StoredInit PROVE StoredInv
  OBVIOUS
<1>1. ThreadFuns /\ CountsOK
  BY DEF StoredInit, Init, ThreadFuns, CountsOK, StoredStages, Stages, StoredOutcomes, Outcomes
<1>2. RowsOK
  BY DebugAssumption, RevisionAssumption
  DEF StoredInit, StorageInit, Init, DbInit, RowsOK, Found
<1>3. \A t \in Threads : ThreadInv(t)
  BY DEF StoredInit, Init, ThreadInv, NoKeys
<1>4. QED
  BY <1>1, <1>2, <1>3 DEF StoredInv

\* A step of a request, or none.
StoredStep == (\E t \in Threads : Moved(t)) \/ UNCHANGED storedVars

LEMMA NextIsStep == StoredInv /\ [StoredNext]_storedVars => StoredStep
  BY ServeMoves DEF StoredNext, StoredQuiet, Quiet, StoredStep, storedVars

LEMMA NextKeepsStored == StoredInv /\ [StoredNext]_storedVars => StoredInv'
<1> SUFFICES ASSUME StoredInv, StoredStep PROVE StoredInv'
  BY NextIsStep
<1>1. ASSUME NEW t \in Threads, Moved(t) PROVE StoredInv'
  BY <1>1, OthersKeep
<1>2. CASE UNCHANGED storedVars
  BY <1>2 DEF storedVars, storageVars, vars, StoredInv, ThreadFuns, RowsOK, CountsOK,
              ThreadInv, Found
<1>3. QED
  BY <1>1, <1>2 DEF StoredStep

LEMMA StoredInvariant == StoredSpec => []StoredInv
  BY InitStored, NextKeepsStored, PTL DEF StoredSpec

(* Each step that may take place does to the rows what RowsStep allows.    *)
LEMMA NextStepsRows == StoredInv /\ [StoredNext]_storedVars => RowsStep \/ UNCHANGED storedVars
  BY NextIsStep DEF StoredStep, Moved

-----------------------------------------------------------------------------
(* Types, over both stores and both kinds of report, and what every stage  *)
(* of a request knows of the report it works on.                           *)
THEOREM StoredTypeCorrect == StoredSpec => []StoredTypeOK
<1>1. StoredInv => StoredTypeOK
  BY DEF StoredInv, ThreadFuns, RowsOK, CountsOK, ThreadInv, StoredTypeOK
<1>2. QED
  BY <1>1, StoredInvariant, PTL

(* The version of a report in kine is behind the revision of its row, and  *)
(* so is the one any deletion under way will pass.                         *)
THEOREM VersionsStayBehind == StoredSpec => []VersionsLagBehind
<1>1. StoredInv => VersionsLagBehind
  <2> SUFFICES ASSUME StoredInv, ~debug PROVE VersionsLagBehind
    BY DEF VersionsLagBehind
  <2>1. ASSUME NEW k \in Keys, Found(k) PROVE db[k].rv < modified[k]
    <3>1. db[k].rv \in Nat
      BY <2>1, FoundIsReport DEF StoredInv, RowsOK, Report
    <3>2. QED
      BY <2>1, <3>1, RevisionAssumption DEF StoredInv, RowsOK
  <2>2. ASSUME NEW t \in Threads, pc[t] = "delete" PROVE req[t].obj.rv < modified[req[t].key]
    BY <2>2 DEF StoredInv, ThreadInv
  <2>3. QED
    BY <2>1, <2>2 DEF VersionsLagBehind
<1>2. QED
  BY <1>1, StoredInvariant, PTL

(* No request removes a report from kine, whatever the interleaving and    *)
(* wherever its database starts to count.                                  *)
THEOREM KineKeepsReports == StoredSpec => KineReportsNeverVanish
<1>1. StoredInv /\ StoredInv' /\ [StoredNext]_storedVars =>
          [~debug => \A k \in Keys : ~Vanishes(k)]_storedVars
  <2> SUFFICES ASSUME StoredInv, StoredInv', RowsStep, ~debug, NEW k \in Keys, Vanishes(k)
               PROVE  FALSE
    BY NextStepsRows
  <2>1. modified'[k] = 0
    BY DEF StoredInv, RowsOK, RowsStep, Grown, Vanishes, Found
  <2>2. db[k].rv \in Nat /\ modified[k] > 0
    BY FoundIsReport, RevisionAssumption DEF StoredInv, RowsOK, Report, Vanishes
  <2>3. QED
    BY <2>1, <2>2 DEF RowsStep, Grown, StoredInv, RowsOK
<1>2. QED
  BY <1>1, StoredInvariant, PTL DEF StoredSpec, KineReportsNeverVanish

(* An update that kine takes follows the report it was made from.          *)
THEOREM KineUpdatesAreSerial == StoredSpec => KineUpdatesFollow
<1>1. StoredInv /\ [StoredNext]_storedVars =>
          [\A k \in Keys : ~debug /\ Changes(k) => db'[k].rv = db[k].rv + 1]_storedVars
  BY NextStepsRows DEF RowsStep
<1>2. QED
  BY <1>1, StoredInvariant, PTL DEF StoredSpec, KineUpdatesFollow

(* A database that has counted anything before the first report takes no   *)
(* update at all: the report's version and the row's revision never meet.  *)
THEOREM KineFreezesReports ==
    ASSUME FirstRevision >= 2
    PROVE  StoredSpec => KineReportsNeverChange
<1>1. FirstRevision # 1
  BY RevisionAssumption
<1>2. StoredInv /\ [StoredNext]_storedVars =>
          [~debug => \A k \in Keys : ~Changes(k)]_storedVars
  BY <1>1, NextStepsRows DEF RowsStep
<1>3. QED
  BY <1>2, StoredInvariant, PTL DEF StoredSpec, KineReportsNeverChange

(* No request stores a cluster report, in either store.                    *)
THEOREM ClusterReportsStayAway == StoredSpec => ClusterReportsNeverAppear
<1>1. StoredInv /\ [StoredNext]_storedVars => [\A k \in CpolrKeys : ~Appears(k)]_storedVars
  BY NextStepsRows DEF RowsStep
<1>2. QED
  BY <1>1, StoredInvariant, PTL DEF StoredSpec, ClusterReportsNeverAppear

-----------------------------------------------------------------------------
(* Cluster reports: as none is ever found, no request on one gets past its *)
(* first step, unless the API server builds an object for an apply.        *)

SilentThread(t) ==
    /\ pc[t] # "idle" => req[t].key \notin CpolrKeys
    /\ \A i \in DOMAIN todo[t] : todo[t][i] \notin CpolrKeys

SilentInv ==
    /\ \A k \in CpolrKeys : ~Found(k)
    /\ \A t \in Threads : SilentThread(t)
    /\ ClusterEventsNeverSent

LEMMA SilentReply ==
    ASSUME StoredInv, NEW t \in Threads, NEW outcome, Reply(t, outcome)
    PROVE  SilentThread(t)'
  BY DEF StoredInv, ThreadFuns, Reply, NoKeys, SilentThread

LEMMA SilentContinue ==
    ASSUME StoredInv, SilentInv, NEW t \in Threads, NEW stage \in StoredStages, NEW r \in Request,
           r.key \notin CpolrKeys, Continue(t, stage, r)
    PROVE  SilentThread(t)'
<1>1. pc'[t] = stage /\ req'[t] = r /\ todo'[t] = todo[t]
  BY ContinueMove DEF StoredInv
<1>2. CpolrKeys' = CpolrKeys
  BY DEF CpolrKeys
<1>3. QED
  BY <1>1, <1>2 DEF SilentInv, SilentThread

LEMMA SilentWritten ==
    ASSUME StoredInv, SilentInv, NEW t \in Threads, NEW r \in Request, r.key \notin CpolrKeys,
           Written(t, r)
    PROVE  SilentThread(t)'
<1> DEFINE s == [r EXCEPT !.seq = writes + 1]
<1>1. s \in Request /\ s.key = r.key
  BY DEF Request, StoredInv, CountsOK
<1>2. "announce" \in StoredStages
  BY DEF StoredStages, Stages
<1> HIDE DEF s
<1>3. QED
  BY <1>1, <1>2, SilentContinue DEF Written, s

LEMMA SilentNextItem ==
    ASSUME StoredInv, NEW t \in Threads, NEW items,
           \A i \in DOMAIN items : items[i] \in Keys \ CpolrKeys, NextItem(t, items)
    PROVE  SilentThread(t)'
<1>1. PICK i \in DOMAIN items :
          /\ req' = [req EXCEPT ![t] = NewRequest("deletecollection", items[i], FALSE, NoReport)]
          /\ todo' = [todo EXCEPT ![t] = [j \in DOMAIN items \ {i} |-> items[j]]]
  BY DEF NextItem
<1>2. req'[t].key = items[i]
  BY <1>1 DEF StoredInv, ThreadFuns, NewRequest
<1>3. \A j \in DOMAIN todo'[t] : todo'[t][j] \notin CpolrKeys
  BY <1>1 DEF StoredInv, ThreadFuns
<1>4. CpolrKeys' = CpolrKeys
  BY DEF CpolrKeys
<1>5. QED
  BY <1>2, <1>3, <1>4 DEF SilentThread

(* Neither store updates a row that is not there to revision 1.            *)
LEMMA AbsentIsNotUpdated ==
    ASSUME StoredInv, NEW k \in Keys, ~Found(k), NEW v, NEW err, StoreUpdate(k, 1, v, err)
    PROVE  err # "none"
<1>1. ~debug => modified[k] = 0
  BY DEF StoredInv, RowsOK
<1>2. QED
  BY <1>1 DEF StoreUpdate, DbUpdate, KineUpdate

LEMMA SilentAfterCall ==
    ASSUME StoredInv, SilentInv, NEW t \in Threads, NEW r \in Request, NEW err,
           r.key \in CpolrKeys => err # "none", AfterCall(t, r, err)
    PROVE  SilentThread(t)'
  BY SilentReply, SilentWritten DEF AfterCall

LEMMA SilentFindForDelete ==
    ASSUME StoredInv, SilentInv, NEW t \in Threads, NEW r \in Request, FindForDelete(t, r)
    PROVE  SilentThread(t)'
<1> DEFINE s == [r EXCEPT !.obj = db[r.key]]
<1>1. CASE Found(r.key) /\ Continue(t, "delete", s)
  <2>1. s \in Request /\ s.key = r.key /\ r.key \notin CpolrKeys
    BY <1>1, FoundIsReport DEF Request, StoredInv, RowsOK, SilentInv
  <2> HIDE DEF s
  <2>2. "delete" \in StoredStages
    BY DEF StoredStages, Stages
  <2>3. QED
    BY <1>1, <2>1, <2>2, SilentContinue
<1>2. QED
  BY <1>1, SilentReply DEF FindForDelete

-----------------------------------------------------------------------------
(* Cluster reports: the handlers.                                          *)

LEMMA SilentPolrRequests ==
    ASSUME StoredInv, SilentInv, NEW t \in Threads, NEW k \in PolrKeys, NEW labels \in LabelMaps,
           NEW dry \in BOOLEAN,
           PolrCreate(t, k, labels, dry) \/ \E uid \in 0..writes : UpdateGet(t, k, labels, uid, dry)
    PROVE  SilentThread(t)'
<1>1. k \in Keys /\ k \notin CpolrKeys
  BY DEF PolrKeys, CpolrKeys
<1>2. CASE PolrCreate(t, k, labels, dry)
  <2> DEFINE r == NewRequest("create", k, dry, CreatedReport(labels))
  <2>1. r \in Request /\ r.key \notin CpolrKeys
    BY <1>1, CreatedReportType, NewRequestType DEF StoredInv, CountsOK, AllVerbs
  <2> HIDE DEF r
  <2>2. ASSUME NEW err \in StoreErrors, AfterCall(t, r, err) PROVE SilentThread(t)'
    BY <2>1, <2>2, SilentAfterCall
  <2>3. QED
    BY <1>2, <2>2, SilentReply DEF PolrCreate, r
<1>3. ASSUME NEW uid \in 0..writes, UpdateGet(t, k, labels, uid, dry) PROVE SilentThread(t)'
  <2> DEFINE obj == [uid |-> uid, rv |-> 0, labels |-> labels]
             r == NewRequest("update", k, dry, obj)
  <2>1. obj \in Report
    BY DEF StoredInv, CountsOK, Report
  <2>2. r \in Request /\ r.key \notin CpolrKeys
    BY <1>1, <2>1, NewRequestType DEF AllVerbs
  <2> HIDE DEF r
  <2>3. "reread" \in StoredStages
    BY DEF StoredStages, Stages
  <2>4. CASE Continue(t, "reread", r)
    BY <2>2, <2>3, <2>4, SilentContinue
  <2>5. QED
    BY <1>3, <2>4, SilentReply DEF UpdateGet, r
<1>4. QED
  BY <1>2, <1>3

LEMMA SilentCpolrRequests ==
    ASSUME StoredInv, SilentInv, NEW t \in Threads, NEW k \in CpolrKeys, NEW labels \in LabelMaps,
           NEW dry \in BOOLEAN, CpolrCreate(t, k, labels, dry) \/ CpolrUpdate(t, k, labels, dry)
    PROVE  SilentThread(t)'
<1>1. k \in Keys /\ ~Found(k)
  BY DEF CpolrKeys, SilentInv
<1>2. CASE CpolrCreate(t, k, labels, dry)
  <2> DEFINE r == NewRequest("create", k, dry, CreatedReport(labels))
  <2>1. r \in Request
    BY <1>1, CreatedReportType, NewRequestType DEF StoredInv, CountsOK, AllVerbs
  <2> HIDE DEF r
  <2>2. ASSUME NEW err \in StoreErrors, CreateCpolr(k, r.obj, err), AfterCall(t, r, err)
        PROVE  SilentThread(t)'
    BY <1>1, <2>1, <2>2, AbsentIsNotUpdated, SilentAfterCall DEF CreateCpolr
  <2>3. QED
    BY <1>2, <2>2, SilentReply DEF CpolrCreate, r
<1>3. CASE CpolrUpdate(t, k, labels, dry)
  BY <1>1, <1>3, SilentReply DEF CpolrUpdate
<1>4. QED
  BY <1>2, <1>3

LEMMA SilentCommonRequests ==
    ASSUME ~ApplyCreates, StoredInv, SilentInv, NEW t \in Threads, NEW ks \in SUBSET Keys,
           CommonRequests(t, ks)
    PROVE  SilentThread(t)'
<1>1. ASSUME NEW k \in ks, NEW labels \in LabelMaps, NEW dry \in BOOLEAN, ApplyGet(t, k, labels, dry)
      PROVE  SilentThread(t)'
  <2> DEFINE obj == [uid |-> IF Found(k) THEN db[k].uid ELSE 0, rv |-> 1, labels |-> labels]
             r == NewRequest("apply", k, dry, obj)
  <2>1. (IF Found(k) THEN db[k].uid ELSE 0) \in Nat
    BY FoundIsReport DEF StoredInv, RowsOK, Report
  <2>2. obj \in Report
    BY <2>1 DEF Report
  <2>3. r \in Request /\ r.key = k
    BY <2>2, NewRequestType DEF AllVerbs
  <2> HIDE DEF r
  <2>4. "apply" \in StoredStages
    BY DEF StoredStages, Stages
  <2>5. CASE Found(k) /\ Continue(t, "apply", r)
    <3>1. r.key \notin CpolrKeys
      BY <2>3, <2>5 DEF SilentInv
    <3>2. QED
      BY <2>3, <2>4, <2>5, <3>1, SilentContinue
  <2>6. QED
    BY <1>1, <2>5, SilentReply DEF ApplyGet, r
<1>2. ASSUME NEW k \in ks, NEW dry \in BOOLEAN, DeleteGet(t, k, dry) PROVE SilentThread(t)'
  <2>1. NewRequest("delete", k, dry, NoReport) \in Request
    BY NewRequestType DEF AllVerbs
  <2>2. QED
    BY <1>2, <2>1, SilentFindForDelete DEF DeleteGet
<1>3. ASSUME NEW ns, NEW selector, NEW dry, CollectionList(t, ns, selector, dry)
      PROVE  SilentThread(t)'
  <2>1. PICK order \in Orders({k \in KeysOf(ns) : Found(k)}) :
            LET kept == Kept([i \in DOMAIN order |-> db[order[i]].labels], selector)
            IN  IF dry \/ kept = {} THEN Reply(t, "ok")
                                    ELSE NextItem(t, [i \in kept |-> order[i]])
    BY <1>3 DEF CollectionList
  <2> DEFINE kept == Kept([i \in DOMAIN order |-> db[order[i]].labels], selector)
  <2>2. kept \subseteq DOMAIN order
    BY DEF Kept
  <2> HIDE DEF kept
  <2>3. \A i \in kept : [j \in kept |-> order[j]][i] \in Keys \ CpolrKeys
    BY <2>2 DEF Orders, KeysOf, SilentInv
  <2>4. CASE NextItem(t, [i \in kept |-> order[i]])
    BY <2>3, <2>4, SilentNextItem
  <2>5. QED
    BY <2>1, <2>4, SilentReply DEF kept
<1>4. QED
  BY <1>1, <1>2, <1>3 DEF CommonRequests

LEMMA SilentCalls ==
    ASSUME StoredInv, SilentInv, NEW t \in Threads,
           \/ UpdateReread(t) \/ UpdateCall(t) \/ DeleteCall(t) \/ ApplyCall(t)
           \/ CpolrUpdateCall(t) \/ CollectionItem(t)
    PROVE  SilentThread(t)'
<1>1. req[t] \in Request /\ req[t].key \notin CpolrKeys /\ req[t].key \in Keys
  BY DEF StoredInv, ThreadInv, Request, SilentInv, SilentThread,
         UpdateReread, UpdateCall, DeleteCall, ApplyCall, CpolrUpdateCall, CollectionItem
<1>2. CASE UpdateReread(t)
  <2> DEFINE r == [req[t] EXCEPT !.obj.rv = db[req[t].key].rv + 1]
  <2>1. CASE Found(req[t].key) /\ Continue(t, "update", r)
    <3>1. req[t].obj \in Report
      BY <1>2 DEF StoredInv, ThreadInv, UpdateReread
    <3>2. db[req[t].key].rv \in Nat
      BY <1>1, <2>1, FoundIsReport DEF StoredInv, RowsOK, Report
    <3>3. r \in Request /\ r.key = req[t].key
      BY <1>1, <3>1, <3>2 DEF Request, Report
    <3> HIDE DEF r
    <3>4. "update" \in StoredStages
      BY DEF StoredStages, Stages
    <3>5. QED
      BY <1>1, <2>1, <3>3, <3>4, SilentContinue
  <2>2. QED
    BY <1>2, <2>1, SilentReply DEF UpdateReread
<1>3. CASE UpdateCall(t) \/ DeleteCall(t)
  BY <1>1, <1>3, SilentAfterCall DEF UpdateCall, DeleteCall
<1>4. CASE CpolrUpdateCall(t)
  <2> DEFINE r == [req[t] EXCEPT !.obj = CreatedReport(req[t].obj.labels)]
  <2>1. req[t].obj \in Report
    BY <1>4 DEF StoredInv, ThreadInv, CpolrUpdateCall
  <2>2. r \in Request /\ r.key = req[t].key
    BY <1>1, <2>1, CreatedReportType DEF StoredInv, CountsOK, Request, Report
  <2> HIDE DEF r
  <2>3. QED
    BY <1>1, <1>4, <2>2, SilentAfterCall DEF CpolrUpdateCall, r
<1>5. CASE CollectionItem(t)
  BY <1>1, <1>5, SilentFindForDelete DEF CollectionItem
<1>6. CASE ApplyCall(t)
  <2>1. "announce" \in StoredStages
    BY DEF StoredStages, Stages
  <2>2. Written(t, req[t]) \/ Continue(t, "announce", req[t])
    BY <1>6 DEF ApplyCall
  <2>3. QED
    BY <1>1, <2>1, <2>2, SilentWritten, SilentContinue
<1>7. QED
  BY <1>2, <1>3, <1>4, <1>5, <1>6

LEMMA SilentAnnounce ==
    ASSUME StoredInv, SilentInv, NEW t \in Threads, Announce(t) \/ AnnounceAgain(t)
    PROVE  SilentThread(t)' /\ ClusterEventsNeverSent'
<1>1. /\ req[t] \in Request /\ \A i \in DOMAIN todo[t] : todo[t][i] \in Keys \ CpolrKeys
      /\ req[t].key \notin CpolrKeys
  BY DEF StoredInv, ThreadInv, SilentInv, SilentThread, Announce, AnnounceAgain
<1>2. ASSUME NEW again \in BOOLEAN, log' = Append(log, EventOf(req[t], again))
      PROVE  ClusterEventsNeverSent'
  <2> DEFINE e == EventOf(req[t], again)
  <2>1. e \in Event /\ e.key = req[t].key
    BY <1>1, EventsHaveType DEF EventOf
  <2> HIDE DEF e
  <2>2. /\ DOMAIN log' = 1..(Len(log) + 1) /\ DOMAIN log = 1..Len(log) /\ Len(log) \in Nat
        /\ log'[Len(log) + 1] = e /\ \A i \in DOMAIN log : log'[i] = log[i]
    BY <1>2, <2>1, AppendEvent DEF StoredInv, CountsOK, e
  <2>3. CpolrKeys' = CpolrKeys
    BY DEF CpolrKeys
  <2>4. QED
    BY <1>1, <2>1, <2>2, <2>3 DEF SilentInv, ClusterEventsNeverSent
<1>3. ClusterEventsNeverSent'
  BY <1>2 DEF Announce, AnnounceAgain
<1>4. CASE Announce(t) /\ Continue(t, "announceAgain", req[t]) /\ req[t].verb = "deletecollection"
  <2>1. "announceAgain" \in StoredStages
    BY DEF StoredStages, Stages
  <2>2. QED
    BY <1>1, <1>3, <1>4, <2>1, SilentContinue
<1>5. CASE Reply(t, "ok")
  BY <1>3, <1>5, SilentReply
<1>6. CASE NextItem(t, todo[t])
  BY <1>1, <1>3, <1>6, SilentNextItem
<1>7. QED
  BY <1>4, <1>5, <1>6 DEF Announce, AnnounceAgain

-----------------------------------------------------------------------------
LEMMA ServeKeepsSilence ==
    ASSUME ~ApplyCreates, StoredInv, SilentInv, NEW t \in Threads, ServePolr(t) \/ ServeCpolr(t)
    PROVE  SilentThread(t)' /\ ClusterEventsNeverSent'
<1>1. PolrKeys \in SUBSET Keys /\ CpolrKeys \in SUBSET Keys
  BY DEF PolrKeys, CpolrKeys
<1>2. ASSUME log' = log PROVE ClusterEventsNeverSent'
  BY <1>2 DEF SilentInv, ClusterEventsNeverSent, CpolrKeys
<1>3. CASE PolrRequests(t, PolrKeys)
  <2>1. log' = log
    BY <1>3 DEF PolrRequests, CommonRequests, PolrCreate, UpdateGet, ApplyGet, DeleteGet,
                CollectionList
  <2>2. QED
    BY <1>1, <1>2, <1>3, <2>1, SilentPolrRequests, SilentCommonRequests DEF PolrRequests
<1>4. CASE CpolrRequests(t, CpolrKeys)
  <2>1. log' = log
    BY <1>4 DEF CpolrRequests, CommonRequests, CpolrCreate, CpolrUpdate, ApplyGet, DeleteGet,
                CollectionList
  <2>2. QED
    BY <1>1, <1>2, <1>4, <2>1, SilentCpolrRequests, SilentCommonRequests DEF CpolrRequests
<1>5. CASE Announce(t) \/ AnnounceAgain(t)
  BY <1>5, SilentAnnounce
<1>6. CASE \/ UpdateReread(t) \/ UpdateCall(t) \/ DeleteCall(t) \/ ApplyCall(t)
           \/ CpolrUpdateCall(t) \/ CollectionItem(t)
  <2>1. log' = log
    BY <1>6 DEF UpdateReread, UpdateCall, DeleteCall, ApplyCall, CpolrUpdateCall, CollectionItem
  <2>2. QED
    BY <1>2, <1>6, <2>1, SilentCalls
<1>7. QED
  BY <1>3, <1>4, <1>5, <1>6
  DEF ServePolr, ServeCpolr, PolrCalls, CpolrCalls, CommonCalls

LEMMA NextKeepsSilence ==
    ASSUME ~ApplyCreates
    PROVE  StoredInv /\ SilentInv /\ [StoredNext]_storedVars => SilentInv'
<1> SUFFICES ASSUME StoredInv, SilentInv, [StoredNext]_storedVars PROVE SilentInv'
  OBVIOUS
<1>1. CpolrKeys' = CpolrKeys
  BY DEF CpolrKeys
<1>2. ASSUME NEW t \in Threads, ServePolr(t) \/ ServeCpolr(t) PROVE SilentInv'
  <2>1. OthersStay(t) /\ RowsStep
    BY <1>2, ServeMoves DEF Moved
  <2>2. \A k \in CpolrKeys : ~Found(k)'
    BY <2>1 DEF RowsStep, Appears, SilentInv, Found
  <2>3. ASSUME NEW u \in Threads PROVE SilentThread(u)'
    <3>1. CASE u = t
      BY <1>2, <3>1, ServeKeepsSilence
    <3>2. CASE u # t
      BY <1>1, <2>1, <3>2 DEF OthersStay, SilentInv, SilentThread
    <3>3. QED
      BY <3>1, <3>2
  <2>4. QED
    BY <1>1, <1>2, <2>2, <2>3, ServeKeepsSilence DEF SilentInv
<1>3. CASE UNCHANGED storedVars
  BY <1>1, <1>3 DEF storedVars, vars, SilentInv, SilentThread, ClusterEventsNeverSent, Found
<1>4. QED
  BY <1>2, <1>3 DEF StoredNext, StoredQuiet, Quiet, storedVars

(* Watchers of cluster reports never receive an event, over either store   *)
(* and whatever the clients ask for (cpolr.go:127-131, 341).               *)
THEOREM NothingToldOfClusterReports ==
    ASSUME ~ApplyCreates
    PROVE  StoredSpec => []ClusterEventsNeverSent
<1>1. StoredInit => SilentInv
  BY DEF StoredInit, StorageInit, Init, DbInit, NoKeys, SilentInv, SilentThread, Found,
         CpolrKeys, ClusterEventsNeverSent
<1>2. SilentInv => ClusterEventsNeverSent
  BY DEF SilentInv
<1>3. QED
  BY <1>1, <1>2, StoredInvariant, NextKeepsSilence, PTL DEF StoredSpec

-----------------------------------------------------------------------------
(* With --debug the storage of policy reports over NewStorage's store is   *)
(* the one of PolicyReportStore, so all that is proved of the latter holds *)
(* of the former.                                                          *)

OnlyPolicyReports == DebugFlags = {TRUE} /\ ClusterScopes = {}

LEMMA AllKeysArePolr ==
    ASSUME OnlyPolicyReports
    PROVE  PolrKeys = Keys /\ CpolrKeys = {}
  BY DEF OnlyPolicyReports, PolrKeys, CpolrKeys

(* A store call is one of the map's, and fails with the map's errors only. *)
LEMMA StoreIsMap ==
    ASSUME debug, NEW k, NEW v, NEW rev, NEW err
    PROVE  /\ StoreCreate(k, v, err) => DbCreate(k, v, err) /\ err \in {"none", "exists"}
           /\ StoreUpdate(k, rev, v, err) => DbUpdate(k, v, err) /\ err \in {"none", "missing"}
           /\ StoreDelete(k, rev, err) => DbDelete(k, err) /\ err \in {"none", "missing"}
  BY DEF StoreCreate, StoreUpdate, StoreDelete, DbCreate, DbUpdate, DbDelete

LEMMA PolrCreateIsCreate ==
    ASSUME debug, NEW t, NEW k, NEW labels, NEW dry, PolrCreate(t, k, labels, dry)
    PROVE  CreateReport(t, k, labels, dry)
<1> DEFINE r == NewRequest("create", k, dry, CreatedReport(labels))
<1>1. r.key = k
  BY DEF NewRequest
<1> HIDE DEF r
<1>2. ASSUME NEW err \in StoreErrors, StoreCreate(k, r.obj, err), AfterCall(t, r, err)
      PROVE  CreatePolr(t, r)
  BY <1>1, <1>2, StoreIsMap DEF CreatePolr, AfterCall
<1>3. QED
  BY <1>2 DEF PolrCreate, CreateReport, r

LEMMA UpdateCallIsUpdate ==
    ASSUME debug, NEW t, UpdateCall(t)
    PROVE  UpdateStore(t)
<1>1. PICK err \in StoreErrors :
          /\ StoreUpdate(req[t].key, req[t].obj.rv, req[t].obj, err)
          /\ AfterCall(t, req[t], err)
  BY DEF UpdateCall
<1>2. DbUpdate(req[t].key, req[t].obj, err) /\ err \in {"none", "missing"}
  BY <1>1, StoreIsMap
<1>3. QED
  BY <1>1, <1>2 DEF UpdateCall, UpdateStore, AfterCall

LEMMA ApplyCallIsApply ==
    ASSUME debug, NEW t, ApplyCall(t)
    PROVE  ApplyStore(t)
<1>1. PICK err \in StoreErrors :
          /\ StoreUpdate(req[t].key, 1, req[t].obj, err)
          /\ IF err = "none" THEN Written(t, req[t])
                             ELSE Continue(t, "announce", req[t]) /\ UNCHANGED writes
  BY DEF ApplyCall
<1>2. DbUpdate(req[t].key, req[t].obj, err) /\ err \in {"none", "missing"}
  BY <1>1, StoreIsMap
<1>3. QED
  BY <1>1, <1>2 DEF ApplyCall, ApplyStore

LEMMA DeleteCallIsDelete ==
    ASSUME debug, NEW t, DeleteCall(t)
    PROVE  DeleteStore(t)
<1>1. PICK err \in StoreErrors :
          StoreDelete(req[t].key, req[t].obj.rv, err) /\ AfterCall(t, req[t], err)
  BY DEF DeleteCall
<1>2. DbDelete(req[t].key, err) /\ err \in {"none", "missing"}
  BY <1>1, StoreIsMap
<1>3. QED
  BY <1>1, <1>2 DEF DeleteCall, DeleteStore, AfterCall

LEMMA ServePolrIsServe ==
    ASSUME OnlyPolicyReports, debug, NEW t \in Threads, ServePolr(t)
    PROVE  Serve(t)
<1>1. PolrKeys = Keys
  BY AllKeysArePolr
<1>2. ASSUME NEW k \in Keys, NEW labels \in LabelMaps, NEW dry \in BOOLEAN,
             \/ PolrCreate(t, k, labels, dry)
             \/ \E uid \in 0..writes : UpdateGet(t, k, labels, uid, dry)
      PROVE  Serve(t)
  BY <1>2, PolrCreateIsCreate DEF Serve
<1>3. CASE CommonRequests(t, Keys)
  <2>1. \A k \in Keys : k[1] \in Namespaces
    BY KeysAssumption
  <2>2. QED
    BY <1>3, <2>1 DEF CommonRequests, Serve
<1>4. CASE PolrCalls(t)
  BY <1>4, UpdateCallIsUpdate, ApplyCallIsApply, DeleteCallIsDelete
  DEF PolrCalls, CommonCalls, Serve
<1>5. QED
  BY <1>1, <1>2, <1>3, <1>4 DEF ServePolr, PolrRequests

\* There is no key for a cluster report to be stored under.
LEMMA NoCpolrIsServed ==
    ASSUME OnlyPolicyReports, NEW t, ServeCpolr(t)
    PROVE  FALSE
  BY AllKeysArePolr DEF ServeCpolr, CpolrRequests, CommonRequests, CpolrCalls

(* Each request over the store is one over the map, step by step.          *)
THEOREM MapStoreServesPolicyReports ==
    ASSUME OnlyPolicyReports
    PROVE  StoredSpec => Spec
<1>1. StoredInit => Init /\ debug
  BY DEF StoredInit, StorageInit, OnlyPolicyReports
<1>2. debug /\ [StoredNext]_storedVars => [Next]_vars /\ debug'
  <2> SUFFICES ASSUME debug, [StoredNext]_storedVars PROVE [Next]_vars /\ debug'
    OBVIOUS
  <2>1. ASSUME NEW t \in Threads, ServePolr(t) PROVE Next /\ debug'
    <3>1. Serve(t)
      BY <2>1, ServePolrIsServe
    <3>2. debug' = debug
      BY <2>1 DEF ServePolr, PolrRequests, PolrCalls, CommonRequests, CommonCalls, storageVars,
          PolrCreate, UpdateCall, ApplyCall, DeleteCall, StoreCreate, StoreUpdate, StoreDelete
    <3>3. QED
      BY <3>1, <3>2 DEF Next
  <2>2. CASE StoredQuiet
    BY <2>2 DEF StoredQuiet, Next, storageVars
  <2>3. CASE UNCHANGED storedVars
    BY <2>3 DEF storedVars, storageVars
  <2>4. QED
    BY <2>1, <2>2, <2>3, NoCpolrIsServed DEF StoredNext
<1>3. QED
  BY <1>1, <1>2, PTL DEF StoredSpec, Spec
=============================================================================
