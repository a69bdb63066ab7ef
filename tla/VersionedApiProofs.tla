------------------------- MODULE VersionedApiProofs -------------------------
(***************************************************************************)
(* The six storages of VersionedApis are the two of StoredReports, several *)
(* times on one store: they implement it, stay within their own rows and   *)
(* tell their own watchers, whatever the reports, threads and stores.      *)
(***************************************************************************)
EXTENDS VersionedApis, StoredReportProofs

\* The items a collection has yet to delete are of storage s.
TodoIn(t, s) == \A i \in DOMAIN todo[t] : Belongs(todo[t][i], s)

\* A thread works on reports of the storage whose request it serves.
AtHome(t) ==
    IF pc[t] = "idle" THEN DOMAIN todo[t] = {}
    ELSE at[t] \in Storages /\ Belongs(req[t].key, at[t]) /\ TodoIn(t, at[t])

ApiInv ==
    /\ DOMAIN at = Threads
    /\ feeds \in [Storages -> Seq(Event)]
    /\ \A t \in Threads : AtHome(t)
    /\ ToldOwnWatchers

-----------------------------------------------------------------------------
(* Every storage is one of StoredReports for some of the reports.          *)

LEMMA FewerPolrRequests ==
    ASSUME NEW t, NEW ks \in SUBSET PolrKeys, PolrRequests(t, ks)
    PROVE  PolrRequests(t, PolrKeys)
<1>1. CommonRequests(t, ks) => CommonRequests(t, PolrKeys)
  BY DEF CommonRequests
<1>2. QED
  BY <1>1 DEF PolrRequests

LEMMA FewerCpolrRequests ==
    ASSUME NEW t, NEW ks \in SUBSET CpolrKeys, CpolrRequests(t, ks)
    PROVE  CpolrRequests(t, CpolrKeys)
<1>1. CommonRequests(t, ks) => CommonRequests(t, CpolrKeys)
  BY DEF CommonRequests
<1>2. QED
  BY <1>1 DEF CpolrRequests

\* A step of one of the two storages of a version.
Served(t, version) ==
    \/ /\ \/ PolrRequests(t, PolrKeys \cap KeysOfVersion(version))
          \/ at[t] = <<version, "polr">> /\ PolrCalls(t)
       /\ For(t, <<version, "polr">>)
    \/ /\ \/ CpolrRequests(t, CpolrKeys \cap KeysOfVersion(version))
          \/ at[t] = <<version, "cpolr">> /\ CpolrCalls(t)
       /\ For(t, <<version, "cpolr">>)

ApiVersions == {"v1alpha1", "v1alpha2", "v1beta1"}

LEMMA VersionsAreServed ==
    ASSUME NEW t, ServeV1Alpha1(t) \/ ServeV1Alpha2(t) \/ ServeV1Beta1(t)
    PROVE  \E version \in ApiVersions : Served(t, version)
<1>1. ServeV1Alpha1(t) => Served(t, "v1alpha1")
  BY DEF ServeV1Alpha1, V1Alpha1Polr, V1Alpha1Cpolr, V1Alpha1PolrRequests, V1Alpha1PolrCalls,
         V1Alpha1CpolrRequests, V1Alpha1CpolrCalls, V1Alpha1PolrKeys, V1Alpha1CpolrKeys, Served
<1>2. ServeV1Alpha2(t) => Served(t, "v1alpha2")
  BY DEF ServeV1Alpha2, V1Alpha2Polr, V1Alpha2Cpolr, V1Alpha2PolrRequests, V1Alpha2PolrCalls,
         V1Alpha2CpolrRequests, V1Alpha2CpolrCalls, V1Alpha2PolrKeys, V1Alpha2CpolrKeys, Served
<1>3. ServeV1Beta1(t) => Served(t, "v1beta1")
  BY DEF ServeV1Beta1, V1Beta1Polr, V1Beta1Cpolr, V1Beta1PolrRequests, V1Beta1PolrCalls,
         V1Beta1CpolrRequests, V1Beta1CpolrCalls, V1Beta1PolrKeys, V1Beta1CpolrKeys, Served
<1>4. QED
  BY <1>1, <1>2, <1>3 DEF ApiVersions

LEMMA ServedIsStored ==
    ASSUME NEW t, NEW version, Served(t, version)
    PROVE  ServePolr(t) \/ ServeCpolr(t)
  BY FewerPolrRequests, FewerCpolrRequests DEF Served, ServePolr, ServeCpolr

LEMMA ApiStepIsStored == [ApiNext]_apiVars => [StoredNext]_storedVars
<1>1. ApiNext => StoredNext
  BY VersionsAreServed, ServedIsStored DEF ApiNext, StoredNext, ApiQuiet
<1>2. UNCHANGED apiVars => UNCHANGED storedVars
  BY DEF apiVars
<1>3. QED
  BY <1>1, <1>2

(* The versions together are one storage of policy reports and one of      *)
(* cluster reports on the same store (install.go of each version); what is *)
(* proved of those holds of all three versions at once.                    *)
THEOREM VersionsImplementStorages == ApiSpec => StoredSpec
<1>1. ApiInit => StoredInit
  BY DEF ApiInit
<1>2. QED
  BY <1>1, ApiStepIsStored, PTL DEF ApiSpec, StoredSpec

-----------------------------------------------------------------------------
(* What a step of t for storage s may touch: rows of s, the local variables*)
(* of t, one more event about a report of s, one more write by t itself.   *)

Within(t, s) ==
    /\ \A k \in Keys : db'[k] # db[k] => Belongs(k, s) /\ pc'[t] # pc[t]
    /\ IF pc'[t] = "idle" THEN DOMAIN todo'[t] = {}
       ELSE Belongs(req'[t].key, s) /\ \A i \in DOMAIN todo'[t] : Belongs(todo'[t][i], s)
    /\ \/ log' = log /\ pc[t] # "announce"
       \/ \E e \in Event : /\ log' = Append(log, e) /\ Belongs(e.key, s)
                           /\ pc[t] = "announce" => e.seq = req[t].seq
    /\ \/ writes' = writes
       \/ /\ writes' = writes + 1 /\ pc[t] # "announce"
          /\ pc'[t] = "announce" /\ req'[t].seq = writes + 1

LEMMA WithinReply ==
    ASSUME StoredInv, NEW t \in Threads, NEW s, NEW outcome, Reply(t, outcome),
           pc[t] # "announce", UNCHANGED <<db, log, writes>>
    PROVE  Within(t, s)
<1>1. pc'[t] = "idle" /\ todo'[t] = << >>
  BY DEF StoredInv, ThreadFuns, Reply, NoKeys
<1>2. QED
  BY <1>1 DEF Within

LEMMA WithinContinue ==
    ASSUME StoredInv, NEW t \in Threads, NEW s, NEW stage, stage # "idle", NEW r,
           Continue(t, stage, r), Belongs(r.key, s), TodoIn(t, s),
           pc[t] # "announce", UNCHANGED <<db, log, writes>>
    PROVE  Within(t, s)
<1>1. pc'[t] # "idle" /\ req'[t] = r /\ todo'[t] = todo[t]
  BY DEF StoredInv, ThreadFuns, Continue
<1>2. Belongs(req'[t].key, s) /\ \A i \in DOMAIN todo'[t] : Belongs(todo'[t][i], s)
  BY <1>1 DEF TodoIn
<1>3. QED
  BY <1>1, <1>2 DEF Within

LEMMA WithinAfterCall ==
    ASSUME StoredInv, NEW t \in Threads, NEW s, NEW r \in Request, NEW err, AfterCall(t, r, err),
           \A k \in Keys : db'[k] # db[k] => k = r.key /\ err = "none",
           Belongs(r.key, s), TodoIn(t, s), pc[t] # "announce", log' = log
    PROVE  Within(t, s)
<1>1. CASE err = "none"
  <2> DEFINE q == [r EXCEPT !.seq = writes + 1]
  <2>1. q.key = r.key /\ q.seq = writes + 1
    BY DEF Request
  <2> HIDE DEF q
  <2>2. pc'[t] = "announce" /\ req'[t] = q /\ todo'[t] = todo[t] /\ writes' = writes + 1
    BY <1>1 DEF StoredInv, ThreadFuns, AfterCall, Written, Continue, q
  <2>3. Belongs(req'[t].key, s) /\ \A i \in DOMAIN todo'[t] : Belongs(todo'[t][i], s)
    BY <2>1, <2>2 DEF TodoIn
  <2>4. QED
    BY <2>1, <2>2, <2>3 DEF Within
<1>2. CASE err # "none"
  <2>1. pc'[t] = "idle" /\ todo'[t] = << >> /\ writes' = writes
    BY <1>2 DEF StoredInv, ThreadFuns, AfterCall, Reply, NoKeys
  <2>2. QED
    BY <1>2, <2>1 DEF Within
<1>3. QED
  BY <1>1, <1>2

LEMMA NextItemStays ==
    ASSUME StoredInv, NEW t \in Threads, NEW s, NEW items, NextItem(t, items),
           \A i \in DOMAIN items : Belongs(items[i], s)
    PROVE  /\ pc'[t] = "collect" /\ Belongs(req'[t].key, s)
           /\ \A i \in DOMAIN todo'[t] : Belongs(todo'[t][i], s)
<1>1. PICK i \in DOMAIN items :
          /\ pc' = [pc EXCEPT ![t] = "collect"]
          /\ req' = [req EXCEPT ![t] = NewRequest("deletecollection", items[i], FALSE, NoReport)]
          /\ todo' = [todo EXCEPT ![t] = [j \in DOMAIN items \ {i} |-> items[j]]]
  BY DEF NextItem
<1>2. /\ pc'[t] = "collect" /\ req'[t].key = items[i]
      /\ todo'[t] = [j \in DOMAIN items \ {i} |-> items[j]]
  BY <1>1 DEF StoredInv, ThreadFuns, NewRequest
<1>3. QED
  BY <1>2

(* A call of the store changes at most the row it is about.                *)
LEMMA CallTouchesItsRow ==
    ASSUME StoredInv, NEW k \in Keys, NEW err,
           \/ \E v : StoreCreate(k, v, err)
           \/ \E v, rev : StoreUpdate(k, rev, v, err)
           \/ \E rev : StoreDelete(k, rev, err)
    PROVE  \A j \in Keys : db'[j] # db[j] => j = k /\ err = "none"
<1>1. db' = db \/ (err = "none" /\ \E w : db' = [db EXCEPT ![k] = w])
  BY DEF StoreCreate, StoreUpdate, StoreDelete, DbCreate, DbUpdate, DbDelete,
         KineCreate, KineUpdate, KineDelete, Commit, Abort
<1>2. ASSUME NEW w, db' = [db EXCEPT ![k] = w], NEW j \in Keys, db'[j] # db[j]
      PROVE  j = k
  BY <1>2 DEF StoredInv, RowsOK
<1>3. QED
  BY <1>1, <1>2

-----------------------------------------------------------------------------
(* A storage's requests.                                                   *)

LEMMA SameScope ==
    ASSUME NEW j \in Keys, NEW k \in Keys, j[1] = k[1], NEW s, Belongs(k, s)
    PROVE  Belongs(j, s)
  BY DEF Belongs, CpolrKeys

LEMMA CreateStaysWithin ==
    ASSUME StoredInv, ApiInv, NEW t \in Threads, NEW k \in Keys, NEW s, Belongs(k, s),
           NEW labels \in LabelMaps, NEW dry \in BOOLEAN,
           PolrCreate(t, k, labels, dry) \/ CpolrCreate(t, k, labels, dry)
    PROVE  Within(t, s)
<1> DEFINE r == NewRequest("create", k, dry, CreatedReport(labels))
<1>1. r \in Request /\ r.key = k
  BY CreatedReportType, NewRequestType DEF StoredInv, CountsOK, AllVerbs, NewRequest
<1> HIDE DEF r
<1>2. pc[t] = "idle" /\ log' = log
  BY DEF PolrCreate, CpolrCreate, Accept
<1>3. TodoIn(t, s)
  BY <1>2 DEF ApiInv, AtHome, TodoIn
<1>4. ASSUME NEW outcome, Reply(t, outcome), UNCHANGED <<db, writes>>
      PROVE  Within(t, s)
  BY <1>2, <1>4, WithinReply
<1>5. ASSUME NEW err \in StoreErrors, AfterCall(t, r, err),
             StoreCreate(k, r.obj, err) \/ StoreUpdate(k, 1, r.obj, err)
      PROVE  Within(t, s)
  <2>1. \/ \E v : StoreCreate(k, v, err)
        \/ \E v, rev : StoreUpdate(k, rev, v, err)
        \/ \E rev : StoreDelete(k, rev, err)
    BY <1>5
  <2>2. \A j \in Keys : db'[j] # db[j] => j = r.key /\ err = "none"
    BY <1>1, <2>1, CallTouchesItsRow
  <2>3. Belongs(r.key, s) /\ pc[t] # "announce" /\ log' = log
    BY <1>1, <1>2
  <2>4. QED
    BY <1>1, <1>3, <1>5, <2>2, <2>3, WithinAfterCall
<1>6. QED
  BY <1>4, <1>5 DEF PolrCreate, CpolrCreate, CreateCpolr, r

LEMMA ReadsStayWithin ==
    ASSUME StoredInv, ApiInv, NEW t \in Threads, NEW k \in Keys, NEW s, Belongs(k, s),
           NEW labels, NEW uid, NEW dry,
           \/ UpdateGet(t, k, labels, uid, dry)
           \/ CpolrUpdate(t, k, labels, dry)
           \/ ApplyGet(t, k, labels, dry)
           \/ DeleteGet(t, k, dry)
    PROVE  Within(t, s)
<1>1. pc[t] = "idle" /\ UNCHANGED <<db, log, writes>>
  BY DEF UpdateGet, CpolrUpdate, ApplyGet, DeleteGet, Accept
<1>2. TodoIn(t, s)
  BY <1>1 DEF ApiInv, AtHome, TodoIn
<1>3. ASSUME NEW outcome, Reply(t, outcome) PROVE Within(t, s)
  BY <1>1, <1>3, WithinReply
<1>4. ASSUME NEW stage \in {"reread", "recreate", "apply", "delete"}, NEW r, r.key = k,
             Continue(t, stage, r)
      PROVE  Within(t, s)
  BY <1>1, <1>2, <1>4, WithinContinue
<1>5. \A verb, obj : NewRequest(verb, k, dry, obj).key = k
  BY DEF NewRequest
<1>6. CASE UpdateGet(t, k, labels, uid, dry)
  <2> DEFINE r == NewRequest("update", k, dry, [uid |-> uid, rv |-> 0, labels |-> labels])
  <2>1. r.key = k
    BY <1>5
  <2>2. (\E outcome : Reply(t, outcome)) \/ Continue(t, "reread", r)
    BY <1>6 DEF UpdateGet
  <2> HIDE DEF r
  <2>3. QED
    BY <1>3, <1>4, <2>1, <2>2
<1>7. CASE CpolrUpdate(t, k, labels, dry)
  <2> DEFINE r == NewRequest("update", k, dry, [uid |-> 0, rv |-> 1, labels |-> labels])
  <2>1. r.key = k
    BY <1>5
  <2>2. (\E outcome : Reply(t, outcome)) \/ Continue(t, "recreate", r)
    BY <1>7 DEF CpolrUpdate
  <2> HIDE DEF r
  <2>3. QED
    BY <1>3, <1>4, <2>1, <2>2
<1>8. CASE ApplyGet(t, k, labels, dry)
  <2> DEFINE r == NewRequest("apply", k, dry,
                      [uid |-> IF Found(k) THEN db[k].uid ELSE 0, rv |-> 1, labels |-> labels])
  <2>1. r.key = k
    BY <1>5
  <2>2. (\E outcome : Reply(t, outcome)) \/ Continue(t, "apply", r)
    BY <1>8 DEF ApplyGet
  <2> HIDE DEF r
  <2>3. QED
    BY <1>3, <1>4, <2>1, <2>2
<1>9. CASE DeleteGet(t, k, dry)
  <2> DEFINE r == NewRequest("delete", k, dry, NoReport)
             q == [r EXCEPT !.obj = db[r.key]]
  <2>1. q.key = k
    BY DEF NewRequest
  <2>2. (\E outcome : Reply(t, outcome)) \/ Continue(t, "delete", q)
    BY <1>9 DEF DeleteGet, FindForDelete
  <2> HIDE DEF q
  <2>3. QED
    BY <1>3, <1>4, <2>1, <2>2
<1>10. QED
  BY <1>6, <1>7, <1>8, <1>9

LEMMA CollectionStaysWithin ==
    ASSUME StoredInv, ApiInv, NEW t \in Threads, NEW k \in Keys, NEW s, Belongs(k, s),
           NEW selector, NEW dry, CollectionList(t, k[1], selector, dry)
    PROVE  Within(t, s)
<1>1. pc[t] = "idle" /\ UNCHANGED <<db, log, writes>>
  BY DEF CollectionList, Accept
<1>2. PICK order \in Orders({j \in KeysOf(k[1]) : Found(j)}) :
          LET kept == Kept([i \in DOMAIN order |-> db[order[i]].labels], selector)
          IN  IF dry \/ kept = {}
              THEN Reply(t, "ok")
              ELSE NextItem(t, [i \in kept |-> order[i]])
  BY DEF CollectionList
<1> DEFINE kept == Kept([i \in DOMAIN order |-> db[order[i]].labels], selector)
           items == [i \in kept |-> order[i]]
<1>3. kept \subseteq DOMAIN order
  BY DEF Kept
<1>4. \A i \in DOMAIN order : order[i] \in Keys /\ order[i][1] = k[1]
  BY DEF Orders, KeysOf
<1>5. \A i \in DOMAIN items : Belongs(items[i], s)
  BY <1>3, <1>4, SameScope
<1>6. CASE Reply(t, "ok")
  BY <1>1, <1>6, WithinReply
<1>7. CASE NextItem(t, items)
  <2> HIDE DEF items
  <2>1. /\ pc'[t] = "collect" /\ Belongs(req'[t].key, s)
        /\ \A i \in DOMAIN todo'[t] : Belongs(todo'[t][i], s)
    BY <1>5, <1>7, NextItemStays
  <2>2. QED
    BY <1>1, <2>1 DEF Within
<1>8. QED
  BY <1>2, <1>6, <1>7

LEMMA RequestsStartIdle ==
    ASSUME NEW t, NEW ks, PolrRequests(t, ks) \/ CpolrRequests(t, ks)
    PROVE  pc[t] = "idle"
  BY DEF PolrRequests, CpolrRequests, CommonRequests, PolrCreate, CpolrCreate, UpdateGet,
         CpolrUpdate, ApplyGet, DeleteGet, CollectionList, Accept

LEMMA RequestsStayWithin ==
    ASSUME StoredInv, ApiInv, NEW t \in Threads, NEW s, NEW ks \in SUBSET Keys,
           \A k \in ks : Belongs(k, s), PolrRequests(t, ks) \/ CpolrRequests(t, ks)
    PROVE  Within(t, s)
<1>1. CASE CommonRequests(t, ks)
  <2>1. ASSUME NEW k \in ks, NEW selector, NEW dry, CollectionList(t, k[1], selector, dry)
        PROVE  Within(t, s)
    BY <2>1, CollectionStaysWithin
  <2>2. ASSUME NEW k \in ks, NEW labels, NEW dry, ApplyGet(t, k, labels, dry) \/ DeleteGet(t, k, dry)
        PROVE  Within(t, s)
    BY <2>2, ReadsStayWithin
  <2>3. QED
    BY <1>1, <2>1, <2>2 DEF CommonRequests
<1>2. ASSUME NEW k \in ks, NEW labels \in LabelMaps, NEW dry \in BOOLEAN,
             PolrCreate(t, k, labels, dry) \/ CpolrCreate(t, k, labels, dry)
      PROVE  Within(t, s)
  BY <1>2, CreateStaysWithin
<1>3. ASSUME NEW k \in ks, NEW labels, NEW uid, NEW dry,
             UpdateGet(t, k, labels, uid, dry) \/ CpolrUpdate(t, k, labels, dry)
      PROVE  Within(t, s)
  BY <1>3, ReadsStayWithin
<1>4. QED
  BY <1>1, <1>2, <1>3 DEF PolrRequests, CpolrRequests

-----------------------------------------------------------------------------
(* The calls after that.                                                   *)

LEMMA StoreCallsStayWithin ==
    ASSUME StoredInv, NEW t \in Threads, NEW s, Belongs(req[t].key, s), TodoIn(t, s),
           UpdateCall(t) \/ DeleteCall(t) \/ CpolrUpdateCall(t)
    PROVE  Within(t, s)
<1>1. pc[t] \in {"update", "delete", "recreate"} /\ log' = log
  BY DEF UpdateCall, DeleteCall, CpolrUpdateCall
<1>2. req[t] \in Request /\ req[t].obj \in Report /\ req[t].key \in Keys
  BY <1>1 DEF StoredInv, ThreadInv, Request
<1>3. ASSUME NEW r \in Request, r.key = req[t].key, NEW err, AfterCall(t, r, err),
             \/ \E v : StoreUpdate(r.key, 1, v, err)
             \/ StoreUpdate(r.key, req[t].obj.rv, req[t].obj, err)
             \/ StoreDelete(r.key, req[t].obj.rv, err)
      PROVE  Within(t, s)
  <2>1. \A j \in Keys : db'[j] # db[j] => j = r.key /\ err = "none"
    BY <1>2, <1>3, CallTouchesItsRow
  <2>2. Belongs(r.key, s) /\ pc[t] # "announce"
    BY <1>1, <1>3
  <2>3. QED
    BY <1>1, <1>3, <2>1, <2>2, WithinAfterCall
<1>4. CASE UpdateCall(t) \/ DeleteCall(t)
  BY <1>2, <1>3, <1>4 DEF UpdateCall, DeleteCall
<1>5. CASE CpolrUpdateCall(t)
  <2> DEFINE r == [req[t] EXCEPT !.obj = CreatedReport(req[t].obj.labels)]
  <2>1. CreatedReport(req[t].obj.labels) \in Report
    BY <1>2, CreatedReportType DEF Report, StoredInv, CountsOK
  <2>2. r \in Request /\ r.key = req[t].key
    BY <1>2, <2>1 DEF Request
  <2>3. \E err \in StoreErrors : StoreUpdate(r.key, 1, r.obj, err) /\ AfterCall(t, r, err)
    BY <1>5 DEF CpolrUpdateCall, CreateCpolr
  <2> HIDE DEF r
  <2>4. QED
    BY <1>3, <2>2, <2>3
<1>6. QED
  BY <1>4, <1>5

LEMMA ApplyStaysWithin ==
    ASSUME StoredInv, NEW t \in Threads, NEW s, Belongs(req[t].key, s), TodoIn(t, s), ApplyCall(t)
    PROVE  Within(t, s)
<1>1. pc[t] = "apply" /\ log' = log /\ req[t] \in Request /\ req[t].key \in Keys
  BY DEF ApplyCall, StoredInv, ThreadInv, Request
<1>2. PICK err \in StoreErrors :
          /\ StoreUpdate(req[t].key, 1, req[t].obj, err)
          /\ IF err = "none" THEN Written(t, req[t])
                             ELSE Continue(t, "announce", req[t]) /\ UNCHANGED writes
  BY DEF ApplyCall
<1>3. \A j \in Keys : db'[j] # db[j] => j = req[t].key /\ err = "none"
  BY <1>1, <1>2, CallTouchesItsRow
<1>4. CASE err = "none"
  <2>1. AfterCall(t, req[t], err)
    BY <1>2, <1>4 DEF AfterCall
  <2>2. QED
    BY <1>1, <1>3, <2>1, WithinAfterCall
<1>5. CASE err # "none"
  <2>1. pc'[t] = "announce" /\ req'[t] = req[t] /\ todo'[t] = todo[t] /\ writes' = writes
    BY <1>2, <1>5 DEF Continue, StoredInv, ThreadFuns
  <2>2. Belongs(req'[t].key, s) /\ \A i \in DOMAIN todo'[t] : Belongs(todo'[t][i], s)
    BY <2>1 DEF TodoIn
  <2>3. QED
    BY <1>1, <1>3, <1>5, <2>1, <2>2 DEF Within
<1>6. QED
  BY <1>4, <1>5

LEMMA OtherCallsStayWithin ==
    ASSUME StoredInv, NEW t \in Threads, NEW s, Belongs(req[t].key, s), TodoIn(t, s),
           UpdateReread(t) \/ CollectionItem(t)
    PROVE  Within(t, s)
<1>1. pc[t] \in {"reread", "collect"} /\ UNCHANGED <<db, log, writes>> /\ req[t] \in Request
  BY DEF UpdateReread, CollectionItem, StoredInv, ThreadInv
<1>2. ASSUME NEW outcome, Reply(t, outcome) PROVE Within(t, s)
  BY <1>1, <1>2, WithinReply
<1>3. ASSUME NEW stage \in {"update", "delete"}, NEW r, r.key = req[t].key, Continue(t, stage, r)
      PROVE  Within(t, s)
  BY <1>1, <1>3, WithinContinue
<1>4. CASE UpdateReread(t)
  <2> DEFINE r == [req[t] EXCEPT !.obj.rv = db[req[t].key].rv + 1]
  <2>1. r.key = req[t].key
    BY <1>1 DEF Request
  <2>2. (\E outcome : Reply(t, outcome)) \/ Continue(t, "update", r)
    BY <1>4 DEF UpdateReread
  <2> HIDE DEF r
  <2>3. QED
    BY <1>2, <1>3, <2>1, <2>2
<1>5. CASE CollectionItem(t)
  <2> DEFINE r == [req[t] EXCEPT !.obj = db[req[t].key]]
  <2>1. r.key = req[t].key
    BY <1>1 DEF Request
  <2>2. (\E outcome : Reply(t, outcome)) \/ Continue(t, "delete", r)
    BY <1>5 DEF CollectionItem, FindForDelete
  <2> HIDE DEF r
  <2>3. QED
    BY <1>2, <1>3, <2>1, <2>2
<1>6. QED
  BY <1>4, <1>5

LEMMA AnnounceStaysWithin ==
    ASSUME StoredInv, NEW t \in Threads, NEW s, Belongs(req[t].key, s), TodoIn(t, s),
           Announce(t) \/ AnnounceAgain(t)
    PROVE  Within(t, s)
<1>1. UNCHANGED <<db, writes>> /\ req[t] \in Request
  BY DEF Announce, AnnounceAgain, StoredInv, ThreadInv
<1>2. PICK again \in BOOLEAN : log' = Append(log, EventOf(req[t], again))
  BY DEF Announce, AnnounceAgain
<1>3. /\ EventOf(req[t], again) \in Event
      /\ EventOf(req[t], again).key = req[t].key /\ EventOf(req[t], again).seq = req[t].seq
  BY <1>1 DEF EventOf, EventType, Event, Request
<1>4. \/ \E outcome : Reply(t, outcome)
      \/ Continue(t, "announceAgain", req[t])
      \/ NextItem(t, todo[t])
  BY DEF Announce, AnnounceAgain
<1>5. IF pc'[t] = "idle" THEN DOMAIN todo'[t] = {}
      ELSE Belongs(req'[t].key, s) /\ \A i \in DOMAIN todo'[t] : Belongs(todo'[t][i], s)
  <2>1. CASE \E outcome : Reply(t, outcome)
    <3>1. pc'[t] = "idle" /\ todo'[t] = << >>
      BY <2>1 DEF Reply, StoredInv, ThreadFuns, NoKeys
    <3>2. QED
      BY <3>1
  <2>2. CASE Continue(t, "announceAgain", req[t])
    <3>1. pc'[t] = "announceAgain" /\ req'[t] = req[t] /\ todo'[t] = todo[t]
      BY <2>2 DEF Continue, StoredInv, ThreadFuns
    <3>2. QED
      BY <3>1 DEF TodoIn
  <2>3. CASE NextItem(t, todo[t])
    BY <2>3, NextItemStays DEF TodoIn
  <2>4. QED
    BY <1>4, <2>1, <2>2, <2>3
<1>6. QED
  BY <1>1, <1>2, <1>3, <1>5 DEF Within

LEMMA CallsStayWithin ==
    ASSUME StoredInv, ApiInv, NEW t \in Threads, PolrCalls(t) \/ CpolrCalls(t)
    PROVE  Within(t, at[t])
<1>1. pc[t] # "idle"
  BY DEF PolrCalls, CpolrCalls, CommonCalls, UpdateReread, UpdateCall, ApplyCall, DeleteCall,
         CollectionItem, Announce, AnnounceAgain, CpolrUpdateCall
<1>2. Belongs(req[t].key, at[t]) /\ TodoIn(t, at[t])
  BY <1>1 DEF ApiInv, AtHome
<1>3. QED
  BY <1>2, StoreCallsStayWithin, ApplyStaysWithin, OtherCallsStayWithin, AnnounceStaysWithin
  DEF PolrCalls, CpolrCalls, CommonCalls

-----------------------------------------------------------------------------
(* Every step keeps the storages apart and their watchers told.            *)

LEMMA OneMoreEvent ==
    ASSUME log \in Seq(Event), NEW e \in Event, log' = Append(log, e)
    PROVE  SubSeq(log', Len(log) + 1, Len(log')) = <<e>>
<1> DEFINE sent == SubSeq(log', Len(log) + 1, Len(log'))
<1>1. /\ log' \in Seq(Event) /\ Len(log) \in Nat /\ Len(log') = Len(log) + 1
      /\ log'[Len(log) + 1] = e
  OBVIOUS
<1>2. sent \in Seq(Event) /\ Len(sent) = 1 /\ sent[1] = e
  BY <1>1
<1> HIDE DEF sent
<1>3. sent = <<e>>
  BY <1>2
<1>4. QED
  BY <1>3 DEF sent

LEMMA NoMoreEvent ==
    ASSUME log \in Seq(Event), log' = log
    PROVE  SubSeq(log', Len(log) + 1, Len(log')) = << >>
  OBVIOUS

(* An event goes to the broadcaster of its storage and to no other.        *)
LEMMA FeedsGrow ==
    ASSUME StoredInv, ApiInv, NEW t \in Threads, NEW s \in Storages, Within(t, s), For(t, s)
    PROVE  /\ feeds' \in [Storages -> Seq(Event)]
           /\ \A q \in Storages : \A i \in DOMAIN feeds'[q] : Belongs(feeds'[q][i].key, q)
           /\ \A q \in Storages : \A i \in DOMAIN feeds[q] :
                  i \in DOMAIN feeds'[q] /\ feeds'[q][i] = feeds[q][i]
           /\ pc[t] = "announce" => \E i \in DOMAIN feeds'[s] : feeds'[s][i].seq = req[t].seq
<1>1. log \in Seq(Event) /\ feeds \in [Storages -> Seq(Event)]
  BY DEF StoredInv, CountsOK, ApiInv
<1>2. \A q \in Storages : \A i \in DOMAIN feeds[q] : Belongs(feeds[q][i].key, q)
  BY DEF ApiInv, ToldOwnWatchers
<1>3. feeds' = [feeds EXCEPT ![s] = feeds[s] \o SubSeq(log', Len(log) + 1, Len(log'))]
  BY DEF For
<1>4. CASE log' = log /\ pc[t] # "announce"
  <2>1. feeds[s] \o << >> = feeds[s]
    BY <1>1
  <2>2. feeds' = feeds
    BY <1>1, <1>3, <1>4, <2>1, NoMoreEvent
  <2>3. QED
    BY <1>1, <1>2, <1>4, <2>2
<1>5. CASE \E e \in Event : /\ log' = Append(log, e) /\ Belongs(e.key, s)
                            /\ pc[t] = "announce" => e.seq = req[t].seq
  <2>1. PICK e \in Event : /\ log' = Append(log, e) /\ Belongs(e.key, s)
                           /\ pc[t] = "announce" => e.seq = req[t].seq
    BY <1>5
  <2>2. feeds' = [feeds EXCEPT ![s] = feeds[s] \o <<e>>]
    BY <1>1, <1>3, <2>1, OneMoreEvent
  <2>3. /\ feeds'[s] = Append(feeds[s], e) /\ feeds[s] \in Seq(Event)
        /\ \A q \in Storages : q # s => feeds'[q] = feeds[q]
    BY <1>1, <2>2
  <2>4. feeds' \in [Storages -> Seq(Event)]
    BY <1>1, <2>2, <2>3
  <2>5. DOMAIN feeds'[s] = 1..(Len(feeds[s]) + 1) /\ DOMAIN feeds[s] = 1..Len(feeds[s])
        /\ Len(feeds[s]) \in Nat
    BY <2>3
  <2>6. feeds'[s][Len(feeds[s]) + 1] = e /\ \A i \in DOMAIN feeds[s] : feeds'[s][i] = feeds[s][i]
    BY <2>3
  <2>7. \A i \in DOMAIN feeds'[s] : Belongs(feeds'[s][i].key, s)
    <3> SUFFICES ASSUME NEW i \in 1..(Len(feeds[s]) + 1)
                 PROVE  Belongs(feeds'[s][i].key, s)
      BY <2>5
    <3>1. CASE i = Len(feeds[s]) + 1
      BY <2>1, <2>6, <3>1
    <3>2. CASE i \in DOMAIN feeds[s]
      BY <1>2, <2>6, <3>2
    <3>3. QED
      BY <2>5, <3>1, <3>2
  <2>8. ASSUME NEW q \in Storages, NEW i \in DOMAIN feeds[q]
        PROVE  i \in DOMAIN feeds'[q] /\ feeds'[q][i] = feeds[q][i]
    <3>1. CASE q = s
      BY <2>5, <2>6, <3>1
    <3>2. QED
      BY <2>3, <3>1
  <2>9. \A q \in Storages : \A i \in DOMAIN feeds'[q] : Belongs(feeds'[q][i].key, q)
    BY <1>2, <2>3, <2>7
  <2>10. Len(feeds[s]) + 1 \in DOMAIN feeds'[s]
    BY <2>5
  <2>11. pc[t] = "announce" => \E i \in DOMAIN feeds'[s] : feeds'[s][i].seq = req[t].seq
    BY <2>1, <2>6, <2>10
  <2>12. QED
    BY <2>4, <2>8, <2>9, <2>11
<1>6. QED
  BY <1>4, <1>5 DEF Within

LEMMA StepStaysHome ==
    ASSUME StoredInv, ApiInv, NEW t \in Threads, NEW s \in Storages,
           Moved(t), Within(t, s), For(t, s)
    PROVE  ApiInv'
<1>1. /\ DOMAIN at' = Threads
      /\ at'[t] = IF pc'[t] = "idle" THEN NoStorage ELSE s
      /\ \A u \in Threads \ {t} : at'[u] = at[u]
  BY DEF ApiInv, For
<1>2. \A u \in Threads \ {t} : pc'[u] = pc[u] /\ req'[u] = req[u] /\ todo'[u] = todo[u]
  BY DEF Moved, OthersStay
<1>3. ASSUME NEW u \in Threads PROVE AtHome(u)'
  <2>1. CASE u = t
    BY <1>1, <2>1 DEF Within, AtHome, TodoIn
  <2>2. CASE u # t
    <3>1. AtHome(u)
      BY DEF ApiInv
    <3>2. pc'[u] = pc[u] /\ req'[u] = req[u] /\ todo'[u] = todo[u] /\ at'[u] = at[u]
      BY <1>1, <1>2, <2>2
    <3>3. QED
      BY <3>1, <3>2 DEF AtHome, TodoIn
  <2>3. QED
    BY <2>1, <2>2
<1>4. ASSUME NEW n \in 1..writes'
      PROVE  \/ \E q \in Storages : \E i \in DOMAIN feeds'[q] : feeds'[q][i].seq = n
             \/ \E u \in Threads : pc'[u] = "announce" /\ req'[u].seq = n /\ Belongs(req'[u].key, at'[u])
  <2>1. CASE n \in 1..writes
    <3>1. CASE \E q \in Storages : \E i \in DOMAIN feeds[q] : feeds[q][i].seq = n
      <4>1. PICK q \in Storages : \E i \in DOMAIN feeds[q] : feeds[q][i].seq = n
        BY <3>1
      <4>2. PICK i \in DOMAIN feeds[q] : feeds[q][i].seq = n
        BY <4>1
      <4>3. i \in DOMAIN feeds'[q] /\ feeds'[q][i] = feeds[q][i]
        BY FeedsGrow
      <4>4. QED
        BY <4>2, <4>3
    <3>2. CASE \E u \in Threads :
                  pc[u] = "announce" /\ req[u].seq = n /\ Belongs(req[u].key, at[u])
      <4>1. PICK u \in Threads : pc[u] = "announce" /\ req[u].seq = n /\ Belongs(req[u].key, at[u])
        BY <3>2
      <4>2. CASE u = t
        BY <4>1, <4>2, FeedsGrow
      <4>3. CASE u # t
        BY <1>1, <1>2, <4>1, <4>3
      <4>4. QED
        BY <4>2, <4>3
    <3>3. QED
      BY <2>1, <3>1, <3>2 DEF ApiInv, ToldOwnWatchers
  <2>2. CASE n \notin 1..writes
    <3>1. writes' = writes + 1 /\ pc'[t] = "announce" /\ req'[t].seq = writes + 1
      BY <2>2 DEF Within
    <3>2. n = writes + 1
      BY <2>2, <3>1 DEF StoredInv, CountsOK
    <3>3. Belongs(req'[t].key, at'[t])
      BY <1>1, <3>1 DEF Within
    <3>4. QED
      BY <3>1, <3>2, <3>3
  <2>3. QED
    BY <2>1, <2>2
<1>5. /\ feeds' \in [Storages -> Seq(Event)]
      /\ \A q \in Storages : \A i \in DOMAIN feeds'[q] : Belongs(feeds'[q][i].key, q)
  BY FeedsGrow
<1>6. ToldOwnWatchers'
  BY <1>4, <1>5 DEF ToldOwnWatchers
<1>7. QED
  BY <1>1, <1>3, <1>5, <1>6 DEF ApiInv

\* What a step of the versions' storages does.
ApiStep ==
    \/ \E t \in Threads, s \in Storages :
           Moved(t) /\ Within(t, s) /\ For(t, s) /\ (pc[t] = "idle" \/ at[t] = s)
    \/ UNCHANGED apiVars

LEMMA ServedStaysHome ==
    ASSUME StoredInv, ApiInv, NEW t \in Threads, NEW version \in ApiVersions, Served(t, version)
    PROVE  \E s \in Storages :
               Moved(t) /\ Within(t, s) /\ For(t, s) /\ (pc[t] = "idle" \/ at[t] = s)
<1>1. Moved(t)
  BY ServedIsStored, ServeMoves
<1>2. <<version, "polr">> \in Storages /\ <<version, "cpolr">> \in Storages
  BY DEF ApiVersions, Storages, V1Alpha1Storages, V1Alpha2Storages, V1Beta1Storages
<1>3. \A k \in PolrKeys \cap KeysOfVersion(version) : k \in Keys /\ Belongs(k, <<version, "polr">>)
  BY DEF PolrKeys, CpolrKeys, KeysOfVersion, Belongs
<1>4. \A k \in CpolrKeys \cap KeysOfVersion(version) : k \in Keys /\ Belongs(k, <<version, "cpolr">>)
  BY DEF CpolrKeys, KeysOfVersion, Belongs
<1>5. CASE /\ \/ PolrRequests(t, PolrKeys \cap KeysOfVersion(version))
              \/ at[t] = <<version, "polr">> /\ PolrCalls(t)
           /\ For(t, <<version, "polr">>)
  <2>1. Within(t, <<version, "polr">>)
    BY <1>3, <1>5, RequestsStayWithin, CallsStayWithin
  <2>2. QED
    BY <1>1, <1>2, <1>5, <2>1, RequestsStartIdle
<1>6. CASE /\ \/ CpolrRequests(t, CpolrKeys \cap KeysOfVersion(version))
              \/ at[t] = <<version, "cpolr">> /\ CpolrCalls(t)
           /\ For(t, <<version, "cpolr">>)
  <2>1. Within(t, <<version, "cpolr">>)
    BY <1>4, <1>6, RequestsStayWithin, CallsStayWithin
  <2>2. QED
    BY <1>1, <1>2, <1>6, <2>1, RequestsStartIdle
<1>7. QED
  BY <1>5, <1>6 DEF Served

LEMMA NextIsApiStep == StoredInv /\ ApiInv /\ [ApiNext]_apiVars => ApiStep
<1> SUFFICES ASSUME StoredInv, ApiInv, [ApiNext]_apiVars PROVE ApiStep
  OBVIOUS
<1>1. ASSUME NEW t \in Threads, ServeV1Alpha1(t) \/ ServeV1Alpha2(t) \/ ServeV1Beta1(t)
      PROVE  ApiStep
  <2>1. PICK version \in ApiVersions : Served(t, version)
    BY <1>1, VersionsAreServed
  <2>2. QED
    BY <2>1, ServedStaysHome DEF ApiStep
<1>2. CASE ApiQuiet
  BY <1>2 DEF ApiQuiet, StoredQuiet, Quiet, ApiStep, apiVars, storedVars
<1>3. CASE UNCHANGED apiVars
  BY <1>3 DEF ApiStep
<1>4. QED
  BY <1>1, <1>2, <1>3 DEF ApiNext

LEMMA NextKeepsApi == StoredInv /\ ApiInv /\ [ApiNext]_apiVars => ApiInv'
<1> SUFFICES ASSUME StoredInv, ApiInv, ApiStep PROVE ApiInv'
  BY NextIsApiStep
<1>1. ASSUME UNCHANGED apiVars PROVE ApiInv'
  <2>1. UNCHANGED <<at, feeds, pc, req, todo, writes>>
    BY <1>1 DEF apiVars, storedVars, vars
  <2>2. QED
    BY <2>1 DEF ApiInv, AtHome, TodoIn, ToldOwnWatchers
<1>2. QED
  BY <1>1, StepStaysHome DEF ApiStep

LEMMA InitApi == ApiInit => ApiInv
<1> SUFFICES ASSUME ApiInit PROVE ApiInv
  OBVIOUS
<1>1. /\ DOMAIN at = Threads /\ feeds = [s \in Storages |-> << >>] /\ writes = 0
      /\ \A t \in Threads : pc[t] = "idle" /\ todo[t] = << >>
  BY DEF ApiInit, StoredInit, Init, NoKeys
<1>2. feeds \in [Storages -> Seq(Event)] /\ \A s \in Storages : DOMAIN feeds[s] = {}
  BY <1>1
<1>3. 1..writes = {}
  BY <1>1
<1>4. QED
  BY <1>1, <1>2, <1>3 DEF ApiInv, AtHome, ToldOwnWatchers

LEMMA ApiInvariant == ApiSpec => [](StoredInv /\ ApiInv)
<1>1. StoredInv /\ ApiInv /\ [ApiNext]_apiVars => ApiInv'
  BY NextKeepsApi
<1>2. QED
  BY <1>1, InitApi, VersionsImplementStorages, StoredInvariant, PTL DEF ApiSpec

(* Whatever the versions, kinds, reports and stores, a step of a request to*)
(* one storage changes rows of that storage only.                          *)
THEOREM StoragesStayApart == ApiSpec => StoragesKeepApart
<1>1. ASSUME StoredInv, ApiInv, ApiStep, NEW k \in Keys, db'[k] # db[k]
      PROVE  \E t \in Threads, s \in Storages :
                 pc'[t] # pc[t] /\ s \in {at[t], at'[t]} /\ Belongs(k, s)
  <2>1. PICK t \in Threads, s \in Storages :
            Moved(t) /\ Within(t, s) /\ For(t, s) /\ (pc[t] = "idle" \/ at[t] = s)
    BY <1>1 DEF ApiStep, apiVars, storedVars, vars
  <2>2. Belongs(k, s) /\ pc'[t] # pc[t]
    BY <1>1, <2>1 DEF Within
  <2>3. s \in {at[t], at'[t]}
    BY <1>1, <2>1, <2>2 DEF ApiInv, For
  <2>4. QED
    BY <2>2, <2>3
<1>2. StoredInv /\ ApiInv /\ [ApiNext]_apiVars =>
          [\A k \in Keys : db'[k] # db[k] =>
              \E t \in Threads, s \in Storages :
                  pc'[t] # pc[t] /\ s \in {at[t], at'[t]} /\ Belongs(k, s)]_apiVars
  BY <1>1, NextIsApiStep
<1>3. QED
  BY <1>2, ApiInvariant, PTL DEF ApiSpec, StoragesKeepApart

(* Every change reaches the watchers of the report's own storage, or is    *)
(* about to, and those of no other.                                        *)
THEOREM OwnWatchersAreTold == ApiSpec => []ToldOwnWatchers
<1>1. ApiInv => ToldOwnWatchers
  BY DEF ApiInv
<1>2. QED
  BY <1>1, ApiInvariant, PTL
=============================================================================
