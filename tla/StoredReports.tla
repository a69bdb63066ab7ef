---------------------------- MODULE StoredReports ----------------------------
(***************************************************************************)
(* The REST storages of both kinds of report, polrStore of pkg/api/polr.go *)
(* and cpolrStore of pkg/api/cpolr.go, over the store that NewStorage      *)
(* chose.  What does not write to the store is that of PolicyReportStore.  *)
(* A cluster report's key has one of ClusterScopes for its namespace.      *)
(***************************************************************************)
EXTENDS PolicyReportStore, Storage

CONSTANT ClusterScopes

ASSUME ScopesAssumption == ClusterScopes \subseteq Namespaces

PolrKeys == {k \in Keys : k[1] \notin ClusterScopes}
CpolrKeys == {k \in Keys : k[1] \in ClusterScopes}

storedVars == <<vars, storageVars>>

StoredInit == Init /\ StorageInit

\* A store call of t's request r returned err; a failure ends the request.
AfterCall(t, r, err) ==
    IF err = "none" THEN Written(t, r) ELSE Reply(t, err) /\ UNCHANGED writes

-----------------------------------------------------------------------------
(* polrStore: the calls that write.                                        *)

PolrCreate(t, k, labels, dry) ==
    LET r == NewRequest("create", k, dry, CreatedReport(labels))
    IN  /\ Accept(t, "create", {k})
        /\ \/ Reply(t, "rejected") /\ UNCHANGED <<db, writes, storageVars>>
           \/ dry /\ Reply(t, "ok") /\ UNCHANGED <<db, writes, storageVars>>
           \/ ~dry /\ \E err \in StoreErrors : StoreCreate(k, r.obj, err) /\ AfterCall(t, r, err)
        /\ UNCHANGED log

\* The revision of the row is passed, not one that the report carries.
UpdateCallAsOfNow(t) ==
    /\ pc[t] = "update"
    /\ \E err \in StoreErrors :
           /\ StoreUpdate(req[t].key, modified[req[t].key], req[t].obj, err)
           /\ AfterCall(t, req[t], err)
    /\ UNCHANGED <<log, calls>>

\* updatePolr: the revision it passes is the resource version it has just set.
UpdateCall(t) ==
    /\ pc[t] = "update"
    /\ \E err \in StoreErrors :
           /\ StoreUpdate(req[t].key, req[t].obj.rv, req[t].obj, err)
           /\ AfterCall(t, req[t], err)
    /\ UNCHANGED <<log, calls>>

\* updatePolr with force, for both kinds; its error is dropped.
ApplyCall(t) ==
    /\ pc[t] = "apply"
    /\ \E err \in StoreErrors :
           /\ StoreUpdate(req[t].key, 1, req[t].obj, err)
           /\ IF err = "none" THEN Written(t, req[t])
                              ELSE Continue(t, "announce", req[t]) /\ UNCHANGED writes
    /\ UNCHANGED <<log, calls>>

\* The deletion is not announced.
DeleteCallSilently(t) ==
    /\ pc[t] = "delete"
    /\ \E err \in StoreErrors :
           /\ StoreDelete(req[t].key, req[t].obj.rv, err)
           /\ writes' = IF err = "none" THEN writes + 1 ELSE writes
           /\ Reply(t, IF err = "none" THEN "ok" ELSE err)
    /\ UNCHANGED <<log, calls>>

\* The revision of the row is passed, not the report's version.
DeleteCallAsOfNow(t) ==
    /\ pc[t] = "delete"
    /\ \E err \in StoreErrors :
           /\ StoreDelete(req[t].key, modified[req[t].key], err)
           /\ AfterCall(t, req[t], err)
    /\ UNCHANGED <<log, calls>>

\* deletePolr of both kinds: the revision is that of the report read before.
DeleteCall(t) ==
    /\ pc[t] = "delete"
    /\ \E err \in StoreErrors :
           /\ StoreDelete(req[t].key, req[t].obj.rv, err)
           /\ AfterCall(t, req[t], err)
    /\ UNCHANGED <<log, calls>>

-----------------------------------------------------------------------------
(* cpolrStore.                                                             *)

\* createCpolr with the call its name promises.
CreateCpolrCreates(k, obj, err) == StoreCreate(k, obj, err)

\* createCpolr numbers the report like a new one but calls Update, with
\* revision 1.
CreateCpolr(k, obj, err) == StoreUpdate(k, 1, obj, err)

CpolrCreate(t, k, labels, dry) ==
    LET r == NewRequest("create", k, dry, CreatedReport(labels))
    IN  /\ Accept(t, "create", {k})
        /\ \/ Reply(t, "rejected") /\ UNCHANGED <<db, writes, storageVars>>
           \/ dry /\ Reply(t, "ok") /\ UNCHANGED <<db, writes, storageVars>>
           \/ ~dry /\ \E err \in StoreErrors : CreateCpolr(k, r.obj, err) /\ AfterCall(t, r, err)
        /\ UNCHANGED log

\* Update reads the report, then makes a new one of the client's object.
CpolrUpdate(t, k, labels, dry) ==
    /\ Accept(t, "update", {k})
    /\ \/ ~Found(k) /\ Reply(t, "missing")
       \/ Found(k) /\ Reply(t, "rejected")
       \/ Found(k) /\ dry /\ Reply(t, "ok")
       \/ Found(k) /\ ~dry /\ Continue(t, "recreate",
              NewRequest("update", k, dry, [uid |-> 0, rv |-> 1, labels |-> labels]))
    /\ UNCHANGED <<db, log, writes>>

CpolrUpdateCall(t) ==
    LET r == [req[t] EXCEPT !.obj = CreatedReport(req[t].obj.labels)]
    IN  /\ pc[t] = "recreate"
        /\ \E err \in StoreErrors : CreateCpolr(r.key, r.obj, err) /\ AfterCall(t, r, err)
        /\ UNCHANGED <<log, calls>>

-----------------------------------------------------------------------------
(* The handlers, for the reports whose keys are in ks.                     *)

\* Delete and DeleteCollection, and Update with forceAllowCreate: alike.
CommonRequests(t, ks) ==
    /\ \/ \E k \in ks, dry \in BOOLEAN :
              \/ \E labels \in LabelMaps : ApplyGet(t, k, labels, dry)
              \/ DeleteGet(t, k, dry)
       \/ \E ns \in {k[1] : k \in ks}, selector \in Selectors, dry \in BOOLEAN :
              CollectionList(t, ns, selector, dry)
    /\ UNCHANGED storageVars

PolrRequests(t, ks) ==
    \/ \E k \in ks, labels \in LabelMaps, dry \in BOOLEAN :
           \/ PolrCreate(t, k, labels, dry)
           \/ \E uid \in 0..writes :
                  UpdateGet(t, k, labels, uid, dry) /\ UNCHANGED storageVars
    \/ CommonRequests(t, ks)

CpolrRequests(t, ks) ==
    \/ \E k \in ks, labels \in LabelMaps, dry \in BOOLEAN :
           \/ CpolrCreate(t, k, labels, dry)
           \/ CpolrUpdate(t, k, labels, dry) /\ UNCHANGED storageVars
    \/ CommonRequests(t, ks)

CommonCalls(t) ==
    \/ ApplyCall(t) \/ DeleteCall(t)
    \/ (CollectionItem(t) \/ Announce(t) \/ AnnounceAgain(t)) /\ UNCHANGED storageVars

PolrCalls(t) ==
    /\ req[t] # NoRequest /\ req[t].key \in PolrKeys
    /\ \/ UpdateReread(t) /\ UNCHANGED storageVars
       \/ UpdateCall(t) \/ CommonCalls(t)

CpolrCalls(t) ==
    /\ req[t] # NoRequest /\ req[t].key \in CpolrKeys
    /\ CpolrUpdateCall(t) \/ CommonCalls(t)

ServePolr(t) == PolrRequests(t, PolrKeys) \/ PolrCalls(t)
ServeCpolr(t) == CpolrRequests(t, CpolrKeys) \/ CpolrCalls(t)

StoredQuiet == Quiet /\ UNCHANGED storageVars

StoredNext == (\E t \in Threads : ServePolr(t) \/ ServeCpolr(t)) \/ StoredQuiet

StoredSpec == StoredInit /\ [][StoredNext]_storedVars
=============================================================================
