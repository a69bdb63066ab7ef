---------------------------- MODULE VersionedApis ----------------------------
(***************************************************************************)
(* The copies of both REST storages in pkg/api/v1alpha1, v1alpha2 and      *)
(* v1beta1, installed by their V1...Install functions on one store.  The   *)
(* files differ from pkg/api in the version of their types, which is part  *)
(* of every storage key: a scope here is a pair <<version, namespace>>.    *)
(* They differ, too, in what Delete answers and DeleteCollection sends a   *)
(* second time: pkg/api converts the report to an unstructured object there*)
(* (polr.go:215, cpolr.go:201), the copies do not; the report in the event *)
(* is the same.                                                            *)
(* Each storage has a broadcaster of its own, and a thread serves a request*)
(* to one storage from its first step to its last.                         *)
(***************************************************************************)
EXTENDS StoredReports

VARIABLES
    at,     \* at[t]: the storage whose request thread t serves
    feeds   \* feeds[s]: the events that the broadcaster of storage s accepted

apiVars == <<storedVars, at, feeds>>

NoStorage == <<"none", "none">>

KeysOfVersion(version) == {k \in Keys : k[1][1] = version}

\* What Build of each version's install.go enters in its storage map.
V1Alpha1Storages == {<<"v1alpha1", "polr">>, <<"v1alpha1", "cpolr">>}
V1Alpha2Storages == {<<"v1alpha2", "polr">>, <<"v1alpha2", "cpolr">>}
V1Beta1Storages == {<<"v1beta1", "polr">>, <<"v1beta1", "cpolr">>}

Storages == V1Alpha1Storages \cup V1Alpha2Storages \cup V1Beta1Storages

ApiInit ==
    /\ StoredInit
    /\ at = [t \in Threads |-> NoStorage]
    /\ feeds = [s \in Storages |-> << >>]

\* The broadcaster of every storage gets the event.
HeardByAll(t, s) ==
    /\ at' = [at EXCEPT ![t] = IF pc'[t] = "idle" THEN NoStorage ELSE s]
    /\ feeds' = [r \in Storages |-> feeds[r] \o SubSeq(log', Len(log) + 1, Len(log'))]

\* Thread t takes a step for storage s; what it sends goes to s's broadcaster.
For(t, s) ==
    /\ at' = [at EXCEPT ![t] = IF pc'[t] = "idle" THEN NoStorage ELSE s]
    /\ feeds' = [feeds EXCEPT ![s] = @ \o SubSeq(log', Len(log) + 1, Len(log'))]

-----------------------------------------------------------------------------
(* The keys, by key and keyForList of each file.                           *)

V1Alpha1PolrKeys == PolrKeys \cap KeysOfVersion("v1alpha1")
V1Alpha1CpolrKeys == CpolrKeys \cap KeysOfVersion("v1alpha1")
V1Alpha2PolrKeys == PolrKeys \cap KeysOfVersion("v1alpha2")
V1Alpha2CpolrKeys == CpolrKeys \cap KeysOfVersion("v1alpha2")

\* The import of the copied file was left at v1alpha2.
V1Beta1PolrKeysOfV1Alpha2 == V1Alpha2PolrKeys

V1Beta1PolrKeys == PolrKeys \cap KeysOfVersion("v1beta1")
V1Beta1CpolrKeys == CpolrKeys \cap KeysOfVersion("v1beta1")

-----------------------------------------------------------------------------
(* The handlers of each file up to their first store call, and the rest;   *)
(* that of cluster reports is reached only if the API server builds objects*)
(* for applies.                                                            *)

V1Alpha1PolrRequests(t) == PolrRequests(t, V1Alpha1PolrKeys)
V1Alpha1PolrCalls(t) == at[t] = <<"v1alpha1", "polr">> /\ PolrCalls(t)
V1Alpha1Polr(t) ==
    (V1Alpha1PolrRequests(t) \/ V1Alpha1PolrCalls(t)) /\ For(t, <<"v1alpha1", "polr">>)

V1Alpha1CpolrRequests(t) == CpolrRequests(t, V1Alpha1CpolrKeys)
V1Alpha1CpolrCalls(t) == at[t] = <<"v1alpha1", "cpolr">> /\ CpolrCalls(t)
V1Alpha1Cpolr(t) ==
    (V1Alpha1CpolrRequests(t) \/ V1Alpha1CpolrCalls(t)) /\ For(t, <<"v1alpha1", "cpolr">>)

V1Alpha2PolrRequests(t) == PolrRequests(t, V1Alpha2PolrKeys)
V1Alpha2PolrCalls(t) == at[t] = <<"v1alpha2", "polr">> /\ PolrCalls(t)
V1Alpha2Polr(t) ==
    (V1Alpha2PolrRequests(t) \/ V1Alpha2PolrCalls(t)) /\ For(t, <<"v1alpha2", "polr">>)

V1Alpha2CpolrRequests(t) == CpolrRequests(t, V1Alpha2CpolrKeys)
V1Alpha2CpolrCalls(t) == at[t] = <<"v1alpha2", "cpolr">> /\ CpolrCalls(t)
V1Alpha2Cpolr(t) ==
    (V1Alpha2CpolrRequests(t) \/ V1Alpha2CpolrCalls(t)) /\ For(t, <<"v1alpha2", "cpolr">>)

V1Beta1PolrRequests(t) == PolrRequests(t, V1Beta1PolrKeys)
V1Beta1PolrCalls(t) == at[t] = <<"v1beta1", "polr">> /\ PolrCalls(t)
V1Beta1Polr(t) ==
    (V1Beta1PolrRequests(t) \/ V1Beta1PolrCalls(t)) /\ For(t, <<"v1beta1", "polr">>)

V1Beta1CpolrRequests(t) == CpolrRequests(t, V1Beta1CpolrKeys)
V1Beta1CpolrCalls(t) == at[t] = <<"v1beta1", "cpolr">> /\ CpolrCalls(t)
V1Beta1Cpolr(t) ==
    (V1Beta1CpolrRequests(t) \/ V1Beta1CpolrCalls(t)) /\ For(t, <<"v1beta1", "cpolr">>)

ServeV1Alpha1(t) == V1Alpha1Polr(t) \/ V1Alpha1Cpolr(t)
ServeV1Alpha2(t) == V1Alpha2Polr(t) \/ V1Alpha2Cpolr(t)
ServeV1Beta1(t) == V1Beta1Polr(t) \/ V1Beta1Cpolr(t)

ApiQuiet == StoredQuiet /\ UNCHANGED <<at, feeds>>

ApiNext ==
    \/ \E t \in Threads : ServeV1Alpha1(t) \/ ServeV1Alpha2(t) \/ ServeV1Beta1(t)
    \/ ApiQuiet

ApiSpec == ApiInit /\ [][ApiNext]_apiVars

-----------------------------------------------------------------------------
Belongs(k, s) == k[1][1] = s[1] /\ (k \in CpolrKeys <=> s[2] = "cpolr")

(* A request to one storage changes rows of that storage only: the versions*)
(* share the map and the mutex of the store but no row (polr.go:280 and    *)
(* cpolr.go:265 of each version).                                          *)
StoragesKeepApart ==
    [][\A k \in Keys : db'[k] # db[k] =>
          \E t \in Threads, s \in Storages :
              pc'[t] # pc[t] /\ s \in {at[t], at'[t]} /\ Belongs(k, s)]_apiVars

(* A broadcaster per storage is enough: every change is in the feed of the *)
(* storage that the report belongs to, or the thread that made it is about *)
(* to put it there; watchers of other storages never hear of the report.   *)
ToldOwnWatchers ==
    /\ \A s \in Storages : \A i \in DOMAIN feeds[s] : Belongs(feeds[s][i].key, s)
    /\ \A n \in 1..writes :
           \/ \E s \in Storages : \E i \in DOMAIN feeds[s] : feeds[s][i].seq = n
           \/ \E t \in Threads :
                  pc[t] = "announce" /\ req[t].seq = n /\ Belongs(req[t].key, at[t])
=============================================================================
