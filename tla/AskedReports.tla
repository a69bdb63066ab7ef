---------------------------- MODULE AskedReports ----------------------------
(***************************************************************************)
(* The policy report storage beside what its clients asked for.  A thread  *)
(* forgets its request when it replies, and one that replies at its first  *)
(* call never stores it; the history variable asked keeps it, so that the  *)
(* reply and the changes can be held against it.  It only records: no      *)
(* action reads it, and the rest of the state changes as in Spec.          *)
(***************************************************************************)
EXTENDS PolicyReportProperties

VARIABLE asked      \* asked[t]: what the request asks that t serves or served last

askedVars == <<vars, asked>>

\* What stands for the labels in a request without a report.
NoLabels == << >>

Question == [verb : AllVerbs, keys : SUBSET Keys,
             labels : LabelMaps \cup {NoLabels}, dry : BOOLEAN]

ASSUME QuestionAssumption == NoRequest \notin Question

AskedInit == Init /\ asked = [t \in Threads |-> NoRequest]

\* A request about the keys ks.
Ask(verb, ks, labels, dry) ==
    [verb |-> verb, keys |-> ks, labels |-> labels, dry |-> dry]

\* Thread t is handed the request q.
Asks(t, q) == asked' = [asked EXCEPT ![t] = q]

\* A request arrives and the first call of its handler is made.
AskedRequest(t) ==
    \/ \E k \in Keys, labels \in LabelMaps, dry \in BOOLEAN :
           \/ CreateReport(t, k, labels, dry) /\ Asks(t, Ask("create", {k}, labels, dry))
           \/ /\ \E uid \in 0..writes : UpdateGet(t, k, labels, uid, dry)
              /\ Asks(t, Ask("update", {k}, labels, dry))
           \/ ApplyGet(t, k, labels, dry) /\ Asks(t, Ask("apply", {k}, labels, dry))
    \/ \E k \in Keys, dry \in BOOLEAN :
           DeleteGet(t, k, dry) /\ Asks(t, Ask("delete", {k}, NoLabels, dry))
    \/ \E ns \in Namespaces, selector \in Selectors, dry \in BOOLEAN :
           /\ CollectionList(t, ns, selector, dry)
           /\ Asks(t, Ask("deletecollection", KeysOf(ns), NoLabels, dry))

\* The handler that t runs makes its next call.
AskedCall(t) ==
    /\ \/ UpdateReread(t) \/ UpdateStore(t) \/ ApplyStore(t)
       \/ DeleteStore(t) \/ CollectionItem(t)
       \/ Announce(t) \/ AnnounceAgain(t)
    /\ UNCHANGED asked

AskedNext ==
    \/ \E t \in Threads : AskedRequest(t) \/ AskedCall(t)
    \/ Quiet /\ UNCHANGED asked

AskedSpec == AskedInit /\ [][AskedNext]_askedVars

-----------------------------------------------------------------------------
(* The promise of ReportFeed.                                              *)

Unsent(t) ==
    CASE pc[t] = "announce" -> EventOf(req[t], FALSE)
      [] pc[t] = "announceAgain" -> EventOf(req[t], TRUE)
      [] OTHER -> NoRequest

Feed == INSTANCE ReportFeed WITH
            unsent <- [t \in Threads |-> Unsent(t)], Nothing <- NoRequest,
            FalseClaims <- "apply" \in Verbs

(* Each request, a collection aside, changes the dictionary at most once,  *)
(* at the key it names and as it asks, and its answer is true of that key  *)
(* when it is given: an update or a deletion of a report that has gone     *)
(* meanwhile is answered "missing", never "ok" (polr.go:180, 209, 381).  A *)
(* change is fed to the watchers before its request is answered "ok".  A   *)
(* collection is a series of such deletions, not one step, and only        *)
(* server-side apply may feed a report that it did not store (polr.go:141).*)
ImplementsFeed == Feed!Spec
=============================================================================
