----------------------- MODULE PolicyReportProperties -----------------------
(***************************************************************************)
(* What the policy report storage does and does not guarantee.             *)
(***************************************************************************)
EXTENDS PolicyReportStore

-----------------------------------------------------------------------------
(* Types.                                                                  *)

Stages == {"idle", "reread", "update", "apply", "delete", "collect",
           "announce", "announceAgain"}

Outcomes == {"none", "ok", "exists", "missing", "rejected"}

ThreadsOK ==
    /\ pc \in [Threads -> Stages]
    /\ req \in [Threads -> Request \cup {NoRequest}]
    /\ res \in [Threads -> Outcomes]
    /\ DOMAIN todo = Threads
    /\ \A t \in Threads :
           /\ \A i \in DOMAIN todo[t] : todo[t][i] \in Keys
           /\ pc[t] # "idle" => req[t] \in Request
           /\ pc[t] \in {"reread", "update", "apply"} => req[t].obj \in Report

(* Every variable has its type, and a thread that is at a store call or a  *)
(* broadcaster call has a request with the object that call needs.         *)
TypeOK ==
    /\ db \in [Keys -> Report \cup {NoReport}]
    /\ ThreadsOK
    /\ log \in Seq(Event)
    /\ writes \in Nat
    /\ calls \in Nat

-----------------------------------------------------------------------------
(* Announcements: what a watcher can rely on.                              *)

Announced(n) == \E i \in DOMAIN log : log[i].seq = n

AboutToAnnounce(t, n) == pc[t] = "announce" /\ req[t].seq = n

(* No change of the store goes unannounced: each write is in the log, or   *)
(* one thread that has not replied yet is about to put it there.           *)
NoWriteForgotten ==
    \A n \in 1..writes : Announced(n) \/ \E t \in Threads : AboutToAnnounce(t, n)

(* A write is announced once.  Only DeleteCollection repeats itself, and   *)
(* then the event it repeats has already been sent (polr.go:212, 245).     *)
AnnouncedOnce ==
    /\ \A i, j \in DOMAIN log :
           log[i].seq = log[j].seq /\ log[i].seq # 0 /\ i < j => ~log[i].again /\ log[j].again
    /\ \A t \in Threads : pc[t] = "announce" /\ req[t].seq # 0 => ~Announced(req[t].seq)

(* Events are sent outside the store's mutex, so their order is not that   *)
(* of the writes; but an event overtakes at most one earlier write of each *)
(* other thread, since a thread announces before its next write.           *)
BoundedOvertaking ==
    \A i \in DOMAIN log :
        Cardinality({n \in 1..(log[i].seq - 1) : \A j \in 1..i : log[j].seq # n})
            < Cardinality(Threads)

LastEvent(k) ==
    LET about == {i \in DOMAIN log : log[i].key = k}
    IN  IF about = {} THEN NoReport
        ELSE log[CHOOSE i \in about : \A j \in about : j <= i]

\* The last event on k shows what is stored.
Known(k) ==
    IF Found(k) THEN /\ LastEvent(k) # NoReport
                     /\ LastEvent(k).type = "Added" /\ LastEvent(k).obj = db[k]
                ELSE LastEvent(k) = NoReport \/ LastEvent(k).type = "Deleted"

(* A watcher that has read every event knows the stored state of each      *)
(* report no request is working on: the last event on it carries it.       *)
WatchersConverge ==
    \A k \in Keys : (\A t \in Threads : k \notin WorkingOn(t)) => Known(k)

-----------------------------------------------------------------------------
(* What a step may do to a stored report.                                  *)

Appears(k) == ~Found(k) /\ db'[k] # NoReport
Changes(k) == Found(k) /\ db'[k] # NoReport /\ db'[k] # db[k]
Vanishes(k) == Found(k) /\ db'[k] = NoReport

(* A deleted report stays deleted: no update that was under way when the   *)
(* deletion happened brings it back.  A report appears only as a new one,  *)
(* with the first resource version and a UID no event has carried.         *)
NoResurrection ==
    [][\A k \in Keys : Appears(k) =>
          /\ db'[k].rv = 1
          /\ \A j \in Keys : Found(j) => db[j].uid # db'[k].uid
          /\ \A i \in DOMAIN log : log[i].obj # NoReport => log[i].obj.uid # db'[k].uid]_vars

(* A dry run changes nothing, "modifications should not be persisted"      *)
(* (pkg/api/generated/openapi/zz_generated.openapi.go:1717).               *)
DryRunPersistsNothing ==
    [][\A t \in Threads :
          db' # db /\ pc'[t] = "announce" /\ pc[t] # "announce" => ~req'[t].dry]_vars

(* An update (not an apply, which starts over at 1) of a report shows in   *)
(* its resource version, which "can be used by clients to determine when   *)
(* objects have changed. May be used for optimistic concurrency"           *)
(* (pkg/api/generated/openapi/zz_generated.openapi.go:1405).               *)
VersionAdvances ==
    [][\A t \in Threads, k \in Keys :
          pc[t] = "update" /\ pc'[t] = "announce" /\ Changes(k) => db'[k].rv > db[k].rv]_vars

(* The report in a Deleted event is "the state of the object immediately   *)
(* before deletion" (zz_generated.openapi.go:2400).                        *)
DeletedIsLastState ==
    [][\A t \in Threads : pc[t] = "delete" /\ Vanishes(req[t].key)
           /\ pc'[t] = "announce" => req'[t].obj = db[req[t].key]]_vars

(* A request that has found the report it is about is not refused later on *)
(* because the report is gone: nobody else deletes it meanwhile, and       *)
(* DeleteCollection does not meet an item twice.                           *)
NoMidwayRefusal ==
    [][\A t \in Threads : pc[t] \in {"reread", "update", "delete", "collect"} =>
          res'[t] # "missing"]_vars

-----------------------------------------------------------------------------
(* Requests end.                                                           *)

\* At most how many calls a request makes from a stage on, without those for
\* other items of a collection.
CallsFrom(stage) ==
    CASE stage = "idle" -> 0
      [] stage = "announceAgain" -> 1
      [] stage = "announce" -> 2
      [] stage \in {"update", "apply", "delete"} -> 3
      [] stage \in {"reread", "collect"} -> 4

CallsLeft(t) == CallsFrom(pc[t]) + 4 * Cardinality(DOMAIN todo[t])

(* No handler loops or starts over: whatever the others do to the store,   *)
(* each step of a request leaves it fewer calls to make, at most four for  *)
(* each report that its list found (polr.go:225-247).                      *)
RequestsGetShorter ==
    [][\A t \in Threads : pc[t] # "idle" =>
          \/ CallsLeft(t)' < CallsLeft(t)
          \/ UNCHANGED <<pc[t], req[t], todo[t]>>]_vars

=============================================================================
