-------------------------- MODULE WatchedProperties --------------------------
(***************************************************************************)
(* What the clients of the storage can rely on: those that write and those *)
(* that watch.                                                             *)
(***************************************************************************)
EXTENDS WatchedReports, PolicyReportProperties

Follows(w) == from[w] # Away

\* The events that w has and those on their way to it.
Sent(w) == got[w] \o result[w] \o Channel!Underway(w)

(* A watcher misses no change: of every write made since it began to follow*)
(* it has the event, or the event is on its way to it, or the request that *)
(* wrote has not announced it yet (polr.go:127, 252).                      *)
NoWriteMissed ==
    \A w \in Watchers : Follows(w) =>
        \A n \in (since[w] + 1)..writes :
            \/ \E t \in Threads : AboutToAnnounce(t, n)
            \/ \E i \in DOMAIN Sent(w) : log[Sent(w)[i]].seq = n

CaughtUp(w) == Follows(w) /\ from[w] + Len(got[w]) = Len(log)

ReadAbout(w, k) == {i \in DOMAIN got[w] : log[got[w][i]].key = k}

(* The last event that a watcher has read about a report shows what is     *)
(* stored, when it has read all there is and no request is working on the  *)
(* report (polr.go:127, 183, 212).                                         *)
LastReadIsStored ==
    \A w \in Watchers, k \in Keys :
        CaughtUp(w) /\ (\A t \in Threads : k \notin WorkingOn(t)) =>
            \A i \in ReadAbout(w, k) : (\A j \in ReadAbout(w, k) : j <= i) =>
                LET e == log[got[w][i]]
                IN  IF Found(k) THEN e.type = "Added" /\ e.obj = db[k] ELSE e.type = "Deleted"

(* Every request is answered, however many announce changes at a time and  *)
(* although watchers stall, if those that stall are stopped                *)
(* (polr.go:33, 127, 183, 212, 245).                                       *)
RequestsAnswered == \A t \in Threads : pc[t] # "idle" ~> pc[t] = "idle"

(* Every change gets to every client that watches and reads.               *)
ChangesArrive ==
    \A n \in 1..MaxEvents, w \in Watchers :
        writes >= n /\ Follows(w) /\ since[w] < n ~>
            ~Follows(w) \/ \E i \in DOMAIN got[w] : log[got[w][i]].seq = n
=============================================================================
