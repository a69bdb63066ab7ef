------------------------ MODULE BroadcasterProperties ------------------------
(***************************************************************************)
(* What handlers and watchers get from a broadcaster.                      *)
(***************************************************************************)
EXTENDS Broadcaster

Promised == INSTANCE EventLog WITH Events <- 1..MaxEvents

(* The channels, the mutex and the loop amount to one log that every       *)
(* watcher follows from its Watch call on, without gap or repetition, and  *)
(* with every event arriving although others stall (polr.go:33, 252).      *)
FollowsTheLog == Promised!FairSpec

(* Every call of Action returns, so a handler that has changed the store   *)
(* answers its client, as long as each watcher reads or is stopped         *)
(* (polr.go:127, 183, 212).                                                *)
ActionsReturn == \A s \in Senders : stage[s] = "lock" ~> stage[s] = "idle"

(* So does every Watch and every Stop, which wait for the loop while they  *)
(* hold the mutex (polr.go:252).                                           *)
WatchAndStopReturn ==
    \A w \in Watchers : stage[w] = "lock" ~> stage[w] \in {"following", "stalled", "gone"}

\* Something in the broadcaster can move: the mutex is free for someone, there
\* is room for who has it, or the loop has an item to take or to hand on.
CanMove ==
    \/ lock = Nobody /\ \E p \in Processes : stage[p] = "lock"
    \/ Len(incoming) < QueueLimit /\ \E p \in Processes : stage[p] = "send"
    \/ LoopIdle
    \/ event # NoEvent /\ (Len(result[Head(rest)]) < ResultLimit \/ MayPassOver(Head(rest)))

(* Callers, mutex, loop and watchers never wait for each other in a circle:*)
(* while a call of Action, Watch or Stop is under way the broadcaster can  *)
(* move, or it waits for one client that watches and does not read, and    *)
(* whose request has not ended (polr.go:33).                               *)
NoCircularWait ==
    (\E p \in Processes : stage[p] \in {"lock", "send", "wait"}) =>
        \/ CanMove
        \/ event # NoEvent /\ stage[Head(rest)] \in {"following", "stalled"}

\* How many events wait in the common channel, where a function to run, if
\* there is one, is the last item: its watcher keeps the mutex.
Queued ==
    IF incoming # << >> /\ incoming[Len(incoming)] \in Watchers
    THEN Len(incoming) - 1 ELSE Len(incoming)

\* The events that the loop has yet to put in the channel of w.
Underway(w) ==
    (IF w \in ToSet(rest) THEN <<event>> ELSE << >>) \o SubSeq(incoming, 1, Queued)

(* What a watcher has, what waits in its channel and what the loop still   *)
(* has for it make up the log since it joined; the channels never exceed   *)
(* their capacities; who waits for the loop holds the mutex, so a function *)
(* to run has no event behind it.                                          *)
NothingLost ==
    /\ Len(incoming) <= QueueLimit
    /\ \A p \in Processes : stage[p] \in {"send", "wait"} => lock = p
    /\ \A i \in 1..Queued : incoming[i] \notin Watchers
    /\ \A w \in Watchers :
           /\ Len(result[w]) <= ResultLimit
           /\ from[w] # Away =>
                  got[w] \o result[w] \o Underway(w) = SubSeq(log, from[w] + 1, Len(log))
=============================================================================
