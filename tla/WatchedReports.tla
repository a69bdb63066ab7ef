---------------------------- MODULE WatchedReports ----------------------------
(***************************************************************************)
(* The handlers of pkg/api/polr.go with the broadcaster in the place of a  *)
(* log: a thread that announces a change calls Action, competes for the    *)
(* mutex, and carries on when its event is in the common channel.  Watch   *)
(* requests come and go.  The broadcaster is that of Broadcaster, whose    *)
(* events are the positions in the handlers' log.                          *)
(***************************************************************************)
EXTENDS PolicyReportStore

CONSTANTS
    Watchers, QueueLimit, ResultLimit, Away,
    MaxEvents       \* bound: calls of Action in a behaviour

VARIABLES
    stage, lock, incoming, watchers, event, rest, result, stopped, got, from,
    actions,    \* how many times Action was called
    since       \* since[w]: how many writes there were when w began to follow

Positions == [n \in DOMAIN log |-> n]

Channel == INSTANCE BroadcasterProperties WITH
               Senders <- Threads, log <- Positions, events <- actions

ASSUME LimitsAssumption == {QueueLimit, ResultLimit, MaxEvents} \subseteq Nat \ {0}

ASSUME NamesAssumption ==
    /\ Threads \cap Watchers = {}
    /\ \A p \in Threads \cup Watchers : p \notin Nat /\ p # "nobody"
    /\ Away \notin Nat

channelVars ==
    <<stage, lock, incoming, watchers, event, rest, result, stopped, got, from, actions>>

watchedVars == <<vars, channelVars, since>>

WatchedInit == Init /\ Channel!Init /\ since = [w \in Watchers |-> 0]

-----------------------------------------------------------------------------
\* The handler calls Action next, or is in it.
AtAction(t) == pc[t] \in {"announce", "announceAgain"}

\* A step of a handler up to its call of Action.
Handle(t) ==
    /\ ~AtAction(t) /\ Serve(t)
    /\ UNCHANGED <<channelVars, since>>

CallAction(t) ==
    /\ AtAction(t)
    /\ UNCHANGED <<vars, since>>
    /\ Channel!CallAction(t)

\* The event is in the channel: Action returns, the handler goes on.
SendEvent(t) ==
    /\ Announce(t) \/ AnnounceAgain(t)
    /\ Channel!SendEvent(t)
    /\ UNCHANGED since

Lock(p) == UNCHANGED <<vars, since>> /\ Channel!Lock(p)

\* The request of a watcher: its calls, and what its client is sent.
Watch(w) ==
    /\ UNCHANGED <<vars, since>>
    /\ \/ Channel!CallWatch(w) \/ Channel!CallStop(w) \/ Channel!SendFunction(w)
       \/ Channel!Read(w) \/ Channel!Stall(w)

\* The loop; when it runs the function of Watch the watcher begins to follow.
Loop ==
    /\ UNCHANGED vars
    /\ Channel!Loop
    /\ since' = [w \in Watchers |->
           IF from'[w] = from[w] THEN since[w] ELSE writes]

\* The bound on requests is reached and nothing is under way.
AllTold ==
    /\ Quiet
    /\ incoming = << >> /\ event = Channel!NoEvent
    /\ \A w \in Watchers : stage[w] \notin {"lock", "send", "wait"}
    /\ UNCHANGED watchedVars

WatchedNext ==
    \/ \E t \in Threads : Handle(t) \/ CallAction(t) \/ SendEvent(t)
    \/ \E w \in Watchers : Watch(w)
    \/ \E p \in Threads \cup Watchers : Lock(p)
    \/ Loop \/ AllTold

WatchedSpec == WatchedInit /\ [][WatchedNext]_watchedVars

(***************************************************************************)
(* As in Broadcaster, and the goroutine of a request runs.  Nothing makes a*)
(* client send a request or watch.                                         *)
(***************************************************************************)
FairWatchedSpec ==
    /\ WatchedSpec
    /\ WF_watchedVars(Loop)
    /\ \A t \in Threads :
           /\ WF_watchedVars(pc[t] # "idle" /\ Handle(t)) /\ WF_watchedVars(CallAction(t))
           /\ SF_watchedVars(Lock(t)) /\ WF_watchedVars(SendEvent(t))
    /\ \A w \in Watchers :
           /\ SF_watchedVars(Lock(w)) /\ WF_watchedVars(stage[w] = "send" /\ Watch(w))
           /\ WF_watchedVars(UNCHANGED <<vars, since>> /\ Channel!Read(w))
           /\ WF_watchedVars(stage[w] = "stalled" /\ Watch(w))
=============================================================================
