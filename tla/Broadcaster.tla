----------------------------- MODULE Broadcaster -----------------------------
(***************************************************************************)
(* The broadcaster each storage creates with NewBroadcaster(1000,          *)
(* WaitIfChannelFull): one of the library's, seen from pkg/api, whose      *)
(* handlers call Action and Watch and whose watchers the API server reads  *)
(* and stops.  Action, Watch and Stop put an item in one bounded channel   *)
(* under one mutex; a goroutine, the loop, takes the items out and copies  *)
(* each event to the bounded channel of every watcher.                     *)
(***************************************************************************)
EXTENDS Naturals, Sequences, SequencesExt, FiniteSets

CONSTANTS
    Senders,        \* handlers that call Action
    Watchers,       \* handlers of watch requests
    QueueLimit,     \* the capacity of the common channel, 25 in the library
    ResultLimit,    \* the capacity of a watcher's channel, 1000 in the code
    MaxEvents,      \* bound: calls of Action in a behaviour
    Away            \* the position of a watcher that does not follow the log

ASSUME LimitsAssumption == {QueueLimit, ResultLimit, MaxEvents} \subseteq Nat \ {0}

\* A call of Action is no call of Watch, and neither is an event, which the
\* model numbers, nor the lack of a position in the log or of a lock holder.
ASSUME NamesAssumption ==
    /\ Senders \cap Watchers = {}
    /\ \A p \in Senders \cup Watchers : p \notin Nat /\ p # "nobody"
    /\ Away \notin Nat

VARIABLES
    stage,      \* stage[p]: how far p is in its call, or what it does instead
    lock,       \* who holds the mutex of Action, Watch and Stop
    incoming,   \* the common channel: events and watchers' requests
    watchers,   \* those the loop sends to
    event,      \* the event the loop is distributing
    rest,       \* the watchers it has yet to send it to, in the map's order
    result,     \* result[w]: w's channel
    stopped,    \* the watchers whose stopped channel is closed
    got,        \* got[w]: what w's client was sent
    log,        \* the events in the order they entered the common channel
    from,       \* from[w]: the length of the log when w joined
    events      \* how many times Action was called

vars == <<stage, lock, incoming, watchers, event, rest, result, stopped,
          got, log, from, events>>

Processes == Senders \cup Watchers
Nobody == "nobody"
NoEvent == 0

Init ==
    /\ stage = [p \in Processes |-> "idle"]
    /\ lock = Nobody
    /\ incoming = << >>
    /\ watchers = {}
    /\ event = NoEvent /\ rest = << >>
    /\ result = [w \in Watchers |-> << >>]
    /\ stopped = {}
    /\ got = [w \in Watchers |-> << >>]
    /\ log = << >>
    /\ from = [w \in Watchers |-> Away]
    /\ events = 0

loopVars == <<watchers, event, rest, stopped, from>>

-----------------------------------------------------------------------------
(* The calls of the handlers.                                              *)

\* A handler calls Action with its next event.
CallAction(s) ==
    /\ stage[s] = "idle" /\ events < MaxEvents
    /\ stage' = [stage EXCEPT ![s] = "lock"]
    /\ events' = events + 1
    /\ UNCHANGED <<lock, incoming, result, got, log, loopVars>>

CallWatch(w) ==
    /\ stage[w] = "idle"
    /\ stage' = [stage EXCEPT ![w] = "lock"]
    /\ UNCHANGED <<lock, incoming, result, got, log, events, loopVars>>

\* The watch request ends: Stop closes the stopped channel before it asks for
\* the mutex.
CallStop(w) ==
    /\ stage[w] \in {"following", "stalled"}
    /\ stage' = [stage EXCEPT ![w] = "lock"]
    /\ stopped' = stopped \cup {w}
    /\ from' = [from EXCEPT ![w] = Away]
    /\ UNCHANGED <<lock, incoming, result, got, log, events, watchers, event, rest>>

Lock(p) ==
    /\ stage[p] = "lock" /\ lock = Nobody
    /\ stage' = [stage EXCEPT ![p] = "send"]
    /\ lock' = p
    /\ UNCHANGED <<incoming, result, got, log, events, loopVars>>

\* Action is done when its event is in the channel.
SendEvent(s) ==
    /\ stage[s] = "send" /\ Len(incoming) < QueueLimit
    /\ incoming' = Append(incoming, Len(log) + 1)
    /\ log' = Append(log, Len(log) + 1)
    /\ stage' = [stage EXCEPT ![s] = "idle"]
    /\ lock' = Nobody
    /\ UNCHANGED <<result, got, events, loopVars>>

\* Watch and Stop send the loop a function to run, and keep the mutex until
\* it has run.
SendFunction(w) ==
    /\ stage[w] = "send" /\ Len(incoming) < QueueLimit
    /\ incoming' = Append(incoming, w)
    /\ stage' = [stage EXCEPT ![w] = "wait"]
    /\ UNCHANGED <<lock, result, got, log, events, loopVars>>

-----------------------------------------------------------------------------
(* The loop.                                                               *)

LoopIdle == event = NoEvent /\ incoming # << >>

\* The function of Watch adds the watcher, that of Stop removes it.
RunFunction(w) ==
    /\ LoopIdle /\ Head(incoming) = w
    /\ incoming' = Tail(incoming)
    /\ lock' = Nobody
    /\ IF w \in stopped
       THEN /\ watchers' = watchers \ {w}
            /\ stage' = [stage EXCEPT ![w] = "gone"]
            /\ UNCHANGED from
       ELSE /\ watchers' = watchers \cup {w}
            /\ stage' = [stage EXCEPT ![w] = "following"]
            /\ from' = [from EXCEPT ![w] = Len(log)]
    /\ UNCHANGED <<result, got, log, events, event, rest, stopped>>

TakeEvent ==
    /\ LoopIdle /\ Head(incoming) \notin Watchers
    /\ incoming' = Tail(incoming)
    /\ \E order \in SetToSeqs(watchers) :
           /\ rest' = order
           /\ event' = IF order = << >> THEN NoEvent ELSE Head(incoming)
    /\ UNCHANGED <<stage, lock, result, got, log, events, watchers, stopped, from>>

Distributed ==
    /\ rest' = Tail(rest)
    /\ event' = IF Tail(rest) = << >> THEN NoEvent ELSE event

\* The storages' broadcasters would lose what a slow watcher has no room for.
DroppingWhenFull == "DropIfChannelFull"

\* What NewBroadcaster is told to do with a watcher whose channel is full.
WhenFull == "WaitIfChannelFull"

\* Who has asked to be stopped is waited for all the same.
PassesOverNobody(w) ==
    WhenFull = "DropIfChannelFull" /\ Len(result[w]) = ResultLimit

\* The loop need not send the event to w.
MayPassOver(w) ==
    \/ w \in stopped
    \/ WhenFull = "DropIfChannelFull" /\ Len(result[w]) = ResultLimit

\* A send that waits for room in the channel, whatever happens.
DeliverBlindly ==
    /\ event # NoEvent
    /\ Len(result[Head(rest)]) < ResultLimit
    /\ result' = [result EXCEPT ![Head(rest)] = Append(@, event)]
    /\ Distributed
    /\ UNCHANGED <<stage, lock, incoming, got, log, events, watchers, stopped, from>>

\* A select of the send and the watcher's stopped channel.
Deliver ==
    /\ event # NoEvent
    /\ \/ /\ Len(result[Head(rest)]) < ResultLimit
          /\ result' = [result EXCEPT ![Head(rest)] = Append(@, event)]
       \/ MayPassOver(Head(rest)) /\ UNCHANGED result
    /\ Distributed
    /\ UNCHANGED <<stage, lock, incoming, got, log, events, watchers, stopped, from>>

-----------------------------------------------------------------------------
(* The watch request, whose handler passes events on to its client.        *)

Read(w) ==
    /\ stage[w] = "following" /\ result[w] # << >>
    /\ got' = [got EXCEPT ![w] = Append(@, Head(result[w]))]
    /\ result' = [result EXCEPT ![w] = Tail(@)]
    /\ UNCHANGED <<stage, lock, incoming, log, events, loopVars>>

\* The client no longer takes what it is sent.
Stall(w) ==
    /\ stage[w] = "following"
    /\ stage' = [stage EXCEPT ![w] = "stalled"]
    /\ UNCHANGED <<lock, incoming, result, got, log, events, loopVars>>

\* Everything is sent and received, and no call is under way.
Rest ==
    /\ events = MaxEvents /\ incoming = << >> /\ event = NoEvent
    /\ \A p \in Processes : stage[p] \notin {"lock", "send", "wait"}
    /\ UNCHANGED vars

Call(p) == Lock(p) \/ IF p \in Senders THEN SendEvent(p) ELSE SendFunction(p)

Loop == TakeEvent \/ Deliver \/ \E w \in Watchers : RunFunction(w)

Next ==
    \/ \E s \in Senders : CallAction(s)
    \/ \E w \in Watchers : CallWatch(w) \/ CallStop(w) \/ Read(w) \/ Stall(w)
    \/ \E p \in Processes : Call(p)
    \/ Loop \/ Rest

Spec == Init /\ [][Next]_vars

(***************************************************************************)
(* Goroutines run; Go's mutex is granted to a waiter that keeps waiting.   *)
(* A watch handler reads as long as its client does, and the API server    *)
(* ends the request of a client that stalls (its timeout or a failed       *)
(* write).  Nothing makes a handler call Action or a client watch.         *)
(***************************************************************************)
FairSpec ==
    /\ Spec
    /\ WF_vars(Loop)
    /\ \A p \in Processes : SF_vars(Lock(p)) /\ WF_vars(Call(p))
    /\ \A w \in Watchers : WF_vars(Read(w)) /\ WF_vars(stage[w] = "stalled" /\ CallStop(w))
=============================================================================
