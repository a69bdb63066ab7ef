------------------------------ MODULE EventLog ------------------------------
(***************************************************************************)
(* What the handlers of pkg/api expect of a broadcaster: one log of events.*)
(* A watcher follows it from the moment its Watch call is answered, misses *)
(* nothing and sees nothing twice until it stops, and hears of every event *)
(* in time, however slow the other watchers are.                           *)
(***************************************************************************)
EXTENDS Naturals, Sequences

CONSTANTS
    Watchers, Events,
    Away        \* where a watcher that does not follow the log is

VARIABLES
    log,    \* the events accepted
    from,   \* from[w]: how many there were when w started, while w follows
    got     \* got[w]: the events w has received

vars == <<log, from, got>>

Init ==
    /\ log = << >>
    /\ from = [w \in Watchers |-> Away]
    /\ got = [w \in Watchers |-> << >>]

AppendEvent ==
    /\ \E e \in Events : log' = Append(log, e)
    /\ UNCHANGED <<from, got>>

Join(w) ==
    /\ from[w] = Away
    /\ from' = [from EXCEPT ![w] = Len(log)]
    /\ got' = [got EXCEPT ![w] = << >>]
    /\ UNCHANGED log

Leave(w) ==
    /\ from[w] # Away
    /\ from' = [from EXCEPT ![w] = Away]
    /\ UNCHANGED <<log, got>>

Receive(w) ==
    /\ from[w] # Away
    /\ from[w] + Len(got[w]) < Len(log)
    /\ got' = [got EXCEPT ![w] = Append(@, log[from[w] + Len(@) + 1])]
    /\ UNCHANGED <<log, from>>

Next ==
    \/ AppendEvent
    \/ \E w \in Watchers : Join(w) \/ Leave(w) \/ Receive(w)

Spec == Init /\ [][Next]_vars

\* A watcher that does not leave receives every event.
FairSpec == Spec /\ \A w \in Watchers : WF_vars(Receive(w))
=============================================================================
