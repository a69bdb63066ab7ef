-------------------------- MODULE BroadcasterProofs --------------------------
(***************************************************************************)
(* What is proved of the broadcaster for any number of handlers and        *)
(* watchers and any capacity of its channels: nothing is lost, and every   *)
(* behaviour is one of the log that EventLog promises.                     *)
(***************************************************************************)
EXTENDS BroadcasterProperties, FiniteSetTheorems, TLAPS

Stages == {"idle", "lock", "send", "wait", "following", "stalled", "gone"}

TypeOK ==
    /\ stage \in [Processes -> Stages]
    /\ lock \in Processes \cup {Nobody}
    /\ incoming \in Seq(Nat \cup Watchers)
    /\ watchers \subseteq Watchers /\ IsFiniteSet(watchers)
    /\ event \in Nat
    /\ rest \in Seq(Watchers)
    /\ result \in [Watchers -> Seq(Nat)]
    /\ stopped \subseteq Watchers
    /\ got \in [Watchers -> Seq(Nat)]
    /\ log \in Seq(Nat)
    /\ from \in [Watchers -> Nat \cup {Away}]
    /\ events \in Nat

\* How many events the loop has taken from the common channel.
Taken == Len(log) - Queued

\* Who waits for room in the channel, or for the loop, holds the mutex.
MutexInv == \A p \in Processes : stage[p] \in {"send", "wait"} => lock = p

\* The channel holds the end of the log, then at most one function to run,
\* for which its watcher waits.
QueueInv ==
    /\ Len(incoming) <= QueueLimit /\ Queued <= Len(log)
    /\ \A i \in 1..Len(log) : log[i] = i
    /\ \A i \in 1..Queued : incoming[i] = Taken + i
    /\ \A i \in 1..Len(incoming) :
           incoming[i] \in Watchers => i = Len(incoming) /\ stage[incoming[i]] = "wait"

\* The loop has an event to send as long as there is a watcher to send it
\* to, once to each, and it is the last one that it took.
LoopInv ==
    /\ event = NoEvent <=> rest = << >>
    /\ event # NoEvent => event = Taken
    /\ ToSet(rest) \subseteq watchers
    /\ \A i, j \in 1..Len(rest) : rest[i] = rest[j] => i = j

\* A watcher follows the log between Watch and Stop, and has nothing before.
LifeInv ==
    \A w \in Watchers :
        /\ from[w] # Away <=> stage[w] \in {"following", "stalled"}
        /\ from[w] # Away => w \in watchers /\ w \notin stopped
        /\ from[w] = Away /\ w \notin stopped =>
               w \notin watchers /\ got[w] = << >> /\ result[w] = << >>

Owed(w) == IF w \in ToSet(rest) THEN 1 ELSE 0

\* What a watcher that follows the log got and has in its channel are the
\* events since it joined, up to the last one that the loop took.
Follows(w) ==
    /\ Len(result[w]) <= ResultLimit
    /\ from[w] # Away =>
           /\ from[w] + Len(got[w]) + Len(result[w]) + Owed(w) = Taken
           /\ \A i \in 1..Len(got[w]) : got[w][i] = from[w] + i
           /\ \A i \in 1..Len(result[w]) : result[w][i] = from[w] + Len(got[w]) + i

FollowInv == \A w \in Watchers : Follows(w)

Inv == TypeOK /\ MutexInv /\ QueueInv /\ LoopInv /\ LifeInv /\ FollowInv

\* Who holds the mutex sends or waits, and who waits has its function at the
\* end of the common channel.
HeldInv ==
    /\ lock # Nobody => stage[lock] \in {"send", "wait"}
    /\ \A p \in Processes :
           stage[p] = "wait" => incoming # << >> /\ incoming[Len(incoming)] = p

\* The handlers that have called Action and whose event is not in the log.
Calling == {s \in Senders : stage[s] \in {"lock", "send"}}

\* Every event of the log is that of a call.
CountInv ==
    /\ IsFiniteSet(Calling)
    /\ Len(log) + Cardinality(Calling) = events
    /\ events <= MaxEvents

-----------------------------------------------------------------------------
(* Sequences.                                                              *)

LEMMA Appended ==
    ASSUME NEW S, NEW s \in Seq(S), NEW e \in S
    PROVE  /\ Append(s, e) \in Seq(S)
           /\ Len(Append(s, e)) = Len(s) + 1
           /\ \A i \in 1..Len(s) : Append(s, e)[i] = s[i]
           /\ Append(s, e)[Len(s) + 1] = e
  OBVIOUS

LEMMA Shortened ==
    ASSUME NEW S, NEW s \in Seq(S), s # << >>
    PROVE  /\ Tail(s) \in Seq(S)
           /\ Len(s) \in Nat \ {0} /\ Len(Tail(s)) = Len(s) - 1
           /\ \A i \in 1..Len(Tail(s)) : Tail(s)[i] = s[i + 1]
           /\ Head(s) = s[1] /\ Head(s) \in S
  OBVIOUS

\* An element of a sequence is at one of its positions.
LEMMA Members ==
    ASSUME NEW S, NEW s \in Seq(S), NEW e
    PROVE  e \in ToSet(s) <=> \E i \in 1..Len(s) : s[i] = e
  BY DEF ToSet

\* The loop sends an event to every watcher, in some order.
LEMMA Orders ==
    ASSUME NEW S, IsFiniteSet(S), NEW order \in SetToSeqs(S)
    PROVE  /\ order \in Seq(S)
           /\ ToSet(order) = S
           /\ \A i, j \in 1..Len(order) : order[i] = order[j] => i = j
<1> DEFINE n == Cardinality(S)
<1>1. n \in Nat
  BY FS_CardinalityType
<1> HIDE DEF n
<1>2. /\ order \in [1..n -> S]
      /\ \A i, j \in 1..n : i # j => order[i] # order[j]
  BY DEF SetToSeqs, n
<1>3. order \in Seq(S) /\ Len(order) = n /\ DOMAIN order = 1..n
  BY <1>1, <1>2
<1>4. order \in Injection(1..n, S)
  BY <1>2 DEF Injection, IsInjective
<1>5. Cardinality(1..n) = Cardinality(S)
  BY <1>1, FS_Interval DEF n
<1>6. order \in Surjection(1..n, S)
  BY <1>4, <1>5, FS_Injection
<1>7. ToSet(order) = S
  BY <1>2, <1>3, <1>6 DEF Surjection, ToSet
<1>8. QED
  BY <1>2, <1>3, <1>7

-----------------------------------------------------------------------------
(* The steps.                                                              *)

\* A step of the handler p outside the loop.
HandlerStep(p) ==
    \/ p \in Senders /\ (CallAction(p) \/ SendEvent(p))
    \/ p \in Watchers /\ (CallWatch(p) \/ CallStop(p) \/ Read(p) \/ Stall(p))
    \/ p \in Watchers /\ SendFunction(p)
    \/ Lock(p)

LEMMA NextSteps ==
    ASSUME [Next]_vars
    PROVE  \/ \E p \in Processes : HandlerStep(p)
           \/ \E w \in Watchers : RunFunction(w)
           \/ TakeEvent \/ Deliver \/ UNCHANGED vars
  BY DEF Next, Call, Loop, Rest, HandlerStep, Processes

-----------------------------------------------------------------------------
(* The type invariant.                                                     *)

LEMMA TypeInit == Init => TypeOK
<1>1. {} \subseteq Watchers /\ IsFiniteSet({})
  BY FS_EmptySet
<1>2. QED
  BY <1>1 DEF Init, TypeOK, Processes, Stages, NoEvent

LEMMA HandlerKeepsTypes ==
    ASSUME TypeOK, NEW p \in Processes, HandlerStep(p)
    PROVE  TypeOK'
<1> USE DEF TypeOK, Stages, loopVars
<1>1. CASE p \in Senders /\ CallAction(p)
  BY <1>1 DEF CallAction
<1>2. CASE p \in Watchers /\ CallWatch(p)
  BY <1>2 DEF CallWatch
<1>3. CASE p \in Watchers /\ CallStop(p)
  BY <1>3 DEF CallStop
<1>4. CASE p \in Watchers /\ Read(p)
  <2>1. result[p] \in Seq(Nat) /\ got[p] \in Seq(Nat) /\ result[p] # << >>
    BY <1>4 DEF Read
  <2>2. /\ Tail(result[p]) \in Seq(Nat)
        /\ Append(got[p], Head(result[p])) \in Seq(Nat)
    BY <2>1
  <2>3. QED
    BY <1>4, <2>2 DEF Read
<1>5. CASE p \in Watchers /\ Stall(p)
  BY <1>5 DEF Stall
<1>6. CASE Lock(p)
  BY <1>6 DEF Lock
<1>7. CASE p \in Senders /\ SendEvent(p)
  <2>1. /\ Append(log, Len(log) + 1) \in Seq(Nat)
        /\ Append(incoming, Len(log) + 1) \in Seq(Nat \cup Watchers)
    OBVIOUS
  <2>2. QED
    BY <1>7, <2>1 DEF SendEvent
<1>8. CASE p \in Watchers /\ SendFunction(p)
  <2>1. Append(incoming, p) \in Seq(Nat \cup Watchers)
    BY <1>8
  <2>2. QED
    BY <1>8, <2>1 DEF SendFunction
<1>9. QED
  BY <1>1, <1>2, <1>3, <1>4, <1>5, <1>6, <1>7, <1>8 DEF HandlerStep

LEMMA RunKeepsTypes ==
    ASSUME TypeOK, NEW w \in Watchers, RunFunction(w)
    PROVE  TypeOK'
<1>1. Tail(incoming) \in Seq(Nat \cup Watchers)
  BY Shortened DEF TypeOK, RunFunction, LoopIdle
<1>2. IsFiniteSet(watchers \cup {w}) /\ IsFiniteSet(watchers \ {w})
  BY FS_AddElement, FS_RemoveElement DEF TypeOK
<1>3. IsFiniteSet(watchers') /\ watchers' \subseteq Watchers
  BY <1>2 DEF RunFunction, TypeOK
<1>4. from' \in [Watchers -> Nat \cup {Away}] /\ stage' \in [Processes -> Stages]
  <2>1. Len(log) \in Nat
    BY DEF TypeOK
  <2>2. QED
    BY <2>1 DEF RunFunction, TypeOK, Stages
<1>5. QED
  BY <1>1, <1>3, <1>4 DEF RunFunction, TypeOK

LEMMA TakeKeepsTypes ==
    ASSUME TypeOK, TakeEvent
    PROVE  TypeOK'
<1>1. /\ Tail(incoming) \in Seq(Nat \cup Watchers)
      /\ Head(incoming) \in Nat
  BY Shortened DEF TypeOK, TakeEvent, LoopIdle
<1>2. PICK order \in SetToSeqs(watchers) :
          rest' = order /\ event' = IF order = << >> THEN NoEvent ELSE Head(incoming)
  BY DEF TakeEvent
<1>3. order \in Seq(watchers)
  BY Orders DEF TypeOK
<1>4. rest' \in Seq(Watchers)
  BY <1>2, <1>3 DEF TypeOK
<1>5. event' \in Nat
  BY <1>1, <1>2 DEF NoEvent
<1>6. QED
  BY <1>1, <1>4, <1>5 DEF TakeEvent, TypeOK

LEMMA DeliverKeepsTypes ==
    ASSUME TypeOK, rest # << >>, Deliver
    PROVE  TypeOK'
<1>1. Tail(rest) \in Seq(Watchers) /\ Head(rest) \in Watchers
  BY Shortened DEF TypeOK
<1>2. event' \in Nat /\ rest' \in Seq(Watchers)
  BY <1>1 DEF Deliver, Distributed, TypeOK, NoEvent
<1>3. result' \in [Watchers -> Seq(Nat)]
  <2>1. Append(result[Head(rest)], event) \in Seq(Nat)
    BY <1>1 DEF TypeOK
  <2>2. QED
    BY <2>1 DEF Deliver, TypeOK
<1>4. QED
  BY <1>2, <1>3 DEF Deliver, TypeOK

LEMMA TypeStep == TypeOK /\ LoopInv /\ [Next]_vars => TypeOK'
<1> SUFFICES ASSUME TypeOK, LoopInv, [Next]_vars
             PROVE  TypeOK'
  OBVIOUS
<1>1. CASE Deliver
  BY <1>1, DeliverKeepsTypes DEF LoopInv, Deliver
<1>2. CASE UNCHANGED vars
  BY <1>2 DEF vars, TypeOK
<1>3. QED
  BY <1>1, <1>2, NextSteps, HandlerKeepsTypes, RunKeepsTypes, TakeKeepsTypes

-----------------------------------------------------------------------------
(* The mutex.                                                              *)

LEMMA MutexInit == Init => MutexInv
  BY DEF Init, MutexInv

LEMMA MutexStep == TypeOK /\ MutexInv /\ QueueInv /\ [Next]_vars => MutexInv'
<1> SUFFICES ASSUME TypeOK, MutexInv, QueueInv, [Next]_vars
             PROVE  MutexInv'
  OBVIOUS
<1>1. ASSUME NEW p \in Processes, HandlerStep(p)
      PROVE  MutexInv'
  <2> USE DEF MutexInv, TypeOK, loopVars, Nobody
  <2>1. CASE CallAction(p)
    BY <1>1, <2>1 DEF CallAction
  <2>2. CASE SendEvent(p)
    BY <1>1, <2>2 DEF SendEvent
  <2>3. CASE CallWatch(p)
    BY <1>1, <2>3 DEF CallWatch
  <2>4. CASE CallStop(p)
    BY <1>1, <2>4 DEF CallStop
  <2>5. CASE Read(p)
    BY <1>1, <2>5 DEF Read
  <2>6. CASE Stall(p)
    BY <1>1, <2>6 DEF Stall
  <2>7. CASE SendFunction(p)
    BY <1>1, <2>7 DEF SendFunction
  <2>8. CASE Lock(p)
    BY <1>1, <2>8, NamesAssumption DEF Lock, Processes
  <2>9. QED
    BY <1>1, <2>1, <2>2, <2>3, <2>4, <2>5, <2>6, <2>7, <2>8 DEF HandlerStep
<1>2. ASSUME NEW w \in Watchers, RunFunction(w)
      PROVE  MutexInv'
  <2>1. incoming # << >> /\ incoming[1] = w
    BY <1>2, Shortened DEF RunFunction, LoopIdle, TypeOK
  <2>2. stage[w] = "wait"
    <3>1. Len(incoming) \in Nat \ {0}
      BY <2>1, Shortened DEF TypeOK
    <3>2. 1 \in 1..Len(incoming)
      BY <3>1
    <3>3. QED
      BY <2>1, <3>2, Zenon DEF QueueInv
  <2>3. w \in Processes
    BY DEF Processes
  <2>4. \A p \in Processes : stage[p] \in {"send", "wait"} => p = w
    BY <2>2, <2>3 DEF MutexInv
  <2>5. \A p \in Processes : stage'[p] \notin {"send", "wait"}
    BY <1>2, <2>3, <2>4 DEF RunFunction, TypeOK
  <2>6. QED
    BY <2>5 DEF MutexInv
<1>3. CASE TakeEvent
  BY <1>3 DEF TakeEvent, MutexInv
<1>4. CASE Deliver
  BY <1>4 DEF Deliver, MutexInv
<1>5. CASE UNCHANGED vars
  BY <1>5 DEF vars, MutexInv
<1>6. QED
  BY <1>1, <1>2, <1>3, <1>4, <1>5, NextSteps

-----------------------------------------------------------------------------
(* The common channel.                                                     *)

LEMMA QueueFacts ==
    ASSUME TypeOK, QueueInv
    PROVE  /\ Queued \in Nat /\ Len(incoming) \in Nat /\ Len(log) \in Nat
           /\ Queued <= Len(incoming) /\ Len(incoming) <= Queued + 1
           /\ Taken \in Nat
           /\ \A i \in 1..Queued : incoming[i] \in Nat /\ incoming[i] \notin Watchers
           /\ Len(incoming) > Queued => incoming[Len(incoming)] \in Watchers
<1>1. Len(incoming) \in Nat /\ Len(log) \in Nat /\ (incoming # << >> => Len(incoming) > 0)
  BY DEF TypeOK
<1>2. Queued \in Nat /\ Queued <= Len(incoming) /\ Len(incoming) <= Queued + 1
  BY <1>1 DEF Queued
<1>3. Taken \in Nat
  BY <1>1, <1>2 DEF Taken, QueueInv
<1>4. \A i \in 1..Queued : incoming[i] \in Nat
  BY <1>2, <1>3 DEF QueueInv
<1>5. \A i \in 1..Queued : incoming[i] \notin Watchers
  BY <1>4, NamesAssumption
<1>6. Len(incoming) > Queued => incoming[Len(incoming)] \in Watchers
  BY <1>1 DEF Queued
<1>7. QED
  BY <1>1, <1>2, <1>3, <1>4, <1>5, <1>6

\* While one has the mutex to send, no function to run is in the channel.
LEMMA NoFunctionQueued ==
    ASSUME TypeOK, MutexInv, QueueInv, NEW p \in Processes, stage[p] = "send"
    PROVE  /\ Queued = Len(incoming)
           /\ \A i \in 1..Len(incoming) : incoming[i] \notin Watchers
<1>1. ASSUME NEW i \in 1..Len(incoming), incoming[i] \in Watchers
      PROVE  FALSE
  <2>1. stage[incoming[i]] = "wait" /\ incoming[i] \in Processes
    BY <1>1 DEF QueueInv, Processes
  <2>2. lock = incoming[i] /\ lock = p
    BY <2>1 DEF MutexInv
  <2>3. QED
    BY <2>1, <2>2
<1>2. incoming # << >> => Len(incoming) \in 1..Len(incoming)
  BY DEF TypeOK
<1>3. QED
  BY <1>1, <1>2 DEF Queued

LEMMA SendEventMoves ==
    ASSUME TypeOK, MutexInv, QueueInv, NEW s \in Processes, SendEvent(s)
    PROVE  QueueInv' /\ Taken' = Taken /\ Queued' = Queued + 1
<1>1. /\ Queued = Len(incoming)
      /\ \A i \in 1..Len(incoming) : incoming[i] \notin Watchers
  BY NoFunctionQueued DEF SendEvent
<1>2. /\ Len(log) \in Nat /\ Len(incoming) \in Nat /\ Taken \in Nat
      /\ Taken = Len(log) - Len(incoming)
  BY <1>1, QueueFacts DEF Taken
<1>3. /\ Len(log') = Len(log) + 1
      /\ \A i \in 1..Len(log) : log'[i] = log[i]
      /\ log'[Len(log) + 1] = Len(log) + 1
  BY <1>2, Appended DEF SendEvent, TypeOK
<1>4. /\ Len(incoming') = Len(incoming) + 1
      /\ \A i \in 1..Len(incoming) : incoming'[i] = incoming[i]
      /\ incoming'[Len(incoming) + 1] = Len(log) + 1
  <2>1. Len(log) + 1 \in Nat \cup Watchers
    BY <1>2
  <2>2. QED
    BY <2>1, Appended DEF SendEvent, TypeOK
<1>5. incoming'[Len(incoming')] \notin Watchers
  BY <1>2, <1>4, NamesAssumption
<1>6. Queued' = Len(incoming) + 1 /\ Taken' = Taken
  <2>1. Queued' = Len(incoming) + 1
    BY <1>4, <1>5 DEF Queued
  <2>2. QED
    BY <1>2, <1>3, <2>1 DEF Taken
<1>7. Len(incoming') <= QueueLimit /\ Queued' <= Len(log')
  BY <1>2, <1>3, <1>4, <1>6, LimitsAssumption DEF SendEvent
<1>8. \A i \in 1..Len(log') : log'[i] = i
  BY <1>2, <1>3 DEF QueueInv
<1>9. \A i \in 1..Queued' : incoming'[i] = Taken' + i
  BY <1>1, <1>2, <1>4, <1>6 DEF QueueInv
<1>10. \A i \in 1..Len(incoming') : incoming'[i] \notin Watchers
  BY <1>1, <1>2, <1>4, <1>5
<1>11. QED
  BY <1>1, <1>6, <1>7, <1>8, <1>9, <1>10 DEF QueueInv

LEMMA SendFunctionMoves ==
    ASSUME TypeOK, MutexInv, QueueInv, NEW w \in Watchers, SendFunction(w)
    PROVE  QueueInv' /\ Taken' = Taken
<1>1. w \in Processes
  BY DEF Processes
<1>2. /\ Queued = Len(incoming)
      /\ \A i \in 1..Len(incoming) : incoming[i] \notin Watchers
  BY <1>1, NoFunctionQueued DEF SendFunction
<1>3. /\ Len(log) \in Nat /\ Len(incoming) \in Nat
      /\ Taken = Len(log) - Len(incoming)
  BY <1>2, QueueFacts DEF Taken
<1>4. /\ Len(incoming') = Len(incoming) + 1
      /\ \A i \in 1..Len(incoming) : incoming'[i] = incoming[i]
      /\ incoming'[Len(incoming) + 1] = w
  BY Appended DEF SendFunction, TypeOK
<1>5. log' = log /\ stage'[w] = "wait"
  BY <1>1 DEF SendFunction, TypeOK
<1>6. incoming' # << >> /\ incoming'[Len(incoming')] \in Watchers
  BY <1>3, <1>4
<1>7. Queued' = Len(incoming) /\ Taken' = Taken
  BY <1>3, <1>4, <1>5, <1>6 DEF Queued, Taken
<1>8. Len(incoming') <= QueueLimit
  BY <1>3, <1>4, LimitsAssumption DEF SendFunction
<1>9. \A i \in 1..Queued' : incoming'[i] = Taken' + i
  BY <1>2, <1>4, <1>7 DEF QueueInv
<1>10. \A i \in 1..Len(incoming') : incoming'[i] \in Watchers => i = Len(incoming') /\ incoming'[i] = w
  BY <1>2, <1>3, <1>4
<1>11. QED
  BY <1>2, <1>5, <1>7, <1>8, <1>9, <1>10 DEF QueueInv

LEMMA RunFunctionMoves ==
    ASSUME TypeOK, QueueInv, NEW w \in Watchers, RunFunction(w)
    PROVE  /\ QueueInv' /\ Taken' = Taken /\ Taken = Len(log)
           /\ stage[w] = "wait"
<1>1. incoming # << >> /\ incoming[1] = w
  BY Shortened DEF RunFunction, LoopIdle, TypeOK
<1>2. Len(incoming) \in Nat \ {0}
  BY <1>1, Shortened DEF TypeOK
<1>3. Len(incoming) = 1 /\ stage[w] = "wait"
  <2>1. 1 \in 1..Len(incoming)
    BY <1>2
  <2>2. QED
    BY <1>1, <2>1 DEF QueueInv
<1>4. Queued = 0 /\ Taken = Len(log)
  BY <1>1, <1>3, QueueFacts DEF Queued, Taken
<1>5. Len(incoming') = 0 /\ log' = log
  BY <1>1, <1>3, Shortened DEF RunFunction, TypeOK
<1>6. incoming' = << >>
  BY <1>1, <1>5, Shortened DEF RunFunction, TypeOK
<1>7. Queued' = 0
  BY <1>5, <1>6 DEF Queued
<1>8. Taken' = Taken
  BY <1>4, <1>5, <1>7, QueueFacts DEF Taken
<1>9. Len(incoming') <= QueueLimit /\ Queued' <= Len(log')
  BY <1>5, <1>7, LimitsAssumption, QueueFacts
<1>10. QED
  BY <1>3, <1>4, <1>5, <1>7, <1>8, <1>9 DEF QueueInv

LEMMA TakeEventMoves ==
    ASSUME TypeOK, QueueInv, TakeEvent
    PROVE  QueueInv' /\ Taken' = Taken + 1 /\ Head(incoming) = Taken + 1
<1>1. /\ incoming # << >> /\ incoming[1] \notin Watchers
      /\ incoming' = Tail(incoming) /\ log' = log /\ stage' = stage
      /\ Head(incoming) = incoming[1]
  BY Shortened DEF TakeEvent, LoopIdle, TypeOK
<1>2. /\ Len(incoming) \in Nat \ {0} /\ Len(incoming') = Len(incoming) - 1
      /\ \A i \in 1..Len(incoming') : incoming'[i] = incoming[i + 1]
  BY <1>1, Shortened DEF TypeOK
<1>3. Queued \in Nat \ {0}
  BY <1>1, <1>2, QueueFacts DEF Queued
<1>4. Queued' = Queued - 1
  <2>1. CASE Len(incoming) = 1
    <3>1. Len(incoming') = 0
      BY <1>2, <2>1
    <3>2. incoming' = << >>
      BY <1>1, <3>1, Shortened DEF TypeOK
    <3>3. Queued = 1
      BY <1>3, <2>1, QueueFacts
    <3>4. QED
      BY <3>1, <3>2, <3>3 DEF Queued
  <2>2. CASE Len(incoming) > 1
    <3>1. incoming' # << >> /\ incoming'[Len(incoming')] = incoming[Len(incoming)]
      BY <1>2, <2>2
    <3>2. QED
      BY <1>1, <1>2, <3>1 DEF Queued
  <2>3. QED
    BY <1>2, <2>1, <2>2
<1>5. /\ Taken \in Nat /\ Len(log) \in Nat /\ Taken = Len(log) - Queued
      /\ Taken' = Len(log) - Queued' /\ Taken' = Taken + 1
  BY <1>1, <1>3, <1>4, QueueFacts DEF Taken
<1>6. Head(incoming) = Taken + 1
  BY <1>1, <1>3 DEF QueueInv
<1>7. Len(incoming') <= QueueLimit /\ Queued' <= Len(log')
  <2>1. Len(incoming) <= QueueLimit /\ Queued <= Len(log) /\ QueueLimit \in Nat
    BY LimitsAssumption DEF QueueInv
  <2>2. Len(log) \in Nat /\ log' = log
    BY <1>1, QueueFacts
  <2>3. QED
    BY <1>2, <1>3, <1>4, <2>1, <2>2
<1>8. \A i \in 1..Queued' : incoming'[i] = Taken' + i
  <2>1. \A i \in 1..Queued' : i + 1 \in 1..Queued /\ i \in 1..Len(incoming')
    BY <1>2, <1>3, <1>4, QueueFacts
  <2>2. \A i \in 1..Queued' : incoming'[i] = Taken + (i + 1)
    BY <1>2, <2>1 DEF QueueInv
  <2>3. QED
    BY <1>3, <1>4, <1>5, <2>2
<1>9. \A i \in 1..Len(incoming') :
          incoming'[i] \in Watchers => i = Len(incoming') /\ stage'[incoming'[i]] = "wait"
  <2> TAKE i \in 1..Len(incoming')
  <2>1. i + 1 \in 1..Len(incoming) /\ incoming'[i] = incoming[i + 1]
    BY <1>2
  <2>2. incoming[i + 1] \in Watchers =>
            i + 1 = Len(incoming) /\ stage[incoming[i + 1]] = "wait"
    BY <2>1 DEF QueueInv
  <2>3. i + 1 = Len(incoming) => i = Len(incoming')
    BY <1>2
  <2>4. stage'[incoming'[i]] = stage[incoming[i + 1]]
    BY <1>1, <2>1
  <2>5. QED
    BY <2>1, <2>2, <2>3, <2>4
<1>10. QED
  BY <1>1, <1>5, <1>6, <1>7, <1>8, <1>9 DEF QueueInv

LEMMA OthersLeaveTheQueue ==
    ASSUME TypeOK, QueueInv, UNCHANGED <<incoming, log>>,
           \A w \in Watchers : stage[w] = "wait" => stage'[w] = "wait"
    PROVE  QueueInv' /\ Taken' = Taken
  BY DEF QueueInv, Queued, Taken

LEMMA HandlerMoves ==
    ASSUME TypeOK, MutexInv, QueueInv, NEW p \in Processes, HandlerStep(p)
    PROVE  QueueInv' /\ Taken' = Taken
<1> USE DEF TypeOK, loopVars
<1>1. CASE CallAction(p)
  BY <1>1, OthersLeaveTheQueue DEF CallAction
<1>2. CASE p \in Senders /\ SendEvent(p)
  BY <1>2, SendEventMoves DEF Processes
<1>3. CASE CallWatch(p)
  BY <1>3, OthersLeaveTheQueue DEF CallWatch
<1>4. CASE CallStop(p)
  BY <1>4, OthersLeaveTheQueue DEF CallStop
<1>5. CASE Read(p)
  BY <1>5, OthersLeaveTheQueue DEF Read
<1>6. CASE Stall(p)
  BY <1>6, OthersLeaveTheQueue DEF Stall
<1>7. CASE p \in Watchers /\ SendFunction(p)
  BY <1>7, SendFunctionMoves
<1>8. CASE Lock(p)
  BY <1>8, OthersLeaveTheQueue DEF Lock
<1>9. QED
  BY <1>1, <1>2, <1>3, <1>4, <1>5, <1>6, <1>7, <1>8 DEF HandlerStep

LEMMA DeliverMoves ==
    ASSUME TypeOK, QueueInv, Deliver
    PROVE  QueueInv' /\ Taken' = Taken
  BY OthersLeaveTheQueue DEF Deliver

LEMMA QueueStep == TypeOK /\ MutexInv /\ QueueInv /\ [Next]_vars => QueueInv'
<1> SUFFICES ASSUME TypeOK, MutexInv, QueueInv, [Next]_vars
             PROVE  QueueInv'
  OBVIOUS
<1>1. CASE UNCHANGED vars
  BY <1>1, OthersLeaveTheQueue DEF vars
<1>2. QED
  BY <1>1, NextSteps, HandlerMoves, RunFunctionMoves, TakeEventMoves, DeliverMoves

LEMMA QueueInit == Init => QueueInv /\ Taken = 0
<1>1. Init => incoming = << >> /\ log = << >> /\ Queued = 0
  BY DEF Init, Queued
<1>2. QED
  BY <1>1, LimitsAssumption DEF QueueInv, Taken

-----------------------------------------------------------------------------
(* The loop.                                                               *)

LEMMA LoopInit == Init => LoopInv
  BY DEF Init, LoopInv, ToSet

\* One send less to do.
LEMMA RestFacts ==
    ASSUME TypeOK, LoopInv, rest # << >>
    PROVE  /\ Head(rest) \in watchers /\ Head(rest) \in Watchers
           /\ ToSet(Tail(rest)) = ToSet(rest) \ {Head(rest)}
           /\ Head(rest) \in ToSet(rest)
           /\ \A i, j \in 1..Len(Tail(rest)) : Tail(rest)[i] = Tail(rest)[j] => i = j
<1>1. /\ Tail(rest) \in Seq(Watchers)
      /\ Len(rest) \in Nat \ {0} /\ Len(Tail(rest)) = Len(rest) - 1
      /\ \A i \in 1..Len(Tail(rest)) : Tail(rest)[i] = rest[i + 1]
      /\ Head(rest) = rest[1] /\ Head(rest) \in Watchers
  BY Shortened DEF TypeOK
<1>2. \A w : w \in ToSet(rest) <=> \E i \in 1..Len(rest) : rest[i] = w
  BY Members DEF TypeOK
<1>3. \A w : w \in ToSet(Tail(rest)) <=> \E i \in 1..Len(Tail(rest)) : Tail(rest)[i] = w
  BY <1>1, Members
<1>4. Head(rest) \in ToSet(rest)
  BY <1>1, <1>2
<1>5. ASSUME NEW w
      PROVE  w \in ToSet(Tail(rest)) <=> w \in ToSet(rest) /\ w # Head(rest)
  <2>1. ASSUME NEW i \in 1..Len(Tail(rest)), Tail(rest)[i] = w
        PROVE  w \in ToSet(rest) /\ w # Head(rest)
    <3>1. i + 1 \in 1..Len(rest) /\ rest[i + 1] = w /\ 1 \in 1..Len(rest) /\ i + 1 # 1
      BY <1>1, <2>1
    <3>2. rest[i + 1] # rest[1]
      BY <3>1 DEF LoopInv
    <3>3. QED
      BY <1>1, <1>2, <3>1, <3>2
  <2>2. ASSUME NEW i \in 1..Len(rest), rest[i] = w, w # Head(rest)
        PROVE  w \in ToSet(Tail(rest))
    <3>1. i - 1 \in 1..Len(Tail(rest)) /\ Tail(rest)[i - 1] = w
      BY <1>1, <2>2
    <3>2. QED
      BY <1>3, <3>1
  <2>3. QED
    BY <1>2, <1>3, <2>1, <2>2
<1>6. ASSUME NEW i \in 1..Len(Tail(rest)), NEW j \in 1..Len(Tail(rest)),
             Tail(rest)[i] = Tail(rest)[j]
      PROVE  i = j
  <2>1. i + 1 \in 1..Len(rest) /\ j + 1 \in 1..Len(rest) /\ rest[i + 1] = rest[j + 1]
    BY <1>1, <1>6
  <2>2. i + 1 = j + 1
    BY <2>1 DEF LoopInv
  <2>3. QED
    BY <2>2
<1>7. QED
  BY <1>1, <1>4, <1>5, <1>6 DEF LoopInv

LEMMA LoopStep == TypeOK /\ MutexInv /\ QueueInv /\ LoopInv /\ [Next]_vars => LoopInv'
<1> SUFFICES ASSUME TypeOK, MutexInv, QueueInv, LoopInv, [Next]_vars
             PROVE  LoopInv'
  OBVIOUS
<1>1. ASSUME NEW p \in Processes, HandlerStep(p)
      PROVE  LoopInv'
  <2>1. UNCHANGED <<event, rest, watchers>>
    BY <1>1 DEF HandlerStep, CallAction, SendEvent, CallWatch, CallStop, Read, Stall,
                SendFunction, Lock, loopVars
  <2>2. Taken' = Taken
    BY <1>1, HandlerMoves
  <2>3. QED
    BY <2>1, <2>2 DEF LoopInv
<1>2. ASSUME NEW w \in Watchers, RunFunction(w)
      PROVE  LoopInv'
  <2>1. event' = NoEvent /\ rest' = << >>
    BY <1>2 DEF RunFunction, LoopIdle, LoopInv
  <2>2. QED
    BY <2>1 DEF LoopInv, ToSet
<1>3. CASE TakeEvent
  <2>1. PICK order \in SetToSeqs(watchers) :
            rest' = order /\ event' = IF order = << >> THEN NoEvent ELSE Head(incoming)
    BY <1>3 DEF TakeEvent
  <2>2. ToSet(order) = watchers /\ \A i, j \in 1..Len(order) : order[i] = order[j] => i = j
    BY Orders DEF TypeOK
  <2>3. Taken' = Taken + 1 /\ Head(incoming) = Taken + 1 /\ Taken \in Nat
    BY <1>3, TakeEventMoves, QueueFacts
  <2>4. event' = NoEvent <=> order = << >>
    BY <2>1, <2>3 DEF NoEvent
  <2>5. event' # NoEvent => event' = Taken'
    BY <2>1, <2>3
  <2>6. watchers' = watchers
    BY <1>3 DEF TakeEvent
  <2>7. QED
    BY <2>1, <2>2, <2>4, <2>5, <2>6 DEF LoopInv
<1>4. CASE Deliver
  <2>1. rest # << >> /\ event = Taken
    BY <1>4 DEF Deliver, LoopInv
  <2>2. /\ rest' = Tail(rest) /\ watchers' = watchers
        /\ event' = IF rest' = << >> THEN NoEvent ELSE event
    BY <1>4 DEF Deliver, Distributed
  <2>3. Taken' = Taken /\ event # NoEvent
    BY <1>4, DeliverMoves DEF Deliver
  <2>4. /\ ToSet(rest') \subseteq watchers'
        /\ \A i, j \in 1..Len(rest') : rest'[i] = rest'[j] => i = j
    BY <2>1, <2>2, RestFacts DEF LoopInv
  <2>5. (event' = NoEvent <=> rest' = << >>) /\ (event' # NoEvent => event' = Taken')
    BY <2>1, <2>2, <2>3
  <2>6. QED
    BY <2>4, <2>5 DEF LoopInv
<1>5. CASE UNCHANGED vars
  <2>1. Taken' = Taken
    BY <1>5, OthersLeaveTheQueue DEF vars
  <2>2. QED
    BY <1>5, <2>1 DEF vars, LoopInv
<1>6. QED
  BY <1>1, <1>2, <1>3, <1>4, <1>5, NextSteps

-----------------------------------------------------------------------------
(* The life of a watcher.                                                  *)

LEMMA LifeInit == Init => LifeInv
  BY DEF Init, LifeInv, Processes

LEMMA HandlerKeepsLife ==
    ASSUME TypeOK, LifeInv, NEW p \in Processes, HandlerStep(p)
    PROVE  LifeInv'
<1> USE DEF TypeOK, LifeInv, loopVars, Processes
<1>1. CASE p \in Senders /\ CallAction(p)
  BY <1>1, NamesAssumption DEF CallAction
<1>2. CASE p \in Senders /\ SendEvent(p)
  BY <1>2, NamesAssumption DEF SendEvent
<1>3. CASE p \in Watchers /\ CallWatch(p)
  BY <1>3 DEF CallWatch
<1>4. CASE p \in Watchers /\ CallStop(p)
  BY <1>4, NamesAssumption DEF CallStop
<1>5. CASE p \in Watchers /\ Read(p)
  BY <1>5 DEF Read
<1>6. CASE p \in Watchers /\ Stall(p)
  BY <1>6 DEF Stall
<1>7. CASE p \in Watchers /\ SendFunction(p)
  BY <1>7 DEF SendFunction
<1>8. CASE Lock(p)
  BY <1>8 DEF Lock
<1>9. QED
  BY <1>1, <1>2, <1>3, <1>4, <1>5, <1>6, <1>7, <1>8 DEF HandlerStep

LEMMA RunKeepsLife ==
    ASSUME TypeOK, QueueInv, LifeInv, NEW w \in Watchers, RunFunction(w)
    PROVE  LifeInv'
<1>1. stage[w] = "wait" /\ w \in Processes
  BY RunFunctionMoves DEF Processes
<1>2. from[w] = Away
  BY <1>1 DEF LifeInv
<1>3. Len(log) \in Nat /\ Len(log) # Away
  BY NamesAssumption DEF TypeOK
<1>4. CASE w \in stopped
  BY <1>1, <1>2, <1>4 DEF RunFunction, LifeInv, TypeOK, Processes
<1>5. CASE w \notin stopped
  <2>1. /\ from' = [from EXCEPT ![w] = Len(log)] /\ stage' = [stage EXCEPT ![w] = "following"]
        /\ watchers' = watchers \cup {w} /\ UNCHANGED <<stopped, got, result>>
    BY <1>5 DEF RunFunction
  <2>2. /\ from'[w] # Away /\ stage'[w] = "following" /\ w \in watchers' /\ w \notin stopped'
    BY <1>1, <1>3, <1>5, <2>1 DEF TypeOK, Processes
  <2>3. ASSUME NEW v \in Watchers, v # w
        PROVE  /\ from'[v] = from[v] /\ stage'[v] = stage[v]
               /\ v \in watchers' <=> v \in watchers
               /\ got'[v] = got[v] /\ result'[v] = result[v] /\ stopped' = stopped
    BY <2>1, <2>3 DEF TypeOK, Processes
  <2>4. ASSUME NEW v \in Watchers
        PROVE  /\ from'[v] # Away <=> stage'[v] \in {"following", "stalled"}
               /\ from'[v] # Away => v \in watchers' /\ v \notin stopped'
               /\ from'[v] = Away /\ v \notin stopped' =>
                      v \notin watchers' /\ got'[v] = << >> /\ result'[v] = << >>
    <3>1. CASE v = w
      BY <2>2, <3>1
    <3>2. CASE v # w
      BY <2>3, <3>2 DEF LifeInv
    <3>3. QED
      BY <3>1, <3>2
  <2>5. QED
    BY <2>4 DEF LifeInv
<1>6. QED
  BY <1>4, <1>5

LEMMA DeliverKeepsLife ==
    ASSUME TypeOK, LoopInv, LifeInv, Deliver
    PROVE  LifeInv'
<1>1. rest # << >>
  BY DEF Deliver, LoopInv
<1>2. Head(rest) \in watchers
  BY <1>1, RestFacts
<1>3. \A w \in Watchers \ {Head(rest)} : result'[w] = result[w]
  BY DEF Deliver, TypeOK
<1>4. UNCHANGED <<stage, watchers, stopped, from, got>>
  BY DEF Deliver
<1>5. QED
  BY <1>2, <1>3, <1>4 DEF LifeInv

LEMMA LifeStep ==
    TypeOK /\ MutexInv /\ QueueInv /\ LoopInv /\ LifeInv /\ [Next]_vars => LifeInv'
<1> SUFFICES ASSUME TypeOK, MutexInv, QueueInv, LoopInv, LifeInv, [Next]_vars
             PROVE  LifeInv'
  OBVIOUS
<1>1. CASE TakeEvent
  BY <1>1 DEF TakeEvent, LifeInv
<1>2. CASE UNCHANGED vars
  BY <1>2 DEF vars, LifeInv
<1>3. QED
  BY <1>1, <1>2, NextSteps, HandlerKeepsLife, RunKeepsLife, DeliverKeepsLife

-----------------------------------------------------------------------------
(* What a watcher gets.                                                    *)

LEMMA FollowInit == Init => FollowInv
  BY LimitsAssumption DEF Init, FollowInv, Follows

\* A watcher whose variables and whose share of the loop's work stay the same.
LEMMA FollowerStays ==
    ASSUME NEW w \in Watchers, Follows(w), Taken' = Taken,
           got'[w] = got[w], result'[w] = result[w], Owed(w)' = Owed(w),
           from'[w] # Away => from'[w] = from[w]
    PROVE  Follows(w)'
  BY DEF Follows

LEMMA ReadKeepsFollow ==
    ASSUME TypeOK, NEW w \in Watchers, Follows(w), Read(w), Taken' = Taken,
           from[w] # Away
    PROVE  Follows(w)'
<1>1. /\ got[w] \in Seq(Nat) /\ result[w] \in Seq(Nat) /\ result[w] # << >>
      /\ got'[w] = Append(got[w], Head(result[w])) /\ result'[w] = Tail(result[w])
  BY DEF Read, TypeOK
<1>2. from[w] \in Nat /\ from' = from /\ Owed(w)' = Owed(w)
  BY DEF Read, TypeOK, loopVars, Owed
<1> DEFINE n == Len(got[w])
           m == Len(result[w])
<1>3. n \in Nat /\ m \in Nat \ {0} /\ Head(result[w]) = result[w][1]
  BY <1>1, Shortened
<1>4. /\ Len(result'[w]) = m - 1
      /\ \A i \in 1..(m - 1) : result'[w][i] = result[w][i + 1]
  BY <1>1, Shortened
<1>5. Head(result[w]) \in Nat
  BY <1>1, Shortened
<1>6. /\ Len(got'[w]) = n + 1 /\ got'[w][n + 1] = result[w][1]
      /\ \A i \in 1..n : got'[w][i] = got[w][i]
  BY <1>1, <1>3, <1>5, Appended
<1>7. /\ m <= ResultLimit /\ from[w] + n + m + Owed(w) = Taken
      /\ \A i \in 1..n : got[w][i] = from[w] + i
      /\ \A i \in 1..m : result[w][i] = from[w] + n + i
  BY DEF Follows
<1>8. Owed(w) \in Nat /\ ResultLimit \in Nat
  BY LimitsAssumption DEF Owed
<1> HIDE DEF n, m
<1>9. got'[w][n + 1] = from[w] + (n + 1)
  <2>1. result[w][1] = from[w] + n + 1
    BY <1>3, <1>7
  <2>2. QED
    BY <1>2, <1>3, <1>6, <2>1
<1>10. \A i \in 1..(n + 1) : got'[w][i] = from[w] + i
  BY <1>3, <1>6, <1>7, <1>9
<1>11. \A i \in 1..(m - 1) : result'[w][i] = from[w] + (n + 1) + i
  <2> TAKE i \in 1..(m - 1)
  <2>1. i + 1 \in 1..m
    BY <1>3
  <2>2. result'[w][i] = from[w] + n + (i + 1)
    BY <1>4, <1>7, <2>1
  <2>3. QED
    BY <1>2, <1>3, <2>2
<1>12. from[w] + (n + 1) + (m - 1) + Owed(w) = Taken
  BY <1>2, <1>3, <1>7, <1>8
<1>13. m - 1 <= ResultLimit
  BY <1>3, <1>7, <1>8
<1>14. QED
  BY <1>2, <1>4, <1>6, <1>10, <1>11, <1>12, <1>13 DEF Follows

LEMMA DeliverKeepsFollow ==
    ASSUME TypeOK, QueueInv, LoopInv, LifeInv,
           NEW w \in Watchers, Follows(w), Deliver, w = Head(rest)
    PROVE  Follows(w)'
<1>1. rest # << >> /\ event = Taken /\ event \in Nat
  BY DEF Deliver, LoopInv, TypeOK
<1>2. w \in ToSet(rest) /\ w \notin ToSet(Tail(rest))
  BY <1>1, RestFacts
<1>3. Taken' = Taken /\ Owed(w) = 1 /\ Owed(w)' = 0
  BY <1>2, DeliverMoves DEF Deliver, Distributed, Owed
<1>4. from' = from /\ got' = got
  BY DEF Deliver
<1>5. CASE Len(result[w]) < ResultLimit /\ result' = [result EXCEPT ![w] = Append(@, event)]
  <2> DEFINE m == Len(result[w])
             n == Len(got[w])
  <2>1. result[w] \in Seq(Nat) /\ got[w] \in Seq(Nat) /\ result'[w] = Append(result[w], event)
    BY <1>5 DEF TypeOK
  <2>2. /\ m \in Nat /\ n \in Nat
        /\ Len(result'[w]) = m + 1 /\ result'[w][m + 1] = event
        /\ \A i \in 1..m : result'[w][i] = result[w][i]
    BY <1>1, <2>1, Appended
  <2>3. m < ResultLimit /\ ResultLimit \in Nat
    BY <1>5, LimitsAssumption
  <2>4. ASSUME from[w] # Away
        PROVE  /\ from[w] + n + (m + 1) + 0 = Taken
               /\ \A i \in 1..n : got[w][i] = from[w] + i
               /\ \A i \in 1..(m + 1) : result'[w][i] = from[w] + n + i
    <3>1. from[w] \in Nat
      BY <2>4 DEF TypeOK
    <3>2. /\ from[w] + n + m + 1 = Taken
          /\ \A i \in 1..n : got[w][i] = from[w] + i
          /\ \A i \in 1..m : result[w][i] = from[w] + n + i
      BY <1>3, <2>4 DEF Follows
    <3> HIDE DEF m, n
    <3>3. from[w] + n + (m + 1) = Taken
      <4>1. m \in Nat /\ n \in Nat /\ from[w] + n + m + 1 = Taken
        BY <2>2, <3>2
      <4>2. QED
        BY <3>1, <4>1
    <3>4. result'[w][m + 1] = from[w] + n + (m + 1)
      BY <1>1, <2>2, <3>3
    <3>5. \A i \in 1..(m + 1) : result'[w][i] = from[w] + n + i
      BY <2>2, <3>2, <3>4
    <3>6. QED
      BY <2>2, <3>1, <3>2, <3>3, <3>5
  <2>5. m + 1 <= ResultLimit
    BY <2>2, <2>3
  <2>6. QED
    BY <1>3, <1>4, <2>2, <2>4, <2>5 DEF Follows
<1>6. CASE MayPassOver(w) /\ UNCHANGED result
  <2>1. w \in stopped
    BY <1>6 DEF MayPassOver, WhenFull
  <2>2. from[w] = Away
    BY <2>1 DEF LifeInv
  <2>3. QED
    BY <1>4, <1>6, <2>2 DEF Follows
<1>7. QED
  BY <1>5, <1>6 DEF Deliver

LEMMA HandlerKeepsFollow ==
    ASSUME TypeOK, MutexInv, QueueInv, LifeInv,
           NEW p \in Processes, HandlerStep(p), NEW w \in Watchers, Follows(w)
    PROVE  Follows(w)'
<1>1. Taken' = Taken
  BY HandlerMoves
<1>2. Owed(w)' = Owed(w)
  BY DEF HandlerStep, CallAction, SendEvent, CallWatch, CallStop, Read, Stall,
         SendFunction, Lock, loopVars, Owed
<1>3. CASE p = w /\ Read(w)
  <2>1. from[w] # Away
    BY <1>3 DEF Read, LifeInv
  <2>2. QED
    BY <1>1, <1>3, <2>1, ReadKeepsFollow
<1>4. CASE p # w /\ Read(p)
  BY <1>1, <1>2, <1>4, FollowerStays DEF Read, TypeOK, loopVars
<1>5. CASE p \in Watchers /\ CallStop(p)
  BY <1>1, <1>2, <1>5, FollowerStays DEF CallStop, TypeOK
<1>6. CASE ~ Read(p) /\ ~ (p \in Watchers /\ CallStop(p))
  <2>1. UNCHANGED <<got, result, from>>
    BY <1>6 DEF HandlerStep, CallAction, SendEvent, CallWatch, Stall, SendFunction, Lock,
                loopVars
  <2>2. QED
    BY <1>1, <1>2, <2>1, FollowerStays
<1>7. QED
  BY <1>3, <1>4, <1>5, <1>6

LEMMA RunKeepsFollow ==
    ASSUME TypeOK, QueueInv, LoopInv, LifeInv,
           NEW v \in Watchers, RunFunction(v), NEW w \in Watchers, Follows(w)
    PROVE  Follows(w)'
<1>1. Taken' = Taken /\ Taken = Len(log) /\ stage[v] = "wait" /\ Len(log) \in Nat
  BY RunFunctionMoves DEF TypeOK
<1>2. rest = << >> /\ rest' = rest /\ got' = got /\ result' = result
  BY DEF RunFunction, LoopIdle, LoopInv
<1>3. Owed(w) = 0 /\ Owed(w)' = 0
  BY <1>2 DEF Owed, ToSet
<1>4. CASE w = v /\ v \notin stopped
  <2>1. got[w] = << >> /\ result[w] = << >>
    BY <1>1, <1>4 DEF LifeInv
  <2>2. from'[w] = Len(log)
    BY <1>4 DEF RunFunction, TypeOK
  <2>3. Len(result'[w]) <= ResultLimit
    BY <1>2 DEF Follows
  <2>4. QED
    BY <1>1, <1>2, <1>3, <2>1, <2>2, <2>3 DEF Follows
<1>5. CASE w # v \/ v \in stopped
  <2>1. from'[w] = from[w]
    BY <1>5 DEF RunFunction, TypeOK
  <2>2. QED
    BY <1>1, <1>2, <1>3, <2>1, FollowerStays
<1>6. QED
  BY <1>4, <1>5

LEMMA TakeKeepsFollow ==
    ASSUME TypeOK, QueueInv, LoopInv, LifeInv, TakeEvent,
           NEW w \in Watchers, Follows(w)
    PROVE  Follows(w)'
<1>1. Taken' = Taken + 1 /\ Taken \in Nat
  BY TakeEventMoves, QueueFacts
<1>2. UNCHANGED <<got, result, from>>
  BY DEF TakeEvent
<1>3. ASSUME from[w] # Away
      PROVE  from[w] + Len(got[w]) + Len(result[w]) + Owed(w)' = Taken'
  <2>1. Owed(w) = 0
    BY DEF TakeEvent, LoopIdle, LoopInv, Owed, ToSet
  <2>2. Owed(w)' = 1
    <3>1. w \in watchers
      BY <1>3 DEF LifeInv
    <3>2. ToSet(rest') = watchers
      BY Orders DEF TakeEvent, TypeOK
    <3>3. QED
      BY <3>1, <3>2 DEF Owed
  <2>3. from[w] \in Nat /\ Len(got[w]) \in Nat /\ Len(result[w]) \in Nat
    BY <1>3 DEF TypeOK
  <2>4. from[w] + Len(got[w]) + Len(result[w]) + 0 = Taken
    BY <1>3, <2>1 DEF Follows
  <2>5. QED
    BY <1>1, <2>2, <2>3, <2>4
<1>4. QED
  BY <1>2, <1>3 DEF Follows

LEMMA FollowStep == Inv /\ [Next]_vars => FollowInv'
<1> SUFFICES ASSUME Inv, [Next]_vars, NEW w \in Watchers
             PROVE  Follows(w)'
  BY DEF FollowInv
<1> USE DEF Inv
<1>1. Follows(w)
  BY DEF FollowInv
<1>2. CASE Deliver
  <2>1. CASE w = Head(rest)
    BY <1>1, <1>2, <2>1, DeliverKeepsFollow
  <2>2. CASE w # Head(rest)
    <3>1. rest # << >>
      BY <1>2 DEF Deliver, LoopInv
    <3>2. Owed(w)' = Owed(w)
      BY <1>2, <2>2, <3>1, RestFacts DEF Deliver, Distributed, Owed
    <3>3. result'[w] = result[w] /\ got' = got /\ from' = from
      BY <1>2, <2>2 DEF Deliver, TypeOK
    <3>4. QED
      BY <1>1, <1>2, <3>2, <3>3, DeliverMoves, FollowerStays
  <2>3. QED
    BY <2>1, <2>2
<1>3. CASE UNCHANGED vars
  <2>1. Taken' = Taken
    BY <1>3, OthersLeaveTheQueue DEF vars
  <2>2. QED
    BY <1>1, <1>3, <2>1, FollowerStays DEF vars, Owed
<1>4. QED
  BY <1>1, <1>2, <1>3, NextSteps, HandlerKeepsFollow, RunKeepsFollow, TakeKeepsFollow

-----------------------------------------------------------------------------
(* The theorems.                                                           *)

(* In every behaviour, for any handlers, watchers and capacities, the      *)
(* channel, the loop and the watchers' channels hold what the parts of the *)
(* inductive invariant say.                                                *)
THEOREM BroadcasterInvariant == Spec => []Inv
<1>1. Init => Inv
  BY TypeInit, MutexInit, QueueInit, LoopInit, LifeInit, FollowInit DEF Inv
<1>2. Inv /\ [Next]_vars => Inv'
  BY TypeStep, MutexStep, QueueStep, LoopStep, LifeStep, FollowStep DEF Inv
<1>3. QED
  BY <1>1, <1>2, PTL DEF Spec

LEMMA EndOfSeq ==
    ASSUME NEW L \in Seq(Nat), NEW n \in Nat, n <= Len(L), NEW i \in 1..(Len(L) - n)
    PROVE  SubSeq(L, n + 1, Len(L))[i] = L[n + i]
<1>1. Len(L) \in Nat /\ i \in 1..(Len(L) - (n + 1) + 1) /\ (n + 1) + i - 1 = n + i
  OBVIOUS
<1>2. SubSeq(L, n + 1, Len(L))[i] = L[(n + 1) + i - 1]
  BY <1>1
<1>3. QED
  BY <1>1, <1>2

\* Of a log L that numbers its events, a, b and c are those after n.
CountOn(a, b, c, L, n) ==
    /\ {a, b, c, L} \subseteq Seq(Nat) /\ n \in Nat
    /\ n + Len(a) + Len(b) + Len(c) = Len(L)
    /\ \A i \in 1..Len(L) : L[i] = i
    /\ \A i \in 1..Len(a) : a[i] = n + i
    /\ \A i \in 1..Len(b) : b[i] = n + Len(a) + i
    /\ \A i \in 1..Len(c) : c[i] = n + Len(a) + Len(b) + i

AreTheRest(a, b, c, L, n) == a \o b \o c = SubSeq(L, n + 1, Len(L))

LEMMA CountingOn ==
    ASSUME NEW a, NEW b, NEW c, NEW L, NEW n, CountOn(a, b, c, L, n)
    PROVE  AreTheRest(a, b, c, L, n)
<1>0. /\ a \in Seq(Nat) /\ b \in Seq(Nat) /\ c \in Seq(Nat) /\ L \in Seq(Nat) /\ n \in Nat
      /\ n + Len(a) + Len(b) + Len(c) = Len(L)
  BY DEF CountOn
<1> DEFINE u == a \o b \o c
           v == SubSeq(L, n + 1, Len(L))
           m == Len(a) + Len(b) + Len(c)
<1>1. Len(a) \in Nat /\ Len(b) \in Nat /\ Len(c) \in Nat /\ Len(L) \in Nat /\ m = Len(L) - n
  BY <1>0
<1>2. a \o b \in Seq(Nat) /\ Len(a \o b) = Len(a) + Len(b)
  BY <1>0
<1>3. u \in Seq(Nat) /\ Len(u) = m
  BY <1>0, <1>2
<1>4. v \in Seq(Nat) /\ Len(v) = m
  BY <1>0, <1>1
<1>5. \A i \in 1..(Len(a) + Len(b)) : (a \o b)[i] = n + i
  <2> SUFFICES ASSUME NEW i \in 1..(Len(a) + Len(b))
               PROVE  (a \o b)[i] = n + i
    OBVIOUS
  <2>1. CASE i \in 1..Len(a)
    <3>1. (a \o b)[i] = a[i]
      BY <1>0, <2>1
    <3>2. QED
      BY <2>1, <3>1 DEF CountOn
  <2>2. CASE i \notin 1..Len(a)
    <3>1. i - Len(a) \in 1..Len(b) /\ i - Len(a) + Len(a) = i
      BY <1>1, <2>2
    <3>2. (a \o b)[i] = b[i - Len(a)]
      BY <1>0, <1>1, <2>2
    <3>3. b[i - Len(a)] = n + Len(a) + (i - Len(a))
      BY <3>1 DEF CountOn
    <3>4. QED
      BY <1>0, <1>1, <3>2, <3>3
  <2>3. QED
    BY <2>1, <2>2
<1>6. ASSUME NEW i \in 1..m
      PROVE  u[i] = n + i
  <2>1. CASE i <= Len(a \o b)
    <3>1. i \in 1..Len(a \o b) /\ i \in 1..(Len(a) + Len(b))
      BY <1>1, <1>2, <2>1
    <3>2. u[i] = (a \o b)[i]
      BY <1>0, <1>2, <3>1
    <3>3. QED
      BY <1>5, <3>1, <3>2
  <2>2. CASE i > Len(a \o b)
    <3> DEFINE j == i - (Len(a) + Len(b))
    <3>1. j \in 1..Len(c) /\ i \in 1..(Len(a \o b) + Len(c))
      BY <1>1, <1>2, <2>2
    <3>2. u[i] = c[j]
      BY <1>0, <1>2, <2>2, <3>1
    <3>3. c[j] = n + Len(a) + Len(b) + j
      BY <3>1 DEF CountOn
    <3>4. n + Len(a) + Len(b) + j = n + i
      BY <1>0, <1>1
    <3>5. QED
      BY <3>2, <3>3, <3>4
  <2>3. i \in Nat /\ Len(a \o b) \in Nat
    BY <1>1, <1>2
  <2> HIDE DEF u, v, m
  <2>4. i <= Len(a \o b) \/ i > Len(a \o b)
    BY <2>3
  <2>5. QED
    BY <2>1, <2>2, <2>4
<1>7. ASSUME NEW i \in 1..m
      PROVE  v[i] = n + i
  <2>1. i \in 1..(Len(L) - n) /\ n + i \in 1..Len(L) /\ n <= Len(L)
    BY <1>0, <1>1
  <2>2. v[i] = L[n + i]
    BY <1>0, <2>1, EndOfSeq, Zenon
  <2>3. QED
    BY <2>1, <2>2 DEF CountOn
<1> HIDE DEF u, v, m
<1>8. u = v
  <2>1. /\ u = [i \in 1..m |-> u[i]]
        /\ v = [i \in 1..m |-> v[i]]
    BY <1>3, <1>4
  <2>2. QED
    BY <1>6, <1>7, <2>1
<1>9. QED
  BY <1>8 DEF u, v, AreTheRest

LEMMA UnderwayCountsOn ==
    ASSUME Inv, NEW w \in Watchers
    PROVE  /\ Underway(w) \in Seq(Nat)
           /\ Len(Underway(w)) = Owed(w) + Queued
           /\ \A i \in 1..Len(Underway(w)) : Underway(w)[i] = Taken - Owed(w) + i
<1> USE DEF Inv
<1> DEFINE a == IF w \in ToSet(rest) THEN <<event>> ELSE << >>
           b == SubSeq(incoming, 1, Queued)
<1>1. /\ Queued \in Nat /\ Queued <= Len(incoming) /\ Len(incoming) \in Nat
      /\ Taken \in Nat /\ Owed(w) \in Nat
  BY QueueFacts DEF Owed
<1>2. a \in Seq(Nat) /\ Len(a) = Owed(w) /\ \A i \in 1..Len(a) : a[i] = Taken - Owed(w) + i
  <2>1. CASE w \in ToSet(rest)
    <3>1. rest # << >> /\ event = Taken
      BY <2>1 DEF LoopInv, ToSet
    <3>2. a = <<Taken>> /\ Owed(w) = 1
      BY <2>1, <3>1 DEF Owed
    <3>3. QED
      BY <1>1, <3>2
  <2>2. CASE w \notin ToSet(rest)
    BY <1>1, <2>2 DEF Owed
  <2>3. QED
    BY <2>1, <2>2
<1>3. /\ b \in Seq(Nat \cup Watchers) /\ Len(b) = Queued
      /\ \A i \in 1..Queued : b[i] = Taken + i
  <2>1. b \in Seq(Nat \cup Watchers) /\ Len(b) = Queued
    BY <1>1 DEF TypeOK
  <2>2. \A i \in 1..Queued : b[i] = incoming[i]
    BY <1>1 DEF TypeOK
  <2>3. QED
    BY <2>1, <2>2 DEF QueueInv
<1>4. b \in Seq(Nat)
  <2>1. b = [i \in 1..Queued |-> b[i]] /\ \A i \in 1..Queued : b[i] \in Nat
    BY <1>1, <1>3
  <2>2. QED
    BY <1>1, <2>1
<1>5. Underway(w) = a \o b
  BY DEF Underway
<1> HIDE DEF a, b, Inv
<1>6. a \o b \in Seq(Nat) /\ Len(a \o b) = Owed(w) + Queued
  <2>1. a \in Seq(Nat) /\ b \in Seq(Nat) /\ Len(a) = Owed(w) /\ Len(b) = Queued
    BY <1>2, <1>3, <1>4
  <2>2. a \o b \in Seq(Nat) /\ Len(a \o b) = Len(a) + Len(b)
    BY <2>1
  <2>3. QED
    BY <2>1, <2>2
<1>7. ASSUME NEW i \in 1..(Owed(w) + Queued)
      PROVE  (a \o b)[i] = Taken - Owed(w) + i
  <2> DEFINE j == i - Owed(w)
  <2>1. /\ a \in Seq(Nat) /\ b \in Seq(Nat) /\ Len(a) = Owed(w) /\ Len(b) = Queued
        /\ Owed(w) \in Nat /\ Queued \in Nat /\ Taken \in Nat
    BY <1>1, <1>2, <1>3, <1>4
  <2>2. CASE i <= Owed(w)
    <3>1. i \in 1..Len(a) /\ (a \o b)[i] = a[i]
      BY <2>1, <2>2
    <3>2. QED
      BY <1>2, <3>1
  <2>3. CASE i > Owed(w)
    <3>1. j \in 1..Queued /\ (a \o b)[i] = b[j]
      BY <2>1, <2>3
    <3>2. b[j] = Taken + j
      BY <1>3, <3>1
    <3>3. Taken + j = Taken - Owed(w) + i
      BY <2>1
    <3>4. QED
      BY <3>1, <3>2, <3>3
  <2>4. QED
    BY <2>1, <2>2, <2>3
<1>8. QED
  BY <1>5, <1>6, <1>7

LEMMA FollowersMissNothing ==
    ASSUME Inv, NEW w \in Watchers, from[w] # Away
    PROVE  got[w] \o result[w] \o Underway(w) = SubSeq(log, from[w] + 1, Len(log))
<1>1. /\ got[w] \in Seq(Nat) /\ result[w] \in Seq(Nat) /\ log \in Seq(Nat)
      /\ \A i \in 1..Len(log) : log[i] = i
  BY DEF Inv, TypeOK, QueueInv
<1>2. from[w] \in Nat
  BY DEF Inv, TypeOK
<1>3. /\ \A i \in 1..Len(got[w]) : got[w][i] = from[w] + i
      /\ \A i \in 1..Len(result[w]) : result[w][i] = from[w] + Len(got[w]) + i
  BY DEF Inv, FollowInv, Follows
<1>4. Underway(w) \in Seq(Nat)
  BY UnderwayCountsOn
<1> DEFINE f == from[w]
           n == Len(got[w])
           m == Len(result[w])
           k == Len(Underway(w))
           length == Len(log)
           owed == Owed(w)
           queued == Queued
<1>5. f \in Nat /\ n \in Nat /\ m \in Nat /\ length \in Nat
  BY <1>1, <1>2
<1>6. /\ owed \in Nat /\ queued \in Nat
      /\ f + n + m + owed = length - queued /\ k = owed + queued
  BY QueueFacts, UnderwayCountsOn DEF Inv, Owed, Taken, FollowInv, Follows
<1>7. \A i \in 1..k : Underway(w)[i] = length - queued - owed + i
  BY UnderwayCountsOn DEF Taken
<1> HIDE DEF f, n, m, k, length, owed, queued
<1>8. f + n + m + k = length /\ length - queued - owed = f + n + m
  BY <1>5, <1>6
<1>9. \A i \in 1..k : Underway(w)[i] = f + n + m + i
  BY <1>7, <1>8
<1>10. {got[w], result[w], Underway(w), log} \subseteq Seq(Nat)
  BY <1>1, <1>4
<1>11. CountOn(got[w], result[w], Underway(w), log, f)
  BY <1>1, <1>3, <1>5, <1>8, <1>9, <1>10, Zenon DEF CountOn, f, n, m, k, length
<1>12. AreTheRest(got[w], result[w], Underway(w), log, f)
  BY <1>11, CountingOn
<1>13. QED
  BY <1>12 DEF AreTheRest, f

(* What a watcher has, its channel and what the loop still has for it make *)
(* up the log since its Watch call (polr.go:33, 251), the channels keep to *)
(* their capacities, and who waits for the loop holds the mutex.           *)
THEOREM NeverLost == Spec => []NothingLost
<1>1. Inv => NothingLost
  <2> SUFFICES ASSUME Inv
               PROVE  NothingLost
    OBVIOUS
  <2>1. Len(incoming) <= QueueLimit
    BY DEF Inv, QueueInv
  <2>2. \A p \in Processes : stage[p] \in {"send", "wait"} => lock = p
    BY DEF Inv, MutexInv
  <2>3. \A i \in 1..Queued : incoming[i] \notin Watchers
    BY QueueFacts DEF Inv
  <2>4. \A w \in Watchers : Len(result[w]) <= ResultLimit
    BY DEF Inv, FollowInv, Follows
  <2>5. QED
    BY <2>1, <2>2, <2>3, <2>4, FollowersMissNothing DEF NothingLost
<1>2. QED
  BY <1>1, BroadcasterInvariant, PTL

-----------------------------------------------------------------------------
(* Nobody waits in a circle.                                               *)

LEMMA HeldInit == Init => HeldInv
  BY DEF Init, HeldInv

\* A step that leaves the mutex and the channel to whoever has them.
LEMMA OthersHold ==
    ASSUME HeldInv, UNCHANGED <<lock, incoming>>,
           \A p \in Processes \cup {lock} :
               \/ stage'[p] = stage[p]
               \/ stage'[p] # "wait" /\ stage[p] \notin {"send", "wait"}
    PROVE  HeldInv'
  BY DEF HeldInv

\* A step that leaves nobody at the end of a call.
LEMMA NobodyHolds ==
    ASSUME MutexInv, NEW p \in Processes, lock = p, lock' = Nobody,
           stage'[p] # "wait", \A q \in Processes : q # p => stage'[q] = stage[q]
    PROVE  HeldInv'
  BY DEF HeldInv, MutexInv

LEMMA CallKeepsHeld ==
    ASSUME TypeOK, MutexInv, HeldInv, NEW p \in Processes, HandlerStep(p)
    PROVE  HeldInv'
<1> USE DEF TypeOK, loopVars
<1>1. CASE CallAction(p)
  BY <1>1, OthersHold DEF CallAction
<1>2. CASE SendEvent(p)
  BY <1>2, NobodyHolds DEF SendEvent, MutexInv
<1>3. CASE CallWatch(p)
  BY <1>3, OthersHold DEF CallWatch
<1>4. CASE CallStop(p)
  BY <1>4, OthersHold DEF CallStop
<1>5. CASE Read(p)
  BY <1>5, OthersHold DEF Read
<1>6. CASE Stall(p)
  BY <1>6, OthersHold DEF Stall
<1>7. CASE p \in Watchers /\ SendFunction(p)
  <2>1. lock = p /\ lock' = p /\ \A q \in Processes : q # p => stage'[q] # "wait"
    BY <1>7 DEF SendFunction, MutexInv
  <2>2. incoming' # << >> /\ incoming'[Len(incoming')] = p
    <3>1. /\ Len(incoming) \in Nat /\ Len(incoming') = Len(incoming) + 1
          /\ incoming'[Len(incoming) + 1] = p
      BY <1>7, Appended DEF SendFunction
    <3>2. QED
      BY <3>1
  <2>3. stage'[p] = "wait"
    BY <1>7 DEF SendFunction
  <2>4. QED
    BY <2>1, <2>2, <2>3 DEF HeldInv
<1>8. CASE Lock(p)
  <2>1. \A q \in Processes : stage[q] # "wait"
    BY <1>8, NamesAssumption DEF Lock, MutexInv, Nobody, Processes
  <2>2. lock' = p /\ stage'[p] = "send" /\ \A q \in Processes : stage'[q] # "wait"
    BY <1>8, <2>1 DEF Lock
  <2>3. QED
    BY <2>2 DEF HeldInv
<1>9. QED
  BY <1>1, <1>2, <1>3, <1>4, <1>5, <1>6, <1>7, <1>8 DEF HandlerStep

LEMMA TakeKeepsHeld ==
    ASSUME TypeOK, HeldInv, TakeEvent
    PROVE  HeldInv'
<1>1. /\ incoming # << >> /\ incoming[1] \notin Watchers /\ incoming' = Tail(incoming)
      /\ stage' = stage /\ lock' = lock
  BY Shortened DEF TakeEvent, LoopIdle, TypeOK
<1>2. /\ Len(incoming) \in Nat \ {0} /\ Len(incoming') = Len(incoming) - 1
      /\ \A i \in 1..Len(incoming') : incoming'[i] = incoming[i + 1]
  BY <1>1, Shortened DEF TypeOK
<1>3. ASSUME NEW p \in Processes, stage[p] = "wait"
      PROVE  incoming' # << >> /\ incoming'[Len(incoming')] = p
  <2>1. incoming[Len(incoming)] = p
    BY <1>3 DEF HeldInv
  <2>2. p \in Watchers
    <3>1. p \in Nat \cup Watchers
      BY <1>2, <2>1 DEF TypeOK
    <3>2. QED
      BY <3>1, NamesAssumption DEF Processes
  <2>3. Len(incoming') \in Nat \ {0}
    BY <1>1, <1>2, <2>1, <2>2
  <2>4. QED
    BY <1>2, <2>1, <2>3
<1>4. QED
  BY <1>1, <1>3 DEF HeldInv

LEMMA HeldStep == Inv /\ HeldInv /\ [Next]_vars => HeldInv'
<1> SUFFICES ASSUME Inv, HeldInv, [Next]_vars
             PROVE  HeldInv'
  OBVIOUS
<1>1. TypeOK /\ MutexInv /\ QueueInv
  BY DEF Inv
<1>2. ASSUME NEW w \in Watchers, RunFunction(w)
      PROVE  HeldInv'
  <2>1. stage[w] = "wait" /\ w \in Processes
    BY <1>1, <1>2, RunFunctionMoves DEF Processes
  <2>2. lock = w
    BY <1>1, <2>1 DEF MutexInv
  <2>3. /\ lock' = Nobody /\ stage'[w] # "wait"
        /\ \A q \in Processes : q # w => stage'[q] = stage[q]
    BY <1>1, <1>2, <2>1 DEF RunFunction, TypeOK
  <2>4. QED
    BY <1>1, <2>1, <2>2, <2>3, NobodyHolds
<1>3. CASE Deliver
  BY <1>3 DEF Deliver, HeldInv
<1>4. CASE UNCHANGED vars
  BY <1>4 DEF vars, HeldInv
<1>5. QED
  BY <1>1, <1>2, <1>3, <1>4, NextSteps, CallKeepsHeld, TakeKeepsHeld

(* While a call of Action, Watch or Stop is under way, the broadcaster can *)
(* move or waits for a client that watches and does not read, for any      *)
(* handlers, watchers and capacities (polr.go:33).                         *)
THEOREM NobodyWaitsInACircle == Spec => []NoCircularWait
<1>1. ASSUME Inv, HeldInv PROVE NoCircularWait
  <2> SUFFICES ASSUME NEW p \in Processes, stage[p] \in {"lock", "send", "wait"}
               PROVE  \/ CanMove
                      \/ event # NoEvent /\ stage[Head(rest)] \in {"following", "stalled"}
    BY DEF NoCircularWait
  <2>1. TypeOK /\ MutexInv /\ LoopInv /\ LifeInv
    BY <1>1 DEF Inv
  <2>2. CASE event # NoEvent
    <3>1. rest # << >>
      BY <2>1, <2>2 DEF LoopInv
    <3>2. Head(rest) \in ToSet(rest)
      <4>1. Len(rest) \in Nat \ {0} /\ Head(rest) = rest[1]
        BY <2>1, <3>1, Shortened DEF TypeOK
      <4>2. 1 \in DOMAIN rest
        BY <2>1, <4>1 DEF TypeOK
      <4>3. QED
        BY <4>1, <4>2 DEF ToSet
    <3>3. Head(rest) \in watchers /\ Head(rest) \in Watchers
      BY <2>1, <3>2 DEF LoopInv, TypeOK
    <3>4. CASE from[Head(rest)] = Away
      <4>1. Head(rest) \in stopped
        BY <2>1, <3>3, <3>4 DEF LifeInv
      <4>2. QED
        BY <2>2, <4>1 DEF CanMove, MayPassOver
    <3>5. CASE from[Head(rest)] # Away
      BY <2>1, <2>2, <3>3, <3>5 DEF LifeInv
    <3>6. QED
      BY <3>4, <3>5
  <2>3. CASE event = NoEvent /\ incoming # << >>
    BY <2>3 DEF CanMove, LoopIdle
  <2>4. CASE event = NoEvent /\ incoming = << >>
    <3>1. \A q \in Processes : stage[q] # "wait"
      BY <1>1, <2>4 DEF HeldInv
    <3>2. Len(incoming) < QueueLimit
      BY <2>4, LimitsAssumption
    <3>3. CASE lock = Nobody
      <4>1. stage[p] = "lock"
        BY <2>1, <3>3, NamesAssumption DEF MutexInv, Processes, Nobody
      <4>2. QED
        BY <3>3, <4>1 DEF CanMove
    <3>4. CASE lock # Nobody
      <4>1. lock \in Processes /\ stage[lock] = "send"
        BY <1>1, <2>1, <3>1, <3>4 DEF HeldInv, TypeOK
      <4>2. QED
        BY <3>2, <4>1 DEF CanMove
    <3>5. QED
      BY <3>3, <3>4
  <2>5. QED
    BY <2>2, <2>3, <2>4
<1>2. Inv /\ HeldInv /\ [Next]_vars => HeldInv'
  BY HeldStep
<1>3. QED
  BY <1>1, <1>2, HeldInit, BroadcasterInvariant, PTL DEF Spec

-----------------------------------------------------------------------------
(* The refinement.                                                         *)

LEMMA CountInit == Init => CountInv
<1> SUFFICES ASSUME Init
             PROVE  CountInv
  OBVIOUS
<1>1. Calling = {} /\ log = << >> /\ events = 0
  BY DEF Init, Calling, Processes
<1>2. QED
  BY <1>1, FS_EmptySet, LimitsAssumption DEF CountInv

LEMMA CountStep == Inv /\ CountInv /\ [Next]_vars => CountInv'
<1> SUFFICES ASSUME Inv, CountInv, [Next]_vars
             PROVE  CountInv'
  OBVIOUS
<1> USE DEF Inv
<1>1. ASSUME UNCHANGED <<log, events>>, \A s \in Senders : s \in Calling' <=> s \in Calling
      PROVE  CountInv'
  <2>1. Calling' = Calling
    BY <1>1 DEF Calling
  <2>2. QED
    BY <1>1, <2>1 DEF CountInv
<1>2. IsFiniteSet(Calling) /\ Cardinality(Calling) \in Nat /\ Len(log) \in Nat /\ events \in Nat
  BY FS_CardinalityType DEF CountInv, TypeOK
<1>3. ASSUME NEW s \in Senders, CallAction(s)
      PROVE  CountInv'
  <2>1. Calling' = Calling \cup {s} /\ s \notin Calling
    BY <1>3 DEF CallAction, Calling, TypeOK, Processes
  <2>2. IsFiniteSet(Calling') /\ Cardinality(Calling') = Cardinality(Calling) + 1
    BY <1>2, <2>1, FS_AddElement
  <2>3. log' = log /\ events' = events + 1 /\ events < MaxEvents /\ MaxEvents \in Nat
    BY <1>3, LimitsAssumption DEF CallAction
  <2>4. QED
    BY <1>2, <2>2, <2>3 DEF CountInv
<1>4. ASSUME NEW s \in Senders, SendEvent(s)
      PROVE  CountInv'
  <2>1. Calling' = Calling \ {s} /\ s \in Calling
    BY <1>4 DEF SendEvent, Calling, TypeOK, Processes
  <2>2. IsFiniteSet(Calling') /\ Cardinality(Calling') = Cardinality(Calling) - 1
    BY <1>2, <2>1, FS_RemoveElement
  <2>3. Len(log') = Len(log) + 1 /\ events' = events
    BY <1>2, <1>4, Appended DEF SendEvent, TypeOK
  <2>4. QED
    BY <1>2, <2>2, <2>3 DEF CountInv
<1>5. ASSUME NEW w \in Watchers,
             CallWatch(w) \/ CallStop(w) \/ Read(w) \/ Stall(w) \/ SendFunction(w) \/ RunFunction(w)
      PROVE  CountInv'
  <2>1. UNCHANGED <<log, events>> /\ \A s \in Senders : stage'[s] = stage[s]
    BY <1>5, NamesAssumption DEF CallWatch, CallStop, Read, Stall, SendFunction, RunFunction,
                                 loopVars, TypeOK, Processes
  <2>2. QED
    BY <1>1, <2>1 DEF Calling
<1>6. ASSUME NEW p \in Processes, Lock(p)
      PROVE  CountInv'
  BY <1>1, <1>6 DEF Lock, Calling, TypeOK, Processes
<1>7. CASE TakeEvent \/ Deliver \/ UNCHANGED vars
  BY <1>1, <1>7 DEF TakeEvent, Deliver, vars, Calling
<1>8. QED
  BY <1>3, <1>4, <1>5, <1>6, <1>7, NextSteps DEF HandlerStep

\* The event that enters the channel is the next of the log.
LEMMA SendIsAppend ==
    ASSUME Inv, CountInv', NEW s \in Senders, SendEvent(s)
    PROVE  Promised!AppendEvent
<1>1. Len(log) \in Nat /\ log' = Append(log, Len(log) + 1) /\ got' = got /\ from' = from
  BY DEF Inv, TypeOK, SendEvent, loopVars
<1>2. Len(log') = Len(log) + 1
  BY <1>1, Appended DEF Inv, TypeOK
<1>3. /\ Cardinality(Calling') \in Nat /\ MaxEvents \in Nat
      /\ Len(log') + Cardinality(Calling') = events' /\ events' <= MaxEvents
  BY FS_CardinalityType, LimitsAssumption DEF CountInv
<1>4. Len(log) + 1 \in 1..MaxEvents
  BY <1>1, <1>2, <1>3
<1>5. QED
  BY <1>1, <1>4 DEF Promised!AppendEvent

\* A watcher that starts to follow the log has nothing yet.
LEMMA RunIsJoin ==
    ASSUME Inv, NEW w \in Watchers, RunFunction(w)
    PROVE  Promised!Join(w) \/ UNCHANGED Promised!vars
<1>1. stage[w] = "wait"
  BY RunFunctionMoves DEF Inv
<1>2. from[w] = Away
  BY <1>1 DEF Inv, LifeInv
<1>3. CASE w \in stopped
  BY <1>3 DEF RunFunction, Promised!vars
<1>4. CASE w \notin stopped
  <2>1. got[w] = << >> /\ got \in [Watchers -> Seq(Nat)]
    BY <1>2, <1>4 DEF Inv, LifeInv, TypeOK
  <2>2. [got EXCEPT ![w] = << >>] = got
    BY <2>1
  <2>3. got' = got /\ log' = log /\ from' = [from EXCEPT ![w] = Len(log)]
    BY <1>4 DEF RunFunction
  <2>4. QED
    BY <1>2, <2>2, <2>3 DEF Promised!Join
<1>5. QED
  BY <1>3, <1>4

\* What a client is sent next is the next event of the log.
LEMMA ReadIsReceive ==
    ASSUME Inv, NEW w \in Watchers, Read(w)
    PROVE  Promised!Receive(w)
<1>1. from[w] # Away
  BY DEF Read, Inv, LifeInv
<1>2. /\ from[w] \in Nat /\ got[w] \in Seq(Nat) /\ result[w] \in Seq(Nat)
      /\ result[w] # << >>
  BY <1>1 DEF Inv, TypeOK, Read
<1> DEFINE n == Len(got[w])
           m == Len(result[w])
<1>3. n \in Nat /\ m \in Nat \ {0} /\ Head(result[w]) = result[w][1]
  BY <1>2, Shortened
<1>4. from[w] + n + m + Owed(w) = Taken
  BY <1>1 DEF Inv, FollowInv, Follows
<1>5. result[w][1] = from[w] + n + 1
  BY <1>1, <1>3 DEF Inv, FollowInv, Follows
<1>6. /\ Owed(w) \in Nat /\ Queued \in Nat /\ Taken = Len(log) - Queued
      /\ Len(log) \in Nat
  BY QueueFacts DEF Inv, Owed, Taken
<1>7. got' = [got EXCEPT ![w] = Append(@, Head(result[w]))] /\ log' = log /\ from' = from
  BY DEF Read, loopVars
<1>8. from[w] + n < Len(log)
  <2> HIDE DEF n, m
  <2>1. QED
    BY <1>2, <1>3, <1>4, <1>6
<1>9. log[from[w] + n + 1] = from[w] + n + 1
  <2>1. from[w] + n + 1 \in 1..Len(log)
    BY <1>2, <1>3, <1>6, <1>8
  <2>2. QED
    BY <2>1 DEF Inv, QueueInv
<1>10. Head(result[w]) = log[from[w] + n + 1]
  BY <1>3, <1>5, <1>9
<1>11. QED
  BY <1>1, <1>7, <1>8, <1>10 DEF Promised!Receive

LEMMA StopIsLeave ==
    ASSUME Inv, NEW w \in Watchers, CallStop(w)
    PROVE  Promised!Leave(w)
<1>1. from[w] # Away
  BY DEF CallStop, Inv, LifeInv
<1>2. QED
  BY <1>1 DEF CallStop, Promised!Leave

LEMMA StepsOfTheLog ==
    ASSUME Inv, CountInv', [Next]_vars
    PROVE  [Promised!Next]_(Promised!vars)
<1> USE DEF Promised!Next, Promised!vars
<1>1. ASSUME NEW p \in Processes, HandlerStep(p)
      PROVE  [Promised!Next]_(Promised!vars)
  <2>1. CASE p \in Senders /\ SendEvent(p)
    BY <2>1, SendIsAppend
  <2>2. CASE p \in Watchers /\ Read(p)
    BY <2>2, ReadIsReceive
  <2>3. CASE p \in Watchers /\ CallStop(p)
    BY <2>3, StopIsLeave
  <2>4. CASE CallAction(p) \/ CallWatch(p) \/ Stall(p) \/ SendFunction(p) \/ Lock(p)
    BY <2>4 DEF CallAction, CallWatch, Stall, SendFunction, Lock, loopVars
  <2>5. QED
    BY <1>1, <2>1, <2>2, <2>3, <2>4 DEF HandlerStep
<1>2. ASSUME NEW w \in Watchers, RunFunction(w)
      PROVE  [Promised!Next]_(Promised!vars)
  BY <1>2, RunIsJoin
<1>3. CASE TakeEvent \/ Deliver \/ UNCHANGED vars
  BY <1>3 DEF TakeEvent, Deliver, vars
<1>4. QED
  BY <1>1, <1>2, <1>3, NextSteps

(* The broadcaster of a storage (polr.go:33) is one log of events that     *)
(* every watcher follows from its Watch call on, in order and without gap  *)
(* or repetition: all of FollowsTheLog but its fairness.                   *)
THEOREM ImplementsTheLog == Spec => Promised!Spec
<1>1. Init => Promised!Init
  BY DEF Init, Promised!Init
<1>2. Spec => []CountInv
  <2>1. Inv /\ CountInv /\ [Next]_vars => CountInv'
    BY CountStep
  <2>2. QED
    BY <2>1, CountInit, BroadcasterInvariant, PTL DEF Spec
<1>3. Inv /\ CountInv' /\ [Next]_vars => [Promised!Next]_(Promised!vars)
  BY StepsOfTheLog
<1>4. QED
  BY <1>1, <1>2, <1>3, BroadcasterInvariant, PTL DEF Spec, Promised!Spec
=============================================================================
