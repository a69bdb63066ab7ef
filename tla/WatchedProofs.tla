---------------------------- MODULE WatchedProofs ----------------------------
(***************************************************************************)
(* The handlers announce through the broadcaster: every behaviour is one   *)
(* of the handlers alone and, seen from its channels, one of the           *)
(* broadcaster alone, so what is proved of each holds of the two together; *)
(* and from both follows what a watcher can rely on.                       *)
(***************************************************************************)
EXTENDS WatchedProperties, PolicyReportProofs

\* The broadcaster with what is proved of it.
Proved == INSTANCE BroadcasterProofs WITH
              Senders <- Threads, log <- Positions, events <- actions

-----------------------------------------------------------------------------
(* The steps of the two parts.                                             *)

LEMMA ServesSilently ==
    ASSUME NEW t \in Threads, ~AtAction(t), Serve(t)
    PROVE  log' = log
  BY DEF AtAction, Serve, CreateReport, UpdateGet, ApplyGet, DeleteGet, CollectionList,
         UpdateReread, UpdateStore, ApplyStore, DeleteStore, CollectionItem,
         Announce, AnnounceAgain

LEMMA NextServes == WatchedNext => [Next]_vars
<1>1. ASSUME NEW t \in Threads, Handle(t) \/ CallAction(t) \/ SendEvent(t)
      PROVE  [Next]_vars
  BY <1>1 DEF Handle, CallAction, SendEvent, Next, Serve
<1>2. ASSUME NEW w \in Watchers, Watch(w) PROVE UNCHANGED vars
  BY <1>2 DEF Watch
<1>3. ASSUME NEW p, Lock(p) PROVE UNCHANGED vars
  BY <1>3 DEF Lock
<1>4. Loop \/ AllTold => UNCHANGED vars
  BY DEF Loop, AllTold, watchedVars
<1>5. QED
  BY <1>1, <1>2, <1>3, <1>4 DEF WatchedNext

LEMMA LogKept == log' = log => Positions' = Positions
  BY DEF Positions

LEMMA NextChannels == WatchedNext => [Channel!Next]_(Channel!vars)
<1>1. ASSUME NEW t \in Threads, Handle(t) PROVE UNCHANGED Channel!vars
  BY <1>1, ServesSilently, LogKept DEF Handle, channelVars, Channel!vars
<1>2. ASSUME NEW t \in Threads, CallAction(t) \/ SendEvent(t) PROVE Channel!Next
  BY <1>2 DEF CallAction, SendEvent, Channel!Next, Channel!Call, Channel!Processes
<1>3. ASSUME NEW w \in Watchers, Watch(w) PROVE Channel!Next
  <2>1. w \notin Threads /\ w \in Channel!Processes
    BY NamesAssumption DEF Channel!Processes
  <2>2. QED
    BY <1>3, <2>1 DEF Watch, Channel!Next, Channel!Call
<1>4. ASSUME NEW p \in Threads \cup Watchers, Lock(p) PROVE Channel!Next
  BY <1>4 DEF Lock, Channel!Next, Channel!Call, Channel!Processes
<1>5. Loop => Channel!Next
  BY DEF Loop, Channel!Next
<1>6. AllTold => UNCHANGED Channel!vars
  BY LogKept DEF AllTold, watchedVars, vars, channelVars, Channel!vars
<1>7. QED
  BY <1>1, <1>2, <1>3, <1>4, <1>5, <1>6 DEF WatchedNext

(* With the broadcaster between them and the log the handlers do nothing   *)
(* they would not do without it, so all that is proved of Spec holds of    *)
(* WatchedSpec (polr.go:127, 183, 212, 245).                               *)
THEOREM WatchedHandlers == WatchedSpec => Spec
<1>1. WatchedInit => Init
  BY DEF WatchedInit
<1>2. [WatchedNext]_watchedVars => [Next]_vars
  BY NextServes DEF watchedVars
<1>3. QED
  BY <1>1, <1>2, PTL DEF WatchedSpec, Spec

(* The handlers use the broadcaster as Broadcaster assumes: what they do   *)
(* between two calls of Action does not disturb it.                        *)
THEOREM WatchedChannel == WatchedSpec => Channel!Spec
<1>1. WatchedInit => Channel!Init
  BY DEF WatchedInit
<1>2. UNCHANGED watchedVars => UNCHANGED Channel!vars
  BY LogKept DEF watchedVars, vars, channelVars, Channel!vars
<1>3. [WatchedNext]_watchedVars => [Channel!Next]_(Channel!vars)
  BY <1>2, NextChannels
<1>4. QED
  BY <1>1, <1>3, PTL DEF WatchedSpec, Channel!Spec

-----------------------------------------------------------------------------
(* What is proved of the broadcaster holds of this one.                    *)

LEMMA SameInit == Channel!Init => Proved!Init
  BY DEF Channel!Init, Proved!Init, Channel!Processes, Proved!Processes,
         Channel!Nobody, Proved!Nobody, Channel!NoEvent, Proved!NoEvent

LEMMA SameVars == UNCHANGED Channel!vars <=> UNCHANGED Proved!vars
  BY DEF Channel!vars, Proved!vars

LEMMA SameCalls ==
    ASSUME NEW p
    PROVE  /\ Channel!CallAction(p) <=> Proved!CallAction(p)
           /\ Channel!CallWatch(p) <=> Proved!CallWatch(p)
           /\ Channel!CallStop(p) <=> Proved!CallStop(p)
           /\ Channel!Call(p) <=> Proved!Call(p)
           /\ Channel!Read(p) <=> Proved!Read(p)
           /\ Channel!Stall(p) <=> Proved!Stall(p)
  BY DEF Channel!CallAction, Proved!CallAction, Channel!CallWatch, Proved!CallWatch,
         Channel!CallStop, Proved!CallStop, Channel!Call, Proved!Call,
         Channel!Lock, Proved!Lock, Channel!SendEvent, Proved!SendEvent,
         Channel!SendFunction, Proved!SendFunction, Channel!Read, Proved!Read,
         Channel!Stall, Proved!Stall, Channel!loopVars, Proved!loopVars,
         Channel!Nobody, Proved!Nobody

LEMMA SameLoop == Channel!Loop <=> Proved!Loop
  BY DEF Channel!Loop, Proved!Loop, Channel!RunFunction, Proved!RunFunction,
         Channel!TakeEvent, Proved!TakeEvent, Channel!Deliver, Proved!Deliver,
         Channel!Distributed, Proved!Distributed, Channel!MayPassOver, Proved!MayPassOver,
         Channel!WhenFull, Proved!WhenFull, Channel!LoopIdle, Proved!LoopIdle,
         Channel!NoEvent, Proved!NoEvent, Channel!Nobody, Proved!Nobody,
         Channel!SetToSeqs, Proved!SetToSeqs, Channel!Cardinality, Proved!Cardinality

LEMMA SameSpec == Channel!Spec => Proved!Spec
<1>1. Channel!Rest => UNCHANGED Proved!vars
  BY SameVars DEF Channel!Rest
<1>2. [Channel!Next]_(Channel!vars) => [Proved!Next]_(Proved!vars)
  BY <1>1, SameVars, SameCalls, SameLoop
     DEF Channel!Next, Proved!Next, Channel!Processes, Proved!Processes
<1>3. QED
  BY SameInit, <1>2, PTL DEF Channel!Spec, Proved!Spec

LEMMA SameNothingLost == Proved!NothingLost => Channel!NothingLost
  BY DEF Proved!NothingLost, Channel!NothingLost, Proved!Underway, Channel!Underway,
         Proved!Queued, Channel!Queued, Proved!Processes, Channel!Processes,
         Proved!ToSet, Channel!ToSet

\* The invariant of the broadcaster, and what it comes to.
LEMMA ChannelInvariant == WatchedSpec => [](Proved!Inv /\ Channel!NothingLost)
<1>1. Proved!Spec => []Proved!Inv
  BY Proved!BroadcasterInvariant, LimitsAssumption, NamesAssumption
<1>2. Proved!Spec => []Proved!NothingLost
  BY Proved!NeverLost, LimitsAssumption, NamesAssumption
<1>3. QED
  BY <1>1, <1>2, WatchedChannel, SameSpec, SameNothingLost, PTL

\* So is the invariant of the handlers.
LEMMA HandlersInvariant == WatchedSpec => [](TypeOK /\ FeedInv)
  BY WatchedHandlers, TypeCorrect, FeedInvariant, PTL

-----------------------------------------------------------------------------
(* What a watcher can rely on.                                             *)

\* The events before w began to follow are of writes before that.
SinceInv ==
    /\ from \in [Watchers -> Nat \cup {Away}]
    /\ since \in [Watchers -> Nat]
    /\ \A w \in Watchers : Follows(w) =>
           from[w] <= Len(log) /\ \A i \in 1..from[w] : log[i].seq <= since[w]

\* The positions of the log are its numbers.
LEMMA PositionsAreNumbers ==
    ASSUME log \in Seq(Event)
    PROVE  /\ Positions \in Seq(Nat) /\ Len(Positions) = Len(log)
           /\ \A i \in 1..Len(log) : Positions[i] = i
<1>1. DOMAIN log = 1..Len(log) /\ Len(log) \in Nat
  OBVIOUS
<1>2. QED
  BY <1>1 DEF Positions

LEMMA LogAppended ==
    ASSUME TypeOK, [Next]_vars
    PROVE  log' = log \/ \E e \in Event : log' = Append(log, e)
<1>1. ASSUME NEW t \in Threads, Serve(t), AtAction(t)
      PROVE  \E e \in Event : log' = Append(log, e)
  <2>1. Announce(t) \/ AnnounceAgain(t)
    BY <1>1 DEF AtAction, Serve, CreateReport, UpdateGet, ApplyGet, DeleteGet, CollectionList,
                Accept, UpdateReread, UpdateStore, ApplyStore, DeleteStore, CollectionItem
  <2>2. req[t] \in Request
    BY <1>1 DEF AtAction, TypeOK, ThreadsOK
  <2>3. QED
    BY <2>1, <2>2, EventsHaveType DEF Announce, AnnounceAgain
<1>2. ASSUME NEW t \in Threads, Serve(t), ~AtAction(t) PROVE log' = log
  BY <1>2, ServesSilently
<1>3. QED
  BY <1>1, <1>2 DEF Next, Quiet, vars

LEMMA LogGrows ==
    ASSUME TypeOK, [Next]_vars
    PROVE  Len(log) <= Len(log') /\ \A i \in 1..Len(log) : log'[i] = log[i]
<1>1. log \in Seq(Event)
  BY DEF TypeOK
<1>2. QED
  BY <1>1, LogAppended

\* A watcher begins to follow at the end of the log, and stops for good.
FollowStep ==
    /\ from' \in [Watchers -> Nat \cup {Away}]
    /\ since' \in [Watchers -> Nat]
    /\ \A w \in Watchers :
           \/ from'[w] = from[w] /\ since'[w] = since[w]
           \/ from'[w] = Away
           \/ log' = log /\ writes' = writes /\ from'[w] = Len(log) /\ since'[w] = writes

LEMMA LoopFollows ==
    ASSUME TypeOK, SinceInv, Loop
    PROVE  FollowStep
<1>1. /\ log \in Seq(Event) /\ writes \in Nat
      /\ from \in [Watchers -> Nat \cup {Away}]
      /\ since \in [Watchers -> Nat]
  BY DEF TypeOK, SinceInv
<1>2. log' = log /\ writes' = writes
  BY DEF Loop, vars
<1>3. Len(Positions) = Len(log) /\ Len(log) \in Nat
  BY <1>1, PositionsAreNumbers
<1>4. \/ from' = from
      \/ \E w \in Watchers : from' = [from EXCEPT ![w] = Len(log)]
  BY <1>3 DEF Loop, Channel!Loop, Channel!TakeEvent, Channel!Deliver, Channel!RunFunction
<1>5. since' = [w \in Watchers |-> IF from'[w] = from[w] THEN since[w] ELSE writes]
  BY DEF Loop
<1>6. QED
  BY <1>1, <1>2, <1>3, <1>4, <1>5 DEF FollowStep

LEMMA NextFollows ==
    ASSUME TypeOK, SinceInv, WatchedNext
    PROVE  FollowStep
<1>1. /\ from \in [Watchers -> Nat \cup {Away}]
      /\ since \in [Watchers -> Nat]
  BY DEF SinceInv
<1>2. ASSUME from' = from, since' = since PROVE FollowStep
  BY <1>1, <1>2 DEF FollowStep
<1>3. ASSUME NEW t \in Threads, Handle(t) \/ CallAction(t) \/ SendEvent(t)
      PROVE  from' = from /\ since' = since
  BY <1>3 DEF Handle, CallAction, SendEvent, channelVars,
              Channel!CallAction, Channel!SendEvent, Channel!loopVars
<1>4. ASSUME NEW p, Lock(p) PROVE from' = from /\ since' = since
  BY <1>4 DEF Lock, Channel!Lock, Channel!loopVars
<1>5. ASSUME NEW w \in Watchers, Watch(w)
      PROVE  /\ since' = since
             /\ from' = from \/ from' = [from EXCEPT ![w] = Away]
  BY <1>5 DEF Watch, Channel!CallWatch, Channel!CallStop, Channel!SendFunction,
              Channel!Read, Channel!Stall, Channel!loopVars
<1>6. ASSUME NEW w \in Watchers, Watch(w) PROVE FollowStep
  BY <1>1, <1>5, <1>6 DEF FollowStep
<1>7. AllTold => from' = from /\ since' = since
  BY DEF AllTold, watchedVars, channelVars
<1>8. QED
  BY <1>2, <1>3, <1>4, <1>6, <1>7, LoopFollows DEF WatchedNext

LEMMA SinceInit == WatchedInit => SinceInv
  BY DEF WatchedInit, Channel!Init, SinceInv, Follows

LEMMA SinceStep == TypeOK /\ FeedInv /\ SinceInv /\ [WatchedNext]_watchedVars => SinceInv'
<1>1. ASSUME TypeOK, FeedInv, SinceInv, WatchedNext PROVE SinceInv'
  <2>1. FollowStep
    BY <1>1, NextFollows
  <2>2. Len(log) <= Len(log') /\ \A i \in 1..Len(log) : log'[i] = log[i]
    BY <1>1, LogGrows, NextServes
  <2>3. Len(log) \in Nat /\ Len(log') \in Nat /\ DOMAIN log = 1..Len(log)
    <3>1. log' = log \/ \E e \in Event : log' = Append(log, e)
      BY <1>1, LogAppended, NextServes
    <3>2. QED
      BY <1>1, <3>1 DEF TypeOK
  <2>4. \A i \in 1..Len(log) : log[i].seq <= writes
    BY <1>1, <2>3 DEF FeedInv, SeqsArePast
  <2>5. ASSUME NEW w \in Watchers, Follows(w)'
        PROVE  from'[w] <= Len(log') /\ \A i \in 1..from'[w] : log'[i].seq <= since'[w]
    <3>1. from'[w] # Away
      BY <2>5 DEF Follows
    <3>2. CASE from'[w] = from[w] /\ since'[w] = since[w]
      <4>1. Follows(w) /\ from[w] \in Nat
        BY <1>1, <3>1, <3>2 DEF Follows, SinceInv
      <4>2. QED
        BY <1>1, <2>2, <2>3, <3>2, <4>1 DEF SinceInv
    <3>3. CASE log' = log /\ from'[w] = Len(log) /\ since'[w] = writes
      BY <2>3, <2>4, <3>3
    <3>4. QED
      BY <2>1, <3>1, <3>2, <3>3 DEF FollowStep
  <2>6. QED
    BY <2>1, <2>5 DEF SinceInv, FollowStep
<1>2. ASSUME SinceInv, UNCHANGED watchedVars PROVE SinceInv'
  BY <1>2 DEF SinceInv, Follows, watchedVars, vars, channelVars
<1>3. QED
  BY <1>1, <1>2

LEMMA SinceInvariant == WatchedSpec => []SinceInv
  BY HandlersInvariant, SinceInit, SinceStep, PTL DEF WatchedSpec

LEMMA EndOfSeq ==
    ASSUME NEW s \in Seq(Nat), NEW n \in Nat, n <= Len(s)
    PROVE  /\ DOMAIN SubSeq(s, n + 1, Len(s)) = 1..(Len(s) - n)
           /\ \A j \in 1..(Len(s) - n) : SubSeq(s, n + 1, Len(s))[j] = s[n + j]
  OBVIOUS

\* A follower has the events after those that were there when it began.
LEMMA SentIsTheRest ==
    ASSUME TypeOK, SinceInv, Channel!NothingLost, NEW w \in Watchers, Follows(w),
           NEW i \in (from[w] + 1)..Len(log)
    PROVE  i - from[w] \in DOMAIN Sent(w) /\ Sent(w)[i - from[w]] = i
<1>1. log \in Seq(Event) /\ Len(log) \in Nat /\ from[w] \in Nat /\ from[w] <= Len(log)
  BY DEF TypeOK, SinceInv, Follows
<1>2. Sent(w) = SubSeq(Positions, from[w] + 1, Len(Positions))
  BY DEF Sent, Follows, Channel!NothingLost
<1>3. Positions \in Seq(Nat) /\ Len(Positions) = Len(log) /\ Positions[i] = i
  BY <1>1, PositionsAreNumbers
<1>4. /\ DOMAIN Sent(w) = 1..(Len(Positions) - from[w])
      /\ \A j \in 1..(Len(Positions) - from[w]) : Sent(w)[j] = Positions[from[w] + j]
  <2>1. Positions \in Seq(Nat) /\ from[w] \in Nat /\ from[w] <= Len(Positions)
    BY <1>1, <1>3
  <2>2. QED
    BY <1>2, <2>1, EndOfSeq
<1>5. i - from[w] \in 1..(Len(Positions) - from[w]) /\ from[w] + (i - from[w]) = i
  BY <1>1, <1>3
<1>6. QED
  BY <1>3, <1>4, <1>5

(* A watcher misses no change: the event of every write made since it began*)
(* to follow has been sent to it, or is in one of the channels on its way, *)
(* or is that of a request that has not called Action, whatever the        *)
(* capacities and however many write and watch (polr.go:127, 252).         *)
THEOREM WatchersMissNoWrite == WatchedSpec => []NoWriteMissed
<1>1. ASSUME TypeOK, FeedInv, SinceInv, Channel!NothingLost PROVE NoWriteMissed
  <2> SUFFICES ASSUME NEW w \in Watchers, Follows(w), NEW n \in (since[w] + 1)..writes,
                      \A t \in Threads : ~AboutToAnnounce(t, n)
               PROVE  \E i \in DOMAIN Sent(w) : log[Sent(w)[i]].seq = n
    BY DEF NoWriteMissed
  <2>1. /\ log \in Seq(Event) /\ writes \in Nat /\ since[w] \in Nat
        /\ from[w] \in Nat /\ from[w] <= Len(log)
        /\ \A i \in 1..from[w] : log[i].seq <= since[w]
    BY <1>1 DEF TypeOK, SinceInv, Follows
  <2>2. n \in 1..writes /\ n > since[w]
    BY <2>1
  <2>3. PICK i \in DOMAIN log : log[i].seq = n
    BY <1>1, <2>2 DEF FeedInv, NoWriteForgotten, Announced
  <2>4. i \in (from[w] + 1)..Len(log)
    BY <2>1, <2>2, <2>3
  <2>5. QED
    BY <1>1, <2>3, <2>4, SentIsTheRest
<1>2. QED
  BY <1>1, HandlersInvariant, SinceInvariant, ChannelInvariant, PTL

-----------------------------------------------------------------------------
(* What a watcher knows that has read all there is.                        *)

\* What a follower has read are the events from the place it joined at.
LEMMA ReadInOrder ==
    ASSUME Proved!Inv, NEW w \in Watchers, Follows(w)
    PROVE  /\ from[w] \in Nat /\ Len(got[w]) \in Nat
           /\ DOMAIN got[w] = 1..Len(got[w])
           /\ \A i \in 1..Len(got[w]) : got[w][i] = from[w] + i
<1>1. /\ from \in [Watchers -> Nat \cup {Away}]
      /\ got \in [Watchers -> Seq(Nat)]
  BY DEF Proved!Inv, Proved!TypeOK
<1>2. \A i \in 1..Len(got[w]) : got[w][i] = from[w] + i
  BY DEF Proved!Inv, Proved!FollowInv, Proved!Follows, Follows
<1>3. QED
  BY <1>1, <1>2 DEF Follows

LEMMA LastReadIsLatest ==
    ASSUME TypeOK, Proved!Inv, NEW w \in Watchers, NEW k \in Keys, CaughtUp(w),
           NEW i \in ReadAbout(w, k), \A j \in ReadAbout(w, k) : j <= i
    PROVE  got[w][i] \in DOMAIN log /\ LastEvent(k) = log[got[w][i]]
<1>1. /\ from[w] \in Nat /\ Len(got[w]) \in Nat
      /\ DOMAIN got[w] = 1..Len(got[w])
      /\ \A j \in 1..Len(got[w]) : got[w][j] = from[w] + j
      /\ from[w] + Len(got[w]) = Len(log)
  BY ReadInOrder DEF CaughtUp
<1>2. log \in Seq(Event) /\ DOMAIN log = 1..Len(log)
  BY DEF TypeOK
<1>3. i \in 1..Len(got[w]) /\ log[from[w] + i].key = k
  BY <1>1 DEF ReadAbout
<1>4. from[w] + i \in About(k)
  BY <1>1, <1>2, <1>3 DEF About
<1>5. ASSUME NEW j \in About(k), j > from[w] + i PROVE FALSE
  <2>1. j \in 1..Len(log) /\ log[j].key = k
    BY <1>2 DEF About
  <2>2. j - from[w] \in 1..Len(got[w]) /\ from[w] + (j - from[w]) = j
    BY <1>1, <1>3, <1>5, <2>1
  <2>3. j - from[w] \in ReadAbout(w, k)
    BY <1>1, <2>1, <2>2 DEF ReadAbout
  <2>4. j - from[w] <= i
    BY <2>3
  <2>5. QED
    BY <1>1, <1>3, <1>5, <2>1, <2>4
<1>6. Latest(k, from[w] + i)
  BY <1>1, <1>2, <1>3, <1>4, <1>5 DEF Latest, About
<1>7. QED
  BY <1>1, <1>2, <1>3, <1>4, <1>6, LatestIsLast DEF About

(* One client at a time on a report, and no object made for a missing one: *)
(* the last event that a watcher has read about a report shows its stored  *)
(* state, when nothing is on its way to the watcher and no request works on*)
(* the report (polr.go:127, 183, 212).                                     *)
THEOREM SerialWatchersReadTheStore ==
    ASSUME SerialClients, ~ApplyCreates
    PROVE  WatchedSpec => []LastReadIsStored
<1>1. ASSUME TypeOK, Proved!Inv, WatchersConverge PROVE LastReadIsStored
  <2> SUFFICES ASSUME NEW w \in Watchers, NEW k \in Keys, CaughtUp(w),
                      \A t \in Threads : k \notin WorkingOn(t),
                      NEW i \in ReadAbout(w, k), \A j \in ReadAbout(w, k) : j <= i
               PROVE  LET e == log[got[w][i]]
                      IN  IF Found(k) THEN e.type = "Added" /\ e.obj = db[k]
                                      ELSE e.type = "Deleted"
    BY DEF LastReadIsStored
  <2>1. got[w][i] \in DOMAIN log /\ LastEvent(k) = log[got[w][i]]
    BY <1>1, LastReadIsLatest
  <2>2. LastEvent(k) # NoReport
    BY <1>1, <2>1, NoReportAssumption DEF TypeOK
  <2>3. Known(k)
    BY <1>1 DEF WatchersConverge
  <2>4. QED
    BY <2>1, <2>2, <2>3 DEF Known
<1>2. Spec => []WatchersConverge
  BY SerialWatchersConverge
<1>3. QED
  BY <1>1, <1>2, WatchedHandlers, HandlersInvariant, ChannelInvariant, PTL

(* The watchers of the storage follow one log of its changes: the channels *)
(* and the mutex add nothing and take nothing away (polr.go:27-39, 251).   *)
THEOREM HandlersFollowTheLog == WatchedSpec => Channel!Promised!Spec
<1>1. Proved!Spec => Proved!Promised!Spec
  BY Proved!ImplementsTheLog, LimitsAssumption, NamesAssumption
<1>2. Proved!Promised!Init => Channel!Promised!Init
  BY DEF Proved!Promised!Init, Channel!Promised!Init
<1>3. [Proved!Promised!Next]_(Proved!Promised!vars) =>
          [Channel!Promised!Next]_(Channel!Promised!vars)
  BY DEF Proved!Promised!Next, Channel!Promised!Next,
         Proved!Promised!vars, Channel!Promised!vars,
         Proved!Promised!AppendEvent, Channel!Promised!AppendEvent,
         Proved!Promised!Join, Channel!Promised!Join,
         Proved!Promised!Leave, Channel!Promised!Leave,
         Proved!Promised!Receive, Channel!Promised!Receive
<1>4. Proved!Promised!Spec => Channel!Promised!Spec
  BY <1>2, <1>3, PTL DEF Proved!Promised!Spec, Channel!Promised!Spec
<1>5. QED
  BY <1>1, <1>4, WatchedChannel, SameSpec

(* Requests that announce changes and requests to watch never wait for each*)
(* other in a circle: the broadcaster can move, or it waits for one client *)
(* that watches and does not read (polr.go:33, 127, 183, 212, 245).        *)
THEOREM HandlersWaitInNoCircle == WatchedSpec => []Channel!NoCircularWait
<1>1. Proved!Spec => []Proved!NoCircularWait
  BY Proved!NobodyWaitsInACircle, LimitsAssumption, NamesAssumption
<1>2. Proved!NoCircularWait => Channel!NoCircularWait
  BY DEF Proved!NoCircularWait, Channel!NoCircularWait, Proved!CanMove, Channel!CanMove,
         Proved!LoopIdle, Channel!LoopIdle, Proved!MayPassOver, Channel!MayPassOver,
         Proved!WhenFull, Channel!WhenFull, Proved!NoEvent, Channel!NoEvent,
         Proved!Nobody, Channel!Nobody, Proved!Processes, Channel!Processes
<1>3. QED
  BY <1>1, <1>2, WatchedChannel, SameSpec, PTL
=============================================================================
