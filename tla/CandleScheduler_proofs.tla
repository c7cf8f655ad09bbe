----------------------- MODULE CandleScheduler_proofs ------------------------
(***************************************************************************)
(* Proofs about CandleScheduler, for every candle, buffer, clock and       *)
(* interval between polls: which candles are decided, and how often.       *)
(***************************************************************************)
EXTENDS CandleScheduler, FiniteSetTheorems, TLAPS

-----------------------------------------------------------------------------
(* LastClose *)

\* LastClose rounds down to a multiple of Interval less than Interval away.
LEMMA LastCloseBounds ==
  ASSUME NEW t \in Nat
  PROVE  /\ t \div Interval \in 0 .. t
         /\ LastClose(t) \in Nat
         /\ LastClose(t) <= t
         /\ t < LastClose(t) + Interval
BY SchedulerAssumption, Z3 DEF LastClose

\* A larger factor makes a multiple larger by an Interval at least.
LEMMA MultiplesApart ==
  ASSUME NEW j \in Nat, NEW k \in Nat, j < k
  PROVE  j * Interval + Interval <= k * Interval
<1>1. PICK d \in Nat : k = j + 1 + d
  <2>1. k - j - 1 \in Nat /\ k = j + 1 + (k - j - 1)
    OBVIOUS
  <2> QED
    BY <2>1
<1>2. k * Interval = j * Interval + Interval + d * Interval
  BY <1>1, SchedulerAssumption, Z3
<1>3. d * Interval \in Nat
  BY SchedulerAssumption, Z3
<1> QED
  BY <1>2, <1>3, SchedulerAssumption, Z3

\* It is the only such multiple.
LEMMA LastCloseUnique ==
  ASSUME NEW t \in Nat, NEW k \in Nat,
         k * Interval <= t, t < k * Interval + Interval
  PROVE  LastClose(t) = k * Interval
<1> DEFINE q == t \div Interval
<1>1. q \in Nat /\ q * Interval <= t /\ t < q * Interval + Interval
  BY LastCloseBounds DEF LastClose
<1> HIDE DEF q
<1>2. ~(q < k) /\ ~(k < q)
  BY <1>1, MultiplesApart, SchedulerAssumption
<1>3. q = k
  BY <1>1, <1>2
<1> QED
  BY <1>3 DEF LastClose, q

-----------------------------------------------------------------------------
(* Types *)

LEMMA InitType == Init => TypeOK
BY SchedulerAssumption DEF Init, TypeOK, NoClose

LEMMA NextType == TypeOK /\ [Next]_vars => TypeOK'
<1> SUFFICES ASSUME TypeOK, [Next]_vars PROVE TypeOK'
  OBVIOUS
<1> USE SchedulerAssumption DEF TypeOK, NoClose
<1>1. CASE Fire
  <2>1. LastClose(now) \in Nat
    BY LastCloseBounds
  <2>2. /\ lastFired' = LastClose(now) /\ polled' = now /\ now' = now
        /\ cycles' = cycles + 1 /\ started' = started /\ steps' = steps
    BY <1>1 DEF Fire, Kept
  <2>3. decided' \in SUBSET Nat
    BY <1>1, <2>1 DEF Fire
  <2> QED
    BY <2>1, <2>2, <2>3
<1>2. CASE Hold
  BY <1>2 DEF Hold, Kept
<1>3. CASE Advance
  BY <1>3 DEF Advance, Kept
<1>4. CASE StepBack
  BY <1>4 DEF StepBack
<1>5. CASE UNCHANGED vars
  BY <1>5 DEF vars
<1> QED
  BY <1>1, <1>2, <1>3, <1>4, <1>5 DEF Next

\* The scheduler and its clock never leave their types, even with a wall clock
\* that goes back (CandleScheduler, scheduler.py:56-73).
THEOREM TypeCorrect == Spec => []TypeOK
BY InitType, NextType, PTL DEF Spec

-----------------------------------------------------------------------------
(* No candle is missed *)

\* The candle fired last is one of those decided, and the clock is at most a
\* poll gap past the latest poll.
Polling ==
  /\ lastFired \in decided \cup {NoClose}
  /\ now <= polled + MaxGap

\* The candle whose buffer ended between two polls no more than
\* Interval - Buffer apart is the newest at the second one.
LEMMA NewestBetween ==
  ASSUME MaxGap + Buffer <= Interval,
         NEW p \in Nat, NEW t \in Nat, t <= p + MaxGap,
         NEW c \in Nat, c = LastClose(c), c <= t, p < c + Buffer
  PROVE  c = LastClose(t)
<1>1. c \div Interval \in Nat /\ c = (c \div Interval) * Interval
  BY LastCloseBounds DEF LastClose
<1>2. t < c + Interval
  BY SchedulerAssumption
<1> QED
  BY <1>1, <1>2, LastCloseUnique

\* What a poll at `now` finds missing it decides.
LEMMA PollCatchesUp ==
  ASSUME TypeOK, Polling, NoCandleMissed, MaxGap + Buffer <= Interval,
         NEW c \in ClosesSince(now), c + Buffer <= now,
         c \notin decided
  PROVE  Due(now) /\ c = LastClose(now)
<1> USE SchedulerAssumption DEF TypeOK
<1>1. c \in Nat /\ c = LastClose(c) /\ started <= c /\ c <= now
  BY DEF ClosesSince
<1>2. polled < c + Buffer
  BY <1>1 DEF NoCandleMissed, ClosesSince
<1>3. c = LastClose(now)
  BY <1>1, <1>2, NewestBetween DEF Polling
<1>4. lastFired # c
  BY <1>1 DEF Polling, NoClose
<1> QED
  BY <1>3, <1>4 DEF Due

LEMMA InitMissed ==
  ASSUME Buffer # 0, Init PROVE TypeOK /\ Polling /\ NoCandleMissed
BY InitType, SchedulerAssumption
   DEF Init, Polling, NoCandleMissed, ClosesSince, TypeOK, NoClose

LEMMA NextMissed ==
  ASSUME MaxGap + Buffer <= Interval,
         TypeOK, Polling, NoCandleMissed, [Next]_vars
  PROVE  Polling' /\ NoCandleMissed'
<1> USE SchedulerAssumption DEF TypeOK
<1>1. CASE Fire
  <2>1. /\ lastFired' = LastClose(now) /\ polled' = now /\ now' = now
        /\ decided' = decided \cup {LastClose(now)} /\ started' = started
    BY <1>1 DEF Fire, Kept
  <2>2. Polling'
    BY <2>1 DEF Polling
  <2>3. ASSUME NEW c \in ClosesSince(now), c + Buffer <= now
        PROVE  c \in decided'
    BY <2>1, <2>3, PollCatchesUp
  <2> QED
    BY <2>1, <2>2, <2>3 DEF NoCandleMissed, ClosesSince
<1>2. CASE Hold
  <2>1. /\ lastFired' = lastFired /\ polled' = now /\ now' = now
        /\ decided' = decided /\ started' = started
    BY <1>2 DEF Hold, Kept
  <2>2. Polling'
    BY <2>1 DEF Polling
  <2>3. ASSUME NEW c \in ClosesSince(now), c + Buffer <= now
        PROVE  c \in decided'
    BY <1>2, <2>1, <2>3, PollCatchesUp DEF Hold
  <2> QED
    BY <2>1, <2>2, <2>3 DEF NoCandleMissed, ClosesSince
<1>3. CASE Advance
  BY <1>3 DEF Advance, Kept, Polling, NoCandleMissed, ClosesSince, LastClose
<1>4. CASE StepBack
  BY <1>4 DEF StepBack, Polling, NoCandleMissed, ClosesSince, LastClose
<1>5. CASE UNCHANGED vars
  BY <1>5 DEF vars, Polling, NoCandleMissed, ClosesSince, LastClose
<1> QED
  BY <1>1, <1>2, <1>3, <1>4, <1>5 DEF Next

\* No candle is missed, whatever the clock does between polls, provided that
\* the gap between two polls fits between the end of a candle's buffer and its
\* successor's close, and that there is a buffer at all.
THEOREM NoMiss ==
  ASSUME MaxGap + Buffer <= Interval, Buffer # 0
  PROVE  Spec => []NoCandleMissed
<1> DEFINE Inv == TypeOK /\ Polling /\ NoCandleMissed
<1>1. Init => Inv
  BY InitMissed
<1>2. Inv /\ [Next]_vars => Inv'
  BY NextMissed, NextType
<1> QED
  BY <1>1, <1>2, PTL DEF Spec

-----------------------------------------------------------------------------
(* No candle is decided twice *)

\* Until the clock is set back, decided candles are no newer than the one fired
\* last, which closed before the latest poll, which came before now: one
\* remembered close is as good as the set of all decided ones.
InOrder ==
  /\ IsFiniteSet(decided)
  /\ steps = 0 =>
       /\ polled <= now
       /\ lastFired # NoClose =>
            lastFired = LastClose(lastFired) /\ lastFired <= polled
       /\ \A c \in decided : c <= lastFired
       /\ cycles = Cardinality(decided)

\* The newest close does not become older while time passes.
LEMMA LastCloseMonotonic ==
  ASSUME NEW c \in Nat, NEW t \in Nat, c = LastClose(c), c <= t
  PROVE  c <= LastClose(t)
<1>1. c \div Interval \in Nat /\ c = (c \div Interval) * Interval
  BY LastCloseBounds DEF LastClose
<1>2. t \div Interval \in Nat /\ LastClose(t) = (t \div Interval) * Interval
  BY LastCloseBounds DEF LastClose
<1>3. t < LastClose(t) + Interval /\ LastClose(t) \in Nat
  BY LastCloseBounds
<1>4. CASE c \div Interval < t \div Interval
  BY <1>1, <1>2, <1>3, <1>4, MultiplesApart, SchedulerAssumption
<1>5. CASE c \div Interval = t \div Interval
  BY <1>1, <1>2, <1>5
<1>6. CASE t \div Interval < c \div Interval
  BY <1>1, <1>2, <1>3, <1>6, MultiplesApart, SchedulerAssumption
<1> QED
  BY <1>1, <1>2, <1>4, <1>5, <1>6

\* A candle that is due was never decided, unless the clock was set back.
LEMMA DueIsNew ==
  ASSUME TypeOK, Polling, InOrder, steps = 0, Due(now)
  PROVE  LastClose(now) \notin decided
<1> USE DEF TypeOK
<1>1. LastClose(now) \in Nat /\ LastClose(now) # lastFired
  BY LastCloseBounds DEF Due
<1>2. CASE lastFired = NoClose
  BY <1>1, <1>2 DEF InOrder, NoClose
<1>3. CASE lastFired # NoClose
  <2>1. lastFired \in Nat /\ lastFired = LastClose(lastFired) /\ lastFired <= now
    BY <1>3 DEF InOrder
  <2>2. lastFired <= LastClose(now)
    BY <2>1, LastCloseMonotonic
  <2> QED
    BY <1>1, <2>1, <2>2 DEF InOrder
<1> QED
  BY <1>2, <1>3

\* LastClose is its own last close.
LEMMA LastCloseFixed ==
  ASSUME NEW t \in Nat PROVE LastClose(LastClose(t)) = LastClose(t)
<1>1. t \div Interval \in Nat /\ LastClose(t) = (t \div Interval) * Interval
  BY LastCloseBounds DEF LastClose
<1>2. LastClose(t) \in Nat /\ LastClose(t) < LastClose(t) + Interval
  BY LastCloseBounds, SchedulerAssumption
<1> QED
  BY <1>1, <1>2, LastCloseUnique

LEMMA InitOrder == Init => TypeOK /\ Polling /\ InOrder
BY InitType, FS_EmptySet, SchedulerAssumption
   DEF Init, Polling, InOrder, TypeOK, NoClose

LEMMA NextOrder ==
  ASSUME TypeOK, Polling, InOrder, [Next]_vars
  PROVE  Polling' /\ InOrder'
<1> USE SchedulerAssumption DEF TypeOK
<1>1. CASE Fire
  <2>1. /\ lastFired' = LastClose(now) /\ polled' = now /\ now' = now
        /\ decided' = decided \cup {LastClose(now)} /\ cycles' = cycles + 1
        /\ steps' = steps /\ Due(now)
    BY <1>1 DEF Fire, Kept
  <2>2. Polling'
    BY <2>1 DEF Polling
  <2>3. LastClose(now) \in Nat /\ LastClose(now) <= now
    BY LastCloseBounds
  <2>4. IsFiniteSet(decided')
    BY <2>1, FS_AddElement DEF InOrder
  <2>5. ASSUME steps = 0
        PROVE  /\ LastClose(LastClose(now)) = LastClose(now)
               /\ \A c \in decided' : c <= LastClose(now)
               /\ cycles' = Cardinality(decided')
    <3>1. LastClose(now) \notin decided
      BY <2>1, <2>5, DueIsNew
    <3>2. cycles' = Cardinality(decided')
      BY <2>1, <2>5, <3>1, FS_AddElement DEF InOrder
    <3>3. \A c \in decided : c <= LastClose(now)
      <4>1. CASE lastFired = NoClose
        BY <2>3, <2>5, <4>1 DEF InOrder, NoClose
      <4>2. CASE lastFired # NoClose
        <5>1. /\ lastFired \in Nat /\ lastFired = LastClose(lastFired)
              /\ lastFired <= now /\ \A c \in decided : c <= lastFired
          BY <2>5, <4>2 DEF InOrder
        <5>2. lastFired <= LastClose(now)
          BY <5>1, LastCloseMonotonic
        <5> QED
          BY <2>3, <5>1, <5>2
      <4> QED
        BY <4>1, <4>2
    <3>4. \A c \in decided' : c <= LastClose(now)
      BY <2>1, <2>3, <3>3
    <3> QED
      BY <3>2, <3>4, LastCloseFixed
  <2>6. InOrder'
    BY <2>1, <2>3, <2>4, <2>5 DEF InOrder, LastClose
  <2> QED
    BY <2>2, <2>6
<1>2. CASE Hold
  BY <1>2 DEF Hold, Kept, Polling, InOrder, LastClose
<1>3. CASE Advance
  BY <1>3 DEF Advance, Kept, Polling, InOrder, LastClose
<1>4. CASE StepBack
  BY <1>4 DEF StepBack, Polling, InOrder
<1>5. CASE UNCHANGED vars
  BY <1>5 DEF vars, Polling, InOrder, LastClose
<1> QED
  BY <1>1, <1>2, <1>3, <1>4, <1>5 DEF Next

\* Until the clock is set back there is exactly one decision per candle, and
\* the decided candles are in order.
LEMMA Order == Spec => [](TypeOK /\ Polling /\ InOrder)
<1> DEFINE Inv == TypeOK /\ Polling /\ InOrder
<1>1. Init => Inv
  BY InitOrder
<1>2. Inv /\ [Next]_vars => Inv'
  BY NextOrder, NextType
<1> QED
  BY <1>1, <1>2, PTL DEF Spec

\* "Nunca duas vezes no mesmo candle": with a clock that is never set back the
\* scheduler answers True at most once for every candle.
THEOREM NeverTwice ==
  ASSUME MaxSteps = 0 PROVE Spec => []RepeatsBounded
<1>1. TypeOK /\ InOrder => RepeatsBounded
  BY FS_CardinalityType DEF TypeOK, InOrder, RepeatsBounded
<1> QED
  BY <1>1, Order, PTL

\* The scheduler implements the rhythm of Cadence until its clock is set back,
\* for every instance: each decision is of a candle never decided before, at
\* least Buffer old and still the newest.
THEOREM Refinement == Spec => KeepsCadence
<1>1. Init => C!Init
  BY SchedulerAssumption DEF Init, C!Init
<1>2. TypeOK /\ Polling /\ InOrder /\ [Next]_vars
        => [steps' = 0 => C!Next]_<<polled, decided, cycles>>
  <2> SUFFICES ASSUME TypeOK, Polling, InOrder, [Next]_vars, steps' = 0
               PROVE  C!Next \/ UNCHANGED <<polled, decided, cycles>>
    OBVIOUS
  <2> USE SchedulerAssumption DEF TypeOK, C!Next
  <2>1. CASE Fire
    <3>1. /\ polled' = now /\ steps = 0 /\ Due(now)
          /\ decided' = decided \cup {LastClose(now)} /\ cycles' = cycles + 1
      BY <2>1 DEF Fire, Kept
    <3>2. LastClose(now) \notin decided /\ polled <= now
      BY <3>1, DueIsNew DEF InOrder
    <3>3. /\ now \div Interval \in 0 .. now
          /\ LastClose(now) = (now \div Interval) * Interval
          /\ now < LastClose(now) + Interval
      BY LastCloseBounds DEF LastClose
    <3>4. LastClose(now) + Buffer <= now
      BY <3>1, LastCloseBounds DEF Due
    <3>5. C!Decide
      BY <3>1, <3>2, <3>3, <3>4 DEF C!Decide
    <3> QED
      BY <3>5
  <2>2. CASE Hold
    <3>1. polled <= now
      BY <2>2 DEF Hold, Kept, InOrder
    <3> QED
      BY <2>2, <3>1 DEF Hold, Kept, C!Wait
  <2>3. CASE Advance
    BY <2>3 DEF Advance
  <2>4. CASE StepBack
    BY <2>4 DEF StepBack
  <2>5. CASE UNCHANGED vars
    BY <2>5 DEF vars
  <2> QED
    BY <2>1, <2>2, <2>3, <2>4, <2>5 DEF Next
<1> QED
  BY <1>1, <1>2, Order, PTL DEF Spec, KeepsCadence
=============================================================================
