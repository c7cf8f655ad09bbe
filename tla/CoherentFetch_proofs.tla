------------------------ MODULE CoherentFetch_proofs -------------------------
(***************************************************************************)
(* Proofs about CoherentFetch, for every drift of the exchange's clock,    *)
(* every bound on the awaits and every limit: how far the measured offset  *)
(* is off, and what a book called VALID may hide.                          *)
(***************************************************************************)
EXTENDS CoherentFetch, TLAPS

\* The offset misses the drift by half a round trip at most.
Near(off) == 2 * Abs(off - Drift) <= MaxWait + 1

\* An await began in the past and lasts no longer than MaxWait; the collection
\* was asked for before.
Awaited ==
  /\ since <= now
  /\ phase \in Awaiting => now <= since + MaxWait
  /\ phase # "idle" => asked \in 0 .. Horizon /\ asked <= now

\* What the exchange stamped was stamped during the await that asked for it.
Stamped ==
  /\ phase = "skew" /\ server # Unset =>
       since + Drift <= server /\ server <= now + Drift
  /\ phase = "gather" /\ bookTs # Unset => bookTs <= now + Drift
  /\ phase # "skew" => server = Unset
  /\ phase \in {"idle", "skew"} => offset = Unset
  /\ phase \in {"idle", "skew", "instrument"} => bookTs = Unset
  /\ phase \in {"instrument", "gather", "done"} => offset \in Int /\ Near(offset)

\* What one collection computed from what it was told.
Computed ==
  /\ phase # "done" => quality = "none"
  /\ phase = "done" =>
       /\ gathered \in 0 .. Horizon
       /\ bookTs \in Int /\ bookTs <= gathered + Drift
       /\ age = DataAge(IF injected THEN asked ELSE gathered, offset, bookTs)
       /\ quality = "VALID" => age <= MaxAge

IInv == TypeOK /\ Awaited /\ Stamped /\ Computed

LEMMA InitIInv == Init => IInv
<1> SUFFICES ASSUME Init PROVE IInv
  OBVIOUS
<1> USE FetchAssumption DEF Init
<1>1. TypeOK
  BY DEF TypeOK, Phases
<1>2. Awaited
  BY DEF Awaited, Awaiting
<1>3. Stamped
  BY DEF Stamped
<1>4. Computed
  BY DEF Computed
<1> QED
  BY <1>1, <1>2, <1>3, <1>4 DEF IInv

\* Taking the midpoint of the round trip halves the error of its ends.
LEMMA MidpointNear ==
  ASSUME NEW s \in Int, NEW send \in Int, NEW recv \in Int,
         send + Drift <= s, s <= recv + Drift,
         send <= recv, recv <= send + MaxWait
  PROVE  Offset(s, send, recv) \in Int /\ Near(Offset(s, send, recv))
BY FetchAssumption DEF Offset, Near, Abs

LEMMA ForgetKeeps == TypeOK /\ Forget => IInv'
<1> SUFFICES ASSUME TypeOK, Forget PROVE IInv'
  OBVIOUS
<1> USE FetchAssumption DEF Forget
<1>1. TypeOK'
  BY DEF TypeOK, Phases
<1>2. Awaited'
  BY DEF TypeOK, Awaited, Awaiting
<1>3. Stamped'
  BY DEF Stamped
<1>4. Computed'
  BY DEF Computed
<1> QED
  BY <1>1, <1>2, <1>3, <1>4 DEF IInv

LEMMA NextIInv == IInv /\ [Next]_vars => IInv'
<1> SUFFICES ASSUME IInv, [Next]_vars PROVE IInv'
  OBVIOUS
<1> USE FetchAssumption DEF IInv, Phases, Awaiting
<1>1. ASSUME NEW inject \in BOOLEAN, Ask(inject) PROVE IInv'
  <2>1. TypeOK'
    BY <1>1 DEF Ask, TypeOK
  <2>2. Awaited'
    BY <1>1 DEF Ask, TypeOK, Awaited
  <2>3. Stamped'
    BY <1>1 DEF Ask, Stamped
  <2>4. Computed'
    BY <1>1 DEF Ask, Computed
  <2> QED
    BY <2>1, <2>2, <2>3, <2>4
<1>2. CASE StampTime
  BY <1>2 DEF StampTime, ServerClock, TypeOK, Awaited, Stamped, Computed
<1>3. CASE SkewMeasured
  <2>1. offset' \in Int /\ Near(offset')
    BY <1>3, MidpointNear DEF SkewMeasured, TypeOK, Awaited, Stamped
  <2> QED
    BY <1>3, <2>1
       DEF SkewMeasured, TypeOK, Awaited, Stamped, Computed
<1>4. CASE InstrumentKnown
  <2>1. TypeOK'
    BY <1>4 DEF InstrumentKnown, TypeOK
  <2>2. Awaited'
    BY <1>4 DEF InstrumentKnown, TypeOK, Awaited
  <2>3. Stamped'
    BY <1>4 DEF InstrumentKnown, Stamped
  <2>4. Computed'
    BY <1>4 DEF InstrumentKnown, Computed
  <2> QED
    BY <2>1, <2>2, <2>3, <2>4
<1>5. CASE StampBook
  BY <1>5 DEF StampBook, ServerClock, TypeOK, Awaited, Stamped, Computed
<1>6. CASE Gathered
  <2>1. age' = DataAge(IF injected THEN asked ELSE now, offset, bookTs)
    BY <1>6 DEF Gathered
  <2>2. PICK intact \in BOOLEAN : quality' = Status(age', offset, intact)
    BY <1>6 DEF Gathered
  <2>3. age' \in Int
    BY <1>6, <2>1 DEF Gathered, DataAge, TypeOK, Awaited
  <2>4. /\ quality' \in {"CONFLICTING", "STALE", "VALID"}
        /\ quality' = "VALID" => age' <= MaxAge
    BY <2>2, <2>3 DEF Status
  <2>5. TypeOK'
    BY <1>6, <2>3, <2>4 DEF Gathered, TypeOK
  <2>6. Awaited' /\ Stamped'
    BY <1>6 DEF Gathered, TypeOK, Awaited, Stamped
  <2>7. Computed'
    BY <1>6, <2>1, <2>4 DEF Gathered, TypeOK, Stamped, Computed, DataAge
  <2> QED
    BY <2>5, <2>6, <2>7
<1>7. CASE Release
  BY <1>7, ForgetKeeps DEF Release
<1>8. CASE Fail
  BY <1>8, ForgetKeeps DEF Fail
<1>9. CASE Advance
  BY <1>9 DEF Advance, TypeOK, Awaited, Stamped, Computed, DataAge
<1>10. CASE UNCHANGED vars
  BY <1>10 DEF vars, TypeOK, Awaited, Stamped, Computed, DataAge
<1> QED
  BY <1>1, <1>2, <1>3, <1>4, <1>5, <1>6, <1>7, <1>8, <1>9, <1>10 DEF Next

\* The invariant the other theorems rest on.
THEOREM Invariance == Spec => []IInv
BY InitIInv, NextIInv, PTL DEF Spec

\* A collection never leaves its types, wherever it fails.
THEOREM TypeCorrect == Spec => []TypeOK
BY Invariance, PTL DEF IInv

\* The measured offset misses the drift by no more than half the longest round
\* trip (compute_offset_ms, clock.py:21-29).
THEOREM SkewCorrect == Spec => []SkewErrorBounded
<1>1. IInv => SkewErrorBounded
  BY DEF IInv, TypeOK, Phases, Stamped, Near, SkewErrorBounded
<1> QED
  BY <1>1, Invariance, PTL

\* A book called VALID is older than max_data_age_ms by no more than the error
\* of the offset and the time the loop's clock was read before the data came.
THEOREM FreshCorrect == Spec => []ValidIsFresh
<1>1. ASSUME IInv PROVE ValidIsFresh
  <2>1. SUFFICES ASSUME quality = "VALID"
                 PROVE  2 * (TrueAge - MaxAge - Blind) <= MaxWait + 1
    BY DEF ValidIsFresh
  <2>2. phase = "done"
    BY <1>1, <2>1 DEF IInv, Computed
  <2>3. /\ offset \in Int /\ Near(offset) /\ gathered \in Int /\ asked \in Int
        /\ age = DataAge(IF injected THEN asked ELSE gathered, offset, bookTs)
        /\ age <= MaxAge
    BY <1>1, <2>1, <2>2 DEF IInv, Stamped, Computed, Awaited
  <2>4. bookTs \in Int
    BY <1>1, <2>2 DEF IInv, Computed
  <2>5. TrueAge - MaxAge - Blind <= Drift - offset
    <3>1. CASE injected
      BY <2>3, <2>4, <3>1, FetchAssumption DEF TrueAge, Blind, DataAge
    <3>2. CASE ~injected
      BY <2>3, <2>4, <3>2, FetchAssumption DEF TrueAge, Blind, DataAge
    <3> QED
      BY <3>1, <3>2
  <2>6. TrueAge - MaxAge - Blind \in Int
    BY <2>3, <2>4, FetchAssumption DEF TrueAge, Blind
  <2>7. 2 * (Drift - offset) <= MaxWait + 1
    BY <2>3, FetchAssumption DEF Near, Abs
  <2> HIDE DEF TrueAge, Blind
  <2> QED
    BY <2>3, <2>5, <2>6, <2>7, FetchAssumption
<1> QED
  BY <1>1, Invariance, PTL

\* Read after the gather, the clock never makes a book come from the future,
\* once the offset is exact.
THEOREM AgeCorrect == Spec => []AgeNeverNegative
<1>1. IInv => AgeNeverNegative
  BY FetchAssumption DEF IInv, TypeOK, Computed, DataAge, AgeNeverNegative
<1> QED
  BY <1>1, Invariance, PTL
=============================================================================
