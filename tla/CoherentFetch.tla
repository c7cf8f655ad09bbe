---------------------------- MODULE CoherentFetch ----------------------------
(***************************************************************************)
(* One market-data collection of run_cycle: clock_skew (clock.py), then    *)
(* instrument, then fetch_coherent and validate_market_data (coherent.py). *)
(* The exchange runs a clock of its own, Drift ahead of the local one; the *)
(* program never sees Drift, it sees the offset it measured.               *)
(*                                                                         *)
(* `injected` says where fetch_coherent takes the local clock from: TRUE,  *)
(* the instant the caller read before the collection (ShadowLoop.tick      *)
(* passes its now_ms down); FALSE, the clock read after the gather.        *)
(***************************************************************************)
EXTENDS Integers

CONSTANTS
  Drift,      \* exchange clock minus local clock
  MaxOffset,  \* max_offset_ms of ClockSkew
  MaxAge,     \* max_data_age_ms
  Unset,      \* None: a value the collection has not obtained yet
  MaxWait,    \* bound: how long one await may take
  MaxLag,     \* bound: how old the book already is when the exchange answers
  Horizon     \* bound: the clock stops here

ASSUME FetchAssumption ==
  /\ Drift \in Int
  /\ MaxOffset \in Nat
  /\ MaxAge \in Nat
  /\ Unset \notin Int
  /\ MaxWait \in Nat
  /\ MaxLag \in Nat
  /\ Horizon \in Nat

VARIABLES
  now,       \* the local clock
  phase,     \* which await the collection is at
  asked,     \* the instant the collection was asked for: tick's now_ms, or Unset
  injected,  \* is `asked` injected as local_now_ms?
  since,     \* when the current await began
  server,    \* server_ms in the answer on its way, or Unset
  offset,    \* ClockSkew.offset_ms, or Unset
  bookTs,    \* ts_ms of the book on its way, or Unset
  age,       \* data_age_ms, or Unset
  quality,   \* data_quality.status, or "none"
  gathered   \* history: the local clock when the last answer arrived

vars ==
  <<now, phase, asked, injected, since, server, offset, bookTs, age, quality,
    gathered>>

Phases == {"idle", "skew", "instrument", "gather", "done"}
Awaiting == {"skew", "instrument", "gather"}

ServerClock == now + Drift

-----------------------------------------------------------------------------
(* Mutants: plausible mistakes in the operators below. *)
OffsetAtSend(s, send, recv) == s - send
OffsetAtReceipt(s, send, recv) == s - recv
AgeUncorrected(local, off, ts) == local - ts
StatusNoFresh(a, off, intact) == IF a < 0 \/ ~intact THEN "CONFLICTING" ELSE "VALID"
-----------------------------------------------------------------------------

Abs(x) == IF x < 0 THEN -x ELSE x

\* compute_offset_ms: the server stamped at the midpoint of the round trip.
Offset(s, send, recv) == s - ((send + recv) \div 2)

\* corrected_now_ms minus the timestamp of the book
DataAge(local, off, ts) == (local + off) - ts

\* validate_market_data and _data_quality: a broken book or a clock beyond its
\* limit outranks staleness.
Status(a, off, intact) ==
  IF a < 0 \/ Abs(off) > MaxOffset \/ ~intact THEN "CONFLICTING"
  ELSE IF a > MaxAge THEN "STALE" ELSE "VALID"

Init ==
  /\ now \in 0 .. Horizon
  /\ phase = "idle"
  /\ asked = Unset
  /\ injected = FALSE
  /\ since = now
  /\ server = Unset
  /\ offset = Unset
  /\ bookTs = Unset
  /\ age = Unset
  /\ quality = "none"
  /\ gathered = Unset

\* run_cycle is entered, with a now_ms to inject or without.
Ask(inject) ==
  /\ phase = "idle"
  /\ phase' = "skew"
  /\ asked' = now
  /\ injected' = inject
  /\ since' = now
  /\ UNCHANGED <<now, server, offset, bookTs, age, quality, gathered>>

\* The exchange stamps its answer to /v5/market/time.
StampTime ==
  /\ phase = "skew"
  /\ server = Unset
  /\ server' = ServerClock
  /\ UNCHANGED <<now, phase, asked, injected, since, offset, bookTs, age, quality,
                 gathered>>

\* The answer arrives: measure_skew computes the offset.
SkewMeasured ==
  /\ phase = "skew"
  /\ server # Unset
  /\ offset' = Offset(server, since, now)
  /\ server' = Unset
  /\ phase' = "instrument"
  /\ since' = now
  /\ UNCHANGED <<now, asked, injected, bookTs, age, quality, gathered>>

\* The answer with the instrument's limits arrives.
InstrumentKnown ==
  /\ phase = "instrument"
  /\ phase' = "gather"
  /\ since' = now
  /\ UNCHANGED <<now, asked, injected, server, offset, bookTs, age, quality,
                 gathered>>

\* The exchange answers the book request with a book of that moment or a
\* little older; ticker and candles are on their way at the same time.
StampBook ==
  /\ phase = "gather"
  /\ bookTs = Unset
  /\ \E lag \in 0 .. MaxLag : bookTs' = ServerClock - lag
  /\ UNCHANGED <<now, phase, asked, injected, since, server, offset, age, quality,
                 gathered>>

\* The last answer of the gather arrives; `intact` says that book, last price
\* and prices passed the integrity checks.
Gathered ==
  /\ phase = "gather"
  /\ bookTs # Unset
  /\ LET local == IF injected THEN asked ELSE now IN
       age' = DataAge(local, offset, bookTs)
  /\ \E intact \in BOOLEAN : quality' = Status(age', offset, intact)
  /\ phase' = "done"
  /\ gathered' = now
  /\ since' = now
  /\ UNCHANGED <<now, asked, injected, server, offset, bookTs>>

\* What one cycle learnt is gone with the cycle's local variables.
Forget ==
  /\ phase' = "idle"
  /\ asked' = Unset
  /\ since' = now
  /\ server' = Unset
  /\ offset' = Unset
  /\ bookTs' = Unset
  /\ age' = Unset
  /\ quality' = "none"
  /\ gathered' = Unset
  /\ injected' = FALSE
  /\ UNCHANGED now

\* The snapshot was used.
Release == phase = "done" /\ Forget

\* A request raised: timeout, HTTP status, retCode, payload that does not parse.
Fail == phase \in Awaiting /\ Forget

\* Time passes; no await outlasts MaxWait.
Advance ==
  /\ now < Horizon
  /\ phase \in Awaiting => now < since + MaxWait
  /\ now' = now + 1
  /\ UNCHANGED <<phase, asked, injected, since, server, offset, bookTs, age,
                 quality, gathered>>

Next ==
  \/ (\E inject \in BOOLEAN : Ask(inject)) \/ StampTime \/ SkewMeasured \/ InstrumentKnown
  \/ StampBook \/ Gathered \/ Release \/ Fail \/ Advance

Spec == Init /\ [][Next]_vars

-----------------------------------------------------------------------------
(* Properties *)

TypeOK ==
  /\ now \in 0 .. Horizon
  /\ phase \in Phases
  /\ asked \in 0 .. Horizon \cup {Unset}
  /\ injected \in BOOLEAN
  /\ since \in 0 .. Horizon
  /\ {server, offset, bookTs, age} \subseteq Int \cup {Unset}
  /\ quality \in {"none", "CONFLICTING", "STALE", "VALID"}
  /\ gathered \in 0 .. Horizon \cup {Unset}

\* Taking the midpoint of the round trip (clock.py:21-29), the measured offset
\* misses the real one by no more than half the longest round trip, wherever
\* in it the exchange stamped.
SkewErrorBounded ==
  offset # Unset => 2 * Abs(offset - Drift) <= MaxWait + 1

\* The age the book really had when the last answer arrived.
TrueAge == (gathered + Drift) - bookTs

\* How long before the end of the gather the clock was read.
Blind == IF injected THEN gathered - asked ELSE 0

\* A book called VALID is as fresh as max_data_age_ms demands, up to the
\* error of the measured offset and to the time the collection took after the
\* clock was read: nothing if it is read after the gather, the whole
\* collection if the caller injects it.
ValidIsFresh ==
  quality = "VALID" => 2 * (TrueAge - MaxAge - Blind) <= MaxWait + 1

\* With the clock read when the data arrive, the age of the book is never
\* negative (coherent.py:62-66, "o `now` honesto e o instante em que os dados
\* CHEGAM"), if the offset was measured exactly.
AgeNeverNegative ==
  phase = "done" /\ ~injected /\ offset = Drift => age >= 0

-----------------------------------------------------------------------------
(* What the documentation says and the code does not keep *)

\* "data_age_ms sempre positivo" (PLANO_ANALISTA.md:193), of the loop, whose
\* tick always injects its own clock although "`now_ms` só é injetado em
\* teste" (orchestrator.py:135).
LoopAgeNeverNegative ==
  phase = "done" /\ injected /\ offset = Drift => age >= 0
=============================================================================
