--------------------------- MODULE CandleScheduler ---------------------------
(***************************************************************************)
(* marketdata/scheduler.py, class CandleScheduler, polled by               *)
(* ShadowLoop.run_forever with the wall clock.  The object remembers ONE   *)
(* candle: the close it fired last.  Everything else in this module is the *)
(* clock it is asked with, and history.                                    *)
(*                                                                         *)
(* The clock is time.time_ns(), a wall clock: an adjustment may set it     *)
(* back, by at most MaxStepBack and at most MaxSteps times.                *)
(***************************************************************************)
EXTENDS SchedulerParameters, FiniteSets

VARIABLES
  now,        \* the wall clock
  lastFired,  \* self._last_fired_close
  polled,     \* now_ms of the latest call of should_decide
  decided,    \* history: the closes fired so far
  cycles,     \* LoopStats.cycles: how many times it answered True
  started,    \* history: the clock when the process started
  steps       \* history: backward adjustments so far

vars == <<now, lastFired, polled, decided, cycles, started, steps>>

\* _last_fired_close is None: no candle fired yet
NoClose == -1

-----------------------------------------------------------------------------
(* Mutants: plausible mistakes in the operators below. *)
LastCloseEarlier(t) == (t \div Interval - 1) * Interval
DueForgetful(t) == t >= ((t \div Interval) * Interval) + Buffer
DueEager(t) == lastFired # (t \div Interval) * Interval
DueStrict(t) ==
  /\ t > ((t \div Interval) * Interval) + Buffer
  /\ lastFired # (t \div Interval) * Interval
-----------------------------------------------------------------------------

\* The close of the newest closed candle at instant t.
LastClose(t) == (t \div Interval) * Interval

\* Both early returns of should_decide passed.
Due(t) ==
  /\ t >= LastClose(t) + Buffer
  /\ lastFired # LastClose(t)

Init ==
  /\ now \in 0 .. LastInstant
  /\ lastFired = NoClose
  /\ polled = now
  /\ decided = {}
  /\ cycles = 0
  /\ started = now
  /\ steps = 0

\* What only history remembers.
Kept == started' = started /\ steps' = steps

\* should_decide answers True and remembers the candle.
Fire ==
  /\ Due(now)
  /\ lastFired' = LastClose(now)
  /\ polled' = now
  /\ decided' = decided \cup {LastClose(now)}
  /\ cycles' = cycles + 1
  /\ UNCHANGED now
  /\ Kept

\* should_decide answers False and changes nothing.
Hold ==
  /\ ~Due(now)
  /\ polled' = now
  /\ UNCHANGED <<now, lastFired, decided, cycles>>
  /\ Kept

\* Time passes; the caller polls again before more than MaxGap has passed.
Advance ==
  /\ \E t \in (now + 1) .. LastInstant :
       /\ t <= polled + MaxGap
       /\ now' = t
  /\ UNCHANGED <<lastFired, polled, decided, cycles>>
  /\ Kept

\* The wall clock is set back.
StepBack ==
  /\ steps < MaxSteps
  /\ \E d \in 1 .. MaxStepBack :
       /\ now - d >= 0
       /\ now' = now - d
  /\ steps' = steps + 1
  /\ started' = started
  /\ UNCHANGED <<lastFired, polled, decided, cycles>>

Next == Fire \/ Hold \/ Advance \/ StepBack

Spec == Init /\ [][Next]_vars

-----------------------------------------------------------------------------
(* Properties *)

TypeOK ==
  /\ now \in Nat
  /\ lastFired \in Nat \cup {NoClose}
  /\ polled \in Nat
  /\ decided \in SUBSET Nat
  /\ cycles \in Nat
  /\ started \in Nat
  /\ steps \in 0 .. MaxSteps

\* The candles that closed since the process started.
ClosesSince(t) == {c \in started .. t : c = LastClose(c)}

\* No candle is lost: once the loop has polled after a candle's buffer, that
\* candle was decided.  It needs the poll gap to fit between the end of the
\* buffer and the next close (run_forever polls every 5 s, candles of 1 min).
NoCandleMissed ==
  \A c \in ClosesSince(polled) : c + Buffer <= polled => c \in decided

\* "Nunca duas vezes no mesmo candle" (scheduler.py:58): the scheduler, which
\* remembers only the latest candle, answers True once for every candle as
\* long as its clock does not go back.  A wall clock set back by at most one
\* candle repeats at most two: the one it went back to, and the one it left.
RepeatsBounded == cycles <= Cardinality(decided) + 2 * steps

\* Until the clock is set back the scheduler implements the abstract rhythm,
\* seen at the instants of its polls: every decision is of a candle never
\* decided before, closed for at least Buffer, and still the newest.
C == INSTANCE Cadence WITH time <- polled
KeepsCadence == C!Init /\ [][steps' = 0 => C!Next]_<<polled, decided, cycles>>
=============================================================================
