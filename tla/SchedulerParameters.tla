-------------------------- MODULE SchedulerParameters -------------------------
(***************************************************************************)
(* The constants of CandleScheduler (marketdata/scheduler.py:42-54) and    *)
(* the bounds of its clock.                                                *)
(***************************************************************************)
EXTENDS Integers

CONSTANTS
  Interval,     \* milliseconds of a candle, in the model's unit of time
  Buffer,       \* buffer_ms
  MaxGap,       \* bound: the longest time between two polls
  MaxStepBack,  \* bound: the largest backward adjustment of the wall clock
  MaxSteps,     \* bound: how many backward adjustments happen
  LastInstant   \* bound: the clock stops here

ASSUME SchedulerAssumption ==
  /\ Interval \in Nat \ {0}
  /\ {Buffer, MaxGap, MaxStepBack, MaxSteps, LastInstant} \subseteq Nat
=============================================================================
