------------------------------- MODULE Cadence -------------------------------
(***************************************************************************)
(* What the analyst promises about its rhythm, with no word on how it is   *)
(* kept: candles close at the multiples of Interval, a closed candle may   *)
(* be decided once its exchange had Buffer to finalise it and while no     *)
(* newer candle has closed, and no candle is ever decided twice.           *)
(* CandleScheduler and, through it, ShadowLoop implement this module.      *)
(***************************************************************************)
EXTENDS Integers

CONSTANTS
  Interval,   \* length of a candle, a positive number
  Buffer      \* wait after a close before the candle may be decided

VARIABLES
  time,       \* the latest instant the scheduler was asked about
  decided,    \* the closes of the candles decided so far
  cycles      \* how many decisions were started

vars == <<time, decided, cycles>>

Init ==
  /\ time \in Nat
  /\ decided = {}
  /\ cycles = 0

\* A look at the clock that starts no decision.
Wait ==
  /\ time' \in Nat
  /\ time' >= time
  /\ UNCHANGED <<decided, cycles>>

\* A look at the clock that decides the candle which closed last.
Decide ==
  /\ time' \in Nat
  /\ time' >= time
  /\ \E k \in 0 .. time' :
       LET close == k * Interval IN
       /\ close + Buffer <= time'
       /\ time' < close + Interval
       /\ close \notin decided
       /\ decided' = decided \cup {close}
  /\ cycles' = cycles + 1

Next == Wait \/ Decide

Spec == Init /\ [][Next]_vars
=============================================================================
