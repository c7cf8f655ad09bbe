----------------------------- MODULE MCMarketData -----------------------------
(***************************************************************************)
(* The three parts of marketdata/ checked on their own: the candle         *)
(* scheduler, the daily budget and the collection of the data.  They share *)
(* no state, so a behaviour moves one of them and leaves the others as     *)
(* they started; ShadowLoop composes them.                                 *)
(***************************************************************************)
EXTENDS CoherentFetch, SchedulerParameters, BudgetParameters

VARIABLES
  part,                                          \* the part that moves
  clock, lastFired, polled, decided, cycles,     \* CandleScheduler
  started, steps,
  day, spent, grant, ledger                      \* DailyBudget

schedVars == <<clock, lastFired, polled, decided, cycles, started, steps>>
budgetVars == <<day, spent, grant, ledger>>

Sched == INSTANCE CandleScheduler WITH now <- clock
Budget == INSTANCE DailyBudget

PartsInit ==
  /\ part \in {"scheduler", "budget", "collection"}
  /\ Sched!Init /\ (part # "scheduler" => clock = 0)
  /\ Budget!Init
  /\ Init /\ (part # "collection" => now = 0)

PartsNext ==
  /\ part' = part
  /\ \/ part = "scheduler" /\ Sched!Next /\ UNCHANGED <<budgetVars, vars>>
     \/ part = "budget" /\ Budget!Next /\ UNCHANGED <<schedVars, vars>>
     \/ part = "collection" /\ Next /\ UNCHANGED <<schedVars, budgetVars>>

PartsSpec == PartsInit /\ [][PartsNext]_<<part, schedVars, budgetVars, vars>>

-----------------------------------------------------------------------------
(* Properties: those of the collection are CoherentFetch's own. *)

\* Every part keeps its types (scheduler.py, clock.py, coherent.py).
PartsTypeOK == Sched!TypeOK /\ Budget!TypeOK /\ TypeOK

\* CandleScheduler: no candle is lost when the polls are close enough
\* (scheduler.py:65-73).
NoCandleMissed == Sched!NoCandleMissed

\* CandleScheduler: what a wall clock set back can repeat (scheduler.py:70).
RepeatsBounded == Sched!RepeatsBounded

\* CandleScheduler: one decision per candle, of the newest, past its buffer,
\* until the clock is set back (scheduler.py:57-58).
KeepsCadence == Sched!KeepsCadence

\* DailyBudget: no day's ledger reaches the cap plus one call
\* (scheduler.py:89-91).
DayCapped == Budget!DayCapped

\* DailyBudget: the one total is the ledger of the remembered day
\* (scheduler.py:84-87).
TotalIsLedger == Budget!TotalIsLedger

\* DailyBudget: one total does what a full ledger would (scheduler.py:78-95).
KeepsCap == Budget!KeepsCap
=============================================================================
