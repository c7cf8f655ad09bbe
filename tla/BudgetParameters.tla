--------------------------- MODULE BudgetParameters ---------------------------
(***************************************************************************)
(* The constants of DailyBudget (marketdata/scheduler.py:82-86), in cents. *)
(***************************************************************************)
EXTENDS Integers

CONSTANTS
  LastDay,     \* bound: the last day of the model
  MaxUsd,      \* max_usd
  MaxCost      \* bound: the most one call costs

ASSUME BudgetAssumption == {LastDay, MaxUsd, MaxCost} \subseteq Nat
=============================================================================
