----------------------------- MODULE DailyBudget -----------------------------
(***************************************************************************)
(* marketdata/scheduler.py, class DailyBudget, called the way              *)
(* ShadowLoop.tick calls it: can_afford at the start of a cycle, then      *)
(* record_spend with the same day if the cycle analysed, or nothing if it  *)
(* was skipped or raised.  Money is counted in cents.                      *)
(*                                                                         *)
(* The object keeps the current day and one running total; `ledger` is     *)
(* history: what was recorded for every day.                               *)
(***************************************************************************)
EXTENDS BudgetParameters

VARIABLES
  day,       \* self._day
  spent,     \* self._spent
  grant,     \* the day an authorised cycle is running for
  ledger     \* history: everything recorded, by day

vars == <<day, spent, grant, ledger>>

Days == 0 .. LastDay

\* None, as a day of the budget and as an authorisation
NoDay == -1

\* The days a caller may pass: day_epoch is read off a clock that is not set
\* back across midnight.
Passable == {d \in Days : d >= day}

-----------------------------------------------------------------------------
\* Mutant: a new day does not start a new total.
RolledNever(d) == spent

\* _roll_day: a day other than the remembered one starts a new total.
Rolled(d) == IF d # day THEN 0 ELSE spent

\* Mutant: the cap itself may still be spent.
AffordableLoose(d) == Rolled(d) <= MaxUsd

Affordable(d) == Rolled(d) < MaxUsd

\* can_afford: rolls the day, whatever it answers.
CanAfford(d) ==
  /\ day' = d
  /\ spent' = Rolled(d)
  /\ UNCHANGED ledger

\* Mutant: the spend replaces the total.
RecordSpendReset(d, c) ==
  /\ day' = d
  /\ spent' = c
  /\ ledger' = [ledger EXCEPT ![d] = @ + c]

\* record_spend
RecordSpend(d, c) ==
  /\ day' = d
  /\ spent' = Rolled(d) + c
  /\ ledger' = [ledger EXCEPT ![d] = @ + c]

Init ==
  /\ day = NoDay
  /\ spent = 0
  /\ grant = NoDay
  /\ ledger = [d \in Days |-> 0]

\* A cycle starts and is authorised.
Authorise ==
  /\ grant = NoDay
  /\ \E d \in Passable : Affordable(d) /\ CanAfford(d) /\ grant' = d

\* A cycle starts without authorisation: it will be skipped.
Refuse ==
  /\ grant = NoDay
  /\ \E d \in Passable : ~Affordable(d) /\ CanAfford(d)
  /\ UNCHANGED grant

\* The cycle analysed: its cost is recorded under the day it started on.
Pay ==
  /\ grant # NoDay
  /\ \E c \in 0 .. MaxCost : RecordSpend(grant, c)
  /\ grant' = NoDay

\* The cycle was skipped by the prefilter, or raised.
Waive ==
  /\ grant # NoDay
  /\ grant' = NoDay
  /\ UNCHANGED <<day, spent, ledger>>

Next == Authorise \/ Refuse \/ Pay \/ Waive

Spec == Init /\ [][Next]_vars

-----------------------------------------------------------------------------
(* Properties *)

TypeOK ==
  /\ day \in Days \cup {NoDay}
  /\ spent \in Nat
  /\ grant \in Days \cup {NoDay}
  /\ ledger \in [Days -> Nat]

\* The single running total is the ledger of the remembered day, and nothing
\* is recorded for a day still to come: forgetting a day when it rolls over
\* loses nothing, as long as days do not recede.
TotalIsLedger ==
  /\ day # NoDay => spent = ledger[day]
  /\ \A d \in Days : d > day => ledger[d] = 0

\* One running total implements the full ledger of the abstract cap.
Cap == INSTANCE SpendingCap WITH Nobody <- NoDay
KeepsCap == Cap!Spec

\* "para de autorizar chamadas ao atingir o limite diário" (scheduler.py:9-10):
\* whatever the order of days, grants and abandoned cycles, no day's ledger
\* reaches the cap plus one call.
DayCapped == Cap!CapKept
=============================================================================
