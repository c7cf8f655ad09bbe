----------------------------- MODULE SpendingCap -----------------------------
(***************************************************************************)
(* What the daily cap promises, whoever keeps the books: a full ledger of  *)
(* what was spent on every day, an authorisation granted only while the    *)
(* day's total is below the cap, and at most one authorised call at a      *)
(* time.  DailyBudget keeps one number instead of the ledger.              *)
(***************************************************************************)
EXTENDS Integers

CONSTANTS
  Days,      \* the days on which money may be spent
  MaxUsd,    \* the cap of a day
  MaxCost,   \* the most one authorised call costs
  Nobody     \* no call is authorised: not one of the Days

VARIABLES
  ledger,    \* what was spent, by day
  grant      \* the day the call in flight was authorised for, or Nobody

vars == <<ledger, grant>>

Init ==
  /\ ledger = [d \in Days |-> 0]
  /\ grant = Nobody

Authorise ==
  /\ grant = Nobody
  /\ \E d \in Days : ledger[d] < MaxUsd /\ grant' = d
  /\ UNCHANGED ledger

\* The authorised call is paid and entered under the day of its authorisation.
Pay ==
  /\ grant \in Days
  /\ \E c \in 0 .. MaxCost : ledger' = [ledger EXCEPT ![grant] = @ + c]
  /\ grant' = Nobody

\* The authorised call did not take place.
Waive ==
  /\ grant \in Days
  /\ grant' = Nobody
  /\ UNCHANGED ledger

Next == Authorise \/ Pay \/ Waive

Spec == Init /\ [][Next]_vars

\* A day on which anything was spent overshoots its cap by less than one call.
CapKept == \A d \in Days : ledger[d] < MaxUsd + MaxCost \/ ledger[d] = 0
=============================================================================
