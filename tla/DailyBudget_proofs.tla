------------------------- MODULE DailyBudget_proofs --------------------------
(***************************************************************************)
(* Proofs about DailyBudget, for every cap, every cost of a call and every *)
(* number of days: its single running total implements the full ledger of  *)
(* SpendingCap, and so no day is overspent by as much as one call.         *)
(***************************************************************************)
EXTENDS DailyBudget, TLAPS

\* An authorised cycle runs on the remembered day, which still has room.
GrantHasRoom == grant # NoDay => grant = day /\ ledger[grant] < MaxUsd

\* The inductive invariant: the total is the ledger of the remembered day, so
\* what can_afford compared is what the day really spent.
IInv == TypeOK /\ TotalIsLedger /\ GrantHasRoom /\ DayCapped

\* What _roll_day leaves as the total of a day that may be passed is what the
\* ledger says of that day, whether it is the remembered one or a new one.
LEMMA RolledIsLedger ==
  ASSUME TypeOK, TotalIsLedger, NEW d \in Passable
  PROVE  Rolled(d) = ledger[d] /\ d \in Days /\ d >= day
BY BudgetAssumption DEF TypeOK, TotalIsLedger, Passable, Rolled, Days, NoDay

LEMMA InitIInv == Init => IInv
BY BudgetAssumption
   DEF Init, IInv, TypeOK, TotalIsLedger, GrantHasRoom, DayCapped, Cap!CapKept,
       Days, NoDay

\* can_afford keeps the invariant, whatever it answers.
LEMMA CanAffordKeeps ==
  ASSUME TypeOK, TotalIsLedger, DayCapped, NEW d \in Passable, CanAfford(d)
  PROVE  /\ day' \in Days /\ spent' \in Nat /\ ledger' \in [Days -> Nat]
         /\ TotalIsLedger'
         /\ DayCapped'
<1>1. Rolled(d) = ledger[d] /\ d \in Days /\ d >= day
  BY RolledIsLedger
<1>2. day' = d /\ spent' = ledger[d] /\ ledger' = ledger
  BY <1>1 DEF CanAfford
<1>3. day \in Int /\ d \in Nat
  BY <1>1, BudgetAssumption DEF TypeOK, Days, NoDay
<1>4. TotalIsLedger'
  BY <1>1, <1>2, <1>3, BudgetAssumption DEF TypeOK, TotalIsLedger, Days, NoDay
<1>5. DayCapped'
  BY <1>2 DEF DayCapped, Cap!CapKept
<1> QED
  BY <1>1, <1>2, <1>4, <1>5 DEF TypeOK

LEMMA NextIInv == IInv /\ [Next]_vars => IInv'
<1> SUFFICES ASSUME IInv, [Next]_vars PROVE IInv'
  OBVIOUS
<1> USE BudgetAssumption DEF IInv
<1>1. CASE Authorise
  <2>1. PICK d \in Passable : Affordable(d) /\ CanAfford(d) /\ grant' = d
    BY <1>1 DEF Authorise
  <2>2. ledger[d] < MaxUsd /\ d \in Days /\ day' = d /\ ledger' = ledger
    BY <2>1, RolledIsLedger DEF Affordable, CanAfford
  <2>3. GrantHasRoom'
    BY <2>1, <2>2 DEF GrantHasRoom
  <2> QED
    BY <2>1, <2>2, <2>3, CanAffordKeeps DEF TypeOK
<1>2. CASE Refuse
  <2>1. PICK d \in Passable : CanAfford(d) /\ grant' = grant /\ grant = NoDay
    BY <1>2 DEF Refuse
  <2>2. GrantHasRoom'
    BY <2>1 DEF GrantHasRoom
  <2> QED
    BY <2>1, <2>2, CanAffordKeeps DEF TypeOK
<1>3. CASE Pay
  <2>1. PICK c \in 0 .. MaxCost : RecordSpend(grant, c) /\ grant' = NoDay
    BY <1>3 DEF Pay
  <2>2. grant = day /\ day \in Days /\ ledger[day] < MaxUsd /\ c \in Nat
    BY <1>3, <2>1 DEF Pay, GrantHasRoom, TypeOK
  <2>3. /\ day' = day
        /\ spent' = spent + c
        /\ ledger' = [ledger EXCEPT ![day] = @ + c]
    BY <2>1, <2>2 DEF RecordSpend, Rolled
  <2>4. TypeOK'
    BY <2>1, <2>2, <2>3 DEF TypeOK
  <2>5. TotalIsLedger'
    BY <2>2, <2>3 DEF TotalIsLedger, TypeOK, Days
  <2>6. DayCapped'
    BY <2>2, <2>3 DEF DayCapped, Cap!CapKept, TypeOK
  <2> QED
    BY <2>1, <2>4, <2>5, <2>6 DEF GrantHasRoom
<1>4. CASE Waive
  BY <1>4 DEF Waive, TypeOK, TotalIsLedger, GrantHasRoom, DayCapped, Cap!CapKept
<1>5. CASE UNCHANGED vars
  BY <1>5 DEF vars, TypeOK, TotalIsLedger, GrantHasRoom, DayCapped, Cap!CapKept
<1> QED
  BY <1>1, <1>2, <1>3, <1>4, <1>5 DEF Next

\* The invariant the other theorems rest on.
THEOREM Invariance == Spec => []IInv
BY InitIInv, NextIInv, PTL DEF Spec

\* The budget never leaves its types (DailyBudget, scheduler.py:76-98).
THEOREM TypeCorrect == Spec => []TypeOK
BY Invariance, PTL DEF IInv

\* The one running total always is what was recorded for the remembered day.
THEOREM TotalCorrect == Spec => []TotalIsLedger
BY Invariance, PTL DEF IInv

\* No day of the ledger reaches the cap plus the cost of one call, for every
\* cap and every bound on the cost.
THEOREM CapCorrect == Spec => []DayCapped
BY Invariance, PTL DEF IInv

\* DailyBudget implements SpendingCap: what can_afford compares is the ledger.
THEOREM Refinement == Spec => KeepsCap
<1>1. Init => Cap!Init
  BY DEF Init, Cap!Init
<1>2. IInv /\ [Next]_vars => [Cap!Next]_Cap!vars
  <2> SUFFICES ASSUME IInv, [Next]_vars PROVE [Cap!Next]_Cap!vars
    OBVIOUS
  <2> USE DEF IInv, Cap!Next
  <2>1. CASE Authorise
    <3>1. PICK d \in Passable : Affordable(d) /\ CanAfford(d) /\ grant' = d
      BY <2>1 DEF Authorise
    <3>2. ledger[d] < MaxUsd /\ d \in Days /\ ledger' = ledger
      BY <3>1, RolledIsLedger DEF Affordable, CanAfford
    <3> QED
      BY <2>1, <3>1, <3>2 DEF Authorise, Cap!Authorise
  <2>2. CASE Refuse
    BY <2>2 DEF Refuse, CanAfford, Cap!vars
  <2>3. CASE Pay
    BY <2>3 DEF Pay, RecordSpend, TypeOK, Cap!Pay
  <2>4. CASE Waive
    BY <2>4 DEF Waive, TypeOK, Cap!Waive
  <2>5. CASE UNCHANGED vars
    BY <2>5 DEF vars, Cap!vars
  <2> QED
    BY <2>1, <2>2, <2>3, <2>4, <2>5 DEF Next
<1> QED
  BY <1>1, <1>2, Invariance, PTL DEF Spec, KeepsCap, Cap!Spec
=============================================================================
