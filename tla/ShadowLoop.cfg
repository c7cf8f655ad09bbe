SPECIFICATION Spec
CONSTANTS
  Interval = 6
  Buffer = 0
  DayLength = 12
  PollInterval = 1
  MaxUsd = 2
  Drift = 1
  MaxOffset = 1
  MaxAge = 2
  PolicyAge = 1
  MaxCost = 2
  Unset = Unset
  MaxWait = 2
  MaxAnalysis = 1
  MaxLag = 7
  MaxRestarts = 0
  StartAt = 0
  Horizon = 15
  BilledMayRaise = TRUE
  RecordMayRaise = TRUE
  HookMayRaise = TRUE
INVARIANTS
  TypeOK
  StatsBalance
  LogAgrees
  BillKnown
  LogInCandleOrder
  StampsNearlyOrdered
  ApprovalAgeBounded
PROPERTIES
  CallGated
  KeepsScheduler
  KeepsBudget
