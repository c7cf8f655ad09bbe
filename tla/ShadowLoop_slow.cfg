SPECIFICATION Spec
CONSTANTS
  Interval = 12
  Buffer = 0
  DayLength = 100
  PollInterval = 1
  MaxUsd = 0
  Drift = 0
  MaxOffset = 1
  MaxAge = 2
  PolicyAge = 1
  MaxCost = 0
  Unset = Unset
  MaxWait = 3
  MaxAnalysis = 0
  MaxLag = 0
  MaxRestarts = 0
  StartAt = 11
  Horizon = 24
  BilledMayRaise = FALSE
  RecordMayRaise = FALSE
  HookMayRaise = FALSE
INVARIANTS
  RecentAgrees
