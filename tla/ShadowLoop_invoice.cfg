SPECIFICATION Spec
CONSTANTS
  Interval = 4
  Buffer = 1
  DayLength = 12
  PollInterval = 2
  MaxUsd = 1
  Drift = 1
  MaxOffset = 1
  MaxAge = 2
  PolicyAge = 1
  MaxCost = 1
  Unset = Unset
  MaxWait = 1
  MaxAnalysis = 2
  MaxLag = 2
  MaxRestarts = 0
  StartAt = 7
  Horizon = 26
  BilledMayRaise = TRUE
  RecordMayRaise = FALSE
  HookMayRaise = FALSE
INVARIANTS
  InvoiceCapped
