SPECIFICATION FairSpec
CONSTANTS
  Interval = 9
  Buffer = 1
  DayLength = 12
  PollInterval = 2
  MaxUsd = 1
  Drift = 1
  MaxOffset = 1
  MaxAge = 2
  PolicyAge = 1
  MaxCost = 1
  Unset = Unset
  MaxWait = 1
  MaxAnalysis = 1
  MaxLag = 2
  MaxRestarts = 1
  StartAt = 8
  Horizon = 20
  BilledMayRaise = FALSE
  RecordMayRaise = FALSE
  HookMayRaise = FALSE
INVARIANTS
  NoCandleMissed
  InvoiceCapped
PROPERTIES
  CycleEnds
  KeepsPolling
