SPECIFICATION PartsSpec
CONSTANTS
  Interval = 4
  Buffer = 1
  MaxGap = 3
  MaxStepBack = 4
  MaxSteps = 2
  LastInstant = 14
  LastDay = 2
  MaxUsd = 4
  MaxCost = 3
  Drift = 2
  MaxOffset = 2
  MaxAge = 2
  Unset = Unset
  MaxWait = 3
  MaxLag = 4
  Horizon = 11
INVARIANTS
  PartsTypeOK
  NoCandleMissed
  RepeatsBounded
  DayCapped
  TotalIsLedger
  SkewErrorBounded
  ValidIsFresh
  AgeNeverNegative
PROPERTIES
  KeepsCadence
  KeepsCap
