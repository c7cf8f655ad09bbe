SPECIFICATION Spec
CONSTANTS
  Drift = 2
  MaxOffset = 2
  MaxAge = 2
  Unset = Unset
  MaxWait = 3
  MaxLag = 4
  Horizon = 11
INVARIANTS
  LoopAgeNeverNegative
