SPECIFICATION Spec
CONSTANTS
  Unit = 500
  FeeRate = 1
  Policy <- MCPolicy
  Instrument <- MCInstrument
  Cases <- MCCases
INVARIANTS
  TypeOK
  LossWithinBudget
  DailyLimitKept
  LevelsInOrder
  QtyIsLargest
  BindingIsTrue
  RewardPaysRisk
