SPECIFICATION Spec
CONSTANTS
  Window = 1
  Fast = 3
  Slow = 5
  MinCandles = 5
  Lookback = 2
  Flat = 20
  MaxAge = 10
  MaxSpread = 20
  Unit = 200
  FeeRate = 1
  Equity = 3000
  Now = 5
  Validity = 3
  Absent = Absent
  Garbled = Garbled
  Limit = 6
  Prices = {1, 2, 3, 4}
  MaxRange = 1
  Policy <- MCPolicy
  Instrument <- MCInstrument
  Books <- MCBooks
  Answers <- MCAnswers
  Probes <- MCProbes
INVARIANTS
  TypeOK
  LiquidationHarmless
  AccountAccepted
  MirrorFair
PROPERTY
  SwingsSettle
