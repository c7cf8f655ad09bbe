---------------------------- MODULE MCRiskEngine -----------------------------
(***************************************************************************)
(* TLC instances of RiskEngine: a policy and an instrument whose limits    *)
(* all bind for some call, every geometry of the levels for both sides     *)
(* with a clean account, and every breach of an account limit for a good   *)
(* trade.                                                                  *)
(***************************************************************************)
EXTENDS RiskEngine

MCPolicy ==
  [maxRisk |-> 25, maxTotalRisk |-> 50, maxDailyLoss |-> 40, maxWeeklyLoss |-> 50, maxPositions |-> 1,
   maxLeverage |-> 1, minRr |-> 600, maxLosses |-> 2, maxDailyEntries |-> 2,
   maxSpread |-> 5, maxSlippage |-> 5, maxDataAge |-> 3, symbols |-> {"BTCUSDT"}]

MCInstrument ==
  [qtyStep |-> 2, minQty |-> 2, maxQty |-> 9, maxMarketQty |-> 7,
   minNotional |-> 390]

Levels == {94, 98, 99, 100, 102, 106}

Full(p) == <<[price |-> p, fraction |-> 500]>>
Plans ==
  {Full(p) : p \in {90, 96, 101, 103, 110}}
    \cup {<<[price |-> p, fraction |-> 200], [price |-> q, fraction |-> 300]>> :
            p \in {97, 102}, q \in {91, 102, 109}}
    \cup {<<[price |-> 110, fraction |-> 250]>>,
          <<[price |-> 110, fraction |-> 350], [price |-> 112, fraction |-> 350]>>}

Intent(side, entry, stop, inval, liq, tps, type) ==
  [side |-> side, entry |-> entry, stop |-> stop, invalidation |-> inval,
   liquidation |-> liq, tps |-> tps, orderType |-> type, symbol |-> "BTCUSDT",
   averagingDown |-> FALSE, widensStop |-> FALSE, expires |-> 10]

CleanAccount(equity) ==
  [equity |-> equity, dailyPnl |-> 0, weeklyPnl |-> 0, openPositions |-> 0,
   entriesToday |-> 0, consecutiveLosses |-> 0, dataAge |-> 3, spreadBps |-> 5,
   slippageBps |-> 5, conflictingPosition |-> FALSE, conflictingOrder |-> FALSE]

Market(slippage, liquidity, now) ==
  [slippage |-> slippage, liquidity |-> liquidity, now |-> now]

\* Every geometry, sized from little and much equity
Geometries ==
  {[intent |-> Intent(side, 100, stop, inval, liq, tps, type),
    account |-> CleanAccount(equity), market |-> Market(0, 8, 5)] :
      side \in {"BUY", "SELL"}, stop \in Levels, inval \in Levels,
      liq \in {93, 98, 107}, tps \in Plans, type \in {"Limit", "Market"},
      equity \in {300, 500, 1000}}

GoodLong == Intent("BUY", 100, 94, 98, 93, Full(110), "Limit")
GoodShort == Intent("SELL", 100, 106, 102, 107, Full(90), "Market")

\* One limit of the account reached or passed at a time
Accounts ==
  LET clean == CleanAccount(1000) IN
  {[clean EXCEPT !.dailyPnl = x] : x \in {-80, -79, -31, -30, 10}}
    \cup {[clean EXCEPT !.weeklyPnl = x] : x \in {-101, -100, -99}}
    \cup {[clean EXCEPT !.openPositions = 1], [clean EXCEPT !.entriesToday = 2],
          [clean EXCEPT !.consecutiveLosses = 2], [clean EXCEPT !.dataAge = 4],
          [clean EXCEPT !.spreadBps = 6], [clean EXCEPT !.slippageBps = 6],
          [clean EXCEPT !.conflictingPosition = TRUE],
          [clean EXCEPT !.conflictingOrder = TRUE]}

Intents ==
  UNION {{[t EXCEPT !.symbol = "ETHUSDT"], [t EXCEPT !.averagingDown = TRUE],
          [t EXCEPT !.widensStop = TRUE], [t EXCEPT !.expires = 5], t}
            : t \in {GoodLong, GoodShort}}
    \cup {[GoodLong EXCEPT !.tps = Full(101)], [GoodShort EXCEPT !.tps = Full(99)]}

Limits ==
  {[intent |-> t, account |-> a, market |-> m] :
     t \in Intents, a \in Accounts \cup {CleanAccount(1000), CleanAccount(5000)},
     m \in {Market(s, l, 5) : s \in {-1, 0, 1, 2}, l \in {-1, 3, 5, 8, 20}}}

MCCases == Geometries \cup Limits
=============================================================================
