------------------------------ MODULE MCCycle -------------------------------
(***************************************************************************)
(* TLC instance of Cycle: books of every quality, a series for every       *)
(* reading of the market that matters to the gate, and answers that are    *)
(* sound, incomplete, malformed and unprofitable, for both sides.          *)
(***************************************************************************)
EXTENDS Cycle

MCPolicy ==
  [maxRisk |-> 10, maxTotalRisk |-> 20, maxDailyLoss |-> 16, maxWeeklyLoss |-> 20, maxPositions |-> 1,
   maxLeverage |-> 2, minRr |-> 240, maxLosses |-> 2, maxDailyEntries |-> 2,
   maxSpread |-> 20, maxSlippage |-> 20, maxDataAge |-> 5, symbols |-> {"BTCUSDT"}]

MCInstrument ==
  [qtyStep |-> 2, minQty |-> 2, maxQty |-> 30, maxMarketQty |-> 5, minNotional |-> 2000]

Level(p, s) == [price |-> p, size |-> s]
Sound == [bids |-> <<Level(999, 1), Level(998, 2)>>, asks |-> <<Level(1001, 4), Level(1002, 30)>>,
          last |-> 1000, age |-> 5, healthy |-> TRUE]

MCBooks ==
  {Sound,
   [Sound EXCEPT !.asks = <<Level(1001, 5)>>],
   [Sound EXCEPT !.bids = <<Level(1001, 3)>>, !.asks = <<Level(999, 4)>>],
   [Sound EXCEPT !.bids = <<Level(1001, 3)>>, !.asks = <<Level(999, 4)>>, !.last = 1001],
   [Sound EXCEPT !.bids = <<Level(1000, 3)>>, !.asks = <<Level(1000, 4)>>],
   [Sound EXCEPT !.bids = <<Level(995, 3)>>, !.asks = <<Level(1005, 4)>>],
   [Sound EXCEPT !.bids = <<Level(0, 3)>>], [Sound EXCEPT !.bids = <<>>],
   [Sound EXCEPT !.bids = <<Level(0, 3)>>, !.asks = <<Level(0, 3)>>],
   [Sound EXCEPT !.last = 1005], [Sound EXCEPT !.healthy = FALSE],
   [Sound EXCEPT !.age = -1], [Sound EXCEPT !.age = 6], [Sound EXCEPT !.age = 11]}

\* The quotient of SpreadBps is exact for these books.
ASSUME \A ob \in MCBooks :
  Unreadable(ob) \/ (20000 * Spread(ob)) % (BestBid(ob) + BestAsk(ob)) = 0

Answer(action, price, stop, inval, tps, type, expires) ==
  [action |-> action, symbol |-> "BTCUSDT", price |-> price, stop |-> stop,
   invalidation |-> inval, tps |-> tps, type |-> type, expires |-> expires,
   claimed |-> Absent]

Target(p, f) == [price |-> p, fraction |-> f]

Longs ==
  {Answer("OPEN_LONG", 1000, stop, inval, tps, type, Absent) :
     stop \in {740, 750, 760, 960, 990, 1010}, inval \in {990, 995, 1005},
     tps \in {<<>>, <<Target(1100, 200)>>, <<Target(1003, 200)>>,
              <<Target(1300, 200)>>, <<Target(990, 200)>>,
              <<Target(1100, 100), Target(1600, 100)>>, <<Target(1100, 100)>>},
     type \in {"LIMIT", "MARKET"}}

Shorts ==
  {Answer("OPEN_SHORT", 1000, stop, inval, tps, type, Absent) :
     stop \in {1260, 1250, 1240, 1040, 1010, 990}, inval \in {1010, 1005, 995},
     tps \in {<<Target(900, 200)>>, <<Target(997, 200)>>, <<Target(500, 200)>>,
              <<Target(900, 100), Target(800, 100)>>},
     type \in {"LIMIT", "MARKET"}}

GoodLong ==
  Answer("OPEN_LONG", 1000, 990, 995, <<Target(1100, 200)>>, "LIMIT", 6)

Malformed ==
  {[GoodLong EXCEPT !.price = Absent], [GoodLong EXCEPT !.price = 0],
   [GoodLong EXCEPT !.stop = Garbled], [GoodLong EXCEPT !.invalidation = Absent],
   [GoodLong EXCEPT !.tps = <<Target(Absent, 200)>>],
   [GoodLong EXCEPT !.tps = <<Target(1100, 201)>>],
   [GoodLong EXCEPT !.tps = <<Target(1100, 200), Target(1200, 0)>>],
   [GoodLong EXCEPT !.expires = Garbled], [GoodLong EXCEPT !.expires = 5],
   [GoodLong EXCEPT !.claimed = Garbled],
   [GoodLong EXCEPT !.symbol = "ETHUSDT"]}

MCAnswers ==
  Longs \cup Shorts \cup Malformed
    \cup {GoodLong, [GoodLong EXCEPT !.action = "NO_TRADE"],
          [GoodLong EXCEPT !.action = "HALT_TRADING"]}

Bar(h, l, c) == [high |-> h, low |-> l, close |-> c]
Dash(p) == Bar(p, p, p)

\* No candle; too few; a flat market; a rise; a fall; a rise that turned; a
\* break upwards, a break downwards, and a change of character in either trend.
MCProbes ==
  {<<>>, <<Dash(1)>>, <<Dash(1), Dash(3)>>,
   <<Dash(2), Dash(2), Dash(2), Dash(2), Dash(2)>>,
   <<Dash(1), Dash(1), Dash(2), Dash(2), Dash(3)>>,
   <<Dash(3), Dash(3), Dash(2), Dash(2), Dash(1)>>,
   <<Dash(1), Dash(1), Dash(4), Dash(3), Dash(2)>>,
   <<Dash(1), Dash(2), Dash(1), Dash(3)>>, <<Dash(3), Dash(2), Dash(3), Dash(1)>>,
   <<Dash(2), Dash(1), Dash(3), Dash(2), Bar(4, 3, 3), Dash(1)>>,
   <<Dash(3), Dash(4), Dash(2), Dash(3), Bar(2, 1, 2), Dash(4)>>}

\* They show every regime.
ASSUME {"UNKNOWN", "RANGE", "TRENDING_UP", "TRENDING_DOWN", "TRANSITION"}
         \subseteq {Regime(cs) : cs \in MCProbes}
=============================================================================
