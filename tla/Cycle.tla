------------------------------- MODULE Cycle --------------------------------
(***************************************************************************)
(* What one cycle of the analyst decides: run_cycle                        *)
(* (agent/orchestrator.py) reads the market (MarketReading), asks the      *)
(* model, turns its answer into an intent (agent/parser.py) and has the    *)
(* Risk Engine judge it.  Its order, timing and bookkeeping are those of   *)
(* ShadowLoop; here are the contents.  Between cycles the market moves.    *)
(*                                                                         *)
(* The answer of the model is any of Answers: its schema fixes the fields  *)
(* but neither their values nor their presence.  A field is Absent (None)  *)
(* or Garbled (a string that does not parse).                              *)
(***************************************************************************)
EXTENDS MarketReading

CONSTANTS
  Unit, Policy, Instrument, FeeRate,     \* of RiskEngine
  Equity,       \* account_equity
  Now,          \* the corrected clock of the collection
  Validity,     \* an intent without expires_at is valid this long (1 h)
  Absent, Garbled,
  Books,        \* the books a collection may bring
  Answers,      \* the answers the model may give
  Limit,        \* the limit of klines: the newest Limit candles are read (200)
  Prices,       \* bound: the prices of the candles
  MaxRange,     \* bound: the distance between high and low of a candle
  Probes        \* bound: the series on which cycles run

ASSUME CycleAssumption ==
  /\ Equity \in Nat \ {0}
  /\ Limit \in Nat \ {0}
  /\ {Now, Validity, MaxRange, FeeRate} \subseteq Nat
  /\ Prices \subseteq Nat \ {0} /\ IsFiniteSet(Prices)

\* What get_orderbook and get_ticker return: any numbers, none of them checked
\* yet, but the exchange has no negative amount for sale.
ASSUME BooksAssumption ==
  \A ob \in Books :
    /\ {ob.bids, ob.asks} \subseteq Seq([price : Int, size : Nat])
    /\ {ob.last, ob.age} \subseteq Int

\* Action: the schema of the answer allows no other.
Actions ==
  {"NO_TRADE", "WATCH", "OPEN_LONG", "OPEN_SHORT", "ADJUST_STOP", "TAKE_PARTIAL",
   "CLOSE_POSITION", "HALT_TRADING"}

ASSUME AnswersAssumption == \A a \in Answers : a.action \in Actions

VARIABLES
  pc,        \* where run_cycle is, or "idle"
  candles,   \* the candles of the primary timeframe
  book,      \* the book of the cycle, or NoBook
  end,       \* why the cycle went on or how it ended, or "none"
  call, outcome      \* RiskEngine

vars == <<pc, candles, book, end, call, outcome>>

\* The engine is called with what a cycle gives it, not with prepared cases.
Engine == INSTANCE RiskEngine WITH Cases <- {}

\* The policy and the limits of the instrument went through their constructors.
ASSUME LimitsAssumption ==
  /\ Unit \in Nat \ {0}
  /\ {Policy.maxRisk, Policy.maxTotalRisk, Policy.maxDailyLoss, Policy.maxWeeklyLoss,
      Policy.minRr, Policy.maxPositions} \subseteq Int
  /\ Engine!PolicyValid
  /\ Engine!InstrumentValid

NoBook == [bids |-> <<>>, asks |-> <<>>, last |-> 0, age |-> 0, healthy |-> FALSE]
NoCall == <<>>

Init ==
  /\ pc = "idle"
  /\ candles = <<>>
  /\ book = NoBook
  /\ end = "none"
  /\ call = NoCall
  /\ outcome = Engine!Pending

-----------------------------------------------------------------------------
(* The market *)

Candle(p) == [high |-> p, low |-> p, close |-> p]

\* What klines returns when a candle more than the last time is there: the
\* oldest one leaves a full series.
Newest(series) == IF Len(series) > Limit THEN Tail(series) ELSE series

\* A new candle opens with its first trade.
Open ==
  /\ pc = "idle"
  /\ \E p \in Prices : candles' = Newest(Append(candles, Candle(p)))
  /\ UNCHANGED <<pc, book, end, call, outcome>>

\* Mutant: the extremes stay where they were.
TradedClose(candle, p) == [candle EXCEPT !.close = p]

Traded(candle, p) ==
  [high |-> Max({candle.high, p}), low |-> Min({candle.low, p}), close |-> p]

\* A trade changes the forming candle.
Trade ==
  /\ pc = "idle"
  /\ candles # <<>>
  /\ \E p \in Prices : candles' = [candles EXCEPT ![Len(candles)] = Traded(@, p)]
  /\ candles'[Len(candles)].high - candles'[Len(candles)].low <= MaxRange
  /\ UNCHANGED <<pc, book, end, call, outcome>>

-----------------------------------------------------------------------------
(* agent/parser.py *)

Opening == [OPEN_LONG |-> "BUY", OPEN_SHORT |-> "SELL"]

\* Mutant: the distance is not halved.
EstimateLiquidationFull(side, entry) ==
  LET move == entry \div Policy.maxLeverage
  IN IF side = "BUY" THEN entry - move ELSE entry + move

\* estimate_liquidation: half of what the leverage allows.
EstimateLiquidation(side, entry) ==
  LET move == entry \div (2 * Policy.maxLeverage)
  IN IF side = "BUY" THEN entry - move ELSE entry + move

Expires(a) == IF a.expires = Absent THEN Now + Validity ELSE a.expires

\* The TradeIntent of an opening
Intent(a) ==
  LET side == Opening[a.action] IN
  [symbol |-> a.symbol, side |-> side, entry |-> a.price, stop |-> a.stop,
   invalidation |-> a.invalidation, liquidation |-> EstimateLiquidation(side, a.price),
   tps |-> a.tps, expires |-> Expires(a),
   orderType |-> IF a.type = "LIMIT" THEN "Limit" ELSE "Market",
   averagingDown |-> FALSE, widensStop |-> FALSE]

\* _dec: a decimal there is
Given(field) == field \notin {Absent, Garbled}

\* parse_decision does not raise: every field is there and the constructors of
\* the targets and of the intent accept them.  The reward/risk the model claims
\* is parsed too, and then not used.
Parsable(a) ==
  /\ Given(a.price) /\ Given(a.stop) /\ Given(a.invalidation)
  /\ Garbled \notin {a.expires, a.claimed}
  /\ \A j \in DOMAIN a.tps : Given(a.tps[j].price) /\ Given(a.tps[j].fraction)
  /\ Engine!IntentValid(Intent(a))

-----------------------------------------------------------------------------
(* agent/orchestrator.py *)

\* The flat account of shadow mode; the spread stands for the slippage.
Account(ob) ==
  [equity |-> Equity, dailyPnl |-> 0, weeklyPnl |-> 0, openPositions |-> 0,
   entriesToday |-> 0, consecutiveLosses |-> 0,
   dataAge |-> IF ob.age < 0 THEN 0 ELSE ob.age,
   spreadBps |-> SpreadBps(ob), slippageBps |-> SpreadBps(ob),
   conflictingPosition |-> FALSE, conflictingOrder |-> FALSE]

Depth(levels) == SumFunction([i \in DOMAIN levels |-> levels[i].size])

\* _estimate_liquidity: the asks, whatever the side.
Liquidity(ob) == Depth(ob.asks)

\* mid * spread_bps / 10000 is the spread.
Market(ob) == [slippage |-> Spread(ob), liquidity |-> Liquidity(ob), now |-> Now]

Ends(how) ==
  /\ end' = how
  /\ pc' = "done"
  /\ UNCHANGED <<call, outcome>>

\* The data arrived but the snapshot cannot be built.
CollectionUnreadable ==
  /\ pc = "idle"
  /\ candles \in Probes
  /\ book' \in {ob \in Books : Unreadable(ob)}
  /\ Ends("raised")
  /\ UNCHANGED candles

\* The data arrived: the cycle is skipped for want of budget or by the
\* prefilter, or the model is asked.
Collected ==
  /\ pc = "idle"
  /\ candles \in Probes
  /\ \E ob \in {b \in Books : ~Unreadable(b)}, allowed \in BOOLEAN, lively \in BOOLEAN :
       LET reason == IF allowed THEN Reason(candles, ob, lively) ELSE "budget" IN
       /\ lively => Len(candles) >= 2
       /\ book' = ob
       /\ IF reason \in WorthAnalysing
          THEN pc' = "analyze" /\ end' = reason /\ UNCHANGED <<call, outcome>>
          ELSE Ends(reason)
  /\ UNCHANGED candles

\* The model was not reached, or its answer is not a decision.
AnalysisRaises ==
  /\ pc = "analyze"
  /\ Ends("raised")
  /\ UNCHANGED <<candles, book>>

\* No position is to be opened: a refusal, too, arrives as HALT_TRADING.
NoIntent(a) == a.action \notin DOMAIN Opening /\ Ends(a.action)

ParseRaises(a) ==
  a.action \in DOMAIN Opening /\ ~Parsable(a) /\ Ends("raised")

\* The Risk Engine is called, unless AccountState.__post_init__ raises.
Called(a) ==
  /\ a.action \in DOMAIN Opening /\ Parsable(a)
  /\ IF Engine!AccountValid(Account(book))
     THEN /\ call' = [intent |-> Intent(a), account |-> Account(book),
                      market |-> Market(book)]
          /\ pc' = "judge"
          /\ UNCHANGED <<end, outcome>>
     ELSE Ends("refused")

Analysed ==
  /\ pc = "analyze"
  /\ \E a \in Answers : NoIntent(a) \/ ParseRaises(a) \/ Called(a)
  /\ UNCHANGED <<candles, book>>

\* evaluate returns or raises.
Judged ==
  /\ pc = "judge"
  /\ Engine!Next
  /\ end' = "judged"
  /\ pc' = "done"
  /\ UNCHANGED <<candles, book>>

\* The cycle was recorded and its result is dropped.
Finish ==
  /\ pc = "done"
  /\ pc' = "idle"
  /\ book' = NoBook
  /\ end' = "none"
  /\ call' = NoCall
  /\ outcome' = Engine!Pending
  /\ UNCHANGED candles

Next ==
  \/ Open \/ Trade
  \/ CollectionUnreadable \/ Collected \/ AnalysisRaises \/ Analysed \/ Judged
  \/ Finish

Spec == Init /\ [][Next]_vars

-----------------------------------------------------------------------------
(* Properties *)

TypeOK ==
  /\ pc \in {"idle", "analyze", "judge", "done"}
  /\ \A i \in DOMAIN candles :
       /\ {candles[i].high, candles[i].low, candles[i].close} \subseteq Prices
       /\ candles[i].close \in candles[i].low .. candles[i].high
  /\ Engine!TypeOK
  /\ pc = "idle" <=> end = "none"
  /\ pc \in {"analyze", "judge"} => end \in WorthAnalysing
  /\ call = NoCall <=> end \notin WorthAnalysing \cup {"judged"} \/ pc = "analyze"

\* The parser's estimate of the liquidation, the validators' order of stop and
\* liquidation and the sizing's caps on leverage and on risk come from one
\* policy: were the stop not to work and the market to go all the way to the
\* estimate, closing an approved trade there would cost, both fees and the
\* slippage paid, no more than half the equity, the risk of one trade and half
\* a fee on the equity (parser.py:56-65, "para o check stop-vs-liquidacao
\* errar do lado seguro").
LiquidationHarmless ==
  Engine!Approved =>
    LET t == call.intent IN
    -2 * Engine!CashBack(t, call.market, outcome.qty, t.liquidation)
      <= Equity * (Unit + 2 * Policy.maxRisk + FeeRate)

\* A cycle that reaches the Risk Engine gives it inputs it accepts: whatever
\* prices and times the exchange sends, what would make AccountState raise or
\* evaluate answer INVALID_INPUT was stopped by the validation of the data and
\* the prefilter, several calls earlier.  The sizes of the levels nobody looks
\* at (BooksAssumption).
AccountAccepted == end # "refused" /\ "INVALID_INPUT" \notin outcome.codes

\* Swings do not come and go behind the forming candle: a step of the market
\* changes only the verdict on the candle that has exactly the window to its
\* right ("Os ultimos `window` candles nunca sao swings", structure.py:48).
\* That one may be taken back, because the forming candle counts as its right
\* neighbour.  When the oldest candle leaves a full series, every swing keeps
\* its candle one place further left, but for a swing that loses its left
\* window: it is forgotten.
SwingsSettle ==
  [][LET slid == Len(candles) >= Limit /\ Open
         kept(S) == IF slid THEN {i - 1 : i \in S} ELSE S
         confirmed == {Len(candles') - Window}
         forgotten == IF slid THEN {Window} ELSE {}
         settles(S, T) == /\ T \subseteq kept(S) \cup confirmed
                          /\ kept(S) \subseteq T \cup confirmed \cup forgotten
     IN /\ settles(Highs(candles), Highs(candles'))
        /\ settles(Lows(candles), Lows(candles'))]_candles

\* The market turned upside down
Extremes == Max(Prices) + Min(Prices)
Flip(p) == Extremes - p
Flipped(cs) ==
  [i \in DOMAIN cs |->
    [high |-> Flip(cs[i].low), low |-> Flip(cs[i].high), close |-> Flip(cs[i].close)]]
Opposite(x) ==
  CASE x = "UP" -> "DOWN" [] x = "DOWN" -> "UP"
    [] x = "BULLISH" -> "BEARISH" [] x = "BEARISH" -> "BULLISH"
    [] x = "TRENDING_UP" -> "TRENDING_DOWN" [] x = "TRENDING_DOWN" -> "TRENDING_UP"
    [] OTHER -> x

\* The mirror image of a market is read as the mirror image of its reading:
\* none of the comparisons written twice, for highs and for lows, for rising
\* and for falling averages, is off by a sign or by an equality.  Left out are
\* a close beyond both swings at once, where the high is looked at first, and
\* an unmoved fast average, which counts as not rising; and a range is not told
\* from a transition, because how close two averages are is measured by their
\* own level (snapshot.py).
MirrorFair ==
  candles # <<>> =>
    LET mirror == Flipped(candles)
        seen == Structure(candles)
        flipped == Structure(mirror)
        regimes == <<Regime(candles), Regime(mirror)>>
        unmoved == /\ Len(candles) >= MinCandles
                   /\ ~Exceeds(FastNow(candles), FastBefore(candles))
                   /\ ~Exceeds(FastBefore(candles), FastNow(candles))
    IN /\ seen.trend = Opposite(flipped.trend)
       /\ \/ seen.bos = Opposite(flipped.bos) /\ seen.choch = flipped.choch
          \/ AboveLastHigh(candles) /\ BelowLastLow(candles)
       /\ \/ regimes[1] = Opposite(regimes[2])
          \/ {regimes[1], regimes[2]} \subseteq {"RANGE", "TRANSITION"}
          \/ unmoved

-----------------------------------------------------------------------------
(* What the documentation says and the code does not keep *)

\* "Liquidez disponivel ~ soma dos tamanhos do lado relevante do book"
\* (orchestrator.py:239): an approved trade fits in the side it would take.
FitsRelevantSide ==
  Engine!Approved =>
    outcome.qty <= Depth(IF call.intent.side = "BUY" THEN book.asks ELSE book.bids)
=============================================================================
