--------------------------- MODULE MarketReading ----------------------------
(***************************************************************************)
(* What the analyst reads in candles and book before it asks the model:    *)
(* swings, trend and breaks (features/structure.py), the regime            *)
(* (features/snapshot.py, ema of features/indicators.py), the quality of   *)
(* the data (marketdata/coherent.py, agent/orchestrator.py) and the gate   *)
(* of the prefilter (agent/prefilter.py).  Pure operators.                 *)
(*                                                                         *)
(* A candle is [high, low, close]; series are chronological and their last *)
(* candle is still forming.  A book is [bids, asks, last, age, healthy]    *)
(* with its levels best first, the last price of the ticker, the age of    *)
(* the book and the health of the clock that measured it.                  *)
(***************************************************************************)
EXTENDS Integers, Sequences, FiniteSets, FiniteSetsExt

CONSTANTS
  Window,       \* window of find_swings
  Fast, Slow,   \* _EMA_FAST, _EMA_SLOW
  MinCandles,   \* _MIN_CANDLES_FOR_REGIME
  Lookback,     \* the 5 of closes[:-5]
  Flat,         \* averages closer than one Flat-th (0.001) are a range
  MaxAge,       \* _MAX_DATA_AGE_MS
  MaxSpread     \* PrefilterConfig.max_spread_bps

\* With these the averages of _classify_regime are never None.
ASSUME ReadingAssumption ==
  /\ {Window, Fast, Slow, MinCandles, Lookback, Flat} \subseteq Nat \ {0}
  /\ Slow <= MinCandles /\ Fast <= MinCandles - Lookback
  /\ {MaxAge, MaxSpread} \subseteq Nat

-----------------------------------------------------------------------------
(* features/structure.py *)

\* The candles with a window on both sides
Confirmed(cs) == Window + 1 .. Len(cs) - Window

Neighbours(i) == (i - Window .. i + Window) \ {i}

\* Mutant: a swing is confirmed one candle early.
HighsEarly(cs) ==
  {i \in Window + 1 .. Len(cs) - Window + 1 :
     \A j \in Neighbours(i) \cap DOMAIN cs : cs[i].high > cs[j].high}

Highs(cs) == {i \in Confirmed(cs) : \A j \in Neighbours(i) : cs[i].high > cs[j].high}

\* Mutant: equal lows make a swing too.
LowsLoose(cs) == {i \in Confirmed(cs) : \A j \in Neighbours(i) : cs[i].low <= cs[j].low}

Lows(cs) == {i \in Confirmed(cs) : \A j \in Neighbours(i) : cs[i].low < cs[j].low}

LastOf(swings) == Max(swings)
LastButOne(swings) == Max(swings \ {Max(swings)})

Trend(cs) ==
  LET highs == Highs(cs)
      lows == Lows(cs)
      highsMove == cs[LastOf(highs)].high - cs[LastButOne(highs)].high
      lowsMove == cs[LastOf(lows)].low - cs[LastButOne(lows)].low
  IN IF Cardinality(highs) < 2 \/ Cardinality(lows) < 2 THEN "RANGE"
     ELSE CASE highsMove > 0 /\ lowsMove > 0 -> "UP"
            [] highsMove < 0 /\ lowsMove < 0 -> "DOWN"
            [] OTHER -> "RANGE"

LastClose(cs) == cs[Len(cs)].close
AboveLastHigh(cs) ==
  Highs(cs) # {} /\ LastClose(cs) > cs[LastOf(Highs(cs))].high
BelowLastLow(cs) ==
  Lows(cs) # {} /\ LastClose(cs) < cs[LastOf(Lows(cs))].low

Unknown == [trend |-> "UNKNOWN", bos |-> "none", choch |-> FALSE]

\* analyze_structure: a series with gaps may break both swings at once, and
\* the high is looked at first.
Structure(cs) ==
  LET trend == Trend(cs)
      bos == IF AboveLastHigh(cs) THEN "BULLISH"
             ELSE IF BelowLastLow(cs) THEN "BEARISH" ELSE "none"
  IN IF Len(cs) < 2 * Window + 1 THEN Unknown
     ELSE [trend |-> trend, bos |-> bos,
           choch |-> <<trend, bos>> \in {<<"UP", "BEARISH">>, <<"DOWN", "BULLISH">>}]

-----------------------------------------------------------------------------
(* features/snapshot.py *)

\* ema: seeded with the first value, an exact quotient.
Ema(closes, period) ==
  LET ema[i \in 1 .. Len(closes)] ==
        IF i = 1 THEN [num |-> closes[1], den |-> 1]
        ELSE LET before == ema[i - 1] IN
             [num |-> 2 * closes[i] * before.den + (period - 1) * before.num,
              den |-> (period + 1) * before.den]
  IN ema[Len(closes)]

Exceeds(x, y) == x.num * y.den > y.num * x.den
Close(x, y) ==
  LET diff == x.num * y.den - y.num * x.den
  IN Flat * (IF diff < 0 THEN -diff ELSE diff) < y.num * x.den

Closes(cs) == [i \in DOMAIN cs |-> cs[i].close]
FastNow(cs) == Ema(Closes(cs), Fast)
FastBefore(cs) == Ema(SubSeq(Closes(cs), 1, Len(cs) - Lookback), Fast)

\* _classify_regime: the crossing of the averages and the slope of the fast one
Regime(cs) ==
  LET slow == Ema(Closes(cs), Slow)
      rising == Exceeds(FastNow(cs), FastBefore(cs))
  IN IF Len(cs) < MinCandles THEN "UNKNOWN"
     ELSE IF Exceeds(FastNow(cs), slow) /\ rising THEN "TRENDING_UP"
     ELSE IF Exceeds(slow, FastNow(cs)) /\ ~rising THEN "TRENDING_DOWN"
     ELSE IF Close(FastNow(cs), slow) THEN "RANGE" ELSE "TRANSITION"

-----------------------------------------------------------------------------
(* marketdata/rest.py, marketdata/coherent.py, agent/orchestrator.py *)

BestBid(ob) == ob.bids[1].price
BestAsk(ob) == ob.asks[1].price

\* best_bid, best_ask and spread_bps raise: a side is empty, or the mid is zero.
Unreadable(ob) ==
  ob.bids = <<>> \/ ob.asks = <<>> \/ BestBid(ob) + BestAsk(ob) = 0

Spread(ob) == BestAsk(ob) - BestBid(ob)
SpreadBps(ob) == (20000 * Spread(ob)) \div (BestBid(ob) + BestAsk(ob))

\* validate_market_data
Issues(ob) ==
  LET found ==
        [BOOK_CROSSED |-> BestBid(ob) >= BestAsk(ob),
         LAST_OUTSIDE_BOOK |-> ob.last < BestBid(ob) \/ ob.last > BestAsk(ob),
         NEGATIVE_DATA_AGE |-> ob.age < 0,
         DATA_STALE |-> ob.age > MaxAge,
         CLOCK_SKEW |-> ~ob.healthy,
         NON_POSITIVE_PRICE |-> BestBid(ob) <= 0 \/ BestAsk(ob) <= 0 \/ ob.last <= 0]
  IN {code \in DOMAIN found : found[code]}

\* _data_quality: whatever is not mere staleness breaks the integrity.
Quality(ob) ==
  IF Issues(ob) \ {"DATA_STALE"} # {} THEN "CONFLICTING"
  ELSE IF "DATA_STALE" \in Issues(ob) THEN "STALE" ELSE "VALID"

-----------------------------------------------------------------------------
(* agent/prefilter.py *)

\* Mutant: the quality of the data is not looked at.
ReasonBlind(cs, ob, lively) ==
  IF SpreadBps(ob) > MaxSpread THEN "spread"
  ELSE IF Structure(cs).bos # "none" THEN "break"
  ELSE IF Regime(cs) \in {"TRENDING_UP", "TRENDING_DOWN"} THEN "trend"
  ELSE IF lively THEN "volatility" ELSE "idle"

\* The reason prefilter gives; lively says that the realized volatility is
\* known and reaches min_realized_vol.
Reason(cs, ob, lively) ==
  IF Quality(ob) = "CONFLICTING" THEN "conflicting"
  ELSE IF SpreadBps(ob) > MaxSpread THEN "spread"
  ELSE IF Structure(cs).bos # "none" THEN "break"
  ELSE IF Regime(cs) \in {"TRENDING_UP", "TRENDING_DOWN"} THEN "trend"
  ELSE IF lively THEN "volatility" ELSE "idle"

WorthAnalysing == {"break", "trend", "volatility"}
=============================================================================
