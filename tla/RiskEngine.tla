----------------------------- MODULE RiskEngine ------------------------------
(***************************************************************************)
(* The Risk Engine: evaluate (risk/engine.py), which computes the net      *)
(* reward/risk (risk/reward.py), runs the validators (risk/validators.py)  *)
(* and sizes the trade (risk/sizing.py).  It keeps no state: one behaviour *)
(* is one call, on any of Cases.                                           *)
(*                                                                         *)
(* Decimals become integers: a rate or a fraction is a number of Unit-ths, *)
(* money and prices are whole, a quantity is a whole number of grains.     *)
(* Quotients are never rounded: a comparison multiplies them out, and the  *)
(* one rounding of the code, to the step of the exchange, is kept.         *)
(***************************************************************************)
EXTENDS Integers, Sequences, Functions

CONSTANTS
  Unit,     \* the parts of one: 1 is Unit Unit-ths
  Policy,   \* RiskPolicy
  Instrument,    \* InstrumentSpec
  FeeRate,  \* taker_fee_rate, in Unit-ths
  Cases     \* the calls: [intent, account, market]

\* RiskPolicy._validate: a policy that confuses 0,25% with 25% is refused.
PolicyValid ==
  /\ Policy.maxRisk > 0 /\ 20 * Policy.maxRisk <= Unit
  /\ Policy.maxRisk <= Policy.maxTotalRisk /\ 10 * Policy.maxTotalRisk <= Unit
  /\ Policy.maxDailyLoss <= Policy.maxWeeklyLoss
  /\ 10 * Policy.maxDailyLoss <= Unit /\ 10 * Policy.maxWeeklyLoss <= 3 * Unit
  /\ Policy.maxLeverage \in 1 .. 20
  /\ {Policy.maxSpread, Policy.maxSlippage} \subseteq 0 .. 100
  /\ Policy.minRr >= Unit
  /\ Policy.maxPositions >= 1
  /\ Policy.symbols # {}

\* InstrumentSpec.__post_init__
InstrumentValid ==
  /\ {Instrument.qtyStep, Instrument.minQty, Instrument.maxQty, Instrument.maxMarketQty,
      Instrument.minNotional} \subseteq Nat \ {0}
  /\ {Instrument.maxQty, Instrument.maxMarketQty} \cap 0 .. Instrument.minQty - 1 = {}

\* TradeIntent.__post_init__ and, of every target, TakeProfitLevel's
IntentValid(t) ==
  /\ t.side \in {"BUY", "SELL"}
  /\ {t.entry, t.stop, t.invalidation, t.liquidation} \subseteq Nat \ {0}
  /\ t.expires \in Nat
  /\ t.tps \in Seq([price : Nat \ {0}, fraction : 1 .. Unit]) \ {<<>>}

\* AccountState.__post_init__
AccountValid(a) ==
  /\ a.equity \in Nat \ {0}
  /\ {a.dailyPnl, a.weeklyPnl} \subseteq Int
  /\ {a.spreadBps, a.slippageBps, a.openPositions, a.consecutiveLosses, a.entriesToday,
      a.dataAge} \subseteq Nat

ASSUME EngineAssumption ==
  /\ Unit \in Nat \ {0}
  /\ FeeRate \in Int
  /\ {Policy.maxRisk, Policy.maxTotalRisk, Policy.maxDailyLoss, Policy.maxWeeklyLoss,
      Policy.minRr, Policy.maxPositions} \subseteq Int
  /\ PolicyValid
  /\ InstrumentValid

\* The arguments went through their constructors.
ASSUME CasesAssumption ==
  \A c \in Cases :
    /\ IntentValid(c.intent)
    /\ AccountValid(c.account)
    /\ {c.market.slippage, c.market.liquidity, c.market.now} \subseteq Int

VARIABLES
  call,      \* the arguments of the call
  outcome    \* its RiskDecision, or Pending

vars == <<call, outcome>>

-----------------------------------------------------------------------------
(* risk/reward.py *)

Distance(t) == IF t.entry < t.stop THEN t.stop - t.entry ELSE t.entry - t.stop

\* A rebate neither lowers the risk nor raises the reward.
EffectiveFee == IF FeeRate < 0 THEN 0 ELSE FeeRate

\* Mutant: any price but the entry will do.
ProfitableEither(t, price) == price # t.entry

\* The target on the profitable side of the entry
Profitable(t, price) ==
  IF t.side = "BUY" THEN price > t.entry ELSE price < t.entry

Fractions(t) == SumFunction([j \in DOMAIN t.tps |-> t.tps[j].fraction])

\* Mutant: the risk without its costs.
RrRiskGross(t, m) == Distance(t) * Unit

\* risk_per_unit of the reward/risk quotient, in Unit-ths
RrRisk(t, m) ==
  Distance(t) * Unit + (t.entry + t.stop) * EffectiveFee + m.slippage * Unit

\* compute_rr_net raises: the fractions leave a part of the position without
\* a target, nothing is at risk, or a target is on the losing side.
Incoherent(t, m) ==
  \/ Fractions(t) # Unit
  \/ RrRisk(t, m) <= 0
  \/ \E j \in DOMAIN t.tps : ~Profitable(t, t.tps[j].price)

\* What one unit closed at a target earns, costs paid, in Unit-ths
NetGain(t, m, price) ==
  (IF price < t.entry THEN t.entry - price ELSE price - t.entry) * Unit
    - (price * EffectiveFee + m.slippage * Unit)

\* reward_per_unit, in Unit-ths of Unit-ths
Reward(t, m) ==
  SumFunction([j \in DOMAIN t.tps |->
    t.tps[j].fraction * NetGain(t, m, t.tps[j].price)])

-----------------------------------------------------------------------------
(* risk/validators.py *)

\* The levels of a long in ascending order, of a short in descending order
Ordered(side, x, y) == IF side = "BUY" THEN x < y ELSE x > y

\* Mutant: the budget of the trade is given, not taken.
ProjectedDailyBreachGain(a) ==
  a.dailyPnl * Unit + a.equity * Policy.maxRisk < -(a.equity * Policy.maxDailyLoss)

\* _projected_daily: one full risk budget more would break the day's limit.
ProjectedDailyBreach(a) ==
  a.dailyPnl * Unit - a.equity * Policy.maxRisk < -(a.equity * Policy.maxDailyLoss)

\* The validators, by the code each rejects with.  A loss limit or a risk is
\* a fraction of the equity.
Breaches(t, a, m) ==
  [DAILY_LOSS_LIMIT |-> a.dailyPnl * Unit <= -(a.equity * Policy.maxDailyLoss),
   WEEKLY_LOSS_LIMIT |-> a.weeklyPnl * Unit <= -(a.equity * Policy.maxWeeklyLoss),
   PROJECTED_DAILY_BREACH |-> ProjectedDailyBreach(a),
   MAX_POSITIONS |-> a.openPositions >= Policy.maxPositions,
   MAX_DAILY_ENTRIES |-> a.entriesToday >= Policy.maxDailyEntries,
   COOLDOWN |-> a.consecutiveLosses >= Policy.maxLosses,
   SYMBOL_NOT_ALLOWED |-> t.symbol \notin Policy.symbols,
   DATA_STALE |-> a.dataAge > Policy.maxDataAge,
   SPREAD_TOO_WIDE |-> a.spreadBps > Policy.maxSpread,
   SLIPPAGE_TOO_HIGH |-> a.slippageBps > Policy.maxSlippage,
   RR_TOO_LOW |-> Reward(t, m) < Policy.minRr * RrRisk(t, m),
   STOP_WRONG_SIDE |-> ~Ordered(t.side, t.stop, t.entry),
   INVALIDATION_INCOHERENT |->
     Ordered(t.side, t.invalidation, t.stop) \/ ~Ordered(t.side, t.invalidation, t.entry),
   STOP_BEYOND_LIQUIDATION |-> ~Ordered(t.side, t.liquidation, t.stop),
   TP_FRACTIONS_EXCEED_ONE |-> Fractions(t) > Unit,
   AVERAGING_DOWN |-> t.averagingDown,
   STOP_WIDENING |-> t.widensStop,
   CONFLICTING_POSITION |-> a.conflictingPosition,
   CONFLICTING_ORDER |-> a.conflictingOrder,
   INTENT_EXPIRED |-> t.expires <= m.now]

\* validate: the complete list of rejections
Rejections(t, a, m) ==
  LET breaches == Breaches(t, a, m) IN {code \in DOMAIN breaches : breaches[code]}

-----------------------------------------------------------------------------
(* risk/sizing.py *)

\* risk_budget, in Unit-ths
Budget(a) == a.equity * Policy.maxRisk

\* Mutant: the fees are forgotten.
RiskPerUnitFree(t, m) == Distance(t) * Unit + m.slippage * Unit

\* risk_per_unit of the sizing, in Unit-ths
RiskPerUnit(t, m) ==
  Distance(t) * Unit + (t.entry + t.stop) * EffectiveFee + m.slippage * Unit

MaxQtyFor(t) == IF t.orderType = "Market" THEN Instrument.maxMarketQty ELSE Instrument.maxQty

\* The caps of the quantity in the code's order, as quotients
Caps(t, a, m) ==
  <<[name |-> "risk_budget", num |-> Budget(a), den |-> RiskPerUnit(t, m)],
    [name |-> "leverage", num |-> a.equity * Policy.maxLeverage, den |-> t.entry],
    [name |-> "liquidity", num |-> m.liquidity, den |-> 1],
    [name |-> "symbol_max", num |-> MaxQtyFor(t), den |-> 1]>>

AtMost(x, y) == x.num * y.den <= y.num * x.den
Below(x, y) == x.num * y.den < y.num * x.den

\* min(caps): the first of the smallest
IsBinding(caps, k) ==
  /\ \A j \in DOMAIN caps : AtMost(caps[k], caps[j])
  /\ \A j \in DOMAIN caps : j < k => Below(caps[k], caps[j])
Binding(t, a, m) ==
  LET caps == Caps(t, a, m) IN caps[CHOOSE k \in DOMAIN caps : IsBinding(caps, k)]

\* Mutants: rounded up; counted in steps instead of units.
FlooredUp(cap) == (cap.num \div (cap.den * Instrument.qtyStep) + 1) * Instrument.qtyStep
FlooredSteps(cap) == cap.num \div (cap.den * Instrument.qtyStep)

\* round_down_to_step
Floored(cap) == (cap.num \div (cap.den * Instrument.qtyStep)) * Instrument.qtyStep

\* _compute_size rejects: nothing to divide, or less than the exchange takes
Unsizable(t, a, m) ==
  \/ Budget(a) <= 0
  \/ Distance(t) <= 0
  \/ LET qty == Floored(Binding(t, a, m)) IN
       qty < Instrument.minQty \/ qty * t.entry < Instrument.minNotional

-----------------------------------------------------------------------------
(* risk/engine.py *)

Pending == [verdict |-> "pending", codes |-> {}, qty |-> 0, binding |-> "none"]

\* Mutant: the codes are lost.
RejectedBare(codes) == [Pending EXCEPT !.verdict = "rejected"]

Rejected(codes) == [Pending EXCEPT !.verdict = "rejected", !.codes = codes]

Init ==
  /\ call \in Cases
  /\ outcome = Pending

Evaluating == outcome = Pending /\ UNCHANGED call

\* A parameter from outside is negative.
InvalidInput(m) == FeeRate < 0 \/ m.slippage < 0 \/ m.liquidity < 0 \/ m.now < 0

RejectInput ==
  /\ Evaluating
  /\ InvalidInput(call.market)
  /\ outcome' = Rejected({"INVALID_INPUT"})

RejectPlan ==
  /\ Evaluating
  /\ ~InvalidInput(call.market)
  /\ Incoherent(call.intent, call.market)
  /\ outcome' = Rejected({"INCOHERENT_PLAN"})

\* The call got past the two sanity checks of its parameters.
Sound(c) == ~InvalidInput(c.market) /\ ~Incoherent(c.intent, c.market)

\* TradeContext takes no negative rr_net and raises; nothing catches it.
ContextRaises ==
  /\ Evaluating
  /\ Sound(call)
  /\ Reward(call.intent, call.market) < 0
  /\ outcome' = [Pending EXCEPT !.verdict = "raised"]

Validated(c) == Sound(c) /\ Reward(c.intent, c.market) >= 0

RejectTrade ==
  /\ Evaluating
  /\ Validated(call)
  /\ Rejections(call.intent, call.account, call.market) # {}
  /\ outcome' = Rejected(Rejections(call.intent, call.account, call.market))

Acceptable(c) ==
  Validated(c) /\ Rejections(c.intent, c.account, c.market) = {}

RejectSize ==
  /\ Evaluating
  /\ Acceptable(call)
  /\ Unsizable(call.intent, call.account, call.market)
  /\ outcome' = Rejected({"UNSIZABLE"})

Approve ==
  /\ Evaluating
  /\ Acceptable(call)
  /\ ~Unsizable(call.intent, call.account, call.market)
  /\ LET cap == Binding(call.intent, call.account, call.market) IN
       outcome' = [Pending EXCEPT !.verdict = "approved",
                     !.qty = Floored(cap), !.binding = cap.name]

\* The call returned (or raised).
Returned == outcome # Pending /\ UNCHANGED vars

Next ==
  \/ RejectInput \/ RejectPlan \/ ContextRaises
  \/ RejectTrade \/ RejectSize \/ Approve \/ Returned

Spec == Init /\ [][Next]_vars

-----------------------------------------------------------------------------
(* Properties *)

TypeOK ==
  /\ outcome.verdict \in {"pending", "approved", "rejected", "raised"}
  /\ outcome.codes # {} <=> outcome.verdict = "rejected"
  /\ outcome.qty \in Nat
  /\ outcome.binding \in {"none", "risk_budget", "leverage", "liquidity", "symbol_max"}

Approved == outcome.verdict = "approved"

\* What qty units bought (or sold) at one price and closed at another bring
\* in, fees of both sides paid and the entry's slippage lost, in Unit-ths:
\* counted from the cash that changes hands, not from the engine's formula.
CashBack(t, m, qty, exit) ==
  LET in == qty * t.entry
      out == qty * exit
      fees == (in + out) * FeeRate
      moved == IF t.side = "BUY" THEN out - in ELSE in - out
  IN moved * Unit - fees - qty * m.slippage * Unit

\* Stopped out, an approved trade loses no more than the fraction of the
\* equity the policy risks on one trade, costs included.
LossWithinBudget ==
  Approved =>
    -CashBack(call.intent, call.market, outcome.qty, call.intent.stop)
      <= call.account.equity * Policy.maxRisk

\* Stopped out, an approved trade does not carry the day's loss beyond the
\* daily limit (_projected_daily looks at the budget, not at the quantity).
DailyLimitKept ==
  Approved =>
    call.account.dailyPnl * Unit
      + CashBack(call.intent, call.market, outcome.qty, call.intent.stop)
      >= -(call.account.equity * Policy.maxDailyLoss)

\* In an approved trade liquidation, stop, invalidation, entry and every target
\* lie in this order, upwards for a long and downwards for a short: whatever
\* way the market goes, the stop is met before the liquidation.
LevelsInOrder ==
  Approved =>
    LET t == call.intent IN
    /\ Ordered(t.side, t.liquidation, t.stop)
    /\ ~Ordered(t.side, t.invalidation, t.stop)
    /\ Ordered(t.side, t.invalidation, t.entry)
    /\ \A j \in DOMAIN t.tps : Ordered(t.side, t.entry, t.tps[j].price)

\* The quantities that respect every cap and limit
Tradable(c, qty) ==
  /\ qty % Instrument.qtyStep = 0
  /\ qty >= Instrument.minQty
  /\ qty <= MaxQtyFor(c.intent)
  /\ qty <= c.market.liquidity
  /\ qty * c.intent.entry <= c.account.equity * Policy.maxLeverage
  /\ qty * c.intent.entry >= Instrument.minNotional
  /\ qty * RiskPerUnit(c.intent, c.market) <= Budget(c.account)

\* An approved quantity respects all caps at once although the code rounds
\* only the smallest one, and it is the largest that does: one step more
\* breaks a cap.
QtyIsLargest ==
  Approved =>
    /\ Tradable(call, outcome.qty)
    /\ ~Tradable(call, outcome.qty + Instrument.qtyStep)

\* The constraint reported as binding is the one that one step more breaks.
BindingIsTrue ==
  Approved =>
    LET t == call.intent
        more == outcome.qty + Instrument.qtyStep
    IN CASE outcome.binding = "risk_budget" ->
              more * RiskPerUnit(t, call.market) > Budget(call.account)
         [] outcome.binding = "leverage" ->
              more * t.entry > call.account.equity * Policy.maxLeverage
         [] outcome.binding = "liquidity" -> more > call.market.liquidity
         [] outcome.binding = "symbol_max" -> more > MaxQtyFor(t)
         [] OTHER -> FALSE

\* Closed at its targets, an approved trade brings in at least minRr times what
\* it loses at its stop, both counted from the cash of the quantity that was
\* sized: the reward/risk that was approved is that of the trade ("as duas
\* definicoes nao podem divergir", reward.py:54-56).  As documented there, the
\* entry's own fee counts as risk and not against the reward.
RewardPaysRisk ==
  Approved =>
    LET t == call.intent
        entryFee == outcome.qty * t.entry * FeeRate
        profit == SumFunction([j \in DOMAIN t.tps |->
          t.tps[j].fraction
            * (CashBack(t, call.market, outcome.qty, t.tps[j].price) + entryFee)])
    IN profit >= Policy.minRr
         * (-CashBack(t, call.market, outcome.qty, t.stop))

\* "Retorna sempre uma RiskDecision - nunca levanta" (engine.py:113-114).
NeverRaises == outcome.verdict # "raised"
=============================================================================
