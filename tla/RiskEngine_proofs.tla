-------------------------- MODULE RiskEngine_proofs ---------------------------
(***************************************************************************)
(* Proofs about RiskEngine, for every policy, instrument, fee and call the *)
(* constructors let through: what an approved trade can lose and earns,    *)
(* and that its quantity is the largest the caps allow.                    *)
(***************************************************************************)
EXTENDS RiskEngine, Sums, TLAPS

-----------------------------------------------------------------------------
(* Arithmetic *)

LEMMA TimesKeeps ==
  ASSUME NEW a \in Int, NEW b \in Int, NEW c \in Nat, a <= b
  PROVE  a * c <= b * c
BY Z3

LEMMA TimesKeepsStrictly ==
  ASSUME NEW a \in Int, NEW b \in Int, NEW c \in Nat \ {0}, a < b
  PROVE  a * c < b * c
BY Z3

LEMMA TimesCancels ==
  ASSUME NEW a \in Int, NEW b \in Int, NEW c \in Nat \ {0}, a * c <= b * c
  PROVE  a <= b
BY TimesKeepsStrictly, Z3

LEMMA TimesCancelsStrictly ==
  ASSUME NEW a \in Int, NEW b \in Int, NEW c \in Nat \ {0}, a * c < b * c
  PROVE  a < b
BY TimesKeeps, Z3

LEMMA TimesType ==
  ASSUME NEW a \in Nat, NEW b \in Nat
  PROVE  a * b \in Nat /\ (a # 0 /\ b # 0 => a * b # 0)
BY Z3

LEMMA DivBounds ==
  ASSUME NEW n \in Nat, NEW d \in Nat \ {0}
  PROVE  /\ n \div d \in Nat
         /\ (n \div d) * d <= n
         /\ n < (n \div d) * d + d
BY Z3

\* A multiple of s leaves nothing when divided by s.
LEMMA MultipleLeavesNothing ==
  ASSUME NEW k \in Nat, NEW s \in Nat \ {0}
  PROVE  (k * s) % s = 0
BY Z3

\* round_down_to_step: the multiple of the step that fits the quotient n / d,
\* and no further one does.
LEMMA StepBounds ==
  ASSUME NEW n \in Nat, NEW d \in Nat \ {0}, NEW s \in Nat \ {0}
  PROVE  /\ (n \div (d * s)) * s \in Nat
         /\ ((n \div (d * s)) * s) % s = 0
         /\ ((n \div (d * s)) * s) * d <= n
         /\ n < ((n \div (d * s)) * s + s) * d
<1> DEFINE e == d * s
           k == n \div e
<1>1. e \in Nat \ {0}
  BY TimesType
<1> HIDE DEF e
<1>2. k \in Nat /\ k * e <= n /\ n < k * e + e
  BY <1>1, DivBounds
<1> HIDE DEF k
<1>3. k * s \in Nat /\ (k * s) % s = 0
  BY <1>2, TimesType, MultipleLeavesNothing
<1>4. (k * s) * d = k * e /\ (k * s + s) * d = k * e + e
  BY <1>2, Z3 DEF e
<1>5. (k * s) * d <= n /\ n < (k * s + s) * d
  BY <1>2, <1>4
<1> QED
  BY <1>3, <1>5 DEF k, e

-----------------------------------------------------------------------------
(* The order of the caps *)

\* A quotient: what every cap is.
Quotient(x) == x.num \in Nat /\ x.den \in Nat \ {0}

LEMMA AtMostOrBelow ==
  ASSUME NEW x, NEW y, Quotient(x), Quotient(y)
  PROVE  /\ AtMost(x, x)
         /\ ~Below(x, y) => AtMost(y, x)
         /\ Below(x, y) => AtMost(x, y)
<1>1. x.num * y.den \in Int /\ y.num * x.den \in Int /\ x.num * x.den \in Int
  BY DEF Quotient
<1> QED
  BY <1>1 DEF AtMost, Below

LEMMA BelowAtMost ==
  ASSUME NEW x, NEW y, NEW z, Quotient(x), Quotient(y), Quotient(z),
         Below(x, y), AtMost(y, z)
  PROVE  Below(x, z)
<1> DEFINE xn == x.num  xd == x.den  yn == y.num  yd == y.den
           zn == z.num  zd == z.den
<1>1. {xn, yn, zn} \subseteq Nat /\ {xd, yd, zd} \subseteq Nat \ {0}
  BY DEF Quotient
<1>2. xn * yd < yn * xd /\ yn * zd <= zn * yd
  BY DEF Below, AtMost
<1> HIDE DEF xn, xd, yn, yd, zn, zd
<1>3. (xn * yd) * zd < (yn * xd) * zd
  BY <1>1, <1>2, TimesKeepsStrictly
<1>4. (yn * zd) * xd <= (zn * yd) * xd
  BY <1>1, <1>2, TimesKeeps
<1>5. /\ (xn * yd) * zd = (xn * zd) * yd
      /\ (yn * xd) * zd = (yn * zd) * xd
      /\ (zn * yd) * xd = (zn * xd) * yd
  BY <1>1, Z3
<1>6. (xn * zd) * yd < (zn * xd) * yd
  <2>1. {(xn * zd) * yd, (yn * zd) * xd, (zn * xd) * yd} \subseteq Int
    BY <1>1
  <2> QED
    BY <1>3, <1>4, <1>5, <2>1
<1>7. xn * zd < zn * xd
  BY <1>1, <1>6, TimesCancelsStrictly
<1> QED
  BY <1>7 DEF Below, xn, xd, zn, zd

\* caps[k] is what min returns of the first n caps.
FirstOf(caps, n, k) ==
  \A j \in 1 .. n : AtMost(caps[k], caps[j]) /\ (j < k => Below(caps[k], caps[j]))

\* A further cap replaces the smallest one or does not.
LEMMA OneMore ==
  ASSUME NEW caps, NEW n \in Nat, NEW k \in 1 .. n, FirstOf(caps, n, k),
         \A j \in 1 .. (n + 1) : Quotient(caps[j])
  PROVE  \E i \in 1 .. (n + 1) : FirstOf(caps, n + 1, i)
<1>1. CASE Below(caps[n + 1], caps[k])
  <2>1. \A j \in 1 .. n : Below(caps[n + 1], caps[j])
    BY <1>1, BelowAtMost DEF FirstOf
  <2>2. \A j \in 1 .. n : AtMost(caps[n + 1], caps[j])
    BY <2>1, AtMostOrBelow
  <2>3. AtMost(caps[n + 1], caps[n + 1])
    BY AtMostOrBelow
  <2>4. FirstOf(caps, n + 1, n + 1)
    BY <2>1, <2>2, <2>3 DEF FirstOf
  <2> QED
    BY <2>4
<1>2. CASE ~Below(caps[n + 1], caps[k])
  <2>1. AtMost(caps[k], caps[n + 1])
    BY <1>2, AtMostOrBelow
  <2>2. FirstOf(caps, n + 1, k)
    BY <2>1 DEF FirstOf
  <2> QED
    BY <2>2
<1> QED
  BY <1>1, <1>2

-----------------------------------------------------------------------------
(* The sizing of an acceptable call *)

\* A case that got as far as the sizing's divisions.
Sizable(c) == c \in Cases /\ Sound(c) /\ Distance(c.intent) > 0

LEMMA ArgumentTypes ==
  ASSUME NEW c \in Cases, Sound(c)
  PROVE  /\ c.intent.side \in {"BUY", "SELL"}
         /\ c.intent.entry \in Nat \ {0} /\ c.intent.stop \in Nat \ {0}
         /\ c.account.equity \in Nat \ {0} /\ c.account.dailyPnl \in Int
         /\ c.market.slippage \in Nat /\ c.market.liquidity \in Nat
         /\ FeeRate \in Nat /\ EffectiveFee = FeeRate
         /\ Distance(c.intent) \in Nat
<1> DEFINE t == c.intent
           a == c.account
           m == c.market
<1>1. IntentValid(t) /\ AccountValid(a)
        /\ m.slippage \in Int /\ m.liquidity \in Int /\ FeeRate \in Int
  BY EngineAssumption, CasesAssumption
<1>2. FeeRate \in Nat /\ m.slippage \in Nat /\ m.liquidity \in Nat
  <2>1. ~(FeeRate < 0) /\ ~(m.slippage < 0) /\ ~(m.liquidity < 0)
    BY DEF Sound, InvalidInput
  <2> HIDE DEF t, a, m
  <2> QED
    BY <1>1, <2>1
<1>3. EffectiveFee = FeeRate
  BY <1>2 DEF EffectiveFee
<1> HIDE DEF t, a, m
<1>4. t.side \in {"BUY", "SELL"} /\ t.entry \in Nat \ {0} /\ t.stop \in Nat \ {0}
  BY <1>1 DEF IntentValid
<1>5. a.equity \in Nat \ {0} /\ a.dailyPnl \in Int
  BY <1>1 DEF AccountValid
<1>6. Distance(t) \in Nat
  BY <1>4 DEF Distance
<1> QED
  BY <1>2, <1>3, <1>4, <1>5, <1>6 DEF t, a, m

\* Prices and fractions of the targets
LEMMA TargetTypes ==
  ASSUME NEW c \in Cases
  PROVE  /\ IsFiniteSet(DOMAIN c.intent.tps)
         /\ \A j \in DOMAIN c.intent.tps :
              c.intent.tps[j].price \in Nat /\ c.intent.tps[j].fraction \in Int
<1> DEFINE Target == [price : Nat \ {0}, fraction : 1 .. Unit]
           s == c.intent.tps
<1>1. s \in Seq(Target)
  BY CasesAssumption DEF IntentValid
<1>2. \A x \in Target : x.price \in Nat /\ x.fraction \in Int
  BY EngineAssumption
<1> HIDE DEF Target, s
<1>3. /\ DOMAIN s = 1 .. Len(s) /\ Len(s) \in Int
      /\ \A j \in DOMAIN s : s[j] \in Target
  BY <1>1
<1>4. IsFiniteSet(DOMAIN s)
  BY <1>3, FS_Interval
<1> QED
  BY <1>2, <1>3, <1>4 DEF s

LEMMA PolicyTypes ==
  /\ Unit \in Nat \ {0}
  /\ Policy.maxRisk \in Nat \ {0}
  /\ Policy.maxDailyLoss \in Int
  /\ Policy.maxLeverage \in Nat \ {0}
  /\ Instrument.qtyStep \in Nat \ {0} /\ Instrument.minQty \in Nat \ {0}
  /\ Instrument.minNotional \in Nat \ {0}
  /\ \A t : MaxQtyFor(t) \in Nat
BY EngineAssumption DEF PolicyValid, InstrumentValid, MaxQtyFor

LEMMA RiskPerUnitType ==
  ASSUME NEW c, Sizable(c)
  PROVE  RiskPerUnit(c.intent, c.market) \in Nat \ {0}
<1> DEFINE x == Distance(c.intent) * Unit
           y == (c.intent.entry + c.intent.stop) * EffectiveFee
           z == c.market.slippage * Unit
<1>1. x \in Nat \ {0}
  <2>1. Distance(c.intent) \in Nat \ {0} /\ Unit \in Nat \ {0}
    BY ArgumentTypes, PolicyTypes DEF Sizable
  <2> QED
    BY <2>1, TimesType
<1>2. y \in Nat
  BY ArgumentTypes, TimesType DEF Sizable
<1>3. z \in Nat
  BY ArgumentTypes, PolicyTypes, TimesType DEF Sizable
<1>4. RiskPerUnit(c.intent, c.market) = x + y + z
  BY DEF RiskPerUnit
<1> HIDE DEF x, y, z
<1> QED
  BY <1>1, <1>2, <1>3, <1>4

LEMMA CapsAreQuotients ==
  ASSUME NEW c, Sizable(c)
  PROVE  /\ DOMAIN Caps(c.intent, c.account, c.market) = 1 .. 4
         /\ \A j \in 1 .. 4 : Quotient(Caps(c.intent, c.account, c.market)[j])
<1> DEFINE caps == Caps(c.intent, c.account, c.market)
<1>1. Budget(c.account) \in Nat /\ c.account.equity * Policy.maxLeverage \in Nat
  BY ArgumentTypes, PolicyTypes, TimesType DEF Sizable, Budget
<1>2. Quotient(caps[1])
  BY <1>1, RiskPerUnitType DEF Caps, Quotient
<1>3. Quotient(caps[2])
  BY <1>1, ArgumentTypes DEF Caps, Quotient, Sizable
<1>4. Quotient(caps[3])
  BY ArgumentTypes DEF Caps, Quotient, Sizable
<1>5. Quotient(caps[4])
  BY PolicyTypes DEF Caps, Quotient
<1>6. DOMAIN caps = 1 .. 4
  BY DEF Caps
<1> QED
  BY <1>2, <1>3, <1>4, <1>5, <1>6

\* min(caps) is one of the caps, and the first of the smallest.
LEMMA BindingIsFirst ==
  ASSUME NEW c, Sizable(c)
  PROVE  \E k \in 1 .. 4 :
           /\ Binding(c.intent, c.account, c.market)
                = Caps(c.intent, c.account, c.market)[k]
           /\ FirstOf(Caps(c.intent, c.account, c.market), 4, k)
<1> DEFINE caps == Caps(c.intent, c.account, c.market)
<1>1. DOMAIN caps = 1 .. 4 /\ \A j \in 1 .. 4 : Quotient(caps[j])
  BY CapsAreQuotients
<1>2. FirstOf(caps, 1, 1)
  BY <1>1, AtMostOrBelow DEF FirstOf
<1> HIDE DEF caps
<1>3. \E k \in 1 .. 2 : FirstOf(caps, 2, k)
  <2>1. \E i \in 1 .. (1 + 1) : FirstOf(caps, 1 + 1, i)
    BY <1>1, <1>2, OneMore
  <2> QED
    BY <2>1
<1>4. \E k \in 1 .. 3 : FirstOf(caps, 3, k)
  <2>1. \E i \in 1 .. (2 + 1) : FirstOf(caps, 2 + 1, i)
    BY <1>1, <1>3, OneMore
  <2> QED
    BY <2>1
<1>5. \E k \in 1 .. 4 : FirstOf(caps, 4, k)
  <2>1. \E i \in 1 .. (3 + 1) : FirstOf(caps, 3 + 1, i)
    BY <1>1, <1>4, OneMore
  <2> QED
    BY <2>1
<1>6. \A k \in 1 .. 4 : FirstOf(caps, 4, k) <=> IsBinding(caps, k)
  BY <1>1 DEF FirstOf, IsBinding
<1>7. IsBinding(caps, CHOOSE k \in DOMAIN caps : IsBinding(caps, k))
        /\ (CHOOSE k \in DOMAIN caps : IsBinding(caps, k)) \in 1 .. 4
  BY <1>1, <1>5, <1>6
<1> QED
  BY <1>6, <1>7 DEF Binding, caps

\* The quantity fits every cap, although only the smallest one was rounded,
\* and a step more does not fit the smallest.
LEMMA QuantityFits ==
  ASSUME NEW c, Sizable(c),
         NEW qty, qty = Floored(Binding(c.intent, c.account, c.market))
  PROVE  /\ qty \in Nat /\ qty % Instrument.qtyStep = 0
         /\ \A j \in 1 .. 4 :
              qty * Caps(c.intent, c.account, c.market)[j].den
                <= Caps(c.intent, c.account, c.market)[j].num
         /\ \E k \in 1 .. 4 :
              /\ Binding(c.intent, c.account, c.market)
                   = Caps(c.intent, c.account, c.market)[k]
              /\ Caps(c.intent, c.account, c.market)[k].num
                   < (qty + Instrument.qtyStep)
                       * Caps(c.intent, c.account, c.market)[k].den
<1> DEFINE caps == Caps(c.intent, c.account, c.market)
           s == Instrument.qtyStep
<1>1. PICK k \in 1 .. 4 :
        Binding(c.intent, c.account, c.market) = caps[k] /\ FirstOf(caps, 4, k)
  BY BindingIsFirst
<1>2. \A j \in 1 .. 4 : Quotient(caps[j])
  BY CapsAreQuotients
<1>3. s \in Nat \ {0}
  BY PolicyTypes
<1> HIDE DEF caps, s
<1> DEFINE n == caps[k].num  d == caps[k].den
<1>4. n \in Nat /\ d \in Nat \ {0}
  BY <1>2 DEF Quotient
<1>5. qty = (n \div (d * s)) * s
  BY <1>1 DEF Floored, s
<1>6. qty \in Nat /\ qty % s = 0 /\ qty * d <= n /\ n < (qty + s) * d
  BY <1>3, <1>4, <1>5, StepBounds
<1>7. ASSUME NEW j \in 1 .. 4 PROVE qty * caps[j].den <= caps[j].num
  <2> DEFINE x == caps[j].num  e == caps[j].den
  <2>1. x \in Nat /\ e \in Nat \ {0} /\ n * e <= x * d
    BY <1>1, <1>2 DEF Quotient, FirstOf, AtMost
  <2> HIDE DEF x, e, n, d
  <2>2. (qty * d) * e <= n * e
    BY <1>4, <1>6, <2>1, TimesKeeps
  <2>3. (qty * d) * e = (qty * e) * d
    BY <1>4, <1>6, <2>1, Z3
  <2>4. (qty * e) * d <= x * d
    <3>1. {(qty * e) * d, n * e, x * d} \subseteq Int
      BY <1>4, <1>6, <2>1
    <3> QED
      BY <2>1, <2>2, <2>3, <3>1
  <2>5. qty * e <= x
    BY <1>4, <1>6, <2>1, <2>4, TimesCancels
  <2> QED
    BY <2>5 DEF x, e
<1> QED
  BY <1>1, <1>6, <1>7 DEF caps, s, n, d

-----------------------------------------------------------------------------
(* The invariant *)

\* An approval went through every gate, and sized by the smallest cap.
ApprovalEarned ==
  Approved =>
    /\ Acceptable(call)
    /\ ~Unsizable(call.intent, call.account, call.market)
    /\ outcome.qty = Floored(Binding(call.intent, call.account, call.market))
    /\ outcome.binding = Binding(call.intent, call.account, call.market).name

IInv == call \in Cases /\ ApprovalEarned

LEMMA InitIInv == Init => IInv
BY DEF Init, IInv, ApprovalEarned, Approved, Pending

LEMMA NextIInv == IInv /\ [Next]_vars => IInv'
<1> SUFFICES ASSUME IInv, [Next]_vars PROVE IInv'
  OBVIOUS
<1> USE DEF IInv, ApprovalEarned, Approved, Pending, Rejected, Evaluating
<1>1. CASE RejectInput
  BY <1>1 DEF RejectInput
<1>2. CASE RejectPlan
  BY <1>2 DEF RejectPlan
<1>3. CASE ContextRaises
  BY <1>3 DEF ContextRaises
<1>4. CASE RejectTrade
  BY <1>4 DEF RejectTrade
<1>5. CASE RejectSize
  BY <1>5 DEF RejectSize
<1>6. CASE Approve
  BY <1>6 DEF Approve
<1>7. CASE UNCHANGED vars
  BY <1>7 DEF vars
<1>8. CASE Returned
  BY <1>7, <1>8 DEF Returned
<1> QED
  BY <1>1, <1>2, <1>3, <1>4, <1>5, <1>6, <1>7, <1>8 DEF Next

\* Every approval is earned, whatever the calls are.
THEOREM Invariance == Spec => []IInv
BY InitIInv, NextIInv, PTL DEF Spec

\* What an approval says of its call.
LEMMA ApprovalFacts ==
  ASSUME IInv, Approved
  PROVE  /\ Sizable(call)
         /\ Rejections(call.intent, call.account, call.market) = {}
         /\ outcome.qty = Floored(Binding(call.intent, call.account, call.market))
         /\ outcome.binding = Binding(call.intent, call.account, call.market).name
         /\ outcome.qty >= Instrument.minQty
         /\ outcome.qty * call.intent.entry >= Instrument.minNotional
<1>1. Acceptable(call) /\ ~Unsizable(call.intent, call.account, call.market)
  BY DEF IInv, ApprovalEarned
<1>2. call \in Cases /\ Sound(call)
  BY <1>1 DEF IInv, Acceptable, Validated
<1>3. Distance(call.intent) \in Nat
  BY <1>2, ArgumentTypes
<1>4. Distance(call.intent) > 0
  BY <1>1, <1>3 DEF Unsizable
<1>5. Sizable(call)
  BY <1>2, <1>4 DEF Sizable
<1>6. outcome.qty \in Nat /\ call.intent.entry \in Nat
  BY <1>2, <1>5, ArgumentTypes, QuantityFits DEF IInv, ApprovalEarned
<1>7. outcome.qty * call.intent.entry \in Nat
  BY <1>6, TimesType
<1> QED
  BY <1>1, <1>5, <1>6, <1>7, PolicyTypes DEF IInv, ApprovalEarned, Acceptable, Unsizable

\* No validator rejected: the ones the theorems need.
LEMMA NoRejection ==
  ASSUME NEW t, NEW a, NEW m, Rejections(t, a, m) = {}
  PROVE  /\ ~ProjectedDailyBreach(a)
         /\ Ordered(t.side, t.stop, t.entry)
         /\ ~Ordered(t.side, t.invalidation, t.stop)
         /\ Ordered(t.side, t.invalidation, t.entry)
         /\ Ordered(t.side, t.liquidation, t.stop)
         /\ ~(Reward(t, m) < Policy.minRr * RrRisk(t, m))
<1> DEFINE breaches == Breaches(t, a, m)
<1>1. \A code \in DOMAIN breaches : ~breaches[code]
  BY DEF Rejections
<1>2. /\ "PROJECTED_DAILY_BREACH" \in DOMAIN breaches
      /\ "STOP_WRONG_SIDE" \in DOMAIN breaches
      /\ "INVALIDATION_INCOHERENT" \in DOMAIN breaches
      /\ "STOP_BEYOND_LIQUIDATION" \in DOMAIN breaches
      /\ "RR_TOO_LOW" \in DOMAIN breaches
  BY DEF Breaches
<1>3. ~breaches["PROJECTED_DAILY_BREACH"] /\ ~breaches["STOP_WRONG_SIDE"]
      /\ ~breaches["INVALIDATION_INCOHERENT"] /\ ~breaches["STOP_BEYOND_LIQUIDATION"]
      /\ ~breaches["RR_TOO_LOW"]
  BY <1>1, <1>2
<1>4. /\ breaches["PROJECTED_DAILY_BREACH"] = ProjectedDailyBreach(a)
      /\ breaches["STOP_WRONG_SIDE"] = (~Ordered(t.side, t.stop, t.entry))
      /\ breaches["INVALIDATION_INCOHERENT"]
           = (Ordered(t.side, t.invalidation, t.stop)
                \/ ~Ordered(t.side, t.invalidation, t.entry))
      /\ breaches["STOP_BEYOND_LIQUIDATION"] = (~Ordered(t.side, t.liquidation, t.stop))
      /\ breaches["RR_TOO_LOW"] = (Reward(t, m) < Policy.minRr * RrRisk(t, m))
  BY DEF Breaches
<1> QED
  BY <1>3, <1>4

-----------------------------------------------------------------------------
(* What an approved trade can lose *)

LEMMA LossOfLong ==
  ASSUME NEW q \in Int, NEW e \in Int, NEW x \in Int,
         NEW u \in Int, NEW f \in Int, NEW s \in Int
  PROVE  -((q * x - q * e) * u - (q * e + q * x) * f - q * s * u)
           = q * ((e - x) * u + (e + x) * f + s * u)
BY Z3

LEMMA LossOfShort ==
  ASSUME NEW q \in Int, NEW e \in Int, NEW x \in Int,
         NEW u \in Int, NEW f \in Int, NEW s \in Int
  PROVE  -((q * e - q * x) * u - (q * e + q * x) * f - q * s * u)
           = q * ((x - e) * u + (e + x) * f + s * u)
BY Z3

\* What the stop costs in cash is what the engine's formula says per unit, for
\* the stop of an approved trade is on its losing side.
LEMMA LossIsRisk ==
  ASSUME IInv, Approved
  PROVE  -CashBack(call.intent, call.market, outcome.qty, call.intent.stop)
           = outcome.qty * RiskPerUnit(call.intent, call.market)
<1> DEFINE t == call.intent
           q == outcome.qty
           s == call.market.slippage
<1>1. Sizable(call) /\ Ordered(t.side, t.stop, t.entry)
  BY ApprovalFacts, NoRejection
<1>2. /\ t.side \in {"BUY", "SELL"}
      /\ t.entry \in Int /\ t.stop \in Int /\ s \in Int /\ FeeRate \in Int
      /\ EffectiveFee = FeeRate
  BY <1>1, ArgumentTypes DEF Sizable
<1>3. q \in Int /\ Unit \in Int
  BY <1>1, ApprovalFacts, QuantityFits, PolicyTypes
<1>4. CASE t.side = "BUY"
  <2>1. Distance(t) = t.entry - t.stop
    BY <1>1, <1>2, <1>4 DEF Ordered, Distance
  <2>2. -CashBack(t, call.market, q, t.stop)
          = -((q * t.stop - q * t.entry) * Unit
                - (q * t.entry + q * t.stop) * FeeRate - q * s * Unit)
    BY <1>4 DEF CashBack
  <2>3. RiskPerUnit(t, call.market)
          = (t.entry - t.stop) * Unit + (t.entry + t.stop) * FeeRate + s * Unit
    BY <1>2, <2>1 DEF RiskPerUnit
  <2> HIDE DEF t, q, s
  <2>4. -CashBack(t, call.market, q, t.stop) = q * RiskPerUnit(t, call.market)
    BY <1>2, <1>3, <2>2, <2>3, LossOfLong
  <2> QED
    BY <2>4 DEF t, q
<1>5. CASE t.side = "SELL"
  <2>1. Distance(t) = t.stop - t.entry
    BY <1>1, <1>2, <1>5 DEF Ordered, Distance
  <2>2. -CashBack(t, call.market, q, t.stop)
          = -((q * t.entry - q * t.stop) * Unit
                - (q * t.entry + q * t.stop) * FeeRate - q * s * Unit)
    BY <1>5 DEF CashBack
  <2>3. RiskPerUnit(t, call.market)
          = (t.stop - t.entry) * Unit + (t.entry + t.stop) * FeeRate + s * Unit
    BY <1>2, <2>1 DEF RiskPerUnit
  <2> HIDE DEF t, q, s
  <2>4. -CashBack(t, call.market, q, t.stop) = q * RiskPerUnit(t, call.market)
    BY <1>2, <1>3, <2>2, <2>3, LossOfShort
  <2> QED
    BY <2>4 DEF t, q
<1> QED
  BY <1>2, <1>4, <1>5

LEMMA BudgetHolds ==
  ASSUME IInv, Approved
  PROVE  /\ outcome.qty * RiskPerUnit(call.intent, call.market)
              <= Budget(call.account)
         /\ outcome.qty * RiskPerUnit(call.intent, call.market) \in Nat
         /\ Budget(call.account) = call.account.equity * Policy.maxRisk
         /\ Budget(call.account) \in Nat
<1> DEFINE cap == Caps(call.intent, call.account, call.market)[1]
<1>1. Sizable(call)
        /\ outcome.qty = Floored(Binding(call.intent, call.account, call.market))
  BY ApprovalFacts
<1>2. outcome.qty \in Nat /\ outcome.qty * cap.den <= cap.num
  BY <1>1, QuantityFits
<1>3. cap.den = RiskPerUnit(call.intent, call.market) /\ cap.num = Budget(call.account)
  BY DEF Caps
<1>4. Budget(call.account) \in Nat
  BY <1>1, ArgumentTypes, PolicyTypes, TimesType DEF Sizable, Budget
<1> HIDE DEF cap
<1> QED
  BY <1>1, <1>2, <1>3, <1>4, RiskPerUnitType, TimesType DEF Budget

\* Stopped out, an approved trade loses no more than the policy risks on one
\* trade: the quantity _compute_size returns fits the risk_budget cap even when
\* another cap was the smallest, fees and slippage counted.
THEOREM LossCorrect == Spec => []LossWithinBudget
<1>1. IInv => LossWithinBudget
  <2> SUFFICES ASSUME IInv, Approved PROVE LossWithinBudget
    BY DEF LossWithinBudget
  <2> QED
    BY LossIsRisk, BudgetHolds DEF LossWithinBudget
<1> QED
  BY <1>1, Invariance, PTL

\* Stopped out, an approved trade leaves the day within its limit: it is
\* enough that _projected_daily looks at the whole budget of a trade, for the
\* quantity that is sized after it never loses more.
THEOREM DailyCorrect == Spec => []DailyLimitKept
<1>1. IInv => DailyLimitKept
  <2> SUFFICES ASSUME IInv, Approved PROVE DailyLimitKept
    BY DEF DailyLimitKept
  <2> DEFINE day == call.account.dailyPnl * Unit
             cash == CashBack(call.intent, call.market, outcome.qty, call.intent.stop)
             limit == -(call.account.equity * Policy.maxDailyLoss)
             loss == outcome.qty * RiskPerUnit(call.intent, call.market)
             most == call.account.equity * Policy.maxRisk
  <2>1. Sizable(call) /\ ~ProjectedDailyBreach(call.account)
    BY ApprovalFacts, NoRejection
  <2>2. ~(day - most < limit)
    BY <2>1 DEF ProjectedDailyBreach
  <2>3. loss \in Nat /\ most \in Nat /\ loss <= most
    BY BudgetHolds
  <2>4. day \in Int /\ limit \in Int
    BY <2>1, ArgumentTypes, PolicyTypes DEF Sizable
  <2>5. cash \in Int
    BY <2>1, ApprovalFacts, ArgumentTypes, PolicyTypes, QuantityFits
    DEF Sizable, CashBack
  <2>6. -cash = loss
    BY LossIsRisk
  <2> HIDE DEF day, cash, limit, loss, most
  <2>7. day + cash >= limit
    BY <2>2, <2>3, <2>4, <2>5, <2>6
  <2> QED
    BY <2>7 DEF DailyLimitKept, day, cash, limit
<1> QED
  BY <1>1, Invariance, PTL

-----------------------------------------------------------------------------
(* The plan and the quantity of an approved trade *)

\* The levels of an approved trade are in order: liquidation beyond the stop
\* is rejected by the validators, a target on the losing side by
\* compute_rr_net before them.
THEOREM LevelsCorrect == Spec => []LevelsInOrder
<1>1. IInv => LevelsInOrder
  <2> SUFFICES ASSUME IInv, Approved PROVE LevelsInOrder
    BY DEF LevelsInOrder
  <2> DEFINE t == call.intent
  <2>1. Sizable(call)
          /\ Rejections(call.intent, call.account, call.market) = {}
    BY ApprovalFacts
  <2>2. /\ Ordered(t.side, t.liquidation, t.stop)
        /\ ~Ordered(t.side, t.invalidation, t.stop)
        /\ Ordered(t.side, t.invalidation, t.entry)
    BY <2>1, NoRejection
  <2>3. ASSUME NEW j \in DOMAIN t.tps PROVE Ordered(t.side, t.entry, t.tps[j].price)
    <3>1. Profitable(t, t.tps[j].price)
      BY <2>1 DEF Sizable, Sound, Incoherent
    <3>2. t.entry \in Int /\ t.tps[j].price \in Int
      BY <2>1, ArgumentTypes, TargetTypes DEF Sizable
    <3> QED
      BY <3>1, <3>2 DEF Profitable, Ordered
  <2> QED
    BY <2>2, <2>3 DEF LevelsInOrder
<1> QED
  BY <1>1, Invariance, PTL

\* The caps of an approved trade, multiplied out.
LEMMA CapsHold ==
  ASSUME IInv, Approved
  PROVE  /\ outcome.qty \in Nat /\ outcome.qty % Instrument.qtyStep = 0
         /\ outcome.qty * call.intent.entry
              <= call.account.equity * Policy.maxLeverage
         /\ outcome.qty <= call.market.liquidity
         /\ outcome.qty <= MaxQtyFor(call.intent)
<1> DEFINE caps == Caps(call.intent, call.account, call.market)
           q == outcome.qty
<1>1. Sizable(call) /\ q = Floored(Binding(call.intent, call.account, call.market))
  BY ApprovalFacts
<1>2. /\ q \in Nat /\ q % Instrument.qtyStep = 0
      /\ q * caps[2].den <= caps[2].num
      /\ q * caps[3].den <= caps[3].num
      /\ q * caps[4].den <= caps[4].num
  BY <1>1, QuantityFits
<1>3. /\ caps[2].den = call.intent.entry
      /\ caps[2].num = call.account.equity * Policy.maxLeverage
      /\ caps[3].den = 1 /\ caps[3].num = call.market.liquidity
      /\ caps[4].den = 1 /\ caps[4].num = MaxQtyFor(call.intent)
  BY DEF Caps
<1> HIDE DEF caps, q
<1>4. q * 1 = q
  BY <1>2
<1> QED
  BY <1>2, <1>3, <1>4 DEF q

\* One step more does not fit the cap that was reported.
LEMMA OneStepMore ==
  ASSUME IInv, Approved
  PROVE  LET t == call.intent
             more == outcome.qty + Instrument.qtyStep
         IN \/ /\ outcome.binding = "risk_budget"
               /\ Budget(call.account) < more * RiskPerUnit(t, call.market)
            \/ /\ outcome.binding = "leverage"
               /\ call.account.equity * Policy.maxLeverage < more * t.entry
            \/ /\ outcome.binding = "liquidity"
               /\ call.market.liquidity < more
            \/ /\ outcome.binding = "symbol_max"
               /\ MaxQtyFor(t) < more
<1> DEFINE caps == Caps(call.intent, call.account, call.market)
           more == outcome.qty + Instrument.qtyStep
<1>1. Sizable(call)
        /\ outcome.qty = Floored(Binding(call.intent, call.account, call.market))
        /\ outcome.binding = Binding(call.intent, call.account, call.market).name
  BY ApprovalFacts
<1>2. PICK k \in 1 .. 4 :
        outcome.binding = caps[k].name /\ caps[k].num < more * caps[k].den
  BY <1>1, QuantityFits
<1>3. more \in Int
  BY <1>1, QuantityFits, PolicyTypes
<1>4. CASE k = 1
  BY <1>2, <1>4 DEF Caps
<1>5. CASE k = 2
  BY <1>2, <1>5 DEF Caps
<1>6. CASE k = 3
  <2>1. caps[3].name = "liquidity" /\ caps[3].num = call.market.liquidity
          /\ caps[3].den = 1
    BY DEF Caps
  <2> HIDE DEF caps, more
  <2>2. more * 1 = more
    BY <1>3
  <2> QED
    BY <1>2, <1>6, <2>1, <2>2 DEF more
<1>7. CASE k = 4
  <2>1. caps[4].name = "symbol_max" /\ caps[4].num = MaxQtyFor(call.intent)
          /\ caps[4].den = 1
    BY DEF Caps
  <2> HIDE DEF caps, more
  <2>2. more * 1 = more
    BY <1>3
  <2> QED
    BY <1>2, <1>7, <2>1, <2>2 DEF more
<1> QED
  BY <1>4, <1>5, <1>6, <1>7

\* The binding constraint that is reported is one that a step more breaks: of
\* the caps, the code reports the one it divided by.
THEOREM BindingCorrect == Spec => []BindingIsTrue
<1>1. IInv => BindingIsTrue
  <2> SUFFICES ASSUME IInv, Approved PROVE BindingIsTrue
    BY DEF BindingIsTrue
  <2> DEFINE t == call.intent
             more == outcome.qty + Instrument.qtyStep
  <2>1. /\ more \in Nat
        /\ Budget(call.account) \in Int
        /\ RiskPerUnit(t, call.market) \in Nat
        /\ t.entry \in Nat
        /\ call.account.equity * Policy.maxLeverage \in Int
        /\ call.market.liquidity \in Int
        /\ MaxQtyFor(t) \in Int
    BY ApprovalFacts, CapsHold, BudgetHolds, RiskPerUnitType, ArgumentTypes,
       PolicyTypes, TimesType DEF Sizable
  <2>2. more * RiskPerUnit(t, call.market) \in Int /\ more * t.entry \in Int
    BY <2>1, TimesType
  <2> QED
    BY <2>1, <2>2, OneStepMore DEF BindingIsTrue
<1> QED
  BY <1>1, Invariance, PTL

\* The quantity fits every cap at once, though only the smallest is rounded to
\* the step of the exchange, and it is the largest that does.
THEOREM QtyCorrect == Spec => []QtyIsLargest
<1>1. IInv => QtyIsLargest
  <2> SUFFICES ASSUME IInv, Approved PROVE QtyIsLargest
    BY DEF QtyIsLargest
  <2> DEFINE t == call.intent
             more == outcome.qty + Instrument.qtyStep
  <2>1. Tradable(call, outcome.qty)
    BY ApprovalFacts, CapsHold, BudgetHolds DEF Tradable
  <2>2. /\ more \in Nat
        /\ Budget(call.account) \in Int
        /\ RiskPerUnit(t, call.market) \in Nat
        /\ t.entry \in Nat
        /\ call.account.equity * Policy.maxLeverage \in Int
        /\ call.market.liquidity \in Int
        /\ MaxQtyFor(t) \in Int
    BY ApprovalFacts, CapsHold, BudgetHolds, RiskPerUnitType, ArgumentTypes,
       PolicyTypes, TimesType DEF Sizable
  <2>3. more * RiskPerUnit(t, call.market) \in Int /\ more * t.entry \in Int
    BY <2>2, TimesType
  <2>4. ~Tradable(call, more)
    BY <2>2, <2>3, OneStepMore DEF Tradable
  <2> QED
    BY <2>1, <2>4 DEF QtyIsLargest
<1> QED
  BY <1>1, Invariance, PTL

-----------------------------------------------------------------------------
(* What an approved trade earns *)

\* What a target brings in cash, but for the entry's fee, is what the engine's
\* formula says per unit, for the targets are on the profitable side.
LEMMA GainOfLong ==
  ASSUME NEW q \in Int, NEW e \in Int, NEW x \in Int,
         NEW u \in Int, NEW f \in Int, NEW s \in Int
  PROVE  (q * x - q * e) * u - (q * e + q * x) * f - q * s * u + q * e * f
           = q * ((x - e) * u - (x * f + s * u))
BY Z3

LEMMA GainOfShort ==
  ASSUME NEW q \in Int, NEW e \in Int, NEW x \in Int,
         NEW u \in Int, NEW f \in Int, NEW s \in Int
  PROVE  (q * e - q * x) * u - (q * e + q * x) * f - q * s * u + q * e * f
           = q * ((e - x) * u - (x * f + s * u))
BY Z3

LEMMA TargetPays ==
  ASSUME NEW c \in Cases, Sound(c), NEW q \in Int, NEW j \in DOMAIN c.intent.tps
  PROVE  LET t == c.intent
             gain == NetGain(t, c.market, t.tps[j].price)
         IN /\ t.tps[j].fraction \in Int /\ gain \in Int
            /\ CashBack(t, c.market, q, t.tps[j].price) + q * t.entry * FeeRate = q * gain
<1> DEFINE t == c.intent
           x == t.tps[j].price
           s == c.market.slippage
<1>1. x \in Nat /\ t.tps[j].fraction \in Int
  BY TargetTypes
<1>2. /\ t.side \in {"BUY", "SELL"} /\ t.entry \in Int /\ s \in Int /\ FeeRate \in Int
      /\ EffectiveFee = FeeRate /\ Unit \in Int
  BY ArgumentTypes, PolicyTypes
<1>3. Profitable(t, x)
  BY DEF Sound, Incoherent
<1>4. NetGain(t, c.market, x)
        = (IF x < t.entry THEN t.entry - x ELSE x - t.entry) * Unit - (x * FeeRate + s * Unit)
  BY <1>2 DEF NetGain
<1>5. CASE t.side = "BUY"
  <2>1. CashBack(t, c.market, q, x)
          = (q * x - q * t.entry) * Unit - (q * t.entry + q * x) * FeeRate - q * s * Unit
    BY <1>5 DEF CashBack
  <2>2. ~(x < t.entry)
    BY <1>1, <1>2, <1>3, <1>5 DEF Profitable
  <2>3. NetGain(t, c.market, x) = (x - t.entry) * Unit - (x * FeeRate + s * Unit)
    BY <1>4, <2>2
  <2> HIDE DEF t, x, s
  <2>4. NetGain(t, c.market, x) \in Int
    BY <1>1, <1>2, <2>3
  <2>5. CashBack(t, c.market, q, x) + q * t.entry * FeeRate = q * NetGain(t, c.market, x)
    BY <1>1, <1>2, <2>1, <2>3, GainOfLong
  <2> QED
    BY <1>1, <2>4, <2>5 DEF t, x
<1>6. CASE t.side = "SELL"
  <2>1. CashBack(t, c.market, q, x)
          = (q * t.entry - q * x) * Unit - (q * t.entry + q * x) * FeeRate - q * s * Unit
    BY <1>6 DEF CashBack
  <2>2. x < t.entry
    BY <1>3, <1>6 DEF Profitable
  <2>3. NetGain(t, c.market, x) = (t.entry - x) * Unit - (x * FeeRate + s * Unit)
    BY <1>4, <2>2
  <2> HIDE DEF t, x, s
  <2>4. NetGain(t, c.market, x) \in Int
    BY <1>1, <1>2, <2>3
  <2>5. CashBack(t, c.market, q, x) + q * t.entry * FeeRate = q * NetGain(t, c.market, x)
    BY <1>1, <1>2, <2>1, <2>3, GainOfShort
  <2> QED
    BY <1>1, <2>4, <2>5 DEF t, x
<1> QED
  BY <1>2, <1>5, <1>6

\* Closed at its targets, an approved trade earns the engine's reward per unit
\* times its quantity, however the position is divided among the targets.
LEMMA ProfitIsReward ==
  ASSUME NEW c \in Cases, Sound(c), NEW q \in Int
  PROVE  LET t == c.intent
         IN /\ SumFunction([j \in DOMAIN t.tps |-> t.tps[j].fraction
                 * (CashBack(t, c.market, q, t.tps[j].price) + q * t.entry * FeeRate)])
                  = q * Reward(t, c.market)
            /\ Reward(t, c.market) \in Int
<1> DEFINE t == c.intent
           S == DOMAIN t.tps
           gain == [j \in S |-> t.tps[j].fraction * NetGain(t, c.market, t.tps[j].price)]
           cash == [j \in S |-> t.tps[j].fraction
                      * (CashBack(t, c.market, q, t.tps[j].price) + q * t.entry * FeeRate)]
<1>1. IsFiniteSet(S)
  BY TargetTypes
<1>2. \A j \in S : gain[j] \in Int /\ cash[j] = q * gain[j]
  <2> TAKE j \in S
  <2> DEFINE f == t.tps[j].fraction
             g == NetGain(t, c.market, t.tps[j].price)
  <2>1. /\ f \in Int /\ g \in Int
        /\ CashBack(t, c.market, q, t.tps[j].price) + q * t.entry * FeeRate = q * g
    BY TargetPays
  <2>2. gain[j] = f * g /\ cash[j] = f * (q * g)
    BY <2>1
  <2> HIDE DEF f, g
  <2>3. f * g \in Int /\ f * (q * g) = q * (f * g)
    BY <2>1, Z3
  <2> QED
    BY <2>2, <2>3
<1>3. DOMAIN gain = S /\ DOMAIN cash = S
  OBVIOUS
<1>4. SumFunction(cash) = SumFunctionOnSet(cash, S) /\ Reward(t, c.market) = SumFunctionOnSet(gain, S)
  BY <1>3 DEF SumFunction, Reward
<1> HIDE DEF S, gain, cash
<1>5. SumFunctionOnSet(gain, S) \in Int
  BY <1>1, <1>2, SumIsInt
<1>6. SumFunctionOnSet(cash, S) = q * SumFunctionOnSet(gain, S)
  BY <1>1, <1>2, SumScaled
<1> QED
  BY <1>4, <1>5, <1>6 DEF cash, S

\* The reward/risk that RR_TOO_LOW lets through is that of the trade: at its
\* targets an approved trade brings in, counted in cash, at least min_rr_net
\* times what it loses at its stop, for every number and split of the targets.
THEOREM RewardCorrect == Spec => []RewardPaysRisk
<1>1. IInv => RewardPaysRisk
  <2> SUFFICES ASSUME IInv, Approved PROVE RewardPaysRisk
    BY DEF RewardPaysRisk
  <2> DEFINE t == call.intent
             m == call.market
             q == outcome.qty
             r == RrRisk(t, m)
             rr == Policy.minRr
  <2>1. Sizable(call) /\ ~(Reward(t, m) < rr * r)
    BY ApprovalFacts, NoRejection
  <2>2. q \in Nat /\ rr \in Int
    BY CapsHold, EngineAssumption
  <2>3. r \in Nat /\ -CashBack(t, m, q, t.stop) = q * r
    BY <2>1, LossIsRisk, RiskPerUnitType DEF RrRisk, RiskPerUnit
  <2>4. /\ SumFunction([j \in DOMAIN t.tps |-> t.tps[j].fraction
             * (CashBack(t, m, q, t.tps[j].price) + q * t.entry * FeeRate)])
               = q * Reward(t, m)
        /\ Reward(t, m) \in Int
    BY <2>1, <2>2, ProfitIsReward DEF Sizable
  <2>5. q * Reward(t, m) >= rr * (q * r)
    <3> DEFINE w == Reward(t, m)
    <3> HIDE DEF w, q, r, rr
    <3>1. w \in Int /\ rr * r \in Int /\ rr * r <= w
      BY <2>1, <2>2, <2>3, <2>4 DEF w
    <3>2. (rr * r) * q <= w * q
      BY <2>2, <3>1, TimesKeeps
    <3>3. (rr * r) * q = rr * (q * r) /\ w * q = q * w /\ q * w \in Int /\ rr * (q * r) \in Int
      BY <2>2, <2>3, <3>1, Z3
    <3>4. q * w >= rr * (q * r)
      BY <3>2, <3>3
    <3> QED
      BY <3>4 DEF w
  <2> HIDE DEF t, m, q, r, rr
  <2>6. SumFunction([j \in DOMAIN t.tps |-> t.tps[j].fraction
          * (CashBack(t, m, q, t.tps[j].price) + q * t.entry * FeeRate)])
          >= rr * (-CashBack(t, m, q, t.stop))
    BY <2>3, <2>4, <2>5
  <2> QED
    BY <2>6 DEF RewardPaysRisk, t, m, q, rr
<1> QED
  BY <1>1, Invariance, PTL

-----------------------------------------------------------------------------
(* Types *)

\* A decision that is not an approval carries no quantity and no constraint,
\* and has codes exactly if it is a rejection.
Blank ==
  \/ outcome = Pending
  \/ outcome = [Pending EXCEPT !.verdict = "raised"]
  \/ \E codes : codes # {} /\ outcome = Rejected(codes)
  \/ Approved /\ outcome.codes = {}

LEMMA NextBlank == Blank /\ [Next]_vars => Blank'
<1> SUFFICES ASSUME Blank, [Next]_vars PROVE Blank'
  OBVIOUS
<1>1. CASE RejectInput
  BY <1>1 DEF RejectInput, Blank
<1>2. CASE RejectPlan
  BY <1>2 DEF RejectPlan, Blank
<1>3. CASE ContextRaises
  BY <1>3 DEF ContextRaises, Blank
<1>4. CASE RejectTrade
  <2>1. Rejections(call.intent, call.account, call.market) # {}
          /\ outcome' = Rejected(Rejections(call.intent, call.account, call.market))
    BY <1>4 DEF RejectTrade
  <2> QED
    BY <2>1 DEF Blank
<1>5. CASE RejectSize
  BY <1>5 DEF RejectSize, Blank
<1>6. CASE Approve
  BY <1>6 DEF Approve, Blank, Approved, Pending
<1>7. CASE UNCHANGED vars
  BY <1>7 DEF vars, Blank, Approved
<1>8. CASE Returned
  BY <1>7, <1>8 DEF Returned
<1> QED
  BY <1>1, <1>2, <1>3, <1>4, <1>5, <1>6, <1>7, <1>8 DEF Next

LEMMA BlankIsTyped == IInv /\ Blank => TypeOK
<1> SUFFICES ASSUME IInv, Blank PROVE TypeOK
  OBVIOUS
<1>1. CASE Approved /\ outcome.codes = {}
  <2>1. outcome.qty \in Nat
    BY <1>1, CapsHold
  <2>2. outcome.binding \in {"risk_budget", "leverage", "liquidity", "symbol_max"}
    BY <1>1, OneStepMore
  <2> QED
    BY <1>1, <2>1, <2>2 DEF TypeOK, Approved
<1>2. CASE outcome = Pending \/ outcome = [Pending EXCEPT !.verdict = "raised"]
  BY <1>2 DEF Pending, TypeOK
<1>3. CASE \E codes : codes # {} /\ outcome = Rejected(codes)
  BY <1>3 DEF Rejected, Pending, TypeOK
<1> QED
  BY <1>1, <1>2, <1>3 DEF Blank

\* A RiskDecision has codes exactly if it rejects, and a quantity and a
\* constraint of the four only if it approves.
THEOREM TypeCorrect == Spec => []TypeOK
<1>1. Init => Blank
  BY DEF Init, Blank
<1> QED
  BY <1>1, BlankIsTyped, NextBlank, Invariance, PTL DEF Spec
=============================================================================
