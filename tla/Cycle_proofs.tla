----------------------------- MODULE Cycle_proofs ------------------------------
(***************************************************************************)
(* Proofs about Cycle, for every book, answer, policy and series: what a   *)
(* cycle hands the Risk Engine is accepted by it, an approved trade        *)
(* survives the estimate of its liquidation, swings do not come and go     *)
(* behind the forming candle, and a mirrored market is read as the mirror  *)
(* image of its reading.                                                   *)
(***************************************************************************)
EXTENDS Cycle, Sums, SequenceTheorems, TLAPS

-----------------------------------------------------------------------------
(* The calls of evaluate *)

\* The books that reach the model: the prefilter stopped the others.
Readable == {ob \in Books : ~Unreadable(ob) /\ Quality(ob) # "CONFLICTING"}

\* The answers that become an intent.
Openings == {a \in Answers : a.action \in DOMAIN Opening /\ Parsable(a)}

CallOf(a, ob) == [intent |-> Intent(a), account |-> Account(ob), market |-> Market(ob)]

Calls == {CallOf(a, ob) : a \in Openings, ob \in Readable}

\* What is proved of the Risk Engine for every set of calls, for these.
Judge == INSTANCE RiskEngine_proofs WITH Cases <- Calls

\* A book that is not conflicting has two positive sides that do not cross.
LEMMA ReadableBook ==
  ASSUME NEW ob \in Readable
  PROVE  /\ BestBid(ob) \in Nat \ {0} /\ BestAsk(ob) \in Nat
         /\ BestBid(ob) < BestAsk(ob)
         /\ ob.age \in Int
<1>1. /\ ob.bids \in Seq([price : Int, size : Nat]) /\ ob.bids # <<>>
      /\ ob.asks \in Seq([price : Int, size : Nat]) /\ ob.asks # <<>>
      /\ ob.age \in Int
  BY BooksAssumption DEF Readable, Unreadable
<1>2. BestBid(ob) \in Int /\ BestAsk(ob) \in Int
  <2> DEFINE Level == [price : Int, size : Nat]
  <2>1. \A x \in Level : x.price \in Int
    OBVIOUS
  <2>2. \A s \in Seq(Level) : s # <<>> => s[1] \in Level
    <3> HIDE DEF Level
    <3> QED
      OBVIOUS
  <2> QED
    BY <1>1, <2>1, <2>2 DEF BestBid, BestAsk
<1>3. Issues(ob) \ {"DATA_STALE"} = {}
  BY DEF Readable, Quality
<1>4. "BOOK_CROSSED" \notin Issues(ob) /\ "NON_POSITIVE_PRICE" \notin Issues(ob)
  BY <1>3
<1>5. ~(BestBid(ob) >= BestAsk(ob)) /\ ~(BestBid(ob) <= 0)
  BY <1>4, Zenon DEF Issues
<1> QED
  BY <1>1, <1>2, <1>5

LEMMA DivType ==
  ASSUME NEW n \in Nat, NEW d \in Nat \ {0}
  PROVE  n \div d \in Nat
BY Z3

LEMMA SpreadType ==
  ASSUME NEW ob \in Readable
  PROVE  Spread(ob) \in Nat /\ SpreadBps(ob) \in Nat
<1>1. /\ Spread(ob) \in Nat
      /\ 20000 * Spread(ob) \in Nat
      /\ BestBid(ob) + BestAsk(ob) \in Nat \ {0}
  BY ReadableBook DEF Spread
<1> QED
  BY <1>1, DivType DEF SpreadBps

\* What a side offers is no negative amount.
LEMMA DepthType ==
  ASSUME NEW levels \in Seq([price : Int, size : Nat])
  PROVE  Depth(levels) \in Nat
<1> DEFINE Level == [price : Int, size : Nat]
           sizes == [i \in DOMAIN levels |-> levels[i].size]
<1>1. \A x \in Level : x.size \in Nat
  OBVIOUS
<1>2. \A s \in Seq(Level) :
        DOMAIN s = 1 .. Len(s) /\ Len(s) \in Int /\ \A i \in DOMAIN s : s[i] \in Level
  <2> HIDE DEF Level
  <2> QED
    OBVIOUS
<1>3. IsFiniteSet(DOMAIN levels)
  BY <1>2, FS_Interval
<1>4. DOMAIN sizes = DOMAIN levels /\ \A i \in DOMAIN levels : sizes[i] \in Nat
  BY <1>1, <1>2
<1> HIDE DEF sizes
<1>5. SumFunctionOnSet(sizes, DOMAIN levels) \in Nat
  BY <1>3, <1>4, SumIsNat
<1> QED
  BY <1>4, <1>5 DEF Depth, SumFunction, sizes

\* What an opening and a readable book give the Risk Engine has the types its
\* constructors ask for, and no parameter is negative.
LEMMA CallTypes ==
  ASSUME NEW a \in Openings, NEW ob \in Readable
  PROVE  /\ Engine!IntentValid(Intent(a))
         /\ Engine!AccountValid(Account(ob))
         /\ {Market(ob).slippage, Market(ob).liquidity, Market(ob).now} \subseteq Nat
<1>1. Engine!IntentValid(Intent(a))
  BY DEF Openings, Parsable
<1>2. Engine!AccountValid(Account(ob))
  <2>1. /\ SpreadBps(ob) \in Nat /\ ob.age \in Int /\ Equity \in Nat \ {0}
    BY SpreadType, ReadableBook, CycleAssumption
  <2> QED
    BY <2>1 DEF Engine!AccountValid, Account
<1>3. ob.asks \in Seq([price : Int, size : Nat])
  BY BooksAssumption DEF Readable
<1>4. Spread(ob) \in Nat /\ Liquidity(ob) \in Nat /\ Now \in Nat
  BY <1>3, SpreadType, DepthType, CycleAssumption DEF Liquidity
<1> QED
  BY <1>1, <1>2, <1>4 DEF Market

\* What the Risk Engine assumes of its constants and its calls, a cycle
\* provides.
LEMMA JudgeConstants == Judge!EngineAssumption /\ Judge!CasesAssumption
<1>1. Judge!EngineAssumption
  <2>1. Judge!PolicyValid /\ Judge!InstrumentValid
    BY LimitsAssumption
       DEF Engine!PolicyValid, Judge!PolicyValid, Engine!InstrumentValid, Judge!InstrumentValid
  <2> QED
    BY <2>1, LimitsAssumption, CycleAssumption DEF Judge!EngineAssumption
<1>2. ASSUME NEW c \in Calls
      PROVE  /\ Judge!IntentValid(c.intent)
             /\ Judge!AccountValid(c.account)
             /\ {c.market.slippage, c.market.liquidity, c.market.now} \subseteq Int
  <2>1. PICK a \in Openings, ob \in Readable : c = CallOf(a, ob)
    BY DEF Calls
  <2>2. c.intent = Intent(a) /\ c.account = Account(ob) /\ c.market = Market(ob)
    BY <2>1 DEF CallOf
  <2>3. \A t : Engine!IntentValid(t) = Judge!IntentValid(t)
    BY DEF Engine!IntentValid, Judge!IntentValid
  <2>4. \A x : Engine!AccountValid(x) = Judge!AccountValid(x)
    BY DEF Engine!AccountValid, Judge!AccountValid
  <2> QED
    BY <2>2, <2>3, <2>4, CallTypes
<1>3. Judge!CasesAssumption
  BY <1>2 DEF Judge!CasesAssumption
<1> QED
  BY <1>1, <1>3
-----------------------------------------------------------------------------
(* The Risk Engine of the cycle and the one the lemmas speak of are one. *)

LEMMA SamePlan ==
  /\ \A t : Engine!Fractions(t) = Judge!Fractions(t)
  /\ \A t, m : Engine!RrRisk(t, m) = Judge!RrRisk(t, m)
  /\ \A t, m : Engine!Reward(t, m) = Judge!Reward(t, m)
  /\ \A t, m : Engine!Incoherent(t, m) = Judge!Incoherent(t, m)
<1>1. \A t : Engine!Fractions(t) = Judge!Fractions(t)
  BY DEF Engine!Fractions, Judge!Fractions, Engine!SumFunction, Judge!SumFunction,
         Engine!SumFunctionOnSet, Judge!SumFunctionOnSet, Engine!FoldFunctionOnSet,
         Judge!FoldFunctionOnSet, Engine!MapThenFoldSet, Judge!MapThenFoldSet
<1>2. \A t, m : Engine!RrRisk(t, m) = Judge!RrRisk(t, m)
  BY DEF Engine!RrRisk, Judge!RrRisk, Engine!Distance, Judge!Distance,
         Engine!EffectiveFee, Judge!EffectiveFee
<1>3. \A t, m, p : Engine!NetGain(t, m, p) = Judge!NetGain(t, m, p)
  BY DEF Engine!NetGain, Judge!NetGain, Engine!EffectiveFee, Judge!EffectiveFee
<1>4. \A t, m : Engine!Reward(t, m) = Judge!Reward(t, m)
  BY DEF Engine!Reward, Judge!Reward, Engine!SumFunction, Judge!SumFunction,
         Engine!SumFunctionOnSet, Judge!SumFunctionOnSet, Engine!FoldFunctionOnSet,
         Judge!FoldFunctionOnSet, Engine!MapThenFoldSet, Judge!MapThenFoldSet,
         Engine!NetGain, Judge!NetGain, Engine!EffectiveFee, Judge!EffectiveFee
<1>5. \A t, p : Engine!Profitable(t, p) = Judge!Profitable(t, p)
  BY DEF Engine!Profitable, Judge!Profitable
<1>6. \A t, m : Engine!Incoherent(t, m) = Judge!Incoherent(t, m)
  BY <1>1, <1>2, <1>5 DEF Engine!Incoherent, Judge!Incoherent
<1> QED
  BY <1>1, <1>2, <1>4, <1>6

LEMMA SameRejections ==
  \A t, a, m : Engine!Rejections(t, a, m) = Judge!Rejections(t, a, m)
<1>1. /\ \A a : Engine!ProjectedDailyBreach(a) = Judge!ProjectedDailyBreach(a)
      /\ \A side, x, y : Engine!Ordered(side, x, y) = Judge!Ordered(side, x, y)
  BY DEF Engine!ProjectedDailyBreach, Judge!ProjectedDailyBreach, Engine!Ordered,
         Judge!Ordered
<1>2. \A t, a, m : Engine!Breaches(t, a, m) = Judge!Breaches(t, a, m)
  BY <1>1, SamePlan DEF Engine!Breaches, Judge!Breaches
<1> QED
  BY <1>2 DEF Engine!Rejections, Judge!Rejections

LEMMA SameSize ==
  /\ \A t, a, m : Engine!Binding(t, a, m) = Judge!Binding(t, a, m)
  /\ \A cap : Engine!Floored(cap) = Judge!Floored(cap)
  /\ \A t, a, m : Engine!Unsizable(t, a, m) = Judge!Unsizable(t, a, m)
<1>1. \A t, a, m : Engine!Caps(t, a, m) = Judge!Caps(t, a, m)
  BY DEF Engine!Caps, Judge!Caps, Engine!Budget, Judge!Budget, Engine!RiskPerUnit,
         Judge!RiskPerUnit, Engine!Distance, Judge!Distance, Engine!EffectiveFee,
         Judge!EffectiveFee, Engine!MaxQtyFor, Judge!MaxQtyFor
<1>2. \A caps, k : Engine!IsBinding(caps, k) = Judge!IsBinding(caps, k)
  BY DEF Engine!IsBinding, Judge!IsBinding, Engine!AtMost, Judge!AtMost, Engine!Below,
         Judge!Below
<1>3. \A t, a, m : Engine!Binding(t, a, m) = Judge!Binding(t, a, m)
  BY <1>1, <1>2 DEF Engine!Binding, Judge!Binding
<1>4. \A cap : Engine!Floored(cap) = Judge!Floored(cap)
  BY DEF Engine!Floored, Judge!Floored
<1>5. \A t, a, m : Engine!Unsizable(t, a, m) = Judge!Unsizable(t, a, m)
  BY <1>3, <1>4 DEF Engine!Unsizable, Judge!Unsizable, Engine!Budget, Judge!Budget,
                    Engine!Distance, Judge!Distance
<1> QED
  BY <1>3, <1>4, <1>5

LEMMA SameEngine ==
  /\ Engine!Pending = Judge!Pending
  /\ Engine!Approved = Judge!Approved
  /\ Engine!TypeOK = Judge!TypeOK
  /\ Engine!Next = Judge!Next
<1>1. /\ Engine!Pending = Judge!Pending
      /\ \A codes : Engine!Rejected(codes) = Judge!Rejected(codes)
  BY DEF Engine!Pending, Judge!Pending, Engine!Rejected, Judge!Rejected
<1>2. Engine!Approved = Judge!Approved /\ Engine!TypeOK = Judge!TypeOK
  BY DEF Engine!Approved, Judge!Approved, Engine!TypeOK, Judge!TypeOK
<1>3. \A c : /\ Engine!Sound(c) = Judge!Sound(c)
             /\ Engine!Validated(c) = Judge!Validated(c)
             /\ Engine!Acceptable(c) = Judge!Acceptable(c)
  BY SamePlan, SameRejections
     DEF Engine!Sound, Judge!Sound, Engine!Validated, Judge!Validated, Engine!Acceptable,
         Judge!Acceptable, Engine!InvalidInput, Judge!InvalidInput
<1>4. Engine!Evaluating = Judge!Evaluating
  BY <1>1 DEF Engine!Evaluating, Judge!Evaluating
<1>5. /\ Engine!RejectInput = Judge!RejectInput
      /\ Engine!RejectPlan = Judge!RejectPlan
  BY <1>1, <1>4, SamePlan
     DEF Engine!RejectInput, Judge!RejectInput, Engine!RejectPlan, Judge!RejectPlan,
         Engine!InvalidInput, Judge!InvalidInput
<1>6. /\ Engine!ContextRaises = Judge!ContextRaises
      /\ Engine!RejectTrade = Judge!RejectTrade
  BY <1>1, <1>3, <1>4, SamePlan, SameRejections
     DEF Engine!ContextRaises, Judge!ContextRaises, Engine!RejectTrade, Judge!RejectTrade
<1>7. /\ Engine!RejectSize = Judge!RejectSize
      /\ Engine!Approve = Judge!Approve
  BY <1>1, <1>3, <1>4, SameSize
     DEF Engine!RejectSize, Judge!RejectSize, Engine!Approve, Judge!Approve
<1>8. Engine!Returned = Judge!Returned
  BY <1>1 DEF Engine!Returned, Judge!Returned, Engine!vars, Judge!vars
<1>9. Engine!Next = Judge!Next
  BY <1>5, <1>6, <1>7, <1>8 DEF Engine!Next, Judge!Next
<1> QED
  BY <1>1, <1>2, <1>9
-----------------------------------------------------------------------------
(* The invariant *)

\* Where a cycle stands, what it knows by then, and that the Risk Engine is
\* only called with calls it accepts.
Stage ==
  /\ pc \in {"idle", "analyze", "judge", "done"}
  /\ pc = "idle" <=> end = "none"
  /\ pc \in {"analyze", "judge"} <=> end \in WorthAnalysing
  /\ pc = "analyze" => book \in Readable
  /\ call = NoCall <=> end \notin WorthAnalysing \cup {"judged"} \/ pc = "analyze"
  /\ call # NoCall => call \in Calls
  /\ end # "refused"

\* The outcome is the Risk Engine's, of that call.
Verdict ==
  /\ pc # "done" \/ call = NoCall => outcome = Engine!Pending
  /\ Judge!Blank
  /\ Judge!ApprovalEarned
  /\ "INVALID_INPUT" \notin outcome.codes

IInv == Stage /\ Verdict

\* A verdict that is pending says nothing.
LEMMA PendingVerdict ==
  outcome = Engine!Pending => Verdict
BY SameEngine
   DEF Verdict, Judge!Blank, Judge!ApprovalEarned, Judge!Approved, Judge!Pending

LEMMA InitIInv == Init => IInv
<1> SUFFICES ASSUME Init PROVE IInv
  OBVIOUS
<1>1. Stage
  BY DEF Init, Stage, WorthAnalysing
<1> QED
  BY <1>1, PendingVerdict DEF Init, IInv

\* The gate lets through only books that can be read and do not conflict.
LEMMA WorthIsReadable ==
  ASSUME NEW cs, NEW ob \in Books, NEW lively, ~Unreadable(ob),
         Reason(cs, ob, lively) \in WorthAnalysing
  PROVE  ob \in Readable
BY DEF Reason, WorthAnalysing, Readable

\* A call is not the empty one.
LEMMA CallIsThere ==
  ASSUME NEW a, NEW ob
  PROVE  CallOf(a, ob) # NoCall
<1>1. "intent" \in DOMAIN CallOf(a, ob)
  BY DEF CallOf
<1>2. DOMAIN NoCall = {}
  BY DEF NoCall
<1> QED
  BY <1>1, <1>2

\* A cycle that ends before the Risk Engine is asked.
LEMMA EndsEarly ==
  ASSUME IInv, NEW how, Ends(how), call = NoCall,
         how \notin WorthAnalysing \cup {"judged", "none", "refused"}
  PROVE  IInv'
<1>1. pc' = "done" /\ end' = how /\ call' = call /\ outcome' = outcome
  BY DEF Ends
<1>2. Stage'
  BY <1>1 DEF Stage, WorthAnalysing, IInv, NoCall
<1>3. Verdict'
  BY <1>1 DEF IInv, Verdict, NoCall, Judge!Blank, Judge!ApprovalEarned, Judge!Approved
<1> QED
  BY <1>2, <1>3 DEF IInv
LEMMA CollectedKeeps ==
  ASSUME IInv, Collected
  PROVE  IInv'
<1>1. PICK ob \in {b \in Books : ~Unreadable(b)}, allowed \in BOOLEAN, lively \in BOOLEAN :
        LET reason == IF allowed THEN Reason(candles, ob, lively) ELSE "budget" IN
        /\ book' = ob
        /\ IF reason \in WorthAnalysing
           THEN pc' = "analyze" /\ end' = reason /\ UNCHANGED <<call, outcome>>
           ELSE Ends(reason)
  BY DEF Collected
<1> DEFINE reason == IF allowed THEN Reason(candles, ob, lively) ELSE "budget"
<1>2. pc = "idle" /\ end = "none" /\ call = NoCall
  BY DEF Collected, IInv, Stage, WorthAnalysing
<1>3. CASE reason \in WorthAnalysing
  <2>1. ob \in Readable
    BY <1>3, WorthIsReadable DEF WorthAnalysing
  <2>2. /\ book' \in Readable /\ pc' = "analyze" /\ end' \in WorthAnalysing
        /\ call' = NoCall /\ outcome' = outcome
    BY <1>1, <1>2, <1>3, <2>1
  <2>3. Stage'
    BY <2>2 DEF Stage, NoCall, WorthAnalysing
  <2>4. Verdict'
    BY <1>2, <2>2, PendingVerdict
       DEF IInv, Verdict, NoCall, Judge!Blank, Judge!ApprovalEarned, Judge!Approved
  <2> QED
    BY <2>3, <2>4 DEF IInv
<1>4. CASE reason \notin WorthAnalysing
  <2>1. Ends(reason)
    BY <1>1, <1>4
  <2>2. reason \notin {"judged", "none", "refused"}
    BY DEF Reason
  <2> QED
    BY <1>2, <1>4, <2>1, <2>2, EndsEarly
<1> QED
  BY <1>3, <1>4

LEMMA AnalysedKeeps ==
  ASSUME IInv, Analysed
  PROVE  IInv'
<1>1. /\ pc = "analyze" /\ end \in WorthAnalysing /\ call = NoCall /\ book \in Readable
      /\ outcome = Engine!Pending /\ book' = book
  BY DEF Analysed, IInv, Stage, Verdict
<1>2. PICK a \in Answers : NoIntent(a) \/ ParseRaises(a) \/ Called(a)
  BY DEF Analysed
<1>3. CASE NoIntent(a)
  <2>1. a.action \in Actions \ {"OPEN_LONG", "OPEN_SHORT"} /\ Ends(a.action)
    BY <1>3, AnswersAssumption DEF NoIntent, Opening
  <2> QED
    BY <1>1, <2>1, EndsEarly DEF Actions, WorthAnalysing
<1>4. CASE ParseRaises(a)
  BY <1>1, <1>4, EndsEarly DEF ParseRaises, WorthAnalysing
<1>5. CASE Called(a)
  <2>1. a \in Openings
    BY <1>5 DEF Called, Openings
  <2>2. Engine!AccountValid(Account(book))
    BY <1>1, <2>1, CallTypes
  <2>3. call' = CallOf(a, book) /\ pc' = "judge" /\ UNCHANGED <<end, outcome>>
    BY <1>5, <2>2 DEF Called, CallOf
  <2>4. call' \in Calls /\ call' # NoCall
    BY <1>1, <2>1, <2>3, CallIsThere DEF Calls
  <2>5. Stage'
    BY <1>1, <2>3, <2>4 DEF Stage, IInv, NoCall, WorthAnalysing
  <2>6. Verdict'
    BY <1>1, <2>3, <2>4
       DEF IInv, Verdict, NoCall, Judge!Blank, Judge!ApprovalEarned, Judge!Approved,
           Engine!Pending
  <2> QED
    BY <2>5, <2>6 DEF IInv
<1> QED
  BY <1>2, <1>3, <1>4, <1>5

\* The Risk Engine has no reason to answer INVALID_INPUT.
LEMMA InputAccepted ==
  ASSUME NEW c \in Calls
  PROVE  ~Judge!InvalidInput(c.market)
<1>1. PICK a \in Openings, ob \in Readable : c = CallOf(a, ob)
  BY DEF Calls
<1>2. c.market = Market(ob)
  BY <1>1 DEF CallOf
<1>3. {Market(ob).slippage, Market(ob).liquidity, Market(ob).now} \subseteq Nat /\ FeeRate \in Nat
  BY CallTypes, CycleAssumption
<1> QED
  BY <1>2, <1>3 DEF Judge!InvalidInput

LEMMA RejectionsAreCodes ==
  ASSUME NEW t, NEW a, NEW m
  PROVE  "INVALID_INPUT" \notin Judge!Rejections(t, a, m)
<1>1. "INVALID_INPUT" \notin DOMAIN Judge!Breaches(t, a, m)
  BY DEF Judge!Breaches
<1> QED
  BY <1>1 DEF Judge!Rejections

LEMMA JudgedKeeps ==
  ASSUME IInv, Judged
  PROVE  IInv'
<1>1. /\ pc = "judge" /\ call \in Calls /\ call # NoCall /\ outcome = Judge!Pending
      /\ pc' = "done" /\ end' = "judged" /\ Judge!Next
  BY SameEngine DEF Judged, IInv, Stage, Verdict, WorthAnalysing
<1>2. Judge!IInv'
  <2>1. Judge!IInv
    BY <1>1 DEF Judge!IInv, IInv, Verdict
  <2> QED
    BY <1>1, <2>1, JudgeConstants, Judge!NextIInv
<1>3. Judge!Blank'
  BY <1>1, JudgeConstants, Judge!NextBlank DEF IInv, Verdict
<1>4. call' = call /\ "INVALID_INPUT" \notin outcome'.codes
  <2> USE <1>1 DEF Judge!Evaluating, Judge!Rejected, Judge!Pending
  <2>1. CASE Judge!RejectInput
    BY <2>1, InputAccepted DEF Judge!RejectInput
  <2>2. CASE Judge!RejectPlan
    BY <2>2 DEF Judge!RejectPlan
  <2>3. CASE Judge!ContextRaises
    BY <2>3 DEF Judge!ContextRaises
  <2>4. CASE Judge!RejectTrade
    BY <2>4, RejectionsAreCodes DEF Judge!RejectTrade
  <2>5. CASE Judge!RejectSize
    BY <2>5 DEF Judge!RejectSize
  <2>6. CASE Judge!Approve
    BY <2>6 DEF Judge!Approve
  <2>7. CASE Judge!Returned
    BY <2>7 DEF Judge!Returned
  <2> QED
    BY <2>1, <2>2, <2>3, <2>4, <2>5, <2>6, <2>7 DEF Judge!Next
<1>5. Stage'
  BY <1>1, <1>4 DEF Stage, NoCall, WorthAnalysing
<1>6. Verdict'
  BY <1>1, <1>2, <1>3, <1>4 DEF Verdict, Judge!IInv, NoCall
<1> QED
  BY <1>5, <1>6 DEF IInv

LEMMA NextIInv == IInv /\ [Next]_vars => IInv'
<1> SUFFICES ASSUME IInv, [Next]_vars PROVE IInv'
  OBVIOUS
<1>1. ASSUME UNCHANGED <<pc, book, end, call, outcome>> PROVE IInv'
  BY <1>1
     DEF IInv, Stage, Verdict, NoCall, Judge!Blank, Judge!ApprovalEarned, Judge!Approved
<1>2. CASE Open
  BY <1>1, <1>2 DEF Open
<1>3. CASE Trade
  BY <1>1, <1>3 DEF Trade
<1>4. CASE CollectionUnreadable
  <2>1. call = NoCall /\ Ends("raised")
    BY <1>4 DEF CollectionUnreadable, IInv, Stage, WorthAnalysing
  <2> QED
    BY <2>1, EndsEarly DEF WorthAnalysing
<1>5. CASE Collected
  BY <1>5, CollectedKeeps
<1>6. CASE AnalysisRaises
  <2>1. call = NoCall /\ Ends("raised")
    BY <1>6 DEF AnalysisRaises, IInv, Stage, WorthAnalysing
  <2> QED
    BY <2>1, EndsEarly DEF WorthAnalysing
<1>7. CASE Analysed
  BY <1>7, AnalysedKeeps
<1>8. CASE Judged
  BY <1>8, JudgedKeeps
<1>9. CASE Finish
  <2>1. /\ pc' = "idle" /\ end' = "none" /\ call' = NoCall /\ outcome' = Engine!Pending
    BY <1>9 DEF Finish
  <2>2. Stage'
    BY <2>1 DEF Stage, NoCall, WorthAnalysing
  <2>3. Verdict'
    BY <2>1, SameEngine
       DEF Verdict, Judge!Blank, Judge!ApprovalEarned, Judge!Approved, Judge!Pending
  <2> QED
    BY <2>2, <2>3 DEF IInv
<1>10. CASE UNCHANGED vars
  BY <1>1, <1>10 DEF vars
<1> QED
  BY <1>2, <1>3, <1>4, <1>5, <1>6, <1>7, <1>8, <1>9, <1>10 DEF Next

LEMMA Invariance == Spec => []IInv
BY InitIInv, NextIInv, PTL DEF Spec

\* A cycle that reaches the Risk Engine hands it what it accepts: neither does
\* AccountState raise nor evaluate answer INVALID_INPUT, for every book whose
\* sizes are not negative and every answer.
THEOREM AcceptedCorrect == Spec => []AccountAccepted
<1>1. IInv => AccountAccepted
  BY DEF IInv, Stage, Verdict, AccountAccepted
<1> QED
  BY <1>1, Invariance, PTL
-----------------------------------------------------------------------------
(* The estimate of the liquidation *)

\* Half of the way that the leverage allows: q units at price e, bought with at
\* most l times the equity w, lose no more than half of w on that way.
LEMMA HalfTheWay ==
  ASSUME NEW q \in Nat, NEW e \in Nat, NEW l \in Nat \ {0}, NEW w \in Nat,
         q * e <= w * l
  PROVE  /\ e \div (2 * l) \in Nat
         /\ 2 * q * (e \div (2 * l)) <= w
<1> DEFINE d == 2 * l
           move == e \div d
<1>1. d \in Nat \ {0}
  OBVIOUS
<1> HIDE DEF d
<1>2. move \in Nat /\ move * d <= e
  BY <1>1, Judge!DivBounds, JudgeConstants
<1> HIDE DEF move
<1>3. (move * d) * q <= e * q
  BY <1>1, <1>2, Judge!TimesKeeps, JudgeConstants
<1>4. (move * d) * q = (2 * q * move) * l /\ e * q = q * e
  BY <1>1, <1>2, Z3 DEF d
<1>5. (2 * q * move) * l <= w * l
  <2>1. {(2 * q * move) * l, q * e, w * l} \subseteq Int
    BY <1>2
  <2> QED
    BY <1>3, <1>4, <2>1
<1>6. 2 * q * move <= w
  BY <1>2, <1>5, Judge!TimesCancels, JudgeConstants
<1> QED
  BY <1>2, <1>6 DEF move, d

\* A loss that has the parts of CashBack: q units move by g, at most half of w
\* in all, the costs of a way of at least one are within the budget b, and the
\* exit lies no further than g beyond the stop.
LEMMA LossInParts ==
  ASSUME NEW q \in Nat, NEW g \in Nat, NEW w \in Nat, 2 * q * g <= w,
         NEW u \in Nat, NEW f \in Nat, NEW s \in Nat,
         NEW e \in Nat, NEW stop \in Nat, NEW exit \in Nat, exit <= stop + g,
         NEW d \in Nat, NEW b \in Int, q * (d * u + (e + stop) * f + s * u) <= b
  PROVE  2 * (q * g * u + (q * e + q * exit) * f + q * s * u) <= w * u + 2 * b + w * f
<1>1. (2 * q * g) * u <= w * u /\ (2 * q * g) * f <= w * f
  BY Judge!TimesKeeps, JudgeConstants
<1>2. exit * (q * f) <= (stop + g) * (q * f)
  BY Judge!TimesKeeps, JudgeConstants
<1>3. 0 <= q * (d * u)
  BY Judge!TimesType, JudgeConstants
<1>4. q * (d * u + (e + stop) * f + s * u)
        = q * (d * u) + e * (q * f) + stop * (q * f) + q * s * u
  BY Z3
<1>5. /\ (q * e + q * exit) * f = e * (q * f) + exit * (q * f)
      /\ (stop + g) * (q * f) = stop * (q * f) + q * g * f
      /\ (2 * q * g) * u = 2 * (q * g * u)
      /\ (2 * q * g) * f = 2 * (q * g * f)
  BY Z3
<1> DEFINE A == q * g * u  B == q * g * f  C == q * (d * u)  D == e * (q * f)
           E == stop * (q * f)  F == q * s * u  G == exit * (q * f)
           W == w * u  V == w * f  L == (q * e + q * exit) * f
<1>6. {A, B, C, D, E, F, G, W, V} \subseteq Int
  OBVIOUS
<1>7. /\ 2 * A <= W /\ 2 * B <= V /\ G <= E + B /\ 0 <= C
      /\ C + D + E + F <= b /\ L = D + G
  BY <1>1, <1>2, <1>3, <1>4, <1>5
<1> HIDE DEF A, B, C, D, E, F, G, W, V, L
<1>8. 2 * (A + L + F) <= W + 2 * b + V
  BY <1>6, <1>7
<1> QED
  BY <1>8 DEF A, F, L, W, V

\* Were the stop not to work, an approved trade closed at the estimate of its
\* liquidation would cost, both fees and the slippage paid, no more than half
\* the equity, the risk of one trade and half a fee on the equity, for every
\* policy, fee, book and answer.
THEOREM LiquidationCorrect == Spec => []LiquidationHarmless
<1>1. IInv => LiquidationHarmless
  <2> SUFFICES ASSUME IInv, Engine!Approved PROVE LiquidationHarmless
    BY DEF LiquidationHarmless
  <2> DEFINE t == call.intent
             q == outcome.qty
             slip == call.market.slippage
             move == t.entry \div (2 * Policy.maxLeverage)
  <2>1. call \in Calls
    BY DEF IInv, Stage, Verdict, Engine!Approved, Engine!Pending
  <2>2. Judge!IInv /\ Judge!Approved
    BY <2>1, SameEngine DEF IInv, Verdict, Judge!IInv
  <2>3. q \in Nat /\ q * t.entry <= call.account.equity * Policy.maxLeverage
    BY <2>2, JudgeConstants, Judge!CapsHold
  <2>4. Policy.maxLeverage \in Nat \ {0} /\ Policy.maxRisk \in Nat /\ Unit \in Nat
    BY JudgeConstants, Judge!PolicyTypes
  <2>5. PICK a \in Openings, ob \in Readable : call = CallOf(a, ob)
    BY <2>1 DEF Calls
  <2>6. t = Intent(a) /\ call.account.equity = Equity /\ Equity \in Nat
    BY <2>5, CycleAssumption DEF CallOf, Account
  <2>7. /\ Judge!Sound(call)
        /\ Judge!Rejections(t, call.account, call.market) = {}
    BY <2>2, JudgeConstants, Judge!ApprovalFacts DEF Judge!Sizable, Judge!Acceptable, Judge!Validated
  <2>8. /\ t.side \in {"BUY", "SELL"} /\ t.entry \in Nat /\ t.stop \in Nat
        /\ slip \in Nat /\ FeeRate \in Nat /\ Judge!EffectiveFee = FeeRate
        /\ Judge!Distance(t) \in Nat
    BY <2>1, <2>7, JudgeConstants, Judge!ArgumentTypes
  <2>9. /\ Judge!Ordered(t.side, t.stop, t.entry)
        /\ Judge!Ordered(t.side, t.liquidation, t.stop)
    BY <2>7, JudgeConstants, Judge!NoRejection
  <2>10. t.liquidation = IF t.side = "BUY" THEN t.entry - move ELSE t.entry + move
    <3>1. t.side = Opening[a.action] /\ t.entry = a.price
            /\ t.liquidation = EstimateLiquidation(Opening[a.action], a.price)
      BY <2>6 DEF Intent
    <3> QED
      BY <3>1 DEF EstimateLiquidation
  <2>11. move \in Nat /\ 2 * q * move <= Equity
    BY <2>3, <2>4, <2>6, <2>8, HalfTheWay
  <2>12. t.liquidation \in Nat /\ t.liquidation <= t.stop + move
    <3>1. t.liquidation \in Nat
      BY <2>5, CallTypes DEF CallOf, Engine!IntentValid
    <3> HIDE DEF t, move
    <3> QED
      BY <2>8, <2>9, <2>10, <2>11, <3>1 DEF Judge!Ordered
  <2>13. q * (Judge!Distance(t) * Unit + (t.entry + t.stop) * FeeRate + slip * Unit)
           <= Equity * Policy.maxRisk
    BY <2>2, <2>6, <2>8, JudgeConstants, Judge!BudgetHolds DEF Judge!RiskPerUnit
  <2>14. 2 * (q * move * Unit + (q * t.entry + q * t.liquidation) * FeeRate + q * slip * Unit)
           <= Equity * Unit + 2 * (Equity * Policy.maxRisk) + Equity * FeeRate
    <3> HIDE DEF t, move, q, slip
    <3>1. Equity * Policy.maxRisk \in Int
      BY <2>4, <2>6
    <3> QED
      BY <2>3, <2>4, <2>6, <2>8, <2>11, <2>12, <2>13, <3>1, LossInParts
  <2>15. Engine!CashBack(t, call.market, q, t.liquidation)
           = -(q * move * Unit + (q * t.entry + q * t.liquidation) * FeeRate + q * slip * Unit)
    <3> DEFINE in == q * t.entry  out == q * t.liquidation
    <3>1. (IF t.side = "BUY" THEN out - in ELSE in - out) = -(q * move)
      <4> HIDE DEF t, move, q
      <4>1. CASE t.side = "BUY"
        <5>1. t.liquidation = t.entry - move
          BY <2>10, <4>1
        <5> QED
          BY <2>3, <2>8, <2>11, <4>1, <5>1, Z3
      <4>2. CASE t.side # "BUY"
        <5>1. t.liquidation = t.entry + move
          BY <2>10, <4>2
        <5> QED
          BY <2>3, <2>8, <2>11, <4>2, <5>1, Z3
      <4> QED
        BY <4>1, <4>2
    <3>2. Engine!CashBack(t, call.market, q, t.liquidation)
            = (-(q * move)) * Unit - (in + out) * FeeRate - q * slip * Unit
      <4>1. Engine!CashBack(t, call.market, q, t.liquidation)
              = (IF t.side = "BUY" THEN out - in ELSE in - out) * Unit
                  - (in + out) * FeeRate - q * slip * Unit
        BY DEF Engine!CashBack
      <4> HIDE DEF t, move, q, slip, in, out
      <4> QED
        BY <3>1, <4>1, Zenon
    <3> HIDE DEF t, move, q, slip
    <3>3. in \in Int /\ out \in Int /\ q * move \in Int /\ q * slip \in Int
      BY <2>3, <2>8, <2>11, <2>12
    <3>4. \A x \in Int, y \in Int, z \in Int, v \in Int :
            (-x) * v - y - z = -(x * v + y + z)
      BY Z3
    <3> QED
      BY <2>4, <2>8, <3>2, <3>3, <3>4
  <2> DEFINE cash == Engine!CashBack(t, call.market, q, t.liquidation)
             loss == q * move * Unit + (q * t.entry + q * t.liquidation) * FeeRate + q * slip * Unit
  <2>16. loss \in Int /\ cash = -loss
    <3>1. cash = -loss
      BY <2>15
    <3> HIDE DEF t, move, q, slip, cash
    <3> QED
      BY <2>3, <2>4, <2>8, <2>11, <2>12, <3>1
  <2>17. 2 * loss <= Equity * Unit + 2 * (Equity * Policy.maxRisk) + Equity * FeeRate
    BY <2>14
  <2>18. Equity * (Unit + 2 * Policy.maxRisk + FeeRate)
           = Equity * Unit + 2 * (Equity * Policy.maxRisk) + Equity * FeeRate
    BY <2>4, <2>6, <2>8, Z3
  <2> HIDE DEF loss, cash
  <2>19. -2 * cash <= Equity * (Unit + 2 * Policy.maxRisk + FeeRate)
    BY <2>4, <2>6, <2>8, <2>16, <2>17, <2>18
  <2> QED
    BY <2>19 DEF LiquidationHarmless, cash
<1> QED
  BY <1>1, Invariance, PTL
-----------------------------------------------------------------------------
(* The candles *)

Bar == {c \in [high : Prices, low : Prices, close : Prices] : c.close \in c.low .. c.high}

LEMMA MaxOfTwo ==
  ASSUME NEW x \in Int, NEW y \in Int
  PROVE  Max({x, y}) \in {x, y} /\ Max({x, y}) >= x /\ Max({x, y}) >= y
<1>1. \E z \in {x, y} : \A u \in {x, y} : z >= u
  BY x >= y \/ y >= x
<1> QED
  BY <1>1 DEF Max

LEMMA MinOfTwo ==
  ASSUME NEW x \in Int, NEW y \in Int
  PROVE  Min({x, y}) \in {x, y} /\ Min({x, y}) <= x /\ Min({x, y}) <= y
<1>1. \E z \in {x, y} : \A u \in {x, y} : z <= u
  BY x >= y \/ y >= x
<1> QED
  BY <1>1 DEF Min

\* A trade makes a bar of a bar.
LEMMA TradedBar ==
  ASSUME NEW c \in Bar, NEW p \in Prices
  PROVE  Traded(c, p) \in Bar
<1>1. c.high \in Prices /\ c.low \in Prices /\ Prices \subseteq Int
  BY CycleAssumption DEF Bar
<1>2. /\ Max({c.high, p}) \in Prices /\ Max({c.high, p}) >= p
      /\ Min({c.low, p}) \in Prices /\ Min({c.low, p}) <= p
  BY <1>1, MaxOfTwo, MinOfTwo
<1>3. p \in Min({c.low, p}) .. Max({c.high, p})
  BY <1>1, <1>2
<1> QED
  BY <1>2, <1>3 DEF Traded, Bar

LEMMA NewBar ==
  ASSUME NEW p \in Prices
  PROVE  Candle(p) \in Bar
BY CycleAssumption DEF Candle, Bar

\* ds is cs with its last candle changed, or with one more, or with one more
\* and without the oldest: then every candle is one place further left.
Follows(cs, ds, left) ==
  /\ \/ left = 0 /\ Len(ds) \in {Len(cs), Len(cs) + 1}
     \/ left = 1 /\ Len(ds) = Len(cs)
  /\ \A j \in 1 .. (Len(ds) - 1) : ds[j] = cs[j + left]

\* A step of the market changes the last candle or adds one; then the oldest
\* leaves a full series.
LEMMA CandlesMove ==
  ASSUME candles \in Seq(Bar), [Next]_vars, candles' # candles
  PROVE  /\ candles' \in Seq(Bar)
         /\ Follows(candles, candles', IF Len(candles) >= Limit /\ Open THEN 1 ELSE 0)
<1> DEFINE k == Len(candles)
<1>1. k \in Nat /\ Limit \in Nat \ {0}
  BY CycleAssumption
<1>2. CASE Open
  <2>1. PICK p \in Prices : candles' = Newest(Append(candles, Candle(p)))
    BY <1>2 DEF Open
  <2>2. PICK b \in Bar : b = Candle(p)
    BY NewBar
  <2> DEFINE series == Append(candles, b)
  <2> HIDE DEF Bar
  <2>3. series \in Seq(Bar) /\ Len(series) = k + 1 /\ \A j \in 1 .. k : series[j] = candles[j]
    OBVIOUS
  <2>4. candles' = IF k + 1 > Limit THEN Tail(series) ELSE series
    BY <2>1, <2>2, <2>3 DEF Newest
  <2> HIDE DEF series
  <2>5. CASE k >= Limit
    <3>1. series # <<>>
      BY <1>1, <2>3
    <3>2. /\ Tail(series) \in Seq(Bar) /\ Len(Tail(series)) = k
          /\ \A j \in 1 .. k : Tail(series)[j] = series[j + 1]
      BY <1>1, <2>3, <3>1, HeadTailProperties
    <3>3. candles' = Tail(series)
      BY <1>1, <2>4, <2>5
    <3>4. \A j \in 1 .. (k - 1) : candles'[j] = candles[j + 1]
      <4> TAKE j \in 1 .. (k - 1)
      <4>1. j \in 1 .. k /\ j + 1 \in 1 .. k
        BY <1>1
      <4> QED
        BY <2>3, <3>2, <3>3, <4>1
    <3> QED
      BY <1>2, <2>5, <3>2, <3>3, <3>4 DEF Follows
  <2>6. CASE ~(k >= Limit)
    <3>1. candles' = series
      BY <1>1, <2>4, <2>6
    <3>2. \A j \in 1 .. (Len(candles') - 1) : candles'[j] = candles[j + 0]
      BY <1>1, <2>3, <3>1
    <3> QED
      BY <2>3, <2>6, <3>1, <3>2 DEF Follows
  <2> QED
    BY <2>5, <2>6
<1>3. CASE Trade /\ ~Open
  <2>1. PICK p \in Prices :
          candles' = [candles EXCEPT ![Len(candles)] = Traded(candles[Len(candles)], p)]
    BY <1>3 DEF Trade
  <2>2. candles # <<>> /\ Len(candles) \in DOMAIN candles
    BY <1>3 DEF Trade
  <2>3. candles[Len(candles)] \in Bar
    BY <2>2
  <2>4. PICK b \in Bar : b = Traded(candles[Len(candles)], p)
    BY <2>3, TradedBar
  <2>5. candles' = [candles EXCEPT ![Len(candles)] = b]
    BY <2>1, <2>4
  <2> HIDE DEF Bar
  <2>6. /\ candles' \in Seq(Bar) /\ Len(candles') = k
        /\ \A j \in 1 .. k : candles'[j] = IF j = k THEN b ELSE candles[j]
    BY <2>2, <2>4, <2>5, ExceptSeq
  <2>7. \A j \in 1 .. (k - 1) : candles'[j] = candles[j + 0]
    BY <1>1, <2>6
  <2> QED
    BY <1>3, <2>6, <2>7 DEF Follows
<1>4. CASE UNCHANGED candles
  BY <1>4
<1> QED
  BY <1>2, <1>3, <1>4
     DEF Next, vars, CollectionUnreadable, Collected, AnalysisRaises, Analysed, Judged, Finish

LEMMA CandlesCorrect == Spec => [](candles \in Seq(Bar))
<1>1. Init => candles \in Seq(Bar)
  BY DEF Init
<1>2. candles \in Seq(Bar) /\ [Next]_vars => (candles \in Seq(Bar))'
  <2> SUFFICES ASSUME candles \in Seq(Bar), [Next]_vars PROVE candles' \in Seq(Bar)
    OBVIOUS
  <2>1. CASE candles' # candles
    BY <2>1, CandlesMove
  <2>2. CASE candles' = candles
    BY <2>2
  <2> QED
    BY <2>1, <2>2
<1> QED
  BY <1>1, <1>2, PTL DEF Spec

\* Candles are made of prices, the stages of a cycle and what it holds at each
\* belong together, and a decision is one of the Risk Engine's.
THEOREM TypeCorrect == Spec => []TypeOK
<1>1. ASSUME IInv, candles \in Seq(Bar) PROVE TypeOK
  <2>1. \A i \in DOMAIN candles :
          /\ {candles[i].high, candles[i].low, candles[i].close} \subseteq Prices
          /\ candles[i].close \in candles[i].low .. candles[i].high
    <3>1. \A i \in DOMAIN candles : candles[i] \in Bar
      BY <1>1
    <3> QED
      BY <3>1 DEF Bar
  <2>2. Engine!TypeOK
    <3>1. CASE outcome = Engine!Pending
      BY <3>1 DEF Engine!TypeOK, Engine!Pending
    <3>2. CASE outcome # Engine!Pending
      <4>1. Judge!IInv /\ Judge!Blank
        BY <1>1, <3>2 DEF IInv, Stage, Verdict, Judge!IInv
      <4>2. Judge!TypeOK
        BY <4>1, JudgeConstants, Judge!BlankIsTyped
      <4> QED
        BY <4>2, SameEngine
    <3> QED
      BY <3>1, <3>2
  <2> QED
    BY <1>1, <2>1, <2>2 DEF TypeOK, IInv, Stage
<1> QED
  BY <1>1, Invariance, CandlesCorrect, PTL
-----------------------------------------------------------------------------
(* Swings *)

\* In a series that follows another the same candles have a window on both
\* sides, but for the one that has just gained it on its right and the one that
\* has lost it on its left.
LEMMA ConfirmedAgree ==
  ASSUME NEW w \in Nat \ {0}, NEW k \in Nat, NEW n \in Nat, NEW left \in {0, 1},
         \/ left = 0 /\ (n = k \/ n = k + 1)
         \/ left = 1 /\ n = k,
         NEW i \in Int, i # n - w
  PROVE  /\ i \in w + 1 .. n - w =>
              i + left \in w + 1 .. k - w /\ i - w .. i + w \subseteq 1 .. (n - 1)
         /\ i + left \in w + 1 .. k - w /\ i \notin w + 1 .. n - w => i = w /\ left = 1
<1>1. CASE left = 0 /\ n = k
  BY <1>1
<1>2. CASE left = 0 /\ n = k + 1
  BY <1>2
<1>3. CASE left = 1 /\ n = k
  BY <1>3
<1> QED
  BY <1>1, <1>2, <1>3

\* Where a window fits on both sides in both series, the candle is a swing of
\* both or of none.
LEMMA SwingsAgree ==
  ASSUME NEW cs \in Seq(Bar), NEW ds \in Seq(Bar), NEW left \in {0, 1}, Follows(cs, ds, left),
         NEW i \in Int, i # Len(ds) - Window, i \in Confirmed(ds)
  PROVE  /\ i \in Highs(ds) <=> i + left \in Highs(cs)
         /\ i \in Lows(ds) <=> i + left \in Lows(cs)
<1> DEFINE n == Len(ds)
           around == i - Window .. i + Window
<1>1. Window \in Nat \ {0} /\ n \in Nat /\ Len(cs) \in Nat
  BY ReadingAssumption
<1>2. /\ i \in Confirmed(ds) /\ i + left \in Confirmed(cs) /\ i \in Int
      /\ around \subseteq 1 .. (n - 1)
  BY <1>1, ConfirmedAgree DEF Confirmed, Follows
<1>3. \A j \in around : j \in Int /\ ds[j] = cs[j + left]
  BY <1>2 DEF Follows
<1>4. Neighbours(i) \subseteq around /\ i \in around
  BY <1>1 DEF Neighbours
<1>5. /\ \A j \in Neighbours(i) : j + left \in Neighbours(i + left)
      /\ \A j \in Neighbours(i + left) : j - left \in Neighbours(i) /\ (j - left) + left = j
  BY <1>1 DEF Neighbours
<1> HIDE DEF around
<1>6. i \in Highs(ds) <=> i + left \in Highs(cs)
  BY <1>2, <1>3, <1>4, <1>5 DEF Highs
<1>7. i \in Lows(ds) <=> i + left \in Lows(cs)
  BY <1>2, <1>3, <1>4, <1>5 DEF Lows
<1> QED
  BY <1>6, <1>7

\* What is a swing of one of them only
LEMMA SwingsMove ==
  ASSUME NEW cs \in Seq(Bar), NEW ds \in Seq(Bar), NEW left \in {0, 1}, Follows(cs, ds, left),
         NEW i \in Int, i # Len(ds) - Window
  PROVE  /\ i \in Highs(ds) => i + left \in Highs(cs)
         /\ i \in Lows(ds) => i + left \in Lows(cs)
         /\ i + left \in Highs(cs) => i \in Highs(ds) \/ (i = Window /\ left = 1)
         /\ i + left \in Lows(cs) => i \in Lows(ds) \/ (i = Window /\ left = 1)
<1>1. CASE i \in Confirmed(ds)
  <2>1. /\ i \in Highs(ds) <=> i + left \in Highs(cs)
        /\ i \in Lows(ds) <=> i + left \in Lows(cs)
    BY <1>1, SwingsAgree
  <2> QED
    BY <2>1, Zenon
<1>2. CASE i \notin Confirmed(ds)
  <2>1. Window \in Nat \ {0} /\ Len(ds) \in Nat /\ Len(cs) \in Nat
    BY ReadingAssumption
  <2>2. i + left \in Confirmed(cs) => i = Window /\ left = 1
    BY <1>2, <2>1, ConfirmedAgree DEF Confirmed, Follows
  <2> QED
    BY <1>2, <2>2 DEF Highs, Lows
<1> QED
  BY <1>1, <1>2

\* Whatever the market does, only the candle that has exactly the window to its
\* right may become a swing; it may cease to be one too, and so does, when the
\* oldest candle leaves a full series, a swing that loses its left window.
\* Every other swing keeps its candle, for every window, limit and series.
THEOREM SwingsCorrect == Spec => SwingsSettle
<1> DEFINE slid == Len(candles) >= Limit /\ Open
           left == IF slid THEN 1 ELSE 0
           kept(S) == IF slid THEN {i - 1 : i \in S} ELSE S
           confirmed == {Len(candles') - Window}
           forgotten == IF slid THEN {Window} ELSE {}
           settles(S, T) == /\ T \subseteq kept(S) \cup confirmed
                            /\ kept(S) \subseteq T \cup confirmed \cup forgotten
           Settled == /\ settles(Highs(candles), Highs(candles'))
                      /\ settles(Lows(candles), Lows(candles'))
<1>1. ASSUME candles \in Seq(Bar), [Next]_vars, candles' # candles PROVE Settled
  <2>1. candles' \in Seq(Bar) /\ Follows(candles, candles', left)
    BY <1>1, CandlesMove
  <2>2. left \in {0, 1} /\ (left = 1 <=> slid)
    OBVIOUS
  <2>3. \A i \in Int : i # Len(candles') - Window =>
          /\ i \in Highs(candles') => i + left \in Highs(candles)
          /\ i \in Lows(candles') => i + left \in Lows(candles)
          /\ i + left \in Highs(candles) => i \in Highs(candles') \/ (i = Window /\ left = 1)
          /\ i + left \in Lows(candles) => i \in Lows(candles') \/ (i = Window /\ left = 1)
    <3> HIDE DEF left
    <3> QED
      BY <1>1, <2>1, <2>2, SwingsMove
  <2>4. /\ Highs(candles) \subseteq Int /\ Highs(candles') \subseteq Int
        /\ Lows(candles) \subseteq Int /\ Lows(candles') \subseteq Int
    BY DEF Highs, Lows, Confirmed
  <2>5. ASSUME NEW S \in SUBSET Int, NEW T \in SUBSET Int,
               \A i \in Int : i # Len(candles') - Window =>
                 /\ i \in T => i + left \in S
                 /\ i + left \in S => i \in T \/ (i = Window /\ left = 1)
        PROVE  settles(S, T)
    <3>1. CASE slid
      <4>1. \A i \in Int : i + 1 \in S => i \in kept(S)
        <5> TAKE i \in Int
        <5>1. (i + 1) - 1 = i
          OBVIOUS
        <5> QED
          BY <3>1, <5>1
      <4>2. ASSUME NEW i \in kept(S) PROVE i \in Int /\ i + 1 \in S
        <5>1. PICK j \in S : i = j - 1
          BY <3>1
        <5>2. j \in Int /\ (j - 1) + 1 = j
          BY <2>5
        <5> QED
          BY <5>1, <5>2
      <4> HIDE DEF kept, slid
      <4> QED
        BY <2>2, <2>5, <3>1, <4>1, <4>2
    <3>2. CASE ~slid
      <4>1. kept(S) = S /\ left = 0 /\ \A i \in Int : i + left = i
        BY <3>2
      <4> HIDE DEF kept, slid, left
      <4> QED
        BY <2>5, <4>1
    <3> QED
      BY <3>1, <3>2
  <2> HIDE DEF settles, left
  <2> QED
    BY <2>3, <2>4, <2>5
<1>2. SwingsSettle <=> [][Settled]_candles
  BY DEF SwingsSettle
<1>3. ASSUME candles \in Seq(Bar), [Next]_vars PROVE [Settled]_candles
  <2> HIDE DEF Settled
  <2> QED
    BY <1>1, <1>3
<1> HIDE DEF Settled
<1> QED
  BY <1>2, <1>3, CandlesCorrect, PTL DEF Spec
-----------------------------------------------------------------------------
(* The averages of the market turned upside down *)

\* g holds the average of every beginning of the series.
IsEma(g, closes, period) ==
  g = [i \in 1 .. Len(closes) |->
        IF i = 1 THEN [num |-> closes[1], den |-> 1]
        ELSE [num |-> 2 * closes[i] * g[i - 1].den + (period - 1) * g[i - 1].num,
              den |-> (period + 1) * g[i - 1].den]]

LEMMA EmaIsChosen ==
  ASSUME NEW closes, NEW period
  PROVE  Ema(closes, period) = (CHOOSE g : IsEma(g, closes, period))[Len(closes)]
BY DEF Ema, IsEma

\* The recursion of ema is well defined: it has a solution on every beginning.
LEMMA EmaExists ==
  ASSUME NEW closes, NEW period, NEW n \in Nat, Len(closes) = n
  PROVE  \E g : IsEma(g, closes, period)
<1> DEFINE Term(i, before) ==
             IF i = 1 THEN [num |-> closes[1], den |-> 1]
             ELSE [num |-> 2 * closes[i] * before.den + (period - 1) * before.num,
                   den |-> (period + 1) * before.den]
           Solves(g, k) == DOMAIN g = 1 .. k /\ g = [i \in 1 .. k |-> Term(i, g[i - 1])]
           Bad == {k \in 1 .. n : ~ \E g : Solves(g, k)}
<1>1. n = 0 => Solves(<<>>, 0)
  OBVIOUS
<1>2. ASSUME Bad # {} PROVE FALSE
  <2>1. PICK k \in Bad : \A j \in 1 .. (k - 1) : j \notin Bad
    <3>1. Bad \in SUBSET (1 .. n)
      OBVIOUS
    <3> HIDE DEF Bad
    <3> QED
      BY <1>2, <3>1, LeastNumber
  <2>2. k \in 1 .. n /\ ~ \E g : Solves(g, k)
    OBVIOUS
  <2>3. \E g : Solves(g, k - 1)
    <3>1. CASE k = 1
      <4>1. Solves(<<>>, 0)
        OBVIOUS
      <4> QED
        BY <3>1, <4>1
    <3>2. CASE k # 1
      <4>1. k - 1 \in 1 .. n /\ k - 1 \in 1 .. (k - 1)
        BY <2>2, <3>2
      <4> QED
        BY <2>1, <4>1
    <3> QED
      BY <3>1, <3>2
  <2>4. PICK g : Solves(g, k - 1)
    BY <2>3
  <2> DEFINE h == [i \in 1 .. k |-> IF i = k THEN Term(k, g[k - 1]) ELSE g[i]]
  <2>5. \A i \in 1 .. k : h[i] = Term(i, h[i - 1])
    <3> TAKE i \in 1 .. k
    <3>1. CASE i = k
      <4>1. k = 1 \/ h[k - 1] = g[k - 1]
        BY <2>2
      <4>2. k = 1 => Term(k, h[k - 1]) = Term(k, g[k - 1])
        OBVIOUS
      <4> QED
        BY <3>1, <4>1, <4>2
    <3>2. CASE i # k
      <4>1. i \in 1 .. (k - 1) /\ h[i] = g[i]
        BY <2>2, <3>2
      <4>2. g[i] = Term(i, g[i - 1])
        BY <2>4, <4>1
      <4>3. i = 1 \/ h[i - 1] = g[i - 1]
        BY <2>2, <4>1
      <4>4. i = 1 => Term(i, h[i - 1]) = Term(i, g[i - 1])
        OBVIOUS
      <4> QED
        BY <4>1, <4>2, <4>3, <4>4
    <3> QED
      BY <3>1, <3>2
  <2>6. Solves(h, k)
    <3>1. DOMAIN h = 1 .. k /\ h = [i \in 1 .. k |-> h[i]]
      OBVIOUS
    <3> HIDE DEF h, Term
    <3> QED
      BY <2>5, <3>1
  <2> QED
    BY <2>2, <2>6
<1>3. \E g : Solves(g, n)
  <2>1. CASE n = 0
    BY <1>1, <2>1
  <2>2. CASE n # 0
    <3>1. n \in 1 .. n
      BY <2>2
    <3> QED
      BY <1>2, <3>1
  <2> QED
    BY <2>1, <2>2
<1>4. PICK g : Solves(g, n)
  BY <1>3
<1>5. IsEma(g, closes, period)
  BY <1>4 DEF IsEma
<1> QED
  BY <1>5
\* The averages are quotients with a positive denominator.
LEMMA MirroredTerms ==
  ASSUME NEW X \in Int, NEW c \in Int, NEW p \in Nat \ {0}, NEW n \in Int, NEW d \in Nat \ {0}
  PROVE  /\ 2 * c * d + (p - 1) * n \in Int
         /\ (p + 1) * d \in Nat \ {0}
         /\ 2 * (X - c) * d + (p - 1) * (X * d - n)
              = X * ((p + 1) * d) - (2 * c * d + (p - 1) * n)
BY Z3

\* f is e seen in a mirror at half of X.
MirroredAverage(e, f, X) ==
  /\ e.num \in Int /\ e.den \in Nat \ {0}
  /\ f.num = X * e.den - e.num /\ f.den = e.den

\* The average of the mirror image of a series is the mirror image of its
\* average.
LEMMA EmaMirrored ==
  ASSUME NEW X \in Int, NEW period \in Nat \ {0}, NEW n \in Nat \ {0},
         NEW closes, Len(closes) = n, \A i \in 1 .. n : closes[i] \in Int,
         NEW mirror, Len(mirror) = n, \A i \in 1 .. n : mirror[i] = X - closes[i]
  PROVE  MirroredAverage(Ema(closes, period), Ema(mirror, period), X)
<1>1. PICK g : IsEma(g, closes, period) /\ Ema(closes, period) = g[n]
  <2>1. \E g : IsEma(g, closes, period)
    BY EmaExists
  <2> QED
    BY <2>1, EmaIsChosen
<1>2. PICK h : IsEma(h, mirror, period) /\ Ema(mirror, period) = h[n]
  <2>1. \E h : IsEma(h, mirror, period)
    BY EmaExists
  <2> QED
    BY <2>1, EmaIsChosen
<1> DEFINE Fine(i) == /\ g[i].num \in Int /\ g[i].den \in Nat \ {0}
                      /\ h[i].num = X * g[i].den - g[i].num /\ h[i].den = g[i].den
           Bad == {i \in 1 .. n : ~Fine(i)}
<1>3. ASSUME Bad # {} PROVE FALSE
  <2>1. PICK i \in Bad : \A j \in 1 .. (i - 1) : j \notin Bad
    <3>1. Bad \in SUBSET (1 .. n)
      OBVIOUS
    <3> HIDE DEF Bad
    <3> QED
      BY <1>3, <3>1, LeastNumber
  <2>2. i \in 1 .. n /\ ~Fine(i)
    OBVIOUS
  <2>3. CASE i = 1
    <3>1. g[1] = [num |-> closes[1], den |-> 1] /\ h[1] = [num |-> mirror[1], den |-> 1]
      BY <1>1, <1>2, <2>2, <2>3 DEF IsEma
    <3>2. closes[1] \in Int /\ mirror[1] = X - closes[1]
      BY <2>2, <2>3
    <3>3. /\ g[1].num = closes[1] /\ g[1].den = 1
          /\ h[1].num = X - closes[1] /\ h[1].den = 1
      BY <3>1, <3>2
    <3>4. X - closes[1] = X * 1 - closes[1]
      BY <3>2
    <3>5. Fine(1)
      BY <3>2, <3>3, <3>4
    <3> QED
      BY <2>2, <2>3, <3>5
  <2>4. CASE i # 1
    <3> DEFINE c == closes[i]
               gn == g[i - 1].num  gd == g[i - 1].den
               p == period
    <3>1. i - 1 \in 1 .. n /\ i - 1 \in 1 .. (i - 1)
      BY <2>2, <2>4
    <3>2. Fine(i - 1)
      BY <2>1, <3>1
    <3>3. /\ g[i] = [num |-> 2 * closes[i] * g[i - 1].den + (period - 1) * g[i - 1].num,
                     den |-> (period + 1) * g[i - 1].den]
          /\ h[i] = [num |-> 2 * mirror[i] * h[i - 1].den + (period - 1) * h[i - 1].num,
                     den |-> (period + 1) * h[i - 1].den]
      BY <1>1, <1>2, <2>2, <2>4 DEF IsEma
    <3>4. c \in Int /\ mirror[i] = X - c /\ gn \in Int /\ gd \in Nat \ {0}
          /\ p \in Nat \ {0}
      BY <2>2, <3>2
    <3>5. /\ g[i].num = 2 * c * gd + (p - 1) * gn
          /\ g[i].den = (p + 1) * gd
          /\ h[i].num = 2 * (X - c) * gd + (p - 1) * (X * gd - gn)
          /\ h[i].den = (p + 1) * gd
      BY <3>2, <3>3, <3>4
    <3> HIDE DEF c, gn, gd, p
    <3>6. /\ 2 * c * gd + (p - 1) * gn \in Int
          /\ (p + 1) * gd \in Nat \ {0}
          /\ 2 * (X - c) * gd + (p - 1) * (X * gd - gn)
               = X * ((p + 1) * gd) - (2 * c * gd + (p - 1) * gn)
      BY <3>4, MirroredTerms
    <3>7. Fine(i)
      BY <3>5, <3>6
    <3> QED
      BY <2>2, <3>7
  <2> QED
    BY <2>3, <2>4
<1>4. Fine(n)
  <2>1. n \in 1 .. n
    OBVIOUS
  <2> QED
    BY <1>3, <2>1
<1> QED
  BY <1>1, <1>2, <1>4 DEF MirroredAverage

\* Mirrored quotients compare the other way round.
LEMMA MirroredCompare ==
  ASSUME NEW X \in Int, NEW a \in Int, NEW b \in Nat \ {0}, NEW c \in Int, NEW d \in Nat \ {0}
  PROVE  (X * b - a) * d > (X * d - c) * b <=> c * b > a * d
<1>1. (X * b - a) * d = X * b * d - a * d /\ (X * d - c) * b = X * b * d - c * b
  BY Z3
<1>2. {X * b * d, a * d, c * b} \subseteq Int
  OBVIOUS
<1> QED
  BY <1>1, <1>2

LEMMA ExceedsMirrored ==
  ASSUME NEW X \in Int, NEW x, NEW y, NEW mx, NEW my,
         MirroredAverage(x, mx, X), MirroredAverage(y, my, X)
  PROVE  /\ Exceeds(mx, my) <=> Exceeds(y, x)
         /\ ~(Exceeds(x, y) /\ Exceeds(y, x))
<1>1. Exceeds(mx, my) <=> Exceeds(y, x)
  BY MirroredCompare DEF Exceeds, MirroredAverage
<1>2. x.num * y.den \in Int /\ y.num * x.den \in Int
  BY DEF MirroredAverage
<1> QED
  BY <1>1, <1>2 DEF Exceeds

-----------------------------------------------------------------------------
(* The reading of the market turned upside down *)

LEMMA LargestMember ==
  ASSUME NEW S, IsFiniteSet(S), S # {}, S \subseteq Int
  PROVE  \E x \in S : \A y \in S : x >= y
<1> DEFINE Bad == {T \in SUBSET S : T # {} /\ ~ \E x \in T : \A y \in T : x >= y}
<1>1. SUFFICES ASSUME Bad # {} PROVE FALSE
  OBVIOUS
<1>2. PICK T \in Bad : \A U \in SUBSET T : U # T => U \notin Bad
  <2>1. Bad \in SUBSET SUBSET S
    OBVIOUS
  <2> HIDE DEF Bad
  <2> QED
    BY <1>1, <2>1, SmallestMember
<1>3. PICK t \in T : TRUE
  OBVIOUS
<1>4. T \ {t} # {}
  BY <1>2, <1>3
<1>5. PICK x \in T \ {t} : \A y \in T \ {t} : x >= y
  BY <1>2, <1>3, <1>4
<1>6. CASE x >= t
  BY <1>2, <1>5, <1>6
<1>7. CASE ~(x >= t)
  <2>1. \A y \in T : t >= y
    BY <1>2, <1>5, <1>7
  <2> QED
    BY <1>2, <1>3, <2>1
<1> QED
  BY <1>6, <1>7

LEMMA MaxIsMember ==
  ASSUME NEW S, IsFiniteSet(S), S # {}, S \subseteq Int
  PROVE  Max(S) \in S
BY LargestMember DEF Max

LEMMA MinIsMember ==
  ASSUME NEW S, IsFiniteSet(S), S # {}, S \subseteq Int
  PROVE  Min(S) \in S
<1> DEFINE N == {-x : x \in S}
<1>1. IsFiniteSet(N) /\ N # {} /\ N \subseteq Int
  <2>1. N # {} /\ N \subseteq Int
    OBVIOUS
  <2> DEFINE f == [x \in S |-> -x]
  <2>2. f \in Surjection(S, N)
    BY DEF Surjection
  <2> QED
    BY <2>1, <2>2, FS_Surjection
<1>2. PICK z \in N : \A y \in N : z >= y
  BY <1>1, LargestMember
<1>3. \E x \in S : \A y \in S : x <= y
  <2>1. PICK x \in S : z = -x
    OBVIOUS
  <2>2. \A y \in S : x <= y
    BY <1>2, <2>1
  <2> QED
    BY <2>2
<1> QED
  BY <1>3 DEF Min

\* Prices have extremes as soon as there is a candle.
LEMMA ExtremesType ==
  ASSUME NEW cs \in Seq(Bar), cs # <<>>
  PROVE  Extremes \in Int
<1>1. cs[1] \in Bar
  OBVIOUS
<1>2. Prices # {}
  BY <1>1 DEF Bar
<1>3. IsFiniteSet(Prices) /\ Prices \subseteq Int
  BY CycleAssumption
<1>4. Max(Prices) \in Int /\ Min(Prices) \in Int
  BY <1>2, <1>3, MaxIsMember, MinIsMember
<1> QED
  BY <1>4 DEF Extremes

\* A series and its mirror image, candle by candle
Mirrors(cs, ms, n) ==
  /\ Len(cs) = n /\ Len(ms) = n /\ DOMAIN cs = 1 .. n /\ DOMAIN ms = 1 .. n
  /\ Extremes \in Int
  /\ \A i \in 1 .. n :
       /\ {cs[i].high, cs[i].low, cs[i].close} \subseteq Int
       /\ ms[i].high = Extremes - cs[i].low
       /\ ms[i].low = Extremes - cs[i].high
       /\ ms[i].close = Extremes - cs[i].close

LEMMA FlippedMirrors ==
  ASSUME NEW cs \in Seq(Bar), cs # <<>>
  PROVE  Mirrors(cs, Flipped(cs), Len(cs))
<1>1. DOMAIN cs = 1 .. Len(cs) /\ Len(cs) \in Nat /\ \A i \in 1 .. Len(cs) : cs[i] \in Bar
  OBVIOUS
<1>2. \A c \in Bar : {c.high, c.low, c.close} \subseteq Int
  <2>1. Prices \subseteq Int
    BY CycleAssumption
  <2>2. \A c \in Bar : c.high \in Prices /\ c.low \in Prices /\ c.close \in Prices
    BY DEF Bar
  <2> QED
    BY <2>1, <2>2
<1>3. Flipped(cs) = [i \in 1 .. Len(cs) |->
        [high |-> Flip(cs[i].low), low |-> Flip(cs[i].high), close |-> Flip(cs[i].close)]]
  BY <1>1 DEF Flipped
<1>4. Len(Flipped(cs)) = Len(cs) /\ DOMAIN Flipped(cs) = 1 .. Len(cs)
  BY <1>1, <1>3
<1>5. \A i \in 1 .. Len(cs) :
        /\ Flipped(cs)[i].high = Extremes - cs[i].low
        /\ Flipped(cs)[i].low = Extremes - cs[i].high
        /\ Flipped(cs)[i].close = Extremes - cs[i].close
  BY <1>3 DEF Flip
<1> QED
  BY <1>1, <1>2, <1>4, <1>5, ExtremesType DEF Mirrors

\* The highs of one are the lows of the other.
LEMMA SwingsMirrored ==
  ASSUME NEW n \in Nat, NEW cs, NEW ms, Mirrors(cs, ms, n)
  PROVE  /\ Highs(ms) = Lows(cs) /\ Lows(ms) = Highs(cs)
         /\ Highs(cs) \subseteq 1 .. n /\ Lows(cs) \subseteq 1 .. n
<1>1. Confirmed(cs) = Confirmed(ms)
  BY DEF Mirrors, Confirmed
<1>2. \A i \in Confirmed(cs) : i \in 1 .. n /\ Neighbours(i) \subseteq 1 .. n
  <2>1. Window \in Nat
    BY ReadingAssumption
  <2>2. Len(cs) = n
    BY DEF Mirrors
  <2> QED
    BY <2>1, <2>2 DEF Neighbours, Confirmed
<1>3. \A i \in 1 .. n, j \in 1 .. n :
        /\ ms[i].high > ms[j].high <=> cs[i].low < cs[j].low
        /\ ms[i].low < ms[j].low <=> cs[i].high > cs[j].high
  BY DEF Mirrors
<1>4. Highs(ms) = Lows(cs)
  BY <1>1, <1>2, <1>3 DEF Highs, Lows
<1>5. Lows(ms) = Highs(cs)
  BY <1>1, <1>2, <1>3 DEF Highs, Lows
<1>6. Highs(cs) \subseteq 1 .. n /\ Lows(cs) \subseteq 1 .. n
  BY <1>2 DEF Highs, Lows
<1> QED
  BY <1>4, <1>5, <1>6

\* The last two of at least two swings, and the last of any
LEMMA LastSwings ==
  ASSUME NEW n \in Nat, NEW S, S \subseteq 1 .. n
  PROVE  /\ Cardinality(S) \in Nat
         /\ S # {} => LastOf(S) \in 1 .. n
         /\ ~(Cardinality(S) < 2) => LastOf(S) \in 1 .. n /\ LastButOne(S) \in 1 .. n
<1>1. IsFiniteSet(S) /\ S \subseteq Int
  <2>1. IsFiniteSet(1 .. n)
    BY FS_Interval
  <2>2. IsFiniteSet(S)
    BY <2>1, FS_Subset
  <2> QED
    BY <2>2
<1>2. Cardinality(S) \in Nat
  BY <1>1, FS_CardinalityType
<1>3. S # {} => Max(S) \in S
  BY <1>1, MaxIsMember
<1>4. ASSUME ~(Cardinality(S) < 2) PROVE S # {} /\ S \ {Max(S)} # {}
  <2>1. S # {}
    BY <1>4, FS_EmptySet
  <2>2. ASSUME S \ {Max(S)} = {} PROVE FALSE
    <3>1. S = {Max(S)}
      BY <1>3, <2>1, <2>2
    <3>2. Cardinality({Max(S)}) = 1
      BY FS_Singleton
    <3> QED
      BY <1>4, <3>1, <3>2
  <2> QED
    BY <2>1, <2>2
<1>5. ASSUME ~(Cardinality(S) < 2) PROVE Max(S \ {Max(S)}) \in S
  <2>1. IsFiniteSet(S \ {Max(S)}) /\ S \ {Max(S)} \subseteq Int
    BY <1>1, FS_Subset
  <2>2. Max(S \ {Max(S)}) \in S \ {Max(S)}
    BY <1>4, <1>5, <2>1, MaxIsMember
  <2> QED
    BY <2>2
<1> QED
  BY <1>2, <1>3, <1>4, <1>5 DEF LastOf, LastButOne

\* The trend of the mirror image is the opposite one.
LEMMA TrendMirrored ==
  ASSUME NEW n \in Nat, NEW cs, NEW ms, Mirrors(cs, ms, n)
  PROVE  /\ Trend(cs) = Opposite(Trend(ms))
         /\ Trend(ms) = "UP" <=> Trend(cs) = "DOWN"
         /\ Trend(ms) = "DOWN" <=> Trend(cs) = "UP"
<1> DEFINE H == Highs(cs)
           L == Lows(cs)
           few == Cardinality(H) < 2 \/ Cardinality(L) < 2
           up == cs[LastOf(H)].high - cs[LastButOne(H)].high
           lift == cs[LastOf(L)].low - cs[LastButOne(L)].low
           fall == ms[LastOf(L)].high - ms[LastButOne(L)].high
           sink == ms[LastOf(H)].low - ms[LastButOne(H)].low
<1>1. Highs(ms) = L /\ Lows(ms) = H /\ H \subseteq 1 .. n /\ L \subseteq 1 .. n
  BY SwingsMirrored
<1>2. Trend(cs) = IF few THEN "RANGE"
                  ELSE CASE up > 0 /\ lift > 0 -> "UP"
                         [] up < 0 /\ lift < 0 -> "DOWN"
                         [] OTHER -> "RANGE"
  BY DEF Trend
<1>3. Trend(ms) = IF few THEN "RANGE"
                  ELSE CASE fall > 0 /\ sink > 0 -> "UP"
                         [] fall < 0 /\ sink < 0 -> "DOWN"
                         [] OTHER -> "RANGE"
  <2>1. few <=> Cardinality(Highs(ms)) < 2 \/ Cardinality(Lows(ms)) < 2
    BY <1>1
  <2> QED
    BY <1>1, <2>1 DEF Trend
<1>4. Opposite("RANGE") = "RANGE" /\ Opposite("UP") = "DOWN" /\ Opposite("DOWN") = "UP"
  BY DEF Opposite
<1>5. CASE few
  BY <1>2, <1>3, <1>4, <1>5
<1>6. CASE ~few
  <2>1. /\ LastOf(H) \in 1 .. n /\ LastButOne(H) \in 1 .. n
        /\ LastOf(L) \in 1 .. n /\ LastButOne(L) \in 1 .. n
    BY <1>1, <1>6, LastSwings
  <2>2. up \in Int /\ lift \in Int /\ fall = -lift /\ sink = -up
    <3>1. \A i \in 1 .. n, j \in 1 .. n :
            /\ cs[i].high - cs[j].high \in Int
            /\ cs[i].low - cs[j].low \in Int
            /\ ms[i].high - ms[j].high = -(cs[i].low - cs[j].low)
            /\ ms[i].low - ms[j].low = -(cs[i].high - cs[j].high)
      <4>1. \A i \in 1 .. n :
              /\ cs[i].high \in Int /\ cs[i].low \in Int
              /\ ms[i].high = Extremes - cs[i].low /\ ms[i].low = Extremes - cs[i].high
        BY DEF Mirrors
      <4>2. Extremes \in Int
        BY DEF Mirrors
      <4> QED
        BY <4>1, <4>2
    <3> HIDE DEF H, L
    <3> QED
      BY <2>1, <3>1
  <2> HIDE DEF up, lift, fall, sink, few
  <2>3. /\ fall > 0 <=> lift < 0
        /\ fall < 0 <=> lift > 0
        /\ sink > 0 <=> up < 0
        /\ sink < 0 <=> up > 0
        /\ ~(up > 0 /\ up < 0)
    BY <2>2
  <2>4. CASE up > 0 /\ lift > 0
    BY <1>2, <1>3, <1>4, <1>6, <2>3, <2>4
  <2>5. CASE up < 0 /\ lift < 0
    BY <1>2, <1>3, <1>4, <1>6, <2>3, <2>5
  <2>6. CASE ~(up > 0 /\ lift > 0) /\ ~(up < 0 /\ lift < 0)
    BY <1>2, <1>3, <1>4, <1>6, <2>3, <2>6
  <2> QED
    BY <2>4, <2>5, <2>6
<1> QED
  BY <1>5, <1>6

\* A close above the last high is, in the mirror, one below the last low.
LEMMA BreaksMirrored ==
  ASSUME NEW n \in Nat \ {0}, NEW cs, NEW ms, Mirrors(cs, ms, n)
  PROVE  /\ AboveLastHigh(ms) <=> BelowLastLow(cs)
         /\ BelowLastLow(ms) <=> AboveLastHigh(cs)
<1> DEFINE H == Highs(cs)
           L == Lows(cs)
<1>1. Highs(ms) = L /\ Lows(ms) = H /\ H \subseteq 1 .. n /\ L \subseteq 1 .. n
  BY SwingsMirrored
<1>2. LastClose(cs) \in Int /\ LastClose(ms) = Extremes - LastClose(cs) /\ Extremes \in Int
  BY DEF Mirrors, LastClose
<1>3. (H # {} => LastOf(H) \in 1 .. n) /\ (L # {} => LastOf(L) \in 1 .. n)
  BY <1>1, LastSwings
<1> HIDE DEF H, L
<1>4. L # {} => cs[LastOf(L)].low \in Int /\ ms[LastOf(L)].high = Extremes - cs[LastOf(L)].low
  BY <1>3 DEF Mirrors
<1>5. H # {} => cs[LastOf(H)].high \in Int /\ ms[LastOf(H)].low = Extremes - cs[LastOf(H)].high
  BY <1>3 DEF Mirrors
<1>6. AboveLastHigh(ms) <=> BelowLastLow(cs)
  <2>1. AboveLastHigh(ms) <=> L # {} /\ LastClose(ms) > ms[LastOf(L)].high
    BY <1>1 DEF AboveLastHigh
  <2>2. BelowLastLow(cs) <=> L # {} /\ LastClose(cs) < cs[LastOf(L)].low
    BY DEF BelowLastLow, L
  <2> QED
    BY <1>2, <1>4, <2>1, <2>2
<1>7. BelowLastLow(ms) <=> AboveLastHigh(cs)
  <2>1. BelowLastLow(ms) <=> H # {} /\ LastClose(ms) < ms[LastOf(H)].low
    BY <1>1 DEF BelowLastLow
  <2>2. AboveLastHigh(cs) <=> H # {} /\ LastClose(cs) > cs[LastOf(H)].high
    BY DEF AboveLastHigh, H
  <2> QED
    BY <1>2, <1>5, <2>1, <2>2
<1> QED
  BY <1>6, <1>7

LEMMA StructureMirrored ==
  ASSUME NEW n \in Nat \ {0}, NEW cs, NEW ms, Mirrors(cs, ms, n)
  PROVE  /\ Structure(cs).trend = Opposite(Structure(ms).trend)
         /\ \/ /\ Structure(cs).bos = Opposite(Structure(ms).bos)
               /\ Structure(cs).choch = Structure(ms).choch
            \/ AboveLastHigh(cs) /\ BelowLastLow(cs)
<1> DEFINE Bos(above, below) == IF above THEN "BULLISH" ELSE IF below THEN "BEARISH" ELSE "none"
           Turn(t, b) == <<t, b>> \in {<<"UP", "BEARISH">>, <<"DOWN", "BULLISH">>}
           b1 == Bos(AboveLastHigh(cs), BelowLastLow(cs))
           b2 == Bos(AboveLastHigh(ms), BelowLastLow(ms))
<1>1. Opposite("UNKNOWN") = "UNKNOWN" /\ Opposite("none") = "none"
        /\ Opposite("BULLISH") = "BEARISH" /\ Opposite("BEARISH") = "BULLISH"
  BY DEF Opposite
<1>2. Len(cs) = Len(ms)
  BY DEF Mirrors
<1>3. CASE Len(cs) < 2 * Window + 1
  <2>1. Structure(cs) = Unknown /\ Structure(ms) = Unknown
    BY <1>2, <1>3 DEF Structure
  <2> QED
    BY <1>1, <2>1 DEF Unknown
<1>4. CASE ~(Len(cs) < 2 * Window + 1)
  <2>1. /\ Structure(cs) = [trend |-> Trend(cs), bos |-> b1, choch |-> Turn(Trend(cs), b1)]
        /\ Structure(ms) = [trend |-> Trend(ms), bos |-> b2, choch |-> Turn(Trend(ms), b2)]
    BY <1>2, <1>4 DEF Structure
  <2>2. /\ Structure(cs).trend = Trend(cs) /\ Structure(cs).bos = b1
        /\ Structure(cs).choch = Turn(Trend(cs), b1)
        /\ Structure(ms).trend = Trend(ms) /\ Structure(ms).bos = b2
        /\ Structure(ms).choch = Turn(Trend(ms), b2)
    BY <2>1
  <2>3. ASSUME ~(AboveLastHigh(cs) /\ BelowLastLow(cs))
        PROVE  b1 = Opposite(b2) /\ (b1 = "BULLISH" <=> b2 = "BEARISH")
                 /\ (b1 = "BEARISH" <=> b2 = "BULLISH")
    <3>1. /\ AboveLastHigh(ms) <=> BelowLastLow(cs)
          /\ BelowLastLow(ms) <=> AboveLastHigh(cs)
      BY BreaksMirrored
    <3>2. CASE AboveLastHigh(cs)
      BY <1>1, <2>3, <3>1, <3>2
    <3>3. CASE BelowLastLow(cs)
      BY <1>1, <2>3, <3>1, <3>3
    <3>4. CASE ~AboveLastHigh(cs) /\ ~BelowLastLow(cs)
      BY <1>1, <3>1, <3>4
    <3> QED
      BY <3>2, <3>3, <3>4
  <2> HIDE DEF b1, b2
  <2>4. ASSUME ~(AboveLastHigh(cs) /\ BelowLastLow(cs))
        PROVE  Turn(Trend(cs), b1) = Turn(Trend(ms), b2)
    <3>1. \A t, b : Turn(t, b) <=> \/ t = "UP" /\ b = "BEARISH"
                                   \/ t = "DOWN" /\ b = "BULLISH"
      <4> TAKE t, b
      <4>1. /\ <<t, b>> = <<"UP", "BEARISH">> <=> t = "UP" /\ b = "BEARISH"
            /\ <<t, b>> = <<"DOWN", "BULLISH">> <=> t = "DOWN" /\ b = "BULLISH"
        OBVIOUS
      <4>2. Turn(t, b) <=> <<t, b>> = <<"UP", "BEARISH">> \/ <<t, b>> = <<"DOWN", "BULLISH">>
        OBVIOUS
      <4> HIDE DEF Turn
      <4> QED
        BY <4>1, <4>2
    <3>2. Turn(Trend(cs), b1) <=> Turn(Trend(ms), b2)
      BY <2>3, <2>4, <3>1, TrendMirrored
    <3> QED
      BY <3>2
  <2> HIDE DEF Turn
  <2> QED
    BY <2>2, <2>3, <2>4, TrendMirrored
<1> QED
  BY <1>3, <1>4

LEMMA ClosesWhole ==
  ASSUME NEW n \in Nat, NEW cs, NEW ms, Mirrors(cs, ms, n)
  PROVE  SubSeq(Closes(cs), 1, n) = Closes(cs) /\ SubSeq(Closes(ms), 1, n) = Closes(ms)
<1>1. /\ Closes(cs) = [i \in 1 .. n |-> cs[i].close]
      /\ Closes(ms) = [i \in 1 .. n |-> ms[i].close]
  BY DEF Closes, Mirrors
<1>2. \A i \in 1 .. n : cs[i].close \in Int /\ ms[i].close \in Int
  BY DEF Mirrors
<1>3. Closes(cs) \in Seq(Int) /\ Closes(ms) \in Seq(Int)
  BY <1>1, <1>2
<1>4. Len(Closes(cs)) = n /\ Len(Closes(ms)) = n
  BY <1>1
<1>5. \A s \in Seq(Int) : SubSeq(s, 1, Len(s)) = s
  BY SubSeqFull
<1> QED
  BY <1>3, <1>4, <1>5

\* The averages of the mirror image
LEMMA AveragesMirrored ==
  ASSUME NEW n \in Nat, NEW cs, NEW ms, Mirrors(cs, ms, n), n >= MinCandles,
         NEW period \in Nat \ {0}, NEW m \in 1 .. n
  PROVE  MirroredAverage(Ema(SubSeq(Closes(cs), 1, m), period),
                         Ema(SubSeq(Closes(ms), 1, m), period), Extremes)
<1> DEFINE c == SubSeq(Closes(cs), 1, m)
           d == SubSeq(Closes(ms), 1, m)
<1>1. /\ Closes(cs) = [i \in 1 .. n |-> cs[i].close]
      /\ Closes(ms) = [i \in 1 .. n |-> ms[i].close]
  BY DEF Closes, Mirrors
<1>2. Closes(cs) \in Seq(Int) /\ Closes(ms) \in Seq(Int)
  <2>1. \A i \in 1 .. n : cs[i].close \in Int /\ ms[i].close \in Int
    BY DEF Mirrors
  <2> QED
    BY <1>1, <2>1
<1>3. Len(Closes(cs)) = n /\ Len(Closes(ms)) = n
  BY <1>1
<1>4. /\ Len(c) = m /\ Len(d) = m
      /\ \A i \in 1 .. m : c[i] = Closes(cs)[i] /\ d[i] = Closes(ms)[i]
  BY <1>2, <1>3, SubSeqProperties
<1>5. \A i \in 1 .. m : c[i] \in Int /\ d[i] = Extremes - c[i]
  BY <1>1, <1>4 DEF Mirrors
<1>6. Extremes \in Int /\ m \in Nat \ {0}
  BY DEF Mirrors
<1> HIDE DEF c, d
<1>7. MirroredAverage(Ema(c, period), Ema(d, period), Extremes)
  BY <1>4, <1>5, <1>6, EmaMirrored
<1> QED
  BY <1>7 DEF c, d

LEMMA RegimeMirrored ==
  ASSUME NEW n \in Nat, NEW cs, NEW ms, Mirrors(cs, ms, n)
  PROVE  \/ Regime(cs) = Opposite(Regime(ms))
         \/ {Regime(cs), Regime(ms)} \subseteq {"RANGE", "TRANSITION"}
         \/ /\ Len(cs) >= MinCandles
            /\ ~Exceeds(FastNow(cs), FastBefore(cs))
            /\ ~Exceeds(FastBefore(cs), FastNow(cs))
<1> DEFINE slow(x) == Ema(Closes(x), Slow)
           rising(x) == Exceeds(FastNow(x), FastBefore(x))
<1>1. Len(cs) = n /\ Len(ms) = n
  BY DEF Mirrors
<1>2. {MinCandles, Lookback} \subseteq Int /\ Lookback >= 1 /\ MinCandles - Lookback >= 1
  BY ReadingAssumption
<1>3. CASE n < MinCandles
  <2>1. Regime(cs) = "UNKNOWN" /\ Regime(ms) = "UNKNOWN"
    BY <1>1, <1>3 DEF Regime
  <2> QED
    BY <2>1 DEF Opposite
<1>4. CASE ~(n < MinCandles)
  <2>1. /\ MirroredAverage(slow(cs), slow(ms), Extremes)
        /\ MirroredAverage(FastNow(cs), FastNow(ms), Extremes)
        /\ MirroredAverage(FastBefore(cs), FastBefore(ms), Extremes)
    <3>1. /\ n \in 1 .. n /\ n - Lookback \in 1 .. n /\ n >= MinCandles
      BY <1>2, <1>4
    <3>2. SubSeq(Closes(cs), 1, n) = Closes(cs) /\ SubSeq(Closes(ms), 1, n) = Closes(ms)
      BY ClosesWhole
    <3>3. Slow \in Nat \ {0} /\ Fast \in Nat \ {0}
      BY ReadingAssumption
    <3>4. MirroredAverage(slow(cs), slow(ms), Extremes)
      BY <3>1, <3>2, <3>3, AveragesMirrored
    <3>5. MirroredAverage(FastNow(cs), FastNow(ms), Extremes)
      BY <3>1, <3>2, <3>3, AveragesMirrored DEF FastNow
    <3>6. MirroredAverage(FastBefore(cs), FastBefore(ms), Extremes)
      BY <1>1, <3>1, <3>3, AveragesMirrored DEF FastBefore
    <3> QED
      BY <3>4, <3>5, <3>6
  <2>2. Extremes \in Int
    BY DEF Mirrors
  <2>3. /\ Exceeds(FastNow(ms), slow(ms)) <=> Exceeds(slow(cs), FastNow(cs))
        /\ Exceeds(slow(ms), FastNow(ms)) <=> Exceeds(FastNow(cs), slow(cs))
        /\ rising(ms) <=> Exceeds(FastBefore(cs), FastNow(cs))
        /\ ~(rising(cs) /\ Exceeds(FastBefore(cs), FastNow(cs)))
    <3> HIDE DEF slow
    <3> QED
      BY <2>1, <2>2, ExceedsMirrored
  <2>4. \A x \in {cs, ms} :
          Regime(x) = IF Exceeds(FastNow(x), slow(x)) /\ rising(x) THEN "TRENDING_UP"
                      ELSE IF Exceeds(slow(x), FastNow(x)) /\ ~rising(x) THEN "TRENDING_DOWN"
                      ELSE IF Close(FastNow(x), slow(x)) THEN "RANGE" ELSE "TRANSITION"
    BY <1>1, <1>4 DEF Regime
  <2>5. /\ Opposite("TRENDING_UP") = "TRENDING_DOWN"
        /\ Opposite("TRENDING_DOWN") = "TRENDING_UP"
    BY DEF Opposite
  <2>6. ASSUME rising(cs) \/ Exceeds(FastBefore(cs), FastNow(cs))
        PROVE  \/ Regime(cs) = Opposite(Regime(ms))
               \/ {Regime(cs), Regime(ms)} \subseteq {"RANGE", "TRANSITION"}
    <3>1. rising(ms) <=> ~rising(cs)
      BY <2>3, <2>6
    <3> HIDE DEF slow, rising
    <3>2. CASE Exceeds(FastNow(cs), slow(cs)) /\ rising(cs)
      <4>1. Regime(cs) = "TRENDING_UP"
        BY <2>4, <3>2
      <4>2. Regime(ms) = "TRENDING_DOWN"
        BY <2>3, <2>4, <3>1, <3>2
      <4> QED
        BY <2>5, <4>1, <4>2
    <3>3. CASE Exceeds(slow(cs), FastNow(cs)) /\ ~rising(cs)
      <4>1. Regime(cs) = "TRENDING_DOWN"
        BY <2>4, <3>3
      <4>2. Regime(ms) = "TRENDING_UP"
        BY <2>3, <2>4, <3>1, <3>3
      <4> QED
        BY <2>5, <4>1, <4>2
    <3>4. CASE /\ ~(Exceeds(FastNow(cs), slow(cs)) /\ rising(cs))
               /\ ~(Exceeds(slow(cs), FastNow(cs)) /\ ~rising(cs))
      <4>1. Regime(cs) \in {"RANGE", "TRANSITION"}
        BY <2>4, <3>4
      <4>2. Regime(ms) \in {"RANGE", "TRANSITION"}
        BY <2>3, <2>4, <3>1, <3>4
      <4> QED
        BY <4>1, <4>2
    <3> QED
      BY <3>2, <3>3, <3>4
  <2>7. Len(cs) >= MinCandles
    BY <1>1, <1>2, <1>4
  <2> QED
    BY <2>6, <2>7
<1> QED
  BY <1>3, <1>4

\* No comparison of the reading is off by a sign or by an equality: the mirror
\* image of every series of prices is read as the mirror image of its reading,
\* but for the two ties that are broken upwards in both.
THEOREM MirrorCorrect == Spec => []MirrorFair
<1>1. ASSUME candles \in Seq(Bar), candles # <<>> PROVE MirrorFair
  <2> DEFINE ms == Flipped(candles)
             n == Len(candles)
  <2>1. Mirrors(candles, ms, n) /\ n \in Nat \ {0}
    BY <1>1, FlippedMirrors
  <2> HIDE DEF ms
  <2>2. /\ Structure(candles).trend = Opposite(Structure(ms).trend)
        /\ \/ /\ Structure(candles).bos = Opposite(Structure(ms).bos)
              /\ Structure(candles).choch = Structure(ms).choch
           \/ AboveLastHigh(candles) /\ BelowLastLow(candles)
    BY <2>1, StructureMirrored
  <2>3. \/ Regime(candles) = Opposite(Regime(ms))
        \/ {Regime(candles), Regime(ms)} \subseteq {"RANGE", "TRANSITION"}
        \/ /\ Len(candles) >= MinCandles
           /\ ~Exceeds(FastNow(candles), FastBefore(candles))
           /\ ~Exceeds(FastBefore(candles), FastNow(candles))
    BY <2>1, RegimeMirrored
  <2> QED
    BY <2>2, <2>3 DEF MirrorFair, ms
<1>2. candles \in Seq(Bar) => MirrorFair
  BY <1>1 DEF MirrorFair
<1> QED
  BY <1>2, CandlesCorrect, PTL
=============================================================================
