------------------------- MODULE ShadowLoop_proofs ---------------------------
(***************************************************************************)
(* Proofs about ShadowLoop, for every candle, cap, clock and bound:        *)
(*  - the books the loop keeps agree whatever raises in a cycle, and what  *)
(*    the evaluation reads in the log agrees with them;                    *)
(*  - the records follow the candles, and read the same from memory and    *)
(*    from the table;                                                      *)
(*  - the loop polls its scheduler in time, so that what is proved of      *)
(*    CandleScheduler holds of the running loop, and an approval is not    *)
(*    judged on too old a book;                                            *)
(*  - the model is called only while the day's ledger has room, the budget *)
(*    is used as DailyBudget says, and what the provider bills stays       *)
(*    bounded across midnight and restarts.                                *)
(***************************************************************************)
EXTENDS ShadowLoop, Sums, TLAPS

-----------------------------------------------------------------------------
(* The books *)

\* The types the proofs need
Counts ==
  /\ {cycles, analyzed, skipped, errors, totalCost, billed, lives} \subseteq Nat
  /\ invoice \in [Days -> Nat]
  /\ result.cost \in 0 .. MaxCost

\* A result exists only on its way to the log, and only an analysis costs.
ResultOnItsWay ==
  /\ pc # "record" => result = NoResult
  /\ ~result.analyzed => result.cost = 0

\* What the program does not know of the bill, one call for each error, is
\* about one life: a restart forgets what the bill is compared with.
BillInOneLife == lives = 0 => BillKnown

BookInv == Counts /\ ResultOnItsWay /\ StatsBalance /\ BillInOneLife

LEMMA InitBook == Init => BookInv
BY LoopAssumption
   DEF Init, BookInv, Counts, ResultOnItsWay, StatsBalance, BillInOneLife, BillKnown,
       NoResult

\* tick's except, whichever await raised: one more error, nothing else, and what
\* was billed for the cycle is at most one call.
LEMMA RaisingKeeps ==
  ASSUME BookInv, CycleRaises, pc \in {"collect", "analyze", "record"},
         NEW c \in 0 .. MaxCost, billed' = billed + c,
         pc = "record" => c = 0,
         invoice' \in [Days -> Nat]
  PROVE  BookInv'
<1>1. /\ errors' = errors + 1 /\ result' = NoResult /\ pc' = "sleep"
      /\ cycles' = cycles /\ analyzed' = analyzed /\ skipped' = skipped
      /\ totalCost' = totalCost /\ lives' = lives
  BY DEF CycleRaises, schedVars
<1>2. Counts'
  BY <1>1, LoopAssumption DEF BookInv, Counts, NoResult
<1>3. ResultOnItsWay'
  BY <1>1 DEF ResultOnItsWay, NoResult
<1>4. StatsBalance'
  BY <1>1 DEF BookInv, Counts, StatsBalance
<1>5. BillInOneLife'
  <2>1. SUFFICES ASSUME lives = 0 PROVE BillKnown'
    BY <1>1 DEF BillInOneLife
  <2>2. billed - totalCost - result.cost \in 0 .. errors * MaxCost
    BY <2>1 DEF BookInv, BillInOneLife, BillKnown
  <2>3. c + result.cost \in 0 .. MaxCost
    BY LoopAssumption DEF BookInv, Counts, ResultOnItsWay, NoResult
  <2>4. (errors + 1) * MaxCost = errors * MaxCost + MaxCost /\ errors * MaxCost \in Nat
    <3>1. errors \in Nat /\ MaxCost \in Nat
      BY LoopAssumption DEF BookInv, Counts
    <3> QED
      BY <3>1, Z3
  <2>5. billed' - totalCost' - result'.cost = (billed - totalCost - result.cost) + (c + result.cost)
    BY <1>1, <2>3 DEF BookInv, Counts, NoResult
  <2> QED
    BY <1>1, <2>2, <2>3, <2>4, <2>5, LoopAssumption DEF BookInv, Counts, BillKnown
<1> QED
  BY <1>2, <1>3, <1>4, <1>5 DEF BookInv

\* The provider's bill grows by the cost of a call.
LEMMA Billing ==
  ASSUME Counts, NEW c \in 0 .. MaxCost, Bill(c)
  PROVE  billed' = billed + c /\ invoice' \in [Days -> Nat]
<1>1. /\ invoice' = [invoice EXCEPT ![Day(now)] = @ + c]
      /\ billed' = billed + c
  BY DEF Bill
<1>2. invoice \in [Days -> Nat] /\ c \in Nat
  BY LoopAssumption DEF Counts
<1>3. CASE Day(now) \in Days
  <2>1. invoice[Day(now)] + c \in Nat
    BY <1>2, <1>3
  <2> QED
    BY <1>1, <1>2, <2>1
<1>4. CASE Day(now) \notin Days
  BY <1>1, <1>2, <1>4
<1> QED
  BY <1>1, <1>3, <1>4

\* A step that leaves books, result, position in the cycle and bill alone
LEMMA NothingBooked ==
  ASSUME BookInv, UNCHANGED <<cycles, statVars, result, billVars, lives>>,
         pc' \in {"collect", "analyze", "record"} <=> pc \in {"collect", "analyze", "record"},
         pc' # "record" => result = NoResult
  PROVE  BookInv'
BY DEF BookInv, Counts, ResultOnItsWay, StatsBalance, BillInOneLife, BillKnown, statVars,
       billVars

LEMMA NextBook == BookInv /\ [Next]_vars => BookInv'
<1> SUFFICES ASSUME BookInv, [Next]_vars PROVE BookInv'
  OBVIOUS
<1>1. CASE TickHolds
  <2>1. pc = "poll" /\ pc' = "sleep" /\ UNCHANGED <<cycles, statVars, result, billVars, lives>>
    BY <1>1 DEF TickHolds, Sched!Hold
  <2> QED
    BY <2>1, NothingBooked DEF BookInv, ResultOnItsWay
<1>2. CASE TickFires
  <2>1. /\ pc = "poll" /\ pc' = "collect" /\ cycles' = cycles + 1
        /\ UNCHANGED <<statVars, result, billVars, lives>>
    BY <1>2 DEF TickFires, Sched!Fire
  <2> QED
    BY <2>1 DEF BookInv, Counts, ResultOnItsWay, StatsBalance, BillInOneLife, BillKnown,
                statVars, billVars
<1>3. CASE Collect
  <2>1. UNCHANGED <<pc, cycles, statVars, result, billVars, lives>>
    BY <1>3 DEF Collect, schedVars
  <2> QED
    BY <2>1, NothingBooked DEF BookInv, ResultOnItsWay
<1>4. CASE CollectionEnds
  <2>1. /\ pc = "collect" /\ UNCHANGED <<cycles, statVars, billVars, lives>>
        /\ \/ pc' = "record" /\ result' = Skipped
           \/ pc' = "analyze" /\ result' = result
    BY <1>4 DEF CollectionEnds, schedVars
  <2>2. result = NoResult
    BY <2>1 DEF BookInv, ResultOnItsWay
  <2>3. result'.cost = 0 /\ ~result'.analyzed
    BY <2>1, <2>2 DEF Skipped, NoResult
  <2> QED
    BY <2>1, <2>2, <2>3 DEF BookInv, Counts, ResultOnItsWay, StatsBalance, BillInOneLife,
                            BillKnown, statVars, billVars, NoResult
<1>5. CASE CollectionRaises
  <2>1. billed' = billed + 0 /\ invoice' \in [Days -> Nat] /\ pc = "collect" /\ CycleRaises
    BY <1>5 DEF CollectionRaises, billVars, BookInv, Counts
  <2>2. 0 \in 0 .. MaxCost
    BY LoopAssumption
  <2> QED
    BY <2>1, <2>2, RaisingKeeps
<1>6. CASE AnalysisReturns
  <2>1. PICK c \in 0 .. MaxCost, verdict \in {"none", "rejected", "approved"} :
          result' = [analyzed |-> TRUE, cost |-> c, verdict |-> verdict] /\ Bill(c)
    BY <1>6 DEF AnalysisReturns
  <2>2. /\ pc = "analyze" /\ pc' = "record"
        /\ UNCHANGED <<cycles, analyzed, skipped, errors, totalCost, lives>>
    BY <1>6 DEF AnalysisReturns, schedVars, statVars
  <2>3. billed' = billed + c /\ invoice' \in [Days -> Nat]
    BY <2>1, Billing DEF BookInv
  <2>4. result'.cost = c /\ result'.analyzed = TRUE
    BY <2>1
  <2>5. result.cost = 0
    BY <2>2 DEF BookInv, ResultOnItsWay, NoResult
  <2> QED
    BY <2>2, <2>3, <2>4, <2>5, LoopAssumption
       DEF BookInv, Counts, ResultOnItsWay, StatsBalance, BillInOneLife, BillKnown
<1>7. CASE AnalysisRaises
  <2>1. pc = "analyze" /\ CycleRaises
    BY <1>7 DEF AnalysisRaises
  <2>2. PICK c \in 0 .. MaxCost : Bill(c)
    BY <1>7, LoopAssumption DEF AnalysisRaises
  <2> QED
    BY <2>1, <2>2, Billing, RaisingKeeps DEF BookInv
<1>8. CASE RecordRaises
  <2>1. billed' = billed + 0 /\ invoice' \in [Days -> Nat] /\ pc = "record" /\ CycleRaises
    BY <1>8 DEF RecordRaises, billVars, BookInv, Counts
  <2>2. 0 \in 0 .. MaxCost
    BY LoopAssumption
  <2> QED
    BY <2>1, <2>2, RaisingKeeps
<1>9. CASE RecordKept
  <2>1. /\ pc = "record" /\ pc' = "hook" /\ result' = NoResult
        /\ UNCHANGED <<cycles, errors, invoice, billed, lives>>
    BY <1>9 DEF RecordKept, schedVars, billVars
  <2>2. CASE result.analyzed
    <3>1. analyzed' = analyzed + 1 /\ totalCost' = totalCost + result.cost /\ skipped' = skipped
      BY <1>9, <2>2 DEF RecordKept, Spend
    <3> QED
      BY <2>1, <3>1, LoopAssumption
         DEF BookInv, Counts, ResultOnItsWay, StatsBalance, BillInOneLife, BillKnown, NoResult
  <2>3. CASE ~result.analyzed
    <3>1. skipped' = skipped + 1 /\ totalCost' = totalCost /\ analyzed' = analyzed
      BY <1>9, <2>3 DEF RecordKept
    <3> QED
      BY <2>1, <2>3, <3>1, LoopAssumption
         DEF BookInv, Counts, ResultOnItsWay, StatsBalance, BillInOneLife, BillKnown, NoResult
  <2> QED
    BY <2>2, <2>3
<1>10. CASE HookReturns \/ HookRaises \/ Wake
  <2>1. /\ UNCHANGED <<cycles, statVars, result, billVars, lives>>
        /\ {pc, pc'} \cap {"collect", "analyze", "record"} = {}
    BY <1>10 DEF HookReturns, HookRaises, Wake, schedVars
  <2> QED
    BY <2>1, NothingBooked DEF BookInv, ResultOnItsWay
<1>11. CASE Restart
  <2>1. PICK c \in 0 .. MaxCost : Bill(c)
    BY <1>11, LoopAssumption DEF Restart
  <2>2. billed' = billed + c /\ invoice' \in [Days -> Nat]
    BY <2>1, Billing DEF BookInv
  <2>3. /\ pc' = "poll" /\ result' = NoResult /\ lives' = lives + 1
        /\ cycles' = 0 /\ analyzed' = 0 /\ skipped' = 0 /\ errors' = 0 /\ totalCost' = 0
    BY <1>11 DEF Restart
  <2> QED
    BY <2>2, <2>3, LoopAssumption
       DEF BookInv, Counts, ResultOnItsWay, StatsBalance, BillInOneLife, NoResult
<1>12. CASE Advance \/ Over \/ UNCHANGED vars
  <2>1. UNCHANGED <<pc, cycles, statVars, result, billVars, lives>>
    BY <1>12 DEF Advance, Over, vars, schedVars
  <2> QED
    BY <2>1, NothingBooked DEF BookInv, ResultOnItsWay
<1> QED
  BY <1>1, <1>2, <1>3, <1>4, <1>5, <1>6, <1>7, <1>8, <1>9, <1>10, <1>11, <1>12
     DEF Next, Work

LEMMA BookInvariant == Spec => []BookInv
BY InitBook, NextBook, PTL DEF Spec

\* Every cycle is counted once, whichever await it stopped at and however often
\* the process is restarted (tick, loop.py:71-86).
THEOREM StatsCorrect == Spec => []StatsBalance
<1>1. BookInv => StatsBalance
  BY DEF BookInv
<1> QED
  BY <1>1, BookInvariant, PTL

\* Until the process is restarted, what it does not know of its bill is at most
\* one call for each error it counted (loop.py:76-84).
THEOREM BillCorrect == Spec => [](lives = 0 => BillKnown)
<1>1. BookInv => (lives = 0 => BillKnown)
  BY DEF BookInv, BillInOneLife
<1> QED
  BY <1>1, BookInvariant, PTL

-----------------------------------------------------------------------------
(* What the evaluation of the log finds *)

\* The records kept tell what was analysed and what it cost.
KeptRight ==
  /\ \E S : log \in Seq(S)
  /\ \A i \in DOMAIN log : log[i].analyzed \in BOOLEAN /\ log[i].cost \in 0 .. MaxCost

LogInv ==
  BookInv /\ result.analyzed \in BOOLEAN /\ KeptRight /\ (lives = 0 => LogAgrees)

\* The sum the evaluation takes is the sum the lemmas about sums speak of.
LEMMA SameSum ==
  ASSUME NEW fun
  PROVE  Log!SumFunction(fun) = SumFunctionOnSet(fun, DOMAIN fun)
<1>1. Log!SumFunctionOnSet(fun, DOMAIN fun) = (CHOOSE g : IsSum(g, fun, DOMAIN fun))[DOMAIN fun]
  BY DEF Log!SumFunctionOnSet, Log!FoldFunctionOnSet, Log!MapThenFoldSet, IsSum, Taken
<1> QED
  BY <1>1, SumIsChosen DEF Log!SumFunction

\* So is the number of elements it counts.
LEMMA SameCardinality ==
  ASSUME NEW S
  PROVE  Log!Cardinality(S) = Cardinality(S)
BY DEF Log!Cardinality, Cardinality

\* What summarize_decisions says of a history
LEMMA SummaryMeans ==
  ASSUME NEW S, NEW recs \in Seq(S)
  PROVE  LET analysed == {i \in DOMAIN recs : recs[i].analyzed} IN
         /\ IsFiniteSet(DOMAIN recs) /\ IsFiniteSet(analysed)
         /\ Log!Summary(recs).total = Len(recs) /\ Len(recs) \in Nat
         /\ Log!Summary(recs).analyzed = Cardinality(analysed) /\ Cardinality(analysed) \in Nat
         /\ Log!Summary(recs).skipped = Len(recs) - Cardinality(analysed)
         /\ Log!Summary(recs).cost =
              SumFunctionOnSet([i \in DOMAIN recs |-> recs[i].cost], DOMAIN recs)
<1> DEFINE analysed == {i \in DOMAIN recs : recs[i].analyzed}
           costs == [i \in DOMAIN recs |-> recs[i].cost]
<1>1. Len(recs) \in Nat /\ DOMAIN recs = 1 .. Len(recs)
  OBVIOUS
<1>2. IsFiniteSet(DOMAIN recs)
  BY <1>1, FS_Interval
<1>3. IsFiniteSet(analysed) /\ Cardinality(analysed) \in Nat
  BY <1>2, FS_Subset, FS_CardinalityType
<1>4. Log!SumFunction(costs) = SumFunctionOnSet(costs, DOMAIN recs)
  BY SameSum
<1>5. Log!Cardinality(analysed) = Cardinality(analysed)
  BY SameCardinality
<1> QED
  BY <1>1, <1>2, <1>3, <1>4, <1>5 DEF Log!Summary

\* One record more counts once, on the side it belongs to, with its cost.
LEMMA SummaryGrows ==
  ASSUME NEW S, NEW recs \in Seq(S), NEW rec \in S,
         \A i \in DOMAIN recs : recs[i].cost \in Int,
         rec.cost \in Int, rec.analyzed \in BOOLEAN
  PROVE  LET old == Log!Summary(recs)
             new == Log!Summary(Append(recs, rec))
         IN  /\ {old.total, old.analyzed} \subseteq Nat
             /\ {old.skipped, old.cost} \subseteq Int
             /\ new.total = old.total + 1
             /\ new.analyzed = old.analyzed + (IF rec.analyzed THEN 1 ELSE 0)
             /\ new.skipped = old.skipped + (IF rec.analyzed THEN 0 ELSE 1)
             /\ new.cost = old.cost + rec.cost
<1> DEFINE more == Append(recs, rec)
           n == Len(recs)
           analysed == {i \in DOMAIN recs : recs[i].analyzed}
           costs == [i \in DOMAIN recs |-> recs[i].cost]
           Analysed == {i \in DOMAIN more : more[i].analyzed}
           Costs == [i \in DOMAIN more |-> more[i].cost]
<1>1. /\ more \in Seq(S) /\ n \in Nat /\ Len(more) = n + 1
      /\ DOMAIN recs = 1 .. n /\ DOMAIN more = 1 .. (n + 1)
      /\ \A i \in DOMAIN recs : more[i] = recs[i]
      /\ more[n + 1] = rec
  OBVIOUS
<1> HIDE DEF more, n
<1>2. n + 1 \notin DOMAIN recs /\ DOMAIN more = DOMAIN recs \cup {n + 1}
  BY <1>1
<1>3. /\ IsFiniteSet(DOMAIN recs) /\ IsFiniteSet(analysed)
      /\ Log!Summary(recs).total = n
      /\ Log!Summary(recs).analyzed = Cardinality(analysed) /\ Cardinality(analysed) \in Nat
      /\ Log!Summary(recs).skipped = n - Cardinality(analysed)
      /\ Log!Summary(recs).cost = SumFunctionOnSet(costs, DOMAIN recs)
  BY SummaryMeans DEF n
<1>4. /\ Log!Summary(more).total = n + 1
      /\ Log!Summary(more).analyzed = Cardinality(Analysed)
      /\ Log!Summary(more).skipped = (n + 1) - Cardinality(Analysed)
      /\ Log!Summary(more).cost = SumFunctionOnSet(Costs, DOMAIN more)
  BY <1>1, SummaryMeans
<1>5. Cardinality(Analysed) = Cardinality(analysed) + (IF rec.analyzed THEN 1 ELSE 0)
  <2>1. CASE rec.analyzed
    <3>1. Analysed = analysed \cup {n + 1} /\ n + 1 \notin analysed
      BY <1>1, <1>2, <2>1
    <3>2. IsFiniteSet(analysed) /\ Cardinality(analysed) \in Nat
      BY <1>3
    <3> HIDE DEF analysed, Analysed
    <3>3. Cardinality(analysed \cup {n + 1}) = Cardinality(analysed) + 1
      BY <3>1, <3>2, FS_AddElement
    <3> QED
      BY <2>1, <3>1, <3>3
  <2>2. CASE ~rec.analyzed
    <3>1. Analysed = analysed
      BY <1>1, <1>2, <2>2
    <3>2. Cardinality(analysed) \in Nat
      BY <1>3
    <3> HIDE DEF analysed, Analysed
    <3> QED
      BY <2>2, <3>1, <3>2
  <2> QED
    BY <2>1, <2>2
<1>6. /\ SumFunctionOnSet(costs, DOMAIN recs) \in Int
      /\ SumFunctionOnSet(Costs, DOMAIN more) = SumFunctionOnSet(costs, DOMAIN recs) + rec.cost
  <2>1. \A i \in DOMAIN recs : costs[i] \in Int /\ Costs[i] = costs[i]
    BY <1>1, <1>2
  <2>2. Costs[n + 1] = rec.cost
    BY <1>1, <1>2
  <2> HIDE DEF costs, Costs
  <2>3. \A i \in DOMAIN recs \cup {n + 1} : Costs[i] \in Int
    BY <2>1, <2>2
  <2>4. SumFunctionOnSet(Costs, DOMAIN recs) = SumFunctionOnSet(costs, DOMAIN recs)
    BY <1>3, <2>1, SumSame
  <2>5. SumFunctionOnSet(Costs, DOMAIN recs \cup {n + 1})
          = SumFunctionOnSet(Costs, DOMAIN recs) + Costs[n + 1]
    BY <1>2, <1>3, <2>3, SumAdd
  <2> QED
    BY <1>2, <1>3, <2>1, <2>2, <2>4, <2>5, SumIsInt
<1> HIDE DEF analysed, Analysed, costs, Costs
<1> QED
  BY <1>1, <1>3, <1>4, <1>5, <1>6 DEF more

LEMMA InitLog == Init => LogInv
<1> SUFFICES ASSUME Init PROVE LogInv
  OBVIOUS
<1>1. log = <<>> /\ log \in Seq(Nat) /\ DOMAIN log = {} /\ Len(log) = 0
  BY DEF Init, Log!Init
<1>2. /\ result = NoResult
      /\ analyzed = 0 /\ skipped = 0 /\ errors = 0 /\ totalCost = 0
  BY DEF Init
<1>3. Cardinality({i \in DOMAIN log : log[i].analyzed}) = 0
  BY <1>1, FS_EmptySet
<1>4. /\ Log!Summary(log).total = 0 /\ Log!Summary(log).analyzed = 0
      /\ Log!Summary(log).skipped = 0 /\ Log!Summary(log).cost = 0
  <2> DEFINE analysed == {i \in DOMAIN log : log[i].analyzed}
             costs == [i \in DOMAIN log |-> log[i].cost]
  <2>1. SumFunctionOnSet(costs, DOMAIN log) = 0
    BY <1>1, SumEmpty
  <2>2. /\ Log!Summary(log).total = Len(log)
        /\ Log!Summary(log).analyzed = Cardinality(analysed)
        /\ Log!Summary(log).skipped = Len(log) - Cardinality(analysed)
        /\ Log!Summary(log).cost = SumFunctionOnSet(costs, DOMAIN log)
    BY <1>1, SummaryMeans
  <2>3. Cardinality(analysed) = 0
    BY <1>3
  <2> HIDE DEF analysed, costs
  <2> QED
    BY <1>1, <2>1, <2>2, <2>3
<1>5. LogAgrees
  <2>1. 0 * MaxCost = 0
    BY LoopAssumption
  <2> QED
    BY <1>2, <1>4, <2>1 DEF LogAgrees
<1> QED
  BY <1>1, <1>2, <1>5, InitBook DEF LogInv, KeptRight, NoResult

\* A step that leaves log, statistics and lives alone
LEMMA NothingKept ==
  ASSUME LogInv, UNCHANGED <<log, analyzed, skipped, errors, totalCost, lives>>,
         result'.analyzed \in BOOLEAN
  PROVE  BookInv' => LogInv'
<1>1. KeptRight'
  BY DEF LogInv, KeptRight
<1>2. lives = 0 => LogAgrees'
  <2>1. Log!Summary(log)' = Log!Summary(log)
    BY DEF Log!Summary, Log!SumFunction, Log!SumFunctionOnSet, Log!FoldFunctionOnSet,
           Log!MapThenFoldSet
  <2> QED
    BY <2>1 DEF LogInv, LogAgrees
<1> QED
  BY <1>1, <1>2 DEF LogInv

\* tick's except, with nothing kept of the cycle
LEMMA ErrorAlone ==
  ASSUME LogInv, CycleRaises, UNCHANGED log
  PROVE  BookInv' => LogInv'
<1>1. /\ errors' = errors + 1 /\ result' = NoResult
      /\ UNCHANGED <<analyzed, skipped, totalCost, lives>>
  BY DEF CycleRaises
<1>2. KeptRight' /\ result'.analyzed \in BOOLEAN
  BY <1>1 DEF LogInv, KeptRight, NoResult
<1>3. lives = 0 => LogAgrees'
  <2> SUFFICES ASSUME lives = 0 PROVE LogAgrees'
    OBVIOUS
  <2>1. Log!Summary(log)' = Log!Summary(log)
    BY DEF Log!Summary, Log!SumFunction, Log!SumFunctionOnSet, Log!FoldFunctionOnSet,
           Log!MapThenFoldSet
  <2>2. {analyzed, skipped, errors} \subseteq Nat
    BY DEF LogInv, BookInv, Counts
  <2>3. PICK S : log \in Seq(S)
    BY DEF LogInv, KeptRight
  <2>4. Log!Summary(log).total \in Nat
    BY <2>3, SummaryMeans
  <2> QED
    BY <1>1, <2>1, <2>2, <2>4 DEF LogInv, LogAgrees
<1> QED
  BY <1>1, <1>2, <1>3 DEF LogInv

\* The record is kept: the cycle is counted as what it was, or as an error.
LEMMA RecordAgrees ==
  ASSUME LogInv, pc = "record", Log!Record(Entry), lives' = lives, result' = NoResult,
         \/ /\ errors' = errors /\ totalCost' = totalCost + result.cost
            /\ analyzed' = analyzed + (IF result.analyzed THEN 1 ELSE 0)
            /\ skipped' = skipped + (IF result.analyzed THEN 0 ELSE 1)
         \/ errors' = errors + 1 /\ UNCHANGED <<analyzed, skipped, totalCost>>
  PROVE  BookInv' => LogInv'
<1>1. PICK S : log \in Seq(S)
  BY DEF LogInv, KeptRight
<1> DEFINE T == S \cup {Entry}
<1>2. log \in Seq(T) /\ Entry \in T /\ log' = Append(log, Entry)
  BY <1>1 DEF Log!Record
<1>3. Entry.analyzed = result.analyzed /\ Entry.cost = result.cost
  BY DEF Entry
<1>4. result.analyzed \in BOOLEAN /\ result.cost \in 0 .. MaxCost
  BY DEF LogInv, BookInv, Counts
<1> HIDE DEF T
<1>5. /\ log' \in Seq(T)
      /\ DOMAIN log = 1 .. Len(log) /\ DOMAIN log' = 1 .. Len(log) + 1 /\ Len(log) \in Nat
      /\ \A i \in DOMAIN log : log'[i] = log[i]
      /\ log'[Len(log) + 1] = Entry
  BY <1>2
<1>6. KeptRight'
  <2>1. ASSUME NEW i \in DOMAIN log'
        PROVE  log'[i].analyzed \in BOOLEAN /\ log'[i].cost \in 0 .. MaxCost
    <3>1. CASE i \in DOMAIN log
      BY <1>5, <3>1 DEF LogInv, KeptRight
    <3>2. CASE i = Len(log) + 1
      BY <1>3, <1>4, <1>5, <3>2
    <3> QED
      BY <1>5, <3>1, <3>2
  <2> QED
    BY <1>5, <2>1 DEF KeptRight
<1>7. ASSUME lives = 0 PROVE LogAgrees'
  <2> DEFINE old == Log!Summary(log)
             new == Log!Summary(Append(log, Entry))
             Slack == (old.analyzed - analyzed) * MaxCost
             Slack1 == (new.analyzed - analyzed') * MaxCost
  <2>1. \A i \in DOMAIN log : log[i].cost \in Int
    BY LoopAssumption DEF LogInv, KeptRight
  <2>2. Entry.cost \in Int /\ Entry.analyzed \in BOOLEAN
    BY <1>3, <1>4, LoopAssumption
  <2>3. /\ {old.total, old.analyzed} \subseteq Nat
        /\ {old.skipped, old.cost} \subseteq Int
        /\ new.total = old.total + 1
        /\ new.analyzed = old.analyzed + (IF result.analyzed THEN 1 ELSE 0)
        /\ new.skipped = old.skipped + (IF result.analyzed THEN 0 ELSE 1)
        /\ new.cost = old.cost + result.cost
    BY <1>2, <1>3, <2>1, <2>2, SummaryGrows
  <2>4. Log!Summary(log)' = new
    BY <1>2 DEF Log!Summary, Log!SumFunction, Log!SumFunctionOnSet, Log!FoldFunctionOnSet,
                Log!MapThenFoldSet
  <2>5. /\ {analyzed, skipped, errors, totalCost} \subseteq Nat
        /\ ~result.analyzed => result.cost = 0
    BY DEF LogInv, BookInv, Counts, ResultOnItsWay
  <2>6. /\ old.analyzed >= analyzed /\ old.skipped >= skipped
        /\ old.total - (analyzed + skipped) <= errors
        /\ old.cost - totalCost \in 0 .. Slack
    BY <1>7 DEF LogInv, LogAgrees
  <2>7. Slack \in Int
    BY <2>3, <2>5, LoopAssumption
  <2> SUFFICES /\ new.analyzed >= analyzed' /\ new.skipped >= skipped'
               /\ new.total - (analyzed' + skipped') <= errors'
               /\ new.cost - totalCost' \in 0 .. Slack1
    BY <2>4 DEF LogAgrees
  <2>8. CASE /\ errors' = errors /\ totalCost' = totalCost + result.cost
             /\ analyzed' = analyzed + (IF result.analyzed THEN 1 ELSE 0)
             /\ skipped' = skipped + (IF result.analyzed THEN 0 ELSE 1)
    <3>1. Slack1 = Slack
      <4>1. new.analyzed - analyzed' = old.analyzed - analyzed
        BY <2>3, <2>5, <2>8
      <4> QED
        BY <4>1
    <3> HIDE DEF old, new, Slack, Slack1
    <3> QED
      BY <1>4, <2>3, <2>5, <2>6, <2>7, <2>8, <3>1, LoopAssumption
  <2>9. CASE errors' = errors + 1 /\ UNCHANGED <<analyzed, skipped, totalCost>>
    <3>1. Slack1 = Slack + (IF result.analyzed THEN MaxCost ELSE 0)
      <4> DEFINE x == old.analyzed - analyzed
      <4>1. x \in Int /\ MaxCost \in Int
        BY <2>3, <2>5, LoopAssumption
      <4>2. new.analyzed - analyzed' = x + (IF result.analyzed THEN 1 ELSE 0)
        BY <2>3, <2>5, <2>9
      <4> HIDE DEF x
      <4>3. (x + 1) * MaxCost = x * MaxCost + MaxCost /\ (x + 0) * MaxCost = x * MaxCost
            /\ x * MaxCost \in Int
        BY <4>1, Z3
      <4>4. Slack = x * MaxCost
        BY DEF x
      <4> QED
        BY <4>1, <4>2, <4>3, <4>4
    <3> HIDE DEF old, new, Slack, Slack1
    <3> QED
      BY <1>4, <2>3, <2>5, <2>6, <2>7, <2>9, <3>1, LoopAssumption
  <2> QED
    BY <2>8, <2>9
<1> QED
  BY <1>6, <1>7 DEF LogInv, NoResult

LEMMA NextLog == LogInv /\ [Next]_vars => LogInv'
<1> SUFFICES ASSUME LogInv, [Next]_vars PROVE LogInv'
  OBVIOUS
<1>1. BookInv'
  BY NextBook DEF LogInv
<1>2. CASE TickHolds \/ TickFires \/ Collect \/ HookReturns \/ HookRaises \/ Wake
             \/ Advance \/ Over \/ UNCHANGED vars
  <2>1. UNCHANGED <<log, analyzed, skipped, errors, totalCost, lives, result>>
    BY <1>2 DEF TickHolds, TickFires, Collect, HookReturns, HookRaises, Wake, Advance, Over,
                vars, statVars
  <2> QED
    BY <1>1, <2>1, NothingKept DEF LogInv
<1>3. CASE CollectionEnds
  <2>1. /\ UNCHANGED <<log, analyzed, skipped, errors, totalCost, lives>>
        /\ result' = result \/ result' = Skipped
    BY <1>3 DEF CollectionEnds, statVars
  <2>2. result'.analyzed \in BOOLEAN
    <3>1. CASE result' = result
      BY <3>1 DEF LogInv
    <3>2. CASE result' = Skipped
      BY <3>2 DEF Skipped
    <3> QED
      BY <2>1, <3>1, <3>2
  <2> QED
    BY <1>1, <2>1, <2>2, NothingKept
<1>4. CASE AnalysisReturns
  <2>1. PICK c \in 0 .. MaxCost, verdict \in {"none", "rejected", "approved"} :
          result' = [analyzed |-> TRUE, cost |-> c, verdict |-> verdict]
    BY <1>4 DEF AnalysisReturns
  <2>2. UNCHANGED <<log, analyzed, skipped, errors, totalCost, lives>>
    BY <1>4 DEF AnalysisReturns, statVars
  <2>3. result'.analyzed \in BOOLEAN
    BY <2>1
  <2> QED
    BY <1>1, <2>2, <2>3, NothingKept
<1>5. CASE CollectionRaises \/ AnalysisRaises
  <2>1. CycleRaises /\ UNCHANGED log
    BY <1>5 DEF CollectionRaises, AnalysisRaises
  <2> QED
    BY <1>1, <2>1, ErrorAlone
<1>6. CASE RecordRaises
  <2>1. pc = "record" /\ CycleRaises /\ (UNCHANGED log \/ Log!Record(Entry))
    BY <1>6 DEF RecordRaises, Log!RecordRaises
  <2>2. /\ errors' = errors + 1 /\ UNCHANGED <<analyzed, skipped, totalCost, lives>>
        /\ result' = NoResult
    BY <2>1 DEF CycleRaises
  <2> QED
    BY <1>1, <2>1, <2>2, ErrorAlone, RecordAgrees
<1>7. CASE RecordKept
  <2>1. /\ pc = "record" /\ Log!Record(Entry) /\ result' = NoResult
        /\ UNCHANGED <<lives, errors>>
        /\ IF result.analyzed
           THEN /\ analyzed' = analyzed + 1 /\ totalCost' = totalCost + result.cost
                /\ skipped' = skipped
           ELSE /\ skipped' = skipped + 1 /\ totalCost' = totalCost
                /\ analyzed' = analyzed
    BY <1>7 DEF RecordKept, Spend
  <2>2. /\ {analyzed, skipped, totalCost} \subseteq Nat
        /\ ~result.analyzed => result.cost = 0
    BY DEF LogInv, BookInv, Counts, ResultOnItsWay
  <2>3. /\ totalCost' = totalCost + result.cost
        /\ analyzed' = analyzed + (IF result.analyzed THEN 1 ELSE 0)
        /\ skipped' = skipped + (IF result.analyzed THEN 0 ELSE 1)
    BY <2>1, <2>2
  <2> QED
    BY <1>1, <2>1, <2>3, RecordAgrees
<1>8. CASE Restart
  <2>1. log' = log /\ lives' = lives + 1 /\ result' = NoResult /\ lives \in Nat
    BY <1>8 DEF Restart, LogInv, BookInv, Counts
  <2>2. KeptRight'
    BY <2>1 DEF LogInv, KeptRight
  <2> QED
    BY <1>1, <2>1, <2>2 DEF LogInv, NoResult
<1> QED
  BY <1>2, <1>3, <1>4, <1>5, <1>6, <1>7, <1>8 DEF Next, Work

\* Until the process is restarted, the evaluation of the log finds what the loop
\* counted, except that cycles whose record was kept and which failed all the
\* same are errors of the loop and no error of the log; their number and their
\* cost are bounded by the errors (loop.py:76-86, evaluation.py:36-43).
THEOREM LogCorrect == Spec => [](lives = 0 => LogAgrees)
<1>1. LogInv => (lives = 0 => LogAgrees)
  BY DEF LogInv
<1> QED
  BY <1>1, InitLog, NextLog, PTL DEF Spec

-----------------------------------------------------------------------------
(* Candles *)

\* The instants and candles the proofs about order need.  A log is a sequence
\* of something: what its entries hold besides their candle does not matter.
Clocks ==
  /\ {now, polled, lives} \subseteq Nat
  /\ polled <= now
  /\ lastFired \in Nat \cup {Sched!NoClose}
  /\ lastFired <= Sched!LastClose(now)
  /\ \E S : log \in Seq(S)
  /\ \A i \in DOMAIN log : log[i].candle \in Int

\* While the candle of a cycle is not recorded yet, every record is of an
\* older one; afterwards none is of a newer one.
RecordsBehind ==
  \A i \in DOMAIN log :
    /\ log[i].candle <= lastFired
    /\ pc \in {"collect", "analyze", "record"} => log[i].candle < lastFired

OrderInv == Clocks /\ (lives = 0 => RecordsBehind /\ LogInCandleOrder)

LEMMA CloseBounds ==
  ASSUME NEW t \in Nat
  PROVE  /\ t \div Interval \in Nat
         /\ Sched!LastClose(t) \in Nat
         /\ Sched!LastClose(t) <= t
         /\ t < Sched!LastClose(t) + Interval
<1>1. Interval \in Nat \ {0}
  BY LoopAssumption
<1> QED
  BY <1>1, Z3 DEF Sched!LastClose

\* A larger factor makes a multiple larger by an Interval at least.
LEMMA MultiplesApart ==
  ASSUME NEW j \in Nat, NEW k \in Nat, j < k
  PROVE  j * Interval + Interval <= k * Interval
<1>1. PICK d \in Nat : k = j + 1 + d
  <2>1. k - j - 1 \in Nat /\ k = j + 1 + (k - j - 1)
    OBVIOUS
  <2> QED
    BY <2>1
<1>2. Interval \in Nat
  BY LoopAssumption
<1>3. k * Interval = j * Interval + Interval + d * Interval
  BY <1>1, <1>2, Z3
<1>4. d * Interval \in Nat /\ j * Interval \in Nat
  BY <1>2, Z3
<1> QED
  BY <1>2, <1>3, <1>4

\* The newest close does not recede while the clock advances.
LEMMA CloseAdvances ==
  ASSUME NEW t \in Nat
  PROVE  Sched!LastClose(t) <= Sched!LastClose(t + 1)
<1> DEFINE j == (t + 1) \div Interval
           k == t \div Interval
<1>1. /\ k \in Nat /\ k * Interval \in Nat /\ k * Interval <= t
      /\ j \in Nat /\ j * Interval \in Nat /\ t + 1 < j * Interval + Interval
  BY CloseBounds DEF Sched!LastClose
<1>2. Sched!LastClose(t) = k * Interval /\ Sched!LastClose(t + 1) = j * Interval
  BY DEF Sched!LastClose
<1> HIDE DEF j, k
<1>3. CASE j < k
  BY <1>1, <1>3, MultiplesApart, LoopAssumption
<1>4. CASE j = k
  BY <1>1, <1>2, <1>4
<1>5. CASE k < j
  <2>1. k * Interval + Interval <= j * Interval
    BY <1>1, <1>5, MultiplesApart
  <2> QED
    BY <1>1, <1>2, <2>1, LoopAssumption
<1> QED
  BY <1>1, <1>3, <1>4, <1>5

LEMMA InitOrder == Init => OrderInv
<1> SUFFICES ASSUME Init PROVE OrderInv
  OBVIOUS
<1>1. now \in Nat /\ polled = now /\ lives = 0 /\ lastFired = Sched!NoClose /\ log = <<>>
  BY LoopAssumption DEF Init, Log!Init
<1>2. Sched!LastClose(now) \in Nat
  BY <1>1, CloseBounds
<1>3. log \in Seq(Nat) /\ DOMAIN log = {}
  BY <1>1
<1> QED
  BY <1>1, <1>2, <1>3
     DEF OrderInv, Clocks, RecordsBehind, LogInCandleOrder, Sched!NoClose

\* The record of this cycle goes behind the records of older candles.
LEMMA RecordOrdered ==
  ASSUME OrderInv, Log!Record(Entry), pc = "record",
         UNCHANGED <<now, polled, lives, lastFired>>,
         pc' \notin {"collect", "analyze", "record"}
  PROVE  OrderInv'
<1>1. PICK S : log \in Seq(S)
  BY DEF OrderInv, Clocks
<1> DEFINE T == S \cup {Entry}
<1>2. log \in Seq(T) /\ Entry \in T /\ log' = Append(log, Entry)
  BY <1>1 DEF Log!Record
<1>3. Entry.candle = lastFired
  BY DEF Entry
<1> HIDE DEF T
<1>4. /\ log' \in Seq(T)
      /\ Len(log) \in Nat /\ DOMAIN log = 1 .. Len(log) /\ DOMAIN log' = 1 .. Len(log) + 1
      /\ \A i \in DOMAIN log : log'[i] = log[i]
      /\ log'[Len(log) + 1] = Entry
  BY <1>2
<1>5. lastFired \in Int /\ Sched!NoClose \in Int
  BY DEF OrderInv, Clocks, Sched!NoClose
<1>6. \A i \in DOMAIN log' : i \in DOMAIN log \/ i = Len(log) + 1
  BY <1>4
<1>7. \A i \in DOMAIN log' : log'[i].candle \in Int
  BY <1>3, <1>4, <1>5, <1>6 DEF OrderInv, Clocks
<1>8. Clocks'
  BY <1>4, <1>7 DEF OrderInv, Clocks, Sched!LastClose, Sched!NoClose
<1>9. ASSUME lives = 0 PROVE RecordsBehind' /\ LogInCandleOrder'
  <2>1. \A i \in DOMAIN log : log[i].candle < lastFired /\ log[i].candle \in Int
    BY <1>9 DEF OrderInv, RecordsBehind, Clocks
  <2>2. RecordsBehind'
    BY <1>3, <1>4, <1>5, <1>6, <2>1 DEF RecordsBehind
  <2>3. ASSUME NEW i \in DOMAIN log', NEW j \in DOMAIN log', i < j
        PROVE  log'[i].candle < log'[j].candle
    <3>1. i \in DOMAIN log
      BY <1>4, <2>3
    <3>2. CASE j \in DOMAIN log
      BY <1>4, <1>9, <2>3, <3>1, <3>2 DEF OrderInv, LogInCandleOrder
    <3>3. CASE j = Len(log) + 1
      BY <1>3, <1>4, <2>1, <3>1, <3>3
    <3> QED
      BY <1>6, <3>2, <3>3
  <2> QED
    BY <2>2, <2>3 DEF LogInCandleOrder
<1> QED
  BY <1>8, <1>9 DEF OrderInv

\* A step that leaves the log, the candles and the clocks alone
LEMMA NothingRecorded ==
  ASSUME OrderInv, UNCHANGED <<now, polled, lives, lastFired, log>>,
         pc' \in {"collect", "analyze", "record"} => pc \in {"collect", "analyze", "record"}
  PROVE  OrderInv'
BY DEF OrderInv, Clocks, RecordsBehind, LogInCandleOrder, Sched!LastClose, Sched!NoClose

LEMMA NextOrder == OrderInv /\ [Next]_vars => OrderInv'
<1> SUFFICES ASSUME OrderInv, [Next]_vars PROVE OrderInv'
  OBVIOUS
<1>1. CASE TickHolds
  <2>1. /\ now' = now /\ polled' = now /\ UNCHANGED <<lives, lastFired, log>>
        /\ pc' = "sleep"
    BY <1>1 DEF TickHolds, Sched!Hold
  <2> QED
    BY <2>1 DEF OrderInv, Clocks, RecordsBehind, LogInCandleOrder, Sched!LastClose, Sched!NoClose
<1>2. CASE TickFires
  <2>1. /\ now' = now /\ polled' = now /\ UNCHANGED <<lives, log>>
        /\ lastFired' = Sched!LastClose(now) /\ lastFired # Sched!LastClose(now)
    BY <1>2 DEF TickFires, Sched!Fire, Sched!Due
  <2>2. Sched!LastClose(now) \in Nat /\ lastFired < Sched!LastClose(now)
    BY <2>1, CloseBounds DEF OrderInv, Clocks, Sched!NoClose
  <2>3. Sched!LastClose(now)' = Sched!LastClose(now)
    BY <2>1 DEF Sched!LastClose
  <2>4. Clocks'
    BY <2>1, <2>2, <2>3 DEF OrderInv, Clocks
  <2>5. lives = 0 => RecordsBehind'
    BY <2>1, <2>2 DEF OrderInv, Clocks, RecordsBehind, Sched!NoClose
  <2> QED
    BY <2>1, <2>4, <2>5 DEF OrderInv, LogInCandleOrder
<1>3. CASE Collect \/ CollectionEnds
  <2>1. /\ UNCHANGED <<now, polled, lives, lastFired, log>>
        /\ pc = "collect"
    BY <1>3 DEF Collect, CollectionEnds, schedVars, Fetch!StampTime, Fetch!SkewMeasured,
                Fetch!InstrumentKnown, Fetch!StampBook, Fetch!Gathered
  <2> QED
    BY <2>1, NothingRecorded
<1>4. CASE CollectionRaises \/ AnalysisRaises
  <2>1. /\ UNCHANGED <<now, polled, lives, lastFired, log>>
        /\ pc' = "sleep"
    BY <1>4 DEF CollectionRaises, AnalysisRaises, CycleRaises, schedVars, Fetch!Forget
  <2> QED
    BY <2>1, NothingRecorded
<1>5. CASE RecordRaises
  <2>1. /\ UNCHANGED <<now, polled, lives, lastFired>>
        /\ pc = "record" /\ pc' = "sleep"
        /\ UNCHANGED log \/ Log!Record(Entry)
    BY <1>5 DEF RecordRaises, CycleRaises, schedVars, Fetch!Forget, Log!RecordRaises
  <2> QED
    BY <2>1, NothingRecorded, RecordOrdered
<1>6. CASE RecordKept
  <2>1. /\ UNCHANGED <<now, polled, lives, lastFired>>
        /\ pc = "record" /\ pc' = "hook" /\ Log!Record(Entry)
    BY <1>6 DEF RecordKept, schedVars, Fetch!Forget
  <2> QED
    BY <2>1, RecordOrdered
<1>7. CASE AnalysisReturns \/ HookReturns \/ HookRaises \/ Wake \/ Over \/ UNCHANGED vars
  <2>1. /\ UNCHANGED <<now, polled, lives, lastFired, log>>
        /\ pc' \in {"collect", "analyze", "record"} => pc \in {"collect", "analyze", "record"}
    BY <1>7 DEF AnalysisReturns, HookReturns, HookRaises, Wake, Over, vars, schedVars
  <2> QED
    BY <2>1, NothingRecorded
<1>8. CASE Restart
  <2>1. /\ now' = now /\ polled' = now /\ lives' = lives + 1 /\ log' = log
        /\ lastFired' = Sched!NoClose
    BY <1>8 DEF Restart, Fetch!Forget
  <2>2. Sched!LastClose(now)' \in Nat
    BY <2>1, CloseBounds DEF OrderInv, Clocks, Sched!LastClose
  <2> QED
    BY <2>1, <2>2 DEF OrderInv, Clocks, Sched!NoClose
<1>9. CASE Advance
  <2>1. now' = now + 1 /\ UNCHANGED <<pc, polled, lives, lastFired, log>>
    BY <1>9 DEF Advance, schedVars
  <2>2. /\ Sched!LastClose(now)' = Sched!LastClose(now + 1)
        /\ Sched!LastClose(now) <= Sched!LastClose(now + 1)
        /\ {Sched!LastClose(now), Sched!LastClose(now + 1)} \subseteq Nat
    BY <2>1, CloseBounds, CloseAdvances DEF OrderInv, Clocks, Sched!LastClose
  <2>3. lastFired' <= Sched!LastClose(now)'
    BY <2>1, <2>2 DEF OrderInv, Clocks, Sched!NoClose
  <2>4. Clocks'
    BY <2>1, <2>3 DEF OrderInv, Clocks
  <2> QED
    BY <2>1, <2>4 DEF OrderInv, RecordsBehind, LogInCandleOrder
<1> QED
  BY <1>1, <1>2, <1>3, <1>4, <1>5, <1>6, <1>7, <1>8, <1>9 DEF Next, Work

\* Until the process is restarted, the log has every candle at most once and in
\* the order in which they closed, whatever raised in between (scheduler.py:58,
\* orchestrator.py:120).
THEOREM OrderCorrect == Spec => [](lives = 0 => LogInCandleOrder)
<1>1. OrderInv => (lives = 0 => LogInCandleOrder)
  BY DEF OrderInv
<1> QED
  BY <1>1, InitOrder, NextOrder, PTL DEF Spec

-----------------------------------------------------------------------------
(* The time a cycle takes *)

SchedProofs == INSTANCE CandleScheduler_proofs WITH
  MaxGap <- LongestTick, MaxStepBack <- 0, MaxSteps <- 0,
  LastInstant <- Horizon, started <- born, steps <- 0

\* How long ago the tick read its clock when the current await began.  The
\* three awaits of the collection follow each other, then the model call, the
\* record, the hook and the pause.
OnTime ==
  /\ {now, since, polled, lives} \subseteq Nat
  /\ since <= now /\ now <= Horizon /\ lives <= MaxRestarts
  /\ pc \in {"poll", "collect", "analyze", "record", "hook", "sleep", "dead"}
  /\ pc = "collect" =>
       \/ phase = "skew" /\ since <= polled
       \/ phase = "instrument" /\ since <= polled + MaxWait
       \/ phase = "gather" /\ since <= polled + 2 * MaxWait
  /\ pc = "analyze" => since <= polled + 3 * MaxWait
  /\ pc = "record" => since <= polled + 3 * MaxWait + MaxAnalysis
  /\ pc = "hook" => since <= polled + 4 * MaxWait + MaxAnalysis
  /\ pc = "sleep" => since <= polled + 5 * MaxWait + MaxAnalysis
  /\ pc \in {"poll", "dead"} => now <= polled + LongestTick
  /\ pc \notin {"poll", "dead"} => now <= since + Patience

\* No await that is still allowed to last ends later than LongestTick after the
\* poll.
LEMMA PolledLately ==
  ASSUME OnTime, pc \notin {"poll", "dead"}, NEW t \in Nat, t <= since + Patience
  PROVE  t <= polled + LongestTick
BY LoopAssumption DEF OnTime, LongestTick, Patience

\* The same, with the time left before the pause.
LEMMA PausedLately ==
  ASSUME OnTime, pc \in {"poll", "collect", "analyze", "record", "hook"},
         pc = "poll" => polled = now
  PROVE  now <= polled + 5 * MaxWait + MaxAnalysis
BY LoopAssumption DEF OnTime, LongestTick, Patience

LEMMA InitOnTime == Init => OnTime
BY LoopAssumption DEF Init, OnTime, LongestTick

LEMMA NextOnTime == OnTime /\ [Next]_vars => OnTime'
<1> SUFFICES ASSUME OnTime, [Next]_vars PROVE OnTime'
  OBVIOUS
<1> USE LoopAssumption
<1>1. CASE TickHolds
  <2>1. pc' = "sleep" /\ since' = now /\ now' = now /\ polled' = now /\ lives' = lives
    BY <1>1 DEF TickHolds, Sched!Hold
  <2> QED
    BY <2>1 DEF OnTime, LongestTick, Patience
<1>2. CASE TickFires
  <2>1. /\ pc' = "collect" /\ phase' = "skew" /\ since' = now /\ now' = now
        /\ polled' = now /\ lives' = lives
    BY <1>2 DEF TickFires, Sched!Fire, Fetch!Ask
  <2> QED
    BY <2>1 DEF OnTime, LongestTick, Patience
<1>3. CASE Collect
  <2>1. pc = "collect" /\ UNCHANGED <<pc, now, polled, lives>>
    BY <1>3 DEF Collect, schedVars, Fetch!StampTime, Fetch!SkewMeasured,
                Fetch!InstrumentKnown, Fetch!StampBook
  <2>2. \/ UNCHANGED <<phase, since>>
        \/ phase = "skew" /\ phase' = "instrument" /\ since' = now
        \/ phase = "instrument" /\ phase' = "gather" /\ since' = now
    BY <1>3 DEF Collect, Fetch!StampTime, Fetch!SkewMeasured, Fetch!InstrumentKnown,
                Fetch!StampBook
  <2>3. now <= since + MaxWait
    BY <2>1 DEF OnTime, Patience
  <2>4. CASE UNCHANGED <<phase, since>>
    BY <2>1, <2>4 DEF OnTime, Patience
  <2>5. CASE phase = "skew" /\ phase' = "instrument" /\ since' = now
    BY <2>1, <2>3, <2>5 DEF OnTime, Patience
  <2>6. CASE phase = "instrument" /\ phase' = "gather" /\ since' = now
    BY <2>1, <2>3, <2>6 DEF OnTime, Patience
  <2> QED
    BY <2>2, <2>4, <2>5, <2>6
<1>4. CASE CollectionEnds
  <2>1. /\ pc = "collect" /\ phase = "gather" /\ since' = now
        /\ UNCHANGED <<now, polled, lives>> /\ pc' \in {"analyze", "record"}
    BY <1>4 DEF CollectionEnds, schedVars, Fetch!Gathered
  <2> QED
    BY <2>1 DEF OnTime, Patience
<1>5. CASE CollectionRaises \/ AnalysisRaises \/ RecordRaises
  <2>1. /\ pc \in {"collect", "analyze", "record"} /\ pc' = "sleep" /\ since' = now
        /\ UNCHANGED <<now, polled, lives>>
    BY <1>5 DEF CollectionRaises, AnalysisRaises, RecordRaises, CycleRaises, schedVars,
                Fetch!Forget
  <2>2. now <= polled + 5 * MaxWait + MaxAnalysis
    BY <2>1, PausedLately
  <2> QED
    BY <2>1, <2>2 DEF OnTime, Patience
<1>6. CASE AnalysisReturns
  <2>1. /\ pc = "analyze" /\ pc' = "record" /\ since' = now
        /\ UNCHANGED <<now, polled, lives>>
    BY <1>6 DEF AnalysisReturns, schedVars
  <2> QED
    BY <2>1 DEF OnTime, Patience
<1>7. CASE RecordKept
  <2>1. /\ pc = "record" /\ pc' = "hook" /\ since' = now
        /\ UNCHANGED <<now, polled, lives>>
    BY <1>7 DEF RecordKept, schedVars, Fetch!Forget
  <2> QED
    BY <2>1 DEF OnTime, Patience
<1>8. CASE HookReturns
  <2>1. /\ pc = "hook" /\ pc' = "sleep" /\ since' = now
        /\ UNCHANGED <<now, polled, lives>>
    BY <1>8 DEF HookReturns, schedVars
  <2> QED
    BY <2>1 DEF OnTime, Patience
<1>9. CASE HookRaises \/ Wake
  <2>1. /\ pc \in {"hook", "sleep"} /\ pc' \in {"dead", "poll"}
        /\ UNCHANGED <<now, since, polled, lives>>
    BY <1>9 DEF HookRaises, Wake, schedVars
  <2>2. now <= polled + LongestTick
    BY <2>1, PolledLately DEF OnTime
  <2> QED
    BY <2>1, <2>2 DEF OnTime, LongestTick
<1>10. CASE Restart
  <2>1. /\ pc' = "poll" /\ since' = now /\ now' = now /\ polled' = now
        /\ lives' = lives + 1 /\ lives < MaxRestarts
    BY <1>10 DEF Restart, Fetch!Forget
  <2> QED
    BY <2>1 DEF OnTime, LongestTick
<1>11. CASE Advance
  <2>1. /\ now' = now + 1 /\ now < Horizon /\ now < since + Patience
        /\ UNCHANGED <<pc, since, phase, polled, lives>>
    BY <1>11 DEF Advance, schedVars, fetchVars
  <2>2. Patience' = Patience /\ Patience \in Nat
    BY <2>1 DEF Patience, OnTime
  <2>3. pc \in {"poll", "dead"} => now' <= polled + LongestTick
    BY <2>1 DEF Patience, OnTime
  <2> QED
    BY <2>1, <2>2, <2>3 DEF OnTime
<1>12. CASE Over \/ UNCHANGED vars
  <2>1. UNCHANGED <<pc, now, since, phase, polled, lives>>
    BY <1>12 DEF Over, vars, schedVars, fetchVars
  <2> QED
    BY <2>1 DEF OnTime, Patience
<1> QED
  BY <1>1, <1>2, <1>3, <1>4, <1>5, <1>6, <1>7, <1>8, <1>9, <1>10, <1>11, <1>12
     DEF Next, Work

\* Every step but a restart is a step of the scheduler, or none of its.
LEMMA StepOfScheduler ==
  ASSUME OnTime, Next, ~Restart
  PROVE  Sched!Next \/ UNCHANGED Sched!vars
<1>1. CASE TickHolds \/ TickFires
  BY <1>1 DEF TickHolds, TickFires, Sched!Next
<1>2. CASE Advance
  <2>1. /\ now' = now + 1 /\ now < Horizon
        /\ UNCHANGED <<polled, lastFired, decided, cycles, born, lives>>
    BY <1>2 DEF Advance, schedVars
  <2>2. now < since + Patience
    BY <1>2 DEF Advance
  <2>3. pc \notin {"poll", "dead"} /\ now + 1 \in Nat /\ now + 1 <= since + Patience
    BY <2>2, LoopAssumption DEF OnTime, Patience
  <2>4. now' <= polled + LongestTick
    BY <2>1, <2>3, PolledLately
  <2> QED
    BY <2>1, <2>4, LoopAssumption DEF OnTime, Sched!Next, Sched!Advance, Sched!Kept
<1>3. CASE Collect \/ CollectionEnds
  BY <1>3 DEF Collect, CollectionEnds, schedVars, Sched!vars, Fetch!StampTime,
              Fetch!SkewMeasured, Fetch!InstrumentKnown, Fetch!StampBook, Fetch!Gathered
<1>4. CASE CollectionRaises \/ AnalysisRaises \/ RecordRaises \/ RecordKept
  BY <1>4 DEF CollectionRaises, AnalysisRaises, RecordRaises, RecordKept, CycleRaises,
              schedVars, Sched!vars, Fetch!Forget
<1>5. CASE AnalysisReturns \/ HookReturns \/ HookRaises \/ Wake \/ Over
  BY <1>5 DEF AnalysisReturns, HookReturns, HookRaises, Wake, Over, schedVars, Sched!vars,
              vars
<1> QED
  BY <1>1, <1>2, <1>3, <1>4, <1>5 DEF Next, Work

LEMMA OnTimeInvariant == Spec => []OnTime
BY InitOnTime, NextOnTime, PTL DEF Spec

\* In a life that is not interrupted, the loop uses the scheduler as its module
\* says it is used: with a clock that only advances, polled at most LongestTick
\* apart (run_forever, loop.py:102-108).
THEOREM SchedulerImplemented == MaxRestarts = 0 => (Spec => KeepsScheduler)
<1> SUFFICES ASSUME MaxRestarts = 0 PROVE Spec => KeepsScheduler
  OBVIOUS
<1>1. Init => Sched!Init
  BY LoopAssumption DEF Init, Sched!Init, Sched!NoClose
<1>2. OnTime /\ [Next]_vars => [Sched!Next]_(Sched!vars)
  <2> SUFFICES ASSUME OnTime, [Next]_vars PROVE Sched!Next \/ UNCHANGED Sched!vars
    OBVIOUS
  <2>1. CASE UNCHANGED vars
    BY <2>1 DEF vars, schedVars, Sched!vars
  <2>2. ~Restart
    BY DEF Restart, OnTime
  <2> QED
    BY <2>1, <2>2, StepOfScheduler
<1> QED
  BY <1>1, <1>2, OnTimeInvariant, PTL DEF Spec, KeepsScheduler, Sched!Spec

-----------------------------------------------------------------------------
(* No candle is missed *)

MissInv == OnTime /\ SchedProofs!TypeOK /\ SchedProofs!Polling /\ SchedProofs!NoCandleMissed

\* What the scheduler assumes of its constants, the loop provides.
LEMMA SchedulerConstants == SchedProofs!SchedulerAssumption
BY LoopAssumption DEF SchedProofs!SchedulerAssumption, LongestTick

\* The scheduler the lemmas about it speak of is the loop's.
LEMMA SameScheduler ==
  /\ Sched!TypeOK = SchedProofs!TypeOK
  /\ NoCandleMissed = SchedProofs!NoCandleMissed
  /\ [Sched!Next]_(Sched!vars) = [SchedProofs!Next]_(SchedProofs!vars)
<1>1. Sched!TypeOK = SchedProofs!TypeOK
  BY DEF Sched!TypeOK, SchedProofs!TypeOK, Sched!NoClose, SchedProofs!NoClose
<1>2. \A t : Sched!LastClose(t) = SchedProofs!LastClose(t)
  BY DEF Sched!LastClose, SchedProofs!LastClose
<1>3. NoCandleMissed = SchedProofs!NoCandleMissed
  BY DEF NoCandleMissed, Sched!NoCandleMissed, SchedProofs!NoCandleMissed,
         Sched!ClosesSince, SchedProofs!ClosesSince, Sched!LastClose, SchedProofs!LastClose
<1>4. /\ Sched!Fire = SchedProofs!Fire
      /\ Sched!Hold = SchedProofs!Hold
  BY DEF Sched!Fire, SchedProofs!Fire, Sched!Hold, SchedProofs!Hold, Sched!Due,
         SchedProofs!Due, Sched!LastClose, SchedProofs!LastClose, Sched!Kept, SchedProofs!Kept
<1>5. /\ Sched!Advance = SchedProofs!Advance
      /\ Sched!StepBack = SchedProofs!StepBack
  BY DEF Sched!Advance, SchedProofs!Advance, Sched!StepBack, SchedProofs!StepBack,
         Sched!Kept, SchedProofs!Kept
<1>6. Sched!vars = SchedProofs!vars
  BY DEF Sched!vars, SchedProofs!vars
<1>7. Sched!Next = SchedProofs!Next
  BY <1>4, <1>5 DEF Sched!Next, SchedProofs!Next
<1>8. [Sched!Next]_(Sched!vars) = [SchedProofs!Next]_(SchedProofs!vars)
  BY <1>7 DEF Sched!vars, SchedProofs!vars
<1> QED
  BY <1>1, <1>3, <1>8

\* A process that starts has nothing to catch up with.
LEMMA FreshStart ==
  ASSUME Buffer # 0,
         now' \in Nat, polled' = now', born' = now', lastFired' = Sched!NoClose,
         decided' \in SUBSET Nat, cycles' \in Nat
  PROVE  SchedProofs!TypeOK' /\ SchedProofs!Polling' /\ SchedProofs!NoCandleMissed'
BY LoopAssumption
   DEF SchedProofs!TypeOK, SchedProofs!Polling, SchedProofs!NoClose, Sched!NoClose,
       SchedProofs!NoCandleMissed, SchedProofs!ClosesSince, LongestTick

LEMMA InitMiss ==
  ASSUME Buffer # 0, Init
  PROVE  MissInv
BY InitOnTime, LoopAssumption
   DEF MissInv, Init, OnTime, SchedProofs!TypeOK, SchedProofs!Polling, SchedProofs!NoClose,
       Sched!NoClose, SchedProofs!NoCandleMissed, SchedProofs!ClosesSince, LongestTick

LEMMA NextMiss ==
  ASSUME LongestTick + Buffer <= Interval, Buffer # 0,
         MissInv, [Next]_vars
  PROVE  MissInv'
<1>1. OnTime'
  BY NextOnTime DEF MissInv
<1>2. CASE Restart
  <2>1. /\ now' = now /\ polled' = now /\ born' = now /\ lastFired' = Sched!NoClose
        /\ decided' = decided /\ cycles' = 0
    BY <1>2 DEF Restart, Fetch!Forget
  <2> QED
    BY <1>1, <2>1, FreshStart DEF MissInv, OnTime, SchedProofs!TypeOK
<1>3. CASE ~Restart
  <2>1. [Sched!Next]_(Sched!vars)
    BY <1>3, StepOfScheduler DEF MissInv, vars, schedVars, Sched!vars
  <2>2. [SchedProofs!Next]_(SchedProofs!vars)
    BY <2>1, SameScheduler
  <2>3. SchedProofs!TypeOK'
    BY <2>2, SchedulerConstants, SchedProofs!NextType DEF MissInv
  <2>4. SchedProofs!Polling' /\ SchedProofs!NoCandleMissed'
    BY <2>2, SchedulerConstants, SchedProofs!NextMissed DEF MissInv
  <2> QED
    BY <1>1, <2>3, <2>4 DEF MissInv
<1> QED
  BY <1>2, <1>3

\* No candle that closes while a life of the process lasts is lost, however
\* often it is restarted and whatever raises, as long as the longest tick fits
\* between the end of a candle's buffer and the next close
\* (scheduler.py:56-73, loop.py:102-108).
THEOREM NoMiss ==
  LongestTick + Buffer <= Interval /\ Buffer # 0 => (Spec => []NoCandleMissed)
<1> SUFFICES ASSUME LongestTick + Buffer <= Interval, Buffer # 0
             PROVE  Spec => []NoCandleMissed
  OBVIOUS
<1>1. Init => MissInv
  BY InitMiss
<1>2. MissInv /\ [Next]_vars => MissInv'
  BY NextMiss
<1>3. MissInv => NoCandleMissed
  BY SameScheduler DEF MissInv
<1> QED
  BY <1>1, <1>2, <1>3, PTL DEF Spec

-----------------------------------------------------------------------------
(* The age of the book an approval was judged on *)

\* An offset measured over a round trip of at most MaxWait is too small by at
\* most half of it.
Measured == offset \in Int /\ 2 * (Drift - offset) <= MaxWait

\* What the collection has obtained so far, and where it came from.
Obtained ==
  /\ pc \notin {"collect", "analyze", "record"} => server = Unset /\ bookTs = Unset
  /\ pc = "collect" => asked = polled /\ injected = TRUE
  /\ pc = "collect" /\ phase = "skew" /\ server # Unset =>
       server \in Int /\ since + Drift <= server /\ server <= now + Drift
  /\ pc = "collect" /\ phase \in {"instrument", "gather"} => Measured
  /\ pc = "collect" /\ phase \in {"skew", "instrument"} => bookTs = Unset
  /\ pc = "collect" /\ bookTs # Unset => bookTs \in Int
  /\ pc \in {"analyze", "record"} =>
       Measured /\ bookTs \in Int /\ age = (polled + offset) - bookTs

\* The Risk Engine compared that age with the policy's limit.
Judged ==
  /\ pc # "record" => result.verdict = "none"
  /\ result.verdict = "approved" => JudgedAge <= PolicyAge

AgeInv == OnTime /\ Obtained /\ Judged

\* The server stamped its answer at one end of the round trip at worst.
LEMMA OffsetError ==
  ASSUME NEW send \in Int, NEW recv \in Int, NEW s \in Int,
         send <= recv, recv <= send + MaxWait,
         send + Drift <= s, s <= recv + Drift
  PROVE  /\ Fetch!Offset(s, send, recv) \in Int
         /\ 2 * (Drift - Fetch!Offset(s, send, recv)) <= MaxWait
<1>1. Drift \in Int /\ MaxWait \in Nat
  BY LoopAssumption
<1>2. /\ (send + recv) \div 2 \in Int
      /\ 2 * ((send + recv) \div 2) <= send + recv
      /\ send + recv <= 2 * ((send + recv) \div 2) + 1
  BY Z3
<1> DEFINE half == (send + recv) \div 2
<1>3. Fetch!Offset(s, send, recv) = s - half
  BY DEF Fetch!Offset
<1> HIDE DEF half
<1>4. half \in Int /\ 2 * half <= send + recv
  BY <1>2 DEF half
<1> QED
  BY <1>1, <1>3, <1>4

LEMMA InitAge == Init => AgeInv
BY InitOnTime DEF Init, AgeInv, Obtained, Judged, NoResult

\* Only time passes.
LEMMA NothingObtained ==
  ASSUME AgeInv, UNCHANGED <<asked, injected, server, offset, bookTs, age, phase,
                             result, since, polled, pc>>,
         now' \in Nat, now <= now'
  PROVE  Obtained' /\ Judged'
BY LoopAssumption DEF AgeInv, OnTime, Obtained, Judged, Measured, JudgedAge

\* The cycle ended, and what it learnt with it.
LEMMA CollectionForgotten ==
  ASSUME pc' \notin {"collect", "analyze", "record"}, result' = NoResult,
         server' = Unset, bookTs' = Unset
  PROVE  Obtained' /\ Judged'
BY DEF Obtained, Judged, NoResult

LEMMA CollectAge ==
  ASSUME AgeInv, Collect
  PROVE  Obtained' /\ Judged'
<1>1. pc = "collect" /\ UNCHANGED <<pc, now, polled, result>>
  BY DEF Collect, schedVars, Fetch!StampTime, Fetch!SkewMeasured, Fetch!InstrumentKnown,
         Fetch!StampBook
<1>2. Judged'
  BY <1>1 DEF AgeInv, Judged
<1>3. CASE Fetch!StampTime
  <2>1. /\ UNCHANGED <<asked, injected, offset, bookTs, phase, since>>
        /\ phase = "skew" /\ server' = now + Drift
    BY <1>3 DEF Fetch!StampTime, Fetch!ServerClock
  <2> QED
    BY <1>1, <1>2, <2>1, LoopAssumption DEF AgeInv, OnTime, Obtained, Measured
<1>4. CASE Fetch!SkewMeasured
  <2>1. /\ UNCHANGED <<asked, injected, bookTs>>
        /\ phase = "skew" /\ phase' = "instrument" /\ server # Unset
        /\ offset' = Fetch!Offset(server, since, now)
    BY <1>4 DEF Fetch!SkewMeasured
  <2>2. /\ server \in Int /\ since + Drift <= server /\ server <= now + Drift
        /\ since <= now /\ now <= since + MaxWait /\ since \in Int /\ now \in Int
    BY <1>1, <2>1 DEF AgeInv, OnTime, Obtained, Patience
  <2>3. Measured'
    BY <2>1, <2>2, OffsetError DEF Measured
  <2> QED
    BY <1>1, <1>2, <2>1, <2>3 DEF AgeInv, Obtained
<1>5. CASE Fetch!InstrumentKnown
  <2>1. /\ UNCHANGED <<asked, injected, offset, bookTs>>
        /\ phase = "instrument" /\ phase' = "gather"
    BY <1>5 DEF Fetch!InstrumentKnown
  <2> QED
    BY <1>1, <1>2, <2>1 DEF AgeInv, Obtained, Measured
<1>6. CASE Fetch!StampBook
  <2>1. /\ UNCHANGED <<asked, injected, offset, phase>> /\ phase = "gather"
    BY <1>6 DEF Fetch!StampBook
  <2>2. PICK lag \in 0 .. MaxLag : bookTs' = Fetch!ServerClock - lag
    BY <1>6 DEF Fetch!StampBook
  <2>3. bookTs' \in Int
    BY <2>2, LoopAssumption DEF AgeInv, OnTime, Fetch!ServerClock
  <2> QED
    BY <1>1, <1>2, <2>1, <2>3 DEF AgeInv, Obtained, Measured
<1> QED
  BY <1>3, <1>4, <1>5, <1>6 DEF Collect

LEMMA NextAge == AgeInv /\ [Next]_vars => AgeInv'
<1> SUFFICES ASSUME AgeInv, [Next]_vars PROVE Obtained' /\ Judged'
  BY NextOnTime DEF AgeInv
<1>1. CASE RecordKept \/ CollectionRaises \/ AnalysisRaises \/ RecordRaises \/ Restart
  <2>1. /\ pc' \notin {"collect", "analyze", "record"} /\ result' = NoResult
        /\ server' = Unset /\ bookTs' = Unset
    BY <1>1 DEF RecordKept, CollectionRaises, AnalysisRaises, RecordRaises, CycleRaises,
                Restart, Fetch!Forget
  <2> QED
    BY <2>1, CollectionForgotten
<1>7. CASE TickHolds \/ HookReturns \/ HookRaises \/ Wake
  <2>1. /\ {pc, pc'} \cap {"collect", "analyze", "record"} = {}
        /\ UNCHANGED <<result, server, bookTs>>
    BY <1>7 DEF TickHolds, HookReturns, HookRaises, Wake, fetchVars
  <2> QED
    BY <2>1 DEF AgeInv, Obtained, Judged
<1>2. CASE TickFires
  <2>1. /\ pc = "poll" /\ pc' = "collect" /\ phase' = "skew" /\ asked' = now
        /\ injected' = TRUE /\ polled' = now /\ result' = result
        /\ UNCHANGED <<server, bookTs>>
    BY <1>2 DEF TickFires, Sched!Fire, Fetch!Ask
  <2> QED
    BY <2>1 DEF AgeInv, Obtained, Judged
<1>3. CASE Collect
  BY <1>3, CollectAge
<1>4. CASE CollectionEnds
  <2>1. /\ pc = "collect" /\ phase = "gather" /\ bookTs # Unset
        /\ UNCHANGED <<offset, bookTs, polled>>
        /\ age' = ((IF injected THEN asked ELSE now) + offset) - bookTs
        /\ \/ pc' = "record" /\ result' = Skipped
           \/ pc' = "analyze" /\ result' = result
    BY <1>4 DEF CollectionEnds, schedVars, Fetch!Gathered, Fetch!DataAge
  <2>2. Obtained'
    BY <2>1 DEF AgeInv, Obtained, Measured
  <2>3. Judged'
    BY <2>1 DEF AgeInv, Judged, Skipped
  <2> QED
    BY <2>2, <2>3
<1>5. CASE AnalysisReturns
  <2>1. PICK c \in 0 .. MaxCost, verdict \in {"none", "rejected", "approved"} :
          /\ verdict = "approved" => JudgedAge <= PolicyAge
          /\ result' = [analyzed |-> TRUE, cost |-> c, verdict |-> verdict]
    BY <1>5 DEF AnalysisReturns
  <2>2. /\ pc = "analyze" /\ pc' = "record"
        /\ UNCHANGED <<offset, bookTs, age, polled>>
    BY <1>5 DEF AnalysisReturns, schedVars, fetchVars
  <2>3. Obtained'
    BY <2>2 DEF AgeInv, Obtained, Measured
  <2>4. Judged'
    BY <2>1, <2>2 DEF Judged, JudgedAge
  <2> QED
    BY <2>3, <2>4
<1>6. CASE Advance \/ Over \/ UNCHANGED vars
  <2>1. /\ UNCHANGED <<asked, injected, server, offset, bookTs, age, phase, result, since,
                       polled, pc>>
        /\ now' \in Nat /\ now <= now'
    BY <1>6 DEF Advance, Over, vars, schedVars, fetchVars, AgeInv, OnTime
  <2> QED
    BY <2>1, NothingObtained
<1> QED
  BY <1>1, <1>2, <1>3, <1>4, <1>5, <1>6, <1>7 DEF Next, Work

\* A book the Risk Engine approved is, when the verdict is given, older than the
\* policy allows by no more than three requests, the model call and half a
\* request: for every drift of the exchange, every delay of its answers and every
\* length of the model call (loop.py:69-75, orchestrator.py:194-210).
THEOREM ApprovalCorrect == Spec => []ApprovalAgeBounded
<1>1. AgeInv => ApprovalAgeBounded
  <2> SUFFICES ASSUME AgeInv, result.verdict = "approved"
               PROVE  2 * (((since + Drift) - bookTs) - PolicyAge
                             - (3 * MaxWait + MaxAnalysis)) <= MaxWait
    BY DEF ApprovalAgeBounded, TrueAge
  <2>1. pc = "record" /\ JudgedAge <= PolicyAge
    BY DEF AgeInv, Judged
  <2>2. /\ offset \in Int /\ 2 * (Drift - offset) <= MaxWait /\ bookTs \in Int
        /\ age = (polled + offset) - bookTs
    BY <2>1 DEF AgeInv, Obtained, Measured
  <2>3. /\ since \in Int /\ polled \in Int /\ Drift \in Int /\ PolicyAge \in Int
        /\ MaxWait \in Int /\ MaxAnalysis \in Int
        /\ since <= polled + 3 * MaxWait + MaxAnalysis
    BY <2>1, LoopAssumption DEF AgeInv, OnTime
  <2>4. (polled + offset) - bookTs <= PolicyAge
    BY <2>1, <2>2, <2>3 DEF JudgedAge
  <2> QED
    BY <2>2, <2>3, <2>4
<1> QED
  BY <1>1, InitAge, NextAge, PTL DEF Spec

-----------------------------------------------------------------------------
(* Authorisations *)

\* Within the clock of the model every day is a day of the ledger.
Dates ==
  /\ {now, polled, lives} \subseteq Nat
  /\ polled <= now /\ now <= Horizon /\ lives <= MaxRestarts
  /\ day \in Days \cup {NoDay} /\ day <= Day(polled)
  /\ spent \in Nat
  /\ ledger \in [Days -> Nat]
  /\ result.cost \in 0 .. MaxCost

\* allow_analysis is held from can_afford to the end of the cycle: it is for
\* the tick's day, which the budget remembers all along and which the awaits in
\* between do not touch.
Held ==
  /\ grant # NoDay => /\ pc \in {"collect", "analyze", "record"}
                      /\ grant = Day(polled)
  /\ pc \in {"collect", "analyze", "record"} => day = Day(polled)
  /\ pc = "analyze" => grant # NoDay
  /\ pc # "record" => result = NoResult
  /\ IF result.analyzed THEN grant # NoDay ELSE result.cost = 0

\* What can_afford compared is what the ledger says, and it still says so.
RoomLeft ==
  /\ Budget!TotalIsLedger
  /\ grant # NoDay => ledger[grant] < MaxUsd

GateInv == Dates /\ Held /\ (lives = 0 => RoomLeft)

LEMMA DayOfClock ==
  ASSUME NEW t \in 0 .. Horizon
  PROVE  Day(t) \in Days /\ Day(t) \in Nat /\ Day(t) # NoDay
<1>1. DayLength \in Nat \ {0} /\ Horizon \in Nat
  BY LoopAssumption
<1>2. t \div DayLength \in Nat /\ t \div DayLength <= Horizon \div DayLength
  BY <1>1, Z3
<1>3. Horizon \div DayLength \in Nat
  BY <1>1, Z3
<1> QED
  BY <1>2, <1>3 DEF Day, Days, Budget!Days, LastDay, NoDay, Budget!NoDay

\* The day does not recede while the clock advances.
LEMMA DayAdvances ==
  ASSUME NEW t \in Nat, NEW u \in Nat, t <= u
  PROVE  Day(t) <= Day(u) /\ Day(t) \in Nat /\ Day(u) \in Nat
<1>1. DayLength \in Nat \ {0}
  BY LoopAssumption
<1> QED
  BY <1>1, Z3 DEF Day

LEMMA InitGate == Init => GateInv
<1> SUFFICES ASSUME Init PROVE GateInv
  OBVIOUS
<1>1. now \in Nat /\ now <= Horizon /\ polled = now /\ lives = 0
  BY LoopAssumption DEF Init
<1>2. Day(polled) \in Nat
  BY <1>1, DayAdvances
<1>3. /\ day = NoDay /\ spent = 0 /\ grant = NoDay /\ ledger = [d \in Days |-> 0]
      /\ NoDay = -1
  BY DEF Init, Budget!Init, NoDay, Budget!NoDay, Days, Budget!Days
<1>4. result = NoResult /\ pc = "poll"
  BY DEF Init
<1>5. Dates
  BY <1>1, <1>2, <1>3, <1>4, LoopAssumption DEF Dates, NoResult
<1>6. Held
  BY <1>3, <1>4 DEF Held, NoResult
<1>7. RoomLeft
  BY <1>3 DEF RoomLeft, Budget!TotalIsLedger, Days, NoDay
<1> QED
  BY <1>5, <1>6, <1>7 DEF GateInv

\* What _roll_day leaves as the total of the tick's day is the ledger of it,
\* whether it is the remembered day or a new one.
LEMMA RolledIsLedger ==
  ASSUME GateInv, lives = 0
  PROVE  Budget!Rolled(Day(now)) = ledger[Day(now)]
<1>1. Day(now) \in Days /\ Day(now) \in Nat /\ Day(polled) <= Day(now) /\ Day(polled) \in Nat
  BY DayOfClock, DayAdvances, LoopAssumption DEF GateInv, Dates
<1>2. Budget!TotalIsLedger /\ day \in Int /\ day <= Day(now)
  BY <1>1 DEF GateInv, RoomLeft, Dates, Days, Budget!Days, NoDay, Budget!NoDay
<1>3. CASE Day(now) = day
  BY <1>1, <1>2, <1>3 DEF Budget!TotalIsLedger, Budget!Rolled, NoDay, Budget!NoDay
<1>4. CASE Day(now) # day
  <2>1. Day(now) > day
    BY <1>1, <1>2, <1>4
  <2> QED
    BY <1>1, <1>2, <1>4, <2>1 DEF Budget!TotalIsLedger, Budget!Rolled, Days
<1> QED
  BY <1>3, <1>4

\* The cycle is over, and its authorisation with it.
LEMMA GrantReturned ==
  ASSUME GateInv, UNCHANGED <<now, polled, lives, day, spent, ledger>>,
         grant' = NoDay, result' = NoResult,
         pc' \notin {"collect", "analyze", "record"}
  PROVE  GateInv'
<1>1. Dates'
  BY LoopAssumption DEF GateInv, Dates, NoResult, Day, Days, NoDay
<1>2. Held'
  BY DEF Held, NoResult, NoDay
<1>3. lives = 0 => RoomLeft'
  BY DEF GateInv, RoomLeft, Budget!TotalIsLedger, NoDay
<1> QED
  BY <1>1, <1>2, <1>3 DEF GateInv

\* A step outside the budget that neither starts nor ends a cycle
LEMMA NothingGranted ==
  ASSUME GateInv, UNCHANGED <<now, polled, lives, budgetVars, result>>,
         pc' = "record" <=> pc = "record",
         pc' = "analyze" => grant # NoDay,
         pc' \in {"collect", "analyze", "record"} <=> pc \in {"collect", "analyze", "record"}
  PROVE  GateInv'
BY DEF GateInv, Dates, Held, RoomLeft, Budget!TotalIsLedger, NoDay, Budget!NoDay, Day,
       Days, Budget!Days, LastDay, budgetVars

\* can_afford starts a cycle.
LEMMA TickGate ==
  ASSUME GateInv, TickFires
  PROVE  GateInv'
<1>1. /\ now' = now /\ polled' = now /\ lives' = lives /\ result' = result
      /\ pc = "poll" /\ pc' = "collect"
      /\ day' = Day(now) /\ spent' = Budget!Rolled(Day(now)) /\ ledger' = ledger
      /\ grant' = IF Budget!Affordable(Day(now)) THEN Day(now) ELSE NoDay
  BY DEF TickFires, Sched!Fire, Budget!CanAfford
<1>2. Day(now) \in Days /\ Day(now) \in Nat /\ Day(polled)' = Day(now)
  BY <1>1, DayOfClock DEF GateInv, Dates, Day
<1>3. spent' \in Nat
  BY <1>1 DEF GateInv, Dates, Budget!Rolled
<1>4. Dates'
  BY <1>1, <1>2, <1>3 DEF GateInv, Dates, Days, NoDay
<1>5. Held'
  BY <1>1, <1>2 DEF GateInv, Held, NoDay, NoResult
<1>6. ASSUME lives = 0 PROVE RoomLeft'
  <2>1. Budget!Rolled(Day(now)) = ledger[Day(now)]
    BY <1>6, RolledIsLedger
  <2>2. \A d \in Days : d > Day(now) => ledger[d] = 0
    <3>1. SUFFICES ASSUME NEW d \in Days, d > Day(now) PROVE ledger[d] = 0
      OBVIOUS
    <3>2. Day(polled) <= Day(now) /\ Day(polled) \in Nat
      BY DayAdvances DEF GateInv, Dates
    <3>3. d \in Int /\ day \in Int /\ day <= Day(polled)
      BY LoopAssumption DEF GateInv, Dates, Days, Budget!Days, NoDay, Budget!NoDay
    <3>4. d > day
      BY <1>2, <3>1, <3>2, <3>3
    <3> QED
      BY <1>6, <3>4 DEF GateInv, RoomLeft, Budget!TotalIsLedger, Days
  <2>3. Budget!TotalIsLedger'
    BY <1>1, <2>1, <2>2 DEF Budget!TotalIsLedger, Days
  <2>4. grant' # NoDay => ledger'[grant'] < MaxUsd
    BY <1>1, <2>1 DEF Budget!Affordable
  <2> QED
    BY <2>3, <2>4 DEF RoomLeft, NoDay
<1> QED
  BY <1>1, <1>4, <1>5, <1>6 DEF GateInv

\* The cost of an analysis is entered under the day of its authorisation.
LEMMA SpendGate ==
  ASSUME GateInv, RecordKept, result.analyzed
  PROVE  GateInv'
<1> DEFINE d == Day(polled)
           c == result.cost
<1>1. /\ UNCHANGED <<now, polled, lives>> /\ pc = "record" /\ pc' = "hook"
      /\ result' = NoResult /\ grant' = NoDay
      /\ day' = d /\ spent' = Budget!Rolled(d) + c
      /\ ledger' = [ledger EXCEPT ![d] = @ + c]
  BY DEF RecordKept, schedVars, Spend, Budget!RecordSpend, Fetch!Forget
<1>2. d \in Days /\ day = d /\ d # NoDay /\ d \in Nat
  <2>1. polled \in 0 .. Horizon
    BY LoopAssumption DEF GateInv, Dates
  <2>2. d \in Days /\ d # NoDay /\ d \in Nat
    BY <2>1, DayOfClock
  <2> QED
    BY <1>1, <2>2 DEF GateInv, Held
<1>3. c \in Nat
  BY LoopAssumption DEF GateInv, Dates
<1>4. spent' = spent + c /\ Day(polled)' = d
  BY <1>1, <1>2 DEF Budget!Rolled, Day
<1> HIDE DEF d, c
<1>5. Dates'
  BY <1>1, <1>2, <1>3, <1>4, LoopAssumption DEF GateInv, Dates, NoResult, Days, NoDay
<1>6. Held'
  BY <1>1 DEF Held, NoResult, NoDay
<1>7. ASSUME lives = 0 PROVE RoomLeft'
  <2>1. Budget!TotalIsLedger /\ ledger \in [Days -> Nat]
    BY <1>7 DEF GateInv, RoomLeft, Dates
  <2>2. Budget!TotalIsLedger'
    BY <1>1, <1>2, <1>3, <1>4, <2>1, LoopAssumption
       DEF Budget!TotalIsLedger, Days, Budget!Days, NoDay
  <2> QED
    BY <1>1, <2>2 DEF RoomLeft, NoDay
<1> QED
  BY <1>1, <1>5, <1>6, <1>7 DEF GateInv

LEMMA NextGate == GateInv /\ [Next]_vars => GateInv'
<1> SUFFICES ASSUME GateInv, [Next]_vars PROVE GateInv'
  OBVIOUS
<1>1. CASE TickHolds
  <2>1. /\ now' = now /\ polled' = now /\ UNCHANGED <<lives, budgetVars, result>>
        /\ pc = "poll" /\ pc' = "sleep"
    BY <1>1 DEF TickHolds, Sched!Hold
  <2>2. /\ Day(polled) <= Day(now) /\ Day(polled) \in Nat /\ Day(now) \in Nat
        /\ Day(polled)' = Day(now)
    BY <2>1, DayAdvances DEF GateInv, Dates, Day
  <2>3. Dates'
    BY <2>1, <2>2 DEF GateInv, Dates, budgetVars, Days, Budget!Days, NoDay, Budget!NoDay
  <2>4. Held'
    BY <2>1 DEF GateInv, Held, budgetVars, NoDay
  <2>5. lives = 0 => RoomLeft'
    BY <2>1 DEF GateInv, RoomLeft, Budget!TotalIsLedger, budgetVars, NoDay
  <2> QED
    BY <2>1, <2>3, <2>4, <2>5 DEF GateInv
<1>2. CASE TickFires
  BY <1>2, TickGate
<1>3. CASE Collect
  <2>1. UNCHANGED <<now, polled, lives, budgetVars, result, pc>>
    BY <1>3 DEF Collect, schedVars, Fetch!StampTime, Fetch!SkewMeasured,
                Fetch!InstrumentKnown, Fetch!StampBook
  <2> QED
    BY <1>3, <2>1, NothingGranted DEF Collect
<1>4. CASE CollectionEnds
  <2>1. /\ UNCHANGED <<now, polled, lives, budgetVars>>
        /\ pc = "collect"
        /\ \/ pc' = "record" /\ result' = Skipped
           \/ pc' = "analyze" /\ grant # NoDay /\ result' = result
    BY <1>4 DEF CollectionEnds, schedVars, Fetch!Gathered, MayAnalyze
  <2>2. CASE pc' = "record" /\ result' = Skipped
    <3>1. Dates'
      BY <2>1, <2>2, LoopAssumption DEF GateInv, Dates, Skipped, budgetVars, Day, Days, NoDay
    <3>2. Held'
      BY <2>1, <2>2 DEF GateInv, Held, Skipped, budgetVars, Day, NoDay
    <3>3. lives = 0 => RoomLeft'
      BY <2>1 DEF GateInv, RoomLeft, Budget!TotalIsLedger, budgetVars, NoDay
    <3> QED
      BY <2>1, <3>1, <3>2, <3>3 DEF GateInv
  <2>3. CASE pc' = "analyze" /\ grant # NoDay /\ result' = result
    BY <2>1, <2>3, NothingGranted
  <2> QED
    BY <2>1, <2>2, <2>3
<1>5. CASE CollectionRaises \/ AnalysisRaises \/ RecordRaises
  <2>1. /\ UNCHANGED <<now, polled, lives, day, spent, ledger>>
        /\ grant' = NoDay /\ result' = NoResult /\ pc' = "sleep"
    BY <1>5 DEF CollectionRaises, AnalysisRaises, RecordRaises, CycleRaises, schedVars,
                Fetch!Forget
  <2> QED
    BY <2>1, GrantReturned
<1>6. CASE AnalysisReturns
  <2>1. PICK c \in 0 .. MaxCost, verdict \in {"none", "rejected", "approved"} :
          result' = [analyzed |-> TRUE, cost |-> c, verdict |-> verdict]
    BY <1>6 DEF AnalysisReturns
  <2>2. /\ UNCHANGED <<now, polled, lives, budgetVars>>
        /\ pc = "analyze" /\ pc' = "record"
    BY <1>6 DEF AnalysisReturns, schedVars
  <2>3. result'.cost \in 0 .. MaxCost /\ result'.analyzed = TRUE
    BY <2>1
  <2>4. Dates'
    BY <2>2, <2>3 DEF GateInv, Dates, budgetVars, Day, Days, NoDay
  <2>5. Held'
    BY <2>2, <2>3 DEF GateInv, Held, budgetVars, Day, NoDay
  <2>6. lives = 0 => RoomLeft'
    BY <2>2 DEF GateInv, RoomLeft, Budget!TotalIsLedger, budgetVars, NoDay
  <2> QED
    BY <2>2, <2>4, <2>5, <2>6 DEF GateInv
<1>7. CASE RecordKept
  <2>1. CASE result.analyzed
    BY <1>7, <2>1, SpendGate
  <2>2. CASE ~result.analyzed
    <3>1. /\ UNCHANGED <<now, polled, lives, day, spent, ledger>>
          /\ grant' = NoDay /\ result' = NoResult /\ pc' = "hook"
      BY <1>7, <2>2 DEF RecordKept, schedVars, Fetch!Forget
    <3> QED
      BY <3>1, GrantReturned
  <2> QED
    BY <2>1, <2>2
<1>8. CASE HookReturns \/ HookRaises \/ Wake \/ Over \/ UNCHANGED vars
  <2>1. /\ UNCHANGED <<now, polled, lives, budgetVars, result>>
        /\ pc' = pc \/ {pc, pc'} \cap {"collect", "analyze", "record"} = {}
    BY <1>8 DEF HookReturns, HookRaises, Wake, Over, vars, schedVars
  <2>2. pc = "analyze" => grant # NoDay
    BY DEF GateInv, Held
  <2> QED
    BY <2>1, <2>2, NothingGranted
<1>9. CASE Restart
  <2>1. /\ now' = now /\ polled' = now /\ lives' = lives + 1 /\ pc' = "poll" /\ lives < MaxRestarts
        /\ day' = NoDay /\ spent' = 0 /\ grant' = NoDay /\ ledger' = ledger
        /\ result' = NoResult
    BY <1>9 DEF Restart, Fetch!Forget
  <2>2. Day(polled)' \in Nat
    BY <2>1, DayAdvances DEF GateInv, Dates, Day
  <2>3. Dates' /\ lives' # 0
    BY <2>1, <2>2, LoopAssumption DEF GateInv, Dates, NoResult, Days, NoDay, Budget!NoDay
  <2>4. Held'
    BY <2>1 DEF Held, NoResult, NoDay
  <2> QED
    BY <2>3, <2>4 DEF GateInv
<1>10. CASE Advance
  <2>1. /\ now' = now + 1 /\ now < Horizon
        /\ UNCHANGED <<pc, polled, lives, budgetVars, result>>
    BY <1>10 DEF Advance, schedVars
  <2>2. Dates'
    BY <2>1, LoopAssumption DEF GateInv, Dates, budgetVars, Day, Days, NoDay
  <2>3. Held'
    BY <2>1 DEF GateInv, Held, budgetVars, Day, NoDay
  <2>4. lives = 0 => RoomLeft'
    BY <2>1 DEF GateInv, RoomLeft, Budget!TotalIsLedger, budgetVars, NoDay
  <2> QED
    BY <2>1, <2>2, <2>3, <2>4 DEF GateInv
<1> QED
  BY <1>1, <1>2, <1>3, <1>4, <1>5, <1>6, <1>7, <1>8, <1>9, <1>10 DEF Next, Work

LEMMA GateInvariant == Spec => []GateInv
BY InitGate, NextGate, PTL DEF Spec

\* In a life that is not interrupted, the model is called only for the day of
\* the tick, while its ledger is below the cap, and never on conflicting data,
\* however long the awaits between can_afford and the call (loop.py:68-75,
\* orchestrator.py:152-172).
THEOREM GateCorrect == MaxRestarts = 0 => (Spec => CallGated)
<1> SUFFICES ASSUME MaxRestarts = 0 PROVE Spec => CallGated
  OBVIOUS
<1> DEFINE Gated == pc # "analyze" /\ pc' = "analyze" =>
                      /\ grant = Day(polled)
                      /\ ledger[grant] < MaxUsd
                      /\ quality' # "CONFLICTING"
<1>1. GateInv /\ [Next]_vars => [Gated]_vars
  <2> SUFFICES ASSUME GateInv, [Next]_vars, pc # "analyze", pc' = "analyze"
               PROVE  Gated
    OBVIOUS
  <2>1. CollectionEnds
    BY DEF Next, Work, TickHolds, TickFires, Collect, CollectionRaises, AnalysisReturns,
           AnalysisRaises, RecordKept, RecordRaises, CycleRaises, HookReturns, HookRaises,
           Wake, Restart, Advance, Over, vars
  <2>2. MayAnalyze /\ pc = "collect"
    BY <2>1 DEF CollectionEnds
  <2>3. lives = 0
    BY DEF GateInv, Dates
  <2> QED
    BY <2>2, <2>3 DEF MayAnalyze, GateInv, Held, RoomLeft
<1> QED
  BY <1>1, GateInvariant, PTL DEF Spec, CallGated

\* In such a life the loop uses the budget as DailyBudget says it is used:
\* every cycle is authorised or refused once and then pays once or not at all,
\* so that all that is proved of DailyBudget holds of the loop.
THEOREM BudgetImplemented == MaxRestarts = 0 => (Spec => KeepsBudget)
<1> SUFFICES ASSUME MaxRestarts = 0 PROVE Spec => KeepsBudget
  OBVIOUS
<1>1. Init => Budget!Init
  BY DEF Init
<1>2. GateInv /\ [Next]_vars => [Budget!Next]_(Budget!vars)
  <2> SUFFICES ASSUME GateInv, [Next]_vars PROVE Budget!Next \/ UNCHANGED budgetVars
    BY DEF Budget!vars, budgetVars
  <2>0. lives = 0 /\ MaxRestarts = 0
    BY DEF GateInv, Dates
  <2>1. CASE TickFires
    <3>1. /\ grant = NoDay /\ Budget!CanAfford(Day(now))
          /\ grant' = IF Budget!Affordable(Day(now)) THEN Day(now) ELSE NoDay
      BY <2>1 DEF TickFires, GateInv, Held
    <3>2. Day(now) \in Budget!Passable
      <4>1. /\ now \in 0 .. Horizon /\ {now, polled} \subseteq Nat /\ polled <= now
            /\ day <= Day(polled) /\ day \in Days \cup {NoDay}
        BY LoopAssumption DEF GateInv, Dates
      <4>2. /\ Day(now) \in Days /\ Day(now) \in Nat
            /\ Day(polled) <= Day(now) /\ Day(polled) \in Nat
        BY <4>1, DayOfClock, DayAdvances
      <4>3. day \in Int
        BY <4>1, LoopAssumption DEF Days, Budget!Days, NoDay, Budget!NoDay
      <4> QED
        BY <4>1, <4>2, <4>3 DEF Budget!Passable, Days
    <3>3. CASE Budget!Affordable(Day(now))
      BY <3>1, <3>2, <3>3 DEF Budget!Next, Budget!Authorise, NoDay
    <3>4. CASE ~Budget!Affordable(Day(now))
      BY <3>1, <3>2, <3>4 DEF Budget!Next, Budget!Refuse, NoDay
    <3> QED
      BY <3>3, <3>4
  <2>2. CASE RecordKept /\ result.analyzed
    <3>1. /\ Budget!RecordSpend(Day(polled), result.cost) /\ grant' = NoDay
      BY <2>2 DEF RecordKept, Spend
    <3>2. grant # NoDay /\ grant = Day(polled) /\ result.cost \in 0 .. MaxCost
      BY <2>2 DEF GateInv, Held, Dates
    <3> QED
      BY <3>1, <3>2 DEF Budget!Next, Budget!Pay, NoDay
  <2>3. ASSUME grant' = NoDay, UNCHANGED <<day, spent, ledger>>
        PROVE  Budget!Next \/ UNCHANGED budgetVars
    BY <2>3 DEF Budget!Next, Budget!Waive, NoDay, budgetVars
  <2>4. CASE RecordKept /\ ~result.analyzed
    BY <2>3, <2>4 DEF RecordKept
  <2>5. CASE CollectionRaises \/ AnalysisRaises \/ RecordRaises
    BY <2>3, <2>5 DEF CollectionRaises, AnalysisRaises, RecordRaises, CycleRaises
  <2>6. CASE Restart
    BY <2>0, <2>6 DEF Restart
  <2>7. CASE TickHolds \/ Collect \/ CollectionEnds \/ AnalysisReturns \/ HookReturns
               \/ HookRaises \/ Wake \/ Advance \/ Over \/ UNCHANGED vars
    BY <2>7 DEF TickHolds, Collect, CollectionEnds, AnalysisReturns, HookReturns,
                HookRaises, Wake, Advance, Over, vars
  <2> QED
    BY <2>1, <2>2, <2>4, <2>5, <2>6, <2>7 DEF Next, Work
<1> QED
  BY <1>1, <1>2, GateInvariant, PTL DEF Spec, KeepsBudget, Budget!Spec

-----------------------------------------------------------------------------
(* The invoice *)

\* What one life may be billed for the calls it authorised on one day
LifeCap == MaxUsd - 1 + MaxCost

\* The remembered day is overspent by less than a call, and has room while an
\* authorisation is out.
SpentBounded ==
  /\ spent <= LifeCap
  /\ grant # NoDay => spent < MaxUsd

\* A day that is over had a LifeCap from every life and the one call that came
\* from the day before.  The tick's day had them from the lives before this
\* one, and from this one what the budget knows of or is about to be told.  A
\* day after the tick's has at most the call that is answered late.
Charged ==
  /\ invoice \in [Days -> Nat]
  /\ \A d \in Days :
       /\ d < Day(polled) => invoice[d] <= (lives + 1) * LifeCap + MaxCost
       /\ d = Day(polled) /\ d = day =>
            invoice[d] <= lives * LifeCap + MaxCost + spent + result.cost
       /\ d = Day(polled) /\ d # day => invoice[d] <= lives * LifeCap + MaxCost
       /\ d > Day(polled) =>
            /\ invoice[d] <= MaxCost
            /\ pc \in {"collect", "analyze"} => invoice[d] = 0
       /\ d > Day(now) => invoice[d] = 0

InvoiceInv == GateInv /\ SpentBounded /\ Charged

LEMMA LifeNat ==
  ASSUME MaxUsd # 0
  PROVE  /\ LifeCap \in Nat /\ MaxCost \in Nat
         /\ \A n \in Nat : n * LifeCap \in Nat /\ (n + 1) * LifeCap = n * LifeCap + LifeCap
<1>1. LifeCap \in Nat /\ MaxCost \in Nat
  BY LoopAssumption DEF LifeCap
<1>2. \A n \in Nat : n * LifeCap \in Nat /\ (n + 1) * LifeCap = n * LifeCap + LifeCap
  BY <1>1, Z3
<1> QED
  BY <1>1, <1>2

LEMMA DayTypes ==
  ASSUME InvoiceInv
  PROVE  /\ \A d \in Days : d \in Nat
         /\ {Day(polled), Day(now)} \subseteq Days /\ Day(polled) <= Day(now)
         /\ NoDay \notin Nat
         /\ {spent, lives, result.cost} \subseteq Nat /\ result.cost <= MaxCost
         /\ day \in Int /\ day <= Day(polled)
<1>1. /\ {now, polled, lives} \subseteq Nat /\ polled <= now /\ now <= Horizon
      /\ Horizon \in Nat /\ MaxCost \in Nat
  BY LoopAssumption DEF InvoiceInv, GateInv, Dates
<1>2. {Day(polled), Day(now)} \subseteq Days /\ Day(polled) <= Day(now)
  BY <1>1, DayOfClock, DayAdvances
<1>3. (\A d \in Days : d \in Nat) /\ NoDay \notin Nat /\ NoDay \in Int
  BY DEF Days, Budget!Days, NoDay, Budget!NoDay
<1> QED
  BY <1>1, <1>2, <1>3 DEF InvoiceInv, GateInv, Dates

\* What this life spent and is about to be told of stays within its cap.
LEMMA LifeBounded ==
  ASSUME InvoiceInv
  PROVE  spent + result.cost <= LifeCap
<1>1. CASE result.analyzed
  BY <1>1, DayTypes, LoopAssumption DEF InvoiceInv, GateInv, Held, SpentBounded, LifeCap
<1>2. CASE ~result.analyzed
  BY <1>2, DayTypes, LoopAssumption DEF InvoiceInv, GateInv, Held, SpentBounded, LifeCap
<1> QED
  BY <1>1, <1>2

LEMMA InitInvoice ==
  ASSUME MaxUsd # 0, Init
  PROVE  InvoiceInv
<1>1. GateInv
  BY InitGate
<1>2. /\ spent = 0 /\ grant = NoDay /\ lives = 0 /\ result.cost = 0
      /\ invoice = [d \in Days |-> 0]
  BY DEF Init, Budget!Init, NoResult, NoDay
<1>3. SpentBounded
  BY <1>2, LifeNat DEF SpentBounded
<1>4. /\ (lives + 1) * LifeCap \in Nat /\ lives * LifeCap \in Nat /\ MaxCost \in Nat
  BY <1>2, LifeNat
<1>5. Charged
  BY <1>2, <1>4 DEF Charged
<1> QED
  BY <1>1, <1>3, <1>5 DEF InvoiceInv

\* A step that neither bills nor spends, and in which no tick reads the clock
LEMMA NothingCharged ==
  ASSUME InvoiceInv, UNCHANGED <<polled, lives, day, spent, invoice>>,
         result'.cost = result.cost,
         grant' \in {grant, NoDay},
         pc' \in {"collect", "analyze"} => pc \in {"collect", "analyze"},
         now' = now \/ (now' = now + 1 /\ now' <= Horizon)
  PROVE  SpentBounded' /\ Charged'
<1>1. SpentBounded'
  BY DEF InvoiceInv, SpentBounded, LifeCap, NoDay
<1>2. Day(now) <= Day(now)' /\ {Day(now), Day(now)'} \subseteq Nat
  <2>1. {now, now'} \subseteq Nat /\ now <= now'
    BY DEF InvoiceInv, GateInv, Dates
  <2>2. Day(now)' = Day(now')
    BY DEF Day
  <2> QED
    BY <2>1, <2>2, DayAdvances
<1>3. Day(polled)' = Day(polled) /\ LifeCap' = LifeCap /\ Days' = Days
  BY DEF Day, LifeCap, Days
<1>4. \A d \in Days : d \in Nat
  BY DayTypes
<1>5. \A d \in Days : d > Day(now)' => d > Day(now)
  BY <1>2, <1>4
<1> QED
  BY <1>1, <1>3, <1>5 DEF InvoiceInv, Charged

\* A tick reads the clock.  Days that are over are closed, and the budget may
\* roll its day.
LEMMA TickCharged ==
  ASSUME MaxUsd # 0, InvoiceInv, pc = "poll", pc' \in {"sleep", "collect"},
         polled' = now, UNCHANGED <<now, lives, invoice, result>>,
         \/ UNCHANGED <<day, spent, grant>>
         \/ /\ day' = Day(now) /\ spent' = IF Day(now) # day THEN 0 ELSE spent
            /\ grant' # NoDay => spent' < MaxUsd
  PROVE  SpentBounded' /\ Charged'
<1> DEFINE p == Day(polled)
           n == Day(now)
           Own == lives * LifeCap
           All == (lives + 1) * LifeCap
<1>1. /\ \A d \in Days : d \in Nat
      /\ {p, n} \subseteq Nat /\ p <= n
      /\ {spent, lives, result.cost} \subseteq Nat
      /\ day \in Int /\ day <= p
  BY DayTypes
<1>2. LifeCap \in Nat /\ MaxCost \in Nat /\ Own \in Nat /\ All = Own + LifeCap
  BY <1>1, LifeNat
<1>3. Day(polled)' = n /\ Day(now)' = n /\ LifeCap' = LifeCap /\ Days' = Days
  BY DEF Day, LifeCap, Days
<1>4. result.cost = 0
  BY DEF InvoiceInv, GateInv, Held, NoResult
<1>5. SpentBounded'
  BY <1>2 DEF InvoiceInv, SpentBounded, LifeCap, NoDay
<1>6. spent <= LifeCap /\ invoice \in [Days -> Nat]
  BY DEF InvoiceInv, SpentBounded, Charged
<1>7. ASSUME NEW d \in Days
      PROVE  /\ d < p => invoice[d] <= All + MaxCost
             /\ d = p /\ d = day => invoice[d] <= Own + MaxCost + spent
             /\ d = p /\ d # day => invoice[d] <= Own + MaxCost
             /\ d > p => invoice[d] <= MaxCost
             /\ d > n => invoice[d] = 0
  BY <1>1, <1>2, <1>4, <1>6 DEF InvoiceInv, Charged
<1>8. \/ day' = day /\ spent' = spent
      \/ day' = n /\ spent' = IF n # day THEN 0 ELSE spent
  OBVIOUS
<1> HIDE DEF p, n, Own, All
<1>9. ASSUME NEW d \in Days
      PROVE  /\ d < n => invoice[d] <= All + MaxCost
             /\ d = n /\ d = day' => invoice[d] <= Own + MaxCost + spent'
             /\ d = n /\ d # day' => invoice[d] <= Own + MaxCost
             /\ d > n => invoice[d] = 0
  <2>1. d \in Nat /\ invoice[d] \in Nat
    BY <1>1, <1>6
  <2>2. d < n => invoice[d] <= All + MaxCost
    BY <1>1, <1>2, <1>6, <1>7, <2>1
  <2>3. d = n /\ d = day' => invoice[d] <= Own + MaxCost + spent'
    BY <1>1, <1>2, <1>6, <1>7, <1>8, <2>1
  <2>4. d = n /\ d # day' => invoice[d] <= Own + MaxCost
    BY <1>1, <1>2, <1>6, <1>7, <1>8, <2>1
  <2> QED
    BY <1>7, <2>2, <2>3, <2>4
<1>10. Charged'
  <2>1. invoice' \in [Days' -> Nat]
    BY <1>3, <1>6
  <2>2. ASSUME NEW d \in Days
        PROVE  /\ d < n => invoice'[d] <= (lives' + 1) * LifeCap + MaxCost
               /\ d = n /\ d = day' =>
                    invoice'[d] <= lives' * LifeCap + MaxCost + spent' + result'.cost
               /\ d = n /\ d # day' => invoice'[d] <= lives' * LifeCap + MaxCost
               /\ d > n => /\ invoice'[d] <= MaxCost
                           /\ pc' \in {"collect", "analyze"} => invoice'[d] = 0
               /\ d > n => invoice'[d] = 0
    <3>1. Own + MaxCost + spent' + result'.cost = Own + MaxCost + spent'
      BY <1>1, <1>2, <1>4, <1>8
    <3> QED
      BY <1>2, <1>9, <3>1 DEF Own, All
  <2> QED
    BY <1>3, <2>1, <2>2 DEF Charged
<1> QED
  BY <1>5, <1>10

\* The answer is billed on the day it comes, the tick's or a later one, and the
\* result carries the cost to the budget.
LEMMA AnswerCharged ==
  ASSUME MaxUsd # 0, InvoiceInv, AnalysisReturns
  PROVE  SpentBounded' /\ Charged'
<1> DEFINE p == Day(polled)
           n == Day(now)
           Own == lives * LifeCap
           All == (lives + 1) * LifeCap
<1>1. PICK c \in 0 .. MaxCost, verdict \in {"none", "rejected", "approved"} :
        result' = [analyzed |-> TRUE, cost |-> c, verdict |-> verdict] /\ Bill(c)
  BY DEF AnalysisReturns
<1>2. /\ pc = "analyze" /\ pc' = "record"
      /\ UNCHANGED <<now, polled, lives, day, spent, grant>>
      /\ invoice' = [invoice EXCEPT ![n] = @ + c] /\ result'.cost = c
  BY <1>1 DEF AnalysisReturns, schedVars, budgetVars, Bill
<1>3. /\ \A d \in Days : d \in Nat
      /\ {p, n} \subseteq Nat /\ p <= n /\ n \in Days
      /\ {spent, lives} \subseteq Nat
      /\ day = p /\ result.cost = 0 /\ c \in Nat /\ c <= MaxCost
  BY <1>2, DayTypes, LoopAssumption DEF InvoiceInv, GateInv, Held, NoResult
<1>4. LifeCap \in Nat /\ MaxCost \in Nat /\ Own \in Nat /\ All = Own + LifeCap
  BY <1>3, LifeNat
<1>5. Day(polled)' = p /\ Day(now)' = n /\ LifeCap' = LifeCap /\ Days' = Days
  BY <1>2 DEF Day, LifeCap, Days
<1>6. SpentBounded'
  BY <1>2, <1>5 DEF InvoiceInv, SpentBounded, NoDay
<1>7. invoice \in [Days -> Nat]
  BY DEF InvoiceInv, Charged
<1>8. ASSUME NEW d \in Days
      PROVE  /\ d < p => invoice[d] <= All + MaxCost
             /\ d = p => invoice[d] <= Own + MaxCost + spent
             /\ d > p => invoice[d] = 0
  BY <1>2, <1>3, <1>4, <1>7 DEF InvoiceInv, Charged
<1> HIDE DEF p, n, Own, All
<1>9. ASSUME NEW d \in Days
      PROVE  /\ d < p => invoice'[d] <= All + MaxCost
             /\ d = p => invoice'[d] <= Own + MaxCost + spent + c
             /\ d > p => invoice'[d] <= MaxCost
             /\ d > n => invoice'[d] = 0
  <2>1. CASE d = n
    <3>1. invoice'[d] = invoice[d] + c /\ ~(d < p) /\ ~(d > n)
      BY <1>2, <1>3, <1>7, <2>1
    <3> QED
      BY <1>3, <1>4, <1>7, <1>8, <3>1
  <2>2. CASE d # n
    <3>1. invoice'[d] = invoice[d] /\ invoice[d] \in Nat /\ d \in Nat
      BY <1>2, <1>3, <1>7, <2>2
    <3> QED
      BY <1>3, <1>4, <1>8, <3>1
  <2> QED
    BY <2>1, <2>2
<1>10. invoice' \in [Days -> Nat]
  <2>1. invoice[n] + c \in Nat
    BY <1>3, <1>7
  <2> QED
    BY <1>2, <1>7, <2>1
<1>11. Charged'
  BY <1>2, <1>3, <1>5, <1>9, <1>10 DEF Charged, Own, All
<1> QED
  BY <1>6, <1>11

\* The cost of an analysis moves from the result to the budget.
LEMMA SpendCharged ==
  ASSUME MaxUsd # 0, InvoiceInv, RecordKept, result.analyzed
  PROVE  SpentBounded' /\ Charged'
<1>1. /\ UNCHANGED <<now, polled, lives, invoice>> /\ pc = "record" /\ pc' = "hook"
      /\ result'.cost = 0 /\ grant' = NoDay
      /\ day' = Day(polled) /\ spent' = Budget!Rolled(Day(polled)) + result.cost
  BY DEF RecordKept, schedVars, billVars, Spend, Budget!RecordSpend, Fetch!Forget, NoResult
<1>2. day = Day(polled)
  BY <1>1 DEF InvoiceInv, GateInv, Held
<1>3. spent' = spent + result.cost /\ day' = day
  BY <1>1, <1>2 DEF Budget!Rolled
<1>4. SpentBounded'
  BY <1>1, <1>3, LifeBounded DEF SpentBounded, LifeCap, NoDay
<1>5. Day(polled)' = Day(polled) /\ Day(now)' = Day(now) /\ LifeCap' = LifeCap /\ Days' = Days
  BY <1>1 DEF Day, LifeCap, Days
<1>6. {lives * LifeCap, MaxCost, spent, result.cost} \subseteq Nat
  BY DayTypes, LifeNat
<1> DEFINE Own == lives * LifeCap
<1>7. Own + MaxCost + spent' + result'.cost = Own + MaxCost + spent + result.cost
  <2> HIDE DEF Own
  <2>1. {Own, MaxCost, spent, result.cost} \subseteq Nat
    BY <1>6 DEF Own
  <2> QED
    BY <1>1, <1>3, <2>1
<1>8. ASSUME NEW d \in Days, d = Day(polled), d = day
      PROVE  invoice[d] <= Own + MaxCost + spent + result.cost
  BY <1>8 DEF InvoiceInv, Charged
<1>9. Charged'
  BY <1>1, <1>3, <1>5, <1>7, <1>8 DEF InvoiceInv, Charged
<1> QED
  BY <1>4, <1>9

\* A restart forgets the budget: a new life has a cap of its own, for the day
\* on which it starts and for the days after it.
LEMMA RestartCharged ==
  ASSUME MaxUsd # 0, InvoiceInv, Restart
  PROVE  SpentBounded' /\ Charged'
<1> DEFINE p == Day(polled)
           n == Day(now)
           Own == lives * LifeCap
           All == (lives + 1) * LifeCap
           More == (lives + 2) * LifeCap
<1>1. PICK c \in IF pc = "analyze" THEN 0 .. MaxCost ELSE {0} : Bill(c)
  BY DEF Restart
<1>2. /\ now' = now /\ polled' = now /\ lives' = lives + 1 /\ pc' = "poll"
      /\ day' = NoDay /\ spent' = 0 /\ grant' = NoDay /\ result'.cost = 0
      /\ invoice' = [invoice EXCEPT ![n] = @ + c]
  BY <1>1 DEF Restart, Fetch!Forget, Bill, NoResult
<1>3. /\ \A d \in Days : d \in Nat /\ d # NoDay
      /\ {p, n} \subseteq Nat /\ p <= n /\ n \in Days
      /\ {spent, lives, result.cost} \subseteq Nat
      /\ day \in Int /\ day <= p
  BY DayTypes
<1>4. /\ LifeCap \in Nat /\ MaxCost \in Nat /\ Own \in Nat
      /\ All = Own + LifeCap /\ More = Own + LifeCap + LifeCap
  <2>1. lives + 1 \in Nat /\ (lives + 1) + 1 = lives + 2
    BY <1>3
  <2>2. More = All + LifeCap
    BY <2>1, LifeNat
  <2>3. LifeCap \in Nat /\ MaxCost \in Nat /\ Own \in Nat /\ All = Own + LifeCap
    BY <1>3, LifeNat
  <2> QED
    BY <2>2, <2>3
<1>5. Day(polled)' = n /\ Day(now)' = n /\ LifeCap' = LifeCap /\ Days' = Days
  BY <1>2 DEF Day, LifeCap, Days
<1>6. SpentBounded'
  BY <1>2, <1>4, <1>5 DEF SpentBounded, NoDay
<1>7. c \in Nat /\ c <= MaxCost /\ spent + result.cost <= LifeCap
  BY <1>4, LifeBounded
<1>8. c # 0 => day = p /\ spent + result.cost + c <= LifeCap
  <2>1. SUFFICES ASSUME c # 0 PROVE day = p /\ spent + result.cost + c <= LifeCap
    OBVIOUS
  <2>2. pc = "analyze"
    BY <2>1
  <2>3. day = p /\ result.cost = 0 /\ spent < MaxUsd
    BY <2>2 DEF InvoiceInv, GateInv, Held, SpentBounded, NoResult
  <2> QED
    BY <1>3, <1>4, <1>7, <2>3, LoopAssumption DEF LifeCap
<1>9. invoice \in [Days -> Nat]
  BY DEF InvoiceInv, Charged
<1>10. ASSUME NEW d \in Days
       PROVE  /\ d < p => invoice[d] <= All + MaxCost
              /\ d = p /\ d = day => invoice[d] <= Own + MaxCost + spent + result.cost
              /\ d = p /\ d # day => invoice[d] <= Own + MaxCost
              /\ d > p => invoice[d] <= MaxCost /\ (c # 0 => invoice[d] = 0)
              /\ d > n => invoice[d] = 0
  BY DEF InvoiceInv, Charged
<1> HIDE DEF p, n, Own, All, More
<1>11. ASSUME NEW d \in Days
       PROVE  /\ d < n => invoice'[d] <= More + MaxCost
              /\ d = n => invoice'[d] <= All + MaxCost
              /\ d > n => invoice'[d] = 0
  <2>1. d \in Nat /\ invoice[d] \in Nat
    BY <1>3, <1>9
  <2>2. CASE d = n
    <3>1. invoice'[d] = invoice[d] + c
      BY <1>2, <1>9, <2>2
    <3>2. CASE d = p
      BY <1>3, <1>4, <1>7, <1>8, <1>10, <2>1, <2>2, <3>1, <3>2
    <3>3. CASE d > p
      BY <1>3, <1>4, <1>7, <1>10, <2>1, <2>2, <3>1, <3>3
    <3> QED
      BY <1>3, <2>2, <3>2, <3>3
  <2>3. CASE d # n
    <3>1. invoice'[d] = invoice[d]
      BY <1>2, <1>9, <2>3
    <3>2. invoice[d] <= More + MaxCost
      BY <1>3, <1>4, <1>7, <1>10, <2>1
    <3> QED
      BY <1>10, <2>3, <3>1, <3>2
  <2> QED
    BY <2>2, <2>3
<1>12. invoice' \in [Days -> Nat]
  <2>1. invoice[n] + c \in Nat
    BY <1>3, <1>7, <1>9
  <2> QED
    BY <1>2, <1>9, <2>1
<1>13. Charged'
  <2>1. (lives' + 1) * LifeCap' = More /\ lives' * LifeCap' = All
    <3>1. lives' = lives + 1 /\ (lives + 1) + 1 = lives + 2
      BY <1>2, <1>3
    <3> QED
      BY <1>5, <3>1 DEF More, All
  <2>2. ASSUME NEW d \in Days PROVE d > n => invoice'[d] <= MaxCost
    BY <1>4, <1>11
  <2> QED
    BY <1>2, <1>3, <1>5, <1>11, <1>12, <2>1, <2>2 DEF Charged
<1> QED
  BY <1>6, <1>13

LEMMA NextInvoice ==
  ASSUME MaxUsd # 0, ~BilledMayRaise, ~RecordMayRaise,
         InvoiceInv, [Next]_vars
  PROVE  InvoiceInv'
<1> SUFFICES SpentBounded' /\ Charged'
  BY NextGate DEF InvoiceInv
<1>1. CASE TickHolds
  <2>1. /\ pc = "poll" /\ pc' = "sleep" /\ polled' = now
        /\ UNCHANGED <<now, lives, invoice, result, day, spent, grant>>
    BY <1>1 DEF TickHolds, Sched!Hold, billVars, budgetVars
  <2> QED
    BY <2>1, TickCharged
<1>2. CASE TickFires
  <2>1. /\ pc = "poll" /\ pc' = "collect" /\ polled' = now
        /\ UNCHANGED <<now, lives, invoice, result>>
        /\ day' = Day(now) /\ spent' = IF Day(now) # day THEN 0 ELSE spent
        /\ grant' # NoDay => spent' < MaxUsd
    BY <1>2 DEF TickFires, Sched!Fire, billVars, Budget!CanAfford, Budget!Rolled,
                Budget!Affordable
  <2> QED
    BY <2>1, TickCharged
<1>3. CASE Collect
  <2>1. UNCHANGED <<now, polled, lives, day, spent, grant, invoice, result, pc>>
    BY <1>3 DEF Collect, schedVars, billVars, budgetVars, Fetch!StampTime,
                Fetch!SkewMeasured, Fetch!InstrumentKnown, Fetch!StampBook
  <2> QED
    BY <2>1, NothingCharged
<1>4. CASE CollectionEnds
  <2>1. /\ UNCHANGED <<now, polled, lives, day, spent, grant, invoice>>
        /\ pc = "collect" /\ result' \in {Skipped, result}
    BY <1>4 DEF CollectionEnds, schedVars, billVars, budgetVars, Fetch!Gathered
  <2>2. result.cost = 0
    BY <2>1 DEF InvoiceInv, GateInv, Held, NoResult
  <2>3. result'.cost = result.cost
    BY <2>1, <2>2 DEF Skipped
  <2> QED
    BY <2>1, <2>3, NothingCharged
<1>5. CASE CollectionRaises \/ AnalysisRaises
  <2>1. /\ UNCHANGED <<now, polled, lives, day, spent>> /\ pc \in {"collect", "analyze"}
        /\ grant' = NoDay /\ result' = NoResult /\ pc' = "sleep"
    BY <1>5 DEF CollectionRaises, AnalysisRaises, CycleRaises, schedVars, Fetch!Forget
  <2>2. invoice' = invoice
    <3>1. CASE CollectionRaises
      BY <3>1 DEF CollectionRaises, billVars
    <3>2. CASE AnalysisRaises
      <4>1. invoice' = [invoice EXCEPT ![Day(now)] = @ + 0]
        BY <3>2 DEF AnalysisRaises, Bill
      <4>2. invoice \in [Days -> Nat]
        BY DEF InvoiceInv, Charged
      <4> QED
        BY <4>1, <4>2
    <3> QED
      BY <1>5, <3>1, <3>2
  <2>3. result'.cost = result.cost
    BY <2>1 DEF InvoiceInv, GateInv, Held, NoResult
  <2> QED
    BY <2>1, <2>2, <2>3, NothingCharged
<1>6. CASE AnalysisReturns
  BY <1>6, AnswerCharged
<1>7. CASE RecordKept
  <2>1. CASE result.analyzed
    BY <1>7, <2>1, SpendCharged
  <2>2. CASE ~result.analyzed
    <3>1. /\ UNCHANGED <<now, polled, lives, day, spent, invoice>>
          /\ grant' = NoDay /\ result'.cost = 0 /\ pc' = "hook"
      BY <1>7, <2>2 DEF RecordKept, schedVars, billVars, Fetch!Forget, NoResult
    <3>2. result.cost = 0
      BY <2>2 DEF InvoiceInv, GateInv, Held
    <3> QED
      BY <3>1, <3>2, NothingCharged
  <2> QED
    BY <2>1, <2>2
<1>8. CASE HookReturns \/ HookRaises \/ Wake \/ Over \/ UNCHANGED vars
  <2>1. /\ UNCHANGED <<now, polled, lives, day, spent, grant, invoice, result>>
        /\ pc' \in {"collect", "analyze"} => pc \in {"collect", "analyze"}
    BY <1>8 DEF HookReturns, HookRaises, Wake, Over, vars, schedVars, budgetVars, billVars
  <2> QED
    BY <2>1, NothingCharged
<1>9. CASE Restart
  BY <1>9, RestartCharged
<1>10. CASE Advance
  <2>1. /\ now' = now + 1 /\ now < Horizon /\ now \in Nat /\ Horizon \in Nat
        /\ UNCHANGED <<polled, lives, day, spent, grant, invoice, result, pc>>
    BY <1>10, LoopAssumption
       DEF Advance, schedVars, budgetVars, billVars, InvoiceInv, GateInv, Dates
  <2>2. now' <= Horizon
    BY <2>1
  <2> QED
    BY <2>1, <2>2, NothingCharged
<1>11. ~RecordRaises
  BY DEF RecordRaises
<1> QED
  BY <1>1, <1>2, <1>3, <1>4, <1>5, <1>6, <1>7, <1>8, <1>9, <1>10, <1>11 DEF Next, Work

\* As long as a call that was billed does not raise and every record is kept,
\* no day is billed more than a cap for every life of the process, each overrun
\* by less than a call, and one call that was authorised the day before
\* (scheduler.py:9-10 and 76-98, loop.py:68-85).
THEOREM InvoiceCorrect ==
  MaxUsd # 0 /\ ~BilledMayRaise /\ ~RecordMayRaise => (Spec => []InvoiceCapped)
<1> SUFFICES ASSUME MaxUsd # 0, ~BilledMayRaise, ~RecordMayRaise
             PROVE  Spec => []InvoiceCapped
  OBVIOUS
<1>1. Init => InvoiceInv
  BY InitInvoice
<1>2. InvoiceInv /\ [Next]_vars => InvoiceInv'
  BY NextInvoice
<1>3. InvoiceInv => InvoiceCapped
  <2> SUFFICES ASSUME InvoiceInv, NEW d \in Days
               PROVE  invoice[d] <= (lives + 1) * LifeCap + MaxCost
    BY DEF InvoiceCapped, LifeCap
  <2> DEFINE Own == lives * LifeCap
             All == (lives + 1) * LifeCap
  <2>1. /\ d \in Nat /\ Day(polled) \in Nat /\ {spent, lives, result.cost} \subseteq Nat
        /\ spent + result.cost <= LifeCap
    BY DayTypes, LifeBounded
  <2>2. LifeCap \in Nat /\ MaxCost \in Nat /\ Own \in Nat /\ All = Own + LifeCap
    BY <2>1, LifeNat
  <2>3. /\ d < Day(polled) => invoice[d] <= All + MaxCost
        /\ d = Day(polled) /\ d = day => invoice[d] <= Own + MaxCost + spent + result.cost
        /\ d = Day(polled) /\ d # day => invoice[d] <= Own + MaxCost
        /\ d > Day(polled) => invoice[d] <= MaxCost
        /\ invoice[d] \in Nat
    BY DEF InvoiceInv, Charged
  <2> HIDE DEF Own, All
  <2>4. invoice[d] <= All + MaxCost
    BY <2>1, <2>2, <2>3
  <2> QED
    BY <2>4 DEF All
<1> QED
  BY <1>1, <1>2, <1>3, PTL DEF Spec

-----------------------------------------------------------------------------
(* Types *)

\* What no other invariant says: the history of the scheduler, and what the
\* collection may hold at any of its awaits.
Learnt ==
  /\ decided \in SUBSET Nat /\ born \in Nat
  /\ phase \in Fetch!Phases
  /\ injected \in BOOLEAN
  /\ asked \in 0 .. Horizon \cup {Unset}
  /\ server \in Int \cup {Unset} /\ offset \in Int \cup {Unset}
  /\ bookTs \in Int \cup {Unset} /\ age \in Int \cup {Unset}
  /\ quality \in {"none", "CONFLICTING", "STALE", "VALID"}
  /\ gathered \in 0 .. Horizon \cup {Unset}

LEMMA InitLearnt == Init => Learnt
<1> SUFFICES ASSUME Init PROVE Learnt
  OBVIOUS
<1>1. now \in Nat
  BY LoopAssumption DEF Init
<1>2. /\ decided = {} /\ born = now /\ phase = "idle" /\ injected = FALSE /\ quality = "none"
      /\ asked = Unset /\ server = Unset /\ offset = Unset /\ bookTs = Unset
      /\ age = Unset /\ gathered = Unset
  BY DEF Init
<1> QED
  BY <1>1, <1>2 DEF Learnt, Fetch!Phases

\* Forgetting the collection leaves nothing ill-typed.
LEMMA ForgetLearnt ==
  ASSUME Learnt, Fetch!Forget, decided' = decided, born' \in Nat
  PROVE  Learnt'
BY DEF Learnt, Fetch!Forget, Fetch!Phases

\* A step that learns nothing
LEMMA NothingLearnt ==
  ASSUME Learnt, UNCHANGED <<fetchVars, decided, born>>
  PROVE  Learnt'
BY DEF Learnt, fetchVars

LEMMA CollectLearnt ==
  ASSUME Learnt, AgeInv, Collect
  PROVE  Learnt'
<1>1. decided' = decided /\ born' = born /\ pc = "collect"
  BY DEF Collect, schedVars
<1>2. {now, since} \subseteq Nat
  BY DEF AgeInv, OnTime
<1>3. CASE Fetch!StampTime
  <2>1. server' \in Int
    BY <1>2, <1>3, LoopAssumption DEF Fetch!StampTime, Fetch!ServerClock
  <2> QED
    BY <1>1, <1>3, <2>1 DEF Fetch!StampTime, Learnt
<1>4. CASE Fetch!SkewMeasured
  <2>1. server \in Int /\ (since + now) \div 2 \in Int
    BY <1>1, <1>2, <1>4 DEF Fetch!SkewMeasured, AgeInv, Obtained
  <2>2. offset' \in Int
    BY <1>4, <2>1 DEF Fetch!SkewMeasured, Fetch!Offset
  <2> QED
    BY <1>1, <1>4, <2>2 DEF Fetch!SkewMeasured, Learnt, Fetch!Phases
<1>5. CASE Fetch!InstrumentKnown
  BY <1>1, <1>5 DEF Fetch!InstrumentKnown, Learnt, Fetch!Phases
<1>6. CASE Fetch!StampBook
  <2>1. PICK lag \in 0 .. MaxLag : bookTs' = Fetch!ServerClock - lag
    BY <1>6 DEF Fetch!StampBook
  <2>2. bookTs' \in Int
    BY <1>2, <2>1, LoopAssumption DEF Fetch!ServerClock
  <2> QED
    BY <1>1, <1>6, <2>2 DEF Fetch!StampBook, Learnt
<1> QED
  BY <1>3, <1>4, <1>5, <1>6 DEF Collect

LEMMA NextLearnt ==
  ASSUME Learnt, AgeInv, GateInv, [Next]_vars
  PROVE  Learnt'
<1>1. CASE TickHolds
  <2>1. UNCHANGED <<fetchVars, decided, born>>
    BY <1>1 DEF TickHolds, Sched!Hold, Sched!Kept
  <2> QED
    BY <2>1, NothingLearnt
<1>2. CASE TickFires
  <2>1. /\ decided' = decided \cup {Sched!LastClose(now)} /\ born' = born
        /\ phase' = "skew" /\ asked' = now /\ injected' = TRUE
        /\ UNCHANGED <<server, offset, bookTs, age, quality, gathered>>
    BY <1>2 DEF TickFires, Sched!Fire, Sched!Kept, Fetch!Ask
  <2>2. now \in 0 .. Horizon
    BY LoopAssumption DEF AgeInv, OnTime
  <2>3. Sched!LastClose(now) \in Nat
    BY <2>2, CloseBounds
  <2> QED
    BY <2>1, <2>2, <2>3 DEF Learnt, Fetch!Phases
<1>3. CASE Collect
  BY <1>3, CollectLearnt
<1>4. CASE CollectionEnds
  <2>1. /\ pc = "collect" /\ phase = "gather" /\ bookTs # Unset
        /\ age' = Fetch!DataAge(IF injected THEN asked ELSE now, offset, bookTs)
        /\ phase' = "done" /\ gathered' = now
        /\ UNCHANGED <<now, asked, injected, server, offset, bookTs, decided, born>>
    BY <1>4 DEF CollectionEnds, Fetch!Gathered, schedVars
  <2>2. PICK intact \in BOOLEAN : quality' = Fetch!Status(age', offset, intact)
    BY <1>4 DEF CollectionEnds, Fetch!Gathered
  <2>3. quality' \in {"CONFLICTING", "STALE", "VALID"}
    BY <2>2 DEF Fetch!Status
  <2>4. /\ asked = polled /\ injected = TRUE /\ offset \in Int /\ bookTs \in Int
        /\ polled \in Nat /\ now \in 0 .. Horizon
    BY <2>1, LoopAssumption DEF AgeInv, OnTime, Obtained, Measured
  <2>5. age' \in Int
    BY <2>1, <2>4 DEF Fetch!DataAge
  <2> QED
    BY <2>1, <2>3, <2>4, <2>5 DEF Learnt, Fetch!Phases
<1>5. CASE CollectionRaises \/ AnalysisRaises \/ RecordRaises \/ RecordKept
  <2>1. Fetch!Forget /\ decided' = decided /\ born' = born
    BY <1>5 DEF CollectionRaises, AnalysisRaises, RecordRaises, RecordKept, CycleRaises,
                schedVars
  <2> QED
    BY <2>1, ForgetLearnt DEF Learnt
<1>6. CASE Restart
  <2>1. Fetch!Forget /\ decided' = decided /\ born' = now
    BY <1>6 DEF Restart
  <2> QED
    BY <2>1, ForgetLearnt DEF AgeInv, OnTime
<1>7. CASE AnalysisReturns \/ HookReturns \/ HookRaises \/ Wake \/ Advance \/ Over
             \/ UNCHANGED vars
  <2>1. UNCHANGED <<fetchVars, decided, born>>
    BY <1>7 DEF AnalysisReturns, HookReturns, HookRaises, Wake, Advance, Over, vars, schedVars,
                fetchVars
  <2> QED
    BY <2>1, NothingLearnt
<1> QED
  BY <1>1, <1>2, <1>3, <1>4, <1>5, <1>6, <1>7 DEF Next, Work

TypeInv == Learnt /\ LogInv /\ OrderInv /\ AgeInv /\ GateInv

\* The loop and its components keep their types, whatever fails, and within
\* the bounds on clock and restarts.
THEOREM TypeCorrect == Spec => []TypeOK
<1>1. Init => TypeInv
  BY InitLearnt, InitLog, InitOrder, InitAge, InitGate DEF TypeInv
<1>2. TypeInv /\ [Next]_vars => TypeInv'
  BY NextLearnt, NextLog, NextOrder, NextAge, NextGate DEF TypeInv
<1>3. TypeInv => TypeOK
  <2> SUFFICES ASSUME TypeInv PROVE TypeOK
    OBVIOUS
  <2>1. Learnt /\ LogInv /\ BookInv /\ Counts /\ Clocks /\ OnTime /\ Dates /\ Held
    BY DEF TypeInv, LogInv, BookInv, OrderInv, AgeInv, GateInv
  <2>2. Sched!TypeOK
    BY <2>1 DEF Sched!TypeOK, Learnt, Counts, Clocks
  <2>3. Budget!TypeOK
    <3>1. polled \in 0 .. Horizon
      BY <2>1, LoopAssumption DEF Dates
    <3>2. Day(polled) \in Days
      BY <3>1, DayOfClock
    <3> QED
      BY <2>1, <3>2 DEF Budget!TypeOK, Dates, Held, Days, NoDay
  <2>4. Fetch!TypeOK
    <3>1. now \in 0 .. Horizon /\ since \in 0 .. Horizon
      BY <2>1, LoopAssumption DEF OnTime
    <3> QED
      BY <2>1, <3>1 DEF Fetch!TypeOK, Learnt
  <2>5. lives \in 0 .. MaxRestarts
    BY <2>1, LoopAssumption DEF OnTime
  <2> QED
    BY <2>1, <2>2, <2>3, <2>4, <2>5 DEF TypeOK, OnTime, LogInv, Counts
<1> QED
  BY <1>1, <1>2, <1>3, PTL DEF Spec

-----------------------------------------------------------------------------
(* The order of the log, read back *)

\* The measured offset may run ahead of the real one, by no more than the time
\* its request took after the tick read the clock.
Ahead ==
  /\ pc = "collect" => polled <= since
  /\ pc = "collect" /\ phase \in {"instrument", "gather"} => polled + offset <= Drift + since
  /\ pc \in {"analyze", "record"} => polled + offset <= Drift + since

\* A pause after a record was kept, the clock of the exchange is past its stamp by
\* a pause.
Stamps ==
  /\ \A i \in DOMAIN log :
       /\ log[i].ts \in Int
       /\ log[i].ts <= Drift + since
       /\ pc = "poll" => log[i].ts + PollInterval <= Drift + now
       /\ pc \in {"collect", "analyze", "record"} => log[i].ts + PollInterval <= Drift + polled
  /\ StampsNearlyOrdered

StampInv == AgeInv /\ (\E S : log \in Seq(S)) /\ Ahead /\ (lives = 0 => Stamps)

LEMMA InitStamp == Init => StampInv
<1> SUFFICES ASSUME Init PROVE StampInv
  OBVIOUS
<1>1. log \in Seq(Nat) /\ DOMAIN log = {} /\ pc = "poll"
  BY DEF Init, Log!Init
<1> QED
  BY <1>1, InitAge DEF StampInv, Ahead, Stamps, StampsNearlyOrdered

\* A step that records nothing and stays in the cycle or out of it, while the
\* awaits only follow each other
LEMMA NothingStamped ==
  ASSUME StampInv, UNCHANGED <<log, polled, lives>>,
         now' \in Nat, since' \in Nat, now <= now', since <= since',
         pc' # "poll" \/ pc' = pc,
         pc' \in {"collect", "analyze", "record"} => pc \in {"collect", "analyze", "record"}
  PROVE  /\ \E S : log' \in Seq(S)
         /\ lives' = 0 => Stamps'
<1>1. /\ {now, since, polled} \subseteq Nat /\ Drift \in Int /\ PollInterval \in Nat
  BY LoopAssumption DEF StampInv, AgeInv, OnTime
<1>2. ASSUME lives = 0 PROVE Stamps'
  <2>1. Stamps
    BY <1>2 DEF StampInv
  <2>2. ASSUME NEW i \in DOMAIN log
        PROVE  /\ log[i].ts \in Int
               /\ log[i].ts <= Drift + since'
               /\ pc' = "poll" => log[i].ts + PollInterval <= Drift + now'
               /\ pc' \in {"collect", "analyze", "record"} =>
                    log[i].ts + PollInterval <= Drift + polled
    <3>1. /\ log[i].ts \in Int
          /\ log[i].ts <= Drift + since
          /\ pc = "poll" => log[i].ts + PollInterval <= Drift + now
          /\ pc \in {"collect", "analyze", "record"} =>
               log[i].ts + PollInterval <= Drift + polled
      BY <2>1, <2>2 DEF Stamps, StampsNearlyOrdered
    <3> QED
      BY <1>1, <3>1
  <2> QED
    BY <2>1, <2>2 DEF Stamps, StampsNearlyOrdered
<1> QED
  BY <1>2 DEF StampInv

LEMMA CollectAhead ==
  ASSUME StampInv, Collect
  PROVE  Ahead'
<1>1. /\ pc = "collect" /\ UNCHANGED <<pc, now, polled>>
      /\ {now, since, polled} \subseteq Nat /\ since <= now /\ Drift \in Int /\ polled <= since
  BY LoopAssumption DEF Collect, schedVars, Fetch!StampTime, Fetch!SkewMeasured,
         Fetch!InstrumentKnown, Fetch!StampBook, StampInv, AgeInv, OnTime, Ahead
<1>2. CASE Fetch!StampTime \/ Fetch!StampBook
  <2>1. UNCHANGED <<phase, since, offset>>
    BY <1>2 DEF Fetch!StampTime, Fetch!StampBook
  <2> QED
    BY <1>1, <2>1 DEF StampInv, Ahead
<1>3. CASE Fetch!InstrumentKnown
  <2>1. phase = "instrument" /\ phase' = "gather" /\ since' = now /\ offset' = offset
    BY <1>3 DEF Fetch!InstrumentKnown
  <2>2. offset \in Int /\ polled + offset <= Drift + since
    BY <1>1, <2>1 DEF StampInv, Ahead, AgeInv, Obtained, Measured
  <2> QED
    BY <1>1, <2>1, <2>2 DEF Ahead
<1>4. CASE Fetch!SkewMeasured
  <2> DEFINE half == (since + now) \div 2
  <2>1. /\ phase = "skew" /\ server # Unset /\ since' = now
        /\ offset' = server - half
    BY <1>4 DEF Fetch!SkewMeasured, Fetch!Offset
  <2>2. server \in Int /\ server <= now + Drift
    BY <1>1, <2>1 DEF StampInv, AgeInv, Obtained
  <2>3. half \in Int /\ since <= half
    BY <1>1, Z3
  <2> HIDE DEF half
  <2>4. polled + offset' <= Drift + now
    BY <1>1, <2>1, <2>2, <2>3
  <2> QED
    BY <1>1, <2>1, <2>4 DEF Ahead
<1> QED
  BY <1>2, <1>3, <1>4 DEF Collect

\* The record of this cycle is stamped before the others by no more than what the
\* offset may lack of the real one, less the pause.
LEMMA RecordStamped ==
  ASSUME StampInv, pc = "record", Log!Record(Entry), UNCHANGED <<polled, lives, now>>,
         since' = now, pc' \notin {"poll", "collect", "analyze", "record"}
  PROVE  /\ \E S : log' \in Seq(S)
         /\ lives' = 0 => Stamps'
<1>1. PICK S : log \in Seq(S)
  BY DEF StampInv
<1> DEFINE T == S \cup {Entry}
<1>2. log \in Seq(T) /\ Entry \in T /\ log' = Append(log, Entry)
  BY <1>1 DEF Log!Record
<1>3. Entry.ts = polled + offset
  BY DEF Entry
<1> HIDE DEF T
<1>4. /\ log' \in Seq(T)
      /\ Len(log) \in Nat /\ DOMAIN log = 1 .. Len(log) /\ DOMAIN log' = 1 .. Len(log) + 1
      /\ \A i \in DOMAIN log : log'[i] = log[i]
      /\ log'[Len(log) + 1] = Entry
  BY <1>2
<1>5. \A i \in DOMAIN log' : i \in DOMAIN log \/ i = Len(log) + 1
  BY <1>4
<1>6. /\ {polled, since, now} \subseteq Nat /\ since <= now
      /\ Drift \in Int /\ MaxWait \in Nat /\ PollInterval \in Nat
      /\ offset \in Int /\ 2 * (Drift - offset) <= MaxWait
      /\ polled + offset <= Drift + since
  BY LoopAssumption DEF StampInv, AgeInv, OnTime, Obtained, Measured, Ahead
<1>7. ASSUME lives = 0 PROVE Stamps'
  <2>1. \A i \in DOMAIN log :
          /\ log[i].ts \in Int /\ log[i].ts <= Drift + since
          /\ log[i].ts + PollInterval <= Drift + polled
    BY <1>7 DEF StampInv, Stamps
  <2>2. Entry.ts \in Int /\ Entry.ts <= Drift + now
    BY <1>3, <1>6
  <2>4. \A i \in DOMAIN log : 2 * (log[i].ts + PollInterval - Entry.ts) <= MaxWait
    BY <1>3, <1>6, <2>1
  <2>5. ASSUME NEW i \in DOMAIN log'
        PROVE  log'[i].ts \in Int /\ log'[i].ts <= Drift + now
    <3>1. CASE i \in DOMAIN log
      BY <1>4, <1>6, <2>1, <3>1
    <3>2. CASE i = Len(log) + 1
      BY <1>4, <2>2, <3>2
    <3> QED
      BY <1>5, <3>1, <3>2
  <2>6. ASSUME NEW i \in DOMAIN log', NEW j \in DOMAIN log', i < j
        PROVE  2 * (log'[i].ts + PollInterval - log'[j].ts) <= MaxWait
    <3>1. i \in DOMAIN log
      BY <1>4, <2>6
    <3>2. CASE j \in DOMAIN log
      BY <1>4, <1>7, <2>6, <3>1, <3>2 DEF StampInv, Stamps, StampsNearlyOrdered
    <3>3. CASE j = Len(log) + 1
      BY <1>4, <2>4, <3>1, <3>3
    <3> QED
      BY <1>5, <3>2, <3>3
  <2> QED
    BY <1>6, <2>1, <2>5, <2>6 DEF Stamps, StampsNearlyOrdered
<1> QED
  BY <1>4, <1>7

LEMMA NextStamp ==
  ASSUME StampInv, [Next]_vars
  PROVE  StampInv'
<1>1. AgeInv'
  BY NextAge DEF StampInv
<1>2. /\ {now, since, polled, lives} \subseteq Nat /\ since <= now
      /\ {now', since', lives'} \subseteq Nat
      /\ Drift \in Int /\ PollInterval \in Nat
  BY <1>1, LoopAssumption DEF StampInv, AgeInv, OnTime
<1>3. CASE TickFires
  <2>1. /\ pc = "poll" /\ pc' = "collect" /\ phase' = "skew" /\ since' = now
        /\ polled' = now /\ UNCHANGED <<now, log, lives>>
    BY <1>3 DEF TickFires, Sched!Fire, Fetch!Ask
  <2>2. Ahead'
    BY <1>2, <2>1 DEF Ahead
  <2>3. lives = 0 => Stamps'
    BY <1>2, <2>1 DEF StampInv, Stamps, StampsNearlyOrdered
  <2> QED
    BY <1>1, <2>1, <2>2, <2>3 DEF StampInv
<1>4. CASE TickHolds
  <2>1. /\ pc = "poll" /\ pc' = "sleep" /\ since' = now
        /\ UNCHANGED <<now, log, lives>>
    BY <1>4 DEF TickHolds, Sched!Hold
  <2>2. lives = 0 => Stamps'
    BY <1>2, <2>1 DEF StampInv, Stamps, StampsNearlyOrdered
  <2> QED
    BY <1>1, <2>1, <2>2 DEF StampInv, Ahead
<1>5. CASE Collect
  <2>1. /\ UNCHANGED <<log, polled, lives, now, pc>> /\ (since' = since \/ since' = now)
    BY <1>5 DEF Collect, schedVars, Fetch!StampTime, Fetch!SkewMeasured,
         Fetch!InstrumentKnown, Fetch!StampBook
  <2> QED
    BY <1>1, <1>2, <1>5, <2>1, CollectAhead, NothingStamped DEF StampInv
<1>6. CASE CollectionEnds
  <2>1. /\ UNCHANGED <<log, polled, lives, now, offset>> /\ since' = now
        /\ pc = "collect" /\ phase = "gather" /\ pc' \in {"analyze", "record"}
    BY <1>6 DEF CollectionEnds, schedVars, Fetch!Gathered
  <2>2. offset \in Int /\ polled + offset <= Drift + since
    BY <2>1 DEF StampInv, Ahead, AgeInv, Obtained, Measured
  <2>3. Ahead'
    BY <1>2, <2>1, <2>2 DEF Ahead
  <2> QED
    BY <1>1, <1>2, <2>1, <2>3, NothingStamped DEF StampInv
<1>7. CASE AnalysisReturns
  <2>1. /\ UNCHANGED <<log, polled, lives, now, offset>> /\ since' = now
        /\ pc = "analyze" /\ pc' = "record"
    BY <1>7 DEF AnalysisReturns, schedVars, fetchVars
  <2>2. offset \in Int /\ polled + offset <= Drift + since
    BY <2>1 DEF StampInv, Ahead, AgeInv, Obtained, Measured
  <2>3. Ahead'
    BY <1>2, <2>1, <2>2 DEF Ahead
  <2> QED
    BY <1>1, <1>2, <2>1, <2>3, NothingStamped DEF StampInv
<1>8. CASE CollectionRaises \/ AnalysisRaises \/ RecordRaises \/ RecordKept
  <2>1. /\ UNCHANGED <<polled, lives, now>> /\ since' = now /\ pc' \in {"sleep", "hook"}
        /\ UNCHANGED log \/ (pc = "record" /\ Log!Record(Entry))
    BY <1>8 DEF CollectionRaises, AnalysisRaises, RecordRaises, RecordKept, CycleRaises,
                schedVars, Fetch!Forget, Log!RecordRaises
  <2>2. Ahead'
    BY <2>1 DEF Ahead
  <2> QED
    BY <1>1, <1>2, <2>1, <2>2, NothingStamped, RecordStamped DEF StampInv
<1>9. CASE HookReturns \/ HookRaises
  <2>1. /\ UNCHANGED <<log, polled, lives, now>> /\ (since' = since \/ since' = now)
        /\ pc' \in {"sleep", "dead"}
    BY <1>9 DEF HookReturns, HookRaises, schedVars
  <2>2. Ahead'
    BY <2>1 DEF Ahead
  <2> QED
    BY <1>1, <1>2, <2>1, <2>2, NothingStamped DEF StampInv
<1>10. CASE Wake
  <2>1. /\ UNCHANGED <<log, polled, lives, now, since>> /\ pc' = "poll"
        /\ now = since + PollInterval
    BY <1>10 DEF Wake, schedVars
  <2>2. lives = 0 => Stamps'
    BY <1>2, <2>1 DEF StampInv, Stamps, StampsNearlyOrdered
  <2> QED
    BY <1>1, <2>1, <2>2 DEF StampInv, Ahead
<1>11. CASE Restart
  <2>1. lives' # 0 /\ pc' = "poll" /\ log' = log
    BY <1>2, <1>11 DEF Restart
  <2> QED
    BY <1>1, <2>1 DEF StampInv, Ahead
<1>12. CASE Advance \/ Over \/ UNCHANGED vars
  <2>1. /\ UNCHANGED <<log, polled, lives, since, pc, offset, phase>>
        /\ now <= now'
    BY <1>2, <1>12 DEF Advance, Over, vars, schedVars, fetchVars
  <2>2. Ahead'
    BY <2>1 DEF StampInv, Ahead
  <2> QED
    BY <1>1, <1>2, <2>1, <2>2, NothingStamped DEF StampInv
<1> QED
  BY <1>3, <1>4, <1>5, <1>6, <1>7, <1>8, <1>9, <1>10, <1>11, <1>12 DEF Next, Work

\* Until the process is restarted, no record is stamped before an earlier one by
\* more than half a request less the pause between two polls: for every drift,
\* every delay and whatever raises (orchestrator.py:140-141, decision_log.py:99).
THEOREM StampsCorrect == Spec => [](lives = 0 => StampsNearlyOrdered)
<1>1. Init => StampInv
  BY InitStamp
<1>2. StampInv /\ [Next]_vars => StampInv'
  BY NextStamp
<1>3. StampInv => (lives = 0 => StampsNearlyOrdered)
  BY DEF StampInv, Stamps
<1> QED
  BY <1>1, <1>2, <1>3, PTL DEF Spec
=============================================================================
