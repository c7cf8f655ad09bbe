----------------------------- MODULE ShadowLoop ------------------------------
(***************************************************************************)
(* The running analyst: ShadowLoop.run_forever and tick (runtime/loop.py)  *)
(* around ShadowOrchestrator.run_cycle (agent/orchestrator.py), composed   *)
(* of the candle scheduler, the daily budget and the market-data           *)
(* collection, each a module of its own.                                   *)
(*                                                                         *)
(* One asyncio task does everything, so what interleaves with it is the    *)
(* clock and the outside world: every await may take time, answer late or  *)
(* raise.  Between two awaits the code runs in one step of the model.  The *)
(* model call (DecisionAgent.analyze) is synchronous but long: time passes *)
(* during it too.                                                          *)
(***************************************************************************)
EXTENDS Integers, Sequences, FiniteSets

CONSTANTS
  Interval, Buffer,           \* the candle and its buffer
  DayLength,                  \* _DAY_MS
  PollInterval,               \* poll_interval_s
  MaxUsd,                     \* the daily cap
  Drift, MaxOffset, MaxAge,   \* the exchange clock and its limits
  Unset,                      \* a value not obtained yet
  PolicyAge,                  \* policy.max_data_age_ms of the Risk Engine
  MaxCost,                    \* bound: the cost of one model call
  MaxWait,                    \* bound: the longest await of a request
  MaxAnalysis,                \* bound: the longest model call
  MaxLag,                     \* bound: the age of a book when it is sent
  MaxRestarts,                \* bound: how often the process is restarted
  StartAt, Horizon,           \* bounds: the clock starts and stops here
  BilledMayRaise,             \* TRUE: a model call that was billed may raise
  RecordMayRaise,             \* TRUE: DecisionLog.record may raise
  HookMayRaise                \* TRUE: on_cycle may raise

ASSUME LoopAssumption ==
  /\ {Interval, DayLength, PollInterval} \subseteq Nat \ {0}
  /\ {Buffer, MaxUsd, PolicyAge, MaxCost, MaxWait, MaxAnalysis, MaxRestarts,
       Horizon} \subseteq Nat
  /\ Drift \in Int /\ Unset \notin Int
  /\ StartAt \in 0 .. Horizon
  /\ {BilledMayRaise, RecordMayRaise, HookMayRaise} \subseteq BOOLEAN

VARIABLES
  pc,          \* where the task is
  now,         \* the local clock
  lastFired, polled, decided, born,      \* CandleScheduler; `born` is when
                                         \*   this process was started
  day, spent, grant, ledger,             \* DailyBudget; grant is allow_analysis
  phase, asked, injected, since,         \* the collection in progress; `since`
  server, offset,                        \*   is when the current await began
  bookTs, age, quality, gathered,
  cycles, analyzed, skipped, errors,     \* LoopStats
  totalCost,                             \* LoopStats.total_cost_usd
  result,      \* the ShadowCycleResult on its way to the log, or NoResult
  log,         \* DecisionLog: the records kept, oldest first
  invoice,     \* history: what the model provider billed, by day
  billed,      \* history: and in total
  lives        \* history: how often the process was restarted

schedVars == <<lastFired, polled, decided, cycles, born>>
budgetVars == <<day, spent, grant, ledger>>
fetchVars ==
  <<phase, asked, injected, server, offset, bookTs, age, quality, gathered>>
statVars == <<analyzed, skipped, errors, totalCost>>
billVars == <<invoice, billed>>
vars ==
  <<pc, now, since, schedVars, budgetVars, fetchVars, statVars,
    result, log, billVars, lives>>

\* The longest time between two polls: a cycle with all its awaits, the hook
\* and the sleep.
LongestTick == 5 * MaxWait + MaxAnalysis + PollInterval

\* Mutant: the day is rounded up.
DayUp(t) == (t + DayLength - 1) \div DayLength

LastDay == Horizon \div DayLength
Day(t) == t \div DayLength

Sched == INSTANCE CandleScheduler WITH
  MaxGap <- LongestTick, MaxStepBack <- 0, MaxSteps <- 0,
  LastInstant <- Horizon, started <- born, steps <- 0
Budget == INSTANCE DailyBudget
Fetch == INSTANCE CoherentFetch
Log == INSTANCE DecisionLog

NoDay == Budget!NoDay
Days == Budget!Days
NoResult == [analyzed |-> FALSE, cost |-> 0, verdict |-> "none"]
Skipped == [analyzed |-> FALSE, cost |-> 0, verdict |-> "skipped"]

-----------------------------------------------------------------------------
Init ==
  /\ pc = "poll"
  /\ now = StartAt
  /\ lastFired = Sched!NoClose /\ polled = now /\ decided = {} /\ cycles = 0
  /\ born = now
  /\ Budget!Init
  /\ phase = "idle" /\ asked = Unset /\ injected = FALSE
  /\ since = now
  /\ server = Unset /\ offset = Unset /\ bookTs = Unset
  /\ age = Unset /\ quality = "none" /\ gathered = Unset
  /\ analyzed = 0 /\ skipped = 0 /\ errors = 0 /\ totalCost = 0
  /\ result = NoResult
  /\ Log!Init
  /\ invoice = [d \in Days |-> 0] /\ billed = 0
  /\ lives = 0

\* Mutant: the loop is left when the cadence does not fire.
TickHoldsLeaves ==
  /\ pc = "poll"
  /\ Sched!Hold
  /\ pc' = "dead"
  /\ since' = now
  /\ UNCHANGED <<budgetVars, fetchVars, statVars, result, log, billVars, lives>>

\* tick: the cadence does not fire, and the loop sleeps.
TickHolds ==
  /\ pc = "poll"
  /\ Sched!Hold
  /\ pc' = "sleep"
  /\ since' = now
  /\ UNCHANGED <<budgetVars, fetchVars, statVars, result, log, billVars, lives>>

\* tick: a cycle starts; can_afford decides at this instant whether it may
\* call the model, and run_cycle asks for the first data.
TickFires ==
  /\ pc = "poll"
  /\ Sched!Fire
  /\ Budget!CanAfford(Day(now))
  /\ grant' = IF Budget!Affordable(Day(now)) THEN Day(now) ELSE NoDay
  /\ Fetch!Ask(TRUE)
  /\ pc' = "collect"
  /\ UNCHANGED <<statVars, result, log, billVars, lives>>

\* An answer of the exchange is sent or received, short of the last one.
Collect ==
  /\ pc = "collect"
  /\ Fetch!StampTime \/ Fetch!SkewMeasured \/ Fetch!InstrumentKnown
       \/ Fetch!StampBook
  /\ UNCHANGED <<pc, schedVars, budgetVars, statVars, result, log, billVars,
                 lives>>

\* Mutant: the quality of the data is not looked at.
MayAnalyzeBlind == grant # NoDay

\* allow_analysis was given and the data is coherent.
MayAnalyze == grant # NoDay /\ quality' # "CONFLICTING"

\* The last answer arrived: the cycle is skipped for want of budget, for
\* incoherent data, or because the prefilter sees nothing worth analysing;
\* otherwise the model is called.
CollectionEnds ==
  /\ pc = "collect"
  /\ Fetch!Gathered
  /\ \/ /\ pc' = "record"
        /\ result' = Skipped
     \/ /\ MayAnalyze
        /\ pc' = "analyze"
        /\ UNCHANGED result
  /\ UNCHANGED <<schedVars, budgetVars, statVars, log, billVars, lives>>

\* The provider bills a call on the day it answers.
Bill(c) ==
  /\ invoice' = [invoice EXCEPT ![Day(now)] = @ + c]
  /\ billed' = billed + c

\* Mutant: the Risk Engine is told the book is new.
JudgedAgeZero == 0

\* AccountState.data_age_ms of the shadow account
JudgedAge == IF age < 0 THEN 0 ELSE age

\* The model answered, the decision was parsed and, if it opens a position,
\* judged by the Risk Engine against the clock and the book of the collection.
AnalysisReturns ==
  /\ pc = "analyze"
  /\ \E c \in 0 .. MaxCost, verdict \in {"none", "rejected", "approved"} :
       /\ verdict = "approved" => JudgedAge <= PolicyAge
       /\ result' = [analyzed |-> TRUE, cost |-> c, verdict |-> verdict]
       /\ Bill(c)
  /\ pc' = "record"
  /\ since' = now
  /\ UNCHANGED <<now, schedVars, budgetVars, fetchVars, statVars, log, lives>>

\* Mutants: the error is not counted; the candle is tried again; the
\* exception is not caught.
CycleRaisesUncounted ==
  /\ grant' = NoDay
  /\ result' = NoResult
  /\ Fetch!Forget
  /\ pc' = "sleep"
  /\ UNCHANGED <<schedVars, day, spent, ledger, statVars, lives>>
CycleRaisesRetries ==
  /\ errors' = errors + 1
  /\ lastFired' = Sched!NoClose
  /\ grant' = NoDay
  /\ result' = NoResult
  /\ Fetch!Forget
  /\ pc' = "sleep"
  /\ UNCHANGED <<polled, decided, cycles, born, day, spent, ledger, analyzed,
                 skipped, totalCost, lives>>
CycleRaisesUncaught ==
  /\ grant' = NoDay
  /\ result' = NoResult
  /\ Fetch!Forget
  /\ pc' = "dead"
  /\ UNCHANGED <<schedVars, day, spent, ledger, statVars, lives>>

\* tick's except: the cycle counts as an error and yields no result.
CycleRaises ==
  /\ errors' = errors + 1
  /\ grant' = NoDay
  /\ result' = NoResult
  /\ Fetch!Forget
  /\ pc' = "sleep"
  /\ UNCHANGED <<schedVars, day, spent, ledger, analyzed, skipped, totalCost,
                 lives>>

\* A market-data request raised.
CollectionRaises ==
  /\ pc = "collect"
  /\ CycleRaises
  /\ UNCHANGED <<log, billVars>>

\* The model call raised, or what follows it did: no text block, JSON that does
\* not parse, an incoherent opening, the Risk Engine's own exceptions.
AnalysisRaises ==
  /\ pc = "analyze"
  /\ \E c \in IF BilledMayRaise THEN 0 .. MaxCost ELSE {0} : Bill(c)
  /\ CycleRaises
  /\ UNCHANGED log

\* build_record: ts_ms is the tick's clock corrected by the measured offset.
Entry ==
  [ts |-> polled + offset, candle |-> lastFired, analyzed |-> result.analyzed,
   cost |-> result.cost]

\* DecisionLog.record raised.
RecordRaises ==
  /\ RecordMayRaise
  /\ pc = "record"
  /\ Log!RecordRaises(Entry)
  /\ CycleRaises
  /\ UNCHANGED billVars

\* Mutants: the total is not kept; the spend is entered under the day on which
\* the cycle ended.
SpendUntotalled == Budget!RecordSpend(Day(polled), result.cost) /\ UNCHANGED totalCost
SpendToday ==
  /\ Budget!RecordSpend(Day(now), result.cost)
  /\ totalCost' = totalCost + result.cost

\* The cost is entered under the day of the tick, not the day the call ended.
Spend ==
  /\ Budget!RecordSpend(Day(polled), result.cost)
  /\ totalCost' = totalCost + result.cost

\* The record was kept; run_cycle returns and tick accounts for the cycle
\* before anything else can happen.
RecordKept ==
  /\ pc = "record"
  /\ Log!Record(Entry)
  /\ IF result.analyzed
     THEN /\ analyzed' = analyzed + 1
          /\ Spend
          /\ UNCHANGED skipped
     ELSE /\ skipped' = skipped + 1
          /\ UNCHANGED <<analyzed, day, spent, ledger, totalCost>>
  /\ grant' = NoDay
  /\ result' = NoResult
  /\ Fetch!Forget
  /\ pc' = "hook"
  /\ UNCHANGED <<schedVars, errors, billVars, lives>>

\* on_cycle returned.
HookReturns ==
  /\ pc = "hook"
  /\ pc' = "sleep"
  /\ since' = now
  /\ UNCHANGED <<now, schedVars, budgetVars, fetchVars, statVars, result, log,
                 billVars, lives>>

\* on_cycle raised: nothing around the await in run_forever catches it.
HookRaises ==
  /\ HookMayRaise
  /\ pc = "hook"
  /\ pc' = "dead"
  /\ UNCHANGED <<now, since, schedVars, budgetVars, fetchVars, statVars, result,
                 log, billVars, lives>>

\* asyncio.sleep returned.
Wake ==
  /\ pc = "sleep"
  /\ now = since + PollInterval
  /\ pc' = "poll"
  /\ UNCHANGED <<now, since, schedVars, budgetVars, fetchVars, statVars, result,
                 log, billVars, lives>>

\* The process is killed at any moment and started again: scheduler, budget and
\* statistics start from nothing, the records of a durable log and the
\* provider's bill stay.  A call the process was waiting for may be billed.
Restart ==
  /\ lives < MaxRestarts
  /\ lives' = lives + 1
  /\ born' = now
  /\ \E c \in IF pc = "analyze" THEN 0 .. MaxCost ELSE {0} : Bill(c)
  /\ pc' = "poll"
  /\ lastFired' = Sched!NoClose
  /\ polled' = now
  /\ cycles' = 0
  /\ day' = NoDay /\ spent' = 0 /\ grant' = NoDay
  /\ analyzed' = 0 /\ skipped' = 0 /\ errors' = 0 /\ totalCost' = 0
  /\ result' = NoResult
  /\ Fetch!Forget
  /\ UNCHANGED <<decided, ledger, log>>

\* The longest the task may stay where it is; elsewhere no time passes.
Patience ==
  IF pc \in {"collect", "record", "hook"} THEN MaxWait
  ELSE IF pc = "analyze" THEN MaxAnalysis
  ELSE IF pc = "sleep" THEN PollInterval ELSE 0

Advance ==
  /\ now < Horizon
  /\ now < since + Patience
  /\ now' = now + 1
  /\ UNCHANGED <<pc, since, schedVars, budgetVars, fetchVars, statVars, result,
                 log, billVars, lives>>

\* The loop is gone, or sleeps when the clock of the model has stopped.
Over ==
  /\ pc = "dead" \/ (pc = "sleep" /\ now = Horizon)
  /\ UNCHANGED vars

Work ==
  \/ TickHolds \/ TickFires \/ Collect \/ CollectionEnds \/ CollectionRaises
  \/ AnalysisReturns \/ AnalysisRaises \/ RecordKept \/ RecordRaises
  \/ HookReturns \/ HookRaises \/ Wake

Next == Work \/ Restart \/ Advance \/ Over

Spec == Init /\ [][Next]_vars

\* The event loop runs the task whenever it is ready, every await is bounded
\* by its timeout, and the clock never stops.
FairSpec == Spec /\ WF_vars(Work) /\ WF_vars(Advance)

-----------------------------------------------------------------------------
(* Properties *)

TypeOK ==
  /\ pc \in {"poll", "collect", "analyze", "record", "hook", "sleep", "dead"}
  /\ Sched!TypeOK
  /\ Budget!TypeOK
  /\ Fetch!TypeOK
  /\ {analyzed, skipped, errors, totalCost} \subseteq Nat
  /\ result.analyzed \in BOOLEAN /\ result.cost \in 0 .. MaxCost
  /\ invoice \in [Days -> Nat]
  /\ lives \in 0 .. MaxRestarts


\* Every cycle started is counted once and only once as analysed, skipped or
\* failed, whichever await it stopped at (tick, loop.py:71-86).
StatsBalance ==
  cycles = analyzed + skipped + errors
             + (IF pc \in {"collect", "analyze", "record"} THEN 1 ELSE 0)

\* What the evaluation of the log counts (evaluation.py) is what LoopStats
\* counted: every cycle that ended well has its one record and its cost in it,
\* and the log runs ahead only by errors whose record was kept all the same.
LogAgrees ==
  LET seen == Log!Summary(log) IN
  /\ seen.analyzed >= analyzed /\ seen.skipped >= skipped
  /\ seen.total - (analyzed + skipped) <= errors
  /\ seen.cost - totalCost \in 0 .. (seen.analyzed - analyzed) * MaxCost

\* What LoopStats and the budget know of the bill: everything billed is
\* recorded or about to be, except the calls of cycles that raised, one each.
BillKnown == billed - totalCost - result.cost \in 0 .. errors * MaxCost

\* A record is stamped with the tick's clock corrected by an offset measured anew
\* in every cycle (orchestrator.py:141, decision_log.py:99), and the table is
\* ordered by that stamp (postgres.py:93): two records can be stamped against the
\* order in which they came by half a request less the pause between polls, and
\* by no more.
StampsNearlyOrdered ==
  \A i, j \in DOMAIN log :
    i < j => 2 * (log[i].ts + PollInterval - log[j].ts) <= MaxWait

\* Records follow the candles: no candle is recorded twice or out of order.
LogInCandleOrder ==
  \A i, j \in DOMAIN log : i < j => log[i].candle < log[j].candle

\* "para de autorizar chamadas ao atingir o limite diario ... Sem surpresa na
\* fatura" (scheduler.py:9-10): what is billed on a day stays below the cap
\* plus two calls, the one that crosses the cap and the one that was
\* authorised the day before and answered after midnight.  A restart forgets
\* the budget, so every life of the process has a cap of its own.
InvoiceCapped ==
  \A d \in Days : invoice[d] <= (lives + 1) * (MaxUsd - 1 + MaxCost) + MaxCost

\* How old the book really is when the verdict on an analysis is given
TrueAge == (since + Drift) - bookTs

\* The Risk Engine is told the age the book had for the tick's clock, and judges
\* when the collection's three requests and the model call are over
\* (orchestrator.py:194, loop.py:75): a book it approves is then older than the
\* policy allows by no more than that time and half a request, which is what the
\* measured offset may be short.
ApprovalAgeBounded ==
  result.verdict = "approved" =>
    2 * (TrueAge - PolicyAge - (3 * MaxWait + MaxAnalysis)) <= MaxWait

\* The model is called only with a valid authorisation of the tick's day whose
\* ledger is still below the cap, and never on conflicting data, although
\* several awaits lie between can_afford and the call.
CallGated ==
  [][pc # "analyze" /\ pc' = "analyze" =>
       /\ grant = Day(polled)
       /\ ledger[grant] < MaxUsd
       /\ quality' # "CONFLICTING"]_vars

\* The loop uses its components as their own modules say they are used.
KeepsScheduler == Sched!Spec
KeepsBudget == Budget!Spec

\* No candle that closes while the process lives is lost, before and after a
\* restart, as long as the longest tick fits in a candle.
NoCandleMissed == Sched!NoCandleMissed

\* A cycle that started ends, whatever raises in it ("um ciclo com erro e
\* contabilizado e o loop segue", loop.py:65-66).
CycleEnds == pc = "collect" ~> pc = "sleep"

\* The loop polls again and again until the clock of the model stops.
KeepsPolling == []<>(pc = "poll" \/ now = Horizon)

-----------------------------------------------------------------------------
(* What the documentation says and the code does not keep *)

\* recent returns the newest records "em ordem de insercao"
\* (test_decision_log.py:71), and the two logs are interchangeable behind one
\* interface (decision_log.py:8-9).
RecentAgrees == Log!RecentAgrees
=============================================================================
