# Agente-Cripto in TLA+

Agente-Cripto is an analyst for one perpetual contract on Bybit. A loop wakes
up every few seconds; when a candle has closed it collects market data,
decides whether the moment is worth a model call, asks the model for a
decision, judges an opening with a deterministic Risk Engine and writes a
record. It runs in *shadow mode*: no order is sent.

This directory models the part of the program where something can go wrong
that a unit test hardly reaches: the rhythm of the loop against a wall clock,
the daily spending cap, the age of data that was collected over several
awaits, the books the loop keeps when anything in a cycle fails, and the
arithmetic with which the Risk Engine turns a fraction of the equity into a
quantity; what the analyst reads in candles and book before it asks the model
and what it makes of the answer; the log it reads back; and a spike of the
repository that learns by experiment how the exchange treats repeated orders. Paths below are relative to `src/src/bybit_agent/` unless they
start with `src/`.

## 1. Inventory

| Component | State it keeps | Operations | Correct if |
|---|---|---|---|
| Candle scheduler, `marketdata/scheduler.py` `CandleScheduler` | the close it fired last | `should_decide(now_ms)` | every closed candle is decided, once, not before its buffer and not after its successor |
| Daily budget, `marketdata/scheduler.py` `DailyBudget` | a day and one running total | `can_afford`, `record_spend`, `_roll_day` | no day is overspent by a whole call, whatever the order of days and calls |
| Clock skew, `marketdata/clock.py` | none (a measured offset is a value) | `compute_offset_ms`, `measure_skew` | the offset is near the real one, whatever the latency |
| Coherent collection, `marketdata/coherent.py` | the locals of one collection | `fetch_coherent`, `validate_market_data` | data called VALID is fresh |
| Orchestrator, `agent/orchestrator.py` | the locals of one cycle | `run_cycle`, `_finalize` | the model is called only with money and coherent data; what it did is recorded |
| Shadow loop, `runtime/loop.py` | `LoopStats`, the scheduler, the budget | `tick`, `run_forever` | it never stops because of a bad cycle, and its statistics, budget and log agree |
| Risk Engine, `risk/engine.py`, `validators.py`, `sizing.py`, `reward.py` | none | `evaluate` | an approved trade cannot lose more than it may, and is as large as allowed |
| Policy and instrument, `risk/policy.py`, `domain/instrument.py` | immutable values | constructors, `max_qty_for`, `policy_hash` | an implausible limit cannot be constructed |
| Boundary checks and money, `risk/_validation.py`, `domain/money.py` | none | constructors, `round_down_to_step` | nothing non-finite gets in; rounding only goes down |
| Agent client, `agent/client.py` | a lazily created HTTP client | `analyze` | a refusal is not a decision; the usage of a call is known |
| Prefilter, `agent/prefilter.py` | none | `prefilter` | conflicting data is never analysed, and nothing that passes it makes the engine's input invalid |
| Parser, `agent/parser.py` | none | `parse_decision`, `estimate_liquidation` | an opening has all its levels or is an error; its liquidation estimate errs on the safe side |
| Decision log, `persistence/decision_log.py`, `postgres.py` | the records | `record`, `recent` | append-only, complete, in order, the same from both back-ends |
| REST client, `marketdata/rest.py` | an HTTP connection | five GETs and their parsers | malformed payloads raise |
| Features, `features/*.py` | none | swings, trend, BOS/CHoCH, EMA, ATR, volatility, book depth, snapshot | a confirmed swing stays; a mirrored market is read as the mirror image |
| Evaluation, `runtime/evaluation.py` | none | `summarize_decisions` | totals agree with the records |
| Runners, prompt, contract | none | wiring, text | not modelled |
| Mutation gate, `src/tools/mutation/mutate.py` | source files it mutates in place | `run_gate` | the working tree is as before |
| Spike S-2, `src/tools/spikes/s2_order_link_id_dedup.py` | orders at the demo exchange | the tests T1 to T6 | nothing is left open; its report is true of the exchange |

How they interact. `run_forever` reads the wall clock and calls `tick`; `tick`
asks the scheduler, then the budget, then awaits `run_cycle`. `run_cycle`
awaits the exchange three times (time, instrument, and one gather of book,
ticker and candles), validates, may be cut short by the budget or the
prefilter, calls the model **synchronously**, parses, calls `evaluate` and
awaits the log. Back in `tick` the statistics and the budget are updated, and
`run_forever` awaits the hook and sleeps. It is one asyncio task; only the
requests of the gather run beside each other, and when one of them raises the
others may go on after the cycle is over, without a result that anybody reads.
What interleaves is the world: the clock, which moves during every
await and during the model call; the exchange, which stamps its answers with a
clock of its own; failures, at every one of those points; the provider, which
bills calls whether or not their cycle ends well; and the end of the process.

The spike stands apart: it talks to the demo exchange, sends every order twice
under one `orderLinkId`, cleans up after each test and writes a report.

The hard behaviours are the steps between reading a value and using it (the
budget is checked several awaits before the call it is for; the clock is read
before the data arrive; the age of the book is used after the model thought),
exceptions between two pieces of bookkeeping, checks that are made in one call and
relied on several calls later, a candle that still changes while it is read,
requests whose effect and answer part ways, midnight within a cycle, and
restarts, since scheduler, budget and statistics live in memory only.
`PROJECT.json` lists them under "hazards", each at its line.

## 2. Modules

```
SpendingCap <--- DailyBudget ------+--> MCMarketData
                                   |
Cadence <------- CandleScheduler --+--> ShadowLoop
                                   |
                 CoherentFetch ----+      MarketReading --+
                 DecisionLog ------+                      +--> Cycle <-- MCCycle
                 (ShadowLoop only)        RiskEngine -----+
                                              |
                                              +<-- MCRiskEngine        SpikeS2
```

`<---` is "implemented by". `ShadowLoop` instantiates four components and
uses their operators as conjuncts of its own actions; it is about order, time
and failure. `Cycle` extends `MarketReading` and instantiates `RiskEngine`; it is
about what one cycle decides, and takes no time. `MCMarketData` puts scheduler,
budget and collection side by side, each moving alone: they share no state, and
together they are one run. `SchedulerParameters` and `BudgetParameters` hold
constants with their assumptions. The theorems of a module `M` are in `M_proofs`;
`Sums` holds the lemmas on sums that several of them need.

### Cadence and CandleScheduler

`Cadence` says what the rhythm is: a closed candle may be decided when its
buffer is over and while it is the newest, and is decided once.
`CandleScheduler` is the class: `lastFired` is `_last_fired_close`, `Fire` and
`Hold` are the two answers of `should_decide`, `Advance` is time between two
polls of `run_forever`. `StepBack` is an adjustment of the wall clock, which
`time.time_ns` follows.

### SpendingCap and DailyBudget

`SpendingCap` keeps a ledger of all days and grants one call at a time.
`DailyBudget` keeps the code's day and total; `Rolled` is `_roll_day`,
`CanAfford` and `RecordSpend` the two calls. `Authorise`, `Refuse`, `Pay` and
`Waive` are the orders in which `tick` makes them: a cycle that is skipped or
raises never records. `ledger` is history.

### CoherentFetch

One collection: `Ask`, `SkewMeasured`, `InstrumentKnown`, `Gathered` are the
points at which the code runs; `StampTime` and `StampBook` are the moments at
which the exchange stamps its answers, with a clock `Drift` ahead that the
program cannot read. `injected` distinguishes the two ways `fetch_coherent`
gets its clock: from the caller, as in the loop, or after the gather, as in
`run_shadow.py`. The price checks of `validate_market_data` are one boolean here and spelled out in
`MarketReading`.

### ShadowLoop

The running program. `pc` says which await (or the model call) the task is at;
between two of them the code is one action. `TickFires` is lines 68-75 of
`tick` down to the first await; `CollectionEnds` everything from the last answer
to the model call or to the record of a skipped cycle; `AnalysisReturns` what
follows the model call up to the await of the record; `RecordKept` the rest of
`run_cycle` and of `tick`. `CycleRaises` is the `except` of `tick`, used by
`CollectionRaises`, `AnalysisRaises` and `RecordRaises`. `Restart` kills the
process anywhere. `invoice` and `billed` are what the provider bills, which the
program does not see. The verdict of the Risk Engine is any verdict that respects
its check of the data's age; `RiskEngine` and `Cycle` say what it is. `born` is when
the process was started, so that the scheduler's promise, which is about the closes
since then, holds again for every life.

### DecisionLog

The records kept, in the order in which they came. `RecordRaises` is a `record`
that failed before or after the insert. `RecentMemory` is the slice of
`InMemoryDecisionLog`, `RecentPostgres` the set of answers the query may give: it
orders by `ts_ms`, the clock of the tick corrected by the offset this cycle
measured, and is free among equals. `Summary` is `summarize_decisions` as far as
it counts cycles and money.

### MarketReading

Pure operators, one for each function that decides something: `Highs`, `Lows`
(`find_swings`), `Trend`, `Structure`, `Ema`, `Regime`, `Issues`
(`validate_market_data`), `Quality` (`_data_quality`), `Reason` (`prefilter`).
Averages are exact quotients compared by multiplying out. The realized volatility
is a boolean `lively` of the gate.

### Cycle

One action for every place where `run_cycle` goes on or ends: `Collected` is
everything from the data to the model call or to the skipped record, `Analysed`
what follows the answer up to the call of `evaluate`, `Judged` is that call,
taken from `RiskEngine` with the arguments the cycle computes. Between cycles
`Open` and `Trade` move the market: the newest candle of a series is always still
forming, and only the newest `Limit` candles are read, as `klines` asks for the
last 200, so the oldest leaves when one opens in a full series. The answer of the model is any of `Answers`, with fields absent
(`Absent`), unparsable (`Garbled`), or of any value: the contract's schema makes
most of them nullable.

### SpikeS2

`First`, `Withdraw`, `Second`, `ClosePosition`, `Concurrent`, `Query` and `Cancel` are the
requests of T1 to T6, one action per await; `Return` is the test's result and, after
the last, the report. T5 and T6 are T2 with hours between its requests. A
placement may be taken, refused as a duplicate, refused for another reason, or
raise with or without effect; one of T4's two concurrent placements may reach the
exchange after it timed out (`Lands`). Any exception ends the program there.

### RiskEngine

One call of `evaluate` on any of `Cases`, with one action for every place where
it returns or raises. Rates are numbers of `Unit`-ths and prices integers.
Quotients are compared by multiplying out, so the model is exact: the code's
28-digit rounding of a quotient is not in it, its rounding to the
exchange's step is. `PolicyValid`, `InstrumentValid`, `IntentValid` and
`AccountValid` are the constructors' conditions and assumed of the inputs.

## 3. What is checked

| Run | Shows | States |
|---|---|---|
| `marketdata` | no candle is missed, a clock set back repeats at most two decisions, implements `Cadence`; no day exceeds its cap by a call, the one total is the ledger of its day, implements `SpendingCap`; error of the offset, staleness of VALID data, no negative age if the clock is read last | 46 k |
| `loop` | statistics, log, its evaluation and the bill balance whatever fails; records in candle order, stamped against it by at most half a request less the pause; a call is gated by a grant of its own day and by coherent data; approvals are of data of bounded true age; scheduler and budget are used as specified | 4.6 M |
| `loop_live` | with a restart at any moment and midnight in between: a cycle ends, the loop polls on, no candle is missed, and the bill of a day is bounded | 1.1 M |
| `risk` | a stopped-out trade stays within the trade's and the day's budget, levels are in order, the quantity is the largest allowed, the reported constraint is the one that limits, the reward/risk is that of the sized trade | 42 k |
| `cycle` | what reaches the Risk Engine is acceptable to it; closed at its liquidation estimate an approved trade would cost at most half the equity, the risk of one trade and half a fee; only the candle with exactly the window to its right may gain or lose its swing, and only the left edge forgets one; a mirrored market is read as its mirror image | 1.1 M |
| `spike` | what the report says of each test is true of the exchange, with its two excuses named; what is left behind is left by the test at hand, by T1's second order, or by an exchange that did not do as told | 6.9 M |
| `fetch_negative`, `loop_invoice`, `loop_slow`, `risk_raises`, `cycle_liquidity`, `spike_cleanup` | the six disagreements below | |

Every property has a mutant, a plausible mistake in one mapped definition under
which TLC finds it violated; the mutants stand before the definitions they
replace and are marked as such.

### Bounds

* `marketdata`, the scheduler: candles of 4 units with a buffer of 1 and a gap of 3 between
  polls, the largest gap for which no candle can be missed; three candles and a
  part; two steps back of up to one candle. The start is any instant, so polls
  fall exactly on a close, on the end of the buffer, and just before either.
* `marketdata`, the budget: three days, a cap of 4 and calls of up to 3, so a day takes
  several calls and the last one may cross the cap by any amount.
* `marketdata`, the collection: awaits of up to 3 and books up to 4 old when sent, against a limit
  of 2 for the age and for the offset, and an exchange clock 2 ahead. Half a
  round trip is 1.5, so the measured offset falls on both sides of the truth
  and of its limit.
* `loop`: candles of 6 from a close to beyond the second next (`Horizon`), two to
  a day, so midnight falls on a close; polls 1 apart. A tick may take 12
  units (`LongestTick`), so cycles run over the next candle and over midnight. A request may take 2, twice the
  pause between polls: two stamps may be equal, and one mutant of the offset
  turns them round. The cap of 2 is reached by one or by two calls.
* `loop_slow`: a request of up to 3 with a pause of 1, that is, the code's 15 s and 5 s
  in units of 5 s, with an exact exchange clock, no money and two closes.
* `loop_live`: candles of 9, longer than the longest tick of 8 plus the
  buffer. It is the condition under which no candle is missed; with the code's
  numbers it says that timeouts (15 s each) and the model call fit in the
  candle, which the one-minute candle does not promise. The clock starts before
  midnight and one restart may fall anywhere, so a grant of one day is answered
  on the next, in both lives. Calls that were billed do not raise here
  (`BilledMayRaise`), nor do the log and the hook: what a raising call costs is
  `loop_invoice`, and `loop` has them all. A cycle ends in the same `except` wherever it
  raises, and it does raise here, in the collection and in the call.
* `risk`: every order of stop, invalidation and liquidation for both sides,
  plans of one and two targets (complete, incomplete and excessive; on the right
  and on the wrong side; paying and not paying their costs), limit and market
  orders, three equities, so that each of the four caps binds; and for a good
  long and a good short every breach of an account limit, at the limit and
  just beyond, with several slippages and liquidities.
* `cycle`: the newest six candles (`Limit`) of a market of four prices without end, a swing window of 1, averages of 3
  and 5: the smallest with two swings of each kind, both trends, a break of either
  side and a change of character in both trends. A candle's high and low lie at
  most one price apart (`MaxRange`), which keeps the series few; gaps between
  candles are unrestricted, so a close may lie beyond both swings. Market steps
  are explored for all series, cycles run on eleven of them (`Probes`), one for each
  reading the gate tells apart. Fourteen books: sound, thin, crossed, touching,
  wide, stale for the policy, stale for the orchestrator, from the future, with an
  unhealthy clock, a last price outside, a zero price, an empty side. The spreads in
  bps of these books are whole numbers, which an `ASSUME` checks. Answers: longs and
  shorts with stops on either side and at the liquidation estimate, invalidations on either
  side of the stop, paying and unprofitable plans, and one malformed answer for every
  field that may be wrong.
* `spike`: all six tests (`Long` is TRUE); nothing else is bounded, the program is finite.

### Fairness and assumptions

`FairSpec` is weak fairness of `Work`, the steps of the task, and of `Advance`,
the clock: asyncio runs a ready task, httpx bounds every phase of a request by
its timeout, the anthropic client bounds its call, and time passes. The log and the
hook have no timeout in the code; the model bounds them by `MaxWait` and the
liveness properties hold under that assumption. Deadlock is checked: the loop
stops only when it died or sleeps at the `Horizon`, where `Over` stutters.

The clock of `ShadowLoop` is never set back; that is a matter of the scheduler alone
(`StepBack`), and `LogInCandleOrder` says nothing of it. Days never recede in the
models of the budget: `_roll_day` treats a day *other* than the remembered one as new, so a wall clock set back across midnight would
give the day a second cap. The scheduler's clock, by contrast, may be set back.
A cycle's cost is known when it ends well, and a call is billed at most once: retries inside the
SDK that were billed too would add to the invoice. `Restart` keeps the log, as Postgres does, and forgets the rest.

## 4. What the runs disagree with

* **`loop_invoice`.** A call that was billed and whose cycle then raises returns
  from `tick` before `record_spend` (`runtime/loop.py:76-78`). The budget never
  learns of it and goes on authorising, up to one billed call per candle all
  day, against "Sem surpresa na fatura" (`marketdata/scheduler.py:9-10`).
  `BillKnown` bounds the damage: what the program does not know of the bill is at
  most one call for each counted error.
* **`loop_slow`.** `recent` returns "os dois mais recentes, em ordem de inserção"
  (`src/tests/unit/persistence/test_decision_log.py:71`), and the loop is not to know which log
  it has (`persistence/decision_log.py:8-9`). Postgres orders by the stamp
  (`persistence/postgres.py:93`), which carries an error of half a time request; such
  a request may take 15 s (`marketdata/rest.py:171`) and the pause is 5 s
  (`runtime/loop.py:92`). A cycle just before a close and one whose time request is
  slow are returned reversed. `StampsNearlyOrdered`, checked and proved for all
  values, bounds the inversion: half a request less the pause, 2.5 s in the program.
* **`spike_cleanup`.** The spike "cancela tudo ao final, inclusive em caso de erro" (its line
  40), but an exception ends it with its orders and position open, and T1 cancels
  once (line 255) although both its orders may have been taken. `LeftoversConfined`
  says what may be left and by whom.
* **`fetch_negative`.** `tick` injects the clock it read before the collection
  (`runtime/loop.py:75`), though `agent/orchestrator.py:135` reserves that for
  tests; a book stamped in between looks as if from the future and the cycle is
  discarded. `src/docs/PLANO_ANALISTA.md:193` reports the age always positive.
* **`risk_raises`.** `evaluate` "nunca levanta" (`risk/engine.py:113-114`), but a plan
  whose targets do not pay their exit costs has a negative reward/risk, which
  `TradeContext` refuses outside any `try` (`risk/engine.py:156`,
  `risk/validators.py:99`). In the loop it ends as a billed cycle without record.
* **`cycle_liquidity`.** `_estimate_liquidity` promises the relevant side of the book
  (`agent/orchestrator.py:239`) and sums the asks (line 240): a short may be
  approved for more than all bids together.

Seen while reading and not stated as runs:

* "Todo ciclo é gravado" (`agent/orchestrator.py:118`), but a cycle that raises
  before `_finalize` is not. `LogAgrees` says exactly which cycles have records.
* `on_cycle` is outside the `try`: `HookRaises` ends the loop.
* An intent's expiry is compared with the clock of the collection and not of
  the answer.
* The age reported for an injected clock is too low by the duration of the
  collection (the `Blind` term of `ValidIsFresh`).
* A book between 5 and 10 s old is VALID to the orchestrator and too old for the
  policy: the model call is paid for and its opening rejected.
* A refusal of the model becomes HALT_TRADING, and nothing halts.
* The series end with a candle still forming, though
  `src/docs/BYBIT_INTEGRACAO.md:127` decides "nunca em candle parcial": the newest
  swing may vanish between two polls. `SwingsSettle` bounds it to that one.
* `recent(limit=0)` returns everything in memory and nothing from Postgres;
  `RecentAgrees` is about limits from 1 on.
* A close beyond the last high and the last low at once counts as bullish: the high
  is looked at first. `MirrorFair` leaves it out.
* When a request of the gather raises, its siblings go on.
* The sizes of the book's levels are read unchecked (`marketdata/rest.py:126-127`) and a negative
  sum would make `AccountState` or `evaluate` refuse. `BooksAssumption` says that the exchange has
  none; `AcceptedCorrect` needs it.
* A placement of the spike refused for lack of funds, say, is reported as an accepted
  duplicate (its line 383), and the verdict INCONCLUSIVO is never produced. `ReportTrue`
  excuses such a test by name.

## 5. What is proved

Every invariant and every action property of the passing runs is a theorem, checked by
TLAPS for all values of the constants; `PartsTypeOK` is the three `TypeCorrect` of its parts.
The theorems on scheduler and budget are about the modules that `MCMarketData` instantiates under the same names. The assumptions are those named in the modules and evaluated
by the runs: `SchedulerAssumption`, `BudgetAssumption`, `FetchAssumption`, `LoopAssumption`
and `SpikeAssumption` (naturals and integers; candle, day and pause between polls positive),
`EngineAssumption`, `CasesAssumption` and `LimitsAssumption` (what the constructors let
through), `ReadingAssumption` (a window, and averages no longer than the candles they are asked of),
`CycleAssumption` (a positive equity, finitely many positive prices), `AnswersAssumption` (the schema's actions; every field is free) and
`BooksAssumption` (any integers for prices and age, sizes not negative).

* **`Sums`**. What a sum over a finite set is, element by element, and when two sums agree
  or stay bounded. The library's induction theorems take an operator and cannot be
  used; `SmallestMember` and `LeastNumber` take a *set* of counterexamples instead
  and give its smallest, since strict inclusion of finite sets is well founded
  (`WFMin`). Every induction here is of this form: for sums, for
  the recursive function of the moving average, for the log.
* **`DailyBudget_proofs`**. `TypeCorrect`, `TotalCorrect`, `CapCorrect`, `Refinement`. The cap is
  not inductive: a payment keeps it only because the running call was authorised
  while its day still had room. `IInv` adds `GrantHasRoom`, which says so of
  the ledger, and `TotalIsLedger`, without which `can_afford` says nothing of
  the ledger. `RolledIsLedger` is the heart: what `_roll_day` leaves is the
  ledger's entry of any day that may be passed.
* **`CandleScheduler_proofs`**. `NoMiss` needs a hypothesis that the code cannot enforce,
  `MaxGap + Buffer <= Interval`, and a positive buffer: with none, a process
  started on a close is asked at once about a candle it has not had time to decide. Its invariant
  is `NoCandleMissed` with the clock between two polls. `NeverTwice` and
  `Refinement` rest on `InOrder`: until the clock is set back, `lastFired` is the newest
  of all closes decided. The lemmas on `LastClose` are the integer
  division the SMT solver does not do by itself.
* **`CoherentFetch_proofs`**. `SkewCorrect`, `FreshCorrect`, `AgeCorrect` from one invariant: a stamp of
  the exchange lies, by its own clock, between the beginning of the await and
  now. `MidpointNear` turns this into the bound on the offset.

* **`RiskEngine_proofs`**. `LossCorrect`, `DailyCorrect`, `LevelsCorrect`, `QtyCorrect`,
  `BindingCorrect`, `RewardCorrect`, `TypeCorrect`, for any policy, instrument, fee and set of calls. `IInv` says
  that an approval is earned: its call passed every gate and its quantity is
  the smallest cap rounded down. Nothing else is inductive about an engine
  that returns once; the work is in what follows from it. `BindingIsFirst` builds the
  minimum of the caps one cap at a time (`OneMore`); `StepBounds` brackets the rounded quotient; `QuantityFits` carries the
  bound of the smallest cap over to the others by cross-multiplication, which is why
  rounding one cap is enough. `LossIsRisk` ties the sizing's risk per unit to the
  cash that changes hands, and needs the stop on the losing side. The daily
  limit then follows although `_projected_daily` never sees the quantity. `RewardCorrect`
  carries the approved reward/risk, a mean over the targets weighted by their fractions,
  over to the cash of the sized trade: both sides are multiplied by the same quantity.

* **`ShadowLoop_proofs`**, the books: `TypeCorrect`, `StatsCorrect`, `BillCorrect`, `LogCorrect`,
  `OrderCorrect`, `StampsCorrect`. The books balance because
  a result exists only between the answer and the record (`ResultOnItsWay`), so every
  way out of a cycle accounts for it once. `LogInv` says the same of the sums over the
  log: a record is in both, or the error that kept it out of the statistics is
  counted. The order of the log needs the clock: the
  newest close does not recede (`CloseAdvances`), so a tick that fires does so for a
  candle newer than all records, and `RecordsBehind` says which part of the cycle knows
  it. `StampInv` follows the corrected stamps: on the exchange's clock a cycle's stamp is no later
  than its last await (`Ahead`) and precedes its tick by half a round trip at most, and
  the ticks of two records are a pause apart. No relation between `MaxWait` and
  `PollInterval` is assumed. All but the statistics and the types are
  about one life (`lives = 0`): a restart forgets the
  statistics, and may decide and record the current candle again.
* **`ShadowLoop_proofs`**, the time: `SchedulerImplemented`, `NoMiss`, `ApprovalCorrect`. `OnTime` bounds, for
  each place in the cycle, how long ago the tick read its clock; the sum over all
  awaits is `LongestTick`. With it every step but a restart is one of
  `CandleScheduler`, whose lemmas, taken from `CandleScheduler_proofs` by `INSTANCE`, say
  that no candle is missed; a restart has nothing to catch up with
  (`FreshStart`). `AgeInv` follows the book from its stamp to the verdict; with `OnTime` it bounds the
  book's true age at the verdict, which the program does not compute.
* **`ShadowLoop_proofs`**, the money: `GateCorrect`, `BudgetImplemented`, `InvoiceCorrect`. `GateInv` says that the
  authorisation held across the awaits is for the tick's day, that the budget
  still remembers this day and that its ledger still has room. The first
  two theorems are about a process that is not restarted (`MaxRestarts = 0`): a new
  one has forgotten the ledger it compares with. The bound of the invoice
  counts lives, so it holds with restarts; `Charged` tells the days that are over, the
  tick's day and the days after it apart, since a call is billed on the day it is
  answered and entered under the day it was authorised. It is proved for
  `~BilledMayRaise` and `~RecordMayRaise`; without them `loop_invoice` refutes it.
* **`Cycle_proofs`**. `TypeCorrect`, `AcceptedCorrect`, `LiquidationCorrect`, `SwingsCorrect`,
  `MirrorCorrect`, for any books, answers, series, window, periods and limits. The engine of a
  cycle is the Risk Engine with `Calls`, the calls that an opening
  answer and a readable book give, as its cases: `JudgeConstants` proves its assumptions
  about them, from the prefilter and the parser, so its theorems hold of every verdict
  of a cycle. That is what `AcceptedCorrect` says, and `Verdict`, the invariant
  of `LiquidationCorrect`, is the engine's own `IInv` for the call being judged. The
  estimate lies half of `1 / leverage` from the entry and the sizing caps
  the notional at `leverage` times the equity (`HalfTheWay`); fees and slippage are inside the risk
  the sizing counted, but for a fee on the way from the stop to the estimate (`LossInParts`).
  `SwingsCorrect` is an action property without an invariant but the candles' types: a step
  changes the last candle or slides the series by one (`CandlesMove`), and a window
  that does not reach the new last candle is read alike before and after, at its old
  or its shifted place (`SwingsAgree`, `SwingsMove`). `MirrorCorrect` goes function by function:
  highs of the mirror are lows, averages are mirrored around the same middle (`EmaMirrored`, by
  the least index where they are not; `EmaExists` first shows that the recursion defines a
  function), hence trend, breaks and regime, with the exclusions of the property: a break of both
  swings at once, an unmoved fast average, and RANGE against TRANSITION.
* **`SpikeS2_proofs`**. `ReportCorrect`, `LeftoversCorrect`. `InSequence` says of T1, T2, T3, T5 and T6 what
  the exchange has taken and holds after every answer, `InConcurrence` the same of T4,
  where a request may still be on its way; `Ended` keeps of a finished test what the report
  asks of it. Most of the work is that a test's steps leave the finished and the future tests alone
  (`Untouched`, `Confined`).

Only model-checked: the liveness properties `CycleEnds` and `KeepsPolling`, which
the prover does not treat; `RepeatsBounded` when the clock is set back (`NeverTwice` is
about a clock that is not); and the runs outside the hypotheses above,
such as a restart for the statements about one life.

## 6. Not modelled

Prompt, runners, contract, mutation gate, lint and review package, and the fields of
snapshot, decision and record that only feed the prompt or the table (section 1 and
"components" in `PROJECT.json` give the reason for each). ATR, imbalance and depth
decide nothing, `estimate_slippage_bps` is called by nothing, and the realized
volatility needs a square root: the gate sees it as a boolean. `MarketReading`
has one timeframe, since the others only feed the prompt. `AccountState.open_orders`, always 0 in shadow mode, and fractional values of the policy's
leverage are left out. `Wake` comes after exactly `PollInterval`, while asyncio may wake the
task later. A placement of the spike that was answered with an error is assumed to
have had no effect. Decimals are exact: the 28-digit
rounding of a quotient or of an average is in no model. Non-finite decimals and values of the wrong type have no
counterpart among integers; the code rejects them at its boundaries.
`max_ticks` and the `day_epoch=None` form of the budget are used by no caller.

## 7. Plan

1. *(done)* rhythm, cap, collection; the loop composed of them; the Risk Engine,
   with their proofs.
2. *(done)* the log and its evaluation in the loop; the contents of a cycle with
   parser, gate and Risk Engine; the reading of the market; the spike.
3. *(done)* the loop's proofs: its books, its timing, its money.
4. *(done)* the remaining proofs: log and history of the loop, reward/risk, the cycle with
   its reading of the market, the spike.
5. `RepeatsBounded` for a clock that is set back; what of the log survives a restart.
6. The precision of the decimal context (`risk/sizing.py:127`), and the policy's hash and
   `from_bybit`.
