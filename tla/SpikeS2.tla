------------------------------ MODULE SpikeS2 -------------------------------
(***************************************************************************)
(* The spike S-2 (tools/spikes/s2_order_link_id_dedup.py): a program that  *)
(* places every order twice under one orderLinkId on the demo exchange, to *)
(* learn whether the exchange refuses the second, cleans up after itself   *)
(* and writes a report.                                                    *)
(*                                                                         *)
(* The exchange is external.  Whether it takes a duplicate is what the     *)
(* program wants to know, so both are possible; any request may be refused *)
(* for another reason, and any may raise in the program with or without    *)
(* effect on the exchange, where one of T4 may still arrive later.  The    *)
(* limit orders lie far from the market and are assumed not to fill.       *)
(***************************************************************************)
EXTENDS Integers, Sequences, FiniteSets

CONSTANT
  Long     \* --long: T5 and T6 too

ASSUME SpikeAssumption == Long \in BOOLEAN

VARIABLES
  status,     \* "starting", "running", "reported", or how the program stopped
  test,       \* the number of the test
  step,       \* the next request of the test
  replies,    \* what the placements of this test answered
  matching,   \* T4: the open orders with its id, once asked for
  cancels,    \* the cancellations the test still has to send
  open,       \* the exchange: open orders by test
  taken,      \* the exchange: orders ever taken, by test
  position,   \* the exchange: the position, in minimum quantities
  inflight,   \* placements of T4 that timed out before they reached the exchange
  rejected,   \* TestResult.duplicate_rejected of the tests that ended
  refused,    \* history: the tests of which a placement was refused, not as a duplicate
  blind,      \* history: the open orders of T4 could not be read
  stuck,      \* history: the exchange refused to cancel or close what was there
  late        \* history: a placement arrived after T4 looked for it

exchange == <<open, taken, position>>
history == <<refused, blind, stuck>>
flight == <<inflight, late>>
vars ==
  <<status, test, step, replies, matching, cancels, exchange, rejected, history, flight>>

Tests == 1 .. IF Long THEN 6 ELSE 4

\* T2, T5 and T6 cancel the first order before they send the second.
Withdraws == {2, 5, 6}

Init ==
  /\ status = "starting"
  /\ test = 1 /\ step = "first"
  /\ replies = <<>> /\ matching = 0 /\ cancels = 0
  /\ open = [t \in Tests |-> 0] /\ taken = [t \in Tests |-> 0]
  /\ position = 0
  /\ rejected = <<>>
  /\ refused = {} /\ blind = FALSE /\ stuck = FALSE
  /\ inflight = 0 /\ late = FALSE

\* run reads keys, instrument and last price before the first order.
Prepare ==
  /\ status = "starting"
  /\ status' \in {"running", "unprepared"}
  /\ UNCHANGED <<test, step, replies, matching, cancels, exchange, rejected, history,
                 flight>>

-----------------------------------------------------------------------------
(* The exchange *)

\* An order under the id of the test is taken: T3's is a market order.
Takes ==
  /\ taken' = [taken EXCEPT ![test] = @ + 1]
  /\ IF test = 3
     THEN position' = position + 1 /\ UNCHANGED open
     ELSE open' = [open EXCEPT ![test] = @ + 1] /\ UNCHANGED position

\* /v5/order/create
Placed(reply) ==
  /\ \/ reply \in {"ok", "raised"} /\ Takes
     \/ reply \in {"refused", "raised"} /\ UNCHANGED exchange
     \/ reply = "duplicate" /\ taken[test] > 0 /\ UNCHANGED exchange
  /\ refused' = refused \cup {t \in {test} : reply = "refused"}

Less(n) == IF n = 0 THEN 0 ELSE n - 1

\* /v5/order/cancel removes one order with the id of the test.
CancelTakes == open' = [open EXCEPT ![test] = Less(@)] /\ UNCHANGED <<taken, position>>

-----------------------------------------------------------------------------
(* The program *)

\* An exception ends the program: the context manager closes the HTTP client
\* and nothing else.
Aborts == status' = "aborted" /\ UNCHANGED <<step, cancels>>

Goes(next, n) == status' = status /\ step' = next /\ cancels' = n

Running(s) == status = "running" /\ step = s

\* The first placement of T1, T2, T3, T5 and T6.
First ==
  /\ Running("first") /\ test # 4
  /\ \E reply \in {"ok", "refused", "raised"} :
       /\ Placed(reply)
       /\ replies' = <<reply>>
       /\ IF reply = "raised" THEN Aborts
          ELSE Goes(IF test \in Withdraws THEN "withdraw" ELSE "second", 0)
  /\ UNCHANGED <<test, matching, rejected, blind, stuck, flight>>

\* T2, T5, T6: the first order is cancelled; the answer is not looked at.
Withdraw ==
  /\ Running("withdraw")
  /\ \/ CancelTakes /\ Goes("second", 0) /\ UNCHANGED stuck
     \/ UNCHANGED exchange /\ Goes("second", 0) /\ stuck' = (stuck \/ open[test] > 0)
     \/ (CancelTakes \/ UNCHANGED exchange) /\ Aborts /\ UNCHANGED stuck
  /\ UNCHANGED <<test, replies, matching, rejected, refused, blind, flight>>

\* What is cancelled after the second placement: T1 always cancels once, the
\* others only what was accepted.
CleanUps(reply) == IF test = 1 \/ (test \in Withdraws /\ reply = "ok") THEN 1 ELSE 0

\* The second placement, under the same id.
Second ==
  /\ Running("second")
  /\ \E reply \in {"ok", "duplicate", "refused", "raised"} :
       /\ Placed(reply)
       /\ replies' = Append(replies, reply)
       /\ IF reply = "raised" THEN Aborts
          ELSE Goes(IF test = 3 THEN "close" ELSE "clean", CleanUps(reply))
  /\ UNCHANGED <<test, matching, rejected, blind, stuck, flight>>

\* Mutant: T3 always closes one order.
ToCloseOnce == 1

\* T3 closes one order or two, as the second was accepted.
ToClose == IF replies[2] = "ok" THEN 2 ELSE 1

\* T3: a reduce-only order closes no more than there is.
ClosePosition ==
  /\ Running("close")
  /\ LET closed == IF ToClose < position THEN ToClose ELSE position
         Closes == position' = position - closed /\ UNCHANGED <<open, taken>>
     IN \/ Closes /\ Goes("clean", 0) /\ UNCHANGED stuck
        \/ UNCHANGED exchange /\ Goes("clean", 0) /\ stuck' = (stuck \/ position > 0)
        \/ (Closes \/ UNCHANGED exchange) /\ Aborts /\ UNCHANGED stuck
  /\ UNCHANGED <<test, replies, matching, rejected, refused, blind, flight>>

\* T4: asyncio.gather sends both placements; the exchange sees them in either
\* order, and return_exceptions keeps an exception of one from ending anything.
Concurrent ==
  /\ Running("first") /\ test = 4
  /\ \E reply \in {"ok", "duplicate", "refused", "raised"} :
       /\ \/ Placed(reply) /\ UNCHANGED inflight
          \/ /\ reply = "raised"
             /\ inflight' = inflight + 1
             /\ UNCHANGED <<exchange, refused>>
       /\ replies' = Append(replies, reply)
  /\ IF Len(replies) = 1 THEN Goes("query", 0) ELSE Goes("first", 0)
  /\ UNCHANGED <<test, matching, rejected, blind, stuck, late>>

\* A placement that timed out reaches the exchange after all.
Lands ==
  /\ inflight > 0
  /\ inflight' = inflight - 1
  /\ taken' = [taken EXCEPT ![4] = @ + 1]
  /\ open' = [open EXCEPT ![4] = @ + 1]
  /\ late' = (late \/ test > 4 \/ step = "clean" \/ status = "reported")
  /\ UNCHANGED <<status, test, step, replies, matching, cancels, position, rejected, history>>

\* T4 asks for the open orders and counts those with its id: an answer without
\* a list counts as none.  It cancels once, and once for each beyond the first.
Query ==
  /\ Running("query")
  /\ \/ /\ matching' = open[test]
        /\ Goes("clean", IF open[test] > 1 THEN open[test] ELSE 1)
        /\ UNCHANGED blind
     \/ matching' = 0 /\ blind' = TRUE /\ Goes("clean", 1)
     \/ Aborts /\ UNCHANGED <<matching, blind>>
  /\ UNCHANGED <<test, replies, exchange, rejected, refused, stuck, flight>>

\* One of the cancellations at the end of a test
Cancel ==
  /\ Running("clean") /\ cancels > 0
  /\ \/ CancelTakes /\ Goes("clean", cancels - 1) /\ UNCHANGED stuck
     \/ /\ UNCHANGED exchange
        /\ Goes("clean", cancels - 1)
        /\ stuck' = (stuck \/ open[test] > 0)
     \/ (CancelTakes \/ UNCHANGED exchange) /\ Aborts /\ UNCHANGED stuck
  /\ UNCHANGED <<test, replies, matching, rejected, refused, blind, flight>>

Accepted == Cardinality({i \in DOMAIN replies : replies[i] = "ok"})

\* Mutant: T4 trusts the answers alone.
DuplicateRejectedAnswers ==
  IF test = 4 THEN Accepted <= 1 ELSE replies[2] = "duplicate"

\* TestResult.duplicate_rejected
DuplicateRejected ==
  IF test = 4 THEN Accepted <= 1 /\ matching <= 1 ELSE replies[2] = "duplicate"

\* The test returns its result; after the last one the report is written.
Return ==
  /\ Running("clean") /\ cancels = 0
  /\ rejected' = Append(rejected, DuplicateRejected)
  /\ IF test + 1 \in Tests THEN test' = test + 1 /\ UNCHANGED status
     ELSE status' = "reported" /\ UNCHANGED test
  /\ step' = "first" /\ replies' = <<>> /\ matching' = 0
  /\ UNCHANGED <<cancels, exchange, history, flight>>

Stopped == status \in {"unprepared", "aborted", "reported"} /\ UNCHANGED vars

Next ==
  \/ Prepare \/ First \/ Withdraw \/ Second \/ ClosePosition \/ Concurrent \/ Lands
  \/ Query \/ Cancel \/ Return \/ Stopped

Spec == Init /\ [][Next]_vars

-----------------------------------------------------------------------------
(* Properties *)

\* write_report: the tests it names under "A Bybit ACEITOU duplicata em"; for
\* none, "rejeitou duplicata em todos os cenarios testados"
AcceptedAny == {t \in DOMAIN rejected : ~rejected[t]}

\* T4 cannot have seen everything: its open orders could not be read, or a
\* request reached the exchange after they were.
Unseen(t) == t = 4 /\ (blind \/ late)

\* The report is true of the exchange, test by test: a test it names took its
\* id twice, or had a placement refused for another reason, which the program
\* does not tell from an accepted duplicate; a test it does not name never took
\* its id twice, but for a T4 that could not see it, although T4's requests may
\* take effect without an answer (write_report, the TestResults of T1 to T6).
ReportTrue ==
  status = "reported" =>
    \A t \in Tests :
      IF t \in AcceptedAny THEN taken[t] = 2 \/ t \in refused
      ELSE taken[t] <= 1 \/ Unseen(t)

\* What a test leaves behind stays within it, however the program ends: one
\* that returned left no position and no order, even if a later one aborts, as
\* long as the exchange did what it was told and T4 saw its orders; T1 may
\* leave one order of two, since it cancels once (line 255).  One that has not
\* begun left nothing.  So what an error leaves is of the test it interrupted.
LeftoversConfined ==
  /\ \A t \in DOMAIN rejected :
       stuck \/ Unseen(t) \/ open[t] <= IF t = 1 /\ taken[1] = 2 THEN 1 ELSE 0
  /\ \A t \in Tests : t > test => open[t] = 0
  /\ test # 3 => stuck \/ position = 0

-----------------------------------------------------------------------------
(* What the documentation says and the code does not keep *)

\* "Cancela tudo ao final, inclusive em caso de erro" (line 40): when the
\* program has ended there is no order and no position of its own, if the
\* exchange did what it was told and T4 saw its orders.
CleansUp ==
  status \in {"reported", "aborted"} /\ ~stuck /\ ~blind /\ ~late =>
    position = 0 /\ \A t \in Tests : open[t] = 0
=============================================================================
