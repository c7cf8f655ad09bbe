---------------------------- MODULE DecisionLog -----------------------------
(***************************************************************************)
(* The decision log (persistence/decision_log.py, persistence/postgres.py) *)
(* and its evaluation (runtime/evaluation.py): records are appended, read  *)
(* back newest last, and summed up.  In memory the records keep the order  *)
(* in which they came; a table is ordered by their ts_ms.                  *)
(*                                                                         *)
(* A record is [ts, candle, analyzed, cost]: ts_ms, the close of the       *)
(* candle the cycle decided (which the code does not keep), and what the   *)
(* evaluation counts.                                                      *)
(***************************************************************************)
EXTENDS Integers, Sequences, FiniteSets, Functions

VARIABLE log     \* the records kept, oldest first

Init == log = <<>>

\* Mutant: only analyses are recorded.
RecordAnalyses(rec) == log' = IF rec.analyzed THEN Append(log, rec) ELSE log

Record(rec) == log' = Append(log, rec)

\* record raised, before or after the record was kept.
RecordRaises(rec) == UNCHANGED log \/ Record(rec)

AtLeast(x, y) == IF x < y THEN y ELSE x

\* InMemoryDecisionLog.recent: records[-limit:], where -0 is 0.
RecentMemory(limit) ==
  IF limit = 0 THEN log ELSE SubSeq(log, AtLeast(Len(log) - limit + 1, 1), Len(log))

\* The orders in which the table may return the records: ties of ts_ms are
\* broken as it likes.
Orders ==
  {p \in Bijection(DOMAIN log, DOMAIN log) :
     \A i, j \in DOMAIN log : i < j => log[p[i]].ts <= log[p[j]].ts}

\* PostgresDecisionLog.recent: the last rows of such an order, newest last.
RecentPostgres(limit) ==
  LET skip == AtLeast(Len(log) - limit, 0)
  IN {[i \in 1 .. Len(log) - skip |-> log[p[skip + i]]] : p \in Orders}

\* summarize_decisions, as far as it counts cycles and money
Summary(records) ==
  LET analysed == {i \in DOMAIN records : records[i].analyzed} IN
  [total |-> Len(records),
   analyzed |-> Cardinality(analysed),
   skipped |-> Len(records) - Cardinality(analysed),
   cost |-> SumFunction([i \in DOMAIN records |-> records[i].cost])]

-----------------------------------------------------------------------------
(* What the documentation says and the code does not keep: see ShadowLoop *)

\* Both back-ends give the same history for every limit from 1 on, in the order
\* in which the records came (test_decision_log.py:71).
RecentAgrees ==
  \A limit \in DOMAIN log : RecentPostgres(limit) = {RecentMemory(limit)}
=============================================================================
