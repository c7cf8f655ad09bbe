--------------------------- MODULE SpikeS2_proofs ----------------------------
(***************************************************************************)
(* Proofs about SpikeS2, with or without the long tests: what its report   *)
(* says of each test is true of the exchange, and what a test leaves       *)
(* behind stays within it.                                                 *)
(***************************************************************************)
EXTENDS SpikeS2, FiniteSetTheorems, TLAPS

Replies == {"ok", "duplicate", "refused", "raised"}
Last == IF Long THEN 6 ELSE 4

\* The types, and that tests are done one after the other
Types ==
  /\ status \in {"starting", "running", "unprepared", "aborted", "reported"}
  /\ test \in Tests
  /\ replies \in Seq(Replies)
  /\ rejected \in Seq(BOOLEAN)
  /\ {matching, cancels, position, inflight} \subseteq Nat
  /\ open \in [Tests -> Nat] /\ taken \in [Tests -> Nat]
  /\ refused \in SUBSET Tests /\ {blind, stuck, late} \subseteq BOOLEAN
  /\ Len(rejected) = IF status = "reported" THEN Last ELSE test - 1
  /\ status = "reported" => test = Last

\* What a test has not begun to do has no effect at the exchange, and T4 places
\* two orders whether their answers come back or not.
Untouched ==
  /\ \A t \in Tests : t > test => taken[t] = 0 /\ open[t] = 0
  /\ test < 3 => position = 0
  /\ test < 4 => inflight = 0
  /\ taken[4] + inflight <= 2

Working == status \in {"starting", "running"}

Ok(i) == IF i \in DOMAIN replies /\ replies[i] = "ok" THEN 1 ELSE 0

\* T1, T2, T3, T5, T6: the exchange took what it answered with "ok", for a
\* request that raises ends the program.
InSequence ==
  /\ step \in {"first", "withdraw", "second", "close", "clean"}
  /\ step = "withdraw" => test \in Withdraws
  /\ step = "close" => test = 3
  /\ Len(replies) = IF step = "first" THEN 0 ELSE IF step \in {"withdraw", "second"} THEN 1 ELSE 2
  /\ \A i \in DOMAIN replies : replies[i] # "raised" /\ (replies[i] = "refused" => test \in refused)
  /\ 1 \in DOMAIN replies => replies[1] # "duplicate"
  /\ taken[test] = Ok(1) + Ok(2)

\* T4: what was answered with "ok" was taken, and what is open was counted.
InConcurrence ==
  /\ step \in {"first", "query", "clean"}
  /\ IF step = "first" THEN Len(replies) <= 1 ELSE Len(replies) = 2
  /\ taken[4] + inflight <= Len(replies)
  /\ Ok(1) + Ok(2) <= taken[4]
  /\ step # "clean" => open[4] = taken[4]
  /\ step = "clean" =>
       /\ matching <= taken[4]
       /\ blind \/ late \/ matching = taken[4]
       /\ stuck \/ blind \/ late \/ open[4] <= cancels

\* What the running test still has to clean up
T1Cleans ==
  IF step # "clean" THEN open[1] = taken[1]
  ELSE cancels <= 1 /\ (stuck \/ open[1] = IF cancels = 1 THEN taken[1] ELSE Less(taken[1]))
WithdrawnCleans ==
  IF step \in {"first", "withdraw"} THEN open[test] = taken[test]
  ELSE stuck \/ open[test] = IF step = "second" THEN 0 ELSE cancels
T3Cleans ==
  /\ open[3] = 0
  /\ IF step = "clean" THEN cancels = 0 /\ (stuck \/ position = 0) ELSE position = taken[3]

TestInv ==
  Working =>
    /\ IF test = 4 THEN InConcurrence ELSE InSequence
    /\ test = 1 => T1Cleans
    /\ test \in Withdraws => WithdrawnCleans
    /\ test = 3 => T3Cleans

\* What the tests that ended say of the exchange and left there
Ended ==
  /\ \A t \in DOMAIN rejected :
       /\ rejected[t] => Unseen(t) \/ taken[t] <= 1
       /\ ~rejected[t] => t \in refused \/ taken[t] = 2
       /\ stuck \/ Unseen(t) \/ open[t] = IF t = 1 /\ taken[1] = 2 THEN 1 ELSE 0
  /\ 3 \in DOMAIN rejected => stuck \/ position = 0

IInv == Types /\ Untouched /\ TestInv /\ Ended

-----------------------------------------------------------------------------
LEMMA TestsAre ==
  /\ Tests = 1 .. Last /\ Last \in {4, 6} /\ Last \in Tests /\ Tests \subseteq Nat
  /\ Withdraws = {2, 5, 6}
  /\ {1, 2, 3, 4} \subseteq Tests
BY SpikeAssumption DEF Tests, Last, Withdraws

\* One more answer
LEMMA OneMore ==
  ASSUME NEW S, NEW s \in Seq(S), NEW e \in S
  PROVE  /\ Len(s) \in Nat /\ DOMAIN s = 1 .. Len(s) /\ \A i \in DOMAIN s : s[i] \in S
         /\ Append(s, e) \in Seq(S) /\ Len(Append(s, e)) = Len(s) + 1
         /\ DOMAIN Append(s, e) = DOMAIN s \cup {Len(s) + 1}
         /\ \A i \in DOMAIN s : Append(s, e)[i] = s[i]
         /\ Append(s, e)[Len(s) + 1] = e
OBVIOUS

LEMMA SmallNat ==
  \A n \in Nat : n <= 1 => n \in {0, 1}
OBVIOUS

LEMMA FewIndices == 1 .. 0 = {} /\ 1 .. 1 = {1} /\ 1 .. 2 = {1, 2}
OBVIOUS

\* Two answers were both "ok", or at most one was.
LEMMA AcceptedCounts ==
  ASSUME Types, Len(replies) = 2
  PROVE  /\ Accepted <= 1 => Ok(1) + Ok(2) <= 1
         /\ Ok(1) + Ok(2) <= 1 => Accepted <= 1
<1> DEFINE oks == {i \in DOMAIN replies : replies[i] = "ok"}
<1>1. DOMAIN replies = {1, 2}
  BY DEF Types
<1>2. /\ Ok(1) = IF replies[1] = "ok" THEN 1 ELSE 0
      /\ Ok(2) = IF replies[2] = "ok" THEN 1 ELSE 0
  BY <1>1 DEF Ok
<1>3. CASE replies[1] = "ok" /\ replies[2] = "ok"
  <2>1. oks = {1} \cup {2}
    BY <1>1, <1>3
  <2>2. Cardinality({1} \cup {2}) = Cardinality({1}) + 1
    BY FS_Singleton, FS_AddElement, 2 \notin {1}
  <2>3. Cardinality({1}) = 1
    BY FS_Singleton
  <2>4. Accepted = 2
    BY <2>1, <2>2, <2>3 DEF Accepted
  <2> QED
    BY <1>2, <1>3, <2>4
<1>4. CASE replies[1] # "ok" \/ replies[2] # "ok"
  <2>1. oks = {} \/ oks = {1} \/ oks = {2}
    BY <1>1, <1>4
  <2>2. Cardinality(oks) \in {0, 1}
    BY <2>1, FS_Singleton, FS_EmptySet
  <2>3. Accepted \in {0, 1}
    BY <2>2 DEF Accepted
  <2> QED
    BY <1>2, <1>4, <2>3
<1> QED
  BY <1>3, <1>4

LEMMA InitIInv == Init => IInv
<1> SUFFICES ASSUME Init PROVE IInv
  OBVIOUS
<1>1. /\ status = "starting" /\ test = 1 /\ step = "first" /\ replies = <<>>
      /\ matching = 0 /\ cancels = 0 /\ position = 0 /\ inflight = 0 /\ rejected = <<>>
      /\ open = [t \in Tests |-> 0] /\ taken = [t \in Tests |-> 0]
      /\ refused = {} /\ blind = FALSE /\ stuck = FALSE /\ late = FALSE
  BY DEF Init
<1>2. DOMAIN replies = {} /\ DOMAIN rejected = {}
  BY <1>1
<1>3. Types
  <2>1. open \in [Tests -> Nat] /\ taken \in [Tests -> Nat]
    BY <1>1
  <2>2. replies \in Seq(Replies) /\ rejected \in Seq(BOOLEAN)
    BY <1>1
  <2>3. Len(rejected) = test - 1 /\ test \in Tests
    BY <1>1, TestsAre
  <2> QED
    BY <1>1, <2>1, <2>2, <2>3 DEF Types
<1>4. Untouched
  BY <1>1, TestsAre DEF Untouched
<1>5. TestInv
  BY <1>1, <1>2, TestsAre DEF TestInv, InSequence, T1Cleans, Ok
<1>6. Ended
  BY <1>2 DEF Ended
<1> QED
  BY <1>3, <1>4, <1>5, <1>6 DEF IInv

-----------------------------------------------------------------------------
(* Steps of the running test *)

\* A step of the running test touches nothing of another test.
Confined ==
  /\ UNCHANGED <<test, rejected>>
  /\ status = "running" /\ status' \in {"running", "aborted"}
  /\ open' \in [Tests -> Nat] /\ taken' \in [Tests -> Nat]
  /\ \A t \in Tests \ {test} : open'[t] = open[t] /\ taken'[t] = taken[t]
  /\ position' \in Nat /\ (test # 3 => position' = position)
  /\ inflight' \in Nat /\ (test # 4 => inflight' = inflight)
  /\ refused' \in SUBSET Tests /\ {blind', stuck', late'} \subseteq BOOLEAN
  /\ refused \subseteq refused' /\ (blind => blind') /\ (stuck => stuck') /\ (late => late')

\* The tests before the running one ended; no other did.
LEMMA EndedBefore ==
  ASSUME Types, status # "reported"
  PROVE  /\ test - 1 \in Nat /\ DOMAIN rejected = 1 .. test - 1
         /\ DOMAIN rejected \subseteq Tests \ {test}
<1>1. test \in 1 .. Last /\ Len(rejected) = test - 1 /\ rejected \in Seq(BOOLEAN)
  BY TestsAre DEF Types
<1> QED
  BY <1>1, TestsAre

LEMMA ConfinedKeeps ==
  ASSUME Types, Untouched, Ended, Confined, test = 4 => taken'[4] + inflight' <= 2
  PROVE  Untouched' /\ Ended'
<1>1. /\ test' = test /\ rejected' = rejected /\ test \in Nat
      /\ \A t \in Tests : t # test => open'[t] = open[t] /\ taken'[t] = taken[t]
  BY TestsAre DEF Confined, Types
<1>2. Untouched'
  <2>1. /\ \A t \in Tests : t > test => taken'[t] = 0 /\ open'[t] = 0
        /\ test < 3 => position' = 0
        /\ test < 4 => inflight' = 0
    <3>1. \A t \in Tests : t > test => t # test
      BY <1>1, TestsAre
    <3>2. (test < 3 => test # 3) /\ (test < 4 => test # 4)
      BY <1>1
    <3> QED
      BY <1>1, <3>1, <3>2 DEF Confined, Untouched
  <2>2. taken'[4] + inflight' <= 2
    <3>1. CASE test = 4
      BY <3>1
    <3>2. CASE test # 4
      BY <1>1, <3>2, TestsAre DEF Confined, Untouched
    <3> QED
      BY <3>1, <3>2
  <2> QED
    BY <1>1, <2>1, <2>2 DEF Untouched
<1>3. Ended'
  <2>1. DOMAIN rejected = 1 .. test - 1 /\ DOMAIN rejected \subseteq Tests \ {test}
    BY EndedBefore DEF Confined
  <2>2. ASSUME NEW t \in DOMAIN rejected
        PROVE  /\ open'[t] = open[t] /\ taken'[t] = taken[t]
               /\ taken'[1] = taken[1]
               /\ Unseen(t) => Unseen(t)'
    <3>1. 1 \in Tests \ {test}
      BY <1>1, <2>1, TestsAre DEF Types
    <3> QED
      BY <1>1, <2>1, <3>1 DEF Confined, Unseen
  <2>3. 3 \in DOMAIN rejected => position' = position
    BY <2>1 DEF Confined
  <2> QED
    BY <1>1, <2>2, <2>3 DEF Confined, Ended
<1> QED
  BY <1>2, <1>3

\* An answer to a placement: what it says was taken was taken.
LEMMA PlacedOnce ==
  ASSUME Types, NEW reply \in Replies, Placed(reply)
  PROVE  /\ open' \in [Tests -> Nat] /\ taken' \in [Tests -> Nat] /\ position' \in Nat
         /\ \A t \in Tests \ {test} : open'[t] = open[t] /\ taken'[t] = taken[t]
         /\ refused' \in SUBSET Tests /\ refused \subseteq refused'
         /\ (reply = "refused" => test \in refused')
         /\ \/ /\ reply \in {"ok", "raised"} /\ taken'[test] = taken[test] + 1
               /\ IF test = 3 THEN position' = position + 1 /\ open'[test] = open[test]
                  ELSE position' = position /\ open'[test] = open[test] + 1
            \/ /\ reply # "ok" /\ taken'[test] = taken[test]
               /\ position' = position /\ open'[test] = open[test]
         /\ reply = "duplicate" => taken[test] > 0
<1>1. test \in Tests /\ taken \in [Tests -> Nat] /\ open \in [Tests -> Nat] /\ position \in Nat
  BY DEF Types
<1>2. /\ refused' \in SUBSET Tests /\ refused \subseteq refused'
      /\ (reply = "refused" => test \in refused')
  BY DEF Placed, Types
<1>3. reply = "duplicate" => taken[test] > 0
  BY DEF Placed
<1>4. CASE reply \in {"ok", "raised"} /\ Takes
  BY <1>1, <1>2, <1>4 DEF Takes
<1>5. CASE reply # "ok" /\ UNCHANGED exchange
  BY <1>1, <1>2, <1>3, <1>5 DEF exchange
<1> QED
  BY <1>4, <1>5 DEF Placed

\* A confined step keeps the invariant if it keeps that of its test.
LEMMA StepKeeps ==
  ASSUME IInv, Confined, Types', TestInv', test = 4 => taken'[4] + inflight' <= 2
  PROVE  IInv'
BY ConfinedKeeps DEF IInv

\* The tests in sequence and what is known where a request is made
LEMMA Sequential ==
  ASSUME IInv, status = "running", test # 4
  PROVE  /\ InSequence
         /\ test \in {1, 2, 3, 5, 6} /\ test \in Nat
         /\ test = 1 => T1Cleans
         /\ test \in {2, 5, 6} => WithdrawnCleans
         /\ test = 3 => T3Cleans
BY TestsAre DEF IInv, Types, TestInv, Working

\* The types a step leaves alone or keeps
LEMMA TypesKept ==
  ASSUME Types, Confined, matching' = matching, cancels' \in Nat,
         replies' \in Seq(Replies)
  PROVE  Types'
<1>1. test' = test /\ rejected' = rejected /\ status # "reported" /\ status' # "reported"
  BY DEF Confined
<1> QED
  BY <1>1 DEF Types, Confined

LEMMA FirstKeeps == IInv /\ First => IInv'
<1> SUFFICES ASSUME IInv, First PROVE IInv'
  OBVIOUS
<1>1. Types
  BY DEF IInv
<1>2. /\ status = "running" /\ step = "first" /\ test # 4
      /\ UNCHANGED <<test, matching, rejected, blind, stuck, inflight, late>>
  BY DEF First, Running, flight
<1>3. PICK reply \in {"ok", "refused", "raised"} :
        /\ Placed(reply)
        /\ replies' = <<reply>>
        /\ IF reply = "raised" THEN Aborts
           ELSE Goes(IF test \in Withdraws THEN "withdraw" ELSE "second", 0)
  BY DEF First
<1>4. /\ open' \in [Tests -> Nat] /\ taken' \in [Tests -> Nat] /\ position' \in Nat
      /\ \A t \in Tests \ {test} : open'[t] = open[t] /\ taken'[t] = taken[t]
      /\ refused' \in SUBSET Tests /\ refused \subseteq refused'
      /\ (reply = "refused" => test \in refused')
      /\ \/ /\ reply \in {"ok", "raised"} /\ taken'[test] = taken[test] + 1
            /\ IF test = 3 THEN position' = position + 1 /\ open'[test] = open[test]
               ELSE position' = position /\ open'[test] = open[test] + 1
         \/ /\ reply # "ok" /\ taken'[test] = taken[test]
            /\ position' = position /\ open'[test] = open[test]
  BY <1>1, <1>3, PlacedOnce DEF Replies
<1>5. /\ InSequence /\ test \in {1, 2, 3, 5, 6} /\ test \in Nat
      /\ test = 1 => T1Cleans
      /\ test \in {2, 5, 6} => WithdrawnCleans
      /\ test = 3 => T3Cleans
  BY <1>2, Sequential
<1>6. Len(replies) = 0 /\ taken[test] = 0 /\ taken \in [Tests -> Nat]
  BY <1>1, <1>2, <1>5 DEF InSequence, Ok, Types
<1>7. open[test] = 0 /\ (test = 3 => position = 0)
  BY <1>2, <1>5, <1>6 DEF T1Cleans, WithdrawnCleans, T3Cleans
<1>8. status' \in {"running", "aborted"} /\ cancels' \in Nat
  BY <1>1, <1>2, <1>3 DEF Aborts, Goes, Types
<1>9. Confined
  BY <1>1, <1>2, <1>4, <1>8 DEF Confined, Types
<1>10. Types'
  BY <1>1, <1>2, <1>3, <1>8, <1>9, TypesKept DEF Replies
<1>11. TestInv'
  <2>1. CASE reply = "raised"
    BY <1>3, <2>1 DEF Aborts, TestInv, Working
  <2>2. CASE reply # "raised"
    <3>1. /\ status' = "running" /\ cancels' = 0
          /\ step' = IF test \in {2, 5, 6} THEN "withdraw" ELSE "second"
          /\ test' = test /\ Len(replies') = 1 /\ DOMAIN replies' = {1} /\ replies'[1] = reply
      BY <1>2, <1>3, <2>2, TestsAre DEF Goes
    <3>2. \/ reply = "ok" /\ taken'[test] = 1
          \/ reply = "refused" /\ test \in refused' /\ taken'[test] = 0
      BY <1>4, <1>6, <2>2
    <3>3. InSequence'
      BY <1>5, <3>1, <3>2, TestsAre DEF InSequence, Ok
    <3>4. /\ test = 1 => T1Cleans'
          /\ test \in {2, 5, 6} => WithdrawnCleans'
          /\ test = 3 => T3Cleans'
      BY <1>4, <1>6, <1>7, <2>2, <3>1, <3>2 DEF T1Cleans, WithdrawnCleans, T3Cleans
    <3> QED
      BY <1>2, <1>5, <3>1, <3>3, <3>4, TestsAre DEF TestInv, Working
  <2> QED
    BY <2>1, <2>2
<1> QED
  BY <1>2, <1>9, <1>10, <1>11, StepKeeps

LEMMA WithdrawKeeps == IInv /\ Withdraw => IInv'
<1> SUFFICES ASSUME IInv, Withdraw PROVE IInv'
  OBVIOUS
<1>1. Types
  BY DEF IInv
<1>2. /\ status = "running" /\ step = "withdraw" /\ taken' = taken /\ position' = position
      /\ UNCHANGED <<test, replies, matching, rejected, refused, blind, inflight, late>>
  BY DEF Withdraw, Running, flight, CancelTakes, exchange
<1>3. test \in {2, 5, 6} /\ test \in Tests /\ test # 4 /\ test \in Nat
  BY <1>1, <1>2, TestsAre DEF IInv, TestInv, Working, InConcurrence, InSequence, Types
<1>4. InSequence /\ WithdrawnCleans
  BY <1>2, <1>3, Sequential
<1>5. /\ open' = [open EXCEPT ![test] = Less(@)] \/ open' = open
      /\ \/ status' = "aborted" /\ cancels' = cancels /\ stuck' = stuck
         \/ /\ status' = "running" /\ step' = "second" /\ cancels' = 0
            /\ \/ open' = [open EXCEPT ![test] = Less(@)] /\ stuck' = stuck
               \/ open' = open /\ stuck' = (stuck \/ open[test] > 0)
  BY <1>2 DEF Withdraw, CancelTakes, Goes, Aborts, exchange
<1>6. open[test] = taken[test] /\ taken[test] \in {0, 1} /\ Less(open[test]) = 0
      /\ open \in [Tests -> Nat] /\ stuck \in BOOLEAN
  <2>1. Ok(1) \in {0, 1} /\ Ok(2) = 0
    BY <1>1, <1>2, <1>4 DEF InSequence, Ok, Types
  <2> QED
    BY <1>1, <1>2, <1>4, <2>1 DEF InSequence, WithdrawnCleans, Less, Types
<1>7. /\ open' \in [Tests -> Nat] /\ \A t \in Tests \ {test} : open'[t] = open[t]
      /\ status' = "running" => stuck' \/ open'[test] = 0
      /\ stuck' \in BOOLEAN /\ (stuck => stuck')
  <2>1. CASE open' = [open EXCEPT ![test] = Less(@)] /\ stuck' = stuck
    BY <1>3, <1>6, <2>1
  <2>2. CASE open' = open /\ (stuck' = stuck \/ stuck' = (stuck \/ open[test] > 0))
    <3>1. stuck' \in BOOLEAN /\ (stuck => stuck')
      BY <1>6, <2>2
    <3>2. status' = "running" => stuck' \/ open[test] = 0
      <4>1. status' = "running" => stuck' = (stuck \/ open[test] > 0) \/ open' = [open EXCEPT ![test] = Less(@)]
        BY <1>5
      <4>2. open' = [open EXCEPT ![test] = Less(@)] => open'[test] = 0
        BY <1>3, <1>6
      <4>3. open[test] = 0 \/ open[test] > 0
        BY <1>3, <1>6
      <4> QED
        BY <2>2, <4>1, <4>2, <4>3
    <3> QED
      BY <1>3, <1>6, <2>2, <3>1, <3>2
  <2> QED
    BY <1>5, <2>1, <2>2
<1>8. Confined
  BY <1>1, <1>2, <1>5, <1>7 DEF Confined, Types
<1>9. Types'
  BY <1>1, <1>2, <1>5, <1>8, TypesKept DEF Types
<1>10. TestInv'
  <2>1. CASE status' = "aborted"
    BY <2>1 DEF TestInv, Working
  <2>2. CASE status' = "running"
    <3>1. step' = "second"
      BY <1>5, <2>2
    <3>2. InSequence'
      BY <1>2, <1>3, <1>4, <3>1 DEF InSequence, Ok
    <3>3. WithdrawnCleans'
      BY <1>2, <1>7, <2>2, <3>1 DEF WithdrawnCleans
    <3> QED
      BY <1>2, <1>3, <3>2, <3>3 DEF TestInv
  <2> QED
    BY <1>5, <2>1, <2>2
<1> QED
  BY <1>3, <1>8, <1>9, <1>10, StepKeeps

LEMMA SecondKeeps == IInv /\ Second => IInv'
<1> SUFFICES ASSUME IInv, Second PROVE IInv'
  OBVIOUS
<1>1. Types
  BY DEF IInv
<1>2. /\ status = "running" /\ step = "second"
      /\ UNCHANGED <<test, matching, rejected, blind, stuck, inflight, late>>
  BY DEF Second, Running, flight
<1>3. PICK reply \in Replies :
        /\ Placed(reply)
        /\ replies' = Append(replies, reply)
        /\ IF reply = "raised" THEN Aborts
           ELSE Goes(IF test = 3 THEN "close" ELSE "clean", CleanUps(reply))
  BY DEF Second, Replies
<1>4. /\ open' \in [Tests -> Nat] /\ taken' \in [Tests -> Nat] /\ position' \in Nat
      /\ \A t \in Tests \ {test} : open'[t] = open[t] /\ taken'[t] = taken[t]
      /\ refused' \in SUBSET Tests /\ refused \subseteq refused'
      /\ (reply = "refused" => test \in refused')
      /\ \/ /\ reply \in {"ok", "raised"} /\ taken'[test] = taken[test] + 1
            /\ IF test = 3 THEN position' = position + 1 /\ open'[test] = open[test]
               ELSE position' = position /\ open'[test] = open[test] + 1
         \/ /\ reply # "ok" /\ taken'[test] = taken[test]
            /\ position' = position /\ open'[test] = open[test]
      /\ reply = "duplicate" => taken[test] > 0
  BY <1>1, <1>3, PlacedOnce
<1>5. test # 4
  BY <1>2 DEF IInv, TestInv, Working, InConcurrence
<1>6. /\ InSequence /\ test \in {1, 2, 3, 5, 6} /\ test \in Nat
      /\ test = 1 => T1Cleans
      /\ test \in {2, 5, 6} => WithdrawnCleans
      /\ test = 3 => T3Cleans
  BY <1>2, <1>5, Sequential
<1>7. /\ Len(replies) = 1 /\ DOMAIN replies = {1} /\ replies[1] \in {"ok", "refused"}
      /\ replies[1] = "refused" => test \in refused
  <2>1. Len(replies) = 1
    BY <1>2, <1>6 DEF InSequence
  <2>2. DOMAIN replies = {1} /\ replies[1] \in Replies
    BY <1>1, <2>1, OneMore, FewIndices DEF Types
  <2> QED
    BY <1>6, <2>1, <2>2 DEF InSequence, Replies
<1>8. taken[test] = IF replies[1] = "ok" THEN 1 ELSE 0
  BY <1>6, <1>7 DEF InSequence, Ok
<1>9. /\ test = 1 => open[1] = taken[1]
      /\ test \in {2, 5, 6} => stuck \/ open[test] = 0
      /\ test = 3 => open[3] = 0 /\ position = taken[3]
  BY <1>2, <1>6 DEF T1Cleans, WithdrawnCleans, T3Cleans
<1>10. CleanUps(reply) = IF test = 1 \/ (test \in {2, 5, 6} /\ reply = "ok") THEN 1 ELSE 0
  BY TestsAre DEF CleanUps
<1>11. status' \in {"running", "aborted"} /\ cancels' \in Nat
  BY <1>1, <1>2, <1>3, <1>10 DEF Aborts, Goes, Types
<1>12. Confined
  BY <1>1, <1>2, <1>4, <1>11 DEF Confined, Types
<1>13. /\ replies' \in Seq(Replies)
       /\ Len(replies') = 2 /\ DOMAIN replies' = {1, 2}
       /\ replies'[1] = replies[1] /\ replies'[2] = reply
  <2>1. replies \in Seq(Replies)
    BY <1>1 DEF Types
  <2> QED
    BY <1>3, <1>7, <2>1, OneMore
<1>14. Types'
  BY <1>1, <1>2, <1>11, <1>12, <1>13, TypesKept
<1>15. TestInv'
  <2>1. CASE reply = "raised"
    BY <1>3, <2>1 DEF Aborts, TestInv, Working
  <2>2. CASE reply # "raised"
    <3>1. /\ status' = "running" /\ cancels' = CleanUps(reply)
          /\ step' = IF test = 3 THEN "close" ELSE "clean"
          /\ test' = test
      BY <1>2, <1>3, <2>2 DEF Goes
    <3>2. taken'[test] = taken[test] + (IF reply = "ok" THEN 1 ELSE 0)
      BY <1>4, <1>8, <2>2
    <3>3. InSequence'
      <4>1. /\ Ok(1)' = (IF replies[1] = "ok" THEN 1 ELSE 0)
            /\ Ok(2)' = (IF reply = "ok" THEN 1 ELSE 0)
        BY <1>13 DEF Ok
      <4>2. taken'[test'] = Ok(1)' + Ok(2)'
        BY <1>8, <3>1, <3>2, <4>1
      <4>3. \A i \in DOMAIN replies' :
              replies'[i] # "raised" /\ (replies'[i] = "refused" => test \in refused')
        BY <1>4, <1>7, <1>13, <2>2
      <4> QED
        BY <1>6, <1>7, <1>13, <3>1, <4>2, <4>3 DEF InSequence
    <3>4. test = 1 => T1Cleans'
      BY <1>2, <1>4, <1>8, <1>9, <1>10, <2>2, <3>1, <3>2 DEF T1Cleans
    <3>5. test \in {2, 5, 6} => WithdrawnCleans'
      BY <1>2, <1>4, <1>8, <1>9, <1>10, <2>2, <3>1 DEF WithdrawnCleans
    <3>6. test = 3 => T3Cleans'
      BY <1>4, <1>8, <1>9, <2>2, <3>1, <3>2 DEF T3Cleans
    <3> QED
      BY <1>5, <1>6, <3>1, <3>3, <3>4, <3>5, <3>6, TestsAre DEF TestInv, Working
  <2> QED
    BY <2>1, <2>2
<1> QED
  BY <1>5, <1>12, <1>14, <1>15, StepKeeps

LEMMA ClosePositionKeeps == IInv /\ ClosePosition => IInv'
<1> SUFFICES ASSUME IInv, ClosePosition PROVE IInv'
  OBVIOUS
<1>1. Types
  BY DEF IInv
<1>2. /\ status = "running" /\ step = "close" /\ open' = open /\ taken' = taken
      /\ UNCHANGED <<test, replies, matching, rejected, refused, blind, inflight, late>>
  BY DEF ClosePosition, Running, flight, exchange
<1>3. test = 3
  BY <1>2 DEF IInv, TestInv, Working, InConcurrence, InSequence
<1>4. InSequence /\ T3Cleans
  BY <1>2, <1>3, Sequential
<1>5. Len(replies) = 2 /\ DOMAIN replies = {1, 2}
  BY <1>1, <1>2, <1>4, OneMore, FewIndices DEF InSequence, Types
<1>6. position = Ok(1) + Ok(2) /\ Ok(1) \in {0, 1} /\ Ok(2) = IF replies[2] = "ok" THEN 1 ELSE 0
  BY <1>2, <1>3, <1>4, <1>5 DEF InSequence, T3Cleans, Ok
<1> DEFINE closed == IF ToClose < position THEN ToClose ELSE position
<1>7. closed = position
  BY <1>6 DEF ToClose
<1>8. /\ \/ status' = "aborted"
         \/ status' = "running" /\ step' = "clean" /\ cancels' = 0
      /\ \/ position' = position - closed /\ stuck' = stuck
         \/ position' = position /\ status' = "aborted" /\ stuck' = stuck
         \/ position' = position /\ stuck' = (stuck \/ position > 0)
      /\ cancels' \in {0, cancels}
  BY <1>2 DEF ClosePosition, Goes, Aborts, exchange
<1>9. /\ position' \in Nat /\ stuck' \in BOOLEAN /\ (stuck => stuck')
      /\ status' = "running" => stuck' \/ position' = 0
  <2>1. position \in Nat /\ position - position = 0
    BY <1>1 DEF Types
  <2>2. stuck \in BOOLEAN
    BY <1>1 DEF Types
  <2> HIDE DEF closed
  <2>3. CASE position' = position - closed /\ stuck' = stuck
    BY <1>7, <2>1, <2>2, <2>3
  <2>4. CASE position' = position /\ status' = "aborted" /\ stuck' = stuck
    BY <2>1, <2>2, <2>4
  <2>5. CASE position' = position /\ stuck' = (stuck \/ position > 0)
    <3>1. position = 0 \/ position > 0
      BY <2>1
    <3> QED
      BY <2>1, <2>2, <2>5, <3>1
  <2> QED
    BY <1>8, <2>3, <2>4, <2>5
<1>10. Confined
  BY <1>1, <1>2, <1>3, <1>8, <1>9 DEF Confined, Types
<1>11. Types'
  BY <1>1, <1>2, <1>8, <1>10, TypesKept DEF Types
<1>12. TestInv'
  <2>1. CASE status' = "aborted"
    BY <2>1 DEF TestInv, Working
  <2>2. CASE status' = "running"
    <3>1. step' = "clean" /\ cancels' = 0
      BY <1>8, <2>2
    <3>2. InSequence'
      BY <1>2, <1>3, <1>4, <1>5, <3>1 DEF InSequence, Ok
    <3>3. T3Cleans'
      BY <1>2, <1>4, <1>9, <2>2, <3>1 DEF T3Cleans
    <3> QED
      BY <1>2, <1>3, <3>2, <3>3, TestsAre DEF TestInv
  <2> QED
    BY <1>8, <2>1, <2>2
<1> QED
  BY <1>3, <1>10, <1>11, <1>12, StepKeeps

LEMMA ConcurrentKeeps == IInv /\ Concurrent => IInv'
<1> SUFFICES ASSUME IInv, Concurrent PROVE IInv'
  OBVIOUS
<1>1. Types
  BY DEF IInv
<1>2. /\ status = "running" /\ step = "first" /\ test = 4 /\ test \in Tests
      /\ UNCHANGED <<test, matching, rejected, blind, stuck, late>>
  BY <1>1 DEF Concurrent, Running, Types
<1>3. InConcurrence /\ Len(replies) \in {0, 1}
  <2>1. InConcurrence
    BY <1>2 DEF IInv, TestInv, Working
  <2>2. Len(replies) \in Nat
    BY <1>1 DEF Types
  <2>3. Len(replies) <= 1
    BY <1>2, <2>1 DEF InConcurrence
  <2>4. Len(replies) \in {0, 1}
    BY <2>2, <2>3, SmallNat
  <2> QED
    BY <2>1, <2>4
<1>4. PICK reply \in Replies :
        /\ \/ Placed(reply) /\ UNCHANGED inflight
           \/ /\ reply = "raised"
              /\ inflight' = inflight + 1
              /\ UNCHANGED <<exchange, refused>>
        /\ replies' = Append(replies, reply)
  BY DEF Concurrent, Replies
<1>5. /\ taken[4] \in Nat /\ open[4] = taken[4] /\ inflight \in Nat
      /\ taken[4] + inflight <= Len(replies) /\ Ok(1) + Ok(2) <= taken[4]
  BY <1>1, <1>2, <1>3 DEF InConcurrence, Types
<1>6. /\ open' \in [Tests -> Nat] /\ taken' \in [Tests -> Nat] /\ position' = position
      /\ inflight' \in Nat
      /\ \A t \in Tests \ {test} : open'[t] = open[t] /\ taken'[t] = taken[t]
      /\ refused' \in SUBSET Tests /\ refused \subseteq refused'
      /\ open'[4] = taken'[4]
      /\ taken'[4] >= taken[4] + (IF reply = "ok" THEN 1 ELSE 0)
      /\ taken'[4] + inflight' <= taken[4] + inflight + 1
  <2>1. CASE Placed(reply) /\ UNCHANGED inflight
    BY <1>1, <1>2, <1>5, <2>1, PlacedOnce
  <2>2. CASE reply = "raised" /\ inflight' = inflight + 1 /\ UNCHANGED <<exchange, refused>>
    BY <1>1, <1>2, <1>5, <2>2 DEF exchange, Types
  <2> QED
    BY <1>4, <2>1, <2>2
<1>7. /\ status' = "running" /\ cancels' = 0
      /\ step' = IF Len(replies) = 1 THEN "query" ELSE "first"
  BY <1>2 DEF Concurrent, Goes
<1>8. Confined
  BY <1>1, <1>2, <1>6, <1>7 DEF Confined, Types
<1>9. /\ replies' \in Seq(Replies) /\ Len(replies') = Len(replies) + 1
      /\ DOMAIN replies' = DOMAIN replies \cup {Len(replies) + 1}
      /\ DOMAIN replies = 1 .. Len(replies)
      /\ \A i \in DOMAIN replies : replies'[i] = replies[i]
      /\ replies'[Len(replies) + 1] = reply
  BY <1>1, <1>4, OneMore DEF Types
<1>10. Types'
  BY <1>1, <1>2, <1>7, <1>8, <1>9, TypesKept
<1>11. (Ok(1) + Ok(2))' = Ok(1) + Ok(2) + (IF reply = "ok" THEN 1 ELSE 0)
  <2>1. CASE Len(replies) = 0
    BY <1>9, <2>1, FewIndices DEF Ok
  <2>2. CASE Len(replies) = 1
    BY <1>9, <2>2, FewIndices DEF Ok
  <2> QED
    BY <1>3, <2>1, <2>2
<1>12. InConcurrence' /\ taken'[4] + inflight' <= 2
  <2>1. taken'[4] \in Nat /\ inflight' \in Nat /\ Ok(1) + Ok(2) \in Nat
    BY <1>2, <1>6 DEF Ok
  <2>2. /\ taken'[4] + inflight' <= Len(replies') /\ Len(replies') \in {1, 2}
        /\ taken'[4] + inflight' <= 2
    <3>1. Len(replies) \in {0, 1} /\ Len(replies') = Len(replies) + 1
      BY <1>3, <1>9
    <3>2. taken'[4] + inflight' <= taken[4] + inflight + 1 /\ taken[4] + inflight <= Len(replies)
      BY <1>5, <1>6
    <3>3. {taken[4], inflight, taken'[4], inflight'} \subseteq Nat
      BY <1>5, <2>1
    <3>4. /\ taken'[4] + inflight' <= Len(replies) + 1 /\ Len(replies) + 1 \in {1, 2}
          /\ taken'[4] + inflight' <= 2
      <4> DEFINE n == Len(replies)
                 a == taken'[4]
                 b == inflight'
                 c == taken[4]
                 d == inflight
      <4>1. n \in {0, 1} /\ {a, b, c, d} \subseteq Nat /\ a + b <= c + d + 1 /\ c + d <= n
        BY <3>1, <3>2, <3>3
      <4> HIDE DEF n, a, b, c, d
      <4>2. a + b <= n + 1 /\ n + 1 \in {1, 2} /\ a + b <= 2
        BY <4>1
      <4> QED
        BY <4>2 DEF n, a, b
    <3> QED
      BY <3>1, <3>4
  <2>3. (Ok(1) + Ok(2))' <= taken'[4]
    BY <1>5, <1>6, <1>11, <2>1
  <2>4. /\ step' \in {"first", "query"} /\ (step' = "first" => Len(replies') <= 1)
        /\ step' # "first" => Len(replies') = 2
    BY <1>3, <1>7, <1>9
  <2>5. open'[4] = taken'[4] /\ step' # "clean"
    BY <1>6, <2>4
  <2>6. InConcurrence'
    BY <2>2, <2>3, <2>4, <2>5 DEF InConcurrence
  <2> QED
    BY <2>2, <2>6
<1>13. TestInv'
  BY <1>2, <1>12, TestsAre DEF TestInv
<1> QED
  BY <1>8, <1>10, <1>12, <1>13, StepKeeps

LEMMA QueryKeeps == IInv /\ Query => IInv'
<1> SUFFICES ASSUME IInv, Query PROVE IInv'
  OBVIOUS
<1>1. Types
  BY DEF IInv
<1>2. /\ status = "running" /\ step = "query"
      /\ UNCHANGED <<test, replies, open, taken, position, rejected, refused, stuck, inflight,
                     late>>
  BY DEF Query, Running, exchange, flight
<1>3. test = 4 /\ InConcurrence
  BY <1>2 DEF IInv, TestInv, Working, InSequence
<1>4. /\ taken[4] \in Nat /\ open[4] = taken[4] /\ inflight \in Nat /\ Len(replies) = 2
      /\ taken[4] + inflight <= 2
  BY <1>1, <1>2, <1>3 DEF InConcurrence, Types
<1>5. \/ status' = "aborted" /\ matching' = matching /\ blind' = blind /\ cancels' = cancels
      \/ /\ status' = "running" /\ step' = "clean"
         /\ \/ /\ matching' = open[4] /\ blind' = blind
               /\ cancels' = IF open[4] > 1 THEN open[4] ELSE 1
            \/ matching' = 0 /\ blind' = TRUE /\ cancels' = 1
  BY <1>2, <1>3 DEF Query, Goes, Aborts
<1>6. blind' \in BOOLEAN /\ (blind => blind') /\ cancels' \in Nat /\ matching' \in Nat
  <2>1. blind \in BOOLEAN /\ cancels \in Nat /\ matching \in Nat /\ open[4] \in Nat
    BY <1>1, <1>4 DEF Types
  <2>2. cancels' \in Nat /\ matching' \in Nat
    BY <1>5, <2>1
  <2>3. blind' \in BOOLEAN /\ (blind => blind')
    BY <1>5, <2>1
  <2> QED
    BY <2>2, <2>3
<1>7. Confined
  BY <1>1, <1>2, <1>5, <1>6 DEF Confined, Types
<1>8. Types'
  BY <1>1, <1>2, <1>6, <1>7 DEF Types, Confined
<1>9. TestInv'
  <2>1. CASE status' = "aborted"
    BY <2>1 DEF TestInv, Working
  <2>2. CASE status' = "running"
    <3>1. InConcurrence'
      BY <1>2, <1>3, <1>4, <1>5, <2>2 DEF InConcurrence, Ok
    <3> QED
      BY <1>2, <1>3, <3>1, TestsAre DEF TestInv
  <2> QED
    BY <1>5, <2>1, <2>2
<1> QED
  BY <1>2, <1>4, <1>7, <1>8, <1>9, StepKeeps

LEMMA LandsKeeps == IInv /\ Lands => IInv'
<1> SUFFICES ASSUME IInv, Lands PROVE IInv'
  OBVIOUS
<1>1. Types
  BY DEF IInv
<1>2. /\ UNCHANGED <<status, test, step, replies, matching, cancels, position, rejected, refused,
                      blind, stuck>>
      /\ inflight > 0 /\ inflight' = inflight - 1
      /\ taken' = [taken EXCEPT ![4] = @ + 1] /\ open' = [open EXCEPT ![4] = @ + 1]
      /\ late' = (late \/ test > 4 \/ step = "clean" \/ status = "reported")
  BY DEF Lands, history
<1>3. test \in Tests /\ test \in Nat /\ test >= 4 /\ inflight \in Nat
  BY <1>1, <1>2, TestsAre DEF IInv, Untouched, Types
<1>4. /\ taken' \in [Tests -> Nat] /\ open' \in [Tests -> Nat]
      /\ taken[4] \in Nat /\ open[4] \in Nat
      /\ taken'[4] = taken[4] + 1 /\ open'[4] = open[4] + 1
      /\ \A t \in Tests : t # 4 => taken'[t] = taken[t] /\ open'[t] = open[t]
  <2>1. taken \in [Tests -> Nat] /\ open \in [Tests -> Nat] /\ 4 \in Tests
    BY <1>1, TestsAre DEF Types
  <2> QED
    BY <1>2, <2>1
<1>5. /\ late' \in BOOLEAN /\ (late => late')
      /\ test > 4 \/ step = "clean" \/ status = "reported" => late'
  BY <1>1, <1>2 DEF Types
<1>6. inflight' \in Nat
  BY <1>2, <1>3
<1>7. Types'
  BY <1>1, <1>2, <1>4, <1>5, <1>6 DEF Types
<1>8. Untouched'
  <2>1. \A t \in Tests : t > test => taken'[t] = 0 /\ open'[t] = 0
    BY <1>2, <1>3, <1>4, TestsAre DEF IInv, Untouched
  <2>2. taken'[4] + inflight' <= 2
    BY <1>2, <1>3, <1>4 DEF IInv, Untouched
  <2> QED
    BY <1>2, <1>3, <2>1, <2>2 DEF Untouched
<1>9. Ended'
  <2>1. /\ rejected \in Seq(BOOLEAN) /\ DOMAIN rejected \subseteq Tests
        /\ 4 \in DOMAIN rejected => late'
    <3>1. Len(rejected) = (IF status = "reported" THEN Last ELSE test - 1)
          /\ rejected \in Seq(BOOLEAN) /\ test \in 1 .. Last
      BY <1>1, TestsAre DEF Types
    <3>2. CASE status = "reported"
      BY <1>5, <3>1, <3>2, TestsAre
    <3>3. CASE status # "reported"
      <4>1. DOMAIN rejected = 1 .. test - 1
        BY <3>1, <3>3
      <4>2. 4 \in 1 .. test - 1 => test > 4
        BY <1>3
      <4>3. 1 .. test - 1 \subseteq 1 .. Last
        BY <3>1, TestsAre
      <4> QED
        BY <1>5, <3>1, <4>1, <4>2, <4>3, TestsAre
    <3> QED
      BY <3>2, <3>3
  <2>2. ASSUME NEW t \in DOMAIN rejected
        PROVE  \/ Unseen(t)'
               \/ /\ taken'[t] = taken[t] /\ open'[t] = open[t]
                  /\ taken'[1] = taken[1] /\ (Unseen(t) => Unseen(t)')
    BY <1>2, <1>4, <1>5, <2>1, TestsAre DEF Unseen
  <2>3. ASSUME NEW t \in DOMAIN rejected
        PROVE  /\ rejected'[t] => Unseen(t)' \/ taken'[t] <= 1
               /\ ~rejected'[t] => t \in refused' \/ taken'[t] = 2
               /\ stuck' \/ Unseen(t)' \/ open'[t] = IF t = 1 /\ taken'[1] = 2 THEN 1 ELSE 0
    <3>1. CASE Unseen(t)'
      <4>1. t = 4
        BY <3>1 DEF Unseen
      <4>2. taken[4] # 2
        BY <1>2, <1>3, <1>4 DEF IInv, Untouched
      <4>3. ~rejected[t] => t \in refused
        BY <4>1, <4>2 DEF IInv, Ended
      <4> QED
        BY <1>2, <3>1, <4>3
    <3>2. CASE ~Unseen(t)'
      BY <1>2, <2>2, <3>2 DEF IInv, Ended
    <3> QED
      BY <3>1, <3>2
  <2> QED
    BY <1>2, <2>3 DEF IInv, Ended
<1>10. TestInv'
  <2> SUFFICES ASSUME Working PROVE TestInv'
    BY <1>2 DEF TestInv, Working
  <2>1. CASE test = 4
    <3>1. InConcurrence
      BY <2>1 DEF IInv, TestInv
    <3>2. taken'[4] + inflight' = taken[4] + inflight
      BY <1>2, <1>3, <1>4
    <3>3. Ok(1)' = Ok(1) /\ Ok(2)' = Ok(2) /\ Ok(1) + Ok(2) \in Nat
      BY <1>2 DEF Ok
    <3>4. (Ok(1) + Ok(2))' <= taken'[4]
      BY <1>4, <3>1, <3>3 DEF InConcurrence
    <3>5. step = "clean" => late' /\ matching <= taken'[4]
      BY <1>1, <1>4, <1>5, <3>1 DEF InConcurrence, Types
    <3>6. InConcurrence'
      BY <1>2, <1>4, <3>1, <3>2, <3>4, <3>5 DEF InConcurrence
    <3> QED
      BY <1>2, <2>1, <3>6, TestsAre DEF TestInv
  <2>2. CASE test # 4
    <3>1. InSequence /\ taken'[test] = taken[test] /\ open'[test] = open[test]
      BY <1>3, <1>4, <2>2 DEF IInv, TestInv
    <3>2. InSequence'
      BY <1>2, <3>1 DEF InSequence, Ok
    <3>3. test \in Withdraws => WithdrawnCleans'
      BY <1>2, <3>1 DEF IInv, TestInv, WithdrawnCleans
    <3>4. test # 1 /\ test # 3
      BY <1>3
    <3> QED
      BY <1>2, <2>2, <3>2, <3>3, <3>4 DEF TestInv
  <2> QED
    BY <2>1, <2>2
<1> QED
  BY <1>7, <1>8, <1>9, <1>10 DEF IInv

LEMMA CancelKeeps == IInv /\ Cancel => IInv'
<1> SUFFICES ASSUME IInv, Cancel PROVE IInv'
  OBVIOUS
<1>1. Types
  BY DEF IInv
<1>2. /\ status = "running" /\ step = "clean" /\ cancels > 0 /\ taken' = taken
      /\ UNCHANGED <<test, replies, matching, position, rejected, refused, blind, inflight, late>>
  BY DEF Cancel, Running, CancelTakes, exchange, flight
<1>3. /\ cancels \in Nat /\ stuck \in BOOLEAN /\ test \in Tests /\ test \in Nat
      /\ open \in [Tests -> Nat] /\ taken \in [Tests -> Nat]
  BY <1>1, TestsAre DEF Types
<1>4. /\ open' = [open EXCEPT ![test] = Less(@)] \/ open' = open
      /\ \/ status' = "aborted" /\ cancels' = cancels /\ stuck' = stuck
         \/ /\ status' = "running" /\ step' = "clean" /\ cancels' = cancels - 1
            /\ \/ open' = [open EXCEPT ![test] = Less(@)] /\ stuck' = stuck
               \/ open' = open /\ stuck' = (stuck \/ open[test] > 0)
  BY <1>2 DEF Cancel, CancelTakes, Goes, Aborts, exchange
<1>5. open' \in [Tests -> Nat] /\ \A t \in Tests \ {test} : open'[t] = open[t]
  BY <1>3, <1>4 DEF Less
<1>6. /\ stuck' \in BOOLEAN /\ (stuck => stuck') /\ cancels' \in Nat
      /\ status' = "running" /\ ~stuck' => open'[test] = Less(open[test])
  <2>1. stuck' \in BOOLEAN /\ (stuck => stuck')
    <3>1. stuck' = stuck \/ stuck' = (stuck \/ open[test] > 0)
      BY <1>4
    <3> QED
      BY <1>3, <3>1
  <2>2. cancels' \in Nat
    BY <1>2, <1>3, <1>4
  <2>3. ASSUME status' = "running", ~stuck' PROVE open'[test] = Less(open[test])
    <3>1. CASE open' = [open EXCEPT ![test] = Less(@)]
      BY <1>3, <3>1
    <3>2. CASE open' = open /\ stuck' = (stuck \/ open[test] > 0)
      <4>1. open[test] \in Nat /\ ~(open[test] > 0)
        BY <1>3, <2>3, <3>2
      <4>2. open[test] = 0
        BY <4>1
      <4> QED
        BY <3>2, <4>2 DEF Less
    <3> QED
      BY <1>4, <2>3, <3>1, <3>2
  <2> QED
    BY <2>1, <2>2, <2>3
<1>7. status' \in {"running", "aborted"}
  BY <1>4
<1>8. Confined
  BY <1>1, <1>2, <1>3, <1>5, <1>6, <1>7 DEF Confined, Types
<1>9. Types'
  BY <1>1, <1>2, <1>6, <1>8, TypesKept DEF Types
<1>10. TestInv'
  <2>1. CASE status' = "aborted"
    BY <2>1 DEF TestInv, Working
  <2>2. CASE status' = "running"
    <3>1. step' = "clean" /\ cancels' = cancels - 1
      BY <1>4, <2>2
    <3>2. CASE test = 4
      <4>1. InConcurrence
        BY <1>2, <3>2 DEF IInv, TestInv, Working
      <4>2. stuck' \/ blind \/ late \/ open'[4] <= cancels'
        <5>1. stuck \/ blind \/ late \/ open[4] <= cancels
          BY <1>2, <4>1 DEF InConcurrence
        <5>2. open[4] \in Nat
          BY <1>3, <3>2
        <5>3. open[4] <= cancels => Less(open[4]) <= cancels - 1
          BY <1>2, <1>3, <5>2 DEF Less
        <5> QED
          BY <1>6, <2>2, <3>1, <3>2, <5>1, <5>3
      <4>3. Ok(1)' = Ok(1) /\ Ok(2)' = Ok(2)
        BY <1>2 DEF Ok
      <4>4. InConcurrence'
        BY <1>2, <3>1, <4>1, <4>2, <4>3 DEF InConcurrence
      <4> QED
        BY <1>2, <3>2, <4>4, TestsAre DEF TestInv
    <3>3. CASE test # 4
      <4>1. /\ InSequence /\ test \in {1, 2, 3, 5, 6}
            /\ test = 1 => T1Cleans
            /\ test \in {2, 5, 6} => WithdrawnCleans
            /\ test = 3 => T3Cleans
        BY <1>2, <3>3, Sequential
      <4>2. test # 3
        BY <1>2, <4>1 DEF T3Cleans
      <4>3. InSequence'
        BY <1>2, <3>1, <4>1 DEF InSequence, Ok
      <4>4. test = 1 => T1Cleans'
        <5> HAVE test = 1
        <5>1. cancels = 1 /\ (stuck \/ open[1] = taken[1])
          BY <1>2, <1>3, <4>1 DEF T1Cleans
        <5>2. cancels' = 0 /\ (stuck' \/ open'[1] = Less(taken[1]))
          BY <1>6, <2>2, <3>1, <5>1
        <5> QED
          BY <1>2, <3>1, <5>2 DEF T1Cleans
      <4>5. test \in {2, 5, 6} => WithdrawnCleans'
        <5> HAVE test \in {2, 5, 6}
        <5>1. stuck \/ open[test] = cancels
          BY <1>2, <4>1 DEF WithdrawnCleans
        <5>2. Less(cancels) = cancels - 1
          BY <1>2 DEF Less
        <5>3. stuck' \/ open'[test'] = cancels'
          BY <1>2, <1>6, <2>2, <3>1, <5>1, <5>2
        <5> QED
          BY <3>1, <5>3 DEF WithdrawnCleans
      <4> QED
        BY <1>2, <3>3, <4>1, <4>2, <4>3, <4>4, <4>5, TestsAre DEF TestInv
    <3> QED
      BY <3>2, <3>3
  <2> QED
    BY <1>4, <2>1, <2>2
<1>11. test = 4 => taken'[4] + inflight' <= 2
  BY <1>2 DEF IInv, Untouched
<1> QED
  BY <1>8, <1>9, <1>10, <1>11, StepKeeps

\* What the result of a test says of the exchange, and what the test leaves there
LEMMA TestEnds ==
  ASSUME IInv, Running("clean"), cancels = 0
  PROVE  /\ DuplicateRejected \in BOOLEAN
         /\ DuplicateRejected => Unseen(test) \/ taken[test] <= 1
         /\ ~DuplicateRejected => test \in refused \/ taken[test] = 2
         /\ stuck \/ Unseen(test) \/ open[test] = IF test = 1 /\ taken[1] = 2 THEN 1 ELSE 0
         /\ test = 3 => stuck \/ position = 0
<1>1. Types /\ status = "running" /\ step = "clean"
  BY DEF IInv, Running
<1>2. test \in Tests /\ test \in Nat /\ taken[test] \in Nat /\ open[test] \in Nat
      /\ matching \in Nat
  BY <1>1, TestsAre DEF Types
<1>3. CASE test = 4
  <2>1. InConcurrence
    BY <1>1, <1>3 DEF IInv, TestInv, Working
  <2>2. /\ Len(replies) = 2 /\ Ok(1) + Ok(2) <= taken[4] /\ matching <= taken[4]
        /\ blind \/ late \/ matching = taken[4]
        /\ stuck \/ blind \/ late \/ open[4] <= cancels
    BY <1>1, <2>1 DEF InConcurrence
  <2>3. taken[4] <= 2
    BY <1>2, <1>3, <1>1 DEF IInv, Untouched, Types
  <2>4. (Accepted <= 1 <=> Ok(1) + Ok(2) <= 1) /\ Ok(1) + Ok(2) \in {0, 1, 2}
    BY <1>1, <2>2, AcceptedCounts DEF Ok
  <2>5. DuplicateRejected = (Accepted <= 1 /\ matching <= 1)
    BY <1>3 DEF DuplicateRejected
  <2>6. Unseen(test) <=> blind \/ late
    BY <1>3 DEF Unseen
  <2>7. DuplicateRejected => Unseen(test) \/ taken[test] <= 1
    BY <1>3, <2>2, <2>5, <2>6
  <2>8. ~DuplicateRejected => taken[test] = 2
    <3>1. ~(Ok(1) + Ok(2) <= 1) => taken[4] = 2
      BY <1>2, <1>3, <2>2, <2>3, <2>4
    <3>2. ~(matching <= 1) => taken[4] = 2
      BY <1>2, <1>3, <2>2, <2>3
    <3> QED
      BY <1>3, <2>4, <2>5, <3>1, <3>2
  <2>9. stuck \/ Unseen(test) \/ open[test] = 0
    BY <1>2, <1>3, <2>2, <2>6
  <2> QED
    BY <1>3, <2>5, <2>7, <2>8, <2>9
<1>4. CASE test # 4
  <2>1. /\ InSequence /\ test \in {1, 2, 3, 5, 6}
        /\ test = 1 => T1Cleans
        /\ test \in {2, 5, 6} => WithdrawnCleans
        /\ test = 3 => T3Cleans
    BY <1>1, <1>4, Sequential
  <2>2. DuplicateRejected = (replies[2] = "duplicate")
    BY <1>4 DEF DuplicateRejected
  <2>3. DOMAIN replies = {1, 2} /\ replies[1] \in Replies /\ replies[2] \in Replies
    <3>1. replies \in Seq(Replies) /\ Len(replies) = 2
      BY <1>1, <2>1 DEF InSequence, Types
    <3>2. DOMAIN replies = {1, 2}
      BY <3>1, OneMore, FewIndices
    <3> QED
      BY <3>1, <3>2
  <2>4. taken[test] = Ok(1) + Ok(2)
    BY <2>1 DEF InSequence
  <2>5. /\ Ok(1) = IF replies[1] = "ok" THEN 1 ELSE 0
        /\ Ok(2) = IF replies[2] = "ok" THEN 1 ELSE 0
    BY <2>3 DEF Ok
  <2>6. DuplicateRejected => taken[test] <= 1
    <3>1. DuplicateRejected => Ok(2) = 0
      BY <2>2, <2>5
    <3>2. Ok(1) = 0 \/ Ok(1) = 1
      BY <2>5
    <3> QED
      BY <2>4, <3>1, <3>2
  <2>7. ~DuplicateRejected => test \in refused \/ taken[test] = 2
    <3>1. /\ replies[1] # "raised" /\ replies[2] # "raised" /\ replies[1] # "duplicate"
          /\ (replies[1] = "refused" \/ replies[2] = "refused" => test \in refused)
      BY <2>1, <2>3 DEF InSequence
    <3>2. CASE replies[1] = "ok" /\ replies[2] = "ok"
      BY <2>4, <2>5, <3>2
    <3> QED
      BY <2>2, <2>3, <3>1, <3>2 DEF Replies
  <2>8. stuck \/ open[test] = IF test = 1 /\ taken[1] = 2 THEN 1 ELSE 0
    <3>1. CASE test = 1
      <4>1. taken[1] \in {0, 1, 2}
        BY <2>4, <2>5, <3>1
      <4> QED
        BY <1>1, <2>1, <3>1, <4>1 DEF T1Cleans, Less
    <3>2. CASE test \in {2, 5, 6}
      BY <1>1, <2>1, <3>2 DEF WithdrawnCleans
    <3>3. CASE test = 3
      BY <2>1, <3>3 DEF T3Cleans
    <3> QED
      BY <2>1, <3>1, <3>2, <3>3
  <2>9. test = 3 => stuck \/ position = 0
    BY <1>1, <2>1 DEF T3Cleans
  <2> QED
    BY <2>2, <2>6, <2>7, <2>8, <2>9
<1> QED
  BY <1>3, <1>4

LEMMA ReturnKeeps == IInv /\ Return => IInv'
<1> SUFFICES ASSUME IInv, Return PROVE IInv'
  OBVIOUS
<1>1. Types /\ Untouched /\ Ended
  BY DEF IInv
<1>2. /\ Running("clean") /\ status = "running" /\ cancels = 0
      /\ rejected' = Append(rejected, DuplicateRejected)
      /\ \/ test + 1 \in Tests /\ test' = test + 1 /\ status' = status
         \/ test + 1 \notin Tests /\ status' = "reported" /\ test' = test
      /\ step' = "first" /\ replies' = <<>> /\ matching' = 0
      /\ UNCHANGED <<cancels, open, taken, position, refused, blind, stuck, inflight, late>>
  BY DEF Return, Running, exchange, history, flight
<1>3. /\ test \in Tests /\ test \in 1 .. Last /\ test \in Nat
      /\ rejected \in Seq(BOOLEAN) /\ Len(rejected) = test - 1
  BY <1>1, <1>2, TestsAre DEF Types
<1>4. test + 1 \notin Tests => test = Last
  BY <1>3, TestsAre
<1>5. /\ DuplicateRejected \in BOOLEAN
      /\ DuplicateRejected => Unseen(test) \/ taken[test] <= 1
      /\ ~DuplicateRejected => test \in refused \/ taken[test] = 2
      /\ stuck \/ Unseen(test) \/ open[test] = IF test = 1 /\ taken[1] = 2 THEN 1 ELSE 0
      /\ test = 3 => stuck \/ position = 0
  BY <1>2, TestEnds
<1>6. /\ rejected' \in Seq(BOOLEAN) /\ Len(rejected') = test
      /\ DOMAIN rejected' = DOMAIN rejected \cup {test}
      /\ \A t \in DOMAIN rejected : rejected'[t] = rejected[t]
      /\ rejected'[test] = DuplicateRejected
  <2>1. Len(rejected) + 1 = test
    BY <1>3
  <2>2. /\ Append(rejected, DuplicateRejected) \in Seq(BOOLEAN)
        /\ Len(Append(rejected, DuplicateRejected)) = Len(rejected) + 1
        /\ DOMAIN Append(rejected, DuplicateRejected) = DOMAIN rejected \cup {Len(rejected) + 1}
        /\ \A i \in DOMAIN rejected : Append(rejected, DuplicateRejected)[i] = rejected[i]
        /\ Append(rejected, DuplicateRejected)[Len(rejected) + 1] = DuplicateRejected
    BY <1>3, <1>5, OneMore
  <2> QED
    BY <1>2, <2>1, <2>2
<1>7. Types'
  <2>1. test' \in Tests /\ replies' \in Seq(Replies)
    BY <1>2, <1>3
  <2>2. /\ Len(rejected') = IF status' = "reported" THEN Last ELSE test' - 1
        /\ status' = "reported" => test' = Last
        /\ status' \in {"running", "reported"}
    BY <1>2, <1>3, <1>4, <1>6
  <2> QED
    BY <1>1, <1>2, <1>6, <2>1, <2>2 DEF Types
<1>8. Untouched'
  <2>1. test' \in Nat /\ test' >= test
    BY <1>2, <1>3
  <2>2. \A t \in Tests : t > test' => taken[t] = 0 /\ open[t] = 0
    <3> TAKE t \in Tests
    <3>1. t \in Nat
      BY TestsAre
    <3>2. t > test' => t > test
      BY <1>3, <2>1, <3>1
    <3> QED
      BY <1>1, <3>2 DEF Untouched
  <2>3. (test' < 3 => test < 3) /\ (test' < 4 => test < 4)
    BY <1>3, <2>1
  <2> QED
    BY <1>1, <1>2, <2>2, <2>3 DEF Untouched
<1>9. Ended'
  <2>1. \A t \in DOMAIN rejected :
          /\ rejected[t] => Unseen(t) \/ taken[t] <= 1
          /\ ~rejected[t] => t \in refused \/ taken[t] = 2
          /\ stuck \/ Unseen(t) \/ open[t] = IF t = 1 /\ taken[1] = 2 THEN 1 ELSE 0
    BY <1>1 DEF Ended
  <2>2. \A t \in DOMAIN rejected' :
          /\ rejected'[t] => Unseen(t) \/ taken[t] <= 1
          /\ ~rejected'[t] => t \in refused \/ taken[t] = 2
          /\ stuck \/ Unseen(t) \/ open[t] = IF t = 1 /\ taken[1] = 2 THEN 1 ELSE 0
    BY <1>5, <1>6, <2>1
  <2>3. 3 \in DOMAIN rejected' => stuck \/ position = 0
    BY <1>1, <1>5, <1>6 DEF Ended
  <2>4. \A t : Unseen(t)' <=> Unseen(t)
    BY <1>2 DEF Unseen
  <2> QED
    BY <1>2, <2>2, <2>3, <2>4 DEF Ended
<1>10. TestInv'
  <2> SUFFICES ASSUME Working' PROVE TestInv'
    BY DEF TestInv
  <2>1. test + 1 \in Tests /\ test' = test + 1 /\ test' # 1
    BY <1>2, <1>3 DEF Working
  <2>2. taken[test'] = 0 /\ open[test'] = 0
    <3>1. test' > test
      BY <1>3, <2>1
    <3> QED
      BY <1>1, <2>1, <3>1 DEF Untouched
  <2>3. Len(replies') = 0 /\ DOMAIN replies' = {} /\ Ok(1)' = 0 /\ Ok(2)' = 0
    BY <1>2 DEF Ok
  <2>4. test' = 4 => InConcurrence'
    <3> HAVE test' = 4
    <3>1. inflight = 0
      BY <1>1, <1>3, <2>1 DEF Untouched
    <3> QED
      BY <1>2, <2>2, <2>3, <3>1 DEF InConcurrence
  <2>5. InSequence'
    BY <1>2, <2>2, <2>3 DEF InSequence
  <2>6. test' \in Withdraws => WithdrawnCleans'
    BY <1>2, <2>2 DEF WithdrawnCleans
  <2>7. test' = 3 => T3Cleans'
    <3> HAVE test' = 3
    <3>1. position = 0
      BY <1>1, <1>3, <2>1 DEF Untouched
    <3> QED
      BY <1>2, <2>2, <3>1 DEF T3Cleans
  <2> QED
    BY <2>1, <2>4, <2>5, <2>6, <2>7 DEF TestInv, Withdraws
<1> QED
  BY <1>7, <1>8, <1>9, <1>10 DEF IInv

LEMMA NextIInv == IInv /\ [Next]_vars => IInv'
<1> SUFFICES ASSUME IInv, [Next]_vars PROVE IInv'
  OBVIOUS
<1>1. CASE Prepare
  <2>1. /\ status = "starting" /\ status' \in {"running", "unprepared"}
        /\ UNCHANGED <<test, step, replies, matching, cancels, open, taken, position, rejected,
                       refused, blind, stuck, inflight, late>>
    BY <1>1 DEF Prepare, exchange, history, flight
  <2>2. Types' /\ Untouched' /\ Ended'
    BY <2>1 DEF IInv, Types, Untouched, Ended, Unseen
  <2>3. TestInv'
    <3>1. Working
      BY <2>1 DEF Working
    <3>2. (InSequence => InSequence') /\ (InConcurrence => InConcurrence')
      BY <2>1 DEF InSequence, InConcurrence, Ok
    <3>3. /\ T1Cleans => T1Cleans'
          /\ WithdrawnCleans => WithdrawnCleans'
          /\ T3Cleans => T3Cleans'
      BY <2>1 DEF T1Cleans, WithdrawnCleans, T3Cleans
    <3> QED
      BY <2>1, <3>1, <3>2, <3>3 DEF IInv, TestInv
  <2> QED
    BY <2>2, <2>3 DEF IInv
<1>2. CASE UNCHANGED vars
  BY <1>2 DEF vars, exchange, history, flight, IInv, Types, Untouched, TestInv, Working,
              InSequence, InConcurrence, Ok, T1Cleans, WithdrawnCleans, T3Cleans, Ended, Unseen
<1> QED
  BY <1>1, <1>2, FirstKeeps, WithdrawKeeps, SecondKeeps, ClosePositionKeeps, ConcurrentKeeps,
     LandsKeeps, QueryKeeps, CancelKeeps, ReturnKeeps DEF Next, Stopped

-----------------------------------------------------------------------------
\* The report of s2_order_link_id_dedup.py is true of the exchange, test by
\* test, whatever the exchange answers and whatever is lost on the way: a test
\* it names took its identifier twice or had a placement refused for another
\* reason; a test it does not name took it at most once, unless it is a T4 whose
\* open orders could not be read or were read before a request arrived.
THEOREM ReportCorrect == Spec => []ReportTrue
<1>1. IInv => ReportTrue
  <2> SUFFICES ASSUME IInv, status = "reported", NEW t \in Tests
               PROVE  IF t \in AcceptedAny THEN taken[t] = 2 \/ t \in refused
                      ELSE taken[t] <= 1 \/ Unseen(t)
    BY DEF ReportTrue
  <2>1. rejected \in Seq(BOOLEAN) /\ Len(rejected) = Last
    BY DEF IInv, Types
  <2>2. DOMAIN rejected = Tests
    BY <2>1, TestsAre
  <2>3. t \in AcceptedAny <=> ~rejected[t]
    BY <2>2 DEF AcceptedAny
  <2> QED
    BY <2>2, <2>3 DEF IInv, Ended
<1> QED
  BY <1>1, InitIInv, NextIInv, PTL DEF Spec

\* What a test leaves behind stays within it, however the program ends, with an
\* error or a report: if the exchange did what it was told and T4 saw its
\* orders, a test that returned left nothing, or one of two orders of T1.
THEOREM LeftoversCorrect == Spec => []LeftoversConfined
<1>1. IInv => LeftoversConfined
  <2> SUFFICES ASSUME IInv PROVE LeftoversConfined
    OBVIOUS
  <2>1. /\ test \in Tests /\ rejected \in Seq(BOOLEAN) /\ open \in [Tests -> Nat]
        /\ Len(rejected) = IF status = "reported" THEN Last ELSE test - 1
        /\ status = "reported" => test = Last
    BY DEF IInv, Types
  <2>2. DOMAIN rejected \subseteq Tests /\ (test > 3 => 3 \in DOMAIN rejected)
    BY <2>1, TestsAre
  <2>3. \A t \in DOMAIN rejected :
          stuck \/ Unseen(t) \/ open[t] <= IF t = 1 /\ taken[1] = 2 THEN 1 ELSE 0
    BY <2>1, <2>2 DEF IInv, Ended
  <2>4. \A t \in Tests : t > test => open[t] = 0
    BY DEF IInv, Untouched
  <2>5. test # 3 => stuck \/ position = 0
    <3>1. test < 3 \/ test = 3 \/ test > 3
      BY <2>1, TestsAre
    <3> QED
      BY <2>2, <3>1 DEF IInv, Untouched, Ended
  <2> QED
    BY <2>3, <2>4, <2>5 DEF LeftoversConfined
<1> QED
  BY <1>1, InitIInv, NextIInv, PTL DEF Spec
=============================================================================
