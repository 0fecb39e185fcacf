---------------------------- MODULE Explain_proofs ----------------------------
(* Theorems about the sentences explain picks, for every value of the       *)
(* constants of Experiment.                                                 *)
EXTENDS Explain, ExperimentWrites_proofs

\* What a piece of evidence in the report says about the run it is from,
\* also when the run stopped half way.
EvidenceIsTelling ==
  /\ \A o \in Obs : HasRestart(o) => report.fault /\ cfg.scenario = "crash-after-ack"
  /\ report.retry # Nil => cfg.scenario \in {"lost-response", "crash-after-ack"} /\ Acknowledged
  /\ report.burst # Nil => cfg.scenario = "concurrent-duplicates"
  /\ report.reuse # Nil => cfg.scenario = "key-reuse" /\ Acknowledged /\ Replied(2)
  /\ \A o \in Obs : HasFinal(o) =>
       /\ RetryDeclared => report.retry # Nil
       /\ IF cfg.scenario = "key-reuse" THEN report.reuse # Nil ELSE report.fault

LEMMA EvidenceSources ==
  ASSUME IInv, [Next]_vars
  PROVE  /\ report'.afterRestart = report.afterRestart \/ ReadAfterRestart
         /\ report'.burst = report.burst \/ Join
         /\ report'.reuse = report.reuse \/ ChangedAnswered
<1> USE DEF IInv
<1>1. CASE SameEvidenceIn(report')
  BY <1>1 DEF SameEvidenceIn
<1>2. CASE ReadBaseline \/ ReadAfterRestart \/ ReadFinal
  BY <1>2 DEF ReadBaseline, ReadAfterRestart, ReadFinal, Return, TypeOK, Reports
<1>3. CASE ChangedAnswered
  BY <1>3 DEF ChangedAnswered, Attempted, TypeOK, Reports
<1>4. CASE Join
  BY <1>4 DEF Join, Fail, Return, TypeOK, Reports
<1>5. CASE RetryAnswered
  <2> DEFINE r == Attempted(report, 2, answer[2].status)
  <2>1. PICK x : report' = [r EXCEPT !.retry = x] \/ report' = [r EXCEPT !.status = x]
    BY <1>5 DEF RetryAnswered, Fail, Return
  <2> QED
    BY <2>1 DEF Attempted, TypeOK, Reports
<1> QED
  BY <1>1, <1>2, <1>3, <1>4, <1>5, Collectors

LEMMA AcknowledgedStays ==
  ASSUME IInv, [Next]_vars, Acknowledged
  PROVE  Acknowledged'
BY ReplyStays, RequestFacts DEF Acknowledged

LEMMA TellingStep ==
  ASSUME IInv, EvidenceIsTelling, [Next]_vars
  PROVE  EvidenceIsTelling'
<1>0. UNCHANGED cfg /\ EvidenceStays
  BY SameConfig, EvidenceStep
<1>1. ASSUME NEW o \in Obs, HasRestart(o)'
      PROVE  report'.fault /\ cfg.scenario = "crash-after-ack"
  <2>1. CASE HasRestart(o)
    BY <1>0, <2>1 DEF EvidenceIsTelling, EvidenceStays
  <2>2. CASE ReadAfterRestart
    BY <1>0, <2>2 DEF ReadAfterRestart, IInv, EvidenceInOrder, EvidenceStays
  <2> QED
    BY <1>1, <2>1, <2>2, EvidenceSources DEF HasRestart
<1>2. ASSUME report'.retry # Nil
      PROVE  cfg.scenario \in {"lost-response", "crash-after-ack"} /\ Acknowledged'
  <2>1. CASE report.retry # Nil
    BY <2>1, AcknowledgedStays DEF EvidenceIsTelling
  <2>2. CASE RetryAnswered
    BY <2>2, AcknowledgedStays DEF RetryAnswered, IInv, EvidenceInOrder, WritesInOrder
  <2> QED
    BY <1>2, <2>1, <2>2, RetrySources
<1>3. ASSUME report'.burst # Nil
      PROVE  cfg.scenario = "concurrent-duplicates"
  BY <1>3, EvidenceSources DEF EvidenceIsTelling, Join, IInv, EvidenceInOrder
<1>4. ASSUME report'.reuse # Nil
      PROVE  cfg.scenario = "key-reuse" /\ Acknowledged' /\ Replied(2)'
  <2>1. cfg.scenario = "key-reuse" /\ Acknowledged /\ Replied(2)
    <3>1. CASE report.reuse # Nil
      BY <3>1 DEF EvidenceIsTelling
    <3>2. CASE ChangedAnswered
      BY <3>2 DEF ChangedAnswered, IInv, EvidenceInOrder, WritesInOrder
    <3> QED
      BY <1>4, <3>1, <3>2, EvidenceSources
  <2> QED
    BY <2>1, AcknowledgedStays, ReplyStays, RequestFacts
<1>5. ASSUME NEW o \in Obs, HasFinal(o)'
      PROVE  /\ RetryDeclared => report'.retry # Nil
             /\ IF cfg.scenario = "key-reuse" THEN report'.reuse # Nil ELSE report'.fault
  <2>1. HasFinal(o) \/ pc = "verify"
    BY <1>0, <1>5 DEF EvidenceStays
  <2>2. /\ RetryDeclared => report.retry # Nil
        /\ IF cfg.scenario = "key-reuse" THEN report.reuse # Nil ELSE report.fault
    BY <2>1 DEF EvidenceIsTelling, IInv, EvidenceInOrder
  <2> QED
    BY <1>0, <2>2 DEF EvidenceStays, Kept
<1> QED
  BY <1>0, <1>1, <1>2, <1>3, <1>4, <1>5 DEF EvidenceIsTelling, RetryDeclared

Known == /\ IInv /\ VerdictSound /\ RepliesInHand /\ EvidenceIsTelling
         /\ FaultNeedsAck /\ RetryFollowsAck

LEMMA AlwaysKnown == Spec => []Known
<1>1. Init => RepliesInHand /\ EvidenceIsTelling
  BY DEF Init, EmptyReport, NoChecks, RepliesInHand, EvidenceIsTelling, HasRestart, HasFinal,
         Measured
<1>2. /\ IInv /\ RepliesInHand /\ EvidenceIsTelling /\ [Next]_vars
      => RepliesInHand' /\ EvidenceIsTelling'
  BY RepliesStep, TellingStep
<1> QED
  BY <1>1, <1>2, InductiveInvariant, VerdictIsSound, FaultIsEarned, RetryAfterAck, PTL
     DEF Spec, Known

\* The sentence of a violation is picked by its scenario.
LEMMA SummaryIs ==
  ASSUME IInv
  PROVE  /\ report.status = "PASS" => Summary(report) = "held"
         /\ report.status = "ERROR" => Summary(report) = "no verdict"
         /\ report.status = "VIOLATION" =>
              /\ cfg.scenario = "lost-response" => Summary(report) = LostResponse(report)
              /\ cfg.scenario = "concurrent-duplicates" => Summary(report) = Concurrent(report)
              /\ cfg.scenario = "crash-after-ack" => Summary(report) = Crash(report)
              /\ cfg.scenario = "key-reuse" => Summary(report) = KeyReuse(report)
BY DEF Summary

LEMMA VerdictAndScenario ==
  ASSUME IInv
  PROVE  /\ report.status \in {"PASS", "ERROR", "VIOLATION"}
         /\ cfg.scenario \in Scenarios
BY ConfigFacts DEF IInv, TypeOK, Reports

\* Only a crash has values from between a restart and a retry.
LEMMA RestartMisses ==
  ASSUME EvidenceIsTelling, cfg.scenario # "crash-after-ack"
  PROVE  Misses(report.afterRestart) = {}
BY DEF EvidenceIsTelling, Misses, HasRestart

\* What failed in a violation of the other scenarios, and so the sentence.
LEMMA Explained ==
  ASSUME Known, cfg.scenario # "crash-after-ack", report.status = "VIOLATION", Returned
  PROVE  Summary(report) # Fallback
<1>1. \/ HasIssues(report.retry) \/ HasIssues(report.burst) \/ HasIssues(report.reuse)
      \/ Missed(report.checks)
  BY RestartMisses DEF Known, VerdictSound, Mismatched, Missed
<1>2. CASE cfg.scenario = "lost-response"
  <2>1. HasIssues(report.retry) \/ Missed(report.checks)
    BY <1>1, <1>2 DEF Known, EvidenceIsTelling, HasIssues
  <2>2. LostResponse(report) # Fallback
    BY <2>1 DEF LostResponse, RetryReply, Fallback
  <2> QED
    BY <1>2, <2>2, SummaryIs DEF Known
<1>3. CASE cfg.scenario = "concurrent-duplicates"
  <2>1. HasIssues(report.burst) \/ Missed(report.checks)
    BY <1>1, <1>3 DEF Known, EvidenceIsTelling, HasIssues
  <2>2. Concurrent(report) # Fallback
    BY <2>1 DEF Concurrent, Fallback
  <2> QED
    BY <1>3, <2>2, SummaryIs DEF Known
<1>4. CASE cfg.scenario = "key-reuse"
  <2>1. HasIssues(report.reuse) \/ Missed(report.checks)
    BY <1>1, <1>4 DEF Known, EvidenceIsTelling, HasIssues
  <2>2. KeyReuse(report) # Fallback
    BY <2>1 DEF KeyReuse, Fallback
  <2> QED
    BY <1>4, <2>2, SummaryIs DEF Known
<1> QED
  BY <1>2, <1>3, <1>4, VerdictAndScenario DEF Known, Scenarios

\* A violation of a lost response, a burst or a reused key never ends in the
\* sentence that names nothing, however early the run stopped.
THEOREM ViolationsExplained == Spec => []ViolationIsExplained
<1>1. Known => ViolationIsExplained
  <2> SUFFICES ASSUME Known, cfg.scenario # "crash-after-ack", Returned
               PROVE  Summary(report) # Fallback
    BY DEF ViolationIsExplained, Says
  <2>1. CASE report.status = "VIOLATION"
    BY <2>1, Explained
  <2>2. CASE report.status \in {"PASS", "ERROR"}
    BY <2>2, SummaryIs DEF Known, Fallback
  <2> QED
    BY <2>1, <2>2, VerdictAndScenario DEF Known
<1> QED
  BY <1>1, AlwaysKnown, PTL

\* A duplicate is blamed on the second request only in runs whose first
\* request was acknowledged and whose second one was answered.
THEOREM RepeatsWereAnswered == Spec => []RepeatWasAnswered
<1>1. Known => RepeatWasAnswered
  <2> SUFFICES ASSUME Known, Returned,
                      Summary(report) \in {"the retry ran it again", "the changed request wrote too"}
               PROVE  Acknowledged /\ Replied(2)
    BY DEF RepeatWasAnswered, Says, Acknowledged, Replied
  <2>1. report.status = "VIOLATION"
    BY SummaryIs, VerdictAndScenario DEF Known
  <2>2. cfg.scenario \in {"lost-response", "key-reuse"} /\ Missed(report.checks)
    <3>1. cfg.scenario # "concurrent-duplicates"
      BY <2>1, SummaryIs DEF Known, Concurrent, Fallback
    <3>2. cfg.scenario # "crash-after-ack"
      BY <2>1, SummaryIs DEF Known, Crash, RetryReply, Fallback
    <3>3. cfg.scenario = "lost-response" => Missed(report.checks)
      BY <2>1, SummaryIs DEF Known, LostResponse, RetryReply, Fallback
    <3>4. cfg.scenario = "key-reuse" => Missed(report.checks)
      BY <2>1, SummaryIs DEF Known, KeyReuse, Fallback
    <3> QED
      BY <3>1, <3>2, <3>3, <3>4, VerdictAndScenario DEF Known, Scenarios
  <2>3. \E o \in Obs : HasFinal(o)
    BY <2>2 DEF Missed, Misses, HasFinal, Measured
  <2>4. CASE cfg.scenario = "lost-response"
    BY <2>3, <2>4 DEF Known, EvidenceIsTelling, RetryDeclared, RepliesInHand, Judged
  <2>5. CASE cfg.scenario = "key-reuse"
    BY <2>3, <2>5 DEF Known, EvidenceIsTelling
  <2> QED
    BY <2>2, <2>4, <2>5
<1> QED
  BY <1>1, AlwaysKnown, PTL

\* A loss is blamed on the crash only when the killed service had said 2xx,
\* and the value was seen missing before a retry or in a run without one.
THEOREM LossesAreTheCrash == Spec => []LossIsTheCrash
<1>1. Known => LossIsTheCrash
  <2> SUFFICES ASSUME Known, Returned, Summary(report) = "acknowledged, then lost"
               PROVE  /\ report.fault /\ Success(answer[1].status)
                      /\ Missed(report.afterRestart) \/ wire[2] = "idle"
    BY DEF LossIsTheCrash, Says
  <2>1. report.status = "VIOLATION"
    BY SummaryIs, VerdictAndScenario DEF Known
  <2>2. cfg.scenario = "crash-after-ack"
    <3>1. cfg.scenario # "concurrent-duplicates"
      BY <2>1, SummaryIs DEF Known, Concurrent, Fallback
    <3>2. cfg.scenario # "lost-response"
      BY <2>1, SummaryIs DEF Known, LostResponse, RetryReply, Fallback
    <3>3. cfg.scenario # "key-reuse"
      BY <2>1, SummaryIs DEF Known, KeyReuse, Fallback
    <3> QED
      BY <3>1, <3>2, <3>3, VerdictAndScenario DEF Known, Scenarios
  <2>3. \/ Missed(report.afterRestart)
        \/ Missed(report.checks) /\ report.afterRestart = NoChecks
    BY <2>1, <2>2, SummaryIs DEF Known, Crash, RetryReply, Fallback
  <2>4. report.fault
    <3>1. CASE Missed(report.afterRestart)
      BY <3>1 DEF Missed, Misses, HasRestart, Known, EvidenceIsTelling
    <3>2. CASE Missed(report.checks)
      BY <2>2, <3>2 DEF Missed, Misses, HasFinal, Measured, Known, EvidenceIsTelling
    <3> QED
      BY <2>3, <3>1, <3>2
  <2>5. Acknowledged
    BY <2>2, <2>4 DEF Known, FaultNeedsAck
  <2>6. report.afterRestart = NoChecks => wire[2] = "idle"
    BY <2>2, RequestFacts DEF Known, RetryFollowsAck, Sequential, HasRestart, NoChecks
  <2> QED
    BY <2>3, <2>4, <2>5, <2>6 DEF Acknowledged
<1> QED
  BY <1>1, AlwaysKnown, PTL
=============================================================================
