----------------------- MODULE ExperimentWrites_proofs -----------------------
(***************************************************************************)
(* Theorems about Experiment and the service, for every value of the       *)
(* constants: what the service is asked and when, that Experiment          *)
(* implements Verdict, and what the replies behind a report were.          *)
(***************************************************************************)
EXTENDS Experiment_proofs, FiniteSetTheorems

(* What the service is asked, and when. *)

LEMMA SafeSum ==
  ASSUME NEW a \in MinInt .. MaxInt, NEW d \in MinInt .. MaxInt, ~Overflows(a, d)
  PROVE  Add64(a, d) = a + d
<1>1. MinInt \in Int /\ MaxInt \in Int /\ a \in Int /\ d \in Int /\ MinInt <= 0 /\ 0 <= MaxInt
  BY ExperimentAssumption
<1>2. MinInt <= a + d /\ a + d <= MaxInt
  BY <1>1 DEF Overflows
<1> QED
  BY <1>1, <1>2 DEF Add64

LEMMA AllAreWorkers == Requests = Workers
BY ExperimentAssumption DEF Requests, Workers

LEMMA WritesInit ==
  ASSUME Init
  PROVE  WritesInOrder
BY DEF Init, WritesInOrder, EmptyReport, NoChecks, Measured

\* A return leaves the world alone.
LEMMA ReturnWrites ==
  ASSUME WritesInOrder, pc' = "stop", UNCHANGED <<cfg, drop, world>>,
         report'.checks = report.checks
  PROVE  WritesInOrder'
BY DEF WritesInOrder, Measured, Sequential, Replied, world

\* So does any step that only moves Run to a place with the same duties.
LEMMA MoveWrites ==
  ASSUME WritesInOrder, UNCHANGED <<cfg, drop, world, burstVars>>,
         report'.checks = report.checks,
         pc \in {"begin", "start", "baseline", "send"} \/ pc' \notin {"begin", "start", "baseline", "send"},
         Sequential /\ pc' \in {"original", "select", "crash", "restart", "restarted", "retry", "changed"}
           => wire[2] = "idle",
         pc' \in {"crash", "restart", "restarted", "retry", "retrying", "changed", "changing"}
           => Acknowledged,
         pc' # "burst" \/ pc = "burst",
         pc' = "verify" => Quiet /\ \A o \in Obs : ~HasFinal(o)
  PROVE  WritesInOrder'
BY DEF WritesInOrder, Measured, Sequential, Replied, world, burstVars, HasFinal, Quiet,
       Acknowledged

LEMMA WritesStep ==
  ASSUME TypeOK, EvidenceInOrder, WritesInOrder, [Next]_vars
  PROVE  WritesInOrder'
<1>1. CASE Begin \/ StartService
  BY <1>1 DEF Begin, StartService, Goto, WritesInOrder, Measured, Sequential, Replied, world
<1>2. CASE ReadBaseline
  <2>1. CASE Overflows(effect[k], Delta[k])
    <3>1. pc' = "stop" /\ report'.checks = report.checks
      BY <1>2, <2>1 DEF ReadBaseline, Return, TypeOK, Reports
    <3> QED
      BY <1>2, <3>1, ReturnWrites DEF ReadBaseline
  <2>2. CASE ~Overflows(effect[k], Delta[k])
    <3> DEFINE c == [baseline |-> effect[k], expected |-> Add64(effect[k], Delta[k]),
                     observed |-> Nil]
    <3>1. /\ report'.checks = [report.checks EXCEPT ![k] = c] /\ UNCHANGED <<cfg, drop, world>>
          /\ pc' \in {"baseline", "send"}
      BY <1>2, <2>2 DEF ReadBaseline, TypeOK, Reports, Advance, Goto
    <3>2. effect[k] = cfg.start[k] /\ \A q \in Requests : wire[q] = "idle"
      BY <1>2 DEF ReadBaseline, WritesInOrder
    <3>3. c.baseline = cfg.start[k] /\ c.expected = cfg.start[k] + Delta[k]
      BY <1>2, <2>2, <3>2, SafeSum, ExperimentAssumption DEF ReadBaseline, Reads, TypeOK
    <3>4. \A o \in Obs : Measured(o)' => /\ report'.checks[o].baseline = cfg.start[o]
                                         /\ report'.checks[o].expected = cfg.start[o] + Delta[o]
      BY <3>1, <3>3 DEF Measured, WritesInOrder, TypeOK, Reports
    <3> QED
      BY <1>2, <3>1, <3>4 DEF ReadBaseline, WritesInOrder, Sequential, Replied, world
  <2> QED
    BY <2>1, <2>2
<1>3. CASE SendOriginal
  <2>1. /\ pc' = "original" /\ UNCHANGED <<cfg, report, drop, answer>>
        /\ wire' \in {wire, [wire EXCEPT ![1] = "sent"]}
    BY <1>3 DEF SendOriginal, Goto, Send
  <2>2. \A q \in Requests : wire[q] = "idle"
    BY <1>3 DEF SendOriginal, WritesInOrder
  <2>3. \A q \in Requests \ {1} : wire'[q] = "idle"
    BY <2>1, <2>2 DEF TypeOK
  <2>4. drop \in {Nil, Failed}
    BY <2>2, RequestFacts DEF WritesInOrder, Replied
  <2> QED
    BY <2>1, <2>3, <2>4, RequestFacts DEF WritesInOrder, Measured, Sequential
<1>4. CASE OriginalAnswered
  <2> DEFINE r == Attempted(report, 1, answer[1].status)
  <2>1. r.checks = report.checks
    BY DEF Attempted, TypeOK, Reports
  <2>2. UNCHANGED <<cfg, drop, world, burstVars>> /\ pc = "original" /\ Replied(1)
    BY <1>4 DEF OriginalAnswered, world, burstVars
  <2>3. CASE Success(answer[1].status)
    <3>1. report' = r /\ pc' \in {"changed", "crash"}
      BY <1>4, <2>3 DEF OriginalAnswered, Goto
    <3>2. Acknowledged
      BY <2>2, <2>3 DEF Acknowledged
    <3>3. report'.checks = report.checks
      BY <2>1, <3>1
    <3>4. Sequential => wire[2] = "idle"
      BY <2>2 DEF WritesInOrder
    <3> QED
      BY <2>2, <3>1, <3>2, <3>3, <3>4, MoveWrites
  <2>4. CASE ~Success(answer[1].status)
    <3>0. Fail(r)
      BY <1>4, <2>4 DEF OriginalAnswered
    <3>1. pc' = "stop" /\ report'.checks = r.checks
      BY <3>0 DEF Fail, Return, Attempted, TypeOK, Reports
    <3> QED
      BY <2>1, <2>2, <3>1, ReturnWrites
  <2> QED
    BY <2>3, <2>4
<1>5. CASE ProxyForwarded
  <2>1. /\ drop'.status = answer[1].status /\ Replied(1)
        /\ UNCHANGED <<cfg, pc, report, world, burstVars>>
    BY <1>5 DEF ProxyForwarded
  <2> QED
    BY <2>1 DEF WritesInOrder, Measured, Sequential, Replied, world, burstVars, HasFinal,
                Quiet, Acknowledged
<1>6. CASE ClientLosesReply \/ ClientSeesProxyError
  <2>1. PICK outcome \in {Failed} \cup ProxyStatuses : report' = Attempted(report, 1, outcome)
    BY <1>6 DEF ClientLosesReply, ClientSeesProxyError
  <2>2. report'.checks = report.checks
    BY <2>1 DEF Attempted, TypeOK, Reports
  <2>3. /\ pc = "original" /\ pc' = "select" /\ UNCHANGED <<cfg, drop, world, burstVars>>
        /\ cfg.scenario = "lost-response"
    BY <1>6 DEF ClientLosesReply, ClientSeesProxyError, Goto
  <2> QED
    BY <2>2, <2>3, MoveWrites DEF WritesInOrder
<1>7. CASE TakeResult
  <2>1. UNCHANGED <<cfg, drop, world, burstVars>> /\ report'.checks = report.checks
    BY <1>7 DEF TakeResult, Fail, Return, TypeOK, Reports
  <2>2. CASE pc' = "stop"
    BY <2>1, <2>2, ReturnWrites
  <2>3. CASE pc' # "stop"
    <3>1. /\ pc = "select" /\ pc' = "retry" /\ drop \notin {Nil, Failed}
          /\ Success(drop.status)
      BY <1>7, <2>3 DEF TakeResult, Fail, Return, Goto
    <3>2. Acknowledged
      BY <3>1 DEF WritesInOrder, Acknowledged
    <3> QED
      BY <2>1, <3>1, <3>2, MoveWrites DEF WritesInOrder
  <2> QED
    BY <2>2, <2>3
<1>8. CASE CrashKills
  <2>1. /\ pc = "crash" /\ pc' = "restart" /\ UNCHANGED <<cfg, drop, wire, answer>>
        /\ report'.checks = report.checks
    BY <1>8 DEF CrashKills, Goto, TypeOK, Reports
  <2> QED
    BY <2>1 DEF WritesInOrder, Measured, Sequential, Replied, Acknowledged
<1>9. CASE Restart
  <2>1. /\ pc = "restart" /\ pc' \in {"verify", "restarted"}
        /\ UNCHANGED <<cfg, report, drop, wire, answer, effect>>
    BY <1>9 DEF Restart, Goto
  <2>2. Sequential
    BY <2>1 DEF EvidenceInOrder, Sequential
  <2>3. Quiet
    BY <2>1, <2>2 DEF WritesInOrder, Quiet, Acknowledged, Replied
  <2>4. \A o \in Obs : ~HasFinal(o)
    BY <2>1 DEF EvidenceInOrder
  <2> QED
    BY <2>1, <2>2, <2>3, <2>4
       DEF WritesInOrder, Measured, Sequential, Replied, Acknowledged, Quiet, HasFinal
<1>10. CASE ReadAfterRestart
  <2>1. /\ pc = "restarted" /\ pc' \in {"restarted", "retry"}
        /\ UNCHANGED <<cfg, drop, world, burstVars>> /\ report'.checks = report.checks
    BY <1>10 DEF ReadAfterRestart, Advance, Goto, TypeOK, Reports
  <2> QED
    BY <2>1, MoveWrites DEF WritesInOrder
<1>11. CASE SendRetry
  <2>1. /\ pc = "retry" /\ pc' = "retrying" /\ UNCHANGED <<cfg, report, drop, answer>>
        /\ wire' \in {wire, [wire EXCEPT ![2] = "sent"]}
    BY <1>11 DEF SendRetry, Goto, Send
  <2>2. wire'[1] = wire[1] /\ \A q \in Requests \ {1, 2} : wire'[q] = wire[q]
    BY <2>1, RequestFacts DEF TypeOK
  <2> QED
    BY <2>1, <2>2 DEF WritesInOrder, Measured, Sequential, Replied, Acknowledged
<1>12. CASE RetryAnswered
  <2> DEFINE status == answer[2].status
             check == ResponseCheck(cfg.rule, OriginalBody, status,
                                    Captured(cfg.rule, answer[2].body))
             r == Attempted(report, 2, status)
  <2>1. /\ pc = "retrying" /\ Replied(2) /\ Sequential
        /\ UNCHANGED <<cfg, drop, world, burstVars>>
        /\ \A o \in Obs : ~HasFinal(o)
    BY <1>12 DEF RetryAnswered, EvidenceInOrder, Sequential
  <2>2. CASE Conclusive(cfg.rule, OriginalBody, status)
    <3>1. report' = [r EXCEPT !.retry = check] /\ pc' = "verify"
      BY <1>12, <2>2 DEF RetryAnswered, Goto
    <3>2. report'.checks = report.checks
      BY <3>1 DEF Attempted, TypeOK, Reports
    <3>3. Quiet
      BY <2>1 DEF Quiet, WritesInOrder, Acknowledged, Replied
    <3> QED
      BY <2>1, <3>1, <3>2, <3>3, MoveWrites
  <2>3. CASE ~Conclusive(cfg.rule, OriginalBody, status)
    <3>1. Fail(r)
      BY <1>12, <2>3 DEF RetryAnswered
    <3>2. report'.checks = report.checks /\ pc' = "stop"
      BY <3>1 DEF Attempted, TypeOK, Reports, Fail, Return
    <3> QED
      BY <2>1, <3>2, ReturnWrites
  <2> QED
    BY <2>2, <2>3
<1>13. CASE SendChanged
  <2>1. /\ pc = "changed" /\ pc' = "changing" /\ UNCHANGED <<cfg, report, drop, answer>>
        /\ wire' \in {wire, [wire EXCEPT ![2] = "sent"]}
    BY <1>13 DEF SendChanged, Goto, Send
  <2>2. wire'[1] = wire[1] /\ \A q \in Requests \ {1, 2} : wire'[q] = wire[q]
    BY <2>1, RequestFacts DEF TypeOK
  <2> QED
    BY <2>1, <2>2 DEF WritesInOrder, Measured, Sequential, Replied, Acknowledged
<1>14. CASE ChangedAnswered
  <2>1. /\ pc = "changing" /\ pc' = "verify" /\ Replied(2) /\ Sequential
        /\ UNCHANGED <<cfg, drop, world, burstVars>>
        /\ \A o \in Obs : ~HasFinal(o)
    BY <1>14 DEF ChangedAnswered, Goto, EvidenceInOrder, Sequential
  <2>2. report'.checks = report.checks
    BY <1>14 DEF ChangedAnswered, Attempted, TypeOK, Reports
  <2>3. Quiet
    BY <2>1 DEF Quiet, WritesInOrder, Acknowledged, Replied
  <2> QED
    BY <2>1, <2>2, <2>3, MoveWrites
<1>15. CASE Release
  <2>1. /\ pc' = "burst" /\ group' = Workers /\ UNCHANGED <<cfg, report, drop, world>>
        /\ ~Sequential
    BY <1>15 DEF Release, Goto, Sequential
  <2> QED
    BY <2>1 DEF WritesInOrder, Measured, Sequential, Replied, world
<1>16. ASSUME NEW w \in Workers, WorkerSends(w)
       PROVE  WritesInOrder'
  <2>1. /\ UNCHANGED <<cfg, pc, report, drop, slots, group, answer>> /\ pc = "burst"
        /\ wire[w] = "idle" /\ wire' = [wire EXCEPT ![w] = "sent"]
    BY <1>16 DEF WorkerSends, Send
  <2>2. \A q \in Requests : wire[q] = "replied" => wire'[q] = "replied"
    BY <2>1, RequestFacts DEF TypeOK
  <2>3. ~Sequential
    BY <2>1 DEF EvidenceInOrder, Sequential
  <2> QED
    BY <2>1, <2>2, <2>3, RequestFacts DEF WritesInOrder, Measured, Sequential, Replied
<1>17. ASSUME NEW w \in Workers, WorkerAnswered(w)
       PROVE  WritesInOrder'
  <2>1. /\ UNCHANGED <<cfg, pc, report, drop, world>> /\ pc = "burst" /\ Replied(w)
        /\ slots' = [slots EXCEPT ![w] = answer[w].status] /\ group' = group \ {w}
    BY <1>17 DEF WorkerAnswered, WorkerEnds
  <2>2. \A v \in Workers \ group' : slots'[v] # Failed => Replied(v)
    BY <2>1 DEF WritesInOrder, TypeOK
  <2> QED
    BY <2>1, <2>2 DEF WritesInOrder, Measured, Sequential, Replied, world, Acknowledged
<1>18. ASSUME NEW w \in Workers, WorkerFails(w)
       PROVE  WritesInOrder'
  <2>1. /\ UNCHANGED <<cfg, pc, report, drop, world>> /\ pc = "burst"
        /\ slots' = [slots EXCEPT ![w] = Failed] /\ group' = group \ {w}
    BY <1>18 DEF WorkerFails, WorkerEnds
  <2>2. \A v \in Workers \ group' : slots'[v] # Failed => Replied(v)
    BY <2>1 DEF WritesInOrder, TypeOK
  <2> QED
    BY <2>1, <2>2 DEF WritesInOrder, Measured, Sequential, Replied, world, Acknowledged
<1>19. CASE Join
  <2> DEFINE statuses == {slots[w] : w \in Workers}
             r == [report EXCEPT !.fault = TRUE,
                     !.attempts = [q \in Requests |-> IF q \in Workers THEN slots[q] ELSE Nil]]
  <2>1. /\ pc = "burst" /\ group = {} /\ UNCHANGED <<cfg, drop, world, burstVars>>
        /\ ~Sequential /\ \A o \in Obs : ~HasFinal(o)
    BY <1>19 DEF Join, EvidenceInOrder, Sequential, burstVars
  <2>2. CASE Failed \in statuses
    <3>1. Fail(r)
      BY <1>19, <2>2 DEF Join
    <3>2. report'.checks = report.checks /\ pc' = "stop"
      BY <3>1 DEF TypeOK, Reports, Fail, Return
    <3> QED
      BY <2>1, <3>2, ReturnWrites
  <2>3. CASE Failed \notin statuses
    <3>1. report' = [r EXCEPT !.burst = BurstResponses(cfg.burst, statuses)] /\ pc' = "verify"
      BY <1>19, <2>3 DEF Join, Goto
    <3>2. report'.checks = report.checks
      BY <3>1 DEF TypeOK, Reports
    <3>3. \A w \in Workers : Replied(w)
      BY <2>1, <2>3 DEF WritesInOrder
    <3>4. Quiet
      BY <3>3, AllAreWorkers DEF Quiet, Replied
    <3> QED
      BY <2>1, <3>1, <3>2, <3>4, MoveWrites
  <2> QED
    BY <2>2, <2>3
<1>20. CASE ReadFinal
  <2>1. /\ pc = "verify" /\ pc' \in {"verify", "stop"} /\ UNCHANGED <<cfg, drop, world>>
        /\ report'.checks = [report.checks EXCEPT ![k] = Observed(k)]
    BY <1>20 DEF ReadFinal, Return, TypeOK, Reports
  <2>2. /\ Measured(k) /\ Observed(k).observed = effect[k]
        /\ Observed(k).baseline = report.checks[k].baseline
        /\ Observed(k).expected = report.checks[k].expected
    BY <2>1 DEF Observed, EvidenceInOrder, TypeOK, Measured, Reports, StateChecks
  <2>3. \A o \in Obs : Measured(o)' =>
          /\ report'.checks[o].baseline = cfg.start[o]
          /\ report'.checks[o].expected = cfg.start[o] + Delta[o]
    BY <2>1, <2>2 DEF WritesInOrder, Measured, TypeOK, Reports
  <2>4. \A o \in Obs : HasFinal(o)' => report'.checks[o].observed = effect[o]
    BY <2>1, <2>2 DEF WritesInOrder, Measured, HasFinal, TypeOK, Reports
  <2> QED
    BY <2>1, <2>3, <2>4 DEF WritesInOrder, Sequential, Replied, Quiet, world
<1>21. CASE Reject \/ StartFails \/ BaselineFails \/ NoProxy \/ SelectTimeout
            \/ CrashFails \/ RestartFails \/ AfterRestartFails \/ FinalFails
  <2>1. /\ UNCHANGED <<cfg, drop, world>> /\ pc' = "stop" /\ report'.checks = report.checks
    BY <1>21 DEF Reject, StartFails, BaselineFails, NoProxy, SelectTimeout, CrashFails,
                 RestartFails, AfterRestartFails, FinalFails, Fail, Return, TypeOK, Reports
  <2> QED
    BY <2>1, ReturnWrites
<1>22. CASE OriginalFails \/ RetryFails \/ ChangedFails
  <2>1. PICK q \in {1, 2} : Fail(Attempted(report, q, Failed)) /\ UNCHANGED <<cfg, drop, world>>
    BY <1>22 DEF OriginalFails, RetryFails, ChangedFails
  <2>2. report'.checks = report.checks /\ pc' = "stop"
    BY <2>1 DEF Attempted, TypeOK, Reports, Fail, Return
  <2> QED
    BY <2>1, <2>2, ReturnWrites
<1>23. ASSUME NEW q \in Requests, Handle(q)
       PROVE  WritesInOrder'
  <2>4. /\ UNCHANGED <<cfg, pc, report, drop, slots, group>> /\ wire[q] = "sent"
        /\ \E x : wire' = [wire EXCEPT ![q] = x]
        /\ answer' = answer \/ \E x : answer' = [answer EXCEPT ![q] = x]
    BY <1>23 DEF Handle, burstVars
  <2>1. /\ UNCHANGED <<cfg, pc, report, drop, slots, group>> /\ wire[q] = "sent"
        /\ \A x \in Requests \ {q} : wire'[x] = wire[x] /\ answer'[x] = answer[x]
    BY <2>4 DEF TypeOK
  <2>2. pc # "verify" /\ pc \notin {"begin", "start", "baseline", "send"}
    BY <1>23, <2>1 DEF WritesInOrder, Quiet
  <2>3. \A x \in Requests : wire[x] \in {"idle", "replied"} =>
          wire'[x] = wire[x] /\ answer'[x] = answer[x]
    BY <2>1
  <2> QED
    BY <2>1, <2>2, <2>3, RequestFacts
       DEF WritesInOrder, Measured, Sequential, Replied, Acknowledged
<1>24. CASE ProxyFails \/ StopService \/ Degrade \/ Expire \/ Terminated \/ UNCHANGED vars
  <2>1. /\ UNCHANGED <<cfg, report, wire, answer, effect, slots, group>>
        /\ pc' = pc \/ pc' = "done"
        /\ drop' = drop \/ drop' = Failed
    BY <1>24 DEF ProxyFails, StopService, Degrade, Expire, Terminated, vars, world, burstVars
  <2> QED
    BY <2>1 DEF WritesInOrder, Measured, Sequential, Replied, HasFinal, Quiet, Acknowledged
<1> QED
  BY <1>1, <1>2, <1>3, <1>4, <1>5, <1>6, <1>7, <1>8, <1>9, <1>10, <1>11, <1>12, <1>13,
     <1>14, <1>15, <1>16, <1>17, <1>18, <1>19, <1>20, <1>21, <1>22, <1>23, <1>24
     DEF Next, Runner, Environment

-----------------------------------------------------------------------------
(* The conditions under which every request is sent and every value read. *)

IInv == TypeOK /\ EvidenceInOrder /\ WritesInOrder

LEMMA InductiveInvariant == Spec => []IInv
<1>1. Init => IInv
  BY TypeInit, OrderInit, WritesInit DEF IInv
<1>2. IInv /\ [Next]_vars => IInv'
  BY TypeStep, OrderStep, WritesStep DEF IInv
<1> QED
  BY <1>1, <1>2, PTL DEF Spec

\* The order of writes, for every service, every number of observations
\* and copies, and every delta.
THEOREM WritesOrdered == Spec => []WritesInOrder
<1>1. IInv => WritesInOrder
  BY DEF IInv
<1> QED
  BY <1>1, InductiveInvariant, PTL

-----------------------------------------------------------------------------
(* Evidence is never withdrawn. *)

Kept(old, new) == old # Nil => new = old

SameEvidenceIn(r) ==
  /\ r.checks = report.checks /\ r.afterRestart = report.afterRestart
  /\ r.retry = report.retry /\ r.burst = report.burst /\ r.reuse = report.reuse

\* What has been seen is still in the report after the step, and a final
\* value is one that the service exposes.
EvidenceStays ==
  /\ \A o \in Obs : /\ Measured(o) => Measured(o)'
                    /\ HasFinal(o) => report'.checks[o] = report.checks[o]
                    /\ HasFinal(o)' /\ ~HasFinal(o) =>
                         pc = "verify" /\ report'.checks[o].observed = effect[o]
                    /\ Kept(report.afterRestart[o], report'.afterRestart[o])
  /\ Kept(report.retry, report'.retry)
  /\ Kept(report.burst, report'.burst)
  /\ Kept(report.reuse, report'.reuse)
  /\ report.fault => report'.fault

LEMMA AttemptKeeps ==
  ASSUME TypeOK, NEW q, NEW outcome, NEW verdict
  PROVE  /\ SameEvidenceIn(Attempted(report, q, outcome))
         /\ Attempted(report, q, outcome).fault = report.fault
         /\ SameEvidenceIn([Attempted(report, q, outcome) EXCEPT !.status = verdict])
         /\ [Attempted(report, q, outcome) EXCEPT !.status = verdict].fault = report.fault
         /\ SameEvidenceIn([report EXCEPT !.status = verdict])
         /\ [report EXCEPT !.status = verdict].fault = report.fault
BY DEF SameEvidenceIn, Attempted, TypeOK, Reports

LEMMA SameStays ==
  ASSUME SameEvidenceIn(report'), report.fault => report'.fault
  PROVE  EvidenceStays
BY DEF SameEvidenceIn, EvidenceStays, Kept, Measured, HasFinal

\* The steps that add evidence to the report.
LEMMA Collectors ==
  ASSUME IInv, [Next]_vars
  PROVE  \/ SameEvidenceIn(report') /\ (report.fault => report'.fault)
         \/ ReadBaseline \/ ReadAfterRestart \/ RetryAnswered \/ ChangedAnswered \/ Join
         \/ ReadFinal
<1> USE DEF IInv
<1>1. CASE Begin \/ StartService \/ SendOriginal \/ ProxyForwarded \/ ProxyFails \/ Restart
           \/ SendRetry \/ SendChanged \/ Release \/ StopService \/ Environment \/ Terminated
           \/ (\E w \in Workers : WorkerSends(w) \/ WorkerAnswered(w) \/ WorkerFails(w))
           \/ UNCHANGED vars
  <2>1. report' = report
    BY <1>1 DEF Begin, StartService, SendOriginal, ProxyForwarded, ProxyFails, Restart,
                SendRetry, SendChanged, Release, StopService, Environment, Handle, Degrade,
                Expire, Terminated, WorkerSends, WorkerAnswered, WorkerFails, WorkerEnds, vars
  <2> QED
    BY <2>1 DEF SameEvidenceIn
<1>2. CASE Reject \/ StartFails \/ BaselineFails \/ NoProxy \/ SelectTimeout
           \/ CrashFails \/ RestartFails \/ AfterRestartFails \/ FinalFails
  <2>1. \E verdict : report' = [report EXCEPT !.status = verdict]
    BY <1>2 DEF Reject, StartFails, BaselineFails, NoProxy, SelectTimeout, CrashFails,
                RestartFails, AfterRestartFails, FinalFails, Fail, Return
  <2> QED
    BY <2>1, AttemptKeeps
<1>3. CASE OriginalFails \/ RetryFails \/ ChangedFails
           \/ ClientLosesReply \/ ClientSeesProxyError \/ OriginalAnswered
  <2>1. PICK q, outcome : \/ report' = Attempted(report, q, outcome)
                          \/ Fail(Attempted(report, q, outcome))
    BY <1>3 DEF OriginalFails, RetryFails, ChangedFails, ClientLosesReply,
                ClientSeesProxyError, OriginalAnswered
  <2> DEFINE r == Attempted(report, q, outcome)
  <2>2. PICK verdict : report' = r \/ report' = [r EXCEPT !.status = verdict]
    BY <2>1 DEF Fail, Return
  <2>3. SameEvidenceIn(report') /\ report'.fault = report.fault
    <3>1. CASE report' = r
      BY <3>1, AttemptKeeps DEF SameEvidenceIn
    <3>2. CASE report' = [r EXCEPT !.status = verdict]
      BY <3>2, AttemptKeeps DEF SameEvidenceIn
    <3> QED
      BY <2>2, <3>1, <3>2
  <2> QED
    BY <2>3
<1>4. CASE TakeResult \/ CrashKills
  <2>1. report' = [report EXCEPT !.fault = TRUE]
        \/ \E verdict : report' = [report EXCEPT !.status = verdict]
    BY <1>4 DEF TakeResult, CrashKills, Fail, Return
  <2>2. CASE report' = [report EXCEPT !.fault = TRUE]
    BY <2>2 DEF SameEvidenceIn, TypeOK, Reports
  <2>3. CASE \E verdict : report' = [report EXCEPT !.status = verdict]
    BY <2>3, AttemptKeeps
  <2> QED
    BY <2>1, <2>2, <2>3
<1> QED
  BY <1>1, <1>2, <1>3, <1>4 DEF Next, Runner

LEMMA EvidenceStep ==
  ASSUME IInv, [Next]_vars
  PROVE  EvidenceStays
<1> USE DEF IInv
<1>1. CASE SameEvidenceIn(report') /\ (report.fault => report'.fault)
  BY <1>1, SameStays
<1>2. CASE ReadBaseline
  <2>1. CASE Overflows(effect[k], Delta[k])
    <3>1. report' = [report EXCEPT !.status = "ERROR"]
      BY <1>2, <2>1 DEF ReadBaseline, Return
    <3> QED
      BY <3>1, AttemptKeeps, SameStays
  <2>2. CASE ~Overflows(effect[k], Delta[k])
    <3> DEFINE c == [baseline |-> effect[k], expected |-> Add64(effect[k], Delta[k]),
                     observed |-> Nil]
    <3>1. report' = [report EXCEPT !.checks[k] = c]
      BY <1>2, <2>2 DEF ReadBaseline
    <3>2. c # Nil
      <4>1. effect[k] \in Int /\ Delta[k] \in Int
        BY ExperimentAssumption DEF TypeOK
      <4>2. c \in StateChecks
        BY <4>1, Add64Type DEF StateChecks
      <4> QED
        BY <4>2, SentinelAssumption
    <3>3. \A o \in Obs : ~HasFinal(o)
      BY <1>2 DEF ReadBaseline, EvidenceInOrder
    <3> QED
      BY <3>1, <3>2, <3>3 DEF EvidenceStays, Kept, Measured, HasFinal, TypeOK, Reports
  <2> QED
    BY <2>1, <2>2
<1>3. CASE ReadAfterRestart
  <2>1. report' = [report EXCEPT !.afterRestart[k] = Observed(k)]
    BY <1>3 DEF ReadAfterRestart
  <2>2. report.afterRestart[k] = Nil
    BY <1>3 DEF ReadAfterRestart, EvidenceInOrder, HasRestart, TypeOK, Obs
  <2> QED
    BY <2>1, <2>2 DEF EvidenceStays, Kept, Measured, HasFinal, TypeOK, Reports
<1>4. CASE RetryAnswered
  <2> DEFINE status == answer[2].status
             r == Attempted(report, 2, status)
             check == ResponseCheck(cfg.rule, OriginalBody, status,
                                    Captured(cfg.rule, answer[2].body))
  <2>1. CASE Conclusive(cfg.rule, OriginalBody, status)
    <3>1. report' = [r EXCEPT !.retry = check]
      BY <1>4, <2>1 DEF RetryAnswered
    <3>2. report.retry = Nil
      BY <1>4 DEF RetryAnswered, EvidenceInOrder
    <3> QED
      BY <3>1, <3>2 DEF EvidenceStays, Kept, Measured, HasFinal, Attempted, TypeOK, Reports
  <2>2. CASE ~Conclusive(cfg.rule, OriginalBody, status)
    <3>1. PICK verdict : report' = [r EXCEPT !.status = verdict]
      BY <1>4, <2>2 DEF RetryAnswered, Fail, Return
    <3>2. SameEvidenceIn(report') /\ report'.fault = report.fault
      BY <3>1, AttemptKeeps DEF SameEvidenceIn
    <3> QED
      BY <3>2, SameStays
  <2> QED
    BY <2>1, <2>2
<1>5. CASE ChangedAnswered
  <2>1. \E check : report' = [Attempted(report, 2, answer[2].status) EXCEPT !.reuse = check]
    BY <1>5 DEF ChangedAnswered
  <2>2. report.reuse = Nil
    BY <1>5 DEF ChangedAnswered, EvidenceInOrder
  <2> QED
    BY <2>1, <2>2 DEF EvidenceStays, Kept, Measured, HasFinal, Attempted, TypeOK, Reports
<1>6. CASE Join
  <2> DEFINE r == [report EXCEPT !.fault = TRUE,
                     !.attempts = [q \in Requests |-> IF q \in Workers THEN slots[q] ELSE Nil]]
  <2>1. (\E verdict : report' = [r EXCEPT !.status = verdict])
        \/ (\E check : report' = [r EXCEPT !.burst = check])
    BY <1>6 DEF Join, Fail, Return
  <2>2. report.burst = Nil
    BY <1>6 DEF Join, EvidenceInOrder
  <2>3. /\ report'.checks = report.checks /\ report'.afterRestart = report.afterRestart
        /\ report'.retry = report.retry /\ report'.reuse = report.reuse /\ report'.fault
    BY <2>1 DEF TypeOK, Reports
  <2> QED
    BY <2>2, <2>3 DEF EvidenceStays, Kept, Measured, HasFinal, TypeOK, Reports
<1>7. CASE ReadFinal
  <2> DEFINE r == [report EXCEPT !.checks[k] = Observed(k)]
  <2>1. report' = r \/ \E verdict : report' = [r EXCEPT !.status = verdict]
    BY <1>7 DEF ReadFinal, Return
  <2>2. /\ report'.checks = [report.checks EXCEPT ![k] = Observed(k)]
        /\ report'.afterRestart = report.afterRestart /\ report'.retry = report.retry
        /\ report'.burst = report.burst /\ report'.reuse = report.reuse
        /\ report'.fault = report.fault
    BY <2>1 DEF TypeOK, Reports
  <2>3. ~HasFinal(k)
    BY <1>7 DEF ReadFinal, EvidenceInOrder, TypeOK, Obs
  <2>4. Observed(k) # Nil /\ Observed(k).observed = effect[k] /\ pc = "verify"
    <3>1. report.checks[k] \in StateChecks /\ effect[k] \in Int /\ pc = "verify"
      BY <1>7 DEF ReadFinal, TypeOK, Measured, Reports, EvidenceInOrder
    <3>2. Observed(k) \in StateChecks /\ Observed(k).observed = effect[k]
      BY <3>1 DEF Observed, StateChecks
    <3> QED
      BY <3>1, <3>2, SentinelAssumption
  <2> QED
    BY <2>2, <2>3, <2>4 DEF EvidenceStays, Kept, Measured, HasFinal, TypeOK, Reports
<1> QED
  BY <1>1, <1>2, <1>3, <1>4, <1>5, <1>6, <1>7, Collectors

\* No step withdraws a failed check: an after-restart miss stays a miss when
\* the final value is right, and an attempt that fails later does not hide it.
LEMMA ContradictionStays ==
  ASSUME IInv, [Next]_vars, Mismatched(report)
  PROVE  Mismatched(report')
<1>1. EvidenceStays
  BY EvidenceStep
<1>2. ASSUME NEW o \in Misses(report.checks)
      PROVE  o \in Misses(report'.checks)
  BY <1>1, <1>2 DEF EvidenceStays, Misses, HasFinal, Measured
<1>3. ASSUME NEW o \in Misses(report.afterRestart)
      PROVE  o \in Misses(report'.afterRestart)
  BY <1>1, <1>3 DEF EvidenceStays, Misses, Kept
<1>4. /\ HasIssues(report.retry) => HasIssues(report'.retry)
      /\ HasIssues(report.burst) => HasIssues(report'.burst)
      /\ HasIssues(report.reuse) => HasIssues(report'.reuse)
  BY <1>1 DEF EvidenceStays, HasIssues, Kept
<1> QED
  BY <1>2, <1>3, <1>4 DEF Mismatched

-----------------------------------------------------------------------------
(* Requests. *)

LEMMA Senders ==
  ASSUME [Next]_vars
  PROVE  \/ UNCHANGED <<wire, answer>>
         \/ SendOriginal \/ SendRetry \/ SendChanged
         \/ \E w \in Workers : WorkerSends(w)
         \/ \E q \in Requests : Handle(q)
<1>1. ASSUME Runner
      PROVE  \/ UNCHANGED <<wire, answer>>
             \/ SendOriginal \/ SendRetry \/ SendChanged
             \/ \E w \in Workers : WorkerSends(w)
  BY <1>1 DEF Runner, world, Begin, Reject, StartService, StartFails, ReadBaseline,
      BaselineFails, NoProxy, OriginalAnswered, OriginalFails, ProxyForwarded, ProxyFails,
      ClientLosesReply, ClientSeesProxyError, TakeResult, SelectTimeout, CrashKills,
      CrashFails, Restart, RestartFails, ReadAfterRestart, AfterRestartFails, RetryAnswered,
      RetryFails, ChangedAnswered, ChangedFails, Release, Join, WorkerAnswered, WorkerFails,
      WorkerEnds, ReadFinal, FinalFails, StopService
<1> QED
  BY <1>1 DEF Next, Environment, Degrade, Expire, Terminated, vars

LEMMA SameConfig ==
  ASSUME [Next]_vars
  PROVE  UNCHANGED cfg
BY DEF Next, Runner, Environment, Degrade, Expire, Terminated, vars, Handle, Begin, Reject,
      StartService, StartFails, ReadBaseline, SendOriginal, SendRetry, SendChanged,
      BaselineFails, NoProxy, OriginalAnswered, OriginalFails, ProxyForwarded, ProxyFails,
      ClientLosesReply, ClientSeesProxyError, TakeResult, SelectTimeout, CrashKills,
      CrashFails, Restart, RestartFails, ReadAfterRestart, AfterRestartFails, RetryAnswered,
      RetryFails, ChangedAnswered, ChangedFails, Release, Join, WorkerSends, WorkerAnswered,
      WorkerFails, WorkerEnds, ReadFinal, FinalFails, StopService

\* In the sequential scenarios the second request leaves from two places.
LEMMA SecondSenders ==
  ASSUME IInv, [Next]_vars, Sequential, wire[2] = "idle", wire'[2] # "idle"
  PROVE  pc \in {"retry", "changed"}
<1>1. CASE SendOriginal
  BY <1>1, RequestFacts DEF SendOriginal, Send, IInv, TypeOK
<1>2. CASE \E w \in Workers : WorkerSends(w)
  BY <1>2 DEF WorkerSends, IInv, EvidenceInOrder, Sequential
<1>3. CASE \E q \in Requests : Handle(q)
  BY <1>3, RequestFacts DEF Handle, IInv, TypeOK
<1> QED
  BY <1>1, <1>2, <1>3, Senders DEF SendRetry, SendChanged

\* A reply is final.
LEMMA ReplyStays ==
  ASSUME IInv, [Next]_vars, NEW q \in Requests, Replied(q)
  PROVE  Replied(q)' /\ answer'[q] = answer[q]
<1> USE DEF IInv
<1>1. CASE UNCHANGED <<wire, answer>>
  BY <1>1 DEF Replied
<1>2. CASE SendOriginal \/ SendRetry \/ SendChanged
  <2>1. UNCHANGED answer
    BY <1>2 DEF SendOriginal, SendRetry, SendChanged, Send
  <2>2. wire'[q] = wire[q]
    BY <1>2, RequestFacts DEF SendOriginal, SendRetry, SendChanged, Send, WritesInOrder,
                              EvidenceInOrder, Sequential, Replied, TypeOK
  <2> QED
    BY <2>1, <2>2 DEF Replied
<1>3. CASE \E w \in Workers : WorkerSends(w)
  BY <1>3, RequestFacts DEF WorkerSends, Send, Replied, TypeOK
<1>4. CASE \E x \in Requests : Handle(x)
  BY <1>4 DEF Handle, Replied, TypeOK
<1> QED
  BY <1>1, <1>2, <1>3, <1>4, Senders

\* Where a second request can leave from, and where the first one.
LEMMA SendingPlaces ==
  ASSUME [Next]_vars, wire' # wire
  PROVE  pc \in {"send", "retry", "changed", "burst"} \/ \E q \in Requests : wire[q] = "sent"
BY Senders DEF SendOriginal, SendRetry, SendChanged, WorkerSends, Handle

\* No write before every baseline: on no path does a request leave before
\* all expectations are fixed from the values before the experiment, and
\* none of the expectations has wrapped around int64 (engine.Run).
THEOREM BaselinesFirst == Spec => []BaselineBeforeWrites
<1>1. Init => BaselineBeforeWrites
  BY DEF Init, BaselineBeforeWrites
<1>2. IInv /\ BaselineBeforeWrites /\ [Next]_vars /\ IInv' => BaselineBeforeWrites'
  <2> SUFFICES ASSUME IInv, BaselineBeforeWrites, [Next]_vars, IInv',
                      NEW x \in Requests, wire'[x] # "idle"
               PROVE  \A o \in Obs : /\ Measured(o)'
                                    /\ report'.checks[o].baseline = cfg'.start[o]
                                    /\ report'.checks[o].expected = cfg'.start[o] + Delta[o]
    BY DEF BaselineBeforeWrites
  <2>1. \A o \in Obs : Measured(o)
    <3>1. CASE \E q \in Requests : wire[q] # "idle"
      BY <3>1 DEF BaselineBeforeWrites
    <3>2. CASE \A q \in Requests : wire[q] = "idle"
      <4>1. wire' # wire
        BY <3>2
      <4>2. pc \in {"send", "retry", "changed", "burst"}
        BY <3>2, <4>1, SendingPlaces
      <4> QED
        BY <4>2 DEF IInv, EvidenceInOrder
    <3> QED
      BY <3>1, <3>2
  <2>2. \A o \in Obs : Measured(o)'
    BY <2>1, EvidenceStep DEF EvidenceStays
  <2> QED
    BY <2>2 DEF IInv, WritesInOrder
<1> QED
  BY <1>1, <1>2, InductiveInvariant, PTL DEF Spec

\* A retry, or a request with a changed body, leaves only after the service
\* acknowledged the original; after a crash, only when every declared value
\* has been read from the restarted process.
THEOREM RetryAfterAck == Spec => []RetryFollowsAck
<1>1. Init => RetryFollowsAck
  BY RequestFacts DEF Init, RetryFollowsAck
<1>2. IInv /\ RetryFollowsAck /\ [Next]_vars => RetryFollowsAck'
  <2> SUFFICES ASSUME IInv, RetryFollowsAck, [Next]_vars, Sequential', wire'[2] # "idle"
               PROVE  Acknowledged' /\ (cfg'.scenario = "crash-after-ack" =>
                                           \A o \in Obs : HasRestart(o)')
    BY DEF RetryFollowsAck
  <2>1. UNCHANGED cfg
    BY SameConfig
  <2>2. Acknowledged /\ (cfg.scenario = "crash-after-ack" => \A o \in Obs : HasRestart(o))
    <3>1. CASE wire[2] # "idle"
      BY <2>1, <3>1 DEF RetryFollowsAck, Sequential
    <3>2. CASE wire[2] = "idle"
      <4>1. pc \in {"retry", "changed"}
        BY <2>1, <3>2, SecondSenders DEF Sequential
      <4> QED
        BY <4>1 DEF IInv, EvidenceInOrder, WritesInOrder, RestartDeclared, RetryDeclared
    <3> QED
      BY <3>1, <3>2
  <2>3. Acknowledged'
    BY <2>2, ReplyStays, RequestFacts DEF Acknowledged
  <2>4. \A o \in Obs : HasRestart(o) => HasRestart(o)'
    BY EvidenceStep DEF EvidenceStays, Kept, HasRestart
  <2> QED
    BY <2>1, <2>2, <2>3, <2>4
<1> QED
  BY <1>1, <1>2, InductiveInvariant, PTL DEF Spec

-----------------------------------------------------------------------------
(* A PASS is about the service. *)

\* With no request under way, and no process to kill, values do not change.
LEMMA QuietStays ==
  ASSUME IInv, [Next]_vars, Quiet, pc \in {"verify", "stop", "done"}
  PROVE  Quiet' /\ UNCHANGED effect
<1>1. UNCHANGED wire
  BY Senders DEF SendOriginal, SendRetry, SendChanged, WorkerSends, Handle, Quiet
<1>2. UNCHANGED effect
  BY DEF Quiet, Next, Runner, Environment, Degrade, Expire, Terminated, vars, Handle, Begin,
      Reject, StartService, StartFails, ReadBaseline, SendOriginal, SendRetry, SendChanged,
      BaselineFails, NoProxy, OriginalAnswered, OriginalFails, ProxyForwarded, ProxyFails,
      ClientLosesReply, ClientSeesProxyError, TakeResult, SelectTimeout, CrashKills,
      CrashFails, Restart, RestartFails, ReadAfterRestart, AfterRestartFails, RetryAnswered,
      RetryFails, ChangedAnswered, ChangedFails, Release, Join, WorkerSends, WorkerAnswered,
      WorkerFails, WorkerEnds, ReadFinal, FinalFails, StopService, Send, world
<1> QED
  BY <1>1, <1>2 DEF Quiet

LEMMA AfterReturn ==
  ASSUME [Next]_vars, Returned
  PROVE  UNCHANGED report
BY DEF Returned, Next, Runner, Environment, Degrade, Expire, Terminated, vars, Handle, Begin,
      Reject, StartService, StartFails, ReadBaseline, SendOriginal, SendRetry, SendChanged,
      BaselineFails, NoProxy, OriginalAnswered, OriginalFails, ProxyForwarded, ProxyFails,
      ClientLosesReply, ClientSeesProxyError, TakeResult, SelectTimeout, CrashKills,
      CrashFails, Restart, RestartFails, ReadAfterRestart, AfterRestartFails, RetryAnswered,
      RetryFails, ChangedAnswered, ChangedFails, Release, Join, WorkerSends, WorkerAnswered,
      WorkerFails, WorkerEnds, ReadFinal, FinalFails, StopService, Proxying

\* Only the last observation can make a run complete.
LEMMA OnlyVerifyCompletes ==
  ASSUME IInv, [Next]_vars, Complete', ~Returned
  PROVE  pc = "verify"
<1>1. 1 \in Obs /\ HasFinal(1)'
  BY RequestFacts DEF Complete
<1>2. HasFinal(1) => pc = "verify"
  BY RequestFacts DEF IInv, TypeOK, EvidenceInOrder, Returned
<1> QED
  BY <1>1, <1>2, EvidenceStep DEF EvidenceStays

\* When a run says PASS, the service exposes the declared values and no
\* request of the run can still change them, for every service.
THEOREM PassIsTrue == Spec => []PassMatchesService
<1>1. Init => PassMatchesService
  BY DEF Init, PassMatchesService, Returned
<1>2. /\ IInv /\ VerdictSound /\ PassMatchesService /\ [Next]_vars
      /\ IInv' /\ VerdictSound'
      => PassMatchesService'
  <2> SUFFICES ASSUME IInv, VerdictSound, PassMatchesService, [Next]_vars, IInv', VerdictSound',
                      Returned', report'.status = "PASS"
               PROVE  Quiet' /\ \A o \in Obs : effect'[o] = cfg'.start[o] + Delta[o]
    BY DEF PassMatchesService
  <2>1. ~Mismatched(report') /\ Complete'
    BY DEF VerdictSound
  <2>2. CASE Returned
    <3>1. UNCHANGED report
      BY <2>2, AfterReturn
    <3>2. Quiet /\ \A o \in Obs : effect[o] = cfg.start[o] + Delta[o]
      BY <2>2, <3>1 DEF PassMatchesService
    <3>3. Quiet' /\ UNCHANGED effect
      BY <2>2, <3>2, QuietStays DEF Returned
    <3> QED
      BY <3>2, <3>3, SameConfig
  <2>3. CASE ~Returned
    <3>1. pc = "verify" /\ Quiet
      BY <2>1, <2>3, OnlyVerifyCompletes DEF IInv, WritesInOrder
    <3>2. Quiet' /\ UNCHANGED effect
      BY <3>1, QuietStays
    <3>3. ASSUME NEW o \in Obs
          PROVE  effect'[o] = cfg'.start[o] + Delta[o]
      <4>1. HasFinal(o)' /\ o \notin Misses(report'.checks)
        BY <2>1 DEF Complete, Mismatched
      <4>2. report'.checks[o].observed = report'.checks[o].expected
        BY <4>1 DEF HasFinal, Measured, Misses
      <4>3. report'.checks[o].expected = cfg'.start[o] + Delta[o]
        BY <4>1 DEF HasFinal, IInv, WritesInOrder
      <4>4. report'.checks[o].observed = effect[o]
        BY <3>1, <4>1, EvidenceStep DEF EvidenceStays, IInv, WritesInOrder
      <4> QED
        BY <3>2, <4>2, <4>3, <4>4
    <3> QED
      BY <3>2, <3>3
  <2> QED
    BY <2>2, <2>3
<1> QED
  BY <1>1, <1>2, InductiveInvariant, VerdictIsSound, PTL DEF Spec

-----------------------------------------------------------------------------
(* Experiment implements Verdict. *)

\* The report holds only evidence that the scenario asks for.
OnlyDeclared ==
  /\ \A o \in Obs : HasRestart(o) => RestartDeclared
  /\ report.retry # Nil => RetryDeclared
  /\ report.burst # Nil => cfg.burst # Nil
  /\ report.reuse # Nil => cfg.scenario = "key-reuse"

LEMMA DeclaredInit ==
  ASSUME Init
  PROVE  OnlyDeclared
BY DEF Init, OnlyDeclared, EmptyReport, NoChecks, HasRestart

LEMMA DeclaredStep ==
  ASSUME IInv, OnlyDeclared, [Next]_vars
  PROVE  OnlyDeclared'
<1>1. UNCHANGED cfg
  BY SameConfig
<1>2. CASE SameEvidenceIn(report')
  BY <1>1, <1>2 DEF SameEvidenceIn, OnlyDeclared, HasRestart, RestartDeclared, RetryDeclared
<1>3. CASE ReadBaseline
  <2>1. /\ report'.afterRestart = report.afterRestart /\ report'.retry = report.retry
        /\ report'.burst = report.burst /\ report'.reuse = report.reuse
    BY <1>3 DEF ReadBaseline, Return, IInv, TypeOK, Reports
  <2> QED
    BY <1>1, <2>1 DEF OnlyDeclared, HasRestart, RestartDeclared, RetryDeclared
<1>4. CASE ReadAfterRestart
  <2>1. /\ report'.retry = report.retry /\ report'.burst = report.burst
        /\ report'.reuse = report.reuse
    BY <1>4 DEF ReadAfterRestart, IInv, TypeOK, Reports
  <2>2. RestartDeclared
    BY <1>4 DEF ReadAfterRestart, IInv, EvidenceInOrder, RestartDeclared, RetryDeclared
  <2> QED
    BY <1>1, <2>1, <2>2 DEF OnlyDeclared, RestartDeclared, RetryDeclared
<1>5. CASE RetryAnswered
  <2> DEFINE r == Attempted(report, 2, answer[2].status)
  <2>1. PICK x : report' = [r EXCEPT !.retry = x] \/ report' = [r EXCEPT !.status = x]
    BY <1>5 DEF RetryAnswered, Fail, Return
  <2>2. /\ report'.afterRestart = report.afterRestart /\ report'.burst = report.burst
        /\ report'.reuse = report.reuse
    BY <2>1 DEF Attempted, IInv, TypeOK, Reports
  <2>3. RetryDeclared
    BY <1>5 DEF RetryAnswered, IInv, EvidenceInOrder
  <2> QED
    BY <1>1, <2>2, <2>3 DEF OnlyDeclared, HasRestart, RestartDeclared, RetryDeclared
<1>6. CASE ChangedAnswered
  <2>1. PICK x : report' = [Attempted(report, 2, answer[2].status) EXCEPT !.reuse = x]
    BY <1>6 DEF ChangedAnswered
  <2>2. /\ report'.afterRestart = report.afterRestart /\ report'.burst = report.burst
        /\ report'.retry = report.retry
    BY <2>1 DEF Attempted, IInv, TypeOK, Reports
  <2>3. cfg.scenario = "key-reuse"
    BY <1>6 DEF ChangedAnswered, IInv, EvidenceInOrder
  <2> QED
    BY <1>1, <2>2, <2>3 DEF OnlyDeclared, HasRestart, RestartDeclared, RetryDeclared
<1>7. CASE Join
  <2> DEFINE r == [report EXCEPT !.fault = TRUE,
                     !.attempts = [q \in Requests |-> IF q \in Workers THEN slots[q] ELSE Nil]]
             check == BurstResponses(cfg.burst, {slots[w] : w \in Workers})
  <2>1. (\E verdict : report' = [r EXCEPT !.status = verdict])
        \/ report' = [r EXCEPT !.burst = check]
    BY <1>7 DEF Join, Fail, Return
  <2>2. /\ report'.afterRestart = report.afterRestart /\ report'.reuse = report.reuse
        /\ report'.retry = report.retry /\ report'.burst \in {report.burst, check}
    BY <2>1 DEF IInv, TypeOK, Reports
  <2>3. cfg.burst = Nil => check = Nil
    BY DEF BurstResponses
  <2> QED
    BY <1>1, <2>2, <2>3 DEF OnlyDeclared, HasRestart, RestartDeclared, RetryDeclared
<1>8. CASE ReadFinal
  <2>1. PICK x : \/ report' = [report EXCEPT !.checks[k] = Observed(k)]
                 \/ report' = [report EXCEPT !.checks[k] = Observed(k), !.status = x]
    BY <1>8 DEF ReadFinal, Return
  <2>2. /\ report'.afterRestart = report.afterRestart /\ report'.retry = report.retry
        /\ report'.burst = report.burst /\ report'.reuse = report.reuse
    BY <2>1 DEF IInv, TypeOK, Reports
  <2> QED
    BY <1>1, <2>2 DEF OnlyDeclared, HasRestart, RestartDeclared, RetryDeclared
<1> QED
  BY <1>2, <1>3, <1>4, <1>5, <1>6, <1>7, <1>8, Collectors

LEMMA StaysReturned ==
  ASSUME [Next]_vars, Returned
  PROVE  Returned'
BY DEF Returned, Next, Runner, Environment, Degrade, Expire, Terminated, vars, Handle, Begin,
      Reject, StartService, StartFails, ReadBaseline, SendOriginal, SendRetry, SendChanged,
      BaselineFails, NoProxy, OriginalAnswered, OriginalFails, ProxyForwarded, ProxyFails,
      ClientLosesReply, ClientSeesProxyError, TakeResult, SelectTimeout, CrashKills,
      CrashFails, Restart, RestartFails, ReadAfterRestart, AfterRestartFails, RetryAnswered,
      RetryFails, ChangedAnswered, ChangedFails, Release, Join, WorkerSends, WorkerAnswered,
      WorkerFails, WorkerEnds, ReadFinal, FinalFails, StopService

\* What is owed, piece by piece.
LEMMA Pieces ==
  /\ \A o \in Obs : <<"final", o>> \in Outstanding <=> ~HasFinal(o)
  /\ \A o \in Obs : <<"restart", o>> \in Outstanding <=> RestartDeclared /\ ~HasRestart(o)
  /\ <<"retry", 0>> \in Outstanding <=> RetryDeclared /\ report.retry = Nil
  /\ <<"burst", 0>> \in Outstanding <=> cfg.burst # Nil /\ report.burst = Nil
  /\ <<"reuse", 0>> \in Outstanding <=> cfg.scenario = "key-reuse" /\ report.reuse = Nil
BY DEF Outstanding, Owed

\* A step owes no more than before, and a new contradiction pays a debt.
LEMMA StepLearns ==
  ASSUME IInv, OnlyDeclared, OnlyDeclared', [Next]_vars
  PROVE  V!Learn
<1> USE SameConfig, EvidenceStep
<1>1. Outstanding' \subseteq Outstanding
  BY DEF Outstanding, Owed, EvidenceStays, Kept, HasRestart, RestartDeclared, RetryDeclared,
         HasFinal, Measured
<1>2. Mismatched(report) => Mismatched(report')
  BY ContradictionStays
<1>3. ASSUME Outstanding' = Outstanding, Mismatched(report')
      PROVE  Mismatched(report)
  <2>1. /\ \A o \in Obs : HasFinal(o)' => HasFinal(o)
        /\ \A o \in Obs : RestartDeclared /\ HasRestart(o)' => HasRestart(o)
        /\ RetryDeclared /\ report'.retry # Nil => report.retry # Nil
        /\ cfg.burst # Nil /\ report'.burst # Nil => report.burst # Nil
        /\ cfg.scenario = "key-reuse" /\ report'.reuse # Nil => report.reuse # Nil
    <3>2. \A o \in Obs : HasFinal(o)' => HasFinal(o)
      <4>1. \A o \in Obs : <<"final", o>> \in Outstanding' <=> ~HasFinal(o)'
        BY DEF Outstanding, Owed
      <4> QED
        BY <1>3, <4>1, Pieces
    <3>3. \A o \in Obs : RestartDeclared /\ HasRestart(o)' => HasRestart(o)
      <4>1. \A o \in Obs : <<"restart", o>> \in Outstanding' <=> RestartDeclared' /\ ~HasRestart(o)'
        BY DEF Outstanding, Owed
      <4> QED
        BY <1>3, <4>1, Pieces DEF RestartDeclared
    <3>4. /\ <<"retry", 0>> \in Outstanding' <=> RetryDeclared' /\ report'.retry = Nil
          /\ <<"burst", 0>> \in Outstanding' <=> cfg'.burst # Nil /\ report'.burst = Nil
          /\ <<"reuse", 0>> \in Outstanding' <=> cfg'.scenario = "key-reuse" /\ report'.reuse = Nil
      BY DEF Outstanding, Owed
    <3> QED
      BY <1>3, <3>2, <3>3, <3>4, Pieces DEF RetryDeclared
  <2>2. ASSUME NEW o \in Misses(report'.checks)
        PROVE  o \in Misses(report.checks)
    BY <2>1, <2>2 DEF Misses, EvidenceStays, HasFinal, Measured
  <2>3. ASSUME NEW o \in Misses(report'.afterRestart)
        PROVE  o \in Misses(report.afterRestart)
    BY <2>1, <2>3 DEF Misses, EvidenceStays, Kept, HasRestart, OnlyDeclared, RestartDeclared
  <2>4. /\ HasIssues(report'.retry) => HasIssues(report.retry)
        /\ HasIssues(report'.burst) => HasIssues(report.burst)
        /\ HasIssues(report'.reuse) => HasIssues(report.reuse)
    BY <2>1 DEF HasIssues, EvidenceStays, Kept, OnlyDeclared, RetryDeclared
  <2> QED
    BY <1>3, <2>2, <2>3, <2>4 DEF Mismatched
<1>4. Mismatched(report) \in BOOLEAN /\ Mismatched(report') \in BOOLEAN
  BY DEF Mismatched
<1> QED
  BY <1>1, <1>2, <1>3, <1>4 DEF V!Learn

LEMMA RefineInit ==
  ASSUME Init
  PROVE  V!Init
<1>1. report = EmptyReport /\ pc = "begin"
  BY DEF Init
<1>2. ~Mismatched(report)
  BY <1>1 DEF EmptyReport, NoChecks, Mismatched, Misses, HasIssues
<1>3. Outstanding \subseteq {"final", "restart", "fault", "retry", "burst", "reuse"} \X (0 .. NumObs)
  BY ExperimentAssumption DEF Outstanding, Owed, Obs
<1> QED
  BY <1>1, <1>2, <1>3 DEF V!Init, Returned

LEMMA RefineStep ==
  ASSUME IInv, OnlyDeclared, OnlyDeclared', VerdictSound', [Next]_vars
  PROVE  [V!Next]_(V!vars)
<1>1. CASE Returned
  <2>1. UNCHANGED <<cfg, report>> /\ Returned'
    BY <1>1, SameConfig, AfterReturn, StaysReturned
  <2>2. UNCHANGED Outstanding /\ Mismatched(report') = Mismatched(report)
    BY <2>1 DEF Outstanding, Owed, HasFinal, Measured, HasRestart, RestartDeclared,
                RetryDeclared
  <2> QED
    BY <1>1, <2>1, <2>2 DEF V!vars
<1>2. CASE ~Returned /\ ~Returned'
  BY <1>2, StepLearns DEF V!Next, V!Gather
<1>3. CASE ~Returned /\ Returned'
  <2>1. report'.status = V!Judge(Outstanding', Mismatched(report'))
    <3>1. Outstanding' = {} <=> Complete'
      BY DEF Outstanding, Owed, Complete
    <3> QED
      BY <1>3, <3>1 DEF VerdictSound, V!Judge
  <2> QED
    BY <1>3, <2>1, StepLearns DEF V!Next, V!Conclude
<1> QED
  BY <1>1, <1>2, <1>3

\* Experiment implements Verdict: seen through what it still owes and
\* whether a check failed, every run gathers evidence, never withdraws it,
\* and concludes exactly once with the verdict the evidence demands.
THEOREM KeepsItsPromise == Spec => Promise
<1>1. Init => V!Init /\ OnlyDeclared
  BY RefineInit, DeclaredInit
<1>2. IInv /\ OnlyDeclared /\ [Next]_vars => OnlyDeclared'
  BY DeclaredStep
<1>3. IInv /\ OnlyDeclared /\ OnlyDeclared' /\ VerdictSound' /\ [Next]_vars => [V!Next]_(V!vars)
  BY RefineStep
<1> QED
  BY <1>1, <1>2, <1>3, InductiveInvariant, VerdictIsSound, PTL DEF Spec, Promise, V!Spec

-----------------------------------------------------------------------------
(* An injected fault is one the service acknowledged. *)

\* Where Run can be once a sequential scenario has injected its fault. The
\* outcome of the first attempt is settled by then.
FaultPlaces ==
  report.fault /\ Sequential =>
    pc \in {"restart", "restarted", "retry", "retrying", "verify", "stop", "done"}

\* The steps that inject a fault.
LEMMA FaultSources ==
  ASSUME IInv, [Next]_vars
  PROVE  \/ report'.fault = report.fault
         \/ (TakeResult /\ pc' = "retry") \/ CrashKills \/ Join
<1> USE DEF IInv
<1>1. CASE Begin \/ StartService \/ SendOriginal \/ ProxyForwarded \/ ProxyFails \/ Restart
           \/ SendRetry \/ SendChanged \/ Release \/ StopService \/ Environment \/ Terminated
           \/ (\E w \in Workers : WorkerSends(w) \/ WorkerAnswered(w) \/ WorkerFails(w))
           \/ UNCHANGED vars
  BY <1>1 DEF Begin, StartService, SendOriginal, ProxyForwarded, ProxyFails, Restart,
              SendRetry, SendChanged, Release, StopService, Environment, Handle, Degrade,
              Expire, Terminated, WorkerSends, WorkerAnswered, WorkerFails, WorkerEnds, vars
<1>2. CASE Reject \/ StartFails \/ BaselineFails \/ NoProxy \/ SelectTimeout
           \/ CrashFails \/ RestartFails \/ AfterRestartFails \/ FinalFails
  BY <1>2 DEF Reject, StartFails, BaselineFails, NoProxy, SelectTimeout, CrashFails,
              RestartFails, AfterRestartFails, FinalFails, Fail, Return, TypeOK, Reports
<1>3. CASE OriginalFails \/ RetryFails \/ ChangedFails
           \/ ClientLosesReply \/ ClientSeesProxyError \/ OriginalAnswered
  <2>1. PICK q, outcome : \/ report' = Attempted(report, q, outcome)
                          \/ Fail(Attempted(report, q, outcome))
    BY <1>3 DEF OriginalFails, RetryFails, ChangedFails, ClientLosesReply,
                ClientSeesProxyError, OriginalAnswered
  <2> DEFINE r == Attempted(report, q, outcome)
  <2>2. PICK verdict : report' = r \/ report' = [r EXCEPT !.status = verdict]
    BY <2>1 DEF Fail, Return
  <2>3. r.fault = report.fault /\ [r EXCEPT !.status = verdict].fault = report.fault
    BY DEF Attempted, TypeOK, Reports
  <2> QED
    BY <2>2, <2>3
<1>4. CASE RetryAnswered \/ ChangedAnswered
  BY <1>4 DEF RetryAnswered, ChangedAnswered, Fail, Return, Attempted, TypeOK, Reports
<1>5. CASE ReadBaseline \/ ReadAfterRestart \/ ReadFinal
  BY <1>5 DEF ReadBaseline, ReadAfterRestart, ReadFinal, Return, TypeOK, Reports
<1>6. CASE TakeResult
  BY <1>6 DEF TakeResult, Fail, Return, Goto, TypeOK, Reports
<1> QED
  BY <1>1, <1>2, <1>3, <1>4, <1>5, <1>6 DEF Next, Runner

\* The first attempt is settled while the original is under way, or by the
\* join of a burst.
LEMMA FirstAttemptStays ==
  ASSUME IInv, [Next]_vars, pc \notin {"original", "burst"}
  PROVE  report'.attempts[1] = report.attempts[1]
<1> USE DEF IInv
<1>1. CASE Begin \/ StartService \/ SendOriginal \/ ProxyForwarded \/ ProxyFails \/ Restart
           \/ SendRetry \/ SendChanged \/ Release \/ StopService \/ Environment \/ Terminated
           \/ UNCHANGED vars
  BY <1>1 DEF Begin, StartService, SendOriginal, ProxyForwarded, ProxyFails, Restart,
              SendRetry, SendChanged, Release, StopService, Environment, Handle, Degrade,
              Expire, Terminated, vars
<1>2. CASE Reject \/ StartFails \/ BaselineFails \/ NoProxy \/ SelectTimeout
           \/ CrashFails \/ RestartFails \/ AfterRestartFails \/ FinalFails
  BY <1>2 DEF Reject, StartFails, BaselineFails, NoProxy, SelectTimeout, CrashFails,
              RestartFails, AfterRestartFails, FinalFails, Fail, Return, TypeOK, Reports
<1>3. CASE RetryFails \/ ChangedFails \/ RetryAnswered \/ ChangedAnswered
  <2>1. PICK outcome : LET r == Attempted(report, 2, outcome)
                       IN  \/ Fail(r)
                           \/ \E check : \/ report' = [r EXCEPT !.retry = check]
                                          \/ report' = [r EXCEPT !.reuse = check]
    BY <1>3 DEF RetryFails, ChangedFails, RetryAnswered, ChangedAnswered
  <2>2. report'.attempts = [report.attempts EXCEPT ![2] = outcome]
    BY <2>1 DEF Attempted, Fail, Return, TypeOK, Reports
  <2> QED
    BY <2>2, RequestFacts DEF TypeOK, Reports
<1>4. CASE ReadBaseline \/ ReadAfterRestart \/ ReadFinal \/ TakeResult \/ CrashKills
  BY <1>4 DEF ReadBaseline, ReadAfterRestart, ReadFinal, TakeResult, CrashKills, Fail, Return,
              TypeOK, Reports
<1> QED
  BY <1>1, <1>2, <1>3, <1>4
     DEF Next, Runner, OriginalFails, OriginalAnswered, ClientLosesReply, ClientSeesProxyError,
         Join, WorkerSends, WorkerAnswered, WorkerFails, WorkerEnds

\* From the places behind the fault Run only goes to such places.
LEMMA FaultPlacesKept ==
  ASSUME IInv, [Next]_vars,
         pc \in {"restart", "restarted", "retry", "retrying", "verify", "stop", "done"}
  PROVE  pc' \in {"restart", "restarted", "retry", "retrying", "verify", "stop", "done"}
BY DEF Next, Runner, Environment, Degrade, Expire, Terminated, vars, Handle, Begin,
      Reject, StartService, StartFails, ReadBaseline, SendOriginal, SendRetry, SendChanged,
      BaselineFails, NoProxy, OriginalAnswered, OriginalFails, ProxyForwarded, ProxyFails,
      ClientLosesReply, ClientSeesProxyError, TakeResult, SelectTimeout, CrashKills,
      CrashFails, Restart, RestartFails, ReadAfterRestart, AfterRestartFails, RetryAnswered,
      RetryFails, ChangedAnswered, ChangedFails, Release, Join, WorkerSends, WorkerAnswered,
      WorkerFails, WorkerEnds, ReadFinal, FinalFails, StopService, Goto, Advance, Fail, Return

LEMMA FaultStep ==
  ASSUME IInv, FaultPlaces, FaultNeedsAck, [Next]_vars
  PROVE  FaultPlaces' /\ FaultNeedsAck'
<1> DEFINE lost == cfg.scenario = "lost-response"
           crash == cfg.scenario = "crash-after-ack"
<1>1. UNCHANGED cfg
  BY SameConfig
<1>2. CASE report.fault
  <2>1. Sequential =>
          /\ pc \in {"restart", "restarted", "retry", "retrying", "verify", "stop", "done"}
          /\ pc' \in {"restart", "restarted", "retry", "retrying", "verify", "stop", "done"}
    BY <1>2, FaultPlacesKept DEF FaultPlaces
  <2>2. ASSUME lost \/ crash
        PROVE  Acknowledged' /\ (lost => report'.attempts[1] = Failed)
    <3>1. Acknowledged /\ (lost => report.attempts[1] = Failed)
      BY <1>2, <2>2 DEF FaultNeedsAck
    <3>2. Acknowledged'
      BY <3>1, ReplyStays, RequestFacts DEF Acknowledged
    <3>3. report'.attempts[1] = report.attempts[1]
      BY <2>1, <2>2, FirstAttemptStays DEF Sequential
    <3> QED
      BY <3>1, <3>2, <3>3
  <2> QED
    BY <1>1, <2>1, <2>2 DEF FaultPlaces, FaultNeedsAck, Sequential
<1>3. CASE ~report.fault /\ TakeResult /\ pc' = "retry"
  <2>1. /\ drop \notin {Nil, Failed} /\ Success(drop.status) /\ report.attempts[1] = Failed
        /\ UNCHANGED <<wire, answer>> /\ pc = "select"
    BY <1>3 DEF TakeResult, Fail, Return, Goto, world
  <2>2. Acknowledged'
    BY <2>1 DEF IInv, WritesInOrder, Acknowledged, Replied
  <2>3. report'.attempts[1] = Failed
    BY <2>1, FirstAttemptStays
  <2> QED
    BY <1>3, <2>2, <2>3 DEF FaultPlaces, FaultNeedsAck
<1>4. CASE ~report.fault /\ CrashKills
  <2>1. pc = "crash" /\ pc' = "restart" /\ UNCHANGED <<wire, answer>>
    BY <1>4 DEF CrashKills, Goto
  <2>2. Acknowledged' /\ crash
    BY <2>1 DEF IInv, WritesInOrder, EvidenceInOrder, Acknowledged, Replied
  <2> QED
    BY <1>1, <2>1, <2>2 DEF FaultPlaces, FaultNeedsAck
<1>5. CASE Join
  <2>1. ~Sequential /\ ~lost /\ ~crash
    BY <1>5 DEF Join, IInv, EvidenceInOrder, Sequential
  <2> QED
    BY <1>1, <2>1 DEF FaultPlaces, FaultNeedsAck, Sequential
<1>6. CASE ~report.fault /\ report'.fault = report.fault
  BY <1>6 DEF FaultPlaces, FaultNeedsAck
<1> QED
  BY <1>2, <1>3, <1>4, <1>5, <1>6, FaultSources

\* The report claims an injected fault only when the service had said 2xx
\* to the first request, and for a lost response only when the client saw
\* an error: on no interleaving of the proxy, the client, the deadline and
\* the service is a reply taken for lost that was refused or received.
THEOREM FaultIsEarned == Spec => []FaultNeedsAck
<1>1. Init => FaultPlaces /\ FaultNeedsAck
  BY DEF Init, EmptyReport, FaultPlaces, FaultNeedsAck
<1>2. IInv /\ FaultPlaces /\ FaultNeedsAck /\ [Next]_vars => FaultPlaces' /\ FaultNeedsAck'
  BY FaultStep
<1> QED
  BY <1>1, <1>2, InductiveInvariant, PTL DEF Spec

-----------------------------------------------------------------------------
(* A PASS compared the two replies the service really sent. *)

\* What the proxy posted, and what a comparison in the report was made of.
Judged ==
  LET original == Captured(cfg.rule, answer[1].body)
      status   == answer[2].status
  IN  /\ Replied(1) /\ Replied(2)
      /\ Conclusive(cfg.rule, original, status)
      /\ report.retry = ResponseCheck(cfg.rule, original, status,
                                      Captured(cfg.rule, answer[2].body))

RepliesInHand ==
  /\ drop \notin {Nil, Failed} => drop.body = Captured(cfg.rule, answer[1].body)
  /\ pc \in {"retry", "retrying"} /\ cfg.scenario = "lost-response" => drop \notin {Nil, Failed}
  /\ report.retry # Nil => Judged

LEMMA DropSources ==
  ASSUME [Next]_vars
  PROVE  drop' = drop \/ ProxyForwarded \/ ProxyFails
BY DEF Next, Runner, Environment, Degrade, Expire, Terminated, vars, Handle, Begin, Reject,
      StartService, StartFails, ReadBaseline, SendOriginal, SendRetry, SendChanged,
      BaselineFails, NoProxy, OriginalAnswered, OriginalFails,
      ClientLosesReply, ClientSeesProxyError, TakeResult, SelectTimeout, CrashKills,
      CrashFails, Restart, RestartFails, ReadAfterRestart, AfterRestartFails, RetryAnswered,
      RetryFails, ChangedAnswered, ChangedFails, Release, Join, WorkerSends, WorkerAnswered,
      WorkerFails, WorkerEnds, ReadFinal, FinalFails, StopService

\* The steps that lead to the retry.
LEMMA RetryPlaces ==
  ASSUME [Next]_vars, pc' \in {"retry", "retrying"}
  PROVE  pc \in {"retry", "retrying"} \/ TakeResult \/ ReadAfterRestart
BY DEF Next, Runner, Environment, Degrade, Expire, Terminated, vars, Handle, Begin,
      Reject, StartService, StartFails, ReadBaseline, SendOriginal, SendRetry, SendChanged,
      BaselineFails, NoProxy, OriginalAnswered, OriginalFails, ProxyForwarded, ProxyFails,
      ClientLosesReply, ClientSeesProxyError, SelectTimeout, CrashKills,
      CrashFails, Restart, RestartFails, AfterRestartFails, RetryAnswered,
      RetryFails, ChangedAnswered, ChangedFails, Release, Join, WorkerSends, WorkerAnswered,
      WorkerFails, WorkerEnds, ReadFinal, FinalFails, StopService, Goto, Advance, Fail, Return

LEMMA RetrySources ==
  ASSUME IInv, [Next]_vars
  PROVE  report'.retry = report.retry \/ RetryAnswered
<1> USE DEF IInv
<1>1. CASE SameEvidenceIn(report')
  BY <1>1 DEF SameEvidenceIn
<1>2. CASE ReadBaseline \/ ReadAfterRestart \/ ReadFinal
  BY <1>2 DEF ReadBaseline, ReadAfterRestart, ReadFinal, Return, TypeOK, Reports
<1>3. CASE ChangedAnswered
  BY <1>3 DEF ChangedAnswered, Attempted, TypeOK, Reports
<1>4. CASE Join
  BY <1>4 DEF Join, Fail, Return, TypeOK, Reports
<1> QED
  BY <1>1, <1>2, <1>3, <1>4, Collectors

LEMMA RepliesStep ==
  ASSUME IInv, RepliesInHand, [Next]_vars
  PROVE  RepliesInHand'
<1>1. UNCHANGED cfg
  BY SameConfig
<1>2. ASSUME drop' \notin {Nil, Failed}
      PROVE  drop'.body = Captured(cfg'.rule, answer'[1].body)
  <2>1. CASE drop' = drop
    <3>1. Replied(1) /\ drop.body = Captured(cfg.rule, answer[1].body)
      BY <1>2, <2>1 DEF RepliesInHand, IInv, WritesInOrder
    <3>2. answer'[1] = answer[1]
      BY <3>1, ReplyStays, RequestFacts
    <3> QED
      BY <1>1, <2>1, <3>1, <3>2
  <2>2. CASE ProxyForwarded
    BY <1>1, <2>2 DEF ProxyForwarded, world
  <2> QED
    BY <1>2, <2>1, <2>2, DropSources DEF ProxyFails
<1>3. ASSUME pc' \in {"retry", "retrying"}, cfg'.scenario = "lost-response"
      PROVE  drop' \notin {Nil, Failed}
  <2>1. CASE pc \in {"retry", "retrying"}
    <3>1. drop \notin {Nil, Failed}
      BY <1>1, <1>3, <2>1 DEF RepliesInHand
    <3> QED
      BY <3>1, DropSources DEF ProxyForwarded, ProxyFails, Proxying
  <2>2. CASE TakeResult
    BY <1>3, <2>2 DEF TakeResult, Fail, Return
  <2>3. CASE ReadAfterRestart
    BY <1>1, <1>3, <2>3 DEF ReadAfterRestart, IInv, EvidenceInOrder
  <2> QED
    BY <1>3, <2>1, <2>2, <2>3, RetryPlaces
<1>4. ASSUME report.retry # Nil, report'.retry = report.retry
      PROVE  Judged'
  <2>1. Judged
    BY <1>4 DEF RepliesInHand
  <2>2. Replied(1)' /\ Replied(2)' /\ answer'[1] = answer[1] /\ answer'[2] = answer[2]
    BY <2>1, ReplyStays, RequestFacts DEF Judged
  <2> QED
    BY <1>1, <1>4, <2>1, <2>2 DEF Judged
<1>5. ASSUME RetryAnswered, report'.retry # Nil
      PROVE  Judged'
  <2> DEFINE original == Captured(cfg.rule, answer[1].body)
             status == answer[2].status
             body == Captured(cfg.rule, answer[2].body)
             r == Attempted(report, 2, status)
  <2>1. /\ pc = "retrying" /\ Replied(2) /\ Replied(1) /\ UNCHANGED <<wire, answer>>
        /\ report.retry = Nil
    BY <1>5 DEF RetryAnswered, IInv, WritesInOrder, EvidenceInOrder, Acknowledged, world
  <2>2. OriginalBody = original
    BY <2>1 DEF OriginalBody, RepliesInHand
  <2>3. CASE Conclusive(cfg.rule, original, status)
    <3>1. report' = [r EXCEPT !.retry = ResponseCheck(cfg.rule, original, status, body)]
      BY <1>5, <2>2, <2>3 DEF RetryAnswered
    <3>2. report'.retry = ResponseCheck(cfg.rule, original, status, body)
      BY <3>1 DEF Attempted, IInv, TypeOK, Reports
    <3> QED
      BY <1>1, <2>1, <2>3, <3>2 DEF Judged, Replied
  <2>4. CASE ~Conclusive(cfg.rule, original, status)
    <3>1. Fail(r)
      BY <1>5, <2>2, <2>4 DEF RetryAnswered
    <3>2. report'.retry = report.retry
      BY <3>1 DEF Attempted, Fail, Return, IInv, TypeOK, Reports
    <3> QED
      BY <1>5, <2>1, <3>2
  <2> QED
    BY <2>3, <2>4
<1> QED
  BY <1>2, <1>3, <1>4, <1>5, RetrySources DEF RepliesInHand

\* A conclusive comparison without an issue: every compared pointer has the
\* same value in both replies.
LEMMA CleanComparison ==
  ASSUME NEW rule, NEW original, NEW status, NEW body,
         ResponseCheck(rule, original, status, body).issues = {}
  PROVE  \A p \in Compared(rule, original, status) : body # NotJSON /\ body[p] = original[p]
<1>1. ValueIssues(Compared(rule, original, status), original, body) = {}
  BY DEF ResponseCheck, RetryIssues
<1> QED
  BY <1>1 DEF ValueIssues

\* No id is left out of an original that has at most MaxIDs of them.
LEMMA AllIDsPicked ==
  ASSUME NEW body, Cardinality(IDFields(body)) <= MaxIDs
  PROVE  IDFields(body) \subseteq IDPointers(body)
<1> SUFFICES ASSUME NEW p \in IDFields(body)
             PROVE  p \in IDPointers(body)
  OBVIOUS
<1> DEFINE before == {q \in IDFields(body) : Place[q] <= Place[p]}
<1>1. IsFiniteSet(IDFields(body)) /\ before \subseteq IDFields(body)
  BY PointerAssumption, FS_Subset, FS_EmptySet DEF IDFields
<1>2. /\ Cardinality(before) <= Cardinality(IDFields(body))
      /\ Cardinality(before) \in Nat /\ Cardinality(IDFields(body)) \in Nat
  BY <1>1, FS_Subset, FS_CardinalityType
<1> QED
  BY <1>2, PointerAssumption DEF IDPointers

\* After a PASS, the replies the service sent to the original and to the
\* retry agree on every declared pointer and, where ids are picked, on every
\* id of an original with at most MaxIDs of them: no lost reply, crash or
\* late answer makes RecoveryLab compare anything else.
THEOREM RepliesAgree == Spec => []PassMeansSameReply
<1>1. Init => RepliesInHand
  BY DEF Init, EmptyReport, RepliesInHand
<1>2. IInv /\ RepliesInHand /\ [Next]_vars => RepliesInHand'
  BY RepliesStep
<1>3. IInv /\ RepliesInHand /\ VerdictSound => PassMeansSameReply
  <2> SUFFICES ASSUME IInv, RepliesInHand, VerdictSound, Returned, report.status = "PASS",
                      cfg.rule # Nil, NEW p \in Pointers,
                      \/ p \in cfg.rule.same
                      \/ /\ cfg.rule.ids /\ cfg.rule.same = {} /\ Success(answer[2].status)
                         /\ Cardinality(IDFields(answer[1].body)) <= MaxIDs
                         /\ p \in IDFields(answer[1].body)
               PROVE  answer[2].body # NotJSON /\ answer[2].body[p] = answer[1].body[p]
    BY DEF PassMeansSameReply
  <2>1. ~Mismatched(report) /\ report.retry # Nil
    BY DEF VerdictSound, Complete, RetryDeclared
  <2>2. Judged /\ report.retry.issues = {}
    BY <2>1 DEF RepliesInHand, Mismatched, HasIssues
  <2>3. \A x : Captured(cfg.rule, x) = x
    BY DEF Captured, CapturesReply
  <2>4. ResponseCheck(cfg.rule, answer[1].body, answer[2].status, answer[2].body).issues = {}
    BY <2>2, <2>3 DEF Judged
  <2>5. p \in Compared(cfg.rule, answer[1].body, answer[2].status)
    BY AllIDsPicked DEF Compared
  <2> QED
    BY <2>4, <2>5, CleanComparison
<1> QED
  BY <1>1, <1>2, <1>3, InductiveInvariant, VerdictIsSound, PTL DEF Spec

-----------------------------------------------------------------------------
(* Experiment implements LostReply. *)

\* Nothing is recorded of the first request before it has an outcome.
NotHeard ==
  pc \in {"begin", "start", "baseline", "send", "original"} => report.attempts[1] = Nil

\* Run does not go back to where the original has no outcome yet.
LEMMA EarlyPlaces ==
  ASSUME [Next]_vars, pc' \in {"begin", "start", "baseline", "send", "original"}
  PROVE  pc \in {"begin", "start", "baseline", "send", "original"}
BY DEF Next, Runner, Environment, Degrade, Expire, Terminated, vars, Handle, Begin, Reject,
      StartService, StartFails, ReadBaseline, SendOriginal, SendRetry, SendChanged,
      BaselineFails, NoProxy, OriginalAnswered, OriginalFails, ProxyForwarded, ProxyFails,
      ClientLosesReply, ClientSeesProxyError, TakeResult, SelectTimeout, CrashKills,
      CrashFails, Restart, RestartFails, ReadAfterRestart, AfterRestartFails, RetryAnswered,
      RetryFails, ChangedAnswered, ChangedFails, Release, Join, WorkerSends, WorkerAnswered,
      WorkerFails, WorkerEnds, ReadFinal, FinalFails, StopService, Goto, Advance, Fail, Return

\* While the original is under way, the client's view of it ends that wait.
LEMMA OriginalEnds ==
  ASSUME [Next]_vars, pc = "original"
  PROVE  \/ UNCHANGED <<pc, report>>
         \/ OriginalAnswered \/ OriginalFails \/ ClientLosesReply \/ ClientSeesProxyError
BY DEF Next, Runner, Environment, Degrade, Expire, Terminated, vars, Handle, Begin, Reject,
      StartService, StartFails, ReadBaseline, SendOriginal, SendRetry, SendChanged,
      BaselineFails, NoProxy, ProxyForwarded, ProxyFails, TakeResult, SelectTimeout, CrashKills,
      CrashFails, Restart, RestartFails, ReadAfterRestart, AfterRestartFails, RetryAnswered,
      RetryFails, ChangedAnswered, ChangedFails, Release, Join, WorkerSends, WorkerAnswered,
      WorkerFails, WorkerEnds, ReadFinal, FinalFails, StopService

LEMMA NotHeardStep ==
  ASSUME IInv, NotHeard, [Next]_vars
  PROVE  NotHeard'
<1> SUFFICES ASSUME pc' \in {"begin", "start", "baseline", "send", "original"}
             PROVE  report'.attempts[1] = Nil
  BY DEF NotHeard
<1>1. /\ pc \in {"begin", "start", "baseline", "send", "original"}
      /\ report.attempts[1] = Nil
  BY EarlyPlaces DEF NotHeard
<1>2. CASE pc # "original"
  BY <1>1, <1>2, FirstAttemptStays
<1>3. CASE pc = "original"
  BY <1>1, <1>3, OriginalEnds DEF OriginalAnswered, OriginalFails, ClientLosesReply,
     ClientSeesProxyError, Goto, Fail, Return
<1> QED
  BY <1>2, <1>3

\* What a step of a lost response does to the service's side of it.
LEMMA ServiceSide ==
  ASSUME IInv, [Next]_vars, Losing
  PROVE  \/ UNCHANGED <<Asked, Said>>
         \/ /\ Asked = 0 /\ Asked' = 1
            /\ UNCHANGED <<Said, Heard, Loss>>
         \/ /\ Asked = 1 /\ Said = Nil /\ Said' \in Statuses
            /\ UNCHANGED <<Asked, Heard, Loss>>
<1>1. UNCHANGED cfg /\ Losing' /\ wire \in [Requests -> {"idle", "sent", "replied", "broken"}]
  BY SameConfig DEF Losing, IInv, TypeOK
<1>2. CASE UNCHANGED <<wire, answer>>
  BY <1>1, <1>2 DEF Asked, Said, Replied
<1>3. CASE SendOriginal
  <2>1. /\ UNCHANGED <<report, answer>> /\ pc = "send" /\ pc' = "original"
        /\ wire' = wire \/ wire' = [wire EXCEPT ![1] = "sent"]
    BY <1>3 DEF SendOriginal, Send, Goto
  <2>2. wire[1] = "idle"
    BY <2>1, RequestFacts DEF IInv, WritesInOrder
  <2>3. UNCHANGED <<Heard, Loss>>
    BY <1>1, <2>1 DEF Heard, Loss, Returned
  <2>4. UNCHANGED Said
    BY <1>1, <2>1, <2>2, RequestFacts DEF Said, Replied
  <2>5. Asked = 0 /\ Asked' \in {0, 1}
    BY <2>2 DEF Asked
  <2> QED
    BY <2>3, <2>4, <2>5
<1>4. CASE SendRetry \/ SendChanged
  <2>1. UNCHANGED answer /\ wire'[1] = wire[1]
    BY <1>1, <1>4, RequestFacts DEF SendRetry, SendChanged, Send
  <2> QED
    BY <1>1, <2>1 DEF Asked, Said, Replied
<1>5. CASE \E w \in Workers : WorkerSends(w)
  BY <1>5 DEF WorkerSends, IInv, EvidenceInOrder, Losing
<1>6. CASE \E q \in Requests : Handle(q)
  <2>1. PICK q \in Requests : Handle(q)
    BY <1>6
  <2>2. /\ wire[q] = "sent" /\ UNCHANGED <<pc, report>>
        /\ \/ /\ \E status \in Statuses, body \in BodiesRead :
                   answer' = [answer EXCEPT ![q] = [status |-> status, body |-> body]]
              /\ wire' = [wire EXCEPT ![q] = "replied"]
           \/ wire' = [wire EXCEPT ![q] = "broken"] /\ UNCHANGED answer
    BY <2>1 DEF Handle
  <2>3. answer \in [Requests -> Replies \cup {Nil}]
    BY DEF IInv, TypeOK
  <2>4. UNCHANGED <<Heard, Loss>>
    BY <1>1, <2>2 DEF Heard, Loss, Returned
  <2>5. CASE q # 1
    <3>1. wire'[1] = wire[1] /\ answer'[1] = answer[1]
      BY <1>1, <2>2, <2>3, <2>5, RequestFacts
    <3> QED
      BY <1>1, <3>1 DEF Asked, Said, Replied
  <2>6. CASE q = 1
    <3>1. Asked = 1 /\ Said = Nil
      BY <2>2, <2>6 DEF Asked, Said, Replied
    <3>2. CASE wire' = [wire EXCEPT ![1] = "broken"]
      BY <1>1, <3>1, <3>2, RequestFacts DEF Asked, Said, Replied
    <3>3. CASE /\ \E status \in Statuses, body \in BodiesRead :
                    answer' = [answer EXCEPT ![1] = [status |-> status, body |-> body]]
               /\ wire' = [wire EXCEPT ![1] = "replied"]
      <4>1. wire'[1] = "replied" /\ answer'[1].status \in Statuses
        BY <1>1, <2>3, <3>3, RequestFacts
      <4>2. Asked' = 1 /\ Said' \in Statuses
        BY <1>1, <4>1 DEF Asked, Said, Replied
      <4> QED
        BY <2>4, <3>1, <4>2
    <3> QED
      BY <2>2, <2>6, <3>2, <3>3
  <2> QED
    BY <2>5, <2>6
<1> QED
  BY <1>2, <1>3, <1>4, <1>5, <1>6, Senders

\* What it does to the runner's side: the client hears once, the verdict on the
\* loss comes once, and it is a fault only when Run takes an acknowledgement
\* from the channel of a client that heard nothing.
LEMMA RunnerSide ==
  ASSUME IInv, NotHeard, [Next]_vars, Losing
  PROVE  \/ UNCHANGED <<Heard, Loss>>
         \/ /\ Heard = Nil /\ Heard' \in {Failed} \cup ProxyStatuses
            /\ UNCHANGED Loss
         \/ /\ Loss = "none" /\ Said \in 200 .. 299 /\ Heard = Failed
            /\ Loss' = "injected"
            /\ UNCHANGED Heard
         \/ /\ Loss = "none" /\ Loss' = "failed"
            /\ UNCHANGED Heard
<1>1. UNCHANGED cfg /\ Losing'
  BY SameConfig DEF Losing
<1>2. report.fault \in BOOLEAN /\ report.attempts \in [Requests -> Int \cup {Nil, Failed}]
  BY DEF IInv, TypeOK, Reports
<1>3. CASE pc = "original" /\ (ClientLosesReply \/ ClientSeesProxyError)
  <2>1. PICK outcome \in {Failed} \cup ProxyStatuses :
          report' = Attempted(report, 1, outcome) /\ pc' = "select"
    BY <1>3 DEF ClientLosesReply, ClientSeesProxyError, Goto
  <2>2. report'.attempts[1] = outcome /\ report'.fault = report.fault
    BY <1>2, <2>1, RequestFacts DEF Attempted, IInv, TypeOK, Reports
  <2>3. report.attempts[1] = Nil
    BY <1>3 DEF NotHeard
  <2>4. UNCHANGED Loss
    BY <1>1, <1>3, <2>1, <2>2 DEF Loss, Returned
  <2> QED
    BY <1>1, <2>2, <2>3, <2>4 DEF Heard
<1>4. CASE pc = "original" /\ UNCHANGED <<pc, report>>
  BY <1>1, <1>4 DEF Heard, Loss, Returned
<1>5. CASE pc # "original"
  <2>1. pc # "burst"
    BY DEF IInv, EvidenceInOrder, Losing
  <2>2. UNCHANGED Heard
    BY <1>1, <1>5, <2>1, FirstAttemptStays DEF Heard
  <2>3. CASE report'.fault = report.fault
    <3>1. Returned => Returned'
      BY StaysReturned
    <3> QED
      BY <1>1, <2>2, <2>3, <3>1 DEF Loss
  <2>4. CASE TakeResult /\ pc' = "retry"
    <3>1. /\ pc = "select" /\ drop \notin {Nil, Failed} /\ Success(drop.status)
          /\ report.attempts[1] = Failed /\ report' = [report EXCEPT !.fault = TRUE]
      BY <2>4 DEF TakeResult, Fail, Return, Goto
    <3>2. report'.fault
      BY <3>1 DEF IInv, TypeOK, Reports
    <3>3. Said \in 200 .. 299 /\ Heard = Failed
      BY <3>1 DEF IInv, WritesInOrder, Said, Heard, Losing, Success
    <3>4. Loss' = "injected" /\ Loss \in {"none", "injected"}
      BY <1>1, <3>1, <3>2 DEF Loss, Returned
    <3> QED
      BY <2>2, <3>3, <3>4
  <2>5. CASE CrashKills \/ Join
    BY <2>5 DEF CrashKills, Join, IInv, EvidenceInOrder, Losing
  <2> QED
    BY <2>3, <2>4, <2>5, FaultSources
<1>6. CASE pc = "original" /\ (OriginalAnswered \/ OriginalFails)
  BY <1>6 DEF OriginalAnswered, OriginalFails, Losing
<1> QED
  BY <1>3, <1>4, <1>5, <1>6, OriginalEnds

LEMMA LostReplyStep ==
  ASSUME IInv, NotHeard, [Next]_vars
  PROVE  [LR!Next]_(LR!vars)
<1>1. CASE ~Losing
  <2>1. ~Losing'
    BY <1>1, SameConfig DEF Losing
  <2>2. UNCHANGED <<Asked, Said, Told, Loss>>
    BY <1>1, <2>1 DEF Asked, Said, Heard, Told, Loss
  <2> QED
    BY <2>2 DEF LR!vars
<1>2. CASE Losing
  <2>1. UNCHANGED Heard => UNCHANGED Told
    BY DEF Told
  <2>2. Heard = Failed => Told[1] = Failed
    BY DEF Told
  <2>3. CASE ~UNCHANGED <<Asked, Said>>
    BY <1>2, <2>1, <2>3, ServiceSide DEF LR!Next, LR!Ask, LR!Answer
  <2>4. CASE UNCHANGED <<Asked, Said, Heard, Loss>>
    BY <2>1, <2>4 DEF LR!vars
  <2>5. CASE /\ UNCHANGED <<Asked, Said, Loss>>
             /\ Heard = Nil /\ Heard' \in {Failed} \cup ProxyStatuses
    <3>1. /\ Told' \in [{1} -> {Nil, Failed} \cup ProxyStatuses]
          /\ \A c \in {1} : Told[c] = Nil
      BY <2>5 DEF Told
    <3>2. LR!Hear
      BY <2>5, <3>1 DEF LR!Hear
    <3> QED
      BY <3>2 DEF LR!Next
  <2>6. CASE /\ UNCHANGED <<Asked, Said, Heard>>
             /\ Loss = "none" /\ Said \in 200 .. 299 /\ Heard = Failed
             /\ Loss' = "injected"
    BY <2>1, <2>2, <2>6 DEF LR!Next, LR!Inject
  <2>7. CASE UNCHANGED <<Asked, Said, Heard>> /\ Loss = "none" /\ Loss' = "failed"
    BY <2>1, <2>7 DEF LR!Next, LR!Fail
  <2> QED
    BY <1>2, <2>3, <2>4, <2>5, <2>6, <2>7, RunnerSide
<1> QED
  BY <1>1, <1>2

\* Experiment implements LostReply, as DropProxy does: what surrounds the proxy
\* in a run, the deadline, the select, the retry and the final values, does
\* not change what a lost response is.
THEOREM ResponseIsLost == Spec => LosesOneReply
<1>1. Init => NotHeard /\ LR!Init
  <2> SUFFICES ASSUME Init PROVE NotHeard /\ LR!Init
    OBVIOUS
  <2>1. /\ report = EmptyReport /\ pc = "begin" /\ wire[1] = "idle"
    BY RequestFacts DEF Init
  <2>2. report.attempts[1] = Nil /\ report.fault = FALSE
    BY <2>1, RequestFacts DEF EmptyReport, NoAttempts
  <2> QED
    BY <2>1, <2>2 DEF NotHeard, LR!Init, Asked, Said, Heard, Told, Loss, Replied, Returned
<1>2. IInv /\ NotHeard /\ [Next]_vars => NotHeard' /\ [LR!Next]_(LR!vars)
  BY NotHeardStep, LostReplyStep
<1> QED
  BY <1>1, <1>2, InductiveInvariant, PTL DEF Spec, LosesOneReply, LR!Spec
=============================================================================
