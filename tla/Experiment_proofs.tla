-------------------------- MODULE Experiment_proofs --------------------------
(* Theorems about Experiment, for every value of its constants. *)
EXTENDS Experiment, TLAPS

\* What the configuration of a run can be.
LEMMA ConfigFacts ==
  ASSUME cfg \in Configs
  PROVE  /\ cfg.scenario \in Scenarios
         /\ cfg.managed \in BOOLEAN
         /\ cfg.rule \in RetryRules \cup {Nil}
         /\ cfg.burst \in BurstRules \cup {Nil}
         /\ cfg.reuse \in 400 .. 499
         /\ cfg.start \in [Obs -> Int]
         /\ cfg.rule # Nil => cfg.scenario \in {"lost-response", "crash-after-ack"}
         /\ cfg.burst # Nil => cfg.scenario = "concurrent-duplicates"
         /\ cfg.scenario = "crash-after-ack" => cfg.managed
BY ExperimentAssumption DEF ConfigType

\* Adding two int64 values gives an integer.
LEMMA Add64Type ==
  ASSUME NEW a \in Int, NEW b \in Int
  PROVE  Add64(a, b) \in Int
BY ExperimentAssumption DEF Add64

LEMMA CapturedType ==
  ASSUME NEW rule, NEW body \in Bodies
  PROVE  Captured(rule, body) \in Bodies
BY DEF Captured, Bodies

\* The outcome of a comparison is a well-formed entry of the report.
LEMMA ResponseCheckType ==
  ASSUME NEW rule \in RetryRules \cup {Nil}, NEW original,
         NEW status \in Statuses, NEW body
  PROVE  ResponseCheck(rule, original, status, body) \in ResponseChecks
<1>1. Compared(rule, original, status) \in SUBSET Pointers
  BY PointerAssumption, NilAssumption, SentinelAssumption DEF Compared, IDPointers, IDFields, RetryRules
<1>2. RetryIssues(rule, original, status, body) \in SUBSET (Pointers \cup {"status", "json"})
  BY <1>1 DEF RetryIssues, ValueIssues
<1> QED
  BY <1>1, <1>2 DEF ResponseCheck, ResponseChecks

\* Leaving Run with a verdict, and passing to the next observation, keep
\* the types of what they touch.
LEMMA ReturnType ==
  ASSUME TypeOK, NEW r \in Reports, NEW verdict \in {"ERROR", "PASS", "VIOLATION"},
         Return(r, verdict)
  PROVE  report' \in Reports /\ pc' = "stop" /\ k' \in Obs
BY DEF Return, Reports, TypeOK

LEMMA FailType ==
  ASSUME TypeOK, NEW r \in Reports, Fail(r)
  PROVE  report' \in Reports /\ pc' = "stop" /\ k' \in Obs
BY ReturnType DEF Fail, ScenarioVerdict

LEMMA GotoType ==
  ASSUME NEW where, Goto(where)
  PROVE  pc' = where /\ k' \in Obs
BY ExperimentAssumption DEF Goto, Obs

LEMMA AdvanceType ==
  ASSUME TypeOK, NEW loop, NEW after, Advance(loop, after)
  PROVE  pc' \in {loop, after} /\ k' \in Obs
BY ExperimentAssumption DEF Advance, Goto, Obs, TypeOK

LEMMA AttemptedType ==
  ASSUME NEW r \in Reports, NEW q \in Requests, NEW outcome \in Int \cup {Nil, Failed}
  PROVE  Attempted(r, q, outcome) \in Reports
BY DEF Attempted, Reports

\* A request that was answered has a well-formed reply.
LEMMA RequestFacts == 1 \in Requests /\ 2 \in Requests /\ Workers \subseteq Requests /\ 1 \in Obs
BY ExperimentAssumption DEF Requests, Workers, Obs

LEMMA ReplyFacts ==
  ASSUME NEW reply \in Replies
  PROVE  reply.status \in Statuses /\ reply.status \in Int
<1>1. \A x \in 200 .. 599 : x \in Int
  OBVIOUS
<1>2. reply.status \in Statuses
  BY DEF Replies
<1> QED
  BY <1>1, <1>2, StatusAssumption

\* The initial states are well typed.
LEMMA TypeInit ==
  ASSUME Init
  PROVE  TypeOK
<1>1. EmptyReport \in Reports
  BY DEF EmptyReport, Reports, NoChecks, NoAttempts
<1>2. cfg \in Configs /\ cfg.start \in [Obs -> Int]
  BY ConfigFacts DEF Init
<1>3. report \in Reports /\ k \in Obs /\ drop \in Replies \cup {Nil, Failed}
  BY <1>1, RequestFacts DEF Init
<1>4. /\ wire \in [Requests -> {"idle", "sent", "replied", "broken"}]
      /\ answer \in [Requests -> Replies \cup {Nil}]
      /\ \A q \in Requests : wire[q] = "replied" => answer[q] \in Replies
  BY DEF Init
<1>5. slots \in [Workers -> Int \cup {Failed}] /\ group \subseteq Workers
  BY DEF Init
<1>6. service \in {"down", "ok", "sick", "hung"} /\ effect \in [Obs -> Int]
  BY <1>2, ConfigFacts DEF Init
<1> QED
  BY <1>2, <1>3, <1>4, <1>5, <1>6 DEF Init, TypeOK

\* No step of the runner or of its environment leaves the types. Entries of
\* the report are copied and updated in place (an after-restart check is a
\* copy of a baseline check), so the step needs to know they are there.
LEMMA TypeStep ==
  ASSUME TypeOK, EvidenceInOrder, [Next]_vars
  PROVE  TypeOK'
<1>1. CASE Begin
  BY <1>1, GotoType DEF Begin, TypeOK, world, burstVars
<1>2. CASE Reject
  BY <1>2, ReturnType DEF Reject, TypeOK, world, burstVars
<1>3. CASE StartService
  BY <1>3, GotoType DEF StartService, TypeOK, world, burstVars
<1>4. CASE StartFails
  BY <1>4, ReturnType DEF StartFails, TypeOK, world, burstVars
<1>5. CASE BaselineFails
  BY <1>5, ReturnType DEF BaselineFails, TypeOK, world, burstVars
<1>6. CASE SendOriginal
  BY <1>6, GotoType DEF SendOriginal, TypeOK, world, burstVars, Send
<1>7. CASE NoProxy
  BY <1>7, FailType DEF NoProxy, TypeOK, world, burstVars
<1>8. CASE OriginalFails
  BY <1>8, FailType, AttemptedType, RequestFacts DEF OriginalFails, TypeOK, world, burstVars
<1>9. CASE ProxyFails
  BY <1>9 DEF ProxyFails, TypeOK, world, burstVars, Proxying
<1>10. CASE ClientLosesReply
  BY <1>10, GotoType, AttemptedType, RequestFacts DEF ClientLosesReply, TypeOK, world, burstVars
<1>11. CASE ClientSeesProxyError
  <2>1. PICK status \in ProxyStatuses : report' = Attempted(report, 1, status)
    BY <1>11 DEF ClientSeesProxyError
  <2>2. report' \in Reports
    BY <2>1, AttemptedType, RequestFacts DEF ProxyStatuses, TypeOK
  <2> QED
    BY <1>11, <2>2, GotoType DEF ClientSeesProxyError, TypeOK, world, burstVars
<1>12. CASE SelectTimeout
  BY <1>12, FailType DEF SelectTimeout, TypeOK, world, burstVars
<1>13. CASE CrashFails
  BY <1>13, FailType DEF CrashFails, TypeOK, world, burstVars
<1>14. CASE Restart
  BY <1>14, GotoType DEF Restart, TypeOK, world, burstVars
<1>15. CASE RestartFails
  BY <1>15, FailType DEF RestartFails, TypeOK, world, burstVars
<1>16. CASE AfterRestartFails
  BY <1>16, FailType DEF AfterRestartFails, TypeOK, world, burstVars
<1>17. CASE SendRetry
  BY <1>17, GotoType DEF SendRetry, TypeOK, world, burstVars, Send
<1>18. CASE RetryFails
  BY <1>18, FailType, AttemptedType, RequestFacts DEF RetryFails, TypeOK, world, burstVars
<1>19. CASE SendChanged
  BY <1>19, GotoType DEF SendChanged, TypeOK, world, burstVars, Send
<1>20. CASE ChangedFails
  BY <1>20, FailType, AttemptedType, RequestFacts DEF ChangedFails, TypeOK, world, burstVars
<1>21. CASE Release
  BY <1>21, GotoType DEF Release, TypeOK, world, burstVars
<1>22. CASE FinalFails
  BY <1>22, ReturnType DEF FinalFails, TypeOK, world, burstVars
<1>23. CASE StopService
  BY <1>23 DEF StopService, TypeOK, world, burstVars
<1>24. CASE Degrade
  BY <1>24 DEF Degrade, TypeOK, world, burstVars
<1>25. CASE Expire
  BY <1>25 DEF Expire, TypeOK, world, burstVars
<1>26. CASE Terminated
  BY <1>26 DEF Terminated, TypeOK, world, burstVars, vars
<1>27. CASE UNCHANGED vars
  BY <1>27 DEF TypeOK, vars
<1>28. CASE ReadBaseline
  <2>1. effect[k] \in Int /\ Delta[k] \in Int /\ k \in Obs
    BY <1>28, ExperimentAssumption DEF TypeOK
  <2>2. CASE Overflows(effect[k], Delta[k])
    BY <1>28, <2>2, ReturnType DEF ReadBaseline, TypeOK, world, burstVars
  <2>3. CASE ~Overflows(effect[k], Delta[k])
    <3>1. [baseline |-> effect[k], expected |-> Add64(effect[k], Delta[k]), observed |-> Nil]
            \in StateChecks
      BY <2>1, Add64Type DEF StateChecks
    <3>2. report' \in Reports
      BY <1>28, <2>1, <2>3, <3>1 DEF ReadBaseline, TypeOK, Reports
    <3> QED
      BY <1>28, <2>3, <3>2, AdvanceType DEF ReadBaseline, TypeOK, world, burstVars
  <2> QED
    BY <2>2, <2>3
<1>29. CASE OriginalAnswered
  <2> DEFINE status == answer[1].status
             r == Attempted(report, 1, status)
  <2>0. answer[1] \in Replies
    BY <1>29, RequestFacts DEF OriginalAnswered, Replied, TypeOK
  <2>5. status \in Int
    BY <2>0, ReplyFacts
  <2>1. r \in Reports
    BY <2>5, AttemptedType, RequestFacts DEF TypeOK
  <2>2. CASE Success(answer[1].status)
    BY <1>29, <2>1, <2>2, GotoType DEF OriginalAnswered, TypeOK, world, burstVars
  <2>3. CASE ~Success(answer[1].status)
    BY <1>29, <2>1, <2>3, FailType DEF OriginalAnswered, TypeOK, world, burstVars
  <2> QED
    BY <2>2, <2>3
<1>30. CASE ProxyForwarded
  <2>1. drop' \in Replies
    BY <1>30, CapturedType, RequestFacts
       DEF ProxyForwarded, Replied, TypeOK, Replies
  <2> QED
    BY <1>30, <2>1 DEF ProxyForwarded, TypeOK, world, burstVars
<1>31. CASE TakeResult
  <2>1. [report EXCEPT !.fault = TRUE] \in Reports
    BY DEF TypeOK, Reports
  <2> QED
    BY <1>31, <2>1, FailType, GotoType DEF TakeResult, TypeOK, world, burstVars
<1>32. CASE CrashKills
  <2>1. [report EXCEPT !.fault = TRUE] \in Reports
    BY DEF TypeOK, Reports
  <2>2. effect' \in [Obs -> Int]
    BY <1>32, ConfigFacts DEF CrashKills, TypeOK
  <2> QED
    BY <1>32, <2>1, <2>2, GotoType DEF CrashKills, TypeOK, burstVars
<1>33. CASE ReadAfterRestart
  <2>1. effect[k] \in Int /\ k \in Obs
    BY DEF TypeOK
  <2>2. report.checks[k] \in StateChecks
    BY <1>33, <2>1 DEF ReadAfterRestart, TypeOK, EvidenceInOrder, Measured, Reports
  <2>3. Observed(k) \in StateChecks
    BY <2>1, <2>2 DEF StateChecks, Observed
  <2>4. report' \in Reports
    BY <1>33, <2>1, <2>3 DEF ReadAfterRestart, TypeOK, Reports
  <2> QED
    BY <1>33, <2>4, AdvanceType DEF ReadAfterRestart, TypeOK, world, burstVars
<1>34. CASE RetryAnswered
  <2> DEFINE status == answer[2].status
             body == Captured(cfg.rule, answer[2].body)
             r == Attempted(report, 2, status)
  <2>1. status \in Statuses /\ status \in Int
    BY <1>34, RequestFacts, StatusAssumption DEF RetryAnswered, Replied, TypeOK, Replies
  <2>2. r \in Reports
    BY <2>1, AttemptedType, RequestFacts DEF TypeOK
  <2>3. ResponseCheck(cfg.rule, OriginalBody, status, body) \in ResponseChecks
    BY <2>1, ResponseCheckType, ConfigFacts DEF TypeOK
  <2>4. [r EXCEPT !.retry = ResponseCheck(cfg.rule, OriginalBody, status, body)] \in Reports
    BY <2>2, <2>3 DEF Reports
  <2> QED
    BY <1>34, <2>2, <2>4, FailType, GotoType DEF RetryAnswered, TypeOK, world, burstVars
<1>35. CASE ChangedAnswered
  <2> DEFINE status == answer[2].status
             r == Attempted(report, 2, status)
  <2>1. status \in Statuses /\ status \in Int
    BY <1>35, RequestFacts, StatusAssumption DEF ChangedAnswered, Replied, TypeOK, Replies
  <2>2. r \in Reports
    BY <2>1, AttemptedType, RequestFacts DEF TypeOK
  <2>3. [r EXCEPT !.reuse = [actual |-> status,
                             issues |-> IF status = cfg.reuse THEN {} ELSE {"status"}]] \in Reports
    BY <2>1, <2>2 DEF Reports, ReuseChecks
  <2> QED
    BY <1>35, <2>3, GotoType DEF ChangedAnswered, TypeOK, world, burstVars
<1>36. CASE Join
  <2> DEFINE statuses == {slots[w] : w \in Workers}
             r == [report EXCEPT !.fault = TRUE,
                     !.attempts = [q \in Requests |-> IF q \in Workers THEN slots[q] ELSE Nil]]
  <2>1. r \in Reports
    BY DEF TypeOK, Reports
  <2>2. CASE Failed \in statuses
    BY <1>36, <2>1, <2>2, FailType DEF Join, TypeOK, world
  <2>3. CASE Failed \notin statuses
    <3>1. statuses \subseteq Int
      BY <2>3 DEF TypeOK
    <3>2. BurstIssues(cfg.burst, statuses) \in SUBSET Int
      BY <3>1 DEF BurstIssues
    <3>3. BurstResponses(cfg.burst, statuses) \in BurstChecks \cup {Nil}
      BY <3>2, ConfigFacts DEF BurstResponses, BurstChecks, TypeOK
    <3>4. [r EXCEPT !.burst = BurstResponses(cfg.burst, statuses)] \in Reports
      BY <2>1, <3>3 DEF Reports
    <3> QED
      BY <1>36, <2>3, <3>4, GotoType DEF Join, TypeOK, world
  <2> QED
    BY <2>2, <2>3
<1>37. CASE ReadFinal
  <2> DEFINE r == [report EXCEPT !.checks[k] = Observed(k)]
  <2>1. effect[k] \in Int /\ k \in Obs
    BY DEF TypeOK
  <2>0. report.checks[k] \in StateChecks
    BY <1>37, <2>1 DEF ReadFinal, TypeOK, EvidenceInOrder, Measured, Reports
  <2>5. Observed(k) \in StateChecks
    BY <2>0, <2>1 DEF StateChecks, Observed
  <2>2. r \in Reports
    BY <2>1, <2>5 DEF TypeOK, Reports
  <2>3. CASE k < NumObs
    <3>1. k + 1 \in Obs
      BY <2>1, <2>3, ExperimentAssumption DEF Obs
    <3>2. report' \in Reports /\ k' \in Obs /\ pc' = "verify"
      BY <1>37, <2>2, <2>3, <3>1 DEF ReadFinal
    <3> QED
      BY <1>37, <3>2 DEF ReadFinal, TypeOK, world, burstVars
  <2>4. CASE ~(k < NumObs)
    BY <1>37, <2>2, <2>4, ReturnType DEF ReadFinal, TypeOK, world, burstVars
  <2> QED
    BY <2>3, <2>4
<1>38. ASSUME NEW w \in Workers, WorkerSends(w)
      PROVE  TypeOK'
  BY <1>38 DEF WorkerSends, Send, TypeOK, burstVars
<1>39. ASSUME NEW w \in Workers, WorkerAnswered(w)
      PROVE  TypeOK'
  <2>0. w \in Requests /\ wire[w] = "replied"
    BY <1>39, RequestFacts DEF WorkerAnswered, Replied
  <2>1. answer[w].status \in Int
    BY <2>0, ReplyFacts DEF TypeOK
  <2> QED
    BY <1>39, <2>1 DEF WorkerAnswered, WorkerEnds, TypeOK, world
<1>40. ASSUME NEW w \in Workers, WorkerFails(w)
      PROVE  TypeOK'
  BY <1>40 DEF WorkerFails, WorkerEnds, TypeOK, world
<1>41. ASSUME NEW q \in Requests, Handle(q)
      PROVE  TypeOK'
  <2>1. effect' \in [Obs -> Int]
    BY <1>41, ExperimentAssumption DEF Handle, TypeOK
  <2>2. /\ wire' \in [Requests -> {"idle", "sent", "replied", "broken"}]
        /\ answer' \in [Requests -> Replies \cup {Nil}]
        /\ \A x \in Requests : wire'[x] = "replied" => answer'[x] \in Replies
    BY <1>41 DEF Handle, BodiesRead, Bodies, TypeOK, Replies
  <2> QED
    BY <1>41, <2>1, <2>2 DEF Handle, TypeOK, burstVars
<1> QED
  BY <1>1, <1>2, <1>3, <1>4, <1>5, <1>6, <1>7, <1>8, <1>9, <1>10, <1>11, <1>12, <1>13, <1>14, <1>15, <1>16, <1>17, <1>18, <1>19, <1>20, <1>21, <1>22, <1>23, <1>24, <1>25, <1>26, <1>27, <1>28, <1>29, <1>30, <1>31, <1>32, <1>33, <1>34, <1>35, <1>36, <1>37, <1>38, <1>39, <1>40, <1>41 DEF Next, Runner, Environment

-----------------------------------------------------------------------------
(* The order in which evidence enters the report. *)

LEMMA StoppedInOrder ==
  ASSUME pc' \in {"stop", "done"}
  PROVE  EvidenceInOrder'
BY DEF EvidenceInOrder

LEMMA SamePlaceInOrder ==
  ASSUME EvidenceInOrder, UNCHANGED <<cfg, pc, k, report>>
  PROVE  EvidenceInOrder'
BY DEF EvidenceInOrder, Measured, HasFinal, HasRestart, RetryDeclared, RestartDeclared

\* Going elsewhere with the same evidence, where that is enough.
LEMMA SameEvidence ==
  ASSUME UNCHANGED <<cfg, report>>
  PROVE  \A o \in Obs : /\ HasFinal(o)' <=> HasFinal(o)
                        /\ HasRestart(o)' <=> HasRestart(o)
                        /\ Measured(o)' <=> Measured(o)
BY DEF Measured, HasFinal, HasRestart

\* A record of an attempt or of the fault leaves the checks alone.
LEMMA SameChecks ==
  ASSUME UNCHANGED cfg, report'.checks = report.checks,
         report'.afterRestart = report.afterRestart
  PROVE  \A o \in Obs : /\ HasFinal(o)' <=> HasFinal(o)
                        /\ HasRestart(o)' <=> HasRestart(o)
                        /\ Measured(o)' <=> Measured(o)
BY DEF Measured, HasFinal, HasRestart

LEMMA OrderStep ==
  ASSUME TypeOK, EvidenceInOrder, [Next]_vars
  PROVE  EvidenceInOrder'
<1>21. CASE pc' \in {"stop", "done"}
  BY <1>21, StoppedInOrder
<1> USE DEF EvidenceInOrder
<1>0. \A o \in Obs : ~(o < 1)
  BY ExperimentAssumption DEF Obs
<1>1. CASE Begin
  BY <1>0, <1>1, SameEvidence DEF Begin, Goto
<1>2. CASE StartService
  BY <1>0, <1>2, SameEvidence DEF StartService, Goto
<1>3. CASE ReadBaseline
  <2>1. CASE Overflows(effect[k], Delta[k])
    BY <1>3, <2>1, <1>21 DEF ReadBaseline, Return
  <2>2. CASE ~Overflows(effect[k], Delta[k])
    <3> DEFINE c == [baseline |-> effect[k], expected |-> Add64(effect[k], Delta[k]),
                     observed |-> Nil]
    <3>1. /\ UNCHANGED cfg
          /\ report'.checks = [report.checks EXCEPT ![k] = c]
          /\ report'.afterRestart = report.afterRestart
          /\ report'.retry = Nil /\ report'.burst = Nil /\ report'.reuse = Nil
      BY <1>3, <2>2 DEF ReadBaseline, TypeOK, Reports
    <3>2. c # Nil /\ c.observed = Nil
      <4>1. effect[k] \in Int /\ Delta[k] \in Int
        BY ExperimentAssumption DEF TypeOK
      <4>2. c \in StateChecks
        BY <4>1, Add64Type DEF StateChecks
      <4> QED
        BY <4>2, SentinelAssumption
    <3>3. \A o \in Obs : /\ ~HasFinal(o)' /\ ~HasRestart(o)'
                         /\ Measured(o) \/ o = k => Measured(o)'
      BY <1>3, <3>1, <3>2 DEF ReadBaseline, Measured, HasFinal, HasRestart, TypeOK, Reports
    <3>4. CASE k < NumObs
      BY <1>3, <2>2, <3>1, <3>3, <3>4 DEF ReadBaseline, Advance, TypeOK, Obs
    <3>5. CASE ~(k < NumObs)
      <4>1. \A o \in Obs : o < k \/ o = k
        BY <3>5, ExperimentAssumption DEF Obs, TypeOK
      <4> QED
        BY <1>3, <2>2, <3>1, <3>3, <3>5, <4>1 DEF ReadBaseline, Advance, Goto
    <3> QED
      BY <3>4, <3>5
  <2> QED
    BY <2>1, <2>2
<1>4. CASE SendOriginal
  BY <1>0, <1>4, SameEvidence DEF SendOriginal, Goto
<1>5. CASE OriginalAnswered
  <2>1. CASE Success(answer[1].status)
    <3> DEFINE r == Attempted(report, 1, answer[1].status)
    <3>1. /\ UNCHANGED cfg /\ report' = r
          /\ pc' = IF cfg.scenario = "key-reuse" THEN "changed" ELSE "crash"
      BY <1>5, <2>1 DEF OriginalAnswered, Goto
    <3>2. /\ r.checks = report.checks /\ r.afterRestart = report.afterRestart
          /\ r.retry = report.retry /\ r.burst = report.burst /\ r.reuse = report.reuse
      BY DEF Attempted, TypeOK, Reports
    <3> QED
      BY <1>5, <3>1, <3>2, SameChecks, ConfigFacts DEF OriginalAnswered, TypeOK, Scenarios
  <2>2. CASE ~Success(answer[1].status)
    BY <1>5, <2>2, <1>21 DEF OriginalAnswered, Fail, Return
  <2> QED
    BY <2>1, <2>2
<1>6. CASE ClientLosesReply
  <2> DEFINE r == Attempted(report, 1, Failed)
  <2>1. UNCHANGED cfg /\ report' = r /\ pc' = "select"
    BY <1>6 DEF ClientLosesReply, Goto
  <2>2. /\ r.checks = report.checks /\ r.afterRestart = report.afterRestart
        /\ r.retry = report.retry /\ r.burst = report.burst /\ r.reuse = report.reuse
    BY DEF Attempted, TypeOK, Reports
  <2> QED
    BY <1>6, <2>1, <2>2, SameChecks DEF ClientLosesReply
<1>7. CASE ClientSeesProxyError
  <2>0. PICK status \in ProxyStatuses : report' = Attempted(report, 1, status)
    BY <1>7 DEF ClientSeesProxyError
  <2> DEFINE r == Attempted(report, 1, status)
  <2>1. UNCHANGED cfg /\ report' = r /\ pc' = "select"
    BY <1>7, <2>0 DEF ClientSeesProxyError, Goto
  <2>2. /\ r.checks = report.checks /\ r.afterRestart = report.afterRestart
        /\ r.retry = report.retry /\ r.burst = report.burst /\ r.reuse = report.reuse
    BY DEF Attempted, TypeOK, Reports
  <2> QED
    BY <1>7, <2>1, <2>2, SameChecks DEF ClientSeesProxyError
<1>8. CASE TakeResult
  <2>1. CASE pc' = "stop"
    BY <2>1, <1>21
  <2>2. CASE pc' # "stop"
    <3> DEFINE r == [report EXCEPT !.fault = TRUE]
    <3>1. UNCHANGED cfg /\ report' = r /\ pc' = "retry"
      BY <1>8, <2>2 DEF TakeResult, Goto, Fail, Return
    <3>2. /\ r.checks = report.checks /\ r.afterRestart = report.afterRestart
          /\ r.retry = report.retry /\ r.burst = report.burst /\ r.reuse = report.reuse
          /\ r.fault
      BY DEF TypeOK, Reports
    <3> QED
      BY <1>8, <3>1, <3>2, SameChecks DEF TakeResult, RestartDeclared, RetryDeclared
  <2> QED
    BY <2>1, <2>2
<1>9. CASE CrashKills
  <2> DEFINE r == [report EXCEPT !.fault = TRUE]
  <2>1. UNCHANGED cfg /\ report' = r /\ pc' = "restart"
    BY <1>9 DEF CrashKills, Goto
  <2>2. /\ r.checks = report.checks /\ r.afterRestart = report.afterRestart
        /\ r.retry = report.retry /\ r.burst = report.burst /\ r.reuse = report.reuse
        /\ r.fault
    BY DEF TypeOK, Reports
  <2> QED
    BY <1>9, <2>1, <2>2, SameChecks DEF CrashKills
<1>10. CASE Restart
  <2>1. /\ UNCHANGED <<cfg, report>> /\ k' = 1
        /\ pc' = IF cfg.rule = Nil THEN "verify" ELSE "restarted"
    BY <1>10 DEF Restart, Goto
  <2>2. cfg.scenario = "crash-after-ack" /\ cfg.burst = Nil
    BY <1>10, ConfigFacts DEF Restart, TypeOK
  <2> QED
    BY <1>0, <1>10, <2>1, <2>2, SameEvidence DEF Restart, RetryDeclared, RestartDeclared
<1>11. CASE ReadAfterRestart
  <2>1. /\ UNCHANGED cfg /\ report'.checks = report.checks
        /\ report'.retry = Nil /\ report'.burst = Nil /\ report'.reuse = Nil
        /\ report'.fault
        /\ report'.afterRestart = [report.afterRestart EXCEPT ![k] = Observed(k)]
    BY <1>11 DEF ReadAfterRestart, TypeOK, Reports
  <2>2. Observed(k) # Nil
    <3>1. report.checks[k] \in StateChecks /\ effect[k] \in Int
      BY <1>11 DEF ReadAfterRestart, TypeOK, Measured, Reports
    <3>2. Observed(k) \in StateChecks
      BY <3>1 DEF Observed, StateChecks
    <3> QED
      BY <3>2, SentinelAssumption
  <2>3. \A o \in Obs : /\ HasFinal(o)' <=> HasFinal(o)
                       /\ Measured(o)' <=> Measured(o)
                       /\ HasRestart(o)' <=> (HasRestart(o) \/ o = k)
    BY <2>1, <2>2 DEF HasFinal, Measured, HasRestart, TypeOK, Reports
  <2>4. CASE k < NumObs
    <3>1. \A o \in Obs : o < k + 1 <=> (o < k \/ o = k)
      BY DEF Obs, TypeOK
    <3> QED
      BY <1>11, <2>1, <2>3, <2>4, <3>1 DEF ReadAfterRestart, Advance, RetryDeclared
  <2>5. CASE ~(k < NumObs)
    <3>1. \A o \in Obs : o < k \/ o = k
      BY <2>5, ExperimentAssumption DEF Obs, TypeOK
    <3> QED
      <4>1. \A o \in Obs : HasRestart(o)'
        BY <1>11, <2>3, <3>1 DEF ReadAfterRestart
      <4>2. pc' = "retry"
        BY <1>11, <2>5 DEF ReadAfterRestart, Advance, Goto
      <4> QED
        BY <1>11, <2>1, <2>3, <4>1, <4>2 DEF ReadAfterRestart, RetryDeclared
  <2> QED
    BY <2>4, <2>5
<1>12. CASE SendRetry
  BY <1>0, <1>12, SameEvidence DEF SendRetry, Goto, RestartDeclared, RetryDeclared
<1>13. CASE RetryAnswered
  <2> DEFINE status == answer[2].status
             body == Captured(cfg.rule, answer[2].body)
             check == ResponseCheck(cfg.rule, OriginalBody, status, body)
             r == [Attempted(report, 2, status) EXCEPT !.retry = check]
  <2>1. CASE Conclusive(cfg.rule, OriginalBody, status)
    <3>1. UNCHANGED cfg /\ report' = r /\ pc' = "verify" /\ k' = 1
      BY <1>13, <2>1 DEF RetryAnswered, Goto
    <3>2. /\ r.checks = report.checks /\ r.afterRestart = report.afterRestart
          /\ r.burst = report.burst /\ r.reuse = report.reuse
          /\ r.fault = report.fault /\ r.retry = check
      BY DEF Attempted, TypeOK, Reports
    <3>3. status \in Statuses
      BY <1>13, RequestFacts, ReplyFacts DEF RetryAnswered, Replied, TypeOK
    <3>4. check # Nil
      BY <3>3, ResponseCheckType, ConfigFacts, SentinelAssumption DEF TypeOK
    <3>5. cfg.burst = Nil /\ cfg.scenario # "key-reuse"
      BY <1>13, ConfigFacts DEF RetryAnswered, TypeOK
    <3> QED
      BY <1>0, <1>13, <3>1, <3>2, <3>4, <3>5, SameChecks
         DEF RetryAnswered, RetryDeclared, RestartDeclared
  <2>2. CASE ~Conclusive(cfg.rule, OriginalBody, status)
    BY <1>13, <2>2, <1>21 DEF RetryAnswered, Fail, Return
  <2> QED
    BY <2>1, <2>2
<1>14. CASE SendChanged
  BY <1>0, <1>14, SameEvidence DEF SendChanged, Goto
<1>15. CASE ChangedAnswered
  <2> DEFINE status == answer[2].status
             check == [actual |-> status,
                       issues |-> IF status = cfg.reuse THEN {} ELSE {"status"}]
             r == [Attempted(report, 2, status) EXCEPT !.reuse = check]
  <2>1. UNCHANGED cfg /\ report' = r /\ pc' = "verify" /\ k' = 1
    BY <1>15 DEF ChangedAnswered, Goto
  <2>2. /\ r.checks = report.checks /\ r.afterRestart = report.afterRestart
        /\ r.retry = report.retry /\ r.burst = report.burst
        /\ r.reuse = check
    BY DEF Attempted, TypeOK, Reports
  <2>3. status \in Statuses
    BY <1>15, RequestFacts, ReplyFacts DEF ChangedAnswered, Replied, TypeOK
  <2>4. check # Nil
    BY <2>3, SentinelAssumption DEF ReuseChecks
  <2>5. cfg.burst = Nil /\ cfg.scenario = "key-reuse" /\ cfg.rule = Nil
    BY <1>15, ConfigFacts DEF ChangedAnswered, TypeOK
  <2> QED
    BY <1>0, <1>15, <2>1, <2>2, <2>4, <2>5, SameChecks
       DEF ChangedAnswered, RetryDeclared, RestartDeclared
<1>16. CASE Release
  BY <1>0, <1>16, SameEvidence DEF Release, Goto
<1>17. CASE Join
  <2> DEFINE statuses == {slots[w] : w \in Workers}
             r0 == [report EXCEPT !.fault = TRUE,
                      !.attempts = [q \in Requests |-> IF q \in Workers THEN slots[q] ELSE Nil]]
             check == BurstResponses(cfg.burst, statuses)
             r == [r0 EXCEPT !.burst = check]
  <2>1. CASE Failed \in statuses
    BY <1>17, <2>1, <1>21 DEF Join, Fail, Return
  <2>2. CASE Failed \notin statuses
    <3>1. UNCHANGED cfg /\ report' = r /\ pc' = "verify" /\ k' = 1
      BY <1>17, <2>2 DEF Join, Goto
    <3>2. /\ r.checks = report.checks /\ r.afterRestart = report.afterRestart
          /\ r.retry = report.retry /\ r.reuse = report.reuse
          /\ r.fault /\ r.burst = check
      BY DEF TypeOK, Reports
    <3>3. BurstIssues(cfg.burst, statuses) \in SUBSET Int
      <4>1. statuses \subseteq Int
        BY <2>2 DEF TypeOK
      <4> QED
        BY <4>1 DEF BurstIssues
    <3>4. cfg.burst # Nil => check # Nil
      BY <3>3, ConfigFacts, SentinelAssumption DEF BurstResponses, BurstChecks, TypeOK
    <3>5. cfg.scenario = "concurrent-duplicates" /\ cfg.rule = Nil
      BY <1>17, ConfigFacts DEF Join, TypeOK
    <3> QED
      BY <1>0, <1>17, <3>1, <3>2, <3>4, <3>5, SameChecks
         DEF Join, RetryDeclared, RestartDeclared
  <2> QED
    BY <2>1, <2>2
<1>18. CASE ReadFinal
  <2>1. CASE k < NumObs
    <3> DEFINE r == [report EXCEPT !.checks[k] = Observed(k)]
    <3>1. UNCHANGED cfg /\ report' = r /\ pc' = "verify" /\ k' = k + 1
      BY <1>18, <2>1 DEF ReadFinal
    <3>2. /\ r.checks = [report.checks EXCEPT ![k] = Observed(k)]
          /\ r.afterRestart = report.afterRestart /\ r.retry = report.retry
          /\ r.burst = report.burst /\ r.reuse = report.reuse /\ r.fault = report.fault
      BY DEF TypeOK, Reports
    <3>3. Observed(k) # Nil /\ Observed(k).observed # Nil
      <4>1. report.checks[k] \in StateChecks /\ effect[k] \in Int
        BY <1>18 DEF ReadFinal, TypeOK, Measured, Reports
      <4>2. Observed(k) \in StateChecks /\ Observed(k).observed = effect[k]
        BY <4>1 DEF Observed, StateChecks
      <4> QED
        BY <4>1, <4>2, SentinelAssumption, NilAssumption
    <3>4. \A o \in Obs : /\ Measured(o)'
                         /\ HasFinal(o)' <=> (HasFinal(o) \/ o = k)
                         /\ HasRestart(o)' <=> HasRestart(o)
      BY <1>18, <3>1, <3>2, <3>3 DEF ReadFinal, Measured, HasFinal, HasRestart, TypeOK, Reports
    <3>5. \A o \in Obs : o < k + 1 <=> (o < k \/ o = k)
      BY DEF Obs, TypeOK
    <3> QED
      BY <1>18, <3>1, <3>2, <3>4, <3>5 DEF ReadFinal, RetryDeclared, RestartDeclared
  <2>2. CASE ~(k < NumObs)
    BY <1>18, <2>2, <1>21 DEF ReadFinal, Return
  <2> QED
    BY <2>1, <2>2
<1>19. CASE Reject \/ StartFails \/ BaselineFails \/ NoProxy \/ OriginalFails
            \/ SelectTimeout \/ CrashFails \/ RestartFails \/ AfterRestartFails
            \/ RetryFails \/ ChangedFails \/ FinalFails \/ StopService
  BY <1>19, <1>21
     DEF Reject, StartFails, BaselineFails, NoProxy, OriginalFails, SelectTimeout,
         CrashFails, RestartFails, AfterRestartFails, RetryFails, ChangedFails,
         FinalFails, StopService, Fail, Return
<1>20. CASE ProxyForwarded \/ ProxyFails
            \/ (\E w \in Workers : WorkerSends(w) \/ WorkerAnswered(w) \/ WorkerFails(w))
            \/ Environment \/ Terminated \/ UNCHANGED vars
  <2>1. UNCHANGED <<cfg, pc, k, report>>
    BY <1>20 DEF ProxyForwarded, ProxyFails, WorkerSends, WorkerAnswered, WorkerFails,
                 WorkerEnds, Environment, Handle, Degrade, Expire, Terminated, vars
  <2> QED
    BY <2>1, SamePlaceInOrder
<1> QED
  BY <1>1, <1>2, <1>3, <1>4, <1>5, <1>6, <1>7, <1>8, <1>9, <1>10, <1>11, <1>12, <1>13,
     <1>14, <1>15, <1>16, <1>17, <1>18, <1>19, <1>20 DEF Next, Runner

LEMMA OrderInit ==
  ASSUME Init
  PROVE  EvidenceInOrder
BY DEF Init, EvidenceInOrder, EmptyReport, NoChecks, HasFinal, HasRestart, Measured

\* Type correctness: whatever the service, the network and the clock do,
\* the report only ever holds well-formed entries (engine.Run).
THEOREM TypeCorrect == Spec => []TypeOK
<1>1. Init => TypeOK /\ EvidenceInOrder
  BY TypeInit, OrderInit
<1>2. TypeOK /\ EvidenceInOrder /\ [Next]_vars => (TypeOK /\ EvidenceInOrder)'
  BY TypeStep, OrderStep
<1> QED
  BY <1>1, <1>2, PTL DEF Spec

\* Evidence enters the report in the order Run's text suggests, at every
\* point of every run: baselines first and all of them, the values after a
\* restart before the retry, a final value only when the rest is in hand.
THEOREM EvidenceOrdered == Spec => []EvidenceInOrder
<1>1. Init => TypeOK /\ EvidenceInOrder
  BY TypeInit, OrderInit
<1>2. TypeOK /\ EvidenceInOrder /\ [Next]_vars => (TypeOK /\ EvidenceInOrder)'
  BY TypeStep, OrderStep
<1> QED
  BY <1>1, <1>2, PTL DEF Spec

-----------------------------------------------------------------------------
(* The verdict. *)

\* Without a final value, and without the other checks, only the values
\* after a restart can contradict, and the run is not complete.
LEMMA FailVerdict ==
  ASSUME TypeOK, EvidenceInOrder, pc \notin {"verify", "stop", "done"}, UNCHANGED cfg,
         NEW r \in Reports, r.checks = report.checks, r.afterRestart = report.afterRestart,
         r.retry = report.retry, r.burst = report.burst, r.reuse = report.reuse,
         Fail(r)
  PROVE  VerdictSound'
<1> DEFINE bad == Misses(report.afterRestart) # {}
<1>1. /\ report'.checks = report.checks /\ report'.afterRestart = report.afterRestart
      /\ report'.retry = Nil /\ report'.burst = Nil /\ report'.reuse = Nil
      /\ report'.status = IF bad THEN "VIOLATION" ELSE "ERROR"
  BY DEF Fail, Return, ScenarioVerdict, Reports, EvidenceInOrder
<1>2. \A o \in Obs : ~HasFinal(o) /\ ~HasFinal(o)'
  BY <1>1 DEF EvidenceInOrder, HasFinal, Measured
<1>3. Misses(report'.checks) = {}
  BY <1>1, <1>2 DEF Misses, HasFinal, Measured
<1>4. Mismatched(report') <=> bad
  BY <1>1, <1>3 DEF Mismatched, HasIssues
<1>5. ~Complete'
  BY <1>2, RequestFacts DEF Complete
<1> QED
  BY <1>1, <1>4, <1>5 DEF VerdictSound

\* An early return with ERROR is the same as a failed scenario then.
LEMMA EarlyVerdict ==
  ASSUME TypeOK, EvidenceInOrder, pc \in {"begin", "start", "baseline"}, UNCHANGED cfg,
         Return(report, "ERROR")
  PROVE  VerdictSound'
<1>1. Misses(report.afterRestart) = {}
  BY DEF EvidenceInOrder, Misses, HasRestart
<1>2. Fail(report)
  BY <1>1 DEF Fail, ScenarioVerdict
<1> QED
  BY <1>2, FailVerdict DEF TypeOK

\* A scenario that fails right after an attempt.
LEMMA FailAttempt ==
  ASSUME TypeOK, EvidenceInOrder, pc \notin {"verify", "stop", "done"}, UNCHANGED cfg,
         NEW q \in Requests, NEW outcome \in Int \cup {Failed},
         Fail(Attempted(report, q, outcome))
  PROVE  VerdictSound'
<1> DEFINE r == Attempted(report, q, outcome)
<1>1. /\ r.checks = report.checks /\ r.afterRestart = report.afterRestart
      /\ r.retry = report.retry /\ r.burst = report.burst /\ r.reuse = report.reuse
  BY DEF Attempted, TypeOK, Reports
<1>2. r \in Reports
  BY AttemptedType DEF TypeOK
<1> QED
  BY <1>1, <1>2, FailVerdict

LEMMA VerdictStep ==
  ASSUME TypeOK, EvidenceInOrder, VerdictSound, [Next]_vars
  PROVE  VerdictSound'
<1>1. CASE ~Returned'
  BY <1>1 DEF VerdictSound
<1>2. CASE Returned /\ UNCHANGED <<cfg, report>>
  BY <1>2 DEF VerdictSound, Complete, HasFinal, HasRestart, Measured, RetryDeclared,
              RestartDeclared
<1>3. CASE Reject \/ StartFails \/ BaselineFails \/ ReadBaseline
  <2>1. CASE pc' \notin {"stop", "done"}
    BY <1>1, <2>1 DEF Returned
  <2>2. CASE pc' \in {"stop", "done"}
    <3>1. /\ pc \in {"begin", "start", "baseline"} /\ UNCHANGED cfg
          /\ Return(report, "ERROR")
      BY <1>3, <2>2 DEF Reject, StartFails, BaselineFails, ReadBaseline, Advance, Goto
    <3> QED
      BY <3>1, EarlyVerdict
  <2> QED
    BY <2>1, <2>2
<1>4. CASE NoProxy \/ SelectTimeout \/ CrashFails \/ RestartFails \/ AfterRestartFails
  <2>1. pc \notin {"verify", "stop", "done"} /\ UNCHANGED cfg /\ Fail(report)
    BY <1>4 DEF NoProxy, SelectTimeout, CrashFails, RestartFails, AfterRestartFails
  <2> QED
    BY <2>1, FailVerdict DEF TypeOK
<1>5. CASE OriginalFails \/ RetryFails \/ ChangedFails
  <2>1. PICK q \in {1, 2} : /\ pc \notin {"verify", "stop", "done"} /\ UNCHANGED cfg
                             /\ Fail(Attempted(report, q, Failed))
    BY <1>5 DEF OriginalFails, RetryFails, ChangedFails
  <2> QED
    BY <2>1, FailAttempt, RequestFacts
<1>6. CASE OriginalAnswered
  <2>1. CASE Success(answer[1].status)
    <3>1. pc' \notin {"stop", "done"}
      BY <1>6, <2>1 DEF OriginalAnswered, Goto
    <3> QED
      BY <1>1, <3>1 DEF Returned
  <2>2. CASE ~Success(answer[1].status)
    <3>1. answer[1].status \in Int
      BY <1>6, RequestFacts, ReplyFacts DEF OriginalAnswered, Replied, TypeOK
    <3>2. /\ pc = "original" /\ UNCHANGED cfg
          /\ Fail(Attempted(report, 1, answer[1].status))
      BY <1>6, <2>2 DEF OriginalAnswered
    <3> QED
      BY <3>1, <3>2, FailAttempt, RequestFacts
  <2> QED
    BY <2>1, <2>2
<1>7. CASE TakeResult
  <2>1. CASE Fail(report)
    BY <1>7, <2>1, FailVerdict DEF TakeResult, TypeOK
  <2>2. CASE pc' = "retry"
    BY <1>1, <2>2 DEF Returned
  <2> QED
    BY <1>7, <2>1, <2>2 DEF TakeResult, Goto
<1>8. CASE RetryAnswered
  <2>1. CASE Conclusive(cfg.rule, OriginalBody, answer[2].status)
    <3>1. pc' = "verify"
      BY <1>8, <2>1 DEF RetryAnswered, Goto
    <3> QED
      BY <1>1, <3>1 DEF Returned
  <2>2. CASE ~Conclusive(cfg.rule, OriginalBody, answer[2].status)
    <3>1. answer[2].status \in Int
      BY <1>8, RequestFacts, ReplyFacts DEF RetryAnswered, Replied, TypeOK
    <3>2. /\ pc = "retrying" /\ UNCHANGED cfg
          /\ Fail(Attempted(report, 2, answer[2].status))
      BY <1>8, <2>2 DEF RetryAnswered
    <3> QED
      BY <3>1, <3>2, FailAttempt, RequestFacts
  <2> QED
    BY <2>1, <2>2
<1>9. CASE Join
  <2> DEFINE statuses == {slots[w] : w \in Workers}
             r == [report EXCEPT !.fault = TRUE,
                     !.attempts = [q \in Requests |-> IF q \in Workers THEN slots[q] ELSE Nil]]
  <2>1. CASE Failed \in statuses
    <3>1. /\ r \in Reports /\ r.checks = report.checks
          /\ r.afterRestart = report.afterRestart
          /\ r.retry = report.retry /\ r.burst = report.burst /\ r.reuse = report.reuse
      BY DEF TypeOK, Reports
    <3>2. pc = "burst" /\ UNCHANGED cfg /\ Fail(r)
      BY <1>9, <2>1 DEF Join
    <3> QED
      BY <3>1, <3>2, FailVerdict
  <2>2. CASE Failed \notin statuses
    <3>1. pc' = "verify"
      BY <1>9, <2>2 DEF Join, Goto
    <3> QED
      BY <1>1, <3>1 DEF Returned
  <2> QED
    BY <2>1, <2>2
<1>10. CASE ReadFinal
  <2>1. CASE k < NumObs
    BY <1>1, <1>10, <2>1 DEF ReadFinal, Returned
  <2>2. CASE ~(k < NumObs)
    <3> DEFINE r == [report EXCEPT !.checks[k] = Observed(k)]
    <3>1. report' = [r EXCEPT !.status = IF Mismatched(r) THEN "VIOLATION" ELSE "PASS"]
      BY <1>10, <2>2 DEF ReadFinal, Return
    <3>2. /\ report'.checks = [report.checks EXCEPT ![k] = Observed(k)]
          /\ report'.afterRestart = report.afterRestart /\ report'.retry = report.retry
          /\ report'.burst = report.burst /\ report'.reuse = report.reuse
          /\ report'.fault = report.fault
          /\ report'.status = IF Mismatched(r) THEN "VIOLATION" ELSE "PASS"
          /\ r.checks = report'.checks /\ r.afterRestart = report'.afterRestart
          /\ r.retry = report'.retry /\ r.burst = report'.burst /\ r.reuse = report'.reuse
      BY <3>1 DEF TypeOK, Reports
    <3>3. Mismatched(report') <=> Mismatched(r)
      BY <3>2 DEF Mismatched
    <3>4. Observed(k) # Nil /\ Observed(k).observed # Nil
      <4>1. report.checks[k] \in StateChecks /\ effect[k] \in Int
        BY <1>10 DEF ReadFinal, TypeOK, Measured, Reports, EvidenceInOrder
      <4>2. Observed(k) \in StateChecks /\ Observed(k).observed = effect[k]
        BY <4>1 DEF Observed, StateChecks
      <4> QED
        BY <4>1, <4>2, SentinelAssumption, NilAssumption
    <3>5. \A o \in Obs : o < k \/ o = k
      BY <2>2, ExperimentAssumption DEF Obs, TypeOK
    <3>6. \A o \in Obs : HasFinal(o)'
      BY <1>10, <3>2, <3>4, <3>5
         DEF ReadFinal, HasFinal, Measured, EvidenceInOrder, TypeOK, Reports
    <3>7. Complete'
      BY <1>10, <3>2, <3>6 DEF ReadFinal, Complete, EvidenceInOrder, HasRestart,
                               RestartDeclared, RetryDeclared
    <3> QED
      BY <3>2, <3>3, <3>7 DEF VerdictSound
  <2> QED
    BY <2>1, <2>2
<1>11. CASE FinalFails
  <2>1. /\ report' = [report EXCEPT !.status = IF Mismatched(report) THEN "VIOLATION" ELSE "ERROR"]
        /\ UNCHANGED cfg
    BY <1>11 DEF FinalFails, Return
  <2>2. /\ report'.checks = report.checks
        /\ report'.afterRestart = report.afterRestart /\ report'.retry = report.retry
        /\ report'.burst = report.burst /\ report'.reuse = report.reuse
        /\ report'.status = IF Mismatched(report) THEN "VIOLATION" ELSE "ERROR"
    BY <2>1 DEF TypeOK, Reports
  <2>3. Mismatched(report') <=> Mismatched(report)
    BY <2>2 DEF Mismatched
  <2>4. ~HasFinal(k)
    BY <1>11 DEF FinalFails, EvidenceInOrder, TypeOK, Obs
  <2>5. ~Complete'
    <3>1. \A o \in Obs : HasFinal(o)' <=> HasFinal(o)
      BY <2>2 DEF HasFinal, Measured
    <3>2. k \in Obs
      BY DEF TypeOK
    <3> QED
      BY <2>4, <3>1, <3>2 DEF Complete
  <2> QED
    BY <2>2, <2>3, <2>5 DEF VerdictSound
<1>12. CASE Begin \/ StartService \/ SendOriginal \/ ClientLosesReply \/ ClientSeesProxyError
            \/ CrashKills \/ Restart \/ ReadAfterRestart \/ SendRetry \/ SendChanged
            \/ ChangedAnswered \/ Release
  <2>1. pc' \notin {"stop", "done"}
    BY <1>12 DEF Begin, StartService, SendOriginal, ClientLosesReply,
                 ClientSeesProxyError, CrashKills, Restart, ReadAfterRestart, SendRetry,
                 SendChanged, ChangedAnswered, Release, Goto, Advance
  <2> QED
    BY <1>1, <2>1 DEF Returned
<1>13. CASE ProxyForwarded \/ ProxyFails \/ StopService
            \/ (\E w \in Workers : WorkerSends(w) \/ WorkerAnswered(w) \/ WorkerFails(w))
            \/ Environment \/ Terminated \/ UNCHANGED vars
  <2>1. UNCHANGED <<cfg, report>> /\ (Returned' <=> Returned)
    BY <1>13 DEF ProxyForwarded, ProxyFails, StopService, WorkerSends, WorkerAnswered,
                 WorkerFails, WorkerEnds, Environment, Handle, Degrade, Expire, Terminated,
                 vars, Returned
  <2> QED
    BY <1>1, <1>2, <2>1
<1> QED
  BY <1>1, <1>2, <1>3, <1>4, <1>5, <1>6, <1>7, <1>8, <1>9, <1>10, <1>11, <1>12, <1>13
     DEF Next, Runner

\* Soundness of the verdict, for every service and every timing: a run that
\* returns says VIOLATION exactly when a recorded check failed, PASS exactly
\* when none did and nothing declared is missing, and ERROR otherwise.
THEOREM VerdictIsSound == Spec => []VerdictSound
<1>1. Init => TypeOK /\ EvidenceInOrder /\ VerdictSound
  BY TypeInit, OrderInit DEF Init, VerdictSound, Returned
<1>2. TypeOK /\ EvidenceInOrder /\ VerdictSound /\ [Next]_vars
        => (TypeOK /\ EvidenceInOrder /\ VerdictSound)'
  BY TypeStep, OrderStep, VerdictStep
<1> QED
  BY <1>1, <1>2, PTL DEF Spec
=============================================================================
