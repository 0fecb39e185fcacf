----------------------------- MODULE Experiment -----------------------------
(***************************************************************************)
(* One experiment: engine.Run with its four scenarios, the report it       *)
(* fills, the service under test and the requests travelling to it.        *)
(*                                                                         *)
(* The runner is sequential, except that a burst has one goroutine per     *)
(* copy. The service is any program: it may answer a request with any      *)
(* status and body and any effect on the observed values, apply it and     *)
(* lose the reply, hang, answer garbage or die. The context deadline can   *)
(* pass at any moment. A request whose client gave up stays in flight and  *)
(* may still take effect later.                                            *)
(***************************************************************************)
EXTENDS RetryCheck

CONSTANTS
  NumObs,        \* number of declared observations
  Delta,         \* expected_delta of each observation
  MinInt, MaxInt,\* the range of int64
  NumWorkers,    \* copies in a burst
  Configs,       \* the scenarios to run, see ConfigType
  Effects,       \* what one handled request may add to each observed value
  Failed         \* an attempt that ended in a client error

Obs     == 1 .. NumObs
Workers == 1 .. NumWorkers
\* Request 1 is the original (or the first copy), request 2 the retry, the
\* changed payload or the second copy.
Requests == 1 .. (IF NumWorkers > 2 THEN NumWorkers ELSE 2)

Scenarios == {"lost-response", "concurrent-duplicates", "crash-after-ack", "key-reuse"}

BurstRules ==
  {r \in [allowed : SUBSET Statuses, noServerErrors : BOOLEAN] :
     r.allowed # {} \/ r.noServerErrors}

\* What Validate lets through: a retry rule only where there is a retry, a
\* burst rule only for a burst, a crash only of a managed service, a 4xx
\* code for a reused key.
ConfigType ==
  {c \in [scenario : Scenarios, managed : BOOLEAN, rule : RetryRules \cup {Nil},
          burst : BurstRules \cup {Nil}, reuse : 400 .. 499, start : [Obs -> Int]] :
     /\ c.rule # Nil => c.scenario \in {"lost-response", "crash-after-ack"}
     /\ c.burst # Nil => c.scenario = "concurrent-duplicates"
     /\ c.scenario = "crash-after-ack" => c.managed}

\* The entries of a report; Nil stands for each of them while it is absent.
StateChecks == [baseline : Int, expected : Int, observed : Int \cup {Nil}]
ResponseChecks == [retryStatus : Statuses, pointers : SUBSET Pointers,
                   issues : SUBSET (Pointers \cup {"status", "json"})]
BurstChecks == [rule : BurstRules, issues : SUBSET Int]
ReuseChecks == [actual : Statuses, issues : SUBSET {"status"}]
Replies == [status : Statuses, body : Bodies]

Reports ==
  [status : {"ERROR", "PASS", "VIOLATION"},
   checks : [Obs -> StateChecks \cup {Nil}],
   afterRestart : [Obs -> StateChecks \cup {Nil}],
   retry : ResponseChecks \cup {Nil},
   burst : BurstChecks \cup {Nil},
   reuse : ReuseChecks \cup {Nil},
   fault : BOOLEAN,
   attempts : [Requests -> Int \cup {Nil, Failed}]]

ASSUME ExperimentAssumption ==
  /\ NumObs \in Nat \ {0}
  /\ NumWorkers \in Nat \ {0, 1}
  /\ MinInt \in Int /\ MaxInt \in Int /\ MinInt <= 0 /\ 0 <= MaxInt
  /\ Delta \in [Obs -> MinInt .. MaxInt]
  /\ Configs \subseteq ConfigType
  /\ Effects \subseteq [Obs -> Int]

\* The sentinels are none of the values they stand beside.
ASSUME SentinelAssumption ==
  /\ Failed \notin Int /\ Failed # Nil /\ Failed \notin Replies
  /\ Nil \notin StateChecks /\ Nil \notin ResponseChecks
  /\ Nil \notin BurstChecks /\ Nil \notin ReuseChecks
  /\ Nil \notin Replies /\ Nil \notin RetryRules /\ Nil \notin BurstRules

VARIABLES
  cfg,      \* the scenario being run
  pc,       \* where Run is
  k,        \* index of the observation loop Run is in
  report,   \* the Report under construction
  slots,    \* results[] of a burst; 0 is the zero Attempt
  group,    \* the workers the WaitGroup still counts
  drop,     \* proxy.result: Nil, Failed, or the upstream's status and body
  wire,     \* each request: idle, sent, replied, broken
  answer,   \* the service's reply to each request
  effect,   \* the values the service exposes
  service,  \* down, ok, sick (unusable replies), hung
  expired   \* the deadline of the experiment's context has passed

burstVars == <<slots, group>>
world == <<wire, answer, effect, service, expired>>
vars == <<cfg, pc, k, report, drop, slots, group, wire, answer, effect, service, expired>>

-----------------------------------------------------------------------------
(* The report and the verdict computed from it. *)

\* Two's complement addition of two int64 values.
Add64(a, b) ==
  LET sum == a + b
      width == MaxInt - MinInt + 1
  IN  IF sum > MaxInt THEN sum - width ELSE IF sum < MinInt THEN sum + width ELSE sum

\* Mutant: only the upper end of int64 is guarded.
MutOverflows(baseline, delta) == delta > 0 /\ baseline > MaxInt - delta

Overflows(baseline, delta) ==
  \/ delta > 0 /\ baseline > MaxInt - delta
  \/ delta < 0 /\ baseline < MinInt - delta

NoChecks == [o \in Obs |-> Nil]
NoAttempts == [q \in Requests |-> Nil]

EmptyReport ==
  [status |-> "ERROR", checks |-> NoChecks, afterRestart |-> NoChecks,
   retry |-> Nil, burst |-> Nil, reuse |-> Nil, fault |-> FALSE, attempts |-> NoAttempts]

Misses(checks) ==
  {o \in Obs : checks[o] # Nil /\ checks[o].observed # Nil
                 /\ checks[o].observed # checks[o].expected}

HasIssues(check) == check # Nil /\ check.issues # {}

\* Mutant: the final values are read but not compared.
MutMismatched(r) ==
  Misses(r.afterRestart) # {} \/ HasIssues(r.retry) \/ HasIssues(r.burst) \/ HasIssues(r.reuse)

\* The mismatches gathered before and during the final observations.
Mismatched(r) ==
  \/ Misses(r.afterRestart) # {}
  \/ HasIssues(r.retry) \/ HasIssues(r.burst) \/ HasIssues(r.reuse)
  \/ Misses(r.checks) # {}

\* Mutant: a failed scenario is always inconclusive.
MutScenarioVerdict(r) == "ERROR"

\* A scenario that failed: only a miss already seen after restart counts.
ScenarioVerdict(r) == IF Misses(r.afterRestart) # {} THEN "VIOLATION" ELSE "ERROR"

Return(r, verdict) ==
  /\ report' = [r EXCEPT !.status = verdict]
  /\ pc' = "stop"
  /\ UNCHANGED k

Fail(r) == Return(r, ScenarioVerdict(r))

Goto(where) == pc' = where /\ k' = 1

\* Mutants: the loop stops one short; its index is not reset.
MutAdvanceShort(loop, after) ==
  IF k < NumObs - 1 THEN pc' = loop /\ k' = k + 1 ELSE Goto(after)

MutAdvanceOn(loop, after) == k' = k + 1 /\ pc' = IF k < NumObs THEN loop ELSE after

\* One turn of a loop over the observations.
Advance(loop, after) ==
  IF k < NumObs THEN pc' = loop /\ k' = k + 1 ELSE Goto(after)

\* The check of an observation, with the value read now.
Observed(o) == [report.checks[o] EXCEPT !.observed = effect[o]]

Attempted(r, q, outcome) == [r EXCEPT !.attempts[q] = outcome]

-----------------------------------------------------------------------------
(* Talking to the service. *)

\* observe: a usable integer, read now.
Reads(o) ==
  /\ service = "ok" /\ ~expired
  /\ effect[o] \in MinInt .. MaxInt

\* Mutant: an observation without the context of the run.
MutReadFails(o) == \/ service \in {"down", "sick"}
                   \/ service = "ok" /\ effect[o] \notin MinInt .. MaxInt

\* observe: an error. A hung service fails it only through the deadline.
ReadFails(o) == \/ service \in {"down", "sick"}
                \/ expired
                \/ service = "ok" /\ effect[o] \notin MinInt .. MaxInt

\* Start a request; an expired context never puts it on the wire.
Send(q) == /\ wire' = IF expired THEN wire ELSE [wire EXCEPT ![q] = "sent"]
           /\ UNCHANGED <<answer, effect, service, expired>>

Replied(q) == wire[q] = "replied"

\* The client error of a request: refused, broken off, or out of time.
SendFails(q) == expired \/ wire[q] = "broken" \/ (service = "down" /\ wire[q] = "sent")

-----------------------------------------------------------------------------
(* Run: validation, service start, baselines. *)

Begin ==
  /\ pc = "begin"
  /\ Goto(IF cfg.managed THEN "start" ELSE "baseline")
  /\ UNCHANGED <<cfg, report, drop, burstVars>> /\ UNCHANGED world

\* Validate, NewRunID or Resolve returned an error.
Reject ==
  /\ pc = "begin"
  /\ Return(report, "ERROR")
  /\ UNCHANGED <<cfg, drop, burstVars>> /\ UNCHANGED world

StartService ==
  /\ pc = "start" /\ ~expired
  /\ Goto("baseline")
  /\ service' = "ok"
  /\ UNCHANGED <<cfg, report, drop, wire, answer, effect, expired, burstVars>>

StartFails ==
  /\ pc = "start"
  /\ Return(report, "ERROR")
  /\ UNCHANGED <<cfg, drop, burstVars>> /\ UNCHANGED world

ReadBaseline ==
  /\ pc = "baseline"
  /\ Reads(k)
  /\ IF Overflows(effect[k], Delta[k])
       THEN Return(report, "ERROR")
       ELSE /\ report' = [report EXCEPT !.checks[k] =
                 [baseline |-> effect[k], expected |-> Add64(effect[k], Delta[k]),
                  observed |-> Nil]]
            /\ Advance("baseline", "send")
  /\ UNCHANGED <<cfg, drop, burstVars>> /\ UNCHANGED world

BaselineFails ==
  /\ pc = "baseline"
  /\ ReadFails(k)
  /\ Return(report, "ERROR")
  /\ UNCHANGED <<cfg, drop, burstVars>> /\ UNCHANGED world

-----------------------------------------------------------------------------
(* The original request of the three sequential scenarios. *)

SendOriginal ==
  /\ pc = "send"
  /\ cfg.scenario # "concurrent-duplicates"
  /\ Send(1)
  /\ Goto("original")
  /\ UNCHANGED <<cfg, report, drop, burstVars>>

\* newDropProxy could not listen.
NoProxy ==
  /\ pc = "send"
  /\ cfg.scenario = "lost-response"
  /\ Fail(report)
  /\ UNCHANGED <<cfg, drop, burstVars>> /\ UNCHANGED world

\* crash-after-ack and key-reuse send straight to the service.
OriginalAnswered ==
  /\ pc = "original"
  /\ cfg.scenario # "lost-response"
  /\ Replied(1)
  /\ LET status == answer[1].status
         r == Attempted(report, 1, status)
     IN  IF Success(status)
           THEN /\ report' = r
                /\ Goto(IF cfg.scenario = "key-reuse" THEN "changed" ELSE "crash")
           ELSE Fail(r)
  /\ UNCHANGED <<cfg, drop, burstVars>> /\ UNCHANGED world

OriginalFails ==
  /\ pc = "original"
  /\ cfg.scenario # "lost-response"
  /\ SendFails(1)
  /\ Fail(Attempted(report, 1, Failed))
  /\ UNCHANGED <<cfg, drop, burstVars>> /\ UNCHANGED world

-----------------------------------------------------------------------------
(* runLostResponse. The proxy runs beside the client, with the context of  *)
(* the experiment; its handler posts one result and then drops the client. *)

ProxyStatuses == {200, 500, 502}

Proxying == cfg.scenario = "lost-response" /\ pc \in {"original", "select"} /\ drop = Nil

ProxyForwarded ==
  /\ Proxying /\ Replied(1)
  /\ drop' = [status |-> answer[1].status, body |-> Captured(cfg.rule, answer[1].body)]
  /\ UNCHANGED <<cfg, pc, k, report, burstVars>> /\ UNCHANGED world

\* It could not forward, or could not take over the connection to drop it.
ProxyFails ==
  /\ Proxying
  /\ SendFails(1) \/ Replied(1)
  /\ drop' = Failed
  /\ UNCHANGED <<cfg, pc, k, report, burstVars>> /\ UNCHANGED world

\* The connection is dropped, or the client's own deadline passed.
ClientLosesReply ==
  /\ pc = "original" /\ cfg.scenario = "lost-response"
  /\ drop \notin {Nil, Failed} \/ expired
  /\ report' = Attempted(report, 1, Failed)
  /\ Goto("select")
  /\ UNCHANGED <<cfg, drop, burstVars>> /\ UNCHANGED world

\* The proxy answers 502 when it could not forward; with a connection it
\* cannot drop it answers 500, or nothing, which net/http sends as a 200.
ClientSeesProxyError ==
  /\ pc = "original" /\ cfg.scenario = "lost-response"
  /\ drop = Failed
  /\ \E status \in ProxyStatuses :
       /\ status = 502 \/ Replied(1)
       /\ report' = Attempted(report, 1, status)
  /\ Goto("select")
  /\ UNCHANGED <<cfg, drop, burstVars>> /\ UNCHANGED world

\* Mutant: any reply the proxy withheld is taken for an acknowledgement.
MutTakeResult ==
  /\ pc = "select" /\ drop # Nil
  /\ IF drop = Failed \/ report.attempts[1] # Failed THEN Fail(report)
     ELSE report' = [report EXCEPT !.fault = TRUE] /\ Goto("retry")
  /\ UNCHANGED <<cfg, drop, burstVars>> /\ UNCHANGED world

TakeResult ==
  /\ pc = "select" /\ drop # Nil
  /\ IF drop = Failed THEN Fail(report)
     ELSE IF ~Success(drop.status) \/ report.attempts[1] # Failed THEN Fail(report)
     ELSE report' = [report EXCEPT !.fault = TRUE] /\ Goto("retry")
  /\ UNCHANGED <<cfg, drop, burstVars>> /\ UNCHANGED world

\* Mutant: a client that heard nothing by the deadline counts as a lost reply.
MutSelectTimeout ==
  /\ pc = "select" /\ expired
  /\ report' = [report EXCEPT !.fault = TRUE] /\ Goto("retry")
  /\ UNCHANGED <<cfg, drop, burstVars>> /\ UNCHANGED world

\* select may pick ctx.Done even when a result is there too.
SelectTimeout ==
  /\ pc = "select" /\ expired
  /\ Fail(report)
  /\ UNCHANGED <<cfg, drop, burstVars>> /\ UNCHANGED world

-----------------------------------------------------------------------------
(* runCrashAfterAck: kill, restart, read every value, only then retry. *)

\* The kill also succeeds on a service that died just before, while its exit
\* has not been noticed.
CrashKills ==
  /\ pc = "crash"
  /\ report' = [report EXCEPT !.fault = TRUE]
  /\ service' = "down"
  /\ \E lost \in SUBSET Obs :
       effect' = [o \in Obs |-> IF o \in lost THEN cfg.start[o] ELSE effect[o]]
  /\ Goto("restart")
  /\ UNCHANGED <<cfg, drop, wire, answer, expired, burstVars>>

\* The process exited by itself, or could not be killed.
CrashFails ==
  /\ pc = "crash"
  /\ Fail(report)
  /\ UNCHANGED <<cfg, drop, burstVars>> /\ UNCHANGED world

\* Mutant: the retry is sent before the values after the restart are read.
MutRestart ==
  /\ pc = "restart" /\ ~expired
  /\ service' = "ok"
  /\ Goto(IF cfg.rule = Nil THEN "verify" ELSE "retry")
  /\ UNCHANGED <<cfg, report, drop, wire, answer, effect, expired, burstVars>>

Restart ==
  /\ pc = "restart" /\ ~expired
  /\ service' = "ok"
  /\ Goto(IF cfg.rule = Nil THEN "verify" ELSE "restarted")
  /\ UNCHANGED <<cfg, report, drop, wire, answer, effect, expired, burstVars>>

RestartFails ==
  /\ pc = "restart"
  /\ Fail(report)
  /\ UNCHANGED <<cfg, drop, burstVars>> /\ UNCHANGED world

ReadAfterRestart ==
  /\ pc = "restarted"
  /\ Reads(k)
  /\ report' = [report EXCEPT !.afterRestart[k] = Observed(k)]
  /\ Advance("restarted", "retry")
  /\ UNCHANGED <<cfg, drop, burstVars>> /\ UNCHANGED world

AfterRestartFails ==
  /\ pc = "restarted"
  /\ ReadFails(k)
  /\ Fail(report)
  /\ UNCHANGED <<cfg, drop, burstVars>> /\ UNCHANGED world

-----------------------------------------------------------------------------
(* The retry of lost-response and crash-after-ack. *)

SendRetry ==
  /\ pc = "retry"
  /\ Send(2)
  /\ Goto("retrying")
  /\ UNCHANGED <<cfg, report, drop, burstVars>>

OriginalBody ==
  IF cfg.scenario = "lost-response" THEN drop.body ELSE Captured(cfg.rule, answer[1].body)

RetryAnswered ==
  /\ pc = "retrying" /\ Replied(2)
  /\ LET status == answer[2].status
         body == Captured(cfg.rule, answer[2].body)
         r == Attempted(report, 2, status)
     IN  IF Conclusive(cfg.rule, OriginalBody, status)
           THEN /\ report' = [r EXCEPT !.retry = ResponseCheck(cfg.rule, OriginalBody, status, body)]
                /\ Goto("verify")
           ELSE Fail(r)
  /\ UNCHANGED <<cfg, drop, burstVars>> /\ UNCHANGED world

\* Mutant: a failed retry is recorded and the run goes on.
MutRetryFails ==
  /\ pc = "retrying" /\ SendFails(2)
  /\ report' = Attempted(report, 2, Failed) /\ Goto("verify")
  /\ UNCHANGED <<cfg, drop, burstVars>> /\ UNCHANGED world

RetryFails ==
  /\ pc = "retrying" /\ SendFails(2)
  /\ Fail(Attempted(report, 2, Failed))
  /\ UNCHANGED <<cfg, drop, burstVars>> /\ UNCHANGED world

-----------------------------------------------------------------------------
(* runKeyReuse: the same key with a changed body. *)

SendChanged ==
  /\ pc = "changed"
  /\ Send(2)
  /\ Goto("changing")
  /\ UNCHANGED <<cfg, report, drop, burstVars>>

ChangedAnswered ==
  /\ pc = "changing" /\ Replied(2)
  /\ LET status == answer[2].status
     IN  report' = [Attempted(report, 2, status) EXCEPT !.reuse =
                      [actual |-> status,
                       issues |-> IF status = cfg.reuse THEN {} ELSE {"status"}]]
  /\ Goto("verify")
  /\ UNCHANGED <<cfg, drop, burstVars>> /\ UNCHANGED world

ChangedFails ==
  /\ pc = "changing" /\ SendFails(2)
  /\ Fail(Attempted(report, 2, Failed))
  /\ UNCHANGED <<cfg, drop, burstVars>> /\ UNCHANGED world

-----------------------------------------------------------------------------
(* runConcurrent: the copies start together, Run waits for all of them.    *)
(* A worker's slot of results is published to the report by the join.      *)

Release ==
  /\ pc = "send" /\ cfg.scenario = "concurrent-duplicates"
  /\ group' = Workers
  /\ Goto("burst")
  /\ UNCHANGED <<cfg, report, drop, slots>> /\ UNCHANGED world

WorkerSends(w) ==
  /\ pc = "burst" /\ w \in group /\ wire[w] = "idle" /\ ~expired
  /\ Send(w)
  /\ UNCHANGED <<cfg, pc, k, report, drop, slots, group>>

\* The goroutine stores its attempt, then calls group.Done.
WorkerEnds(w, outcome) ==
  /\ pc = "burst" /\ w \in group
  /\ slots' = [slots EXCEPT ![w] = outcome]
  /\ group' = group \ {w}
  /\ UNCHANGED <<cfg, pc, k, report, drop>> /\ UNCHANGED world

WorkerAnswered(w) == Replied(w) /\ WorkerEnds(w, answer[w].status)
\* Mutant: a worker that fails leaves its slot of results empty.
MutWorkerFails(w) == SendFails(w) /\ WorkerEnds(w, 0)

WorkerFails(w) == SendFails(w) /\ WorkerEnds(w, Failed)

BurstIssues(rule, statuses) ==
  {code \in statuses : \/ rule.allowed # {} /\ code \notin rule.allowed
                       \/ rule.noServerErrors /\ code >= 500}

BurstResponses(rule, statuses) ==
  IF rule = Nil THEN Nil
  ELSE [rule |-> rule, issues |-> BurstIssues(rule, statuses)]

\* group.Wait returned. The fault counts as injected before errors are seen.
Join ==
  /\ pc = "burst" /\ group = {}
  /\ LET statuses == {slots[w] : w \in Workers}
         r == [report EXCEPT !.fault = TRUE,
                 !.attempts = [q \in Requests |-> IF q \in Workers THEN slots[q] ELSE Nil]]
     IN  IF Failed \in statuses
           THEN Fail(r)
           ELSE /\ report' = [r EXCEPT !.burst = BurstResponses(cfg.burst, statuses)]
                /\ Goto("verify")
  /\ UNCHANGED <<cfg, drop, slots, group>> /\ UNCHANGED world

-----------------------------------------------------------------------------
(* Run: the final observations, the verdict, and the deferred Stop. *)

ReadFinal ==
  /\ pc = "verify"
  /\ Reads(k)
  /\ LET r == [report EXCEPT !.checks[k] = Observed(k)]
     IN  IF k < NumObs
           THEN report' = r /\ pc' = "verify" /\ k' = k + 1
           ELSE Return(r, IF Mismatched(r) THEN "VIOLATION" ELSE "PASS")
  /\ UNCHANGED <<cfg, drop, burstVars>> /\ UNCHANGED world

\* Mutant: a final value that cannot be read is passed over.
MutFinalFails ==
  /\ pc = "verify"
  /\ ReadFails(k)
  /\ Return(report, IF Mismatched(report) THEN "VIOLATION" ELSE "PASS")
  /\ UNCHANGED <<cfg, drop, burstVars>> /\ UNCHANGED world

FinalFails ==
  /\ pc = "verify"
  /\ ReadFails(k)
  /\ Return(report, IF Mismatched(report) THEN "VIOLATION" ELSE "ERROR")
  /\ UNCHANGED <<cfg, drop, burstVars>> /\ UNCHANGED world

\* defer managed.Stop(); then the caller has the report.
StopService ==
  /\ pc = "stop"
  /\ pc' = "done"
  /\ service' = IF cfg.managed THEN "down" ELSE service
  /\ UNCHANGED <<cfg, k, report, drop, wire, answer, effect, expired, burstVars>>

-----------------------------------------------------------------------------
(* The environment: the service handles requests, degrades, time passes. *)

\* No reply body is looked at unless a rule for the retry says so.
BodiesRead == IF cfg.rule = Nil THEN {NotJSON} ELSE Bodies

\* The service handles a request: its effect first, then the reply, which
\* the connection may break off.
Handle(q) ==
  /\ wire[q] = "sent" /\ service \in {"ok", "sick"}
  /\ \E e \in Effects : effect' = [o \in Obs |-> effect[o] + e[o]]
  /\ \/ /\ \E status \in Statuses, body \in BodiesRead :
             answer' = [answer EXCEPT ![q] = [status |-> status, body |-> body]]
        /\ wire' = [wire EXCEPT ![q] = "replied"]
     \/ /\ wire' = [wire EXCEPT ![q] = "broken"]
        /\ UNCHANGED answer
  /\ UNCHANGED <<cfg, pc, k, report, drop, service, expired, burstVars>>

Degrade ==
  /\ service = "ok"
  /\ service' \in {"sick", "hung", "down"}
  /\ UNCHANGED <<cfg, pc, k, report, drop, wire, answer, effect, expired, burstVars>>

\* context.WithTimeout is created after validation.
Expire ==
  /\ ~expired /\ pc \notin {"begin", "stop", "done"}
  /\ expired' = TRUE
  /\ UNCHANGED <<cfg, pc, k, report, drop, wire, answer, effect, service, burstVars>>

Runner ==
  \/ Begin \/ Reject \/ StartService \/ StartFails \/ ReadBaseline \/ BaselineFails
  \/ SendOriginal \/ NoProxy \/ OriginalAnswered \/ OriginalFails
  \/ ProxyForwarded \/ ProxyFails \/ ClientLosesReply \/ ClientSeesProxyError
  \/ TakeResult \/ SelectTimeout
  \/ CrashKills \/ CrashFails \/ Restart \/ RestartFails
  \/ ReadAfterRestart \/ AfterRestartFails
  \/ SendRetry \/ RetryAnswered \/ RetryFails
  \/ SendChanged \/ ChangedAnswered \/ ChangedFails
  \/ Release \/ Join
  \/ (\E w \in Workers : WorkerSends(w) \/ WorkerAnswered(w) \/ WorkerFails(w))
  \/ ReadFinal \/ FinalFails \/ StopService

Environment == (\E q \in Requests : Handle(q)) \/ Degrade \/ Expire

\* The caller has the report and nothing runs any more.
Terminated == pc = "done" /\ UNCHANGED vars

Next == Runner \/ Environment \/ Terminated

Init ==
  /\ cfg \in Configs
  /\ pc = "begin" /\ k = 1
  /\ report = EmptyReport
  /\ drop = Nil
  /\ slots = [w \in Workers |-> 0] /\ group = {}
  /\ wire = [q \in Requests |-> "idle"]
  /\ answer = [q \in Requests |-> Nil]
  /\ effect = cfg.start
  /\ service = IF cfg.managed THEN "down" ELSE "ok"
  /\ expired = FALSE

Spec == Init /\ [][Next]_vars

\* The Go scheduler runs a runnable goroutine, and time passes; nothing is
\* assumed of the service.
FairSpec == Spec /\ WF_vars(Runner) /\ WF_vars(Expire)
-----------------------------------------------------------------------------
(* What a run promises. *)

TypeOK ==
  /\ cfg \in Configs
  /\ pc \in {"begin", "start", "baseline", "send", "original", "select", "crash",
              "restart", "restarted", "retry", "retrying", "changed", "changing",
              "burst", "verify", "stop", "done"}
  /\ k \in Obs
  /\ report \in Reports
  /\ slots \in [Workers -> Int \cup {Failed}]
  /\ group \subseteq Workers
  /\ drop \in Replies \cup {Nil, Failed}
  /\ wire \in [Requests -> {"idle", "sent", "replied", "broken"}]
  /\ answer \in [Requests -> Replies \cup {Nil}]
  /\ \A q \in Requests : wire[q] = "replied" => answer[q] \in Replies
  /\ effect \in [Obs -> Int]
  /\ service \in {"down", "ok", "sick", "hung"}
  /\ expired \in BOOLEAN

Returned == pc \in {"stop", "done"}

\* The baseline of an observation was read; its final value; its value
\* between the restart and the retry.
Measured(o) == report.checks[o] # Nil
HasFinal(o) == Measured(o) /\ report.checks[o].observed # Nil
HasRestart(o) == report.afterRestart[o] # Nil

RetryDeclared == cfg.scenario = "lost-response" \/ cfg.rule # Nil
RestartDeclared == cfg.scenario = "crash-after-ack" /\ cfg.rule # Nil

\* Everything the scenario declares was done and read.
Complete ==
  /\ \A o \in Obs : HasFinal(o)
  /\ RestartDeclared => \A o \in Obs : HasRestart(o)
  /\ RetryDeclared => report.retry # Nil
  /\ cfg.burst # Nil => report.burst # Nil
  /\ IF cfg.scenario = "key-reuse" THEN report.reuse # Nil ELSE report.fault

\* The same as a set of pieces of evidence that a PASS still needs.
Owed(needed, kind) == IF needed THEN {kind} ELSE {}
Outstanding ==
  {<<"final", o>> : o \in {x \in Obs : ~HasFinal(x)}}
  \cup {<<"restart", o>> : o \in {x \in Obs : RestartDeclared /\ ~HasRestart(x)}}
  \cup Owed(RetryDeclared /\ report.retry = Nil, <<"retry", 0>>)
  \cup Owed(cfg.burst # Nil /\ report.burst = Nil, <<"burst", 0>>)
  \cup Owed(cfg.scenario = "key-reuse" /\ report.reuse = Nil, <<"reuse", 0>>)
  \cup Owed(cfg.scenario # "key-reuse" /\ ~report.fault, <<"fault", 0>>)

\* What Run has put into the report when it is at a given point. A baseline
\* is read in order and never lost, a final value appears only in the last
\* loop, the comparison of a reply only after the reply, and the last loop
\* is entered only with everything else the scenario declares in hand.
EvidenceInOrder ==
  /\ pc = "baseline" => \A o \in Obs : o < k => Measured(o)
  /\ pc \notin {"begin", "start", "baseline", "stop", "done"} => \A o \in Obs : Measured(o)
  /\ pc \notin {"verify", "stop", "done"} =>
       /\ \A o \in Obs : ~HasFinal(o)
       /\ report.retry = Nil /\ report.burst = Nil /\ report.reuse = Nil
  /\ pc \in {"begin", "start", "baseline", "send", "original", "crash", "restart"} =>
       \A o \in Obs : ~HasRestart(o)
  /\ pc = "restarted" => \A o \in Obs : HasRestart(o) <=> o < k
  /\ pc \in {"retry", "retrying", "verify"} /\ RestartDeclared => \A o \in Obs : HasRestart(o)
  /\ pc \in {"crash", "restart", "restarted"} => cfg.scenario = "crash-after-ack"
  /\ pc \in {"retry", "retrying"} => cfg.scenario \in {"lost-response", "crash-after-ack"}
  /\ pc \in {"restarted", "retry", "retrying"} => RetryDeclared
  /\ pc \in {"changed", "changing"} => cfg.scenario = "key-reuse"
  /\ pc = "original" => cfg.scenario # "concurrent-duplicates"
  /\ pc = "burst" => cfg.scenario = "concurrent-duplicates"
  /\ pc = "select" => cfg.scenario = "lost-response"
  /\ pc \in {"restart", "restarted", "retry", "retrying"} => report.fault
  /\ pc = "verify" =>
       /\ \A o \in Obs : HasFinal(o) <=> o < k
       /\ RetryDeclared => report.retry # Nil
       /\ cfg.burst # Nil => report.burst # Nil
       /\ IF cfg.scenario = "key-reuse" THEN report.reuse # Nil ELSE report.fault

Acknowledged == Replied(1) /\ Success(answer[1].status)
Sequential == cfg.scenario # "concurrent-duplicates"
Quiet == \A q \in Requests : wire[q] # "sent"

\* What the service has been asked when Run is at a given point. Nothing
\* leaves while the baselines are read; a second request leaves only behind
\* an acknowledged first one; and when the final values are read every
\* request has been answered, so that they are the values that stay.
WritesInOrder ==
  /\ pc \in {"begin", "start", "baseline", "send"} =>
       effect = cfg.start /\ \A q \in Requests : wire[q] = "idle"
  /\ \A o \in Obs : Measured(o) =>
       /\ report.checks[o].baseline = cfg.start[o]
       /\ report.checks[o].expected = cfg.start[o] + Delta[o]
  /\ drop \notin {Nil, Failed} => Replied(1) /\ drop.status = answer[1].status
  /\ Sequential => \A q \in Requests \ {1, 2} : wire[q] = "idle"
  /\ Sequential /\ pc \in {"original", "select", "crash", "restart", "restarted", "retry", "changed"}
       => wire[2] = "idle"
  /\ pc \in {"crash", "restart", "restarted", "retry", "retrying", "changed", "changing"}
       => Acknowledged
  /\ pc = "burst" => \A w \in Workers \ group : slots[w] # Failed => Replied(w)
  /\ pc = "verify" =>
       /\ Quiet
       /\ \A o \in Obs : HasFinal(o) => report.checks[o].observed = effect[o]

\* PASS exactly when every declared check was made and held, VIOLATION
\* exactly when one recorded check failed, ERROR for everything between:
\* whatever was lost, timed out or crashed on the way (engine.Run).
VerdictSound ==
  Returned => report.status = IF Mismatched(report) THEN "VIOLATION"
                              ELSE IF Complete THEN "PASS" ELSE "ERROR"

\* A PASS is true of the service, not only of the report: the values it
\* exposes are the declared ones and no request can still change them,
\* because Run waited for every reply before it read the final state.
PassMatchesService ==
  Returned /\ report.status = "PASS" =>
    Quiet /\ \A o \in Obs : effect[o] = cfg.start[o] + Delta[o]

\* No write leaves before every baseline is read, so a baseline is the
\* value before the experiment and the expectation never wraps around.
BaselineBeforeWrites ==
  (\E q \in Requests : wire[q] # "idle") =>
    \A o \in Obs : /\ Measured(o)
                    /\ report.checks[o].baseline = cfg.start[o]
                    /\ report.checks[o].expected = cfg.start[o] + Delta[o]

\* A retry or a changed request leaves only after the service acknowledged
\* the original with a 2xx; after a crash only when every value was read.
RetryFollowsAck ==
  Sequential /\ wire[2] # "idle" =>
    /\ Acknowledged
    /\ cfg.scenario = "crash-after-ack" => \A o \in Obs : HasRestart(o)

\* fault_injected of a lost response: the service said 2xx, the client saw
\* an error. Of a crash: the service had said 2xx.
FaultNeedsAck ==
  report.fault /\ cfg.scenario \in {"lost-response", "crash-after-ack"} =>
    /\ Acknowledged
    /\ cfg.scenario = "lost-response" => report.attempts[1] = Failed

\* After a PASS with declared pointers the two replies the service really
\* sent agree on them; with compare_ids a 2xx retry repeats every id of an
\* original that has no more of them than the code picks.
PassMeansSameReply ==
  Returned /\ report.status = "PASS" /\ cfg.rule # Nil =>
    \A p \in Pointers :
      \/ p \in cfg.rule.same
      \/ /\ cfg.rule.ids /\ cfg.rule.same = {} /\ Success(answer[2].status)
         /\ Cardinality(IDFields(answer[1].body)) <= MaxIDs
         /\ p \in IDFields(answer[1].body)
      => answer[2].body # NotJSON /\ answer[2].body[p] = answer[1].body[p]

\* Run returns: the deadline ends every wait, even on a hung service.
RunReturns == <>(pc = "done")

\* The abstract verdict this module implements.
V == INSTANCE Verdict WITH
       Evidence <- {"final", "restart", "fault", "retry", "burst", "reuse"} \X (0 .. NumObs),
       open <- Outstanding,
       failed <- Mismatched(report),
       verdict <- IF Returned THEN report.status ELSE "none"

Promise == V!Spec

\* A lost response: whether the service was asked, what it said, what the
\* client heard and what Run made of it. The other scenarios lose nothing.
Losing == cfg.scenario = "lost-response"
Asked == IF Losing /\ wire[1] # "idle" THEN 1 ELSE 0
Said == IF Losing /\ Replied(1) THEN answer[1].status ELSE Nil
Heard == IF Losing THEN report.attempts[1] ELSE Nil
Told == [client \in {1} |-> Heard]
Loss == IF Losing /\ report.fault THEN "injected"
        ELSE IF Losing /\ Returned THEN "failed" ELSE "none"

LR == INSTANCE LostReply WITH
        Clients <- {1}, Own <- 1, Notices <- ProxyStatuses, Lost <- Failed,
        asked <- Asked, answer <- Said, heard <- Told, verdict <- Loss

\* With everything that runs around the proxy, up to the retry and the final
\* values, a lost response still means what the proxy alone promises: asked
\* once, never answered, and a fault only behind an acknowledgement and a
\* client that heard nothing, which neither the deadline nor a later step
\* of the run takes back.
LosesOneReply == LR!Spec
=============================================================================
