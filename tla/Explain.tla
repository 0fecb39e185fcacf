------------------------------- MODULE Explain -------------------------------
(***************************************************************************)
(* internal/explain: which sentence a finished report is summarised by.    *)
(* Wording is abstracted to a name per sentence; what each sentence claims *)
(* is stated by the properties below, against what the experiment did.     *)
(* The sentences for an inconclusive run, which depend on the text of the  *)
(* error only, are one name here.                                          *)
(***************************************************************************)
EXTENDS Experiment

\* missed: the first check, in scenario order, that did not hold.
FirstMiss(checks) == CHOOSE o \in Misses(checks) : \A x \in Misses(checks) : o <= x

Missed(checks) == Misses(checks) # {}
Over(checks) == LET c == checks[FirstMiss(checks)] IN c.observed > c.expected

\* unchanged: the first miss did not move from its baseline.
Unmoved(checks) ==
  Missed(checks) /\ LET c == checks[FirstMiss(checks)] IN c.observed = c.baseline

Fallback == "a declared check failed"

\* Mutant: no sentence for a reply that differs only in its values.
MutRetryReply(r) ==
  IF HasIssues(r.retry) /\ "status" \in r.retry.issues
    THEN "once, but the retry got another status" ELSE Fallback

RetryReply(r) ==
  IF ~HasIssues(r.retry) THEN Fallback
  ELSE IF "status" \in r.retry.issues THEN "once, but the retry got another status"
  ELSE "once, but the retry got a different reply"

LostResponse(r) ==
  IF Unmoved(r.checks) THEN "answered 2xx, nothing changed"
  ELSE IF ~Missed(r.checks) THEN RetryReply(r)
  ELSE IF Over(r.checks) THEN "the retry ran it again"
  ELSE "fewer effects after the retry"

Concurrent(r) ==
  IF Unmoved(r.checks) THEN "answered 2xx, nothing changed"
  ELSE IF Missed(r.checks)
    THEN IF Over(r.checks) THEN "copies arrived together" ELSE "overlapping copies, fewer effects"
  ELSE IF ~HasIssues(r.burst) THEN Fallback
  ELSE IF r.burst.rule.noServerErrors /\ r.burst.rule.allowed = {}
    THEN "once, but copies got a server error"
  ELSE "once, but copies got another status"

\* Mutant: the final values are blamed on the crash.
MutCrash(r) ==
  IF Missed(r.checks) /\ ~Over(r.checks) THEN "acknowledged, then lost" ELSE RetryReply(r)

Crash(r) ==
  IF Missed(r.afterRestart) /\ ~Over(r.afterRestart) THEN "acknowledged, then lost"
  ELSE IF ~Missed(r.checks) THEN RetryReply(r)
  ELSE IF Over(r.checks) THEN "survived, the retry ran it again"
  ELSE IF r.afterRestart = NoChecks THEN "acknowledged, then lost"
  ELSE "fewer effects after the crash"

KeyReuse(r) ==
  IF Unmoved(r.checks) THEN "answered 2xx, nothing changed"
  ELSE IF Missed(r.checks) /\ Over(r.checks) THEN "the changed request wrote too"
  ELSE IF ~HasIssues(r.reuse)
    THEN IF Missed(r.checks) THEN "fewer effects after the changed request" ELSE Fallback
  ELSE IF Success(r.reuse.actual) THEN "replayed, nothing new written"
  ELSE "rejected with another status, nothing extra written"

Summary(r) ==
  CASE r.status = "PASS" -> "held"
    [] r.status = "ERROR" -> "no verdict"
    [] r.status = "VIOLATION" /\ cfg.scenario = "lost-response" -> LostResponse(r)
    [] r.status = "VIOLATION" /\ cfg.scenario = "concurrent-duplicates" -> Concurrent(r)
    [] r.status = "VIOLATION" /\ cfg.scenario = "crash-after-ack" -> Crash(r)
    [] r.status = "VIOLATION" /\ cfg.scenario = "key-reuse" -> KeyReuse(r)

-----------------------------------------------------------------------------
Says(sentences) == Returned /\ Summary(report) \in sentences

\* Whatever way a run other than a crash reaches VIOLATION, also when its
\* final reads stay incomplete, explain names what failed (explain.go).
ViolationIsExplained ==
  cfg.scenario # "crash-after-ack" => ~Says({Fallback})

\* "RecoveryLab checked before retrying": a loss blamed on the crash was
\* seen after a kill that followed a 2xx, and before any retry was sent or
\* without one.
LossIsTheCrash ==
  Says({"acknowledged, then lost"}) =>
    /\ report.fault /\ Success(answer[1].status)
    /\ Missed(report.afterRestart) \/ wire[2] = "idle"

\* A duplicate blamed on the retry or on the changed request: the first
\* request was acknowledged and the second one was answered too.
RepeatWasAnswered ==
  Says({"the retry ran it again", "the changed request wrote too"}) =>
    /\ wire[1] = "replied" /\ Success(answer[1].status)
    /\ wire[2] = "replied"

\* The sentences "The write happened once, ..." and "... nothing new was
\* written": every final value was read and is the expected one.
OnceIsObserved ==
  Says({"once, but the retry got another status", "once, but the retry got a different reply",
        "once, but copies got a server error", "once, but copies got another status",
        "replayed, nothing new written"}) =>
    \A o \in Obs : report.checks[o].observed = report.checks[o].expected

\* The sentence "The service answered 2xx, but ...": some reply was a 2xx.
TwoHundredIsObserved ==
  Says({"answered 2xx, nothing changed"}) =>
    \E q \in Requests : wire[q] = "replied" /\ Success(answer[q].status)

\* The sentence "... but retrying after restart ran it again": a retry was
\* attempted.
RerunHadRetry ==
  Says({"survived, the retry ran it again"}) => report.attempts[2] # Nil

\* The sentence "The write survived the crash, ...": no value read after
\* the restart was below its expectation.
SurvivalIsObserved ==
  Says({"survived, the retry ran it again"}) =>
    \A o \in Misses(report.afterRestart) :
      report.afterRestart[o].observed > report.afterRestart[o].expected

\* The package comment of explain: every sentence is backed by something
\* RecoveryLab actually observed.
SentencesAreObserved ==
  OnceIsObserved /\ TwoHundredIsObserved /\ RerunHadRetry /\ SurvivalIsObserved
=============================================================================
