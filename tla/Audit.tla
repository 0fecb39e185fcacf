------------------------------- MODULE Audit -------------------------------
(***************************************************************************)
(* The audit and run commands: every file is checked before anything runs, *)
(* the experiments run one after another, their verdicts are summed up per *)
(* step, per endpoint and over all endpoints, the report files are         *)
(* written and the process exits. An experiment is its verdict here.       *)
(***************************************************************************)
EXTENDS Plan

CONSTANT Calls   \* what the commands are called with, see AuditAssumption

\* times is --bursts of an audit and --repeat of a run, outputs the report
\* files asked for, verdicts what an experiment may end with, and writable
\* whether every report can be written.
ASSUME AuditAssumption ==
  \A c \in Calls :
    /\ c \in [command  : {"audit", "run"},
              files    : Seq(Settings),
              times    : 1 .. 100,
              outputs  : SUBSET {"json", "junit", "html", "badge", "markdown"},
              verdicts : SUBSET {"PASS", "VIOLATION", "ERROR"},
              writable : BOOLEAN]
    /\ IF c.command = "run" THEN Len(c.files) = 1 ELSE Len(c.files) > 0

\* writeReports and its callers go through the files in this order.
InOrder == <<"json", "junit", "html", "badge", "markdown">>

VARIABLES
  call,      \* the command with its files and flags
  pc,        \* check, run, write, done
  plans,     \* the steps of each checked file
  audits,    \* the results of each finished file
  results,   \* the results of the file being audited
  runs,      \* the verdicts of the step being run
  written,   \* how many entries of InOrder are dealt with
  exit       \* the exit code, Nil before

vars == <<call, pc, plans, audits, results, runs, written, exit>>

command == call.command
files == call.files   \* the scenario files

-----------------------------------------------------------------------------
(* Summing up. *)

Count(verdicts, v) == Cardinality({i \in 1 .. Len(verdicts) : verdicts[i] = v})

\* Mutant: an error hides a violation.
MutWorst(violations, errors) ==
  IF errors > 0 THEN "ERROR" ELSE IF violations > 0 THEN "VIOLATION" ELSE "PASS"

Worst(violations, errors) ==
  IF violations > 0 THEN "VIOLATION" ELSE IF errors > 0 THEN "ERROR" ELSE "PASS"

StatusOf(verdicts) == Worst(Count(verdicts, "VIOLATION"), Count(verdicts, "ERROR"))

Result(verdicts) == [status |-> StatusOf(verdicts), runs |-> verdicts]
Skipped == [status |-> "SKIPPED", runs |-> <<>>]

WithStatus(rs, s) == Cardinality({i \in 1 .. Len(rs) : rs[i].status = s})

\* Report of one endpoint.
Summary(rs) ==
  [status     |-> Worst(WithStatus(rs, "VIOLATION"), WithStatus(rs, "ERROR")),
   held       |-> WithStatus(rs, "PASS"),
   violations |-> WithStatus(rs, "VIOLATION"),
   errors     |-> WithStatus(rs, "ERROR"),
   skipped    |-> WithStatus(rs, "SKIPPED")]

Total(f, n) ==
  LET sum[i \in Nat] == IF i = 0 THEN 0 ELSE f[i] + sum[i - 1]
  IN  sum[n]

Over(as, field) == Total([i \in 1 .. Len(as) |-> Summary(as[i])[field]], Len(as))

Combine(as) ==
  [status     |-> Worst(Over(as, "violations"), Over(as, "errors")),
   held       |-> Over(as, "held"),
   violations |-> Over(as, "violations"),
   errors     |-> Over(as, "errors"),
   skipped    |-> Over(as, "skipped")]

\* Mutant: the explanation is that of the first run.
MutFirst(result) == result.runs[1]

\* first: the run that is explained for a result.
First(result) ==
  LET is(v) == {i \in 1 .. Len(result.runs) : result.runs[i] = v}
      earliest(s) == result.runs[CHOOSE i \in s : \A j \in s : i <= j]
  IN  IF is("VIOLATION") # {} THEN earliest(is("VIOLATION"))
      ELSE IF is("ERROR") # {} THEN earliest(is("ERROR"))
      ELSE result.runs[1]

\* The verdict the exit code stands for: summarize of a run, Combine of an
\* audit.
Overall ==
  IF command = "run" THEN StatusOf(audits[1][1].runs) ELSE Combine(audits).status

\* JUnit: one case per run, one for a skipped step.
CasesOf(result) == IF result.status = "SKIPPED" THEN <<"SKIPPED">> ELSE result.runs

\* Mutant: a step is one case.
MutCases(as, v) ==
  Total([i \in 1 .. Len(as) |-> WithStatus(as[i], v)], Len(as))

Cases(as, v) ==
  Total([i \in 1 .. Len(as) |->
           Total([j \in 1 .. Len(as[i]) |-> Count(CasesOf(as[i][j]), v)], Len(as[i]))],
        Len(as))

JUnit(as) == [failures |-> Cases(as, "VIOLATION"), errors |-> Cases(as, "ERROR"),
              skipped |-> Cases(as, "SKIPPED")]

-----------------------------------------------------------------------------
Stop(code) == pc' = "done" /\ exit' = code

\* Parse or, for run, Load fails.
CannotRead ==
  /\ pc = "check"
  /\ Stop(2)
  /\ UNCHANGED <<call, plans, audits, results, runs, written>>

Steps(base) ==
  IF command = "audit" THEN Plan(base, call.times)
  ELSE <<[config |-> base, runs |-> call.times, skip |-> FALSE]>>

\* audit fills in the scenario; run takes the file as it is.
Acceptable(base) == IF command = "audit" THEN Runnable(Steps(base)) ELSE Validate(base)

CheckFile ==
  /\ pc = "check"
  /\ LET base == files[Len(plans) + 1]
     IN  IF Acceptable(base)
           THEN /\ plans' = Append(plans, Steps(base))
                /\ pc' = IF Len(plans') = Len(files) THEN "run" ELSE "check"
                /\ UNCHANGED exit
           ELSE Stop(2) /\ UNCHANGED plans
  /\ UNCHANGED <<call, audits, results, runs, written>>

CurrentPlan == plans[Len(audits) + 1]
CurrentStep == CurrentPlan[Len(results) + 1]
Running == pc = "run" /\ Len(results) < Len(CurrentPlan)

SkipStep ==
  /\ Running /\ CurrentStep.skip
  /\ results' = Append(results, Skipped)
  /\ UNCHANGED <<call, pc, plans, audits, runs, written, exit>>

\* engine.Run once more.
RunOnce ==
  /\ Running /\ ~CurrentStep.skip /\ Len(runs) < CurrentStep.runs
  /\ \E v \in call.verdicts : runs' = Append(runs, v)
  /\ UNCHANGED <<call, pc, plans, audits, results, written, exit>>

FinishStep ==
  /\ Running /\ ~CurrentStep.skip /\ Len(runs) = CurrentStep.runs
  /\ results' = Append(results, Result(runs))
  /\ runs' = <<>>
  /\ UNCHANGED <<call, pc, plans, audits, written, exit>>

FinishAudit ==
  /\ pc = "run" /\ Len(results) = Len(CurrentPlan)
  /\ audits' = Append(audits, results)
  /\ results' = <<>>
  /\ pc' = IF Len(audits') = Len(plans) THEN "write" ELSE "run"
  /\ UNCHANGED <<call, plans, runs, written, exit>>

WriteNext ==
  /\ pc = "write" /\ written < Len(InOrder)
  /\ written' = written + 1
  /\ UNCHANGED <<call, pc, plans, audits, results, runs, exit>>

\* A file that was asked for cannot be created, rendered or closed.
WriteFails ==
  /\ pc = "write" /\ written < Len(InOrder) /\ ~call.writable
  /\ InOrder[written + 1] \in call.outputs
  /\ Stop(2)
  /\ UNCHANGED <<call, plans, audits, results, runs, written>>

ExitCode ==
  /\ pc = "write" /\ written = Len(InOrder)
  /\ Stop(CASE Overall = "PASS" -> 0 [] Overall = "VIOLATION" -> 1 [] OTHER -> 2)
  /\ UNCHANGED <<call, plans, audits, results, runs, written>>

Exited == pc = "done" /\ UNCHANGED vars

Next ==
  \/ CannotRead \/ CheckFile
  \/ SkipStep \/ RunOnce \/ FinishStep \/ FinishAudit
  \/ WriteNext \/ WriteFails \/ ExitCode \/ Exited

Init ==
  /\ call \in Calls
  /\ pc = "check"
  /\ plans = <<>> /\ audits = <<>> /\ results = <<>> /\ runs = <<>>
  /\ written = 0 /\ exit = Nil

Spec == Init /\ [][Next]_vars

-----------------------------------------------------------------------------
AllRuns ==
  UNION {UNION {{audits[a][s].runs[i] : i \in 1 .. Len(audits[a][s].runs)} :
                  s \in 1 .. Len(audits[a])} :
           a \in 1 .. Len(audits)}
Endpoints == 1 .. Len(files)

\* The exit code is the worst single run: 0 only if every experiment held
\* and every report was written, 1 only if one found a violation, and a
\* violation is never turned into 0.
ExitIsVerdict ==
  /\ exit = 0 => AllRuns = {"PASS"} /\ written = Len(InOrder)
  /\ exit = 1 => "VIOLATION" \in AllRuns
  /\ exit = 2 => "VIOLATION" \notin AllRuns \/ written < Len(InOrder)

\* Skipped steps do not make a success: exit 0 means that each endpoint
\* passed at least one experiment.
SuccessIsEarned ==
  exit = 0 => \A e \in Endpoints : \E s \in 1 .. Len(audits[e]) : audits[e][s].status = "PASS"

\* The file reports and the exit code tell the same story: JUnit counts a
\* failure exactly when the verdict is VIOLATION; without a failure it counts
\* an error exactly when the verdict is ERROR (beside a failure it may count
\* errors as well); every step that ran is held, a violation or an error; and
\* the failures are the single runs that ended in VIOLATION.
ReportsAgree ==
  pc = "write" =>
    /\ JUnit(audits).failures > 0 <=> Overall = "VIOLATION"
    /\ JUnit(audits).failures = 0 => (JUnit(audits).errors > 0 <=> Overall = "ERROR")
    /\ Cardinality({p \in (1 .. Len(audits)) \X (1 .. 4) :
                      p[2] <= Len(audits[p[1]]) /\ audits[p[1]][p[2]].status # "SKIPPED"})
         = Combine(audits).held + Combine(audits).violations + Combine(audits).errors
    /\ JUnit(audits).failures = Total([a \in 1 .. Len(audits) |->
         Total([s \in 1 .. Len(audits[a]) |-> Count(audits[a][s].runs, "VIOLATION")],
               Len(audits[a]))], Len(audits))

\* The run that is explained has the verdict of the step it explains.
DiagnosisFits ==
  \A s \in 1 .. Len(results) :
    results[s].status # "SKIPPED" => First(results[s]) = results[s].status

\* A file that is valid for its own scenario is never refused by audit, its
\* own scenario is never skipped there, and no setting of that scenario makes
\* a derived one invalid: a lost response and a burst are always run, a crash
\* whenever the service is managed.
OwnScenarioRuns ==
  command = "audit" =>
    \A e \in Endpoints : Validate(files[e]) =>
      /\ Acceptable(files[e])
      /\ \E i \in 1 .. 4 : /\ Steps(files[e])[i].config.scenario = files[e].scenario
                           /\ ~Steps(files[e])[i].skip
      /\ ~Steps(files[e])[1].skip /\ ~Steps(files[e])[2].skip
      /\ files[e].managed => ~Steps(files[e])[4].skip

\* What a comparison of two replies does to the verdict.
Judged(rule, original, status, body) ==
  LET r == AsRead(rule)
      o == Captured(r, original)
  IN  CASE ~Conclusive(r, o, status) -> "ERROR"
        [] Conclusive(r, o, status) /\ RetryIssues(r, o, status, Captured(r, body)) # {} -> "VIOLATION"
        [] OTHER -> "PASS"

\* A rule is as strict as a file's own one, whatever the two replies are: what
\* the own rule calls a violation is one, what it can compare stays comparable,
\* and a retry that passes repeats the values the file names, or, if it names
\* none and the retry succeeds, every id that is picked from the original.
AsStrict(rule, own) ==
  \A original, body \in Bodies, status \in Statuses :
    LET here  == Judged(rule, original, status, body)
        there == Judged(own, original, status, body)
        named == IF own = Nil THEN {} ELSE Range(own.same)
        repeated(pointers) ==
          \A p \in pointers : original # NotJSON /\ body # NotJSON /\ body[p] = original[p]
    IN  /\ there = "VIOLATION" => here = "VIOLATION"
        /\ here = "ERROR" => there = "ERROR"
        /\ here = "PASS" => /\ repeated(named)
                            /\ named = {} /\ Success(status) => repeated(IDPointers(original))

\* Whenever an audit plans a file, each retry that will run is judged at least
\* as strictly as the file asks for, and "must return the same IDs as the lost
\* reply" (README.md:63) unless the file names other values to compare.
RetriesAreStrict ==
  [][\A a \in (Len(plans) + 1) .. Len(plans') : \A i \in 1 .. Len(plans'[a]) :
       LET step == plans'[a][i]
       IN  command = "audit" /\ step.config.scenario \in Retried /\ ~step.skip =>
             AsStrict(step.config.rule, files[a].rule)]_plans

\* ChangeBody "makes the smallest real change" and the validator rejects
\* bodies that differ only in formatting: a key-reuse scenario that is run
\* sends another value under the key.
ReuseChangesValue ==
  \A a \in 1 .. Len(plans) : \A i \in 1 .. Len(plans[a]) :
    LET step == plans[a][i]
    IN  step.config.scenario = "key-reuse" /\ ~step.skip =>
          step.config.changed.value # step.config.body.value
=============================================================================
