---------------------------- MODULE Audit_proofs ----------------------------
(***************************************************************************)
(* Theorems about Audit and Plan.                                          *)
(***************************************************************************)
EXTENDS Audit, TLAPS, WellFoundedInduction, FunctionTheorems, FiniteSetTheorems

(* Induction over the natural numbers, in terms of sets: what holds of 0   *)
(* and is passed on holds of all.                                          *)

\* A set of natural numbers that is not empty has a least element.
LEMMA LeastElement ==
  ASSUME NEW T \in SUBSET Nat, T # {}
  PROVE  \E x \in T : \A y \in T : x <= y
<1> DEFINE R == OpToRel(<, Nat)
<1>1. IsWellFoundedOn(R, Nat)
  BY NatLessThanWellFounded
<1>2. ASSUME NEW x \in T, NEW y \in T, ~(<<y, x>> \in R)
      PROVE  x <= y
  <2>1. ~(y < x)
    BY <1>2 DEF OpToRel
  <2> QED
    BY <2>1
<1> HIDE DEF R
<1>3. \E x \in T : \A y \in T : ~(<<y, x>> \in R)
  BY <1>1, WFMin
<1> QED
  BY <1>2, <1>3

\* A set with 0 and the successor of each of its numbers has all of them.
LEMMA SetInduction ==
  ASSUME NEW T, 0 \in T, \A n \in Nat : n \in T => n + 1 \in T
  PROVE  Nat \subseteq T
<1> SUFFICES ASSUME ~(Nat \subseteq T) PROVE FALSE
  OBVIOUS
<1>1. PICK x \in Nat \ T : \A y \in Nat \ T : x <= y
  BY LeastElement
<1> QED
  BY <1>1

-----------------------------------------------------------------------------
(* Sums. *)

\* The recursive function in Total exists, hence unfolds as it is written:
\* f[1] + ... + f[n].
LEMMA TotalUnfolds ==
  ASSUME NEW f
  PROVE  Total(f, 0) = 0 /\ \A n \in Nat \ {0} : Total(f, n) = f[n] + Total(f, n - 1)
<1> DEFINE step(g, i) == IF i = 0 THEN 0 ELSE f[i] + g[i - 1]
           part(g, n) == g = [i \in 0 .. n |-> step(g, i)]
           E == {n \in Nat : \E g : part(g, n)}
           sum == CHOOSE g : g = [i \in Nat |-> step(g, i)]
<1>1. ASSUME NEW g, NEW n \in Nat, part(g, n)
      PROVE  /\ DOMAIN g = 0 .. n /\ g[0] = 0
             /\ \A i \in 1 .. n : g[i] = f[i] + g[i - 1]
  <2>1. g = [i \in 0 .. n |-> step(g, i)]
    BY <1>1
  <2>2. \A i \in 0 .. n : g[i] = step(g, i)
    BY <2>1
  <2>3. DOMAIN g = 0 .. n
    BY <2>1
  <2> QED
    BY <2>2, <2>3
<1>2. ASSUME NEW g, NEW h, NEW m \in Nat, NEW n \in Nat, part(g, m), part(h, n)
      PROVE  \A i \in Nat : i <= m /\ i <= n => g[i] = h[i]
  <2> DEFINE T == {i \in Nat : i <= m /\ i <= n => g[i] = h[i]}
  <2>1. 0 \in T
    BY <1>1, <1>2
  <2>2. ASSUME NEW i \in Nat, i \in T
        PROVE  i + 1 \in T
    <3> SUFFICES ASSUME i + 1 <= m, i + 1 <= n PROVE g[i + 1] = h[i + 1]
      OBVIOUS
    <3>1. g[i] = h[i]
      BY <2>2
    <3>2. g[i + 1] = f[i + 1] + g[(i + 1) - 1] /\ h[i + 1] = f[i + 1] + h[(i + 1) - 1]
      BY <1>1, <1>2
    <3>3. (i + 1) - 1 = i
      OBVIOUS
    <3> QED
      BY <3>1, <3>2, <3>3
  <2>3. Nat \subseteq T
    <3> HIDE DEF T
    <3> QED
      BY <2>1, <2>2, SetInduction
  <2> QED
    BY <2>3
<1>3. Nat \subseteq E
  <2>1. 0 \in E
    <3> DEFINE g == [i \in 0 .. 0 |-> 0]
    <3>1. part(g, 0)
      OBVIOUS
    <3> QED
      BY <3>1
  <2>2. ASSUME NEW n \in Nat, n \in E
        PROVE  n + 1 \in E
    <3>1. PICK g : part(g, n)
      BY <2>2
    <3> DEFINE h == [i \in 0 .. n + 1 |-> step(g, i)]
    <3>2. \A i \in 0 .. n : h[i] = g[i]
      <4>1. \A i \in 0 .. n : g[i] = step(g, i)
        BY <3>1
      <4> QED
        BY <4>1
    <3>3. \A i \in 0 .. n + 1 : step(h, i) = step(g, i)
      <4> HIDE DEF h
      <4>1. \A i \in 0 .. n + 1 : i = 0 \/ i - 1 \in 0 .. n
        OBVIOUS
      <4> QED
        BY <3>2, <4>1
    <3>4. part(h, n + 1)
      BY <3>3
    <3>5. \E x : part(x, n + 1)
      <4> HIDE DEF part
      <4> QED
        BY <3>4
    <3> QED
      BY <3>5
  <2> HIDE DEF E
  <2> QED
    BY <2>1, <2>2, SetInduction
<1>4. \E g : g = [i \in Nat |-> step(g, i)]
  <2> DEFINE some(n) == CHOOSE g : part(g, n)
             g == [n \in Nat |-> some(n)[n]]
  <2>1. \A n \in Nat : part(some(n), n)
    BY <1>3
  <2> HIDE DEF some
  <2>2. \A n \in Nat : g[n] = step(g, n)
    <3> SUFFICES ASSUME NEW n \in Nat PROVE g[n] = step(g, n)
      OBVIOUS
    <3>1. CASE n = 0
      BY <1>1, <2>1, <3>1
    <3>2. CASE n # 0
      <4>1. n - 1 \in Nat /\ part(some(n), n) /\ part(some(n - 1), n - 1)
        BY <2>1, <3>2
      <4>2. some(n)[n] = f[n] + some(n)[n - 1]
        BY <1>1, <3>2, <4>1
      <4>3. some(n)[n - 1] = some(n - 1)[n - 1]
        <5> HIDE DEF part
        <5> QED
          BY <1>2, <4>1
      <4> QED
        BY <3>2, <4>1, <4>2, <4>3
    <3> QED
      BY <3>1, <3>2
  <2>3. g = [i \in Nat |-> step(g, i)]
    BY <2>2
  <2> QED
    BY <2>3
<1>5. sum = [i \in Nat |-> step(sum, i)]
  BY <1>4
<1>6. \A n : Total(f, n) = sum[n]
  BY DEF Total
<1>7. \A n \in Nat : sum[n] = step(sum, n)
  <2> HIDE DEF sum
  <2> QED
    BY <1>5
<1> HIDE DEF sum
<1> QED
  BY <1>6, <1>7

-----------------------------------------------------------------------------
(* The inductive invariant. *)

Verdicts == {"PASS", "VIOLATION", "ERROR"}
StepResults == [status : Verdicts \cup {"SKIPPED"}, runs : Seq(Verdicts)]

\* What may be reported of a step: that it was skipped, or the summary of as
\* many verdicts as it was to have runs.
Outcome(step, r) ==
  IF step.skip THEN r = Skipped
  ELSE /\ r.runs \in Seq(call.verdicts)
       /\ Len(r.runs) = step.runs
       /\ r = Result(r.runs)

\* The results of a prefix of a plan.
Outcomes(steps, rs) ==
  /\ Len(rs) <= Len(steps)
  /\ \A s \in 1 .. Len(rs) : Outcome(steps[s], rs[s])

Finished(steps, rs) == Outcomes(steps, rs) /\ Len(rs) = Len(steps)

\* The plans are those of the files, in order, and each has something to run.
PlansAreChecked ==
  /\ Len(plans) <= Len(files)
  /\ \A a \in 1 .. Len(plans) : plans[a] = Steps(files[a]) /\ Acceptable(files[a])

\* The audits that are over, and the one that runs.
AuditsAreFinished ==
  /\ Len(audits) <= Len(plans)
  /\ \A a \in 1 .. Len(audits) : Finished(plans[a], audits[a])

AllFinished == Len(plans) = Len(files) /\ Len(audits) = Len(files)

\* What each phase of the command has behind it.
Phases ==
  /\ pc = "check" => Len(plans) < Len(files) /\ audits = <<>> /\ exit = Nil
  /\ pc \in {"check", "write"} => results = <<>>
  /\ pc \in {"check", "run"} => written = 0
  /\ pc = "run" => /\ Len(plans) = Len(files) /\ Len(audits) < Len(files)
                   /\ Outcomes(CurrentPlan, results) /\ exit = Nil
  /\ pc = "write" => AllFinished /\ exit = Nil
  /\ pc = "done" => results = <<>> /\ exit \in {0, 1, 2}

\* Only the end of a complete run exits with 0 or 1; what exits with 2 has
\* run nothing, or not written everything, or met an error and no violation.
Exits ==
  exit # Nil =>
    \/ /\ AllFinished /\ written = Len(InOrder)
       /\ exit = CASE Overall = "PASS" -> 0 [] Overall = "VIOLATION" -> 1 [] OTHER -> 2
    \/ exit = 2 /\ (audits = <<>> \/ written < Len(InOrder))

TypeOK ==
  /\ call \in Calls
  /\ pc \in {"check", "run", "write", "done"}
  /\ plans \in Seq({Steps(files[a]) : a \in 1 .. Len(files)})
  /\ audits \in Seq(Seq(StepResults))
  /\ results \in Seq(StepResults)
  /\ runs \in Seq(call.verdicts)
  /\ written \in 0 .. Len(InOrder)

IInv == TypeOK /\ PlansAreChecked /\ AuditsAreFinished /\ Phases /\ Exits

-----------------------------------------------------------------------------
\* What a command is called with.
LEMMA Called ==
  ASSUME call \in Calls
  PROVE  /\ files \in Seq(Settings) /\ Len(files) \in Nat \ {0}
         /\ command \in {"audit", "run"}
         /\ command = "run" => Len(files) = 1
         /\ call.times \in Nat \ {0}
         /\ call.verdicts \subseteq Verdicts
<1>1. call.files \in Seq(Settings) /\ call.command \in {"audit", "run"}
  BY AuditAssumption DEF AuditAssumption
<1>2. call.times \in 1 .. 100
  BY AuditAssumption DEF AuditAssumption
<1>3. call.verdicts \subseteq Verdicts
  BY AuditAssumption DEF AuditAssumption, Verdicts
<1>4. IF call.command = "run" THEN Len(call.files) = 1 ELSE Len(call.files) > 0
  BY AuditAssumption, Zenon DEF AuditAssumption
<1>5. call.times \in Nat \ {0}
  BY <1>2
<1>6. Len(call.files) \in Nat
  BY <1>1
<1>7. Len(call.files) \in Nat \ {0} /\ (call.command = "run" => Len(call.files) = 1)
  BY <1>4, <1>6
<1> QED
  BY <1>1, <1>3, <1>5, <1>7 DEF files, command

\* A run has one step, an audit four; every step is to be run at least once.
LEMMA StepsShape ==
  ASSUME call \in Calls, NEW base
  PROVE  /\ Len(Steps(base)) = IF command = "run" THEN 1 ELSE 4
         /\ \A i \in 1 .. Len(Steps(base)) : Steps(base)[i].runs \in Nat \ {0}
<1>1. call.times \in Nat \ {0} /\ command \in {"audit", "run"}
  BY Called
<1>2. CASE command = "audit"
  BY <1>1, <1>2 DEF Steps, Plan, Step
<1>3. CASE command = "run"
  <2>1. Steps(base) = <<[config |-> base, runs |-> call.times, skip |-> FALSE]>>
    BY <1>3 DEF Steps
  <2>2. Len(Steps(base)) = 1 /\ Steps(base)[1].runs = call.times
    BY <2>1
  <2> QED
    BY <1>1, <1>3, <2>2
<1> QED
  BY <1>1, <1>2, <1>3

\* How often a verdict occurs.
LEMMA CountType ==
  ASSUME NEW verdicts \in Seq(Verdicts), NEW v
  PROVE  /\ Count(verdicts, v) \in Nat
         /\ Count(verdicts, v) > 0 <=> \E i \in 1 .. Len(verdicts) : verdicts[i] = v
<1> DEFINE S == {i \in 1 .. Len(verdicts) : verdicts[i] = v}
<1>1. IsFiniteSet(1 .. Len(verdicts))
  BY FS_Interval
<1>2. IsFiniteSet(S)
  BY <1>1, FS_Subset
<1>3. Cardinality(S) \in Nat /\ (Cardinality(S) = 0 <=> S = {})
  BY <1>2, FS_CardinalityType, FS_EmptySet
<1> QED
  BY <1>3 DEF Count

\* The status of a result has the rank of its worst run.
LEMMA WorstOfRuns ==
  ASSUME NEW verdicts \in Seq(Verdicts)
  PROVE  /\ StatusOf(verdicts) = "VIOLATION" <=> \E i \in 1 .. Len(verdicts) : verdicts[i] = "VIOLATION"
         /\ StatusOf(verdicts) = "ERROR" <=>
              /\ \A i \in 1 .. Len(verdicts) : verdicts[i] # "VIOLATION"
              /\ \E i \in 1 .. Len(verdicts) : verdicts[i] = "ERROR"
         /\ StatusOf(verdicts) = "PASS" <=> \A i \in 1 .. Len(verdicts) : verdicts[i] = "PASS"
         /\ StatusOf(verdicts) \in Verdicts
<1>1. /\ Count(verdicts, "VIOLATION") > 0 <=> \E i \in 1 .. Len(verdicts) : verdicts[i] = "VIOLATION"
      /\ Count(verdicts, "ERROR") > 0 <=> \E i \in 1 .. Len(verdicts) : verdicts[i] = "ERROR"
  BY CountType
<1>2. \A i \in 1 .. Len(verdicts) : verdicts[i] \in Verdicts
  OBVIOUS
<1> QED
  BY <1>1, <1>2 DEF StatusOf, Worst, Verdicts

-----------------------------------------------------------------------------
LEMMA InitIInv == Init => IInv
<1> SUFFICES ASSUME Init PROVE IInv
  OBVIOUS
<1>1. Len(files) \in Nat \ {0}
  BY Called DEF Init
<1>2. TypeOK
  BY DEF Init, TypeOK, InOrder
<1>3. PlansAreChecked /\ AuditsAreFinished
  BY <1>1 DEF Init, PlansAreChecked, AuditsAreFinished
<1>4. Phases /\ Exits
  BY <1>1 DEF Init, Phases, Exits
<1> QED
  BY <1>2, <1>3, <1>4 DEF IInv

\* What a step leaves alone stays true: the plans while no plan is added,
LEMMA PlansStay ==
  ASSUME PlansAreChecked, call' = call, plans' = plans
  PROVE  PlansAreChecked'
BY DEF PlansAreChecked, files, Steps, Acceptable, command

\* the outcomes while the call is the same,
LEMMA OutcomesStay ==
  ASSUME call' = call, NEW steps, NEW rs, Outcomes(steps, rs)
  PROVE  Outcomes(steps, rs)'
BY DEF Outcomes, Outcome

\* the finished audits while none is added,
LEMMA AuditsStay ==
  ASSUME AuditsAreFinished, call' = call, plans' = plans, audits' = audits
  PROVE  AuditsAreFinished'
BY DEF AuditsAreFinished, Finished, Outcomes, Outcome

\* and what an exit code stands for.
LEMMA ExitsStay ==
  ASSUME Exits, call' = call, plans' = plans, audits' = audits, written' = written,
         exit' = exit
  PROVE  Exits'
BY DEF Exits, AllFinished, Overall, files, command

\* The files are checked one by one.
LEMMA CheckSteps ==
  ASSUME IInv, CannotRead \/ CheckFile
  PROVE  IInv'
<1>1. /\ TypeOK /\ PlansAreChecked /\ AuditsAreFinished /\ Phases
      /\ call' = call /\ audits' = audits /\ results' = results /\ runs' = runs
      /\ written' = written /\ pc = "check"
  BY DEF IInv, CannotRead, CheckFile
<1>2. /\ Len(files) \in Nat \ {0} /\ Len(plans) \in Nat /\ Len(plans) < Len(files)
      /\ files' = files
  BY <1>1, Called DEF TypeOK, Phases, files
<1>3. audits = <<>> /\ results = <<>> /\ written = 0 /\ exit = Nil
  BY <1>1 DEF Phases
<1>4. CASE Stop(2) /\ plans' = plans
  <2>1. TypeOK'
    BY <1>1, <1>4 DEF TypeOK, Stop, Steps, files, command
  <2>2. PlansAreChecked' /\ AuditsAreFinished'
    BY <1>1, <1>4, PlansStay, AuditsStay
  <2>3. Phases' /\ Exits'
    BY <1>1, <1>3, <1>4 DEF Stop, Phases, Exits, InOrder
  <2> QED
    BY <2>1, <2>2, <2>3 DEF IInv
<1> DEFINE base == files[Len(plans) + 1]
           added == /\ Acceptable(base) /\ plans' = Append(plans, Steps(base))
                    /\ pc' = (IF Len(plans') = Len(files) THEN "run" ELSE "check")
                    /\ exit' = exit
<1>5. CASE added
  <2>1. added
    BY <1>5
  <2>2. plans \in Seq({Steps(files[a]) : a \in 1 .. Len(files)})
    BY <1>1 DEF TypeOK
  <2>3. Len(plans) + 1 \in 1 .. Len(files)
    BY <1>2
  <2>4. Steps(base) \in {Steps(files[a]) : a \in 1 .. Len(files)}
    BY <2>3
  <2>5. /\ plans' \in Seq({Steps(files[a]) : a \in 1 .. Len(files)})
        /\ Len(plans') = Len(plans) + 1
        /\ \A a \in 1 .. Len(plans) : plans'[a] = plans[a]
        /\ plans'[Len(plans) + 1] = Steps(base)
    <3> HIDE DEF base
    <3> QED
      BY <2>1, <2>2, <2>4
  <2>6. TypeOK'
    BY <1>1, <1>2, <2>1, <2>5 DEF TypeOK, Steps, command
  <2>7. PlansAreChecked'
    <3>1. \A a \in 1 .. Len(plans') : a \in 1 .. Len(plans) \/ a = Len(plans) + 1
      BY <1>2, <2>5
    <3>2. \A a \in 1 .. Len(plans') : plans'[a] = Steps(files[a]) /\ Acceptable(files[a])
      BY <1>1, <2>1, <2>5, <3>1 DEF PlansAreChecked
    <3>3. \A base_1 : Steps(base_1)' = Steps(base_1) /\ (Acceptable(base_1)' <=> Acceptable(base_1))
      BY <1>1 DEF Steps, Acceptable, command
    <3> QED
      BY <1>2, <2>5, <3>2, <3>3 DEF PlansAreChecked
  <2>8. AuditsAreFinished' /\ Exits'
    BY <1>1, <1>2, <1>3, <2>1, <2>5 DEF AuditsAreFinished, Exits
  <2>9. Phases'
    BY <1>1, <1>2, <1>3, <2>1, <2>5 DEF Phases, Outcomes, CurrentPlan
  <2> QED
    BY <2>6, <2>7, <2>8, <2>9 DEF IInv
<1> QED
  BY <1>4, <1>5 DEF CannotRead, CheckFile

\* The experiments of a step run one by one, and their verdicts are summed up.
LEMMA RunSteps ==
  ASSUME IInv, SkipStep \/ RunOnce \/ FinishStep
  PROVE  IInv'
<1>1. /\ TypeOK /\ PlansAreChecked /\ AuditsAreFinished /\ Phases /\ Exits
      /\ call' = call /\ pc' = pc /\ plans' = plans /\ audits' = audits
      /\ written' = written /\ exit' = exit /\ pc = "run" /\ CurrentPlan' = CurrentPlan
  BY DEF IInv, SkipStep, RunOnce, FinishStep, Running, CurrentPlan
<1>2. PlansAreChecked' /\ AuditsAreFinished' /\ Exits'
  BY <1>1, PlansStay, AuditsStay, ExitsStay
<1>3. /\ results \in Seq(StepResults) /\ Outcomes(CurrentPlan, results)
      /\ runs \in Seq(call.verdicts) /\ call.verdicts \subseteq Verdicts
  BY <1>1, Called DEF TypeOK, Phases
<1>4. ASSUME NEW r \in StepResults, results' = Append(results, r),
             Len(results) < Len(CurrentPlan), Outcome(CurrentStep, r)
      PROVE  results' \in Seq(StepResults) /\ Outcomes(CurrentPlan, results)'
  <2>1. /\ results' \in Seq(StepResults) /\ Len(results') = Len(results) + 1
        /\ \A s \in 1 .. Len(results) : results'[s] = results[s]
        /\ results'[Len(results) + 1] = r /\ Len(results) \in Nat
    BY <1>3, <1>4
  <2>2. \A s \in 1 .. Len(results') : s \in 1 .. Len(results) \/ s = Len(results) + 1
    BY <2>1
  <2>3. \A s \in 1 .. Len(results') : Outcome(CurrentPlan[s], results'[s])
    BY <1>3, <1>4, <2>1, <2>2 DEF Outcomes, CurrentStep
  <2>4. Len(results') <= Len(CurrentPlan)
    <3>1. CurrentPlan \in {Steps(files[a]) : a \in 1 .. Len(files)}
      BY <1>1 DEF TypeOK, CurrentPlan, PlansAreChecked, Phases
    <3>2. Len(CurrentPlan) \in Nat
      BY <1>1, <3>1, StepsShape DEF TypeOK
    <3> QED
      BY <1>4, <2>1, <3>2
  <2> QED
    BY <1>1, <2>1, <2>3, <2>4 DEF Outcomes, Outcome
<1>5. CASE SkipStep
  <2>1. Skipped \in StepResults /\ Outcome(CurrentStep, Skipped)
    BY <1>5 DEF Skipped, StepResults, Outcome, SkipStep, Verdicts
  <2>2. results' \in Seq(StepResults) /\ Outcomes(CurrentPlan, results)'
    BY <1>4, <1>5, <2>1 DEF SkipStep, Running
  <2> QED
    BY <1>1, <1>2, <1>5, <2>2 DEF SkipStep, IInv, TypeOK, Phases, AllFinished, files, Steps, command
<1>6. CASE RunOnce
  <2>1. runs' \in Seq(call.verdicts) /\ results' = results
    BY <1>3, <1>6 DEF RunOnce
  <2>2. Outcomes(CurrentPlan, results)'
    BY <1>1, <1>3, <2>1 DEF Outcomes, Outcome
  <2> QED
    BY <1>1, <1>2, <2>1, <2>2 DEF IInv, TypeOK, Phases, AllFinished, files, Steps, command
<1>7. CASE FinishStep
  <2>1. runs \in Seq(Verdicts)
    BY <1>3
  <2>2. Result(runs) \in StepResults
    BY <2>1, WorstOfRuns DEF Result, StepResults
  <2>3. Outcome(CurrentStep, Result(runs))
    BY <1>3, <1>7 DEF Outcome, FinishStep, Result
  <2>4. results' \in Seq(StepResults) /\ Outcomes(CurrentPlan, results)'
    BY <1>4, <1>7, <2>2, <2>3 DEF FinishStep, Running
  <2>5. runs' = <<>>
    BY <1>7 DEF FinishStep
  <2> QED
    BY <1>1, <1>2, <2>4, <2>5 DEF IInv, TypeOK, Phases, AllFinished, files, Steps, command
<1> QED
  BY <1>5, <1>6, <1>7

\* A finished audit has an outcome for each step of its plan.
LEMMA AuditSteps ==
  ASSUME IInv, FinishAudit
  PROVE  IInv'
<1>1. /\ TypeOK /\ PlansAreChecked /\ AuditsAreFinished /\ Phases
      /\ call' = call /\ plans' = plans /\ runs' = runs /\ written' = written
      /\ exit' = exit /\ pc = "run" /\ Len(results) = Len(CurrentPlan)
      /\ audits' = Append(audits, results) /\ results' = <<>>
      /\ pc' = (IF Len(audits') = Len(plans) THEN "write" ELSE "run")
  BY DEF IInv, FinishAudit
<1>2. /\ audits \in Seq(Seq(StepResults)) /\ results \in Seq(StepResults)
      /\ Outcomes(CurrentPlan, results)
      /\ Len(plans) = Len(files) /\ Len(audits) < Len(files) /\ Len(files) \in Nat
      /\ exit = Nil /\ written = 0
  BY <1>1, Called DEF TypeOK, Phases
<1>3. /\ audits' \in Seq(Seq(StepResults)) /\ Len(audits') = Len(audits) + 1
      /\ \A a \in 1 .. Len(audits) : audits'[a] = audits[a]
      /\ audits'[Len(audits) + 1] = results /\ Len(audits) \in Nat
  BY <1>1, <1>2
<1>4. \A a \in 1 .. Len(audits') : a \in 1 .. Len(audits) \/ a = Len(audits) + 1
  BY <1>3
<1>5. PlansAreChecked'
  BY <1>1, PlansStay
<1>6. AuditsAreFinished'
  <2>1. \A a \in 1 .. Len(audits') : Finished(plans[a], audits'[a])
    BY <1>1, <1>2, <1>3, <1>4 DEF AuditsAreFinished, Finished, CurrentPlan
  <2>2. \A a \in 1 .. Len(audits') : Finished(plans[a], audits[a])'
    BY <1>1, <2>1 DEF Finished, Outcomes, Outcome
  <2> QED
    BY <1>1, <1>2, <1>3, <2>2 DEF AuditsAreFinished
<1>7. TypeOK'
  BY <1>1, <1>3 DEF TypeOK, files, Steps, command
<1>8. Phases'
  <2>1. CASE Len(audits') = Len(files)
    BY <1>1, <1>2, <2>1 DEF Phases, AllFinished, files
  <2>2. CASE Len(audits') # Len(files)
    <3>1. pc' = "run" /\ Len(audits') < Len(files) /\ Len(audits') + 1 \in 1 .. Len(files)
      BY <1>1, <1>2, <1>3, <2>2
    <3>2. CurrentPlan' = Steps(files[Len(audits') + 1])
      BY <1>1, <1>2, <3>1 DEF PlansAreChecked, CurrentPlan
    <3>3. 0 <= Len(CurrentPlan')
      BY <1>1, <3>2, StepsShape DEF TypeOK
    <3>4. Outcomes(CurrentPlan, results)'
      BY <1>1, <3>3 DEF Outcomes
    <3> QED
      BY <1>1, <1>2, <3>1, <3>4 DEF Phases, files
  <2> QED
    BY <2>1, <2>2
<1>9. Exits'
  BY <1>1, <1>2 DEF Exits
<1> QED
  BY <1>5, <1>6, <1>7, <1>8, <1>9 DEF IInv

\* The report files are written, or not, and the command exits.
LEMMA WriteSteps ==
  ASSUME IInv, WriteNext \/ WriteFails \/ ExitCode
  PROVE  IInv'
<1>1. /\ TypeOK /\ PlansAreChecked /\ AuditsAreFinished /\ Phases
      /\ call' = call /\ plans' = plans /\ audits' = audits /\ results' = results
      /\ runs' = runs /\ pc = "write"
  BY DEF IInv, WriteNext, WriteFails, ExitCode
<1>2. /\ PlansAreChecked' /\ AuditsAreFinished' /\ AllFinished' /\ Overall' = Overall
  BY <1>1, PlansStay, AuditsStay DEF Phases, AllFinished, files, Overall, command
<1>3. written \in 0 .. 5 /\ results = <<>> /\ exit = Nil /\ Len(InOrder) = 5
  BY <1>1 DEF TypeOK, Phases, InOrder
<1>4. CASE WriteNext
  BY <1>1, <1>2, <1>3, <1>4
     DEF WriteNext, IInv, TypeOK, Phases, Exits, files, Steps, command
<1>5. CASE WriteFails
  BY <1>1, <1>2, <1>3, <1>5
     DEF WriteFails, Stop, IInv, TypeOK, Phases, Exits, files, Steps, command
<1>6. CASE ExitCode
  BY <1>1, <1>2, <1>3, <1>6
     DEF ExitCode, Stop, IInv, TypeOK, Phases, Exits, files, Steps, command
<1> QED
  BY <1>4, <1>5, <1>6

LEMMA StepIInv == IInv /\ [Next]_vars => IInv'
<1> SUFFICES ASSUME IInv, [Next]_vars PROVE IInv'
  OBVIOUS
<1>1. CASE UNCHANGED vars
  <2>1. /\ call' = call /\ pc' = pc /\ plans' = plans /\ audits' = audits
        /\ results' = results /\ runs' = runs /\ written' = written /\ exit' = exit
    BY <1>1 DEF vars
  <2>2. PlansAreChecked' /\ AuditsAreFinished' /\ Exits'
    BY <2>1, PlansStay, AuditsStay, ExitsStay DEF IInv
  <2> QED
    BY <2>1, <2>2 DEF IInv, TypeOK, Phases, AllFinished, Outcomes, Outcome, CurrentPlan,
                      files, Steps, command
<1> QED
  BY <1>1, CheckSteps, RunSteps, AuditSteps, WriteSteps DEF Next, Exited

THEOREM Invariance == Spec => []IInv
BY InitIInv, StepIInv, PTL DEF Spec

-----------------------------------------------------------------------------
(* What Plan derives from a file. *)

\* A copy of the settings takes what it is told and nothing of another
\* scenario.
LEMMA DerivedSettings ==
  ASSUME NEW base \in Settings
  PROVE  /\ \A c \in {LostConfig(base), CrashConfig(base)} :
              /\ c.concurrency = 0 /\ c.burst = Nil /\ c.changed = Nil /\ c.reuse = 0
              /\ c.rule = WithIDs(base.rule)
              /\ c.wellFormed = base.wellFormed /\ c.managed = base.managed
              /\ c.body = base.body
         /\ LostConfig(base).scenario = "lost-response"
         /\ CrashConfig(base).scenario = "crash-after-ack"
         /\ LET c == BurstConfig(base)
            IN  /\ c.scenario = "concurrent-duplicates"
                /\ c.concurrency = base.concurrency
                /\ c.burst = IF base.burst = Nil THEN [allowed |-> <<>>, noServerErrors |-> TRUE]
                             ELSE base.burst
                /\ c.rule = Nil /\ c.changed = Nil /\ c.reuse = 0
                /\ c.body = base.body /\ c.wellFormed = base.wellFormed
         /\ LET c == ReuseConfig(base)
            IN  /\ c.scenario = "key-reuse" /\ c.reuse = base.reuse
                /\ c.changed = IF ~base.key THEN Nil
                               ELSE IF base.changed # Nil THEN base.changed
                               ELSE IF Changeable(base.body) THEN ChangeBody(base.body) ELSE Nil
                /\ c.concurrency = 0 /\ c.burst = Nil /\ c.rule = Nil
                /\ c.body = base.body /\ c.key = base.key /\ c.wellFormed = base.wellFormed
<1>1. DOMAIN base = {"scenario", "concurrency", "managed", "key", "body", "changed", "reuse",
                     "rule", "burst", "wellFormed"}
  BY DEF Settings
<1> QED
  BY <1>1 DEF LostConfig, CrashConfig, BurstConfig, ReuseConfig, Clean

\* An empty list is a valid one.
LEMMA EmptyList == ValidStatuses(<<>>) /\ ValidPointers(<<>>)
<1>1. Len(<<>>) = 0 /\ Range(<<>>) = {} /\ IsInjective(<<>>)
  BY DEF Range, IsInjective
<1> QED
  BY <1>1 DEF ValidStatuses, ValidPointers, ShortList

\* Adding ids to a rule leaves it as valid as it was.
LEMMA WithIDsIsValid ==
  ASSUME NEW rule, rule = Nil \/ rule \in Rules,
         rule # Nil => ValidStatuses(rule.allowed) /\ ValidPointers(rule.same)
  PROVE  ValidStatuses(WithIDs(rule).allowed) /\ ValidPointers(WithIDs(rule).same)
<1>1. CASE rule = Nil
  BY <1>1, EmptyList DEF WithIDs
<1>2. CASE rule # Nil
  <2>1. WithIDs(rule).allowed = rule.allowed /\ WithIDs(rule).same = rule.same
    BY <1>2 DEF WithIDs, Rules
  <2> QED
    BY <1>2, <2>1
<1> QED
  BY <1>1, <1>2

\* The scenario a file is valid for is run with the settings of the file, and
\* the loss and the burst are run whatever scenario that is.
LEMMA ValidIsRun ==
  ASSUME NEW base \in Settings, Validate(base)
  PROVE  /\ Validate(LostConfig(base)) /\ Validate(BurstConfig(base))
         /\ base.managed => Validate(CrashConfig(base))
         /\ base.scenario = "key-reuse" =>
              Validate(ReuseConfig(base)) /\ base.key /\ base.changed # Nil
<1>1. /\ base.wellFormed /\ base.scenario \in Scenarios
      /\ base.body # Nil => base.body.size # "large"
  BY DEF Validate
<1>r. ValidStatuses(WithIDs(base.rule).allowed) /\ ValidPointers(WithIDs(base.rule).same)
  <2>1. base.rule = Nil \/ base.rule \in Rules
    BY DEF Settings
  <2>2. base.rule # Nil => ValidStatuses(base.rule.allowed) /\ ValidPointers(base.rule.same)
    BY DEF Validate
  <2> QED
    BY <2>1, <2>2, WithIDsIsValid
<1>2. Validate(LostConfig(base))
  BY <1>1, <1>r, DerivedSettings DEF Validate, Scenarios, Retried
<1>3. base.managed => Validate(CrashConfig(base))
  BY <1>1, <1>r, DerivedSettings DEF Validate, Scenarios, Retried
<1>4. Validate(BurstConfig(base))
  <2> DEFINE c == BurstConfig(base)
  <2>1. Workers(c) \in 2 .. 64
    <3>1. Workers(c) = Workers(base)
      BY DerivedSettings DEF Workers
    <3>2. CASE base.scenario = "concurrent-duplicates"
      BY <3>1, <3>2 DEF Validate
    <3>3. CASE base.scenario # "concurrent-duplicates"
      BY <3>1, <3>3 DEF Validate, Workers
    <3> QED
      BY <3>2, <3>3
  <2>2. /\ c.burst.allowed # <<>> \/ c.burst.noServerErrors
        /\ ValidStatuses(c.burst.allowed)
    <3>1. CASE base.burst = Nil
      BY <3>1, DerivedSettings, EmptyList
    <3>2. CASE base.burst # Nil
      BY <3>2, DerivedSettings DEF Validate
    <3> QED
      BY <3>1, <3>2
  <2>3. /\ c.scenario = "concurrent-duplicates" /\ c.rule = Nil /\ c.changed = Nil
        /\ c.reuse = 0 /\ c.wellFormed /\ c.body = base.body
    BY <1>1, DerivedSettings
  <2> HIDE DEF c
  <2>4. Validate(c)
    BY <1>1, <2>1, <2>2, <2>3 DEF Validate, Scenarios
  <2> QED
    BY <2>4 DEF c
<1>5. base.scenario = "key-reuse" =>
        Validate(ReuseConfig(base)) /\ base.key /\ base.changed # Nil
  <2> SUFFICES ASSUME base.scenario = "key-reuse"
               PROVE  Validate(ReuseConfig(base)) /\ base.key /\ base.changed # Nil
    OBVIOUS
  <2>1. ValidReuse(base)
    BY DEF Validate
  <2>2. base.key /\ base.changed # Nil
    BY <2>1 DEF ValidReuse
  <2> DEFINE c == ReuseConfig(base)
  <2>3. /\ c.scenario = "key-reuse" /\ c.concurrency = 0 /\ c.rule = Nil /\ c.burst = Nil
        /\ c.body = base.body /\ c.key = base.key /\ c.changed = base.changed
        /\ c.reuse = base.reuse /\ c.wellFormed
    BY <1>1, <2>2, DerivedSettings
  <2> HIDE DEF c
  <2>4. ValidReuse(c)
    BY <2>1, <2>3 DEF ValidReuse, ReuseStatus, SameJSON
  <2>5. Validate(c)
    BY <1>1, <2>3, <2>4 DEF Validate, Scenarios
  <2> QED
    BY <2>2, <2>5 DEF c
<1> QED
  BY <1>2, <1>3, <1>4, <1>5

\* A step is skipped exactly when it is impossible or does not validate.
LEMMA SkippedSteps ==
  ASSUME NEW c, NEW n, NEW possible \in BOOLEAN
  PROVE  Step(c, n, possible).skip <=> ~(possible /\ Validate(c))
<1>1. Step(c, n, possible).skip = ~(possible /\ Validate(c))
  BY DEF Step
<1> QED
  BY <1>1, Zenon

\* A file that is valid for its own scenario is audited, its scenario is run,
\* and no setting of it keeps a loss, a burst or, for a managed service, a
\* crash from being run.
THEOREM OwnScenarioIsRun == Spec => []OwnScenarioRuns
<1>1. IInv => OwnScenarioRuns
  <2> SUFFICES ASSUME IInv, command = "audit", NEW e \in Endpoints, Validate(files[e])
               PROVE  /\ Acceptable(files[e])
                      /\ \E i \in 1 .. 4 :
                           /\ Steps(files[e])[i].config.scenario = files[e].scenario
                           /\ ~Steps(files[e])[i].skip
                      /\ ~Steps(files[e])[1].skip /\ ~Steps(files[e])[2].skip
                      /\ files[e].managed => ~Steps(files[e])[4].skip
    BY DEF OwnScenarioRuns
  <2> DEFINE base == files[e]
             steps == Steps(base)
  <2>1. base \in Settings
    BY Called DEF IInv, TypeOK, Endpoints
  <2>2. /\ steps[1] = Step(LostConfig(base), 1, TRUE)
        /\ steps[2] = Step(BurstConfig(base), call.times, TRUE)
        /\ steps[3] = Step(ReuseConfig(base), 1,
                           base.key /\ (base.changed # Nil \/ Changeable(base.body)))
        /\ steps[4] = Step(CrashConfig(base), 1, base.managed)
        /\ Len(steps) = 4
    BY DEF Steps, Plan
  <2> HIDE DEF base, steps
  <2>3. /\ ~steps[1].skip /\ ~steps[2].skip
        /\ base.managed => ~steps[4].skip
        /\ base.scenario = "key-reuse" => ~steps[3].skip
    <3>1. /\ Validate(LostConfig(base)) /\ Validate(BurstConfig(base))
          /\ base.managed => Validate(CrashConfig(base))
          /\ base.scenario = "key-reuse" =>
               Validate(ReuseConfig(base)) /\ base.key /\ base.changed # Nil
      BY <2>1, ValidIsRun DEF base
    <3>2. base.managed \in BOOLEAN /\ base.key \in BOOLEAN
      BY <2>1 DEF Settings
    <3> DEFINE possible == base.key /\ (base.changed # Nil \/ Changeable(base.body))
    <3>3. possible \in BOOLEAN
      OBVIOUS
    <3>4. base.scenario = "key-reuse" => possible
      BY <3>1
    <3>5. steps[3] = Step(ReuseConfig(base), 1, possible)
      BY <2>2
    <3> HIDE DEF possible
    <3>6. /\ steps[1].skip <=> ~(TRUE /\ Validate(LostConfig(base)))
          /\ steps[2].skip <=> ~(TRUE /\ Validate(BurstConfig(base)))
          /\ steps[3].skip <=> ~(possible /\ Validate(ReuseConfig(base)))
          /\ steps[4].skip <=> ~(base.managed /\ Validate(CrashConfig(base)))
      BY <2>2, <3>2, <3>3, <3>5, SkippedSteps
    <3> QED
      BY <3>1, <3>4, <3>6
  <2>4. /\ steps[1].config.scenario = "lost-response"
        /\ steps[2].config.scenario = "concurrent-duplicates"
        /\ steps[3].config.scenario = "key-reuse"
        /\ steps[4].config.scenario = "crash-after-ack"
    BY <2>1, <2>2, DerivedSettings DEF Step
  <2>5. /\ base.scenario \in Scenarios
        /\ base.scenario = "crash-after-ack" => base.managed
    BY DEF Validate, base
  <2>6. \E i \in 1 .. 4 : steps[i].config.scenario = base.scenario /\ ~steps[i].skip
    BY <2>3, <2>4, <2>5 DEF Scenarios
  <2>7. Acceptable(base)
    <3>1. 1 \in 1 .. Len(steps)
      BY <2>2
    <3>2. Runnable(steps)
      BY <2>3, <3>1, Zenon DEF Runnable
    <3> QED
      BY <3>2 DEF Acceptable, steps
  <2> QED
    BY <2>3, <2>6, <2>7 DEF base, steps
<1> QED
  BY <1>1, Invariance, PTL

\* What a list holds.
LEMMA RangeOfList ==
  ASSUME NEW S, NEW list \in Seq(S)
  PROVE  Range(list) \in SUBSET S /\ (Range(list) = {} => list = <<>>)
<1>1. Range(list) \subseteq S
  BY DEF Range
<1>2. CASE Len(list) = 0
  BY <1>1, <1>2
<1>3. CASE Len(list) # 0
  <2>1. 1 \in DOMAIN list
    BY <1>3
  <2>2. list[1] \in Range(list)
    BY <2>1 DEF Range
  <2> QED
    BY <1>1, <2>2
<1> QED
  BY <1>2, <1>3

\* With ids added to it, a rule is as strict as it was, and compares ids where
\* it named nothing.
LEMMA WithIDsIsStrict ==
  ASSUME NEW own, own = Nil \/ own \in Rules
  PROVE  AsStrict(WithIDs(own), own)
<1> DEFINE named == IF own = Nil THEN {} ELSE Range(own.same)
           q == AsRead(own)
           r == AsRead(WithIDs(own))
<1>1. /\ r # Nil /\ r.same = named /\ CapturesReply(r)
      /\ named = {} => r.ids
      /\ named # {} => q # Nil /\ q.same = named
      /\ q # Nil => /\ q.same = named /\ q.allowed = r.allowed
                    /\ q.ids => r.ids
      /\ q = Nil => r.allowed = {}
  <2> DEFINE Read == [allowed : SUBSET Int, same : SUBSET STRING, ids : BOOLEAN]
  <2>1. Range(<<>>) = {} /\ Nil \notin Rules /\ Nil \notin Read
    BY PlanAssumption DEF Range, PlanAssumption
  <2>2. CASE own = Nil
    <3>1. WithIDs(own) = [allowed |-> <<>>, same |-> <<>>, ids |-> TRUE]
      BY <2>2 DEF WithIDs
    <3>2. WithIDs(own) \in Rules
      BY <3>1 DEF Rules
    <3>3. r = [allowed |-> {}, same |-> {}, ids |-> TRUE]
      <4>1. WithIDs(own) # Nil
        BY <2>1, <3>2
      <4>2. WithIDs(own).allowed = <<>> /\ WithIDs(own).same = <<>> /\ WithIDs(own).ids = TRUE
        BY <3>1
      <4>3. r = [allowed |-> Range(WithIDs(own).allowed), same |-> Range(WithIDs(own).same),
                 ids |-> WithIDs(own).ids]
        BY <4>1 DEF AsRead
      <4> HIDE DEF r
      <4> QED
        BY <2>1, <4>2, <4>3
    <3>4. r \in Read
      BY <3>3
    <3>5. q = Nil /\ named = {}
      BY <2>2 DEF AsRead
    <3> HIDE DEF Read, named, q, r
    <3> QED
      BY <2>1, <3>3, <3>4, <3>5 DEF CapturesReply
  <2>3. CASE own # Nil
    <3>1. own \in Rules
      BY <2>3
    <3>2. /\ WithIDs(own) \in Rules
          /\ WithIDs(own).allowed = own.allowed /\ WithIDs(own).same = own.same
          /\ WithIDs(own).ids = (own.ids \/ own.same = <<>>)
      BY <2>3, <3>1 DEF WithIDs, Rules
    <3>3. /\ r = [allowed |-> Range(own.allowed), same |-> Range(own.same),
                  ids |-> (own.ids \/ own.same = <<>>)]
          /\ q = [allowed |-> Range(own.allowed), same |-> Range(own.same), ids |-> own.ids]
      BY <2>1, <2>3, <3>2 DEF AsRead
    <3>4. /\ own.allowed \in Seq(Int) /\ own.same \in Seq(STRING)
          /\ own.ids \in BOOLEAN
      BY <3>1 DEF Rules
    <3>5. /\ Range(own.allowed) \in SUBSET Int /\ Range(own.same) \in SUBSET STRING
          /\ Range(own.same) = {} => own.same = <<>>
      BY <3>4, RangeOfList
    <3>6. r \in Read /\ q \in Read
      BY <3>3, <3>4, <3>5
    <3>7. /\ r.allowed = Range(own.allowed) /\ r.same = Range(own.same)
          /\ r.ids = (own.ids \/ own.same = <<>>)
          /\ q.allowed = Range(own.allowed) /\ q.same = Range(own.same) /\ q.ids = own.ids
      BY <3>3
    <3>8. named = Range(own.same)
      BY <2>3
    <3> HIDE DEF Read, named, q, r
    <3>9. r # Nil /\ q # Nil
      BY <2>1, <3>6
    <3> QED
      BY <3>4, <3>5, <3>7, <3>8, <3>9 DEF CapturesReply
  <2> QED
    BY <2>2, <2>3
<1> HIDE DEF named, q, r
<1> SUFFICES
      ASSUME NEW original \in Bodies, NEW body \in Bodies, NEW status \in Statuses
      PROVE  LET here  == Judged(WithIDs(own), original, status, body)
                 there == Judged(own, original, status, body)
                 repeated(pointers) ==
                   \A p \in pointers :
                     original # NotJSON /\ body # NotJSON /\ body[p] = original[p]
             IN  /\ there = "VIOLATION" => here = "VIOLATION"
                 /\ here = "ERROR" => there = "ERROR"
                 /\ here = "PASS" =>
                      /\ repeated(named)
                      /\ named = {} /\ Success(status) => repeated(IDPointers(original))
  BY Zenon DEF AsStrict, named
<1> DEFINE o == Captured(q, original)
           b == Captured(q, body)
           repeated(pointers) ==
             \A p \in pointers : original # NotJSON /\ body # NotJSON /\ body[p] = original[p]
<1>2. /\ Captured(r, original) = original /\ Captured(r, body) = body
      /\ AllowedRetry(r, status) <=> AllowedRetry(q, status)
  BY <1>1 DEF Captured, AllowedRetry
<1>3. /\ Judged(WithIDs(own), original, status, body) =
           CASE ~Conclusive(r, original, status) -> "ERROR"
             [] Conclusive(r, original, status) /\ RetryIssues(r, original, status, body) # {} -> "VIOLATION"
             [] OTHER -> "PASS"
      /\ Judged(own, original, status, body) =
           CASE ~Conclusive(q, o, status) -> "ERROR"
             [] Conclusive(q, o, status) /\ RetryIssues(q, o, status, b) # {} -> "VIOLATION"
             [] OTHER -> "PASS"
  BY <1>2 DEF Judged, q, r
<1>4. ASSUME RetryIssues(r, original, status, body) = {}, Conclusive(r, original, status)
      PROVE  repeated(Compared(r, original, status))
  BY <1>4 DEF RetryIssues, ValueIssues, Conclusive
<1>5. CASE named # {}
  <2>1. CapturesReply(q) /\ o = original /\ b = body
    BY <1>1, <1>5 DEF CapturesReply, Captured
  <2>2. Compared(r, original, status) = named /\ Compared(q, original, status) = named
    BY <1>1, <1>5 DEF Compared
  <2>3. /\ Conclusive(r, original, status) <=> Conclusive(q, original, status)
        /\ RetryIssues(r, original, status, body) = RetryIssues(q, original, status, body)
    BY <1>2, <2>2 DEF Conclusive, RetryIssues
  <2> HIDE DEF o, b, repeated
  <2> QED
    BY <1>3, <1>4, <1>5, <2>1, <2>2, <2>3 DEF repeated
<1>6. CASE named = {}
  <2>1. Compared(r, original, status) = IF Success(status) THEN IDPointers(original) ELSE {}
    BY <1>1, <1>6 DEF Compared
  <2>2. Conclusive(r, original, status)
    <3>1. ASSUME NEW p \in IDPointers(original)
          PROVE  original # NotJSON /\ original[p] # Missing
      BY <3>1, PointerAssumption DEF IDPointers, IDFields, PointerAssumption
    <3> QED
      BY <2>1, <3>1 DEF Conclusive
  <2>3. ASSUME RetryIssues(q, o, status, b) # {}
        PROVE  RetryIssues(r, original, status, body) # {}
    <3>1. CASE ~AllowedRetry(q, status)
      BY <1>2, <3>1 DEF RetryIssues
    <3>2. CASE AllowedRetry(q, status)
      <4>1. Compared(q, o, status) # {}
        BY <2>3, <3>2 DEF RetryIssues, ValueIssues
      <4>2. q # Nil /\ q.ids /\ Success(status)
        BY <1>1, <1>6, <4>1 DEF Compared
      <4>3. o = original /\ b = body
        BY <4>2 DEF Captured, CapturesReply
      <4>4. Compared(q, o, status) = Compared(r, original, status)
        BY <1>1, <1>6, <2>1, <4>2, <4>3 DEF Compared
      <4> QED
        BY <1>2, <2>3, <3>2, <4>3, <4>4 DEF RetryIssues
    <3> QED
      BY <3>1, <3>2
  <2>4. repeated(named)
    BY <1>6
  <2> HIDE DEF o, b, repeated
  <2> QED
    BY <1>3, <1>4, <1>6, <2>1, <2>2, <2>3, <2>4 DEF repeated
<1> QED
  BY <1>5, <1>6

\* An audit never judges a retry less strictly than the file would.
THEOREM RetriesAreAsStrict == Spec => RetriesAreStrict
<1> DEFINE Strict ==
      \A a \in (Len(plans) + 1) .. Len(plans') : \A i \in 1 .. Len(plans'[a]) :
        LET step == plans'[a][i]
        IN  command = "audit" /\ step.config.scenario \in Retried /\ ~step.skip =>
              AsStrict(step.config.rule, files[a].rule)
<1>1. IInv /\ [Next]_vars => [Strict]_plans
  <2> SUFFICES ASSUME IInv, [Next]_vars, plans' # plans,
                      NEW a \in (Len(plans) + 1) .. Len(plans'), NEW i \in 1 .. Len(plans'[a]),
                      command = "audit", plans'[a][i].config.scenario \in Retried
               PROVE  AsStrict(plans'[a][i].config.rule, files[a].rule)
    BY DEF Strict
  <2>1. CheckFile /\ plans' = Append(plans, Steps(files[Len(plans) + 1]))
    BY DEF Next, vars, CannotRead, CheckFile, SkipStep, RunOnce, FinishStep, FinishAudit,
           WriteNext, WriteFails, ExitCode, Exited
  <2>2. pc = "check" /\ Len(plans) < Len(files) /\ files \in Seq(Settings)
    BY <2>1, Called DEF CheckFile, IInv, TypeOK, Phases
  <2>3. a = Len(plans) + 1 /\ plans'[a] = Steps(files[a])
    BY <2>1 DEF IInv, TypeOK
  <2> DEFINE base == files[a]
  <2>4. base \in Settings
    BY <2>2, <2>3 DEF IInv, TypeOK
  <2>5. plans'[a][i].config \in {LostConfig(base), BurstConfig(base), ReuseConfig(base), CrashConfig(base)}
    BY <2>3 DEF Steps, Plan, Step
  <2>6. plans'[a][i].config.rule = WithIDs(base.rule)
    BY <2>4, <2>5, DerivedSettings DEF Retried
  <2>7. base.rule = Nil \/ base.rule \in Rules
    BY <2>4 DEF Settings
  <2> QED
    BY <2>6, <2>7, WithIDsIsStrict
<1> QED
  BY <1>1, Invariance, PTL DEF Spec, RetriesAreStrict

\* The run that is explained has the status of its step.
THEOREM DiagnosisIsOfStatus == Spec => []DiagnosisFits
<1>1. IInv => DiagnosisFits
  <2> SUFFICES ASSUME IInv, NEW s \in 1 .. Len(results), results[s].status # "SKIPPED"
               PROVE  First(results[s]) = results[s].status
    BY DEF DiagnosisFits
  <2>1. pc = "run" /\ Outcomes(CurrentPlan, results)
    BY DEF IInv, TypeOK, Phases
  <2>2. Outcome(CurrentPlan[s], results[s]) /\ s \in 1 .. Len(CurrentPlan)
    <3>1. CurrentPlan = Steps(files[Len(audits) + 1]) /\ Len(audits) + 1 \in 1 .. Len(files)
      BY <2>1 DEF CurrentPlan, IInv, TypeOK, PlansAreChecked, Phases
    <3>2. Len(CurrentPlan) \in Nat
      BY <3>1, StepsShape DEF IInv, TypeOK
    <3> QED
      BY <2>1, <3>2 DEF Outcomes, IInv, TypeOK
  <2>3. PICK vs \in Seq(Verdicts) : Len(vs) >= 1 /\ results[s] = Result(vs)
    <3>1. CurrentPlan = Steps(files[Len(audits) + 1])
      BY <2>1 DEF CurrentPlan, IInv, TypeOK, PlansAreChecked, Phases
    <3>2. CurrentPlan[s].runs \in Nat \ {0}
      BY <2>2, <3>1, StepsShape DEF IInv, TypeOK
    <3>3. ~CurrentPlan[s].skip
      BY <2>2 DEF Outcome, Skipped
    <3>4. call.verdicts \subseteq Verdicts
      BY Called DEF IInv, TypeOK
    <3> QED
      BY <2>2, <3>2, <3>3, <3>4 DEF Outcome
  <2>4. First(Result(vs)) = StatusOf(vs)
    <3> DEFINE at(v) == {i \in 1 .. Len(vs) : vs[i] = v}
               least(S) == CHOOSE i \in S : \A j \in S : i <= j
    <3>1. ASSUME NEW v, at(v) # {}
          PROVE  vs[least(at(v))] = v
      <4>1. at(v) \in SUBSET Nat
        OBVIOUS
      <4>2. \E i \in at(v) : \A j \in at(v) : i <= j
        <5> HIDE DEF at
        <5> QED
          BY <3>1, <4>1, LeastElement
      <4>3. least(at(v)) \in at(v)
        <5> HIDE DEF at
        <5> QED
          BY <4>2
      <4> QED
        BY <4>3
    <3>2. Result(vs).runs = vs
      BY DEF Result
    <3>3. First(Result(vs)) = IF at("VIOLATION") # {} THEN vs[least(at("VIOLATION"))]
                              ELSE IF at("ERROR") # {} THEN vs[least(at("ERROR"))] ELSE vs[1]
      BY <3>2 DEF First
    <3> HIDE DEF least
    <3>4. CASE at("VIOLATION") # {}
      BY <3>1, <3>3, <3>4, WorstOfRuns
    <3>5. CASE at("VIOLATION") = {} /\ at("ERROR") # {}
      BY <3>1, <3>3, <3>5, WorstOfRuns
    <3>6. CASE at("VIOLATION") = {} /\ at("ERROR") = {}
      <4>1. \A i \in 1 .. Len(vs) : vs[i] = "PASS"
        BY <3>6 DEF Verdicts
      <4> QED
        BY <2>3, <3>3, <3>6, <4>1, WorstOfRuns
    <3> QED
      BY <3>4, <3>5, <3>6
  <2> QED
    BY <2>3, <2>4 DEF Result
<1> QED
  BY <1>1, Invariance, PTL

-----------------------------------------------------------------------------
(* What totals count. *)

\* A sum of natural numbers is one, and is zero exactly when all of them are.
LEMMA TotalOfNats ==
  ASSUME NEW n \in Nat, NEW f, \A i \in 1 .. n : f[i] \in Nat
  PROVE  /\ Total(f, n) \in Nat
         /\ Total(f, n) > 0 <=> \E i \in 1 .. n : f[i] > 0
<1> DEFINE right(m) == /\ Total(f, m) \in Nat
                       /\ Total(f, m) > 0 <=> \E i \in 1 .. m : f[i] > 0
           T == {m \in Nat : m <= n => right(m)}
<1>1. 0 \in T
  BY TotalUnfolds
<1>2. ASSUME NEW m \in Nat, m \in T
      PROVE  m + 1 \in T
  <2> SUFFICES ASSUME m + 1 <= n PROVE right(m + 1)
    OBVIOUS
  <2>1. right(m)
    BY <1>2
  <2>2. Total(f, m + 1) = f[m + 1] + Total(f, (m + 1) - 1) /\ (m + 1) - 1 = m
    BY TotalUnfolds
  <2>3. f[m + 1] \in Nat
    OBVIOUS
  <2>4. \A i \in 1 .. m + 1 : i \in 1 .. m \/ i = m + 1
    OBVIOUS
  <2>5. (\E i \in 1 .. m + 1 : f[i] > 0) <=> (f[m + 1] > 0 \/ \E i \in 1 .. m : f[i] > 0)
    BY <2>4
  <2> QED
    BY <2>1, <2>2, <2>3, <2>5
<1>3. Nat \subseteq T
  <2> HIDE DEF T
  <2> QED
    BY <1>1, <1>2, SetInduction
<1> QED
  BY <1>3

\* The sum of the sums is the sum over both.
LEMMA TotalOfSums ==
  ASSUME NEW n \in Nat, NEW f, NEW g, NEW h,
         \A i \in 1 .. n : f[i] \in Nat /\ g[i] \in Nat /\ h[i] = f[i] + g[i]
  PROVE  Total(h, n) = Total(f, n) + Total(g, n)
<1> DEFINE T == {m \in Nat : m <= n => /\ Total(f, m) \in Nat /\ Total(g, m) \in Nat
                                       /\ Total(h, m) = Total(f, m) + Total(g, m)}
<1>1. 0 \in T
  BY TotalUnfolds
<1>2. ASSUME NEW m \in Nat, m \in T
      PROVE  m + 1 \in T
  <2> SUFFICES ASSUME m + 1 <= n
               PROVE  /\ Total(f, m + 1) \in Nat /\ Total(g, m + 1) \in Nat
                      /\ Total(h, m + 1) = Total(f, m + 1) + Total(g, m + 1)
    OBVIOUS
  <2>1. /\ Total(f, m) \in Nat /\ Total(g, m) \in Nat
        /\ Total(h, m) = Total(f, m) + Total(g, m)
    BY <1>2
  <2>2. /\ Total(f, m + 1) = f[m + 1] + Total(f, (m + 1) - 1)
        /\ Total(g, m + 1) = g[m + 1] + Total(g, (m + 1) - 1)
        /\ Total(h, m + 1) = h[m + 1] + Total(h, (m + 1) - 1)
        /\ (m + 1) - 1 = m
    BY TotalUnfolds
  <2>3. f[m + 1] \in Nat /\ g[m + 1] \in Nat /\ h[m + 1] = f[m + 1] + g[m + 1]
    OBVIOUS
  <2> QED
    BY <2>1, <2>2, <2>3
<1>3. Nat \subseteq T
  <2> HIDE DEF T
  <2> QED
    BY <1>1, <1>2, SetInduction
<1> QED
  BY <1>3

\* Sets with nothing in common are counted one by one.
LEMMA CountDisjoint ==
  ASSUME NEW S, NEW T, IsFiniteSet(S), IsFiniteSet(T), S \cap T = {}
  PROVE  /\ IsFiniteSet(S \cup T)
         /\ Cardinality(S) \in Nat /\ Cardinality(T) \in Nat
         /\ Cardinality(S \cup T) = Cardinality(S) + Cardinality(T)
<1>1. /\ IsFiniteSet(S \cup T)
      /\ Cardinality(S \cup T) = Cardinality(S) + Cardinality(T) - Cardinality(S \cap T)
  BY FS_Union
<1>2. Cardinality(S) \in Nat /\ Cardinality(T) \in Nat
  BY FS_CardinalityType
<1>3. Cardinality(S \cap T) = 0
  BY FS_EmptySet
<1> QED
  BY <1>1, <1>2, <1>3

\* What holds of some numbers up to a bound holds of finitely many.
LEMMA CountSome ==
  ASSUME NEW k \in Nat, NEW S \in SUBSET (1 .. k)
  PROVE  IsFiniteSet(S) /\ Cardinality(S) \in Nat /\ (Cardinality(S) = 0 <=> S = {})
<1>1. IsFiniteSet(1 .. k)
  BY FS_Interval
<1>2. IsFiniteSet(S)
  BY <1>1, FS_Subset
<1> QED
  BY <1>2, FS_CardinalityType, FS_EmptySet

\* The second parts of the pairs that begin with a.
Row(S, k, a) == {s \in 1 .. k : <<a, s>> \in S}

\* Pairs are counted row by row.
LEMMA TotalOfRows ==
  ASSUME NEW n \in Nat, NEW k \in Nat, NEW S \in SUBSET ((1 .. n) \X (1 .. k)), NEW h,
         \A a \in 1 .. n : h[a] = Cardinality(Row(S, k, a))
  PROVE  Cardinality(S) = Total(h, n)
<1> DEFINE upTo(m) == {p \in S : p[1] <= m}
           row(a) == Row(S, k, a)
           T == {m \in Nat : m <= n => IsFiniteSet(upTo(m)) /\ Cardinality(upTo(m)) = Total(h, m)}
<1>1. 0 \in T
  <2>1. upTo(0) = {}
    OBVIOUS
  <2> QED
    BY <2>1, FS_EmptySet, TotalUnfolds
<1>2. ASSUME NEW m \in Nat, m \in T
      PROVE  m + 1 \in T
  <2> SUFFICES ASSUME m + 1 <= n
               PROVE  /\ IsFiniteSet(upTo(m + 1))
                      /\ Cardinality(upTo(m + 1)) = Total(h, m + 1)
    OBVIOUS
  <2> DEFINE last == {p \in S : p[1] = m + 1}
             pair == [s \in row(m + 1) |-> <<m + 1, s>>]
  <2>1. IsFiniteSet(upTo(m)) /\ Cardinality(upTo(m)) = Total(h, m)
    BY <1>2
  <2>2. IsFiniteSet(row(m + 1))
    BY CountSome DEF Row
  <2>3. pair \in Bijection(row(m + 1), last)
    <3>1. pair \in [row(m + 1) -> last]
      BY DEF Row
    <3>2. \A s, t \in row(m + 1) : pair[s] = pair[t] => s = t
      OBVIOUS
    <3>3. \A p \in last : \E s \in row(m + 1) : pair[s] = p
      <4> SUFFICES ASSUME NEW p \in last PROVE \E s \in row(m + 1) : pair[s] = p
        OBVIOUS
      <4>1. p = <<m + 1, p[2]>> /\ p[2] \in row(m + 1)
        BY DEF Row
      <4> QED
        BY <4>1
    <3> HIDE DEF pair, last, row
    <3> QED
      BY <3>1, <3>2, <3>3, Fun_IsBij
  <2>4. IsFiniteSet(last) /\ Cardinality(last) = h[m + 1]
    <3>1. ExistsBijection(row(m + 1), last)
      BY <2>3, Fun_ExistsBij
    <3>2. Cardinality(row(m + 1)) = h[m + 1]
      OBVIOUS
    <3> HIDE DEF last, row
    <3> QED
      BY <2>2, <3>1, <3>2, FS_Bijection
  <2>5. upTo(m + 1) = upTo(m) \cup last /\ upTo(m) \cap last = {}
    OBVIOUS
  <2>6. /\ IsFiniteSet(upTo(m + 1))
        /\ Cardinality(upTo(m)) \in Nat /\ Cardinality(last) \in Nat
        /\ Cardinality(upTo(m + 1)) = Cardinality(upTo(m)) + Cardinality(last)
    <3> HIDE DEF upTo, last
    <3>1. /\ IsFiniteSet(upTo(m) \cup last)
          /\ Cardinality(upTo(m)) \in Nat /\ Cardinality(last) \in Nat
          /\ Cardinality(upTo(m) \cup last) = Cardinality(upTo(m)) + Cardinality(last)
      BY <2>1, <2>4, <2>5, CountDisjoint
    <3> QED
      BY <2>5, <3>1
  <2>7. Total(h, m + 1) = h[m + 1] + Total(h, (m + 1) - 1) /\ (m + 1) - 1 = m
    BY TotalUnfolds
  <2> HIDE DEF upTo, last
  <2> QED
    BY <2>1, <2>4, <2>6, <2>7
<1>3. Nat \subseteq T
  <2> HIDE DEF T
  <2> QED
    BY <1>1, <1>2, SetInduction
<1>4. upTo(n) = S
  OBVIOUS
<1> QED
  BY <1>3, <1>4

\* How many results have a status.
LEMMA WithStatusType ==
  ASSUME NEW rs \in Seq(StepResults), NEW v
  PROVE  /\ WithStatus(rs, v) \in Nat
         /\ WithStatus(rs, v) > 0 <=> \E s \in 1 .. Len(rs) : rs[s].status = v
<1> DEFINE S == {s \in 1 .. Len(rs) : rs[s].status = v}
<1>1. Len(rs) \in Nat /\ S \in SUBSET (1 .. Len(rs))
  OBVIOUS
<1>2. Cardinality(S) \in Nat /\ (Cardinality(S) = 0 <=> S = {})
  <2> HIDE DEF S
  <2> QED
    BY <1>1, CountSome
<1> QED
  BY <1>2 DEF WithStatus

\* A result is held, violated, in error or skipped.
LEMMA StatusesAddUp ==
  ASSUME NEW rs \in Seq(StepResults), NEW k \in Nat, Len(rs) <= k
  PROVE  Cardinality({s \in 1 .. k : s <= Len(rs) /\ rs[s].status # "SKIPPED"})
           = WithStatus(rs, "PASS") + (WithStatus(rs, "VIOLATION") + WithStatus(rs, "ERROR"))
<1> DEFINE at(v) == {s \in 1 .. Len(rs) : rs[s].status = v}
<1>1. ASSUME NEW v PROVE IsFiniteSet(at(v))
  <2>1. Len(rs) \in Nat /\ at(v) \in SUBSET (1 .. Len(rs))
    OBVIOUS
  <2> HIDE DEF at
  <2> QED
    BY <2>1, CountSome
<1>2. {s \in 1 .. k : s <= Len(rs) /\ rs[s].status # "SKIPPED"}
        = at("PASS") \cup (at("VIOLATION") \cup at("ERROR"))
  <2>1. \A s \in 1 .. Len(rs) : rs[s] \in StepResults
    OBVIOUS
  <2>2. \A s \in 1 .. Len(rs) : rs[s].status \in {"PASS", "VIOLATION", "ERROR", "SKIPPED"}
    BY <2>1, Zenon DEF StepResults, Verdicts
  <2> QED
    BY <2>2
<1>3. at("VIOLATION") \cap at("ERROR") = {} /\ at("PASS") \cap (at("VIOLATION") \cup at("ERROR")) = {}
  OBVIOUS
<1>4. /\ WithStatus(rs, "PASS") = Cardinality(at("PASS"))
      /\ WithStatus(rs, "VIOLATION") = Cardinality(at("VIOLATION"))
      /\ WithStatus(rs, "ERROR") = Cardinality(at("ERROR"))
  BY DEF WithStatus
<1> HIDE DEF at
<1>5. /\ IsFiniteSet(at("VIOLATION") \cup at("ERROR"))
      /\ Cardinality(at("VIOLATION") \cup at("ERROR"))
           = Cardinality(at("VIOLATION")) + Cardinality(at("ERROR"))
  BY <1>1, <1>3, CountDisjoint
<1>6. Cardinality(at("PASS") \cup (at("VIOLATION") \cup at("ERROR")))
        = Cardinality(at("PASS")) + Cardinality(at("VIOLATION") \cup at("ERROR"))
  BY <1>1, <1>3, <1>5, CountDisjoint
<1> QED
  BY <1>2, <1>4, <1>5, <1>6

-----------------------------------------------------------------------------
(* The verdict of all audits. *)

\* Every finished result is that of its step.
LEMMA ResultOfStep ==
  ASSUME IInv, NEW a \in 1 .. Len(audits), NEW s \in 1 .. Len(audits[a])
  PROVE  LET r == audits[a][s]
         IN  /\ r.runs \in Seq(Verdicts)
             /\ Steps(files[a])[s].skip => r = Skipped
             /\ ~Steps(files[a])[s].skip => /\ r.status = StatusOf(r.runs)
                                             /\ Len(r.runs) \in Nat \ {0}
<1> DEFINE r == audits[a][s]
<1>1. audits[a] \in Seq(StepResults) /\ Finished(Steps(files[a]), audits[a])
  BY DEF IInv, TypeOK, AuditsAreFinished, PlansAreChecked
<1>2. r \in StepResults
  BY <1>1
<1>3. Outcome(Steps(files[a])[s], r) /\ s \in 1 .. Len(Steps(files[a]))
  BY <1>1 DEF Finished, Outcomes
<1>4. Steps(files[a])[s].runs \in Nat \ {0}
  BY <1>3, StepsShape DEF IInv, TypeOK
<1> HIDE DEF r
<1>5. r.runs \in Seq(Verdicts)
  BY <1>2, Zenon DEF StepResults
<1>6. r = Result(r.runs) => r.status = StatusOf(r.runs)
  BY DEF Result
<1> QED
  BY <1>3, <1>4, <1>5, <1>6 DEF Outcome, r

\* The audits of a command that ran everything: one for each file, with one
\* result for each step.
LEMMA AuditsShape ==
  ASSUME IInv, NEW a \in 1 .. Len(audits)
  PROVE  /\ a \in 1 .. Len(files)
         /\ audits[a] \in Seq(StepResults)
         /\ Len(audits[a]) = IF command = "run" THEN 1 ELSE 4
         /\ \E s \in 1 .. Len(audits[a]) : ~Steps(files[a])[s].skip
<1>1. /\ audits[a] \in Seq(StepResults) /\ Finished(Steps(files[a]), audits[a])
      /\ a \in 1 .. Len(files) /\ Acceptable(files[a])
  BY Called DEF IInv, TypeOK, AuditsAreFinished, PlansAreChecked
<1>2. Len(audits[a]) = Len(Steps(files[a]))
  BY <1>1 DEF Finished
<1>3. Len(Steps(files[a])) = IF command = "run" THEN 1 ELSE 4
  BY StepsShape DEF IInv, TypeOK
<1>4. \E s \in 1 .. Len(Steps(files[a])) : ~Steps(files[a])[s].skip
  <2>1. CASE command = "audit"
    BY <1>1, <2>1 DEF Acceptable, Runnable
  <2>2. CASE command = "run"
    <3>1. Steps(files[a]) = <<[config |-> files[a], runs |-> call.times, skip |-> FALSE]>>
      BY <2>2 DEF Steps
    <3>2. 1 \in 1 .. Len(Steps(files[a])) /\ Steps(files[a])[1].skip = FALSE
      BY <3>1
    <3> QED
      BY <3>2, Zenon
  <2> QED
    BY <2>1, <2>2, Called DEF IInv, TypeOK
<1> QED
  BY <1>1, <1>2, <1>3, <1>4

\* The runs of all audits, one by one.
LEMMA InAllRuns ==
  ASSUME NEW v
  PROVE  v \in AllRuns <=>
           \E a \in 1 .. Len(audits) : \E s \in 1 .. Len(audits[a]) :
             \E i \in 1 .. Len(audits[a][s].runs) : audits[a][s].runs[i] = v
<1> DEFINE ofStep(a, s) == {audits[a][s].runs[i] : i \in 1 .. Len(audits[a][s].runs)}
           ofAudit(a) == UNION {ofStep(a, s) : s \in 1 .. Len(audits[a])}
<1>1. AllRuns = UNION {ofAudit(a) : a \in 1 .. Len(audits)}
  BY DEF AllRuns
<1>2. \A a, s : v \in ofStep(a, s) <=> \E i \in 1 .. Len(audits[a][s].runs) : audits[a][s].runs[i] = v
  BY Zenon
<1> HIDE DEF ofStep
<1>3. \A a : v \in ofAudit(a) <=> \E s \in 1 .. Len(audits[a]) : v \in ofStep(a, s)
  BY Zenon
<1> HIDE DEF ofAudit
<1>4. v \in AllRuns <=> \E a \in 1 .. Len(audits) : v \in ofAudit(a)
  BY <1>1, Zenon
<1>5. ASSUME v \in AllRuns
      PROVE  \E a \in 1 .. Len(audits) : \E s \in 1 .. Len(audits[a]) :
               \E i \in 1 .. Len(audits[a][s].runs) : audits[a][s].runs[i] = v
  <2>1. PICK a \in 1 .. Len(audits) : v \in ofAudit(a)
    BY <1>4, <1>5
  <2>2. PICK s \in 1 .. Len(audits[a]) : v \in ofStep(a, s)
    BY <1>3, <2>1
  <2> QED
    BY <1>2, <2>2
<1>6. ASSUME NEW a \in 1 .. Len(audits), NEW s \in 1 .. Len(audits[a]),
             NEW i \in 1 .. Len(audits[a][s].runs), audits[a][s].runs[i] = v
      PROVE  v \in AllRuns
  BY <1>2, <1>3, <1>4, <1>6
<1> QED
  BY <1>5, <1>6

\* A status is in the audits exactly when the runs are as the status says.
LEMMA StatusesAreRuns ==
  ASSUME IInv
  PROVE  /\ (\E a \in 1 .. Len(audits) : \E s \in 1 .. Len(audits[a]) :
               audits[a][s].status = "VIOLATION") <=> "VIOLATION" \in AllRuns
         /\ "VIOLATION" \notin AllRuns =>
              ((\E a \in 1 .. Len(audits) : \E s \in 1 .. Len(audits[a]) :
                  audits[a][s].status = "ERROR") <=> "ERROR" \in AllRuns)
<1>1. ASSUME NEW a \in 1 .. Len(audits), NEW s \in 1 .. Len(audits[a])
      PROVE  LET r == audits[a][s]
                 has(v) == \E i \in 1 .. Len(r.runs) : r.runs[i] = v
             IN  /\ r.status = "VIOLATION" <=> has("VIOLATION")
                 /\ r.status = "ERROR" <=> ~has("VIOLATION") /\ has("ERROR")
  <2> DEFINE r == audits[a][s]
  <2>1. CASE Steps(files[a])[s].skip
    <3>1. r = Skipped
      BY <2>1, ResultOfStep
    <3> HIDE DEF r
    <3>2. r.status = "SKIPPED" /\ r.runs = <<>>
      BY <3>1 DEF Skipped
    <3> QED
      BY <3>2 DEF r
  <2>2. CASE ~Steps(files[a])[s].skip
    <3>1. r.runs \in Seq(Verdicts) /\ r.status = StatusOf(r.runs)
      BY <2>2, ResultOfStep
    <3> HIDE DEF r
    <3> QED
      BY <3>1, WorstOfRuns DEF r
  <2> QED
    BY <2>1, <2>2
<1>2. ASSUME NEW v, v \in AllRuns
      PROVE  \E a \in 1 .. Len(audits) : \E s \in 1 .. Len(audits[a]) :
               \E i \in 1 .. Len(audits[a][s].runs) : audits[a][s].runs[i] = v
  BY <1>2, InAllRuns
<1>3. ASSUME NEW v, NEW a \in 1 .. Len(audits), NEW s \in 1 .. Len(audits[a]),
             NEW i \in 1 .. Len(audits[a][s].runs), audits[a][s].runs[i] = v
      PROVE  v \in AllRuns
  BY <1>3, InAllRuns
<1>4. ASSUME "VIOLATION" \in AllRuns
      PROVE  \E a \in 1 .. Len(audits) : \E s \in 1 .. Len(audits[a]) :
               audits[a][s].status = "VIOLATION"
  <2>1. PICK a \in 1 .. Len(audits) : \E s \in 1 .. Len(audits[a]) :
          \E i \in 1 .. Len(audits[a][s].runs) : audits[a][s].runs[i] = "VIOLATION"
    BY <1>2, <1>4
  <2>2. PICK s \in 1 .. Len(audits[a]) :
          \E i \in 1 .. Len(audits[a][s].runs) : audits[a][s].runs[i] = "VIOLATION"
    BY <2>1
  <2>3. audits[a][s].status = "VIOLATION"
    BY <1>1, <2>2
  <2> QED
    BY <2>3
<1>5. ASSUME "ERROR" \in AllRuns, "VIOLATION" \notin AllRuns
      PROVE  \E a \in 1 .. Len(audits) : \E s \in 1 .. Len(audits[a]) :
               audits[a][s].status = "ERROR"
  <2>1. PICK a \in 1 .. Len(audits) : \E s \in 1 .. Len(audits[a]) :
          \E i \in 1 .. Len(audits[a][s].runs) : audits[a][s].runs[i] = "ERROR"
    BY <1>2, <1>5
  <2>2. PICK s \in 1 .. Len(audits[a]) :
          \E i \in 1 .. Len(audits[a][s].runs) : audits[a][s].runs[i] = "ERROR"
    BY <2>1
  <2>3. ~\E i \in 1 .. Len(audits[a][s].runs) : audits[a][s].runs[i] = "VIOLATION"
    BY <1>3, <1>5
  <2>4. audits[a][s].status = "ERROR"
    BY <1>1, <2>2, <2>3
  <2> QED
    BY <2>4
<1>6. ASSUME NEW a \in 1 .. Len(audits), NEW s \in 1 .. Len(audits[a])
      PROVE  /\ audits[a][s].status = "VIOLATION" => "VIOLATION" \in AllRuns
             /\ audits[a][s].status = "ERROR" => "ERROR" \in AllRuns
  <2>1. /\ audits[a][s].status = "VIOLATION" =>
             \E i \in 1 .. Len(audits[a][s].runs) : audits[a][s].runs[i] = "VIOLATION"
        /\ audits[a][s].status = "ERROR" =>
             \E i \in 1 .. Len(audits[a][s].runs) : audits[a][s].runs[i] = "ERROR"
    BY <1>1
  <2> QED
    BY <1>3, <2>1
<1> QED
  BY <1>4, <1>5, <1>6

\* A count over all audits is positive exactly when one result counts.
LEMMA OverIsSome ==
  ASSUME IInv, NEW field, NEW v,
         \A rs : Summary(rs)[field] = WithStatus(rs, v)
  PROVE  /\ Over(audits, field) \in Nat
         /\ Over(audits, field) > 0 <=>
              \E a \in 1 .. Len(audits) : \E s \in 1 .. Len(audits[a]) : audits[a][s].status = v
<1> DEFINE f == [a \in 1 .. Len(audits) |-> Summary(audits[a])[field]]
<1>1. Len(audits) \in Nat
  BY DEF IInv, TypeOK
<1>2. \A a \in 1 .. Len(audits) :
        /\ f[a] \in Nat
        /\ f[a] > 0 <=> \E s \in 1 .. Len(audits[a]) : audits[a][s].status = v
  BY WithStatusType, AuditsShape
<1>3. Over(audits, field) = Total(f, Len(audits))
  BY DEF Over
<1> HIDE DEF f
<1>4. /\ Total(f, Len(audits)) \in Nat
      /\ Total(f, Len(audits)) > 0 <=> \E a \in 1 .. Len(audits) : f[a] > 0
  BY <1>1, <1>2, TotalOfNats
<1> QED
  BY <1>2, <1>3, <1>4

\* The fields of a report are the counts of its results.
LEMMA SummaryFields ==
  /\ \A rs : Summary(rs)["held"] = WithStatus(rs, "PASS")
  /\ \A rs : Summary(rs)["violations"] = WithStatus(rs, "VIOLATION")
  /\ \A rs : Summary(rs)["errors"] = WithStatus(rs, "ERROR")
BY DEF Summary

\* The verdict of a command that ran everything is that of its worst run.
LEMMA OverallIsWorst ==
  ASSUME IInv, AllFinished
  PROVE  /\ Overall = "VIOLATION" <=> "VIOLATION" \in AllRuns
         /\ Overall = "ERROR" <=> "VIOLATION" \notin AllRuns /\ "ERROR" \in AllRuns
         /\ Overall = "PASS" <=> "VIOLATION" \notin AllRuns /\ "ERROR" \notin AllRuns
<1>1. CASE command = "run"
  <2>1. Len(audits) = 1 /\ Len(audits[1]) = 1
    <3>1. Len(audits) = 1
      BY <1>1, Called DEF IInv, TypeOK, AllFinished
    <3> QED
      BY <1>1, <3>1, AuditsShape
  <2>2. ~Steps(files[1])[1].skip
    <3>1. 1 \in 1 .. Len(audits) /\ 1 .. Len(audits[1]) = {1}
      BY <2>1
    <3>2. \E s \in 1 .. Len(audits[1]) : ~Steps(files[1])[s].skip
      BY <3>1, AuditsShape
    <3> QED
      BY <3>1, <3>2, Zenon
  <2>3. /\ audits[1][1].runs \in Seq(Verdicts)
        /\ Overall = StatusOf(audits[1][1].runs)
    BY <1>1, <2>1, ResultOfStep DEF Overall
  <2>4. \A v : v \in AllRuns <=>
          \E i \in 1 .. Len(audits[1][1].runs) : audits[1][1].runs[i] = v
    BY <2>1, InAllRuns
  <2> DEFINE verdicts == audits[1][1].runs
  <2>5. \A i \in 1 .. Len(verdicts) : verdicts[i] \in Verdicts
    BY <2>3
  <2> HIDE DEF verdicts
  <2>6. /\ StatusOf(verdicts) = "VIOLATION" <=> \E i \in 1 .. Len(verdicts) : verdicts[i] = "VIOLATION"
        /\ StatusOf(verdicts) = "ERROR" <=>
             /\ \A i \in 1 .. Len(verdicts) : verdicts[i] # "VIOLATION"
             /\ \E i \in 1 .. Len(verdicts) : verdicts[i] = "ERROR"
        /\ StatusOf(verdicts) = "PASS" <=> \A i \in 1 .. Len(verdicts) : verdicts[i] = "PASS"
    BY <2>3, WorstOfRuns DEF verdicts
  <2> QED
    BY <2>3, <2>4, <2>5, <2>6 DEF verdicts, Verdicts
<1>2. CASE command = "audit"
  <2>1. Overall = Worst(Over(audits, "violations"), Over(audits, "errors"))
    BY <1>2 DEF Overall, Combine
  <2>2. /\ Over(audits, "violations") > 0 <=> "VIOLATION" \in AllRuns
        /\ "VIOLATION" \notin AllRuns => (Over(audits, "errors") > 0 <=> "ERROR" \in AllRuns)
    <3>1. Over(audits, "violations") > 0 <=>
            \E a \in 1 .. Len(audits) : \E s \in 1 .. Len(audits[a]) : audits[a][s].status = "VIOLATION"
      BY SummaryFields, OverIsSome
    <3>2. Over(audits, "errors") > 0 <=>
            \E a \in 1 .. Len(audits) : \E s \in 1 .. Len(audits[a]) : audits[a][s].status = "ERROR"
      BY SummaryFields, OverIsSome
    <3> QED
      BY <3>1, <3>2, StatusesAreRuns
  <2> QED
    BY <2>1, <2>2 DEF Worst
<1> QED
  BY <1>1, <1>2, Called DEF IInv, TypeOK

\* Every verdict there is, is one of the three.
LEMMA RunsAreVerdicts ==
  ASSUME IInv
  PROVE  AllRuns \subseteq Verdicts
<1> SUFFICES ASSUME NEW v \in AllRuns PROVE v \in Verdicts
  OBVIOUS
<1>1. PICK a \in 1 .. Len(audits) : \E s \in 1 .. Len(audits[a]) :
        \E i \in 1 .. Len(audits[a][s].runs) : audits[a][s].runs[i] = v
  BY InAllRuns
<1>2. PICK s \in 1 .. Len(audits[a]) :
        \E i \in 1 .. Len(audits[a][s].runs) : audits[a][s].runs[i] = v
  BY <1>1
<1>3. audits[a][s].runs \in Seq(Verdicts)
  BY ResultOfStep
<1> QED
  BY <1>2, <1>3

\* A command that finished has run something in every audit.
LEMMA SomethingRan ==
  ASSUME IInv, NEW a \in 1 .. Len(audits)
  PROVE  \E s \in 1 .. Len(audits[a]) : /\ audits[a][s].status = StatusOf(audits[a][s].runs)
                                        /\ Len(audits[a][s].runs) \in Nat \ {0}
                                        /\ audits[a][s].runs \in Seq(Verdicts)
<1>1. PICK s \in 1 .. Len(audits[a]) : ~Steps(files[a])[s].skip
  BY AuditsShape
<1> QED
  BY <1>1, ResultOfStep

\* The exit code is that of the worst run: 0 only when every experiment held
\* and every report was written, 1 only with a violation.
THEOREM ExitTellsVerdict == Spec => []ExitIsVerdict
<1>1. IInv => ExitIsVerdict
  <2> SUFFICES ASSUME IInv PROVE ExitIsVerdict
    OBVIOUS
  <2>0. Nil \notin Int
    BY NilAssumption DEF NilAssumption
  <2>1. Exits
    BY DEF IInv
  <2>2. ASSUME exit = 0
        PROVE  AllRuns = {"PASS"} /\ written = Len(InOrder)
    <3>1. AllFinished /\ written = Len(InOrder) /\ Overall = "PASS"
      BY <2>0, <2>1, <2>2 DEF Exits
    <3>2. AllRuns \subseteq {"PASS"}
      BY <3>1, OverallIsWorst, RunsAreVerdicts DEF Verdicts
    <3>3. 1 \in 1 .. Len(audits)
      BY <3>1, Called DEF AllFinished, IInv, TypeOK
    <3>4. PICK s \in 1 .. Len(audits[1]) : Len(audits[1][s].runs) \in Nat \ {0}
      BY <3>3, SomethingRan
    <3>5. audits[1][s].runs[1] \in AllRuns
      <4>1. 1 \in 1 .. Len(audits[1][s].runs)
        BY <3>4
      <4> QED
        BY <3>3, <4>1, InAllRuns
    <3> QED
      BY <3>1, <3>2, <3>5
  <2>3. ASSUME exit = 1
        PROVE  "VIOLATION" \in AllRuns
    <3>1. AllFinished /\ Overall = "VIOLATION"
      BY <2>0, <2>1, <2>3 DEF Exits
    <3> QED
      BY <3>1, OverallIsWorst
  <2>4. ASSUME exit = 2, written >= Len(InOrder)
        PROVE  "VIOLATION" \notin AllRuns
    <3>1. CASE audits = <<>>
      BY <3>1, InAllRuns
    <3>2. CASE AllFinished /\ Overall # "VIOLATION"
      BY <3>2, OverallIsWorst
    <3>3. written \in Nat /\ Len(InOrder) \in Nat
      BY DEF IInv, TypeOK, InOrder
    <3> QED
      BY <2>0, <2>1, <2>4, <3>1, <3>2, <3>3 DEF Exits
  <2>5. written \in Nat /\ Len(InOrder) \in Nat
    BY DEF IInv, TypeOK, InOrder
  <2> QED
    BY <2>2, <2>3, <2>4, <2>5 DEF ExitIsVerdict
<1> QED
  BY <1>1, Invariance, PTL

\* A command that exits with 0 has a passed experiment in every audit.
THEOREM SuccessHasPassed == Spec => []SuccessIsEarned
<1>1. IInv => SuccessIsEarned
  <2> SUFFICES ASSUME IInv, exit = 0, NEW e \in Endpoints
               PROVE  \E s \in 1 .. Len(audits[e]) : audits[e][s].status = "PASS"
    BY DEF SuccessIsEarned
  <2>1. Nil \notin Int
    BY NilAssumption DEF NilAssumption
  <2>2. AllFinished /\ Overall = "PASS"
    BY <2>1 DEF IInv, Exits
  <2>3. AllRuns \subseteq {"PASS"}
    BY <2>2, OverallIsWorst, RunsAreVerdicts DEF Verdicts
  <2>4. e \in 1 .. Len(audits)
    BY <2>2 DEF AllFinished, Endpoints
  <2>5. PICK s \in 1 .. Len(audits[e]) : /\ audits[e][s].status = StatusOf(audits[e][s].runs)
                                         /\ audits[e][s].runs \in Seq(Verdicts)
    BY <2>4, SomethingRan
  <2>6. \A i \in 1 .. Len(audits[e][s].runs) : audits[e][s].runs[i] = "PASS"
    BY <2>3, <2>4, InAllRuns
  <2>7. StatusOf(audits[e][s].runs) = "PASS"
    BY <2>5, <2>6, WorstOfRuns
  <2> QED
    BY <2>5, <2>7
<1> QED
  BY <1>1, Invariance, PTL

-----------------------------------------------------------------------------
(* What the reports say. *)

\* The cases of a result other than a skipped one are its runs.
LEMMA CasesAreRuns ==
  ASSUME IInv, NEW a \in 1 .. Len(audits), NEW s \in 1 .. Len(audits[a]),
         NEW v, v # "SKIPPED"
  PROVE  LET r == audits[a][s]
         IN  Count(CasesOf(r), v) = Count(r.runs, v)
<1> DEFINE r == audits[a][s]
<1>1. r.runs \in Seq(Verdicts)
  BY ResultOfStep
<1>2. CASE Steps(files[a])[s].skip
  <2>1. r = Skipped
    BY <1>2, ResultOfStep
  <2> HIDE DEF r
  <2>2. CasesOf(r) = <<"SKIPPED">> /\ r.runs = <<>>
    BY <2>1 DEF CasesOf, Skipped
  <2>3. /\ {i \in 1 .. Len(<<"SKIPPED">>) : <<"SKIPPED">>[i] = v} = {}
        /\ {i \in 1 .. Len(<< >>) : << >>[i] = v} = {}
    OBVIOUS
  <2>4. Count(CasesOf(r), v) = Count(r.runs, v)
    BY <2>2, <2>3 DEF Count
  <2> QED
    BY <2>4 DEF r
<1>3. CASE ~Steps(files[a])[s].skip
  <2>1. r.status = StatusOf(r.runs)
    BY <1>3, ResultOfStep
  <2> HIDE DEF r
  <2>2. CasesOf(r) = r.runs
    BY <1>1, <2>1, WorstOfRuns DEF CasesOf, Verdicts
  <2> QED
    BY <2>2 DEF r
<1> QED
  BY <1>2, <1>3

\* The cases of a verdict over all audits, and over their runs.
LEMMA CasesOverall ==
  ASSUME IInv, NEW v, v # "SKIPPED"
  PROVE  /\ Cases(audits, v) \in Nat
         /\ Cases(audits, v) > 0 <=> v \in AllRuns
         /\ Cases(audits, v) =
              Total([a \in 1 .. Len(audits) |->
                       Total([s \in 1 .. Len(audits[a]) |-> Count(audits[a][s].runs, v)],
                             Len(audits[a]))], Len(audits))
<1> DEFINE inner(a) == [s \in 1 .. Len(audits[a]) |-> Count(audits[a][s].runs, v)]
           outer == [a \in 1 .. Len(audits) |-> Total(inner(a), Len(audits[a]))]
<1>1. Cases(audits, v) = Total(outer, Len(audits))
  <2> DEFINE cases(a) == [s \in 1 .. Len(audits[a]) |-> Count(CasesOf(audits[a][s]), v)]
  <2>1. ASSUME NEW a \in 1 .. Len(audits)
        PROVE  cases(a) = inner(a)
    <3>1. \A s \in 1 .. Len(audits[a]) :
            Count(CasesOf(audits[a][s]), v) = Count(audits[a][s].runs, v)
      BY CasesAreRuns
    <3> QED
      BY <3>1, Zenon
  <2>2. Cases(audits, v) =
          Total([a \in 1 .. Len(audits) |-> Total(cases(a), Len(audits[a]))], Len(audits))
    BY DEF Cases
  <2> HIDE DEF cases, inner
  <2>3. [a \in 1 .. Len(audits) |-> Total(cases(a), Len(audits[a]))]
          = [a \in 1 .. Len(audits) |-> Total(inner(a), Len(audits[a]))]
    BY <2>1
  <2> QED
    BY <2>2, <2>3
<1>2. ASSUME NEW a \in 1 .. Len(audits)
      PROVE  /\ outer[a] \in Nat
             /\ outer[a] > 0 <=>
                  \E s \in 1 .. Len(audits[a]) :
                    \E i \in 1 .. Len(audits[a][s].runs) : audits[a][s].runs[i] = v
  <2>1. \A s \in 1 .. Len(audits[a]) :
          /\ inner(a)[s] \in Nat
          /\ inner(a)[s] > 0 <=> \E i \in 1 .. Len(audits[a][s].runs) : audits[a][s].runs[i] = v
    <3>1. ASSUME NEW s \in 1 .. Len(audits[a])
          PROVE  /\ Count(audits[a][s].runs, v) \in Nat
                 /\ Count(audits[a][s].runs, v) > 0 <=>
                      \E i \in 1 .. Len(audits[a][s].runs) : audits[a][s].runs[i] = v
      <4>1. audits[a][s].runs \in Seq(Verdicts)
        BY ResultOfStep
      <4> QED
        BY <4>1, CountType
    <3> QED
      BY <3>1
  <2>2. Len(audits[a]) \in Nat
    BY AuditsShape
  <2>3. outer[a] = Total(inner(a), Len(audits[a]))
    OBVIOUS
  <2> HIDE DEF inner, outer
  <2>4. /\ Total(inner(a), Len(audits[a])) \in Nat
        /\ Total(inner(a), Len(audits[a])) > 0 <=> \E s \in 1 .. Len(audits[a]) : inner(a)[s] > 0
    BY <2>1, <2>2, TotalOfNats
  <2> QED
    BY <2>1, <2>3, <2>4
<1>3. Len(audits) \in Nat
  BY DEF IInv, TypeOK
<1>4. Cases(audits, v) = Total([a \in 1 .. Len(audits) |-> Total(inner(a), Len(audits[a]))], Len(audits))
  BY <1>1
<1> HIDE DEF outer
<1>5. /\ Total(outer, Len(audits)) \in Nat
      /\ Total(outer, Len(audits)) > 0 <=> \E a \in 1 .. Len(audits) : outer[a] > 0
  BY <1>2, <1>3, TotalOfNats
<1>6. v \in AllRuns <=> \E a \in 1 .. Len(audits) : outer[a] > 0
  BY <1>2, InAllRuns
<1> QED
  BY <1>1, <1>4, <1>5, <1>6

\* The steps that ran are those that were held, violated or in error.
LEMMA StepsThatRan ==
  ASSUME IInv, AllFinished
  PROVE  Cardinality({p \in (1 .. Len(audits)) \X (1 .. 4) :
                        p[2] <= Len(audits[p[1]]) /\ audits[p[1]][p[2]].status # "SKIPPED"})
           = Combine(audits).held + Combine(audits).violations + Combine(audits).errors
<1> DEFINE n == Len(audits)
           ran == {p \in (1 .. n) \X (1 .. 4) :
                     p[2] <= Len(audits[p[1]]) /\ audits[p[1]][p[2]].status # "SKIPPED"}
           count(field) == [a \in 1 .. n |-> Summary(audits[a])[field]]
           held == count("held")
           violations == count("violations")
           errors == count("errors")
           found == [a \in 1 .. n |-> violations[a] + errors[a]]
           rows == [a \in 1 .. n |-> Cardinality(Row(ran, 4, a))]
<1>1. n \in Nat
  BY DEF IInv, TypeOK
<1>2. \A a \in 1 .. n : audits[a] \in Seq(StepResults) /\ Len(audits[a]) <= 4
  BY AuditsShape
<1>3. ASSUME NEW a \in 1 .. n
      PROVE  /\ held[a] \in Nat /\ violations[a] \in Nat /\ errors[a] \in Nat
             /\ rows[a] = held[a] + found[a]
  <2>1. /\ held[a] = WithStatus(audits[a], "PASS")
        /\ violations[a] = WithStatus(audits[a], "VIOLATION")
        /\ errors[a] = WithStatus(audits[a], "ERROR")
        /\ found[a] = WithStatus(audits[a], "VIOLATION") + WithStatus(audits[a], "ERROR")
    BY SummaryFields
  <2>2. Row(ran, 4, a)
          = {s \in 1 .. 4 : s <= Len(audits[a]) /\ audits[a][s].status # "SKIPPED"}
    BY DEF Row
  <2>3. rows[a] = Cardinality({s \in 1 .. 4 : s <= Len(audits[a]) /\ audits[a][s].status # "SKIPPED"})
    BY <2>2
  <2> HIDE DEF held, violations, errors, found, rows
  <2> QED
    BY <1>2, <2>1, <2>3, WithStatusType, StatusesAddUp
<1>4. /\ Combine(audits).held = Total(held, n)
      /\ Combine(audits).violations = Total(violations, n)
      /\ Combine(audits).errors = Total(errors, n)
  BY DEF Combine, Over
<1>5. \A a \in 1 .. n : found[a] = violations[a] + errors[a]
  OBVIOUS
<1>6. ran \in SUBSET ((1 .. n) \X (1 .. 4))
  OBVIOUS
<1>7. \A a \in 1 .. n : rows[a] = Cardinality(Row(ran, 4, a))
  OBVIOUS
<1> HIDE DEF n, ran, held, violations, errors, found, rows
<1>8. Cardinality(ran) = Total(rows, n)
  <2> DEFINE k == 4
  <2>1. k \in Nat /\ ran \in SUBSET ((1 .. n) \X (1 .. k))
    BY <1>6
  <2>2. \A a \in 1 .. n : rows[a] = Cardinality(Row(ran, k, a))
    BY <1>7
  <2> HIDE DEF k
  <2> QED
    BY <1>1, <2>1, <2>2, TotalOfRows, Zenon
<1>9. Total(found, n) = Total(violations, n) + Total(errors, n)
  BY <1>1, <1>3, <1>5, TotalOfSums
<1>10. Total(rows, n) = Total(held, n) + Total(found, n)
  <2>1. \A a \in 1 .. n : held[a] \in Nat /\ found[a] \in Nat /\ rows[a] = held[a] + found[a]
    BY <1>3, <1>5
  <2> QED
    BY <1>1, <2>1, TotalOfSums
<1>11. Total(held, n) \in Nat /\ Total(violations, n) \in Nat /\ Total(errors, n) \in Nat
  BY <1>1, <1>3, TotalOfNats
<1>12. Cardinality(ran) = Combine(audits).held + Combine(audits).violations + Combine(audits).errors
  BY <1>4, <1>8, <1>9, <1>10, <1>11
<1> QED
  BY <1>12 DEF ran, n

\* The counts of the JUnit file, the totals and the exit code say the same.
THEOREM ReportsSayTheSame == Spec => []ReportsAgree
<1>1. IInv => ReportsAgree
  <2> SUFFICES ASSUME IInv, pc = "write" PROVE ReportsAgree
    BY DEF ReportsAgree
  <2>1. AllFinished
    BY DEF IInv, Phases
  <2>2. /\ JUnit(audits).failures = Cases(audits, "VIOLATION")
        /\ JUnit(audits).errors = Cases(audits, "ERROR")
    BY DEF JUnit
  <2>3. /\ Cases(audits, "VIOLATION") \in Nat
        /\ Cases(audits, "VIOLATION") > 0 <=> "VIOLATION" \in AllRuns
        /\ Cases(audits, "ERROR") > 0 <=> "ERROR" \in AllRuns
    BY CasesOverall
  <2>4. /\ Overall = "VIOLATION" <=> "VIOLATION" \in AllRuns
        /\ Overall = "ERROR" <=> "VIOLATION" \notin AllRuns /\ "ERROR" \in AllRuns
    BY <2>1, OverallIsWorst
  <2>5. Cases(audits, "VIOLATION") = Total([a \in 1 .. Len(audits) |->
          Total([s \in 1 .. Len(audits[a]) |-> Count(audits[a][s].runs, "VIOLATION")],
                Len(audits[a]))], Len(audits))
    BY CasesOverall
  <2>6. /\ JUnit(audits).failures > 0 <=> Overall = "VIOLATION"
        /\ JUnit(audits).failures = 0 => (JUnit(audits).errors > 0 <=> Overall = "ERROR")
    BY <2>2, <2>3, <2>4
  <2> QED
    BY <2>1, <2>2, <2>5, <2>6, StepsThatRan DEF ReportsAgree
<1> QED
  BY <1>1, Invariance, PTL
=============================================================================
