-------------------------------- MODULE Plan --------------------------------
(***************************************************************************)
(* Scenario settings: which ones config.Validate lets through for a        *)
(* scenario, and how audit.Plan derives one scenario per failure from one  *)
(* file. Settings that every scenario needs alike (URLs, observations,     *)
(* methods, durations) are the one flag wellFormed.                        *)
(***************************************************************************)
EXTENDS RetryCheck, Sequences, Functions

CONSTANTS
  Fixed,    \* the values of bodies without any number, string or boolean
  Huge      \* a number so large that adding one does not change it

\* A retry_response block as it is written; checkRetryResponse only asks
\* what is in its lists.
Rules == [allowed : Seq(Int), same : Seq(STRING), ids : BOOLEAN]
AsRead(rule) ==
  IF rule = Nil THEN Nil
  ELSE [allowed |-> Range(rule.allowed), same |-> Range(rule.same), ids |-> rule.ids]

ASSUME PlanAssumption ==
  /\ Huge \in Int
  /\ Fixed \cap Int = {}
  /\ Nil \notin Rules /\ Nil \notin [allowed : SUBSET Int, same : SUBSET STRING, ids : BOOLEAN]

\* A JSON body is its value (for one that audit can change, what is at the
\* first such place), the text that value is written in, and its size: an
\* edge body is within 1 MiB, but no longer once it is written anew.
JSON == [value : Int \cup Fixed, spelling : STRING, size : {"small", "edge", "large"}]

\* What a file decodes to: the fields of config.Config that matter here.
Settings ==
  [scenario    : STRING,
   concurrency : Int,
   managed     : BOOLEAN,
   key         : BOOLEAN,
   body        : {Nil} \cup JSON,
   changed     : {Nil} \cup JSON,
   reuse       : Int,
   rule        : {Nil} \cup Rules,
   burst       : {Nil} \cup [allowed : Seq(Int), noServerErrors : BOOLEAN],
   wellFormed  : BOOLEAN]

Scenarios == {"lost-response", "concurrent-duplicates", "crash-after-ack", "key-reuse"}
Retried == {"lost-response", "crash-after-ack"}

\* Workers and ReuseStatus: zero asks for the default.
Workers(c) == IF c.concurrency = 0 THEN 16 ELSE c.concurrency
ReuseStatus(c) == IF c.reuse = 0 THEN 422 ELSE c.reuse

\* Lists in a rule have at most sixteen entries, all different.
ShortList(list) == Len(list) <= 16 /\ IsInjective(list)

ValidStatuses(list) == ShortList(list) /\ Range(list) \subseteq 200 .. 599
ValidPointers(list) == ShortList(list) /\ Range(list) \subseteq Pointers

\* reflect.DeepEqual of two decoded bodies: layout does not count, but a
\* json.Number is its text.
SameJSON(a, b) == a.value = b.value /\ (a.value \in Int => a.spelling = b.spelling)

ValidReuse(c) ==
  /\ c.body # Nil /\ c.changed # Nil
  /\ c.changed.size # "large"
  /\ ~SameJSON(c.body, c.changed)
  /\ ReuseStatus(c) \in 400 .. 499
  /\ c.key

Validate(c) ==
  /\ c.scenario \in Scenarios
  /\ IF c.scenario = "concurrent-duplicates" THEN Workers(c) \in 2 .. 64 ELSE c.concurrency = 0
  /\ c.rule # Nil => /\ c.scenario \in Retried
                     /\ ValidStatuses(c.rule.allowed) /\ ValidPointers(c.rule.same)
  /\ c.burst # Nil => /\ c.scenario = "concurrent-duplicates"
                      /\ c.burst.allowed # <<>> \/ c.burst.noServerErrors
                      /\ ValidStatuses(c.burst.allowed)
  /\ c.wellFormed
  /\ c.body # Nil => c.body.size # "large"
  /\ IF c.scenario = "key-reuse" THEN ValidReuse(c) ELSE c.changed = Nil /\ c.reuse = 0
  /\ c.scenario = "crash-after-ack" => c.managed

-----------------------------------------------------------------------------
(* audit.Plan *)

\* Mutant: single-scenario settings stay in the copy.
MutClean(base) == [base EXCEPT !.concurrency = 0]

Clean(base) ==
  [base EXCEPT !.concurrency = 0, !.burst = Nil, !.rule = Nil, !.changed = Nil, !.reuse = 0]

\* Mutant: ids are added to a rule that is absent only.
MutWithIDs(rule) ==
  IF rule = Nil THEN [allowed |-> <<>>, same |-> <<>>, ids |-> TRUE] ELSE rule

WithIDs(rule) ==
  IF rule = Nil THEN [allowed |-> <<>>, same |-> <<>>, ids |-> TRUE]
  ELSE [rule EXCEPT !.ids = rule.ids \/ rule.same = <<>>]

\* ChangeBody: the value goes up by one and the whole body is written anew.
ChangeBody(body) ==
  [value    |-> IF body.value = Huge THEN Huge ELSE body.value + 1,
   spelling |-> "canonical",
   size     |-> IF body.size = "small" THEN "small" ELSE "large"]

Changeable(body) == body # Nil /\ body.value \in Int

LostConfig(base) ==
  [Clean(base) EXCEPT !.scenario = "lost-response", !.rule = WithIDs(base.rule)]

BurstConfig(base) ==
  [Clean(base) EXCEPT !.scenario = "concurrent-duplicates", !.concurrency = base.concurrency,
     !.burst = IF base.burst = Nil THEN [allowed |-> <<>>, noServerErrors |-> TRUE] ELSE base.burst]

ReuseConfig(base) ==
  [Clean(base) EXCEPT !.scenario = "key-reuse", !.reuse = base.reuse,
     !.changed = IF ~base.key THEN Nil
                 ELSE IF base.changed # Nil THEN base.changed
                 ELSE IF Changeable(base.body) THEN ChangeBody(base.body) ELSE Nil]

CrashConfig(base) ==
  [Clean(base) EXCEPT !.scenario = "crash-after-ack", !.rule = WithIDs(base.rule)]

Step(config, runs, possible) ==
  [config |-> config, runs |-> runs, skip |-> ~(possible /\ Validate(config))]

\* A step that cannot run, or whose settings do not validate, is skipped.
Plan(base, bursts) ==
  <<Step(LostConfig(base), 1, TRUE),
    Step(BurstConfig(base), bursts, TRUE),
    Step(ReuseConfig(base), 1, base.key /\ (base.changed # Nil \/ Changeable(base.body))),
    Step(CrashConfig(base), 1, base.managed)>>

\* Mutant: a plan of skipped steps is run.
MutRunnable(steps) == TRUE

Runnable(steps) == \E i \in 1 .. Len(steps) : ~steps[i].skip
=============================================================================
