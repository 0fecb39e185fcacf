# RecoveryLab in TLA+

RecoveryLab runs experiments against a write endpoint of an HTTP service: it
loses a response, sends a burst of copies, kills the service after it
acknowledged, or reuses an idempotency key with another body, and then compares
observed values with what was declared. Its product is a *verdict*. The
question of this project is whether the verdict can be trusted: what PASS,
VIOLATION and ERROR mean when requests, deadlines, crashes and failing reads
interleave, and whether what is derived from the verdict (explanations, audit
totals, report files, the exit code) says the same. Around it are the commands
that write scenarios; there the question is whether what they write can be run.

All line numbers refer to this commit of the repository.

## 1. Inventory

| part | state it keeps | operations | talks to | what is hard |
|---|---|---|---|---|
| **experiment** `internal/engine/engine.go` | the `Report` under construction, the context deadline, `results[]` and a WaitGroup in a burst | `Run`, `runLostResponse`, `runConcurrent`, `runCrashAfterAck`, `runKeyReuse`, `send`, `observe` | service under test (HTTP), drop proxy (channel), managed process (calls) | early returns on a dozen paths with evidence half gathered; requests in flight after the client gave up; `select` between result and deadline; int64 arithmetic |
| **reply check** `internal/engine/response.go` | none (pure) | `checkRetryResponse`, `idPointers` | called by two scenarios | when is a comparison conclusive; defaults that apply to some statuses only |
| **drop proxy** `internal/engine/proxy.go` | one-slot `result` channel, `once`, `used`, a listener | one handler goroutine per connection, `Close` | the runner's client, the service, any local program that connects | the client's error and the result race; a second connection, also one that comes first; a body that stalls; a runner that no longer receives |
| **managed process** `internal/engine/process.go` | `p.cmd`, `p.done` | `Start`, `Crash`, `Stop` | the operating system, a wait goroutine per child | exit races with kill; timeouts that give up; who owns the handle; a server that was there before |
| **explain** `internal/explain` | none (pure) | `Report` | reads a finished report | reports that stopped half way |
| **scenario settings** `internal/config` | the `Config` | `Parse`, `Resolve`, `Validate`, defaults | used by everything | settings that belong to one scenario only |
| **audit** `internal/audit`, `cmd/recoverylab/audit.go`, `main.go` | results so far, totals | `Plan`, `Run`, `FromRuns`, `Combine`; commands `audit`, `run` | engine, explain, report writers | several aggregations of the same verdicts; a report that cannot be written; everything skipped |
| **report writers** `internal/report` | none | JUnit, HTML, Markdown, badge | audit | counts |
| **fixture service** `internal/fixture` | journal file, in-memory index and order, a mutex, a marker file | `openStore`, `addWithFingerprint`, the POST handler in six modes | handler goroutines, the file system, kills | check-then-act, partial writes, failing syncs, restart from the journal |
| **OpenAPI discovery** `internal/openapi`, `cmd/recoverylab/discover.go` | the parsed document; the folder of scenarios | `Parse`, `Writes`, `example`, `countGuess`; finding the document, choosing a counter, writing the files | a service or a file, the live list endpoint, the file system | references that loop, schemas with limits, names that collide, a guess the live reply does not confirm, a write that fails |
| **observation parsing, init** `engine.go`, `cmd/recoverylab/init.go` | one scenario file | `observe`, `atPointer`; `candidates`, `init` | the state endpoint | the same reply is read by two pieces of code: one proposes a counter, the other has to read it |
| terminal output, action and install scripts | – | text | – | wording |

What makes each part correct:

* experiment: a verdict follows from everything declared and from nothing else;
  a PASS is true of the *service*; baselines are read before any write leaves; a
  second request leaves only behind an acknowledged first; evidence is never
  withdrawn; a run returns.
* drop proxy: the service is asked once at most whoever connects, no connection
  is told its answer, a fault counts only behind an acknowledgement the client did
  not get, and no handler waits for ever.
* managed process: never two children at a time, never a live child without a
  handle, nothing left running when a run ends.
* explain: a summary names something the run established.
* audit: a file's own scenario is never skipped, a skipped step is never a
  success, and exit code, totals, JUnit counts and diagnosis agree.
* fixture: what is acknowledged survives, a key is created once and for one
  body, the mutex is always given back.
* discovery and init: the counter of a scenario can be read by the runner, its
  body satisfies the schema it came from, and no file is lost.

`PROJECT.json` lists every component with its status, every hazard at the line
where it bites, and the property that watches it.

## 2. Modules

```
RetryCheck ── Experiment ── Explain            (state machine and its reports)
                  │   └── INSTANCE Verdict, LostReply   (abstract specifications)
                  └── Experiment_proofs ── ExperimentWrites_proofs ── Explain_proofs
DropProxy ── INSTANCE LostReply                (the proxy's goroutines; abstract specification)
   └── DropProxy_proofs
Process ── Process_proofs                      (start, crash and stop of one run)
RetryCheck ── Plan ── Audit ── Audit_proofs    (settings; audit and run commands)
Fixture ── INSTANCE OnceStore                  (the demo service; abstract specification)
   └── Fixture_proofs
Observation ── Schema ── OpenAPI ── Discover   (a reply; a body; a document; the commands)
                                       └── Discover_proofs
MCExperiment, MCExplain, MCFixture, MCAudit, MCDiscover    (instances for TLC)
```

### RetryCheck – `response.go`
Pure operators: allowed statuses, which pointers are compared, whether the
comparison is conclusive, the issues. A reply body is `NotJSON` or a function
from pointers to values. `IDNamed` stands for what `isIDField` accepts, `Place`
for where `idPointers` meets a pointer on its walk, and `MaxIDs` for the cap
after which it stops (eight, `response.go:101`).

### Experiment – `engine.go`, `proxy.go`
`pc` is where `Run` is, `k` the index of its loop over the observations, `report`
the `Report` with `Nil` for absent entries. Each HTTP request is an entry of
`wire` (idle, sent, replied, broken) and `answer`. One action per step that can
be interleaved with the service or the deadline: reading one observation,
starting a request, its answer or its error, the kill, the restart. The early
returns are actions of their own (`BaselineFails`, `CrashFails`, ...), each going
through `Return`, as in the code.

* *Service*: anything. It may answer with any status and body and any effect out
  of `Effects`, apply the write and lose the reply (`Handle`), start to answer
  garbage, hang or die (`Degrade`). A killed service may lose any set of
  observed values. Its handling of one request is atomic; effects are never
  applied after the reply. Asynchronous writes are outside, as RecoveryLab's own
  README says of them.
* *Deadline*: `Expire` may happen at every step after the context exists. A
  client that gave up leaves its request in flight, and the service may still
  handle it.
* *Burst*: one goroutine per copy; `slots` is `results[]`, `group` the WaitGroup.
* *Lost response*: the proxy's handler is `ProxyForwarded`/`ProxyFails`, its
  channel `drop`; the client's view is `ClientLosesReply`/`ClientSeesProxyError`, which
  has the codes of a failed forward and of a connection that cannot be taken over;
  `TakeResult` and `SelectTimeout` are the two arms of the `select`. This is the
  proxy with the runner's connection alone; `DropProxy` has the others.
* *Values*: integers between `MinInt` and `MaxInt`, the addition wraps as int64
  does. A value outside the range makes the observation fail.

### Verdict – abstract
A run owes pieces of evidence, gathers them, never withdraws one, and concludes
once. `Experiment` implements it under the mapping at its end (`Promise`).
`Experiment` also implements `LostReply`, the specification of `DropProxy`
(`LosesOneReply`): the two models of the proxy mean the same by a lost response.

### DropProxy – `proxy.go`, and LostReply – abstract
One handler per connection (`at`), from the CompareAndSwap on `used` (`Claim`)
through the body, the forwarded request and the hijack to `once.Do` (`Post`) and
the dropped connection (`Reply`). The runner's half is `send`, the `select` and
the deferred `Close`. `Own` is the runner's connection; the others belong to
programs that found the port: they may come first, send the same operation or
another one, or stop in the middle of the body. `heard` is what a connection
carried back, so a handler that returns silently sends the 200 of `net/http`.
`LostReply` says what the scenario is for: asked once, no client told the answer, and
a fault only behind an acknowledgement and a client that heard nothing. Its clients
are all the connections of `DropProxy`, the foreign ones included (`Told`), and the
one client of `Experiment`. A service whose answer has one of the codes the proxy
itself uses (`Notices`) cannot be told from the proxy there; the statuses of the
instance are others.

### Explain – `explain.go`
Extends `Experiment`: which sentence `Report` picks, as the name of the sentence.
The properties state what a sentence claims about the run.

### Process – `process.go`
`cmd` is `p.cmd`, `closed` the children whose `done` channel is closed, `child`
what the operating system knows of them. `Preflight`, `Spawn`, `Ready`,
`ExitedEarly`, `ReadyTimeout` are `Start`; `Crash*` and `Stop*` the two others,
split where a child may exit between a look and a kill. Killing a child that has
exited but is not reaped succeeds, as it does on Unix. `stuck` is the case the
five-second timeouts are for: the exit of a killed child does not become known.
`leftover` is another server on the readiness URL.

### Fixture – `fixture.go`, and OnceStore – abstract
One handler per request with a program counter, the mutex, the index, the
journal as a sequence of lines. `Kill` drops memory and running handlers, `Open`
reads the journal again or refuses. The file system may refuse to open, write a
part of a line (with or without its end) or fail a sync. `OnceStore` is what an
idempotent endpoint promises; the correct mode implements it with a key recorded
when its line is written.

### Plan, Audit – `config.go`, `audit.go`, `cmd/recoverylab`
`Plan` has the rules of `Validate` on which setting goes with which scenario and
the derivation of the four scenarios. The rules for replies are lists, as in a file,
with their limits on length, range and repetition; a pointer is valid if it is one of
`Pointers`. URL, method, header, duration and observation syntax are one flag,
`wellFormed`. A body is its value at the place audit changes, its spelling, and its
size on either side of 1 MiB; a body audit cannot change is one of `Fixed`.
`Audit` runs the plan: all files are checked first, then every
experiment yields any verdict, then results, reports and the exit code follow.
`Calls` are the command lines with the files they name; an instance chooses them.

### Observation, Schema, OpenAPI, Discover – `engine.go`, `openapi.go`, `discover.go`, `init.go`
`Observation` reads a JSON value twice, as the code does: `Observe` for the
runner, `Candidates` for the two commands, whose walk is a set of places that grows
by one level of objects at a time. A pointer is the sequence of its keys. `Values`
are the JSON values that replies are made of, with everything inside them.
`Schema` has the keywords `example` looks at, references (`Hop` by `Hop`, sixteen at most;
one into another document, `Foreign`, is left standing)
and the body made up for a schema: `Built` is one call of `example`, given what the calls
inside it return, and `Body` runs nine levels of them. A text is its length once the run id
is filled in. Beside it stands what JSON Schema says of a value (`Satisfies`): the keywords
about the value itself (`Meets`), and the claims it makes of the values inside, followed
level by level (`Claims`). Of several alternatives the first has to hold, the one `example`
builds. `Schemas` is the set of schemas documents hold, with every schema inside one.
`OpenAPI` takes a document (paths in order, named schemas) to its endpoints: the guess at a
counter, the headers, the body, the reason to skip.
`Discover` is the two commands: finding the document at
its well-known paths, the endpoints one by one, the live reply (any, or none),
the files. A scenario's name is the words of its path, so two spellings of a path
(`/a/b`, `/a-b`) meet in one file. What the documents, replies and folders can be
are constants.

## 3. What is checked

Every property has a mutant in `PROJECT.json`: a change of one definition that a
plausible bug would make (they are the `Mut...` operators beside the
originals), under which TLC finds the property violated.

| run | instance | what it shows |
|---|---|---|
| `experiment_all` | one observation, all scenarios × rules, statuses 201/409/500, two pointers that look like ids under a cap of one, replies with an id, another value or none at each, effects −1..2, two copies | `VerdictSound`, `PassMatchesService`, `FaultNeedsAck`, `PassMeansSameReply`, refinement of `Verdict` (`Promise`) and of `LostReply` (`LosesOneReply`); of explain: `ViolationIsExplained`, `LossIsTheCrash`, `RepeatWasAnswered` |
| `experiment_edges` | two observations with deltas +1 and −1, int64 range −4..3, starting values at both ends | `EvidenceInOrder`, `WritesInOrder`, `BaselineBeforeWrites`, `RetryFollowsAck`; with fairness `RunReturns` |
| `drop_proxy` | the runner's connection and two others, statuses 201/409, fair | `LosesReply` (refinement of `LostReply`), `HandlersEnd` |
| `process` | a crash-after-ack run, two children, all leftovers, stuck or not, fair | `OneChildAtATime`, `HandleIsChild`, `NoChildLeft`, `KilledOnCompletion`, `RunEnds` |
| `fixture_durable` | three requests, two keys, two bodies, six modes, all failures, two kills, symmetric | `NeverSilentlyLost`, `CreatedOnce`, `OneBodyPerKey`, `RepeatNeedsFailure`, `MutexHasWriter` |
| `fixture_once` | correct mode, writes that fail as a whole, two kills, fair | `StoresOnce` (refinement of `OnceStore`), `HandlersReturn` |
| `audit` | one file with the settings of retries, bursts and key reuse around their limits, about 11 000 combinations, and replies with an id, another value or none at two pointers under a cap of one; up to two files with two bursts, all verdicts and three report files that may fail | `OwnScenarioRuns`, `RetriesAreStrict`; `ExitIsVerdict`, `SuccessIsEarned`, `ReportsAgree`, `DiagnosisFits` |
| `discover` | 188 documents, most of one path and one schema, twelve replies each with and without a second value behind it, 48 command lines of `init` and six of `discover`, an empty or a used folder, every read and write may fail | `CounterIsReal`, `BodyFits`, `NothingLost` |

Four runs show a disagreement between the code and what the repository says of
it. They are expected to fail.

| run | statement | what happens |
|---|---|---|
| `explain_observed` | `explain.go:2`: every sentence is backed by something observed | a wrong retry status and then a final read that fails: "The write happened once", with no final value read |
| `process_leftover` | `docs/design.md:44`: a leftover server cannot create a false pass | one slower than 300 ms passes the preflight and answers the polls |
| `process_unkillable` | `docs/design.md:91`: managed processes are stopped on completion | the service was ready and the run gives up; the deferred `Stop` drops the handle, kills, and after five seconds (`process.go:170`) returns an error nobody looks at. The child has been *killed* on every path, which `KilledOnCompletion` shows |
| `audit_change` | `audit.go:157`: the smallest *real* change | a number beyond int64 goes through a float that absorbs +1, and the validator compares numbers as text |

Smaller ones met on the way, on which no run is spent: in the same family as
the first, a burst without any 2xx is summarised by "The service answered 2xx"
(`explain.go:97`), and a crash without a retry by "retrying after restart ran it
again" (`explain.go:230`); both are parts of `SentencesAreObserved` and fail with
`Configs <- BurstConfigs` and `CrashConfigs`. `README.md:252` ties the codes of a
burst to `allowed_statuses` only, while `no_server_errors` decides too
(`engine.go:291`). `fixture.go:100` promises one list item per journal entry,
which does not hold after a failed sync. `docs/design.md:52` has bodies rejected
that differ only in formatting, but `1.0` and `1.00` differ. A batch with a
violation exits with 2, not 1, when a report file cannot be written (`main.go:158`
against `README.md:254`); `ExitIsVerdict` is stated accordingly.

And in the commands that write scenarios: with `--force`, two paths with the same
words overwrite each other's file while both are reported as written
(`discover.go:107` against `CHANGELOG.md:21`, "a scenario for every `POST` it can
count"); `NothingLost` excludes `--force` for that part. A failed `os.WriteFile`
leaves a cut file that the next call reports as existing. A reply of several JSON
values is accepted by `fetchJSON` and refused by `observe` (`engine.go:500`), and a
`null` list, which `observe` counts as zero (`engine.go:512`), is "nothing to
count" to discover. The counter of the schema is looked for among those the walk of
the live reply proposes, so one the runner could read is passed over when it lies
where the walk does not go, under a key that is the index of a list; and a number
that is no int64 is never proposed. `Best` decides in both cases. `CounterIsReal` is
stated accordingly; a first version, which had the schema's choice kept whenever the
pointer leads anywhere, was true of the replies then in the instance and fell to the
attempt at its proof. The two replies are in the instance now.

"A small value that satisfies a schema" (`openapi.go:252`) is true of the schemas that
`Plain` describes, and `BodyFits` is stated for these. It is not true of an `allOf` with
keywords beside it, of parts that are no objects or that mention each other's properties
(a name required in one part and described in another), of alternatives with keywords
beside them, of `maxLength: 0`, of a reference into another document, and of a recursion through optional properties, cut with
`null` at the ninth level. A minimum that is no whole number, a numeric
`exclusiveMinimum`, `maxItems`, `uniqueItems`, `pattern` and other keywords `example` does
not look at are not in the model. Nor is `format` part of `Satisfies`: it chooses the text
`example` writes, and whether that text is an address or a date is not checked, only its
length. `MCDiscover` assumes, and TLC evaluates, that the schema of every body
in the instance is plain, so that `BodyFits` speaks of all of them.

### Bounds

* Two observations are enough for the order of the loops and for one that holds
  beside one that fails; the theorems hold for any number.
* Two copies in a burst: `Join` treats them as a set, and every pair of failing,
  succeeding and late copies occurs. Two requests are all the other scenarios send.
* `MinInt..MaxInt` = −4..3 with starting values at both ends lets both guards of
  the overflow check fire and effects leave the range.
* Fixture: a key's fate needs a writer, a retry and a third request with another
  body or key; two kills reach a restart after a restart (`MaxKills`).
* Proxy: one foreign connection before the runner's and one behind it. Only the
  first past `used` does anything, so more add nothing; the theorem has any number.
* Audit: two bursts and two files let every order of two different verdicts meet
  in a step, a file and a suite.
* Ids: two pointers under a cap of one let an original have as many ids as the cap
  and one more; only the first is then compared, which `PassMeansSameReply` allows.
* Discover: `CommonPaths` is 2 (10 in the code): none, one and all of them tried.
  String limits stand on either side of the length of every text `example`
  makes, number limits on either side of its defaults; one reply has its counter at
  the deepest level that is proposed and one a level below; two paths share a name.

### Fairness

`Experiment`: weak fairness of `Runner` (Go runs a runnable goroutine; a file or
socket call that can return does) and of `Expire` (time passes; the context is
always made with a timeout). Nothing is assumed of the service: `RunReturns`
holds because every wait ends with the context. `Process`: the same for the
runner and the clocks, and, unless `stuck`, that a killed child exits and is
reaped; nothing is assumed of a child that is not killed. `Fixture`: weak
fairness of each handler; not of arrivals, kills or restarts. `DropProxy`: weak
fairness of the runner, the clock and each handler's own steps; nothing of the
service, of who connects or of the rest of a body. `HandlersEnd` holds all the
same, since the deadline ends the forwarded request and `Close` breaks the
connection of a body that stalls. `Audit` and `Discover` do not wait for anybody,
hence no liveness property.

## 4. What is proved

TLAPS proves the theorems below for every value of the constants that satisfies
the named assumptions of the modules.

### Experiment

The assumptions are those of `RetryCheck` and `Experiment`: a positive number of
observations, at least two copies, an int64 range around zero, deltas in it,
finitely many pointers that look like ids, each with its place on the walk, and
sentinels distinct from values.

| theorem | property |
|---|---|
| `TypeCorrect` | `Spec => []TypeOK` |
| `EvidenceOrdered` | `Spec => []EvidenceInOrder` |
| `VerdictIsSound` | `Spec => []VerdictSound` |
| `WritesOrdered` | `Spec => []WritesInOrder` |
| `BaselinesFirst` | `Spec => []BaselineBeforeWrites` |
| `RetryAfterAck` | `Spec => []RetryFollowsAck` |
| `PassIsTrue` | `Spec => []PassMatchesService` |
| `FaultIsEarned` | `Spec => []FaultNeedsAck` |
| `RepliesAgree` | `Spec => []PassMeansSameReply` |
| `ViolationsExplained` | `Spec => []ViolationIsExplained` |
| `RepeatsWereAnswered` | `Spec => []RepeatWasAnswered` |
| `LossesAreTheCrash` | `Spec => []LossIsTheCrash` |
| `KeepsItsPromise` | `Spec => Promise`: `Experiment` implements `Verdict` |
| `ResponseIsLost` | `Spec => LosesOneReply`: `Experiment` implements `LostReply` |

The argument. `VerdictSound` is not inductive: that a PASS has every declared
check in hand depends on what `Run` had gathered when it entered its last loop.
`EvidenceInOrder` says this for every program point. `PassMatchesService` is
about the service, not the report, so it also needs to know what is in flight:
`WritesInOrder` says which requests can have left at each point, that the
expectation has not wrapped, and that in the last loop every request was
answered, so that a value read then is the value that stays.
`IInv == TypeOK /\ EvidenceInOrder /\ WritesInOrder` is inductive; it is checked by
TLC (`experiment_all`, `experiment_edges`) and proved action by action
(`TypeStep`, `OrderStep`, `WritesStep`). The theorems above follow from it and
one step lemma each. The refinement maps every action to a stutter, a `Gather`
or a `Conclude` of `Verdict`: `StepLearns` shows that a step only removes owed
evidence and that a contradiction comes only with a new piece.

Two theorems speak of replies and need more than `IInv`. `FaultNeedsAck` relates a
flag of the report to the first reply, so its invariant adds where a run can be
once the fault is injected (`FaultPlaces`): nowhere that the first attempt could
still change. `PassMeansSameReply` follows a body through the proxy's channel into
the comparison: `RepliesInHand` says that what lies in the channel is the body the
service sent, and that a comparison in the report is one of the two answers of
`wire`. That every id of an original with at most `MaxIDs` of them is compared is a
counting argument (`AllIDsPicked`), hence the finite set in the assumptions.

`ResponseIsLost` says in `Experiment` what `ProxyLosesReply` says of the proxy alone. In
a lost response the service's side and the runner's side never move in one step of the
specification: `ServiceSide` shows that a step asks or answers at most once and leaves
what the client heard alone, `RunnerSide` that the client hears once, while `NotHeard`
says that nothing was recorded before, and that the fault is counted only at
`TakeResult`, where `WritesInOrder` knows whose answer lies in the channel. What comes
later, a failed retry, a late deadline, a final read, changes neither.

What `explain` may conclude rests on `EvidenceIsTelling`: which scenario and which
answers each piece of evidence in a report presupposes, also in a report that
stopped half way. With it each theorem on `Summary` is a case distinction over its
branches. `ViolationIsExplained` leaves crash-after-ack out: a run that saw too many
effects after the restart and then could not read the final values gets the
sentence that names nothing.

### Drop proxy

`ProxyLosesReply` proves `Spec => LosesReply` for any number of connections and any
statuses, assuming only that the runner's connection is one of them and that the
sentinels are no numbers. `Inv` of `DropProxy_proofs` says that `used` lets one
handler at a time past the first line and, in `Progress`, what has happened when it
is at a given line: the channel is empty until it posts, the service has been asked
by it or not at all, what it carries is the service's answer or a failure. So
`Carries`: what the runner receives is that answer or a failure. The refinement is
one step per action, most of them stutters.

### Process

Assumed is only that `Leftovers` and `Unkillable` are what their comments say.
`NeverTwoChildren` (`OneChildAtATime`), `HandleNotLost` (`HandleIsChild`),
`NoneLeftUnkilled` (`KilledOnCompletion`), `NoneLeft` (`NoChildLeft`) and
`TypeCorrect` follow from one invariant, `IInv` of `Process_proofs`: children are
spawned in order, the second only after the first has exited; a closed `done`
channel belongs to an exited child; without a handle every child is dead, or
killed while somebody waits or the exit is stuck; and each program counter says
whether the handle is set. `KilledOnCompletion` alone is not inductive: that Stop
may be skipped after a failed Start needs that Start leaves no handle then.

### Fixture

For any sets of requests, keys and bodies, any number of kills, all modes and any
of the file system failures (sentinels distinct from values):
`TypeCorrect`, `MutexIsGivenBack` (`MutexHasWriter`), `NothingSilentlyLost`
(`NeverSilentlyLost`), `OneCreation` (`CreatedOnce`), `OneBody`
(`OneBodyPerKey`) and `RepeatsAreFailures` (`RepeatNeedsFailure`). `StoreIsOnce`
(`StoresOnce`) holds in the correct mode alone and for failures that leave the
journal as it was (`Plain`): with the others the journal can hold a line nobody was
told of, and the service is no longer `OnceStore`.

The argument of `Fixture_proofs`. An append either adds one line or spoils the
last one, and a spoilt journal stays spoilt (`JournalGrows`); so what is recorded
stays recorded or the service never starts again (`RecordedStays`). The index and
the handler about to update it know only what is recorded (`IndexIsRecorded`), and
an acknowledgement comes from one of them (`NewlyAcknowledged`). Under the mutex,
who writes a key found nothing under it, while whatever was acknowledged is in the
index (`SingleWriter`): hence one 201. For bodies, index, replies and the last
line of a key agree (`SameBody`); failed syncs can leave several lines of one key
with different bodies, so the invariant speaks of the last one, which is the one a
restart takes. `HasLatest`, that every key of a readable journal has a last line,
is kept by appends and so needs no induction over the journal.

`RepeatNeedsFailure` counts: `FewLines` says that the lines of a key are at most one
more than its writers that were told 500, and *at most as many* while the running
service does not know the key and nobody is about to tell it. The second half is what
pays for the next line. For `StoreIsOnce` the journal has one line per key
(`OneLine`), so that what is recorded, what the index knows and what a replay must
answer are the same line.

### Plan and Audit

For any files, command lines and verdicts. The assumptions: `PlanAssumption` (the
sentinel is no rule, a body that cannot be changed has no number) and `AuditAssumption` (the command lines are those the flags
let through, `run` with one file, `audit` with at least one, and a file is a member
of `Settings`, every combination of the settings a parsed file can have, valid or
not).

| theorem | property |
|---|---|
| `OwnScenarioIsRun` | `Spec => []OwnScenarioRuns` |
| `RetriesAreAsStrict` | `Spec => RetriesAreStrict` |
| `DiagnosisIsOfStatus` | `Spec => []DiagnosisFits` |
| `ExitTellsVerdict` | `Spec => []ExitIsVerdict` |
| `SuccessHasPassed` | `Spec => []SuccessIsEarned` |
| `ReportsSayTheSame` | `Spec => []ReportsAgree` |

The five invariants are not inductive: they relate the verdicts of single runs to sums over
steps, files and commands, and the exit code is computed long after. `IInv` of
`Audit_proofs` (checked by TLC on the instance of `audit`) says that every plan is
that of a checked file, in order (`PlansAreChecked`); that what is reported of a step
is a skip exactly where the plan skips, and otherwise the summary of as many verdicts
as the step asks for (`AuditsAreFinished`, `Outcomes`); what each phase has behind it
(`Phases`); and that only a complete run exits with 0 or 1 (`Exits`).

`OwnScenarioRuns` and `RetriesAreStrict` are then about what the derivation of the four
configurations makes of a file. The first is which of them stay valid, scenario by
scenario. The second compares the derived rule with the file's on every pair of replies,
through `checkRetryResponse` as `RetryCheck` has it (`Judged`): named pointers, picked
ids, the default of 2xx and an original that is no JSON each switch a part of the
comparison off, and the rule that `WithIDs` puts together must not lose a violation, nor
make undecidable what the file could decide (`WithIDsIsStrict`). That a retry outside
2xx need not repeat ids, and that only the picked ones are compared, is the code's own
reading and part of the statement. It does not cover one thing: a reply is only *kept*
when something compares it, so one of more than 1 MiB is an `ERROR` under the derived
rule where the file's own rule would not have looked. The other four follow from what
the plan and the outcomes say of the sums. `TotalUnfolds` shows that the sum exists and
unfolds as written (the induction is over the set of lengths at which it does, by a
least counterexample, `SetInduction`); `ReportsAgree` counts the rows of the JUnit file
as pairs of a file and a step and meets the totals again as the cardinality of the same
set; the overall verdict is that of the worst run, since a status is worst of its runs
and the statuses are the rows.

### Discover

For any documents, schemas, folders and replies, and any depth of nesting. Assumed: the
sentinels are no values, the sequence `Names` holds the keys, `Values` and `Schemas` contain
what is inside their members, replies and documents are made of them (`ValuesAssumption`,
`RepliesAssumption`, `SchemasAssumption`, `DocumentsAssumption`), and a document lists its
paths.

| theorem | property |
|---|---|
| `CountersAreReal` | `Spec => []CounterIsReal` |
| `NothingIsLost` | `Spec => []NothingLost` |
| `BodiesFit` | `Spec => []BodyFits` |

`CounterIsReal` joins two readers: the walk that proposes a counter and `observe`, which
has to find it again from the pointer alone. `PointerIsWalked` and `LongerPointer` show
that `AtPointer` follows a pointer key by key, hence that one level of the walk takes
places whose pointer leads to their value to such places (`InsideIsRight`,
`OpenedIsRight`, `ReachedIsRight`), whatever `MaxDepth` is. So all that is proposed can be
read (`CandidatesAreReal`); the chosen one is proposed, or is the schema's, which has one
key at most and is then proposed if it can be counted (`ChoiceIsReal`).

For `NothingLost` the folder is looked at and written in different steps. `IInv` of
`Discover_proofs` (checked by TLC on the instance of `discover`) says that what was in the
folder and what was reported is in its file, unless `--force` was given (`Kept`); that the
name `init` found free is still free when it writes, which holds because nobody else
writes the folder, and that nothing is reported before (`Reported`); that each command
keeps to its own steps (`HasTurn`); and, for `CounterIsReal`, that the draft has a counter
the runner can read before it is written (`ChoicesAreReal`).

For `BodiesFit` the invariant only has to say where a body comes from: from `Body`, for a
schema of the document that was read (`BodiesAreBuilt`). That such a body satisfies its
schema is `BodySatisfies`, a statement about two recursions, the one that builds and the one
that checks. Both are functions of a level, so both unfold (`BodyUnfolds`, `ClaimsUnfold`,
`PlainUnfolds`), and the argument goes down the levels side by side: every claim at a level
is about a schema `example` has opened there, and about what it built for it (`Owed`).
Claims about an `allOf` are the exception, since every part claims the *whole* object, with
the fields of the other parts in it. Hence `Carries`, which is what goes down the levels: the
value is the one that was built, or an object that has all its fields as they were and
others the schema does not mention. `Merged` shows that parts which mention different
properties yield such an object for each of them, `BuiltHolds` that one level keeps its
keywords (`TextFits` and `NumberFits` for the limits), and `LevelHolds` takes the step.

### Only model-checked

Liveness (`RunReturns`, `HandlersEnd`, `RunEnds`, `HandlersReturn`) needs ENABLED, which the
provers do not handle. The four statements that are expected to fail have no theorem. Every
other property of the runs has one.

## 5. Not modelled

* Bytes: duplicate keys and size limits of a reply (a failed read), the syntax of
  URLs, headers, durations and pointers (one flag), the texts of errors, sentences
  and reports, layout, colours.
* `Resolve` beyond failing or not; redirects and connection reuse.
* Explain's sentences for an inconclusive run, which are chosen from error texts.
* Where OpenAPI 3 and Swagger 2 keep a schema, and the note that an endpoint needs
  authorization.
* HTML, Markdown and badge reports: layout of results that `Audit` counts.
* The action and the install scripts.
* The `demo` and `serve-fixture` commands, see the plan.

## 6. Plan

Done, in this order: RetryCheck and Experiment with their runs; the inductive
invariant and the theorems; Verdict and the refinement; Explain; Fixture and
OnceStore; Process; Plan and Audit; the theorems on Process and Fixture; DropProxy,
LostReply and their refinement, checked and proved; the cap on picked ids;
Observation, OpenAPI and Discover; the theorems on replies, faults, explanations and
on the fixture as an idempotent store; those on what `Plan` derives and `Audit`
reports; those on `Discover`; the bodies of `Schema`, with their theorem; a lost response as the
same thing in `Experiment` and in `DropProxy`.

Next:

1. *Demo*, a composition of Fixture's modes with Experiment: each bug mode yields
   the verdict the repository's README promises, the correct mode never a violation.
2. Process inside Experiment: `CrashKills`, `Restart` and `StopService` as the
   visible steps of `Process`. For the proxy both models implement `LostReply`; a joint
   one would show the same of every intermediate step.
3. `Process` and `Audit` as implementations of specifications of what they promise, as
   `Verdict`, `LostReply` and `OnceStore` are for the other three.
