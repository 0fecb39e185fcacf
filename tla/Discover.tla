------------------------------ MODULE Discover ------------------------------
(***************************************************************************)
(* The commands that write scenarios: discover reads an OpenAPI document   *)
(* and writes one for every endpoint it can count, init writes one for the *)
(* endpoint it is given. Both read the live state once to choose a counter *)
(* the runner will be able to read. Nobody else writes the folder.         *)
(***************************************************************************)
EXTENDS OpenAPI

CONSTANTS
  Options,      \* command lines that get past the flags
  Documents,    \* documents a service or a file can hold
  Replies,      \* JSON replies of the state endpoint, see Observe
  Disks,        \* what the folder can hold at the start: file -> content
  CommonPaths,  \* how many well-known paths are tried, 10 in the code
  Torn          \* the content of a file whose write failed

ASSUME RepliesAssumption == Replies \subseteq [root : Values, more : BOOLEAN]

ASSUME DocumentsAssumption ==
  \A data \in Documents :
    /\ \A name \in DOMAIN data.schemas : data.schemas[name] \in Schemas
    /\ data.paths \in Seq(ToSet(data.paths))
    /\ \A item \in ToSet(data.paths) :
         \A method \in DOMAIN item.ops : item.ops[method].body \in Schemas \cup {Nil}

VARIABLES
  opts,    \* the command line
  pc,
  tried,   \* well-known paths that held no document
  doc,     \* the document, Nil if what was read is none
  todo,    \* endpoints discover has not dealt with
  draft,   \* the scenario about to be written
  disk,    \* the files of the output folder
  before,  \* the same when the command started
  log,     \* scenarios reported as written
  exit

vars == <<opts, pc, tried, doc, todo, draft, disk, before, log, exit>>

Init ==
  /\ opts \in Options
  /\ disk \in Disks
  /\ before = disk
  /\ pc = IF opts.command = "init" THEN "init" ELSE "load"
  /\ tried = 0
  /\ doc = Nil
  /\ todo = <<>>
  /\ draft = Nil
  /\ log = <<>>
  /\ exit = Nil

Stop(code) == exit' = code /\ pc' = "done"

\* The name keeps the words of the path; what separates them is lost.
ScenarioName(method, path) == <<method>> \o path.words

\* Mutant: a file written for an earlier endpoint is not looked at.
MutTaken(file) == file \in DOMAIN before /\ ~opts.force

Taken(file) == file \in DOMAIN disk /\ ~opts.force

Headers(body, needed) ==
  LET own == (IF body = Nil THEN {} ELSE {"Content-Type"}) \cup needed \cup opts.headers
  IN  IF opts.noKey THEN own ELSE own \cup {"Idempotency-Key"}

\* A scenario before its counter is chosen.
Request(method, path, body, needed) ==
  [method |-> method, path |-> path, body |-> body, headers |-> Headers(body, needed),
   delta |-> IF method = "delete" THEN -1 ELSE 1]

Put(file, content) ==
  disk' = [f \in DOMAIN disk \cup {file} |-> IF f = file THEN content ELSE disk[f]]

-----------------------------------------------------------------------------
(* discover finds its document *)

RefuseBase ==
  /\ pc = "load" /\ opts.base = "given" /\ ~opts.valid
  /\ Stop(2)
  /\ UNCHANGED <<opts, tried, doc, todo, draft, disk, before, log>>

CanLoad == pc = "load" /\ (opts.base = "given" => opts.valid)

\* A file or URL that is named need not hold a document.
LoadSpec ==
  /\ CanLoad /\ opts.spec # "none"
  /\ \E data \in Documents \cup {Nil} : doc' = data
  /\ pc' = "base"
  /\ UNCHANGED <<opts, tried, todo, draft, disk, before, log, exit>>

LoadFails ==
  /\ CanLoad
  /\ opts.spec = "none" => tried = CommonPaths
  /\ Stop(2)
  /\ UNCHANGED <<opts, tried, doc, todo, draft, disk, before, log>>

TryPath ==
  /\ CanLoad /\ opts.spec = "none" /\ tried < CommonPaths
  /\ \E data \in Documents \cup {Nil} :
       IF Parses(data)
       THEN doc' = data /\ pc' = "base" /\ UNCHANGED tried
       ELSE tried' = tried + 1 /\ UNCHANGED <<doc, pc>>
  /\ UNCHANGED <<opts, todo, draft, disk, before, log, exit>>

\* A document from a URL says where the service runs; one from a file does not.
NoBase == opts.base = "none" /\ opts.spec = "file"

Listable == ~NoBase /\ (IF Parses(doc) THEN Writes(doc, opts.params) # <<>> ELSE FALSE)

NothingListed ==
  /\ pc = "base" /\ ~Listable
  /\ Stop(2)
  /\ UNCHANGED <<opts, tried, doc, todo, draft, disk, before, log>>

NoFolder ==
  /\ pc = "base" /\ Listable
  /\ Stop(2)
  /\ UNCHANGED <<opts, tried, doc, todo, draft, disk, before, log>>

List ==
  /\ pc = "base" /\ Listable
  /\ todo' = Writes(doc, opts.params)
  /\ pc' = "next"
  /\ UNCHANGED <<opts, tried, doc, draft, disk, before, log, exit>>

-----------------------------------------------------------------------------
(* discover deals with one endpoint *)

\* The counter the schema suggests if the live reply has it, else the best one.
Chosen(found, guess) ==
  IF \E i \in DOMAIN found : found[i].pointer = guess.pointer /\ found[i].measure = guess.measure
  THEN guess
  ELSE [pointer |-> Best(found).pointer, measure |-> Best(found).measure]

Skip ==
  /\ pc = "next" /\ todo # <<>>
  /\ Head(todo).skip # Nil
  /\ todo' = Tail(todo)
  /\ UNCHANGED <<opts, pc, tried, doc, draft, disk, before, log, exit>>

\* A list that cannot be read is counted as the schema says, if it says. The
\* finished scenario may not validate: its path may make no URL, or its body be
\* too large, and with a base that is not local none does.
ReadList ==
  /\ pc = "next" /\ todo # <<>>
  /\ Head(todo).skip = Nil
  /\ LET e == Head(todo) IN
     \E live \in Replies \cup {Failed}, valid \in IF opts.valid THEN BOOLEAN ELSE {FALSE} :
       LET found == IF live = Failed THEN <<>> ELSE Candidates(live.root)
           counted == IF live = Failed THEN e.guess # NoGuess ELSE found # <<>>
           observe == IF live = Failed THEN e.guess ELSE Chosen(found, e.guess)
       IN  IF counted /\ valid
           THEN /\ draft' = [file |-> ScenarioName(e.method, e.path), live |-> live,
                             guess |-> e.guess, schema |-> e.schema,
                             scenario |-> [request |-> Request(e.method, e.path, e.body, e.headers),
                                           observe |-> observe]]
                /\ pc' = "write"
                /\ UNCHANGED todo
           ELSE todo' = Tail(todo) /\ UNCHANGED <<draft, pc>>
  /\ UNCHANGED <<opts, tried, doc, disk, before, log, exit>>

AlreadyExists ==
  /\ pc = "write" /\ opts.command = "discover"
  /\ Taken(draft.file)
  /\ todo' = Tail(todo) /\ draft' = Nil /\ pc' = "next"
  /\ UNCHANGED <<opts, tried, doc, disk, before, log, exit>>

\* os.WriteFile truncates before it writes, unless it cannot even open the file.
WriteFails ==
  /\ pc = "write" /\ opts.command = "discover"
  /\ ~Taken(draft.file)
  /\ Put(draft.file, Torn) \/ UNCHANGED disk
  /\ todo' = Tail(todo) /\ draft' = Nil /\ pc' = "next"
  /\ UNCHANGED <<opts, tried, doc, before, log, exit>>

WriteScenario ==
  /\ pc = "write" /\ opts.command = "discover"
  /\ ~Taken(draft.file)
  /\ Put(draft.file, draft.scenario)
  /\ log' = Append(log, draft)
  /\ todo' = Tail(todo) /\ draft' = Nil /\ pc' = "next"
  /\ UNCHANGED <<opts, tried, doc, before, exit>>

Finish ==
  /\ pc = "next" /\ todo = <<>>
  /\ Stop(IF log = <<>> THEN 2 ELSE 0)
  /\ UNCHANGED <<opts, tried, doc, todo, draft, disk, before, log>>

-----------------------------------------------------------------------------
(* init *)

InitRefuses ==
  /\ pc = "init"
  /\ Taken(opts.out) \/ ~opts.valid
  /\ Stop(2)
  /\ UNCHANGED <<opts, tried, doc, todo, draft, disk, before, log>>

\* The counter --pointer names must be one of those found.
InitReads ==
  /\ pc = "init"
  /\ ~Taken(opts.out) /\ opts.valid
  /\ \E live \in Replies \cup {Failed} :
       LET found == IF live = Failed THEN <<>> ELSE Candidates(live.root)
           named == {i \in DOMAIN found : found[i].pointer = opts.pointer}
           usable == IF opts.pointer = <<>> THEN found # <<>> ELSE named # {}
           chosen == IF opts.pointer = <<>> THEN Best(found)
                     ELSE found[CHOOSE i \in named : \A j \in named : j <= i]
       IN  IF usable
           THEN /\ draft' = [file |-> opts.out, live |-> live, guess |-> NoGuess, schema |-> Nil,
                             scenario |->
                               [request |-> Request(opts.method, opts.path, opts.body, {}),
                                observe |-> [pointer |-> chosen.pointer,
                                             measure |-> chosen.measure]]]
                /\ pc' = "write" /\ UNCHANGED exit
           ELSE Stop(2) /\ UNCHANGED draft
  /\ UNCHANGED <<opts, tried, doc, todo, disk, before, log>>

InitWrites ==
  /\ pc = "write" /\ opts.command = "init"
  /\ Put(draft.file, draft.scenario)
  /\ log' = <<draft>>
  /\ Stop(0)
  /\ UNCHANGED <<opts, tried, doc, todo, draft, before>>

InitWriteFails ==
  /\ pc = "write" /\ opts.command = "init"
  /\ Put(draft.file, Torn) \/ UNCHANGED disk
  /\ Stop(2)
  /\ UNCHANGED <<opts, tried, doc, todo, draft, before, log>>

-----------------------------------------------------------------------------

Terminated == pc = "done" /\ UNCHANGED vars

Next ==
  \/ RefuseBase \/ LoadSpec \/ LoadFails \/ TryPath \/ NothingListed \/ NoFolder \/ List
  \/ Skip \/ ReadList \/ AlreadyExists \/ WriteFails \/ WriteScenario \/ Finish
  \/ InitRefuses \/ InitReads \/ InitWrites \/ InitWriteFails
  \/ Terminated

Spec == Init /\ [][Next]_vars

-----------------------------------------------------------------------------
(* Properties *)

\* A value the commands propose to count.
Countable(node, measure) ==
  IF node = Nil THEN FALSE
  ELSE \/ measure = "length" /\ node.kind = "array"
       \/ measure = "value" /\ node.kind = "number" /\ node.value # Nil

\* discover promises that "the chosen counter is one that actually exists in a
\* real reply" (discover.go:168) and that it keeps the schema's choice "only if
\* the live reply has it" (docs/design.md:74); init makes the same choice. So the
\* runner can read what was written, unless the endpoint sends several JSON
\* values in one reply, which these commands do not notice. A key that is an
\* index of a list counts as missing: nothing inside a list is proposed.
RealCounter(l) ==
  l.live # Failed =>
    /\ Observe([l.live EXCEPT !.more = FALSE], l.scenario.observe) # Failed
    /\ /\ Countable(AtPointer(l.live.root, l.guess.pointer), l.guess.measure)
       /\ l.live.root.kind = "array" => l.guess.pointer = <<>>
       => l.scenario.observe = l.guess

CounterIsReal == \A i \in DOMAIN log : RealCounter(log[i])

\* Without --force no file that was there is touched, not by a failing write
\* either; every scenario reported as written is still in its file when the
\* command ends, also when two paths differ only in what separates their words;
\* and the exit code says whether there is one.
NothingLost ==
  /\ ~opts.force =>
       /\ \A f \in DOMAIN before : f \in DOMAIN disk /\ disk[f] = before[f]
       /\ \A i \in DOMAIN log :
            log[i].file \in DOMAIN disk /\ disk[log[i].file] = log[i].scenario
  /\ pc = "done" => (exit = 0 <=> log # <<>>)

\* "example builds a small value that satisfies a schema" (openapi.go:252): the
\* body discover writes, its run id filled in, satisfies the schema of its
\* operation, as long as the schema can be satisfied, its own examples do and
\* the objects it needs end before example stops.
BodyFits ==
  \A i \in DOMAIN log :
    LET schema == log[i].schema
        body == log[i].scenario.request.body
    IN  schema # Nil /\ body # Nil /\ Plain(doc, schema) => Satisfies(doc, schema, body)
=============================================================================
