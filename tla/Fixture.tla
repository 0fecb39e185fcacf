------------------------------- MODULE Fixture -------------------------------
(***************************************************************************)
(* internal/fixture: the demonstration service. One handler goroutine per  *)
(* request, one mutex, an in-memory index and a journal file that is       *)
(* appended to and synced before a write is acknowledged. The process may  *)
(* be killed at any point and restarted from the journal; the file system  *)
(* may refuse or cut a write short. Modes other than "correct" carry a     *)
(* deliberate bug.                                                         *)
(*                                                                         *)
(* A body stands for its SHA-256 fingerprint. count is Len(order): both    *)
(* grow in the same places. Reply bodies are left out, so replay-bug,      *)
(* whose state is right, differs from correct only in ignoring the body.   *)
(***************************************************************************)
EXTENDS Naturals, Sequences, FiniteSets

CONSTANTS
  Requests, Keys, Bodies,
  Modes,       \* the modes to start the service in
  Failures,    \* the file system failures that may happen
  MaxKills,    \* bound: how often the process is killed
  None,        \* absent
  NoPrint,     \* the empty fingerprint
  Torn         \* a journal line that is not one JSON object

AllModes == {"correct", "duplicate-bug", "race-bug", "early-ack-bug", "replay-bug",
             "repair-after-crash-bug"}

Prints == Bodies \cup {NoPrint}
Entries == [key : Keys, print : Prints]

ASSUME FixtureAssumption ==
  /\ Modes \subseteq AllModes
  /\ Failures \subseteq {"open", "short", "sync", "marker"}
  /\ MaxKills \in Nat
  /\ NoPrint \notin Bodies /\ None \notin Prints /\ None \notin Requests
  /\ None \notin [key : Keys, body : Bodies] /\ None \notin Nat
  /\ Torn \notin Entries

VARIABLES
  mode,
  up,        \* the process is serving
  kills,     \* bounded by MaxKills
  file,      \* the lines of the journal
  ragged,    \* its last line has no newline
  marker,    \* the .ack file of repair-after-crash-bug exists
  index,     \* s.keys
  order,     \* s.order
  mu,        \* the handler holding s.mu
  asked,     \* key and body of each request
  at,        \* where its handler is
  reply      \* the status it was answered with

disk == <<file, ragged, marker>>
memory == <<index, order>>
vars == <<mode, up, kills, file, ragged, marker, index, order, mu, asked, at, reply>>

-----------------------------------------------------------------------------
Key(q) == asked[q].key

\* Only the correct mode remembers which body a key was used with.
Fingerprint(q) == IF mode = "correct" THEN asked[q].body ELSE NoPrint

Deduplicates == mode \in {"correct", "early-ack-bug", "replay-bug", "repair-after-crash-bug"}

\* Where a handler goes once the request is read.
Entry ==
  CASE mode = "repair-after-crash-bug" -> "stat"
    [] mode = "early-ack-bug" -> "accept"
    [] mode = "race-bug" -> "has"
    [] OTHER -> "add"

\* Mutant: a reused key is a conflict.
MutReplayStatus(q) ==
  IF mode = "correct" /\ index[Key(q)] \notin {NoPrint, Fingerprint(q)} THEN 409 ELSE 200

\* The reply to a key already in the index.
ReplayStatus(q) ==
  IF mode = "correct" /\ index[Key(q)] \notin {NoPrint, Fingerprint(q)} THEN 422 ELSE 200

\* The handler returns; an early-ack writer has answered long before.
Finish(q, status) ==
  /\ at' = [at EXCEPT ![q] = "done"]
  /\ reply' = IF reply[q] = None THEN [reply EXCEPT ![q] = status] ELSE reply

\* Appending behind a line without newline spoils both.
Appended(line) ==
  IF ragged THEN [file EXCEPT ![Len(file)] = Torn] ELSE Append(file, line)

Line(q) == [key |-> Key(q), print |-> Fingerprint(q)]

\* Mutant: the first line of a key wins.
MutReplayed(lines) ==
  [key \in Keys |->
     LET spots == {i \in 1 .. Len(lines) : lines[i].key = key}
     IN  IF spots = {} THEN None ELSE lines[CHOOSE i \in spots : \A j \in spots : i <= j].print]

\* Mutant: only the order of the journal is restored.
MutForgetful(lines) == [key \in Keys |-> None]

\* openStore: the index of a readable journal; the last line of a key wins.
Replayed(lines) ==
  [key \in Keys |->
     LET spots == {i \in 1 .. Len(lines) : lines[i].key = key}
     IN  IF spots = {} THEN None ELSE lines[CHOOSE i \in spots : \A j \in spots : i >= j].print]

Readable == \A i \in 1 .. Len(file) : file[i] # Torn

-----------------------------------------------------------------------------
Arrive(q) ==
  /\ up /\ at[q] = "idle"
  /\ \E key \in Keys, body \in Bodies :
       asked' = [asked EXCEPT ![q] = [key |-> key, body |-> body]]
  /\ at' = [at EXCEPT ![q] = Entry]
  /\ UNCHANGED <<mode, up, kills, mu, reply>> /\ UNCHANGED disk /\ UNCHANGED memory

\* No key, or a body that cannot be read.
Refuse(q) ==
  /\ up /\ at[q] = "idle"
  /\ Finish(q, 400)
  /\ UNCHANGED <<mode, up, kills, mu, asked>> /\ UNCHANGED disk /\ UNCHANGED memory

\* repair-after-crash-bug: the first request only leaves a marker.
StatMarker(q) ==
  /\ at[q] = "stat"
  /\ \/ at' = [at EXCEPT ![q] = IF marker THEN "add" ELSE "mark"] /\ UNCHANGED reply
     \/ "marker" \in Failures /\ Finish(q, 500)
  /\ UNCHANGED <<mode, up, kills, mu, asked>> /\ UNCHANGED disk /\ UNCHANGED memory

WriteMarker(q) ==
  /\ at[q] = "mark"
  /\ \/ marker' = TRUE /\ Finish(q, 201)
     \/ "marker" \in Failures /\ marker' \in {marker, TRUE} /\ Finish(q, 500)
  /\ UNCHANGED <<mode, up, kills, file, ragged, mu, asked>> /\ UNCHANGED memory

\* early-ack-bug: acknowledge now, write five seconds later.
Accept(q) ==
  /\ at[q] = "accept"
  /\ reply' = [reply EXCEPT ![q] = 201]
  /\ at' = [at EXCEPT ![q] = "add"]
  /\ UNCHANGED <<mode, up, kills, mu, asked>> /\ UNCHANGED disk /\ UNCHANGED memory

\* race-bug: look first, under a lock of its own.
Has(q) ==
  /\ at[q] = "has" /\ mu = None
  /\ IF index[Key(q)] # None THEN Finish(q, 200)
     ELSE at' = [at EXCEPT ![q] = "add"] /\ UNCHANGED reply
  /\ UNCHANGED <<mode, up, kills, mu, asked>> /\ UNCHANGED disk /\ UNCHANGED memory

\* Mutant: the index is looked up before the mutex is taken.
MutLookup(q) ==
  /\ at[q] = "add"
  /\ IF Deduplicates /\ index[Key(q)] # None
       THEN Finish(q, ReplayStatus(q)) /\ UNCHANGED mu
       ELSE at' = [at EXCEPT ![q] = "write"] /\ UNCHANGED <<mu, reply>>
  /\ UNCHANGED <<mode, up, kills, asked>> /\ UNCHANGED disk /\ UNCHANGED memory

\* Mutant: a key found in the index returns without unlocking.
MutLookupKeeps(q) ==
  /\ at[q] = "add" /\ mu = None
  /\ mu' = q
  /\ IF Deduplicates /\ index[Key(q)] # None
       THEN Finish(q, ReplayStatus(q))
       ELSE at' = [at EXCEPT ![q] = "write"] /\ UNCHANGED reply
  /\ UNCHANGED <<mode, up, kills, asked>> /\ UNCHANGED disk /\ UNCHANGED memory

\* addWithFingerprint takes the mutex and looks the key up.
Lookup(q) ==
  /\ at[q] = "add" /\ mu = None
  /\ IF Deduplicates /\ index[Key(q)] # None
       THEN Finish(q, ReplayStatus(q)) /\ UNCHANGED mu
       ELSE at' = [at EXCEPT ![q] = "write"] /\ mu' = q /\ UNCHANGED reply
  /\ UNCHANGED <<mode, up, kills, asked>> /\ UNCHANGED disk /\ UNCHANGED memory

\* The journal line is written, whole.
Write(q) ==
  /\ at[q] = "write"
  /\ file' = Appended(Line(q)) /\ ragged' = FALSE
  /\ at' = [at EXCEPT ![q] = "sync"]
  /\ UNCHANGED <<mode, up, kills, marker, mu, asked, reply>> /\ UNCHANGED memory

\* Mutant: the error of a write is dropped.
MutWriteFails(q) ==
  /\ at[q] = "write" /\ "open" \in Failures
  /\ mu' = None
  /\ Finish(q, 201)
  /\ UNCHANGED <<mode, up, kills, asked>> /\ UNCHANGED disk /\ UNCHANGED memory

\* It could not be opened or written, or only a part of the line was
\* written: perhaps all of it but the newline.
WriteFails(q) ==
  /\ at[q] = "write"
  /\ \/ "open" \in Failures /\ UNCHANGED <<file, ragged>>
     \/ /\ "short" \in Failures
        /\ file' \in {Appended(Line(q)), Appended(Torn)}
        /\ ragged' = TRUE
  /\ mu' = None
  /\ Finish(q, 500)
  /\ UNCHANGED <<mode, up, kills, marker, asked>> /\ UNCHANGED memory

\* Sync and Close succeed; only then the index learns of the key.
Sync(q) ==
  /\ at[q] = "sync"
  /\ index' = [index EXCEPT ![Key(q)] = Fingerprint(q)]
  /\ order' = Append(order, Key(q))
  /\ mu' = None
  /\ Finish(q, 201)
  /\ UNCHANGED <<mode, up, kills, asked>> /\ UNCHANGED disk

\* Mutant: a failed sync keeps the mutex.
MutSyncFails(q) ==
  /\ at[q] = "sync" /\ "sync" \in Failures
  /\ Finish(q, 500)
  /\ UNCHANGED <<mode, up, kills, mu, asked>> /\ UNCHANGED disk /\ UNCHANGED memory

\* Sync or Close fails: the line may stay, the index does not know it.
SyncFails(q) ==
  /\ at[q] = "sync" /\ "sync" \in Failures
  /\ mu' = None
  /\ Finish(q, 500)
  /\ UNCHANGED <<mode, up, kills, asked>> /\ UNCHANGED disk /\ UNCHANGED memory

\* SIGKILL: memory and handlers are gone, what was written stays.
Kill ==
  /\ up /\ kills < MaxKills
  /\ up' = FALSE /\ kills' = kills + 1
  /\ index' = [key \in Keys |-> None] /\ order' = <<>> /\ mu' = None
  /\ at' = [q \in Requests |-> IF at[q] \in {"idle", "done"} THEN at[q] ELSE "cut"]
  /\ UNCHANGED <<mode, asked, reply>> /\ UNCHANGED disk

\* New opens the journal again, or refuses to start.
Open ==
  /\ ~up /\ Readable
  /\ up' = TRUE
  /\ index' = Replayed(file)
  /\ order' = [i \in 1 .. Len(file) |-> file[i].key]
  /\ UNCHANGED <<mode, kills, mu, asked, at, reply>> /\ UNCHANGED disk

\* Every request is answered or cut off, or the service refuses to start.
Quiescent ==
  /\ (\A q \in Requests : at[q] \in {"done", "cut"}) \/ (~up /\ ~Readable)
  /\ UNCHANGED vars

Handler(q) ==
  \/ StatMarker(q) \/ WriteMarker(q) \/ Accept(q) \/ Has(q) \/ Lookup(q)
  \/ Write(q) \/ WriteFails(q) \/ Sync(q) \/ SyncFails(q)

Next ==
  \/ \E q \in Requests : Arrive(q) \/ Refuse(q) \/ Handler(q)
  \/ Kill \/ Open \/ Quiescent

Init ==
  /\ mode \in Modes
  /\ up = TRUE /\ kills = 0
  /\ file = <<>> /\ ragged = FALSE /\ marker = FALSE
  /\ index = [key \in Keys |-> None] /\ order = <<>> /\ mu = None
  /\ asked = [q \in Requests |-> None]
  /\ at = [q \in Requests |-> "idle"]
  /\ reply = [q \in Requests |-> None]

Spec == Init /\ [][Next]_vars

\* A handler that runs is scheduled again and file system calls return.
FairSpec == Spec /\ \A q \in Requests : WF_vars(Handler(q))

-----------------------------------------------------------------------------
TypeOK ==
  /\ mode \in Modes
  /\ up \in BOOLEAN /\ kills \in 0 .. MaxKills
  /\ file \in Seq(Entries \cup {Torn}) /\ ragged \in BOOLEAN /\ marker \in BOOLEAN
  /\ index \in [Keys -> Prints \cup {None}]
  /\ order \in Seq(Keys)
  /\ mu \in Requests \cup {None}
  /\ asked \in [Requests -> [key : Keys, body : Bodies] \cup {None}]
  /\ at \in [Requests -> {"idle", "stat", "mark", "accept", "has", "add", "write", "sync",
                           "done", "cut"}]
  /\ reply \in [Requests -> {200, 201, 400, 422, 500, None}]

Acknowledged(q) == reply[q] \in {200, 201}
InJournal(key) == \E i \in 1 .. Len(file) : file[i] # Torn /\ file[i].key = key
Lines(key) == Cardinality({i \in 1 .. Len(file) : file[i] # Torn /\ file[i].key = key})
For(key) == {q \in Requests : asked[q] # None /\ Key(q) = key}

\* The modes whose acknowledgements are meant to be durable.
Durable == mode \in {"correct", "duplicate-bug", "race-bug", "replay-bug"}

\* A write that was acknowledged survives kills and failing writes, or the
\* service refuses to start: it is never silently lost (addWithFingerprint
\* syncs before it answers, openStore rejects a journal it cannot read).
NeverSilentlyLost ==
  Durable => \A q \in Requests : Acknowledged(q) => InJournal(Key(q)) \/ ~Readable

\* One request at most is told that it created the record of a key, also
\* across restarts and for requests that overlap.
CreatedOnce ==
  mode \in {"correct", "replay-bug"} =>
    \A p, q \in Requests :
      reply[p] = 201 /\ reply[q] = 201 /\ Key(p) = Key(q) => p = q

\* All requests acknowledged under a key carried the same body, whatever
\* failed or was killed between them.
OneBodyPerKey ==
  mode = "correct" =>
    \A p, q \in Requests :
      Acknowledged(p) /\ Acknowledged(q) /\ Key(p) = Key(q) => asked[p].body = asked[q].body

\* A key is written a second time only after its writer was told 500; a
\* kill in the middle of a write never doubles it.
RepeatNeedsFailure ==
  mode \in {"correct", "replay-bug"} =>
    \A key \in Keys :
      Lines(key) <= 1 + Cardinality({q \in For(key) : reply[q] = 500})

\* A held mutex has a writer that is still running: no early return of
\* addWithFingerprint, failed file system call or kill leaves it locked.
MutexHasWriter == mu # None => at[mu] \in {"write", "sync"}

\* The mutex is always given back: a handler that started is answered,
\* unless the process is killed under it.
HandlersReturn ==
  \A q \in Requests : (at[q] # "idle") ~> (at[q] \in {"done", "cut"})

\* The correct mode is an idempotent store: a key is recorded when its
\* journal line is written.
S == INSTANCE OnceStore WITH
       recorded <- [key \in Keys |->
         LET lines == {i \in 1 .. Len(file) : file[i].key = key}
         IN  IF lines = {} THEN None ELSE file[CHOOSE i \in lines : TRUE].print]

StoresOnce == S!Spec
=============================================================================
