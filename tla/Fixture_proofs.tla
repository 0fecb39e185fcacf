---------------------------- MODULE Fixture_proofs ----------------------------
(***************************************************************************)
(* What the demonstration service keeps, for any number of requests, keys, *)
(* bodies, kills and failing system calls: the mutex, what it acknowledged, *)
(* and, where it is meant to, one record and one body for each key.        *)
(*                                                                         *)
(* The journal only grows, and a line that cannot be read stays. So what   *)
(* is in it stays or it is never opened again; the index says no more than *)
(* the journal, and a key has one writer because the index is looked up    *)
(* and brought up to date under the mutex.                                 *)
(***************************************************************************)
EXTENDS Fixture, SequenceTheorems, FiniteSetTheorems, TLAPS

JournalLines == Entries \cup {Torn}
Busy == {"stat", "mark", "accept", "has", "add", "write", "sync"}

\* A journal whose last line is cut short has a last line.
RaggedHasLine == ragged => Len(file) > 0

\* The line that counts for a key.
Latest(key, i) ==
  /\ i \in 1 .. Len(file) /\ file[i].key = key
  /\ \A j \in i + 1 .. Len(file) : file[j].key # key

\* Every key of a journal that can be read has such a line.
HasLatest ==
  Readable => \A key \in Keys : InJournal(key) => \E i \in 1 .. Len(file) : Latest(key, i)

\* What a handler has done by the time it is where it is.
HandlersAt ==
  \A q \in Requests :
    /\ at[q] \in {"stat", "mark"} => mode = "repair-after-crash-bug"
    /\ at[q] = "accept" => mode = "early-ack-bug"
    /\ at[q] = "has" => mode = "race-bug"
    /\ at[q] \in Busy => asked[q] # None
    /\ at[q] = "idle" => asked[q] = None /\ reply[q] = None
    /\ at[q] # "done" /\ mode # "early-ack-bug" => reply[q] = None
    /\ Acknowledged(q) => asked[q] # None

\* The mutex is held by whoever writes.
Locked == \A q \in Requests : at[q] \in {"write", "sync"} <=> mu = q

\* A process that was killed has neither handlers nor memory.
DownIsEmpty ==
  ~up => /\ mu = None
         /\ \A q \in Requests : at[q] \notin Busy
         /\ \A key \in Keys : index[key] = None

Shape == TypeOK /\ RaggedHasLine /\ HasLatest /\ HandlersAt /\ Locked /\ DownIsEmpty

-----------------------------------------------------------------------------
(* The journal. *)

\* Appending makes a longer journal or spoils its last line.
LEMMA AppendedIs ==
  ASSUME TypeOK, RaggedHasLine, NEW line \in JournalLines
  PROVE  /\ Appended(line) \in Seq(JournalLines)
         /\ Len(Appended(line)) > 0
         /\ ragged => /\ Len(Appended(line)) = Len(file)
                      /\ Appended(line)[Len(file)] = Torn
                      /\ \A i \in 1 .. Len(file) - 1 : Appended(line)[i] = file[i]
         /\ ~ragged => /\ Len(Appended(line)) = Len(file) + 1
                       /\ Appended(line)[Len(file) + 1] = line
                       /\ \A i \in 1 .. Len(file) : Appended(line)[i] = file[i]
<1>1. file \in Seq(JournalLines) /\ Len(file) \in Nat /\ Torn \in JournalLines
  BY LenProperties DEF TypeOK, JournalLines
<1>2. CASE ragged
  <2>1. Len(file) \in 1 .. Len(file)
    BY <1>1, <1>2 DEF RaggedHasLine
  <2>2. Appended(line) = [file EXCEPT ![Len(file)] = Torn]
    BY <1>2 DEF Appended
  <2> QED
    BY <1>1, <1>2, <2>1, <2>2, ExceptSeq
<1>3. CASE ~ragged
  <2>1. Appended(line) = Append(file, line)
    BY <1>3 DEF Appended
  <2> QED
    BY <1>1, <1>3, <2>1, AppendProperties
<1> QED
  BY <1>2, <1>3

\* The line of a handler that writes.
LEMMA LineIs ==
  ASSUME TypeOK, NEW q \in Requests, asked[q] # None
  PROVE  /\ Key(q) \in Keys /\ asked[q].body \in Bodies
         /\ Fingerprint(q) \in Prints
         /\ Line(q) \in Entries /\ Line(q).key = Key(q) /\ Line(q).print = Fingerprint(q)
BY DEF TypeOK, Key, Fingerprint, Prints, Line, Entries

\* What the index is restored to.
LEMMA ReplayedIs ==
  ASSUME TypeOK, HasLatest, Readable, NEW key \in Keys
  PROVE  \/ /\ Replayed(file)[key] = None
            /\ \A i \in 1 .. Len(file) : file[i].key # key
         \/ \E i \in 1 .. Len(file) : Latest(key, i) /\ Replayed(file)[key] = file[i].print
<1> DEFINE spots == {i \in 1 .. Len(file) : file[i].key = key}
           last == CHOOSE i \in spots : \A j \in spots : i >= j
<1>1. Replayed(file)[key] = IF spots = {} THEN None ELSE file[last].print
  BY DEF Replayed
<1>2. CASE spots = {}
  BY <1>1, <1>2
<1>3. CASE spots # {}
  <2>1. InJournal(key)
    BY <1>3 DEF InJournal, Readable
  <2>2. PICK i \in 1 .. Len(file) : Latest(key, i)
    BY <2>1 DEF HasLatest
  <2>3. i \in spots /\ \A j \in spots : i >= j
    BY <2>2, LenProperties DEF Latest, TypeOK
  <2>4. last \in spots /\ \A j \in spots : last >= j
    BY <2>3
  <2>5. last = i
    BY <2>3, <2>4
  <2> QED
    BY <1>1, <1>3, <2>2, <2>5
<1> QED
  BY <1>2, <1>3

\* A spoilt journal stays spoilt; in one that is not, an append adds one line
\* and the lines that counted for other keys still count.
LEMMA JournalGrows ==
  ASSUME TypeOK, RaggedHasLine, HasLatest, NEW line \in JournalLines, file' = Appended(line)
  PROVE  /\ Readable' => Readable /\ line # Torn /\ file'[Len(file')] = line
         /\ Readable' => \A key, i : key # line.key => (Latest(key, i)' <=> Latest(key, i))
         /\ Readable' => \A i : Latest(line.key, i)' => i = Len(file')
         /\ Readable' => \A i \in 1 .. Len(file) : file'[i] = file[i]
         /\ Readable' => Latest(line.key, Len(file))'
         /\ \A key : InJournal(key) => InJournal(key)' \/ ~Readable'
         /\ HasLatest'
<1>1. /\ file \in Seq(JournalLines) /\ Len(file) \in Nat
      /\ file' \in Seq(JournalLines) /\ Len(file') \in Nat /\ Len(file') > 0
  BY AppendedIs, LenProperties DEF TypeOK, JournalLines
<1>2. CASE ~Readable'
  BY <1>2 DEF HasLatest
<1>3. CASE Readable'
  <2>1. ~ragged
    BY <1>1, <1>3, AppendedIs DEF Readable, RaggedHasLine
  <2>2. /\ Len(file') = Len(file) + 1 /\ file'[Len(file) + 1] = line
        /\ \A i \in 1 .. Len(file) : file'[i] = file[i]
    BY <2>1, AppendedIs
  <2>3. Readable /\ line # Torn
    BY <1>1, <1>3, <2>2 DEF Readable
  <2>4. \A key, i : key # line.key => (Latest(key, i)' <=> Latest(key, i))
    BY <1>1, <2>2 DEF Latest
  <2>5. Latest(line.key, Len(file))'
    BY <1>1, <2>2 DEF Latest
  <2>6. \A i : Latest(line.key, i)' => i = Len(file')
    BY <1>1, <2>2 DEF Latest
  <2>7. \A key : InJournal(key) => InJournal(key)'
    BY <1>1, <2>2 DEF InJournal
  <2>8. ASSUME NEW key \in Keys, InJournal(key)'
        PROVE  \E i \in 1 .. Len(file') : Latest(key, i)'
    <3>1. CASE key = line.key
      BY <1>1, <2>2, <2>5, <3>1
    <3>2. CASE key # line.key
      <4>1. PICK j \in 1 .. Len(file') : file'[j] # Torn /\ file'[j].key = key
        BY <2>8 DEF InJournal
      <4>2. j \in 1 .. Len(file) /\ file[j] = file'[j]
        BY <1>1, <2>2, <3>2, <4>1
      <4>3. InJournal(key)
        BY <4>1, <4>2 DEF InJournal
      <4> QED
        BY <1>1, <2>2, <2>3, <2>4, <3>2, <4>3 DEF HasLatest
    <3> QED
      BY <3>1, <3>2
  <2> QED
    BY <1>1, <2>2, <2>3, <2>4, <2>5, <2>6, <2>7, <2>8 DEF HasLatest
<1> QED
  BY <1>2, <1>3

-----------------------------------------------------------------------------
(* The shape of every reachable state. *)

Places == {"idle", "stat", "mark", "accept", "has", "add", "write", "sync", "done", "cut"}
Statuses == {200, 201, 400, 422, 500, None}

\* A handler that returns.
LEMMA FinishIs ==
  ASSUME TypeOK, NEW q \in Requests, NEW status \in Statuses, Finish(q, status)
  PROVE  /\ at' \in [Requests -> Places] /\ at'[q] = "done"
         /\ reply' \in [Requests -> Statuses]
         /\ reply'[q] = IF reply[q] = None THEN status ELSE reply[q]
         /\ \A p \in Requests \ {q} : at'[p] = at[p] /\ reply'[p] = reply[p]
BY DEF TypeOK, Finish, Places, Statuses

\* A handler that goes on.
LEMMA MoveIs ==
  ASSUME TypeOK, NEW q \in Requests, NEW place \in Places, at' = [at EXCEPT ![q] = place]
  PROVE  /\ at' \in [Requests -> Places] /\ at'[q] = place
         /\ \A p \in Requests \ {q} : at'[p] = at[p]
BY DEF TypeOK, Places

\* Either way the handler that writes the marker has answered.
LEMMA MarkerIs ==
  ASSUME NEW q \in Requests, WriteMarker(q)
  PROVE  /\ at[q] = "mark"
         /\ Finish(q, 201) \/ Finish(q, 500)
         /\ UNCHANGED <<mode, up, kills, file, ragged, mu, asked, index, order>>
BY Zenon DEF WriteMarker, memory

\* The first state has the shape.
LEMMA InitShape == Init => Shape
<1> SUFFICES ASSUME Init PROVE Shape
  OBVIOUS
<1>1. TypeOK
  <2>1. /\ file \in Seq(Entries \cup {Torn}) /\ order \in Seq(Keys)
        /\ kills \in 0 .. MaxKills
    BY EmptySeq, FixtureAssumption DEF Init, FixtureAssumption
  <2>2. /\ index \in [Keys -> Prints \cup {None}]
        /\ asked \in [Requests -> [key : Keys, body : Bodies] \cup {None}]
        /\ reply \in [Requests -> {200, 201, 400, 422, 500, None}]
        /\ at \in [Requests -> {"idle", "stat", "mark", "accept", "has", "add", "write",
                                "sync", "done", "cut"}]
    BY DEF Init
  <2>3. mode \in Modes /\ up \in BOOLEAN /\ ragged \in BOOLEAN /\ marker \in BOOLEAN
        /\ mu \in Requests \cup {None}
    BY DEF Init
  <2> QED
    BY <2>1, <2>2, <2>3, Zenon DEF TypeOK
<1>2. RaggedHasLine /\ HasLatest
  <2>1. Len(file) = 0 /\ ragged = FALSE
    BY EmptySeq DEF Init
  <2> QED
    BY <2>1 DEF RaggedHasLine, HasLatest, InJournal
<1>3. HandlersAt
  <2>1. None \notin {200, 201}
    BY FixtureAssumption DEF FixtureAssumption
  <2> QED
    BY <2>1 DEF Init, HandlersAt, Busy, Acknowledged
<1>4. Locked /\ DownIsEmpty
  BY FixtureAssumption DEF Init, Locked, DownIsEmpty, FixtureAssumption
<1> QED
  BY <1>1, <1>2, <1>3, <1>4 DEF Shape

\* Steps that leave the journal alone keep what is said of it.
LEMMA JournalSame ==
  ASSUME RaggedHasLine, HasLatest, UNCHANGED <<file, ragged>>
  PROVE  /\ RaggedHasLine' /\ HasLatest' /\ Readable' = Readable
         /\ \A key : (InJournal(key)' <=> InJournal(key))
         /\ \A key, i : (Latest(key, i)' <=> Latest(key, i))
BY DEF RaggedHasLine, HasLatest, Readable, InJournal, Latest

\* A request comes in, or is refused.
LEMMA ArriveShape ==
  ASSUME Shape, NEW q \in Requests, Arrive(q) \/ Refuse(q)
  PROVE  Shape'
<1> USE FixtureAssumption DEF Shape, FixtureAssumption
<1>1. RaggedHasLine' /\ HasLatest'
  BY JournalSame DEF Arrive, Refuse, disk
<1>2. TypeOK'
  BY DEF Arrive, Refuse, Finish, TypeOK, disk, memory, Entry
<1>3. HandlersAt'
  BY DEF Arrive, Refuse, Finish, TypeOK, HandlersAt, Acknowledged, Busy, Entry
<1>4. Locked' /\ DownIsEmpty'
  BY DEF Arrive, Refuse, Finish, TypeOK, Locked, DownIsEmpty, Busy, Entry, memory
<1> QED
  BY <1>1, <1>2, <1>3, <1>4

\* A handler before it writes, or that does not write.
LEMMA BeforeWriteShape ==
  ASSUME Shape, NEW q \in Requests,
         StatMarker(q) \/ WriteMarker(q) \/ Accept(q) \/ Has(q) \/ Lookup(q)
  PROVE  Shape'
<1> USE FixtureAssumption DEF Shape, FixtureAssumption
<1>1. RaggedHasLine' /\ HasLatest'
  BY JournalSame DEF StatMarker, WriteMarker, Accept, Has, Lookup, disk
<1>2. TypeOK'
  <2>1. at' \in [Requests -> Places] /\ reply' \in [Requests -> Statuses]
    <3>1. CASE StatMarker(q)
      BY <3>1, FinishIs, MoveIs DEF StatMarker, TypeOK, Places, Statuses
    <3>0. CASE WriteMarker(q)
      BY <3>0, MarkerIs, FinishIs DEF Statuses
    <3>2. CASE Accept(q)
      BY <3>2 DEF Accept, TypeOK, Places, Statuses
    <3>3. CASE Has(q)
      BY <3>3, FinishIs DEF Has, TypeOK, Places, Statuses
    <3>4. CASE Lookup(q)
      <4>1. ReplayStatus(q) \in Statuses
        BY DEF ReplayStatus, Statuses
      <4> QED
        BY <3>4, <4>1, FinishIs DEF Lookup, TypeOK, Places, Statuses
    <3> QED
      BY <3>0, <3>1, <3>2, <3>3, <3>4
  <2>2. mu' \in Requests \cup {None}
    BY MarkerIs DEF StatMarker, Accept, Has, Lookup, TypeOK
  <2>3. marker' \in BOOLEAN
    BY Zenon DEF StatMarker, WriteMarker, Accept, Has, Lookup, TypeOK, disk
  <2>4. UNCHANGED <<mode, up, kills, file, ragged, asked, index, order>>
    BY DEF StatMarker, WriteMarker, Accept, Has, Lookup, disk, memory
  <2> QED
    BY <2>1, <2>2, <2>3, <2>4 DEF TypeOK, Places, Statuses
<1>3. HandlersAt'
  <2>1. CASE StatMarker(q)
    BY <2>1 DEF StatMarker, Finish, TypeOK, HandlersAt, Acknowledged, Busy
  <2>2. CASE WriteMarker(q)
    BY <2>2, MarkerIs DEF Finish, TypeOK, HandlersAt, Acknowledged, Busy
  <2>3. CASE Accept(q)
    BY <2>3 DEF Accept, TypeOK, HandlersAt, Acknowledged, Busy
  <2>4. CASE Has(q)
    BY <2>4 DEF Has, Finish, TypeOK, HandlersAt, Acknowledged, Busy
  <2>5. CASE Lookup(q)
    BY <2>5 DEF Lookup, Finish, TypeOK, HandlersAt, Acknowledged, Busy
  <2> QED
    BY <2>1, <2>2, <2>3, <2>4, <2>5
<1>4. Locked'
  <2>1. CASE StatMarker(q)
    BY <2>1 DEF StatMarker, Finish, TypeOK, Locked
  <2>2. CASE WriteMarker(q)
    BY <2>2, MarkerIs DEF Finish, TypeOK, Locked
  <2>3. CASE Accept(q)
    BY <2>3 DEF Accept, TypeOK, Locked
  <2>4. CASE Has(q)
    BY <2>4 DEF Has, Finish, TypeOK, Locked
  <2>5. CASE Lookup(q)
    BY <2>5 DEF Lookup, Finish, TypeOK, Locked
  <2> QED
    BY <2>1, <2>2, <2>3, <2>4, <2>5
<1>5. DownIsEmpty'
  <2>1. up /\ up' = up
    BY DEF StatMarker, WriteMarker, Accept, Has, Lookup, TypeOK, DownIsEmpty, Busy
  <2> QED
    BY <2>1 DEF DownIsEmpty
<1> QED
  BY <1>1, <1>2, <1>3, <1>4, <1>5

\* A line is written, or cut short.
LEMMA WriteShape ==
  ASSUME Shape, NEW q \in Requests, Write(q) \/ WriteFails(q)
  PROVE  Shape'
<1> USE FixtureAssumption DEF Shape, FixtureAssumption
<1>0. at[q] = "write" /\ asked[q] # None
  BY DEF Write, WriteFails, HandlersAt, Busy
<1>1. Line(q) \in JournalLines /\ Torn \in JournalLines
  BY <1>0, LineIs DEF JournalLines
<1>2. /\ RaggedHasLine' /\ HasLatest'
      /\ file' \in Seq(Entries \cup {Torn}) /\ ragged' \in BOOLEAN
  <2>1. CASE UNCHANGED <<file, ragged>>
    BY <2>1, JournalSame DEF TypeOK
  <2>2. CASE \E line \in JournalLines : file' = Appended(line) /\ ragged' \in BOOLEAN
    <3>1. PICK line \in JournalLines : file' = Appended(line) /\ ragged' \in BOOLEAN
      BY <2>2
    <3> QED
      BY <3>1, AppendedIs, JournalGrows DEF RaggedHasLine, JournalLines
  <2> QED
    BY <1>1, <2>1, <2>2 DEF Write, WriteFails
<1>3. TypeOK'
  <2>1. at' \in [Requests -> Places] /\ reply' \in [Requests -> Statuses]
    BY FinishIs DEF Write, WriteFails, TypeOK, Places, Statuses
  <2>2. mu' \in Requests \cup {None}
    BY DEF Write, WriteFails, TypeOK
  <2>3. UNCHANGED <<mode, up, kills, marker, asked, index, order>>
    BY DEF Write, WriteFails, memory
  <2> QED
    BY <1>2, <2>1, <2>2, <2>3 DEF TypeOK, Places, Statuses
<1>4. HandlersAt'
  BY DEF Write, WriteFails, Finish, TypeOK, HandlersAt, Acknowledged, Busy
<1>5. Locked'
  BY DEF Write, WriteFails, Finish, TypeOK, Locked
<1>6. DownIsEmpty'
  BY <1>0 DEF Write, WriteFails, TypeOK, DownIsEmpty, Busy
<1> QED
  BY <1>2, <1>3, <1>4, <1>5, <1>6

\* The line is synced, or not.
LEMMA SyncShape ==
  ASSUME Shape, NEW q \in Requests, Sync(q) \/ SyncFails(q)
  PROVE  Shape'
<1> USE FixtureAssumption DEF Shape, FixtureAssumption
<1>0. at[q] = "sync" /\ asked[q] # None
  BY DEF Sync, SyncFails, HandlersAt, Busy
<1>1. RaggedHasLine' /\ HasLatest'
  BY JournalSame DEF Sync, SyncFails, disk
<1>2. TypeOK'
  <2>1. CASE Sync(q)
    <3>1. /\ index' \in [Keys -> Prints \cup {None}]
          /\ order' \in Seq(Keys)
      BY <1>0, <2>1, LineIs, AppendProperties DEF Sync, TypeOK
    <3> QED
      BY <2>1, <3>1 DEF Sync, Finish, TypeOK, disk
  <2>2. CASE SyncFails(q)
    BY <2>2 DEF SyncFails, Finish, TypeOK, disk, memory
  <2> QED
    BY <2>1, <2>2
<1>3. HandlersAt'
  BY <1>0 DEF Sync, SyncFails, Finish, TypeOK, HandlersAt, Acknowledged, Busy
<1>4. Locked'
  BY DEF Sync, SyncFails, Finish, TypeOK, Locked
<1>5. DownIsEmpty'
  BY <1>0 DEF Sync, SyncFails, TypeOK, DownIsEmpty, Busy
<1> QED
  BY <1>1, <1>2, <1>3, <1>4, <1>5

\* The process is killed, or started again.
LEMMA KillOpenShape ==
  ASSUME Shape, Kill \/ Open
  PROVE  Shape'
<1> USE FixtureAssumption DEF Shape, FixtureAssumption
<1>1. RaggedHasLine' /\ HasLatest'
  BY JournalSame DEF Kill, Open, disk
<1>2. TypeOK'
  <2>1. CASE Kill
    <3>1. /\ index' \in [Keys -> Prints \cup {None}]
          /\ mu' \in Requests \cup {None} /\ kills' \in 0 .. MaxKills
      BY <2>1 DEF Kill, TypeOK
    <3>0. order' \in Seq(Keys) /\ up' \in BOOLEAN
      BY <2>1, EmptySeq DEF Kill
    <3>2. at' \in [Requests -> Places]
      BY <2>1 DEF Kill, TypeOK, Places
    <3>3. UNCHANGED <<mode, asked, reply, file, ragged, marker>>
      BY <2>1 DEF Kill, disk
    <3> QED
      BY <3>0, <3>1, <3>2, <3>3 DEF TypeOK, Places
  <2>2. CASE Open
    <3>1. ASSUME NEW key \in Keys PROVE Replayed(file)[key] \in Prints \cup {None}
      BY <2>2, <3>1, ReplayedIs, ElementOfSeq DEF Open, TypeOK, Latest, Readable, Entries
    <3>2. index' \in [Keys -> Prints \cup {None}]
      BY <2>2, <3>1 DEF Open, Replayed
    <3>3. order' \in Seq(Keys)
      <4>1. \A i \in 1 .. Len(file) : file[i].key \in Keys
        BY <2>2, ElementOfSeq DEF Open, TypeOK, Readable, Entries
      <4>2. order' \in [1 .. Len(file) -> Keys] /\ Len(file) \in Nat
        BY <2>2, <4>1, LenProperties DEF Open, TypeOK
      <4> QED
        BY <4>2, SeqDef
    <3>4. up' \in BOOLEAN /\ UNCHANGED <<mode, kills, file, ragged, marker, mu, asked, at, reply>>
      BY <2>2 DEF Open, disk
    <3> QED
      BY <3>2, <3>3, <3>4 DEF TypeOK
  <2> QED
    BY <2>1, <2>2
<1>3. HandlersAt'
  BY DEF Kill, Open, TypeOK, HandlersAt, Acknowledged, Busy
<1>4. Locked'
  <2>1. CASE Kill
    BY <2>1 DEF Kill, TypeOK, Locked
  <2>2. CASE Open
    BY <2>2 DEF Open, Locked
  <2> QED
    BY <2>1, <2>2
<1>5. DownIsEmpty'
  BY DEF Kill, Open, TypeOK, DownIsEmpty, Busy
<1> QED
  BY <1>1, <1>2, <1>3, <1>4, <1>5

LEMMA NextShape == Shape /\ [Next]_vars => Shape'
<1> SUFFICES ASSUME Shape, [Next]_vars PROVE Shape'
  OBVIOUS
<1>1. CASE \E q \in Requests : Arrive(q) \/ Refuse(q)
  BY <1>1, ArriveShape
<1>2. CASE \E q \in Requests : Handler(q)
  BY <1>2, BeforeWriteShape, WriteShape, SyncShape DEF Handler
<1>3. CASE Kill \/ Open
  BY <1>3, KillOpenShape
<1>4. CASE UNCHANGED vars
  <2>1. RaggedHasLine' /\ HasLatest'
    BY <1>4, JournalSame DEF Shape, vars
  <2> QED
    BY <1>4, <2>1 DEF vars, Shape, TypeOK, HandlersAt, Acknowledged, Locked, DownIsEmpty
<1> QED
  BY <1>1, <1>2, <1>3, <1>4 DEF Next, Quiescent

\* Every variable keeps its type.
THEOREM TypeCorrect == Spec => []TypeOK
<1>1. Shape => TypeOK
  BY DEF Shape
<1> QED
  BY <1>1, InitShape, NextShape, PTL DEF Spec

\* Whatever fails or is killed, a mutex that is held is held by a handler in
\* the middle of addWithFingerprint (defer s.mu.Unlock on every path).
THEOREM MutexIsGivenBack == Spec => []MutexHasWriter
<1>1. Shape => MutexHasWriter
  BY DEF Shape, TypeOK, Locked, MutexHasWriter
<1> QED
  BY <1>1, InitShape, NextShape, PTL DEF Spec

-----------------------------------------------------------------------------
(* Nothing that was acknowledged is lost. *)

Recorded(key) == InJournal(key) \/ ~Readable

\* The index, and the handler about to update it, know only what is recorded.
IndexIsRecorded ==
  /\ \A key \in Keys : index[key] # None => Recorded(key)
  /\ \A q \in Requests : at[q] = "sync" => Recorded(Key(q))

Kept == IndexIsRecorded /\ NeverSilentlyLost

\* Only a handler that writes changes the journal, and it only appends.
LEMMA JournalStep ==
  ASSUME Shape, [Next]_vars
  PROVE  \/ UNCHANGED <<file, ragged>>
         \/ \E line \in JournalLines : file' = Appended(line)
<1>1. ASSUME NEW q \in Requests, Write(q) \/ WriteFails(q)
      PROVE  \/ UNCHANGED <<file, ragged>>
             \/ \E line \in JournalLines : file' = Appended(line)
  <2>1. Line(q) \in JournalLines /\ Torn \in JournalLines
    BY <1>1, LineIs DEF Shape, HandlersAt, Busy, Write, WriteFails, JournalLines
  <2> QED
    BY <1>1, <2>1 DEF Write, WriteFails
<1> QED
  BY <1>1 DEF Next, Handler, Arrive, Refuse, StatMarker, WriteMarker, Accept, Has, Lookup,
              Sync, SyncFails, Kill, Open, Quiescent, disk, vars

\* What is recorded stays recorded.
LEMMA RecordedStays ==
  ASSUME Shape, [Next]_vars, NEW key, Recorded(key)
  PROVE  Recorded(key)'
<1>1. CASE UNCHANGED <<file, ragged>>
  BY <1>1, JournalSame DEF Shape, Recorded
<1>2. CASE \E line \in JournalLines : file' = Appended(line)
  BY <1>2, JournalGrows DEF Shape, Recorded
<1> QED
  BY <1>1, <1>2, JournalStep

\* A request keeps its key once it has one.
LEMMA SameKey ==
  ASSUME Shape, [Next]_vars, NEW q \in Requests, asked[q] # None \/ at[q] # "idle"
  PROVE  asked'[q] = asked[q] /\ Key(q)' = Key(q)
<1>1. CASE \E p \in Requests : Arrive(p)
  <2>1. PICK p \in Requests : Arrive(p)
    BY <1>1
  <2>2. CASE p = q
    BY <2>1, <2>2 DEF Arrive, Shape, HandlersAt
  <2>3. CASE p # q
    BY <2>1, <2>3 DEF Arrive, Key, Shape, TypeOK
  <2> QED
    BY <2>2, <2>3
<1>2. CASE UNCHANGED asked
  BY <1>2 DEF Key
<1> QED
  BY <1>1, <1>2 DEF Next, Handler, Refuse, StatMarker, WriteMarker, Accept, Has, Lookup,
              Write, WriteFails, Sync, SyncFails, Kill, Open, Quiescent, vars

\* The mode is chosen when the service is started the first time.
LEMMA SameMode ==
  ASSUME [Next]_vars
  PROVE  mode' = mode
BY MarkerIs DEF Next, Handler, Arrive, Refuse, StatMarker, Accept, Has, Lookup, Write,
   WriteFails, Sync, SyncFails, Kill, Open, Quiescent, vars

\* A reply is given once.
LEMMA SameReply ==
  ASSUME Shape, [Next]_vars, mode # "early-ack-bug", NEW q \in Requests, reply[q] # None
  PROVE  reply'[q] = reply[q]
<1>1. at[q] = "done"
  BY DEF Shape, HandlersAt
<1>2. CASE \E p \in Requests : Refuse(p) \/ Handler(p)
  <2>1. PICK p \in Requests : Refuse(p) \/ Handler(p)
    BY <1>2
  <2>2. p # q
    BY <1>1, <2>1 DEF Handler, Refuse, StatMarker, WriteMarker, Accept, Has, Lookup, Write,
       WriteFails, Sync, SyncFails
  <2> QED
    BY <2>1, <2>2, MarkerIs DEF Handler, Refuse, StatMarker, Accept, Has, Lookup, Write,
       WriteFails, Sync, SyncFails, Finish, Shape, TypeOK
<1>3. CASE UNCHANGED reply
  BY <1>3
<1> QED
  BY <1>2, <1>3 DEF Next, Arrive, Kill, Open, Quiescent, vars

\* In a mode that answers after the write, an acknowledgement comes from the
\* index or from the handler that has synced its line.
LEMMA NewlyAcknowledged ==
  ASSUME Shape, [Next]_vars, Durable, NEW q \in Requests, ~Acknowledged(q), Acknowledged(q)'
  PROVE  /\ asked[q] # None /\ reply'[q] \in {200, 201}
         /\ \/ /\ Has(q) \/ (Lookup(q) /\ reply'[q] = ReplayStatus(q))
               /\ at[q] \in {"has", "add"} /\ index[Key(q)] # None
               /\ reply'[q] = 200
            \/ Sync(q)
<1>1. reply[q] \notin {200, 201} /\ reply'[q] \in {200, 201}
  BY DEF Acknowledged
<1>2. PICK p \in Requests : Refuse(p) \/ Handler(p)
  BY <1>1 DEF Next, Arrive, Kill, Open, Quiescent, vars
<1>3. p = q
  BY <1>1, <1>2, MarkerIs DEF Refuse, Handler, StatMarker, Accept, Has, Lookup, Write,
     WriteFails, Sync, SyncFails, Finish, Shape, TypeOK
<1>4. ~StatMarker(q) /\ ~WriteMarker(q) /\ ~Accept(q)
  <2>1. mode \notin {"repair-after-crash-bug", "early-ack-bug"}
    BY DEF Durable
  <2>2. at[q] \notin {"stat", "mark", "accept"}
    BY <2>1 DEF Shape, HandlersAt
  <2> QED
    BY <2>2, MarkerIs DEF StatMarker, Accept
<1>5. ~Refuse(q) /\ ~Write(q) /\ ~WriteFails(q) /\ ~SyncFails(q)
  BY <1>1 DEF Refuse, Write, WriteFails, SyncFails, Finish, Shape, TypeOK
<1>6. CASE Has(q)
  BY <1>1, <1>6 DEF Has, Lookup, Finish, Shape, HandlersAt, Busy, TypeOK
<1>7. CASE Lookup(q)
  BY <1>1, <1>7 DEF Lookup, Finish, ReplayStatus, Shape, HandlersAt, Busy, Durable, TypeOK
<1>8. CASE Sync(q)
  BY <1>1, <1>8 DEF Sync, Shape, HandlersAt, Busy
<1> QED
  BY <1>2, <1>3, <1>4, <1>5, <1>6, <1>7, <1>8 DEF Handler

LEMMA IndexStep ==
  ASSUME Shape, IndexIsRecorded, [Next]_vars
  PROVE  IndexIsRecorded'
<1>1. ASSUME NEW key \in Keys, index'[key] # None
      PROVE  Recorded(key)'
  <2>1. CASE index'[key] = index[key]
    BY <1>1, <2>1, RecordedStays DEF IndexIsRecorded
  <2>2. CASE \E q \in Requests : Sync(q) /\ Key(q) = key
    BY <2>2, RecordedStays DEF Sync, IndexIsRecorded
  <2>3. CASE Open
    <3>1. InJournal(key)
      BY <1>1, <2>3, ReplayedIs DEF Open, Shape, Latest, InJournal, Readable
    <3> QED
      BY <3>1, RecordedStays DEF Recorded
  <2>4. CASE Kill
    BY <1>1, <2>4 DEF Kill
  <2>5. ASSUME NEW q \in Requests, Sync(q), Key(q) # key
        PROVE  index'[key] = index[key]
    BY <2>5 DEF Sync, Shape, TypeOK
  <2> QED
    BY <2>1, <2>2, <2>3, <2>4, <2>5 DEF Next, Handler, Arrive, Refuse, StatMarker, WriteMarker,
       Accept, Has, Lookup, Write, WriteFails, SyncFails, Quiescent, memory, vars
<1>2. ASSUME NEW q \in Requests, at'[q] = "sync"
      PROVE  Recorded(Key(q))'
  <2>1. CASE Write(q)
    <3>1. asked[q] # None
      BY <2>1 DEF Write, Shape, HandlersAt, Busy
    <3>2. PICK line \in Entries : line = Line(q)
      BY <3>1, LineIs DEF Shape
    <3>3. file' = Appended(line) /\ line \in JournalLines
      BY <2>1, <3>2 DEF Write, JournalLines
    <3>4. Readable' => Latest(line.key, Len(file))' /\ line # Torn
      BY <3>3, JournalGrows DEF Shape
    <3>5. Readable' => InJournal(line.key)'
      BY <3>4 DEF Latest, InJournal, Readable
    <3>6. Key(q)' = line.key
      BY <2>1, <3>1, <3>2, LineIs, SameKey DEF Shape
    <3> QED
      BY <3>5, <3>6 DEF Recorded
  <2>2. CASE at[q] = "sync"
    <3>1. asked[q] # None
      BY <2>2 DEF Shape, HandlersAt, Busy
    <3>2. PICK key \in Keys : key = Key(q)
      BY <3>1, LineIs DEF Shape
    <3>3. Recorded(key)'
      BY <2>2, <3>2, RecordedStays DEF IndexIsRecorded
    <3>4. Key(q)' = key
      BY <3>1, <3>2, SameKey
    <3> QED
      BY <3>3, <3>4
  <2>3. at[q] = "sync" \/ Write(q)
    BY <1>2, MarkerIs DEF Next, Handler, Arrive, Refuse, StatMarker, Accept, Has, Lookup,
       Write, WriteFails, Sync, SyncFails, Finish, Kill, Open, Quiescent, vars, Shape, TypeOK, Entry
  <2> QED
    BY <2>1, <2>2, <2>3
<1> QED
  BY <1>1, <1>2 DEF IndexIsRecorded

LEMMA KeptStep ==
  ASSUME Shape, Kept, [Next]_vars
  PROVE  Kept'
<1>1. IndexIsRecorded'
  BY IndexStep DEF Kept
<1>2. ASSUME Durable', NEW q \in Requests, Acknowledged(q)'
      PROVE  Recorded(Key(q))'
  <2>1. Durable
    BY <1>2, SameMode DEF Durable
  <2>2. asked[q] # None /\ Recorded(Key(q))
    <3>1. CASE Acknowledged(q)
      BY <2>1, <3>1 DEF Kept, NeverSilentlyLost, Recorded, Shape, HandlersAt
    <3>2. CASE ~Acknowledged(q)
      <4>1. asked[q] # None /\ (index[Key(q)] # None \/ at[q] = "sync")
        BY <1>2, <2>1, <3>2, NewlyAcknowledged DEF Sync
      <4> QED
        BY <4>1, LineIs DEF Kept, IndexIsRecorded, Shape
    <3> QED
      BY <3>1, <3>2
  <2>3. PICK key \in Keys : key = Key(q)
    BY <2>2, LineIs DEF Shape
  <2>4. Recorded(key)' /\ Key(q)' = key
    BY <2>2, <2>3, RecordedStays, SameKey
  <2> QED
    BY <2>4
<1> QED
  BY <1>1, <1>2 DEF Kept, NeverSilentlyLost, Recorded

LEMMA InitKept == Init => Kept
<1> SUFFICES ASSUME Init PROVE Kept
  OBVIOUS
<1>1. IndexIsRecorded
  BY DEF Init, IndexIsRecorded
<1>2. \A q \in Requests : ~Acknowledged(q)
  BY FixtureAssumption DEF Init, Acknowledged, FixtureAssumption
<1> QED
  BY <1>1, <1>2 DEF Kept, NeverSilentlyLost

-----------------------------------------------------------------------------
(* One record and one body for each key. *)

\* Whoever writes a key found nothing under it, and nothing has changed since;
\* while the service is up what it acknowledged is in its index.
SingleWriter ==
  mode \in {"correct", "replay-bug"} =>
    /\ \A q \in Requests : up /\ Acknowledged(q) => index[Key(q)] # None
    /\ \A q \in Requests : at[q] \in {"write", "sync"} => index[Key(q)] = None

\* The index, the replies and the line that counts agree on the body.
SameBody ==
  mode = "correct" =>
    /\ \A i \in 1 .. Len(file) : file[i] # Torn => file[i].print \in Bodies
    /\ \A key \in Keys : index[key] # NoPrint
    /\ Readable => \A key \in Keys : \A i : index[key] # None /\ Latest(key, i) =>
                     file[i].print = index[key]
    /\ Readable => \A q \in Requests : \A i :
                     (Acknowledged(q) \/ at[q] = "sync") /\ Latest(Key(q), i) =>
                       file[i].print = asked[q].body
    /\ \A q \in Requests : up /\ Acknowledged(q) => index[Key(q)] = asked[q].body

LEMMA SingleStep ==
  ASSUME Shape, Kept, SingleWriter, CreatedOnce, [Next]_vars
  PROVE  SingleWriter' /\ CreatedOnce'
<1> SUFFICES ASSUME mode \in {"correct", "replay-bug"} PROVE SingleWriter' /\ CreatedOnce'
  BY SameMode DEF SingleWriter, CreatedOnce
<1>0. Durable /\ Deduplicates /\ None \notin Prints
  BY FixtureAssumption DEF Durable, Deduplicates, FixtureAssumption
<1>1. ASSUME NEW q \in Requests, up', Acknowledged(q)'
      PROVE  index'[Key(q)'] # None
  <2>1. asked[q] # None
    BY <1>0, <1>1, NewlyAcknowledged DEF Shape, HandlersAt
  <2>2. Key(q)' = Key(q) /\ Key(q) \in Keys
    BY <2>1, SameKey, LineIs DEF Shape
  <2>3. CASE Open
    <3>1. Acknowledged(q) /\ Readable
      BY <1>1, <2>3 DEF Open, Acknowledged
    <3>2. InJournal(Key(q))
      BY <1>0, <3>1 DEF Kept, NeverSilentlyLost
    <3>3. PICK i \in 1 .. Len(file) : Replayed(file)[Key(q)] = file[i].print
      BY <2>2, <3>1, <3>2, ReplayedIs DEF Shape, InJournal, Latest
    <3>4. file[i].print \in Prints
      BY <3>1, ElementOfSeq DEF Shape, TypeOK, Readable, Entries
    <3> QED
      BY <1>0, <2>2, <2>3, <3>3, <3>4 DEF Open
  <2>4. CASE ~Open
    <3>1. ~Kill /\ up
      BY <1>1, <2>4, MarkerIs DEF Next, Handler, Arrive, Refuse, StatMarker, Accept, Has, Lookup,
         Write, WriteFails, Sync, SyncFails, Kill, Quiescent, vars
    <3>2. index[Key(q)] # None \/ Sync(q)
      BY <1>0, <1>1, <3>1, NewlyAcknowledged DEF SingleWriter
    <3>3. ASSUME NEW p \in Requests, Sync(p)
          PROVE  index'[Key(q)] # None
      <4>1. asked[p] # None /\ index' = [index EXCEPT ![Key(p)] = Fingerprint(p)]
        BY <3>3 DEF Sync, Shape, HandlersAt, Busy
      <4>2. Key(p) \in Keys /\ Fingerprint(p) # None
        BY <1>0, <4>1, LineIs DEF Shape
      <4>3. Key(p) = Key(q) \/ index[Key(q)] # None
        <5>1. CASE Sync(q)
          <6>1. mu = q /\ mu = p
            BY <3>3, <5>1 DEF Sync, Shape, Locked
          <6> QED
            BY <6>1
        <5> QED
          BY <3>2, <5>1
      <4> QED
        BY <2>2, <4>1, <4>2, <4>3 DEF Shape, TypeOK
    <3>4. (\E p \in Requests : Sync(p)) \/ UNCHANGED index
      BY <2>4, <3>1, MarkerIs DEF Next, Handler, Arrive, Refuse, StatMarker, Accept, Has, Lookup,
         Write, WriteFails, SyncFails, Quiescent, memory, vars
    <3> QED
      BY <2>2, <3>2, <3>3, <3>4
  <2> QED
    BY <2>3, <2>4
<1>2. ASSUME NEW q \in Requests, at'[q] \in {"write", "sync"}
      PROVE  index'[Key(q)'] = None
  <2>1. Lookup(q) \/ (at[q] \in {"write", "sync"} /\ mu = q)
    BY <1>2, MarkerIs DEF Next, Handler, Arrive, Refuse, StatMarker, Accept, Has, Lookup,
       Write, WriteFails, Sync, SyncFails, Finish, Kill, Open, Quiescent, vars, Shape, TypeOK,
       Locked, Entry
  <2>2. asked[q] # None /\ index[Key(q)] = None
    BY <1>0, <1>2, <2>1 DEF Lookup, Finish, SingleWriter, Shape, HandlersAt, Busy, TypeOK
  <2>3. up /\ ~Open
    BY <2>1 DEF Shape, DownIsEmpty, Busy, Lookup, Open
  <2>4. ASSUME NEW p \in Requests PROVE ~Sync(p)
    <3>1. SUFFICES ASSUME Sync(p) PROVE FALSE
      OBVIOUS
    <3>2. at[p] = "sync" /\ mu = p /\ at'[p] = "done"
      BY <3>1 DEF Sync, Finish, Shape, Locked, TypeOK
    <3>3. at[q] \in {"write", "sync"} => p = q
      BY <2>1, <3>2 DEF Shape, Locked
    <3>4. Lookup(q) => mu = None
      BY DEF Lookup
    <3> QED
      BY <1>2, <2>1, <3>2, <3>3, <3>4, FixtureAssumption DEF FixtureAssumption
  <2>5. Kill \/ UNCHANGED index
    BY <2>3, <2>4, MarkerIs DEF Next, Handler, Arrive, Refuse, StatMarker, Accept, Has, Lookup,
       Write, WriteFails, SyncFails, Quiescent, memory, vars
  <2>6. ~Kill
    BY <1>2 DEF Kill, Shape, TypeOK
  <2> QED
    BY <2>2, <2>5, <2>6, SameKey
<1>3. ASSUME NEW p \in Requests, NEW q \in Requests,
             reply'[p] = 201, reply'[q] = 201, Key(p)' = Key(q)'
      PROVE  p = q
  <2>1. ASSUME NEW r \in Requests, reply'[r] = 201
        PROVE  /\ asked[r] # None /\ Key(r)' = Key(r)
               /\ reply[r] = 201 \/ Sync(r)
    <3>1. CASE Acknowledged(r)
      <4>1. reply[r] # None /\ mode # "early-ack-bug"
        BY <3>1, FixtureAssumption DEF Acknowledged, FixtureAssumption
      <4> QED
        BY <2>1, <3>1, <4>1, SameReply, SameKey DEF Shape, HandlersAt
    <3>2. CASE ~Acknowledged(r)
      <4>1. Acknowledged(r)'
        BY <2>1 DEF Acknowledged
      <4> QED
        BY <1>0, <2>1, <3>2, <4>1, NewlyAcknowledged, SameKey
    <3> QED
      BY <3>1, <3>2
  <2>2. ASSUME NEW r \in Requests, NEW t \in Requests, Sync(r), reply[t] = 201
        PROVE  Key(r) # Key(t)
    <3>1. index[Key(r)] = None
      BY <2>2 DEF Sync, SingleWriter
    <3>2. up
      BY <2>2 DEF Sync, Shape, DownIsEmpty, Busy
    <3>3. index[Key(t)] # None
      BY <2>2, <3>2 DEF SingleWriter, Acknowledged
    <3> QED
      BY <3>1, <3>3
  <2>3. CASE Sync(p) /\ Sync(q)
    BY <2>3 DEF Sync, Shape, Locked
  <2>4. CASE reply[p] = 201 /\ reply[q] = 201
    BY <1>3, <2>1, <2>4 DEF CreatedOnce
  <2> QED
    BY <1>3, <2>1, <2>2, <2>3, <2>4
<1>4. CreatedOnce'
  BY <1>3 DEF CreatedOnce
<1>5. SingleWriter'
  BY <1>1, <1>2 DEF SingleWriter
<1> QED
  BY <1>4, <1>5

\* The line that counts for a key is one line.
LEMMA LatestIsOne ==
  ASSUME TypeOK, NEW key, NEW i, NEW j, Latest(key, i), Latest(key, j)
  PROVE  i = j
BY LenProperties DEF TypeOK, Latest

\* A line that is written is the writer's own; no other key is touched, and
\* nobody was acknowledged under that key.
LEMMA BodyWrite ==
  ASSUME Shape, Kept, SingleWriter, SameBody, mode = "correct",
         NEW q \in Requests, Write(q) \/ WriteFails(q)
  PROVE  SameBody'
<1>1. at[q] = "write" /\ asked[q] # None /\ up /\ index[Key(q)] = None
  BY DEF Write, WriteFails, SingleWriter, Shape, HandlersAt, DownIsEmpty, Busy
<1>2. PICK own \in Entries : own = Line(q) /\ own.key = Key(q) /\ own.print = asked[q].body
                             /\ own.print \in Bodies
  BY <1>1, LineIs DEF Shape, Fingerprint
<1>3. /\ UNCHANGED <<mode, up, index, asked>>
      /\ \A p \in Requests : Key(p)' = Key(p)
  BY DEF Write, WriteFails, memory, Key
<1>4. \A p \in Requests : Acknowledged(p)' => Acknowledged(p) /\ Key(p) # Key(q)
  <2>1. \A p \in Requests : Acknowledged(p)' => Acknowledged(p)
    BY DEF Write, WriteFails, Finish, Acknowledged, Shape, TypeOK
  <2> QED
    BY <1>1, <2>1 DEF SingleWriter
<1>5. \A p \in Requests : at'[p] = "sync" => p = q /\ Write(q)
  <2>1. \A p \in Requests \ {q} : at'[p] = at[p] /\ at[p] # "sync"
    <3>1. \A p \in Requests \ {q} : at[p] # "sync"
      BY <1>1 DEF Shape, Locked
    <3>2. \A p \in Requests \ {q} : at'[p] = at[p]
      BY DEF Write, WriteFails, Finish, Shape, TypeOK
    <3> QED
      BY <3>1, <3>2
  <2>2. WriteFails(q) => at'[q] = "done"
    BY DEF WriteFails, Finish, Shape, TypeOK
  <2> QED
    BY <2>1, <2>2
<1>6. CASE UNCHANGED <<file, ragged>>
  <2>1. ~Write(q)
    <3>1. own \in JournalLines
      BY DEF JournalLines
    <3>2. ~ragged => Len(Appended(own)) = Len(file) + 1
      BY <3>1, AppendedIs DEF Shape
    <3>3. Len(file) \in Nat
      BY LenProperties DEF Shape, TypeOK
    <3> QED
      BY <1>2, <1>6, <3>2, <3>3 DEF Write
  <2> QED
    BY <1>3, <1>4, <1>5, <1>6, <2>1, JournalSame DEF SameBody, Shape
<1>7. CASE \E line \in {own, Torn} : file' = Appended(line)
  <2>1. PICK line \in JournalLines : file' = Appended(line) /\ line \in {own, Torn}
    BY <1>7 DEF JournalLines
  <2>0. \A i \in 1 .. Len(file') : file'[i] # Torn => file'[i].print \in Bodies
    <3>1. Len(file) \in Nat
      BY LenProperties DEF Shape, TypeOK
    <3>2. \A i \in 1 .. Len(file) : file[i] # Torn => file[i].print \in Bodies
      BY DEF SameBody
    <3>3. CASE ragged
      <4>1. /\ Len(file') = Len(file) /\ file'[Len(file)] = Torn
            /\ \A i \in 1 .. Len(file) - 1 : file'[i] = file[i]
        BY <2>1, <3>3, AppendedIs DEF Shape
      <4>2. \A i \in 1 .. Len(file) : i = Len(file) \/ i \in 1 .. Len(file) - 1
        BY <3>1
      <4> QED
        BY <3>2, <4>1, <4>2
    <3>4. CASE ~ragged
      <4>1. /\ Len(file') = Len(file) + 1 /\ file'[Len(file) + 1] = line
            /\ \A i \in 1 .. Len(file) : file'[i] = file[i]
        BY <2>1, <3>4, AppendedIs DEF Shape
      <4>2. \A i \in 1 .. Len(file) + 1 : i = Len(file) + 1 \/ i \in 1 .. Len(file)
        BY <3>1
      <4> QED
        BY <1>2, <2>1, <3>2, <4>1, <4>2
    <3> QED
      BY <3>3, <3>4
  <2>2. CASE ~Readable'
    BY <1>3, <1>4, <2>0, <2>2 DEF SameBody
  <2>3. CASE Readable'
    <3>1. /\ Readable /\ line = own /\ file'[Len(file')] = own
          /\ \A key, i : key # own.key => (Latest(key, i)' <=> Latest(key, i))
          /\ \A i : Latest(own.key, i)' => i = Len(file')
          /\ \A i \in 1 .. Len(file) : file'[i] = file[i]
      BY <2>1, <2>3, JournalGrows DEF Shape
    <3>2. \A key, i : Latest(key, i) => i \in 1 .. Len(file)
      BY DEF Latest
    <3>3. ASSUME NEW key \in Keys, NEW i, index[key] # None, Latest(key, i)'
          PROVE  file'[i].print = index[key]
      <4>1. key # own.key
        BY <1>1, <1>2, <3>3
      <4>2. Latest(key, i) /\ i \in 1 .. Len(file)
        BY <3>1, <3>2, <3>3, <4>1
      <4> QED
        BY <3>1, <3>3, <4>2 DEF SameBody
    <3>4. ASSUME NEW p \in Requests, NEW i, Acknowledged(p)' \/ at'[p] = "sync",
                 Latest(Key(p), i)'
          PROVE  file'[i].print = asked[p].body
      <4>1. CASE Key(p) = Key(q)
        <5>1. p = q
          BY <1>4, <1>5, <3>4, <4>1
        <5>2. Latest(own.key, i)'
          BY <1>2, <1>3, <3>4, <4>1
        <5> QED
          BY <1>2, <3>1, <5>1, <5>2
      <4>2. CASE Key(p) # Key(q)
        <5>1. PICK key : key = Key(p)
          OBVIOUS
        <5>2. Latest(key, i)'
          BY <1>3, <3>4, <5>1
        <5>3. Latest(Key(p), i) /\ i \in 1 .. Len(file)
          BY <1>2, <3>1, <3>2, <4>2, <5>1, <5>2
        <5> QED
          BY <1>4, <1>5, <3>1, <3>4, <4>2, <5>3 DEF SameBody
      <4> QED
        BY <4>1, <4>2
    <3> QED
      BY <1>3, <1>4, <2>0, <3>1, <3>3, <3>4 DEF SameBody
  <2> QED
    BY <2>2, <2>3
<1> QED
  BY <1>2, <1>6, <1>7 DEF Write, WriteFails

\* A synced line takes its place in the index.
LEMMA BodySync ==
  ASSUME Shape, Kept, SingleWriter, SameBody, mode = "correct", NEW q \in Requests, Sync(q)
  PROVE  SameBody'
<1>1. /\ at[q] = "sync" /\ asked[q] # None /\ up /\ index[Key(q)] = None
      /\ Key(q) \in Keys /\ asked[q].body \in Bodies
      /\ Fingerprint(q) = asked[q].body
  BY LineIs DEF Sync, SingleWriter, Shape, HandlersAt, DownIsEmpty, Busy, Fingerprint
<1>2. /\ UNCHANGED <<mode, up, file, asked>> /\ Readable' = Readable
      /\ \A p \in Requests : Key(p)' = Key(p)
      /\ \A key, i : Latest(key, i)' <=> Latest(key, i)
  BY JournalSame DEF Sync, Key, disk, Shape
<1>3. /\ index' \in [Keys -> Prints \cup {None}]
      /\ index'[Key(q)] = asked[q].body
      /\ \A key \in Keys : key # Key(q) => index'[key] = index[key]
  BY <1>1, LineIs DEF Sync, Shape, TypeOK
<1>4. \A p \in Requests : Acknowledged(p)' => p = q \/ (Acknowledged(p) /\ Key(p) # Key(q))
  <2>1. \A p \in Requests : Acknowledged(p)' => p = q \/ Acknowledged(p)
    BY DEF Sync, Finish, Acknowledged, Shape, TypeOK
  <2> QED
    BY <1>1, <2>1 DEF SingleWriter
<1>5. \A p \in Requests : at'[p] # "sync"
  BY <1>1 DEF Sync, Finish, Shape, TypeOK, Locked
<1>6. \A key \in Keys : index'[key] # NoPrint
  BY <1>1, <1>3, FixtureAssumption DEF SameBody, FixtureAssumption
<1>7. ASSUME Readable, NEW key \in Keys, NEW i, index'[key] # None, Latest(key, i)
      PROVE  file[i].print = index'[key]
  BY <1>1, <1>3, <1>7 DEF SameBody
<1>8. ASSUME Readable, NEW p \in Requests, NEW i, Acknowledged(p)', Latest(Key(p), i)
      PROVE  file[i].print = asked[p].body
  BY <1>1, <1>4, <1>8 DEF SameBody
<1>9. ASSUME NEW p \in Requests, Acknowledged(p)'
      PROVE  index'[Key(p)] = asked[p].body
  <2>1. CASE p = q
    BY <1>3, <2>1
  <2>2. CASE p # q
    <3>1. Acknowledged(p) /\ Key(p) # Key(q)
      BY <1>4, <1>9, <2>2
    <3>2. Key(p) \in Keys
      BY <3>1, LineIs DEF Shape, HandlersAt
    <3> QED
      BY <1>1, <1>3, <3>1, <3>2 DEF SameBody
  <2> QED
    BY <2>1, <2>2
<1> QED
  BY <1>2, <1>5, <1>6, <1>7, <1>8, <1>9 DEF SameBody

\* A key that is in the index is answered from it, for the same body only.
LEMMA BodyReply ==
  ASSUME Shape, Kept, SingleWriter, SameBody, mode = "correct", [Next]_vars,
         UNCHANGED <<up, file, ragged, index>>,
         \A q \in Requests : ~Write(q) /\ ~Sync(q)
  PROVE  SameBody'
<1>1. /\ mode' = mode /\ Readable' = Readable
      /\ \A key, i : Latest(key, i)' <=> Latest(key, i)
  BY SameMode, JournalSame DEF Shape
<1>2. ASSUME NEW q \in Requests, Acknowledged(q)'
      PROVE  /\ asked[q] # None
             /\ Acknowledged(q) \/ (up /\ index[Key(q)] = asked[q].body)
  <2>1. CASE Acknowledged(q)
    BY <2>1 DEF Shape, HandlersAt
  <2>2. CASE ~Acknowledged(q)
    <3>1. /\ asked[q] # None /\ index[Key(q)] # None /\ reply'[q] = 200
          /\ Has(q) \/ (Lookup(q) /\ reply'[q] = ReplayStatus(q))
      BY <1>2, <2>2, NewlyAcknowledged DEF Durable
    <3>2. ~Has(q) /\ up
      BY <3>1 DEF Has, Lookup, Shape, HandlersAt, DownIsEmpty, Busy
    <3>3. index[Key(q)] \in {NoPrint, Fingerprint(q)}
      BY <3>1, <3>2 DEF ReplayStatus
    <3>4. index[Key(q)] = asked[q].body
      BY <3>1, <3>3, LineIs DEF SameBody, Shape, Fingerprint
    <3> QED
      BY <3>1, <3>2, <3>4
  <2> QED
    BY <2>1, <2>2
<1>3. ASSUME NEW q \in Requests, at'[q] = "sync"
      PROVE  at[q] = "sync" /\ asked[q] # None
  BY <1>3, MarkerIs DEF Next, Handler, Arrive, Refuse, StatMarker, Accept, Has, Lookup,
     WriteFails, SyncFails, Finish, Kill, Open, Quiescent, vars, Shape, TypeOK, Entry,
     HandlersAt, Busy
<1>4. ASSUME Readable, NEW q \in Requests, NEW i, Acknowledged(q)' \/ at'[q] = "sync",
             Latest(Key(q), i)'
      PROVE  file'[i].print = asked'[q].body
  <2>1. asked[q] # None /\ asked'[q] = asked[q] /\ Key(q)' = Key(q) /\ Key(q) \in Keys
    BY <1>2, <1>3, <1>4, SameKey, LineIs DEF Shape
  <2>2. PICK key \in Keys : key = Key(q)
    BY <2>1
  <2>3. Latest(key, i)'
    BY <1>4, <2>1, <2>2
  <2>4. Latest(Key(q), i)
    BY <1>1, <2>2, <2>3
  <2>5. asked[q].body # None
    BY <2>1, LineIs, FixtureAssumption DEF Shape, Prints, FixtureAssumption
  <2> QED
    BY <1>2, <1>3, <1>4, <2>1, <2>4, <2>5 DEF SameBody
<1>5. ASSUME NEW q \in Requests, up', Acknowledged(q)'
      PROVE  index'[Key(q)'] = asked'[q].body
  BY <1>2, <1>5, SameKey DEF SameBody
<1> QED
  BY <1>1, <1>4, <1>5 DEF SameBody

\* A kill empties the index; a restart reads the lines that count.
LEMMA BodyKillOpen ==
  ASSUME Shape, Kept, SingleWriter, SameBody, mode = "correct", Kill \/ Open
  PROVE  SameBody'
<1>1. /\ UNCHANGED <<mode, asked, reply, file>> /\ Readable' = Readable
      /\ \A key, i : Latest(key, i)' <=> Latest(key, i)
      /\ \A q \in Requests : (Acknowledged(q)' <=> Acknowledged(q)) /\ Key(q)' = Key(q)
  BY JournalSame DEF Kill, Open, disk, Shape, Acknowledged, Key
<1>2. \A q \in Requests : at'[q] # "sync"
  BY DEF Kill, Open, Shape, TypeOK, DownIsEmpty, Busy
<1>3. CASE Kill
  <2>1. ~up' /\ \A key \in Keys : index'[key] = None
    BY <1>3 DEF Kill
  <2> QED
    BY <1>1, <1>2, <2>1, FixtureAssumption DEF SameBody, FixtureAssumption, Prints
<1>4. CASE Open
  <2>1. Readable /\ index' = Replayed(file)
    BY <1>4 DEF Open
  <2>2. ASSUME NEW key \in Keys, NEW i, index'[key] # None, Latest(key, i)
        PROVE  file[i].print = index'[key]
    BY <2>1, <2>2, ReplayedIs, LatestIsOne DEF Shape
  <2>3. ASSUME NEW key \in Keys
        PROVE  index'[key] # NoPrint
    <3>1. CASE index'[key] = None
      BY <3>1, FixtureAssumption DEF FixtureAssumption, Prints
    <3>2. CASE index'[key] # None
      <4>1. PICK i \in 1 .. Len(file) : index'[key] = file[i].print
        BY <2>1, <3>2, ReplayedIs DEF Shape
      <4>2. file[i].print \in Bodies
        BY <2>1 DEF SameBody, Readable
      <4> QED
        BY <4>1, <4>2, FixtureAssumption DEF FixtureAssumption
    <3> QED
      BY <3>1, <3>2
  <2>4. ASSUME NEW q \in Requests, Acknowledged(q)
        PROVE  index'[Key(q)] = asked[q].body
    <3>1. InJournal(Key(q)) /\ Key(q) \in Keys
      BY <2>1, <2>4, LineIs DEF Kept, NeverSilentlyLost, Durable, Shape, HandlersAt
    <3>2. PICK i \in 1 .. Len(file) : Latest(Key(q), i) /\ index'[Key(q)] = file[i].print
      BY <2>1, <3>1, ReplayedIs DEF Shape, InJournal
    <3> QED
      BY <2>1, <2>4, <3>2 DEF SameBody
  <2> QED
    BY <1>1, <1>2, <2>1, <2>2, <2>3, <2>4 DEF SameBody
<1> QED
  BY <1>3, <1>4

LEMMA BodyStep ==
  ASSUME Shape, Kept, SingleWriter, SameBody, OneBodyPerKey, [Next]_vars
  PROVE  SameBody' /\ OneBodyPerKey'
<1> SUFFICES ASSUME mode = "correct" PROVE SameBody' /\ OneBodyPerKey'
  BY SameMode DEF SameBody, OneBodyPerKey
<1>1. SameBody'
  <2>1. CASE \E q \in Requests : Write(q) \/ WriteFails(q)
    BY <2>1, BodyWrite
  <2>2. CASE \E q \in Requests : Sync(q)
    BY <2>2, BodySync
  <2>3. CASE Kill \/ Open
    BY <2>3, BodyKillOpen
  <2>4. CASE /\ ~Kill /\ ~Open
             /\ \A q \in Requests : ~Write(q) /\ ~WriteFails(q) /\ ~Sync(q)
    <3>1. UNCHANGED <<up, file, ragged, index>>
      BY <2>4, MarkerIs DEF Next, Handler, Arrive, Refuse, StatMarker, Accept, Has, Lookup,
         SyncFails, Quiescent, disk, memory, vars
    <3> QED
      BY <2>4, <3>1, BodyReply
  <2> QED
    BY <2>1, <2>2, <2>3, <2>4
<1>2. CASE up'
  <2>1. ASSUME NEW p \in Requests, NEW q \in Requests, Acknowledged(p)', Acknowledged(q)',
               Key(p)' = Key(q)'
        PROVE  asked'[p].body = asked'[q].body
    BY <1>1, <1>2, <2>1, SameMode DEF SameBody
  <2> QED
    BY <1>1, <2>1 DEF OneBodyPerKey
<1>3. CASE ~up'
  <2>1. UNCHANGED <<asked, reply>>
    BY <1>3, MarkerIs DEF Next, Handler, Arrive, Refuse, StatMarker, Accept, Has, Lookup, Write,
       WriteFails, Sync, SyncFails, Kill, Open, Quiescent, vars, Shape, DownIsEmpty, Busy
  <2> QED
    BY <1>1, <2>1 DEF OneBodyPerKey, Acknowledged, Key
<1> QED
  BY <1>1, <1>2, <1>3

-----------------------------------------------------------------------------
IInv == Shape /\ Kept /\ SingleWriter /\ CreatedOnce /\ SameBody /\ OneBodyPerKey

LEMMA InitIInv == Init => IInv
<1> SUFFICES ASSUME Init PROVE IInv
  OBVIOUS
<1>1. \A q \in Requests : reply[q] \notin {200, 201}
  BY FixtureAssumption DEF Init, FixtureAssumption
<1>2. None # NoPrint /\ Len(file) = 0
  BY FixtureAssumption, EmptySeq DEF Init, FixtureAssumption, Prints
<1>3. SingleWriter /\ SameBody
  BY <1>1, <1>2 DEF Init, SingleWriter, SameBody, Acknowledged, Latest
<1>4. CreatedOnce /\ OneBodyPerKey
  BY <1>1 DEF CreatedOnce, OneBodyPerKey, Acknowledged
<1> QED
  BY <1>3, <1>4, InitShape, InitKept DEF IInv

\* The invariant holds throughout.
LEMMA Invariant == Spec => []IInv
<1>1. IInv /\ [Next]_vars => IInv'
  BY NextShape, KeptStep, SingleStep, BodyStep DEF IInv
<1> QED
  BY <1>1, InitIInv, PTL DEF Spec

\* A write that was acknowledged after its line was synced is in the journal
\* for good, or the journal can no longer be read and New refuses to start.
THEOREM NothingSilentlyLost == Spec => []NeverSilentlyLost
<1>1. IInv => NeverSilentlyLost
  BY DEF IInv, Kept
<1> QED
  BY <1>1, Invariant, PTL

\* addWithFingerprint answers 201 once for a key, across overlapping requests,
\* kills and restarts.
THEOREM OneCreation == Spec => []CreatedOnce
<1>1. IInv => CreatedOnce
  BY DEF IInv
<1> QED
  BY <1>1, Invariant, PTL

\* The correct mode never acknowledges two bodies under one key.
THEOREM OneBody == Spec => []OneBodyPerKey
<1>1. IInv => OneBodyPerKey
  BY DEF IInv
<1> QED
  BY <1>1, Invariant, PTL
-----------------------------------------------------------------------------
(* The correct mode is an idempotent store. *)

\* The failures under which it is: a write that fails leaves no trace.
Plain == Modes = {"correct"} /\ Failures \subseteq {"open", "marker"}

\* The journal has one line for a key, and while the service is up the index
\* knows of it, or is about to.
OneLine ==
  /\ mode = "correct" /\ ~ragged /\ Readable
  /\ \A i, j \in 1 .. Len(file) : file[i].key = file[j].key => i = j
  /\ up => \A key \in Keys : InJournal(key) =>
       index[key] # None \/ \E q \in Requests : at[q] = "sync" /\ Key(q) = key

\* The writer of a key finds no line of it.
LEMMA WriterIsFirst ==
  ASSUME IInv, OneLine, NEW q \in Requests, at[q] = "write"
  PROVE  /\ up /\ asked[q] # None /\ index[Key(q)] = None
         /\ \A i \in 1 .. Len(file) : file[i].key # Key(q)
<1>1. up /\ asked[q] # None /\ index[Key(q)] = None
  BY DEF IInv, OneLine, SingleWriter, Shape, HandlersAt, DownIsEmpty, Busy
<1>2. \A p \in Requests : at[p] # "sync"
  BY DEF IInv, Shape, Locked
<1>3. Key(q) \in Keys
  BY <1>1, LineIs DEF IInv, Shape
<1>4. ~InJournal(Key(q))
  BY <1>1, <1>2, <1>3 DEF OneLine
<1> QED
  BY <1>1, <1>4 DEF InJournal, OneLine, Readable

\* The journal while no line is written: the index comes to know it.
LEMMA SameLines ==
  ASSUME Plain, IInv, OneLine, [Next]_vars, UNCHANGED <<file, ragged>>,
         \A q \in Requests : ~Write(q)
  PROVE  OneLine'
<1> USE DEF IInv
<1>1. mode' = mode /\ Readable' = Readable /\ \A key : (InJournal(key)' <=> InJournal(key))
  BY SameMode, JournalSame DEF Shape
<1>2. None \notin Prints
  BY FixtureAssumption DEF FixtureAssumption
<1>3. ASSUME NEW key \in Keys, up', InJournal(key)
      PROVE  index'[key] # None \/ \E q \in Requests : at'[q] = "sync" /\ Key(q)' = key
  <2>1. CASE Open
    <3>1. PICK i \in 1 .. Len(file) : Replayed(file)[key] = file[i].print
      BY <1>3, <2>1, ReplayedIs DEF Open, Shape, InJournal, Latest
    <3>2. file[i].print \in Prints
      BY <2>1, ElementOfSeq DEF Open, Shape, TypeOK, Readable, Entries
    <3> QED
      BY <1>2, <2>1, <3>1, <3>2 DEF Open
  <2>2. CASE ~Open /\ \E q \in Requests : Sync(q)
    <3>1. PICK q \in Requests : Sync(q)
      BY <2>2
    <3>2. /\ asked[q] # None /\ at[q] = "sync" /\ up
          /\ index' = [index EXCEPT ![Key(q)] = Fingerprint(q)]
      BY <3>1 DEF Sync, Shape, HandlersAt, DownIsEmpty, Busy
    <3>3. Key(q) \in Keys /\ Fingerprint(q) # None
      BY <1>2, <3>2, LineIs DEF Shape
    <3>4. index[key] # None \/ Key(q) = key
      BY <1>3, <3>2 DEF OneLine, Shape, Locked
    <3> QED
      BY <3>2, <3>3, <3>4 DEF Shape, TypeOK
  <2>3. CASE ~Open /\ \A q \in Requests : ~Sync(q)
    <3>1. ~Kill /\ up /\ UNCHANGED index
      BY <1>3, <2>3, MarkerIs DEF Next, Handler, Arrive, Refuse, StatMarker, Accept, Has, Lookup,
         Write, WriteFails, SyncFails, Kill, Quiescent, vars, memory
    <3>2. CASE index[key] # None
      BY <3>1, <3>2
    <3>3. CASE index[key] = None
      <4>1. PICK q \in Requests : at[q] = "sync" /\ Key(q) = key
        BY <1>3, <3>1, <3>3 DEF OneLine
      <4>2. at'[q] = "sync"
        <5>1. ASSUME NEW p \in Requests, Arrive(p) \/ Refuse(p) \/ Handler(p)
              PROVE  at'[q] = "sync"
          <6>1. ~Sync(p) /\ ~SyncFails(p)
            BY <2>3 DEF Plain, SyncFails
          <6>2. p # q
            BY <4>1, <5>1, <6>1, MarkerIs DEF Arrive, Refuse, Handler, StatMarker, Accept, Has,
               Lookup, Write, WriteFails
          <6>3. at'[q] = at[q]
            BY <5>1, <6>1, <6>2, MarkerIs DEF Arrive, Refuse, Handler, StatMarker, Accept, Has,
               Lookup, Write, WriteFails, Finish, Shape, TypeOK
          <6> QED
            BY <4>1, <6>3
        <5>2. CASE UNCHANGED at
          BY <4>1, <5>2
        <5> QED
          BY <2>3, <3>1, <5>1, <5>2 DEF Next, Quiescent, vars
      <4>3. Key(q)' = key
        BY <4>1, SameKey DEF Shape
      <4> QED
        BY <4>2, <4>3
    <3> QED
      BY <3>2, <3>3
  <2> QED
    BY <2>1, <2>2, <2>3
<1> QED
  BY <1>1, <1>3 DEF OneLine

LEMMA OneLineStep ==
  ASSUME Plain, IInv, OneLine, [Next]_vars
  PROVE  OneLine'
<1>1. ASSUME NEW q \in Requests, Write(q)
      PROVE  OneLine'
  <2>1. at[q] = "write" /\ file' = Appended(Line(q)) /\ ~ragged' /\ UNCHANGED <<up, index, asked>>
    BY <1>1 DEF Write, memory
  <2>2. /\ up /\ asked[q] # None
        /\ \A i \in 1 .. Len(file) : file[i].key # Key(q)
    BY <2>1, WriterIsFirst
  <2>3. PICK own \in Entries : own = Line(q) /\ own.key = Key(q)
    BY <2>2, LineIs DEF IInv, Shape
  <2>4. own \in JournalLines /\ own # Torn /\ file' = Appended(own)
    BY <2>1, <2>3, FixtureAssumption DEF JournalLines, FixtureAssumption
  <2>5. /\ Len(file') = Len(file) + 1 /\ file'[Len(file) + 1] = own /\ Len(file) \in Nat
        /\ \A i \in 1 .. Len(file) : file'[i] = file[i]
    BY <2>4, AppendedIs, LenProperties DEF IInv, Shape, OneLine, TypeOK
  <2>6. Readable'
    BY <2>4, <2>5 DEF OneLine, Readable
  <2>7. \A i, j \in 1 .. Len(file') : file'[i].key = file'[j].key => i = j
    <3>1. \A i \in 1 .. Len(file') : i = Len(file) + 1 \/ i \in 1 .. Len(file)
      BY <2>5
    <3> QED
      BY <2>2, <2>3, <2>5, <3>1 DEF OneLine
  <2>8. ASSUME NEW key \in Keys, InJournal(key)'
        PROVE  index'[key] # None \/ \E p \in Requests : at'[p] = "sync" /\ Key(p)' = key
    <3>1. at'[q] = "sync" /\ Key(q)' = Key(q)
      BY <1>1 DEF Write, IInv, Shape, TypeOK, Key
    <3>2. CASE key = Key(q)
      BY <3>1, <3>2
    <3>3. CASE key # Key(q)
      <4>1. PICK i \in 1 .. Len(file') : file'[i] # Torn /\ file'[i].key = key
        BY <2>8 DEF InJournal
      <4>2. i \in 1 .. Len(file) /\ file[i] = file'[i]
        BY <2>3, <2>5, <3>3, <4>1
      <4>3. InJournal(key)
        BY <4>1, <4>2 DEF InJournal
      <4>4. \A p \in Requests : at[p] # "sync"
        BY <2>1 DEF IInv, Shape, Locked
      <4> QED
        BY <2>1, <2>2, <4>3, <4>4 DEF OneLine
    <3> QED
      BY <3>2, <3>3
  <2> QED
    BY <2>1, <2>6, <2>7, <2>8, SameMode DEF OneLine
<1>2. CASE \A q \in Requests : ~Write(q)
  <2>1. UNCHANGED <<file, ragged>>
    BY <1>2, MarkerIs DEF Plain, Next, Handler, Arrive, Refuse, StatMarker, Accept, Has, Lookup,
       WriteFails, Sync, SyncFails, Kill, Open, Quiescent, disk, vars
  <2> QED
    BY <1>2, <2>1, SameLines
<1> QED
  BY <1>1, <1>2

\* What is recorded under a key: the body of its one line.
Stored(key) ==
  LET lines == {i \in 1 .. Len(file) : file[i].key = key}
  IN  IF lines = {} THEN None ELSE file[CHOOSE i \in lines : TRUE].print

LEMMA StoredIs ==
  ASSUME IInv, OneLine, NEW key
  PROVE  /\ (\A i \in 1 .. Len(file) : file[i].key # key) => Stored(key) = None
         /\ \A i \in 1 .. Len(file) : file[i].key = key =>
              Latest(key, i) /\ Stored(key) = file[i].print /\ Stored(key) \in Bodies
<1> DEFINE lines == {i \in 1 .. Len(file) : file[i].key = key}
<1>1. CASE lines = {}
  BY <1>1 DEF Stored
<1>2. ASSUME NEW i \in 1 .. Len(file), file[i].key = key
      PROVE  Latest(key, i) /\ Stored(key) = file[i].print /\ Stored(key) \in Bodies
  <2>1. \A j \in lines : j = i
    BY <1>2 DEF OneLine
  <2>2. (CHOOSE j \in lines : TRUE) = i
    BY <1>2, <2>1
  <2>3. Stored(key) = file[i].print
    BY <1>2, <2>2 DEF Stored
  <2>4. Latest(key, i)
    <3>1. Len(file) \in Nat
      BY LenProperties DEF IInv, Shape, TypeOK
    <3> QED
      BY <1>2, <2>1, <3>1 DEF Latest
  <2>5. file[i].print \in Bodies
    BY <1>2 DEF IInv, SameBody, OneLine, Readable
  <2> QED
    BY <2>3, <2>4, <2>5
<1> QED
  BY <1>1, <1>2

\* What the index says of a key, and what its writer is about to say.
LEMMA KnownIsStored ==
  ASSUME IInv, OneLine
  PROVE  /\ \A key \in Keys : index[key] # None =>
              index[key] = Stored(key) /\ Stored(key) \in Bodies
         /\ \A q \in Requests : at[q] = "sync" =>
              Stored(Key(q)) = asked[q].body /\ Stored(Key(q)) \in Bodies
<1> USE DEF IInv
<1>1. ASSUME NEW key \in Keys, index[key] # None
      PROVE  index[key] = Stored(key) /\ Stored(key) \in Bodies
  <2>1. PICK i \in 1 .. Len(file) : file[i].key = key
    BY <1>1 DEF Kept, IndexIsRecorded, Recorded, OneLine, InJournal
  <2>2. Latest(key, i) /\ Stored(key) = file[i].print /\ Stored(key) \in Bodies
    BY <2>1, StoredIs
  <2> QED
    BY <1>1, <2>2 DEF SameBody, OneLine
<1>2. ASSUME NEW q \in Requests, at[q] = "sync"
      PROVE  Stored(Key(q)) = asked[q].body /\ Stored(Key(q)) \in Bodies
  <2>1. PICK key : key = Key(q)
    OBVIOUS
  <2>2. PICK i \in 1 .. Len(file) : file[i].key = key
    BY <1>2, <2>1 DEF Kept, IndexIsRecorded, Recorded, OneLine, InJournal
  <2>3. Latest(key, i) /\ Stored(key) = file[i].print /\ Stored(key) \in Bodies
    BY <2>2, StoredIs
  <2> QED
    BY <1>2, <2>1, <2>3 DEF SameBody, OneLine
<1> QED
  BY <1>1, <1>2

\* A written line is the only one of its key, and leaves the others alone.
LEMMA StoredNext ==
  ASSUME OneLine', NEW i \in 1 .. Len(file'), NEW own, file'[i] = own
  PROVE  Stored(own.key)' = own.print
<1> DEFINE lines == {j \in 1 .. Len(file') : file'[j].key = own.key}
<1>1. lines = {i}
  BY DEF OneLine
<1>2. (CHOOSE j \in lines : TRUE) = i
  BY <1>1
<1> QED
  BY <1>1, <1>2 DEF Stored

LEMMA OtherStored ==
  ASSUME NEW own, NEW key, key # own.key, Len(file) \in Nat,
         Len(file') = Len(file) + 1, file'[Len(file) + 1] = own,
         \A i \in 1 .. Len(file) : file'[i] = file[i]
  PROVE  Stored(key)' = Stored(key)
<1> DEFINE old == {j \in 1 .. Len(file) : file[j].key = key}
           new == {j \in 1 .. Len(file') : file'[j].key = key}
<1>1. new = old /\ \A j \in old : file'[j] = file[j]
  OBVIOUS
<1>2. old # {} => (CHOOSE j \in old : TRUE) \in old
  OBVIOUS
<1>3. Stored(key) = IF old = {} THEN None ELSE file[CHOOSE j \in old : TRUE].print
  BY DEF Stored
<1>4. Stored(key)' = IF new = {} THEN None ELSE file'[CHOOSE j \in new : TRUE].print
  BY DEF Stored
<1> HIDE DEF old, new
<1>5. Stored(key)' = IF old = {} THEN None ELSE file'[CHOOSE j \in old : TRUE].print
  BY <1>1, <1>4
<1> QED
  BY <1>1, <1>2, <1>3, <1>5

StoreMap == [key \in Keys |-> Stored(key)]

\* Writing the journal line is recording; everything else that is not an
\* answer or an arrival is invisible.
LEMMA StoreStep ==
  ASSUME Plain, IInv, OneLine, OneLine', IInv', [Next]_vars
  PROVE  [S!Next]_(S!vars)
<1> DEFINE map == [key \in Keys |->
                     LET lines == {i \in 1 .. Len(file) : file[i].key = key}
                     IN  IF lines = {} THEN None ELSE file[CHOOSE i \in lines : TRUE].print]
<1>0. map = StoreMap
  BY DEF StoreMap, Stored
<1>1. UNCHANGED file => UNCHANGED map
  OBVIOUS
<1>2. \A q \in Requests : at[q] \in Busy => /\ asked[q] # None /\ reply[q] = None
                                           /\ Key(q) \in Keys /\ map[Key(q)] = Stored(Key(q))
  <2> HIDE DEF map
  <2> SUFFICES ASSUME NEW q \in Requests, at[q] \in Busy
               PROVE  /\ asked[q] # None /\ reply[q] = None
                      /\ Key(q) \in Keys /\ map[Key(q)] = Stored(Key(q))
    OBVIOUS
  <2>1. asked[q] # None /\ reply[q] = None
    BY DEF IInv, Shape, HandlersAt, OneLine, Busy
  <2>2. Key(q) \in Keys
    BY <2>1, LineIs DEF IInv, Shape
  <2> QED
    BY <1>0, <2>1, <2>2 DEF StoreMap
<1>3. None \notin Bodies /\ NoPrint \notin Bodies
  BY FixtureAssumption DEF FixtureAssumption, Prints
<1>4. ASSUME NEW q \in Requests, Arrive(q)
      PROVE  S!Ask(q)
  <2>1. asked[q] = None /\ reply[q] = None
    BY <1>4 DEF Arrive, IInv, Shape, HandlersAt
  <2>2. UNCHANGED map
    BY <1>1, <1>4 DEF Arrive, disk
  <2> QED
    BY <1>4, <2>1, <2>2 DEF Arrive, S!Ask
<1>5. ASSUME NEW q \in Requests, Refuse(q)
      PROVE  S!Refuse(q)
  <2>1. asked[q] = None /\ reply[q] = None
    BY <1>5 DEF Refuse, IInv, Shape, HandlersAt
  <2>2. UNCHANGED map /\ UNCHANGED asked
    BY <1>1, <1>5 DEF Refuse, disk
  <2> QED
    BY <1>5, <2>1, <2>2 DEF Refuse, Finish, S!Refuse, S!Unanswered
<1>6. ASSUME NEW q \in Requests, Lookup(q)
      PROVE  S!Answer(q) \/ UNCHANGED (S!vars)
  <2>1. at[q] \in Busy /\ UNCHANGED map /\ UNCHANGED asked
    BY <1>1, <1>6 DEF Lookup, Busy, disk
  <2>2. CASE index[Key(q)] # None
    <3>1. reply' = [reply EXCEPT ![q] = ReplayStatus(q)]
      BY <1>2, <1>6, <2>1, <2>2 DEF Lookup, Deduplicates, OneLine, Finish
    <3>2. index[Key(q)] = map[Key(q)] /\ map[Key(q)] \in Bodies
      BY <1>2, <2>1, <2>2, KnownIsStored
    <3>3. CASE map[Key(q)] = asked[q].body
      <4>1. ReplayStatus(q) = 200
        BY <3>2, <3>3 DEF ReplayStatus, Fingerprint, OneLine
      <4>2. S!Repeated(q)
        BY <3>3 DEF S!Repeated, Key
      <4> QED
        BY <1>2, <2>1, <3>1, <4>1, <4>2 DEF S!Answer, S!Unanswered
    <3>4. CASE map[Key(q)] # asked[q].body
      <4>1. ReplayStatus(q) = 422
        BY <1>3, <3>2, <3>4 DEF ReplayStatus, Fingerprint, OneLine
      <4>2. S!Conflicts(q)
        BY <1>3, <3>2, <3>4 DEF S!Conflicts, Key
      <4> QED
        BY <1>2, <2>1, <3>1, <4>1, <4>2 DEF S!Answer, S!Unanswered
    <3> QED
      BY <3>3, <3>4
  <2>3. CASE index[Key(q)] = None
    <3>1. UNCHANGED reply
      BY <1>6, <2>3 DEF Lookup
    <3> QED
      BY <2>1, <3>1 DEF S!vars
  <2> QED
    BY <2>2, <2>3
<1>7. ASSUME NEW q \in Requests, Write(q)
      PROVE  S!Record(q)
  <2>1. at[q] = "write" /\ at[q] \in Busy /\ UNCHANGED <<asked, reply>> /\ file' = Appended(Line(q))
    BY <1>7 DEF Write, Busy
  <2>2. /\ \A i \in 1 .. Len(file) : file[i].key # Key(q)
        /\ asked[q] # None
    BY <2>1, WriterIsFirst
  <2>3. PICK own \in Entries : own = Line(q) /\ own.key = Key(q) /\ own.print = asked[q].body
    BY <2>2, LineIs DEF IInv, Shape, Fingerprint, OneLine
  <2>4. own \in JournalLines /\ file' = Appended(own)
    BY <2>1, <2>3 DEF JournalLines
  <2>5. /\ Len(file') = Len(file) + 1 /\ file'[Len(file) + 1] = own /\ Len(file) \in Nat
        /\ \A i \in 1 .. Len(file) : file'[i] = file[i]
    BY <2>4, AppendedIs, LenProperties DEF IInv, Shape, OneLine, TypeOK
  <2>6. map[Key(q)] = None
    BY <1>2, <2>1, <2>2, StoredIs
  <2>7. map' = [map EXCEPT ![Key(q)] = asked[q].body]
    <3>1. map' = [key \in Keys |-> Stored(key)']
      BY DEF Stored
    <3>2. Stored(own.key)' = own.print
      <4>1. Len(file) + 1 \in 1 .. Len(file')
        BY <2>5
      <4> QED
        BY <2>5, <4>1, StoredNext
    <3>3. ASSUME NEW key \in Keys, key # own.key
          PROVE  Stored(key)' = Stored(key)
      BY <2>5, <3>3, OtherStored
    <3> HIDE DEF map
    <3>4. \A key \in Keys : map[key] = Stored(key)
      BY <1>0 DEF StoreMap
    <3>5. map = [key \in Keys |-> map[key]]
      BY <1>0 DEF StoreMap
    <3> QED
      BY <2>3, <3>1, <3>2, <3>3, <3>4, <3>5
  <2> QED
    BY <1>2, <2>1, <2>6, <2>7 DEF S!Record, S!Unanswered, Key
<1>8. ASSUME NEW q \in Requests, WriteFails(q)
      PROVE  S!Answer(q)
  <2>1. at[q] \in Busy /\ UNCHANGED map /\ UNCHANGED asked /\ Finish(q, 500)
    BY <1>1, <1>8 DEF WriteFails, Plain, Busy
  <2> QED
    BY <1>2, <2>1 DEF Finish, S!Answer, S!Unanswered
<1>9. ASSUME NEW q \in Requests, Sync(q)
      PROVE  S!Answer(q)
  <2>1. at[q] = "sync" /\ at[q] \in Busy /\ UNCHANGED map /\ UNCHANGED asked /\ Finish(q, 201)
    BY <1>1, <1>9 DEF Sync, Busy, disk
  <2>2. map[Key(q)] = asked[q].body
    BY <1>2, <2>1, KnownIsStored
  <2>3. \A p \in Requests : reply[p] = 201 => Key(p) # Key(q)
    <3>1. up /\ index[Key(q)] = None
      BY <2>1 DEF IInv, Shape, DownIsEmpty, SingleWriter, OneLine
    <3>2. \A p \in Requests : reply[p] = 201 => index[Key(p)] # None
      BY <3>1 DEF IInv, SingleWriter, OneLine, Acknowledged
    <3> QED
      BY <3>1, <3>2
  <2>4. S!Created(q)
    BY <2>2, <2>3 DEF S!Created, Key
  <2> QED
    BY <1>2, <2>1, <2>4 DEF Finish, S!Answer, S!Unanswered
<1>10. ASSUME UNCHANGED <<file, asked, reply>>
       PROVE  UNCHANGED (S!vars)
  BY <1>1, <1>10 DEF S!vars
<1>11. \A q \in Requests : ~StatMarker(q) /\ ~WriteMarker(q) /\ ~Accept(q) /\ ~Has(q) /\ ~SyncFails(q)
  BY MarkerIs DEF Plain, StatMarker, Accept, Has, SyncFails, IInv, Shape, HandlersAt, OneLine
<1>12. CASE Kill \/ Open \/ Quiescent \/ UNCHANGED vars
  BY <1>10, <1>12 DEF Kill, Open, Quiescent, vars, disk
<1> HIDE DEF map
<1> QED
  BY <1>4, <1>5, <1>6, <1>7, <1>8, <1>9, <1>11, <1>12 DEF Next, Handler, S!Next

\* In its correct mode, and unless a failing write leaves a trace in the
\* journal, the service is an idempotent store: a key is recorded once, in the
\* step that writes its line, every reply is the one the record demands, and
\* neither kills nor restarts change what is recorded.
THEOREM StoreIsOnce ==
  ASSUME Plain
  PROVE  Spec => StoresOnce
<1>1. Init => S!Init /\ OneLine
  <2> SUFFICES ASSUME Init PROVE S!Init /\ OneLine
    OBVIOUS
  <2>1. Len(file) = 0 /\ ~ragged /\ mode = "correct"
    BY EmptySeq DEF Init, Plain
  <2>2. OneLine
    BY <2>1 DEF OneLine, Readable, InJournal
  <2> QED
    BY <2>1, <2>2 DEF Init, S!Init
<1>2. IInv /\ OneLine /\ [Next]_vars => OneLine'
  BY OneLineStep
<1>3. IInv /\ IInv' /\ OneLine /\ OneLine' /\ [Next]_vars => [S!Next]_(S!vars)
  BY StoreStep
<1> QED
  BY <1>1, <1>2, <1>3, Invariant, PTL DEF Spec, StoresOnce, S!Spec
-----------------------------------------------------------------------------
(* A second line of a key needs a failure. *)

Told500(key) == {q \in For(key) : reply[q] = 500}
Spots(key) == {i \in 1 .. Len(file) : file[i] # Torn /\ file[i].key = key}
NoneSyncs(key) == \A q \in Requests : at[q] = "sync" => Key(q) # key

\* Every line of a key but one stands for a writer that was told 500; so does
\* every line of a key that the running service does not know.
FewLines ==
  mode \in {"correct", "replay-bug"} =>
    /\ IsFiniteSet({q \in Requests : reply[q] = 500})
    /\ \A key \in Keys :
         /\ Cardinality(Spots(key)) <= 1 + Cardinality(Told500(key))
         /\ up /\ index[key] = None /\ NoneSyncs(key) =>
              Cardinality(Spots(key)) <= Cardinality(Told500(key))

\* An append adds a line to one key at most.
LEMMA SpotsGrow ==
  ASSUME TypeOK, RaggedHasLine, NEW key, NEW line \in JournalLines,
         file' = Appended(line) \/ UNCHANGED file
  PROVE  /\ Cardinality(Spots(key)) \in Nat /\ Cardinality(Spots(key))' \in Nat
         /\ Cardinality(Spots(key))' <= Cardinality(Spots(key)) + 1
         /\ line = Torn \/ line.key # key \/ UNCHANGED file =>
              Cardinality(Spots(key))' <= Cardinality(Spots(key))
<1>1. Len(file) \in Nat /\ IsFiniteSet(1 .. Len(file))
  BY LenProperties, FS_Interval DEF TypeOK
<1>2. IsFiniteSet(Spots(key)) /\ Cardinality(Spots(key)) \in Nat
  <2>1. Spots(key) \in SUBSET (1 .. Len(file))
    BY DEF Spots
  <2> QED
    BY <1>1, <2>1, FS_Subset, FS_CardinalityType
<1> DEFINE last == Len(file) + 1
<1>3. /\ Spots(key)' \subseteq Spots(key) \cup {last}
      /\ line = Torn \/ line.key # key \/ UNCHANGED file => Spots(key)' \subseteq Spots(key)
  <2>1. CASE UNCHANGED file
    BY <2>1 DEF Spots
  <2>2. CASE file' = Appended(line) /\ ragged
    <3>1. /\ Len(file') = Len(file) /\ file'[Len(file)] = Torn
          /\ \A i \in 1 .. Len(file) - 1 : file'[i] = file[i]
      BY <2>2, AppendedIs
    <3>2. \A i \in 1 .. Len(file) : i = Len(file) \/ i \in 1 .. Len(file) - 1
      BY <1>1
    <3> QED
      BY <3>1, <3>2 DEF Spots
  <2>3. CASE file' = Appended(line) /\ ~ragged
    <3>1. /\ Len(file') = last /\ file'[last] = line
          /\ \A i \in 1 .. Len(file) : file'[i] = file[i]
      BY <2>3, AppendedIs
    <3>2. \A i \in 1 .. last : i = last \/ i \in 1 .. Len(file)
      BY <1>1
    <3>3. \A i \in Spots(key)' : i = last \/ i \in Spots(key)
      BY <3>1, <3>2 DEF Spots
    <3>4. last \in Spots(key)' => line # Torn /\ line.key = key
      BY <3>1 DEF Spots
    <3>5. file' # file
      BY <1>1, <3>1
    <3> QED
      BY <3>3, <3>4, <3>5
  <2> QED
    BY <2>1, <2>2, <2>3
<1>4. /\ IsFiniteSet(Spots(key) \cup {last})
      /\ Cardinality(Spots(key) \cup {last}) <= Cardinality(Spots(key)) + 1
      /\ Cardinality(Spots(key) \cup {last}) \in Nat
  BY <1>2, FS_AddElement, FS_CardinalityType
<1>5. PICK now : now = Spots(key)'
  OBVIOUS
<1>6. IsFiniteSet(now) /\ Cardinality(now) <= Cardinality(Spots(key) \cup {last})
      /\ Cardinality(now) \in Nat
  BY <1>3, <1>4, <1>5, FS_Subset, FS_CardinalityType
<1>7. line = Torn \/ line.key # key \/ UNCHANGED file => Cardinality(now) <= Cardinality(Spots(key))
  BY <1>2, <1>3, <1>5, FS_Subset
<1> QED
  BY <1>2, <1>4, <1>5, <1>6, <1>7

\* One step answers one request at most.
LEMMA OneReply ==
  ASSUME Shape, [Next]_vars
  PROVE  \E p : \A q \in Requests \ {p} : reply'[q] = reply[q]
<1>1. ASSUME NEW p \in Requests, Refuse(p) \/ Handler(p)
      PROVE  \A q \in Requests \ {p} : reply'[q] = reply[q]
  BY <1>1, MarkerIs DEF Handler, Refuse, StatMarker, Accept, Has, Lookup, Write, WriteFails, Sync,
     SyncFails, Finish, Shape, TypeOK
<1>2. CASE UNCHANGED reply
  BY <1>2
<1> QED
  BY <1>1, <1>2 DEF Next, Arrive, Kill, Open, Quiescent, vars

\* Who was told 500 stays so.
LEMMA ToldGrows ==
  ASSUME Shape, [Next]_vars, mode # "early-ack-bug",
         IsFiniteSet({q \in Requests : reply[q] = 500})
  PROVE  /\ IsFiniteSet({q \in Requests : reply[q] = 500})'
         /\ \A key : /\ Cardinality(Told500(key)) \in Nat /\ Cardinality(Told500(key))' \in Nat
                     /\ Cardinality(Told500(key)) <= Cardinality(Told500(key))'
         /\ \A key : \A q \in For(key) : reply[q] # 500 /\ reply'[q] = 500 =>
              Cardinality(Told500(key)) + 1 <= Cardinality(Told500(key))'
<1> DEFINE told == {q \in Requests : reply[q] = 500}
<1>0. None # 500
  BY FixtureAssumption DEF FixtureAssumption
<1>1. PICK p : \A q \in Requests \ {p} : reply'[q] = reply[q]
  BY OneReply
<1>2. PICK now : now = told'
  OBVIOUS
<1>3. IsFiniteSet(now)
  <2>1. now \in SUBSET (told \cup {p})
    BY <1>1, <1>2
  <2>2. IsFiniteSet(told \cup {p})
    BY FS_AddElement
  <2> QED
    BY <2>1, <2>2, FS_Subset
<1>4. ASSUME NEW key
      PROVE  /\ Cardinality(Told500(key)) \in Nat /\ Cardinality(Told500(key))' \in Nat
             /\ Cardinality(Told500(key)) <= Cardinality(Told500(key))'
             /\ \A q \in For(key) : reply[q] # 500 /\ reply'[q] = 500 =>
                  Cardinality(Told500(key)) + 1 <= Cardinality(Told500(key))'
  <2>1. PICK later : later = Told500(key)'
    OBVIOUS
  <2>2. IsFiniteSet(Told500(key)) /\ Cardinality(Told500(key)) \in Nat
    <3>1. Told500(key) \in SUBSET told
      BY DEF Told500, For
    <3> QED
      BY <3>1, FS_Subset, FS_CardinalityType
  <2>3. IsFiniteSet(later) /\ Cardinality(later) \in Nat
    <3>1. later \in SUBSET now
      BY <1>2, <2>1 DEF Told500, For
    <3> QED
      BY <1>3, <3>1, FS_Subset, FS_CardinalityType
  <2>4. \A q \in For(key) : asked'[q] = asked[q] /\ Key(q)' = Key(q)
    BY SameKey DEF For
  <2>5. \A q \in For(key) : reply'[q] = 500 => q \in later
    BY <2>1, <2>4 DEF Told500, For
  <2>6. Told500(key) \in SUBSET later
    <3>1. \A q \in Told500(key) : q \in For(key) /\ reply'[q] = 500
      BY <1>0, SameReply DEF Told500, For
    <3> QED
      BY <2>5, <3>1
  <2>7. Cardinality(Told500(key)) <= Cardinality(later)
    BY <2>3, <2>6, FS_Subset
  <2>8. ASSUME NEW q \in For(key), reply[q] # 500, reply'[q] = 500
        PROVE  Cardinality(Told500(key)) + 1 <= Cardinality(later)
    <3>1. q \notin Told500(key) /\ q \in later
      BY <2>5, <2>8 DEF Told500
    <3>2. Cardinality(Told500(key) \cup {q}) = Cardinality(Told500(key)) + 1
      BY <2>2, <3>1, FS_AddElement
    <3>3. Told500(key) \cup {q} \in SUBSET later
      BY <2>6, <3>1
    <3> QED
      BY <2>3, <3>2, <3>3, FS_Subset
  <2> QED
    BY <2>1, <2>2, <2>3, <2>7, <2>8
<1> QED
  BY <1>2, <1>3, <1>4

LEMMA FewStep ==
  ASSUME IInv, FewLines, [Next]_vars
  PROVE  FewLines'
<1> SUFFICES ASSUME mode \in {"correct", "replay-bug"} PROVE FewLines'
  BY SameMode DEF FewLines
<1> DEFINE few(key) ==
      /\ Cardinality(Spots(key))' <= 1 + Cardinality(Told500(key))'
      /\ up' /\ index'[key] = None /\ NoneSyncs(key)' =>
           Cardinality(Spots(key))' <= Cardinality(Told500(key))'
<1>0. Shape /\ TypeOK /\ RaggedHasLine /\ IsFiniteSet({q \in Requests : reply[q] = 500})
  BY DEF IInv, Shape, FewLines
<1>1. /\ IsFiniteSet({q \in Requests : reply[q] = 500})'
      /\ \A key : /\ Cardinality(Told500(key)) \in Nat /\ Cardinality(Told500(key))' \in Nat
                  /\ Cardinality(Told500(key)) <= Cardinality(Told500(key))'
      /\ \A key : \A q \in For(key) : reply[q] # 500 /\ reply'[q] = 500 =>
           Cardinality(Told500(key)) + 1 <= Cardinality(Told500(key))'
  BY <1>0, ToldGrows
<1>2. \A key \in Keys :
        /\ Cardinality(Spots(key)) <= 1 + Cardinality(Told500(key))
        /\ up /\ index[key] = None /\ NoneSyncs(key) =>
             Cardinality(Spots(key)) <= Cardinality(Told500(key))
  BY DEF FewLines
<1>3. ASSUME NEW key, UNCHANGED file
      PROVE  Cardinality(Spots(key)) \in Nat /\ Cardinality(Spots(key))' = Cardinality(Spots(key))
  <2>1. Torn \in JournalLines
    BY DEF JournalLines
  <2>2. Cardinality(Spots(key)) \in Nat
    BY <1>0, <1>3, <2>1, SpotsGrow
  <2> QED
    BY <1>3, <2>2 DEF Spots
<1>4. None # 500
  BY FixtureAssumption DEF FixtureAssumption
<1>5. ASSUME NEW q \in Requests, Write(q) \/ WriteFails(q), NEW key \in Keys
      PROVE  few(key)
  <2>1. at[q] = "write" /\ asked[q] # None /\ up /\ index[Key(q)] = None /\ UNCHANGED <<up, index>>
    BY <1>5 DEF Write, WriteFails, IInv, SingleWriter, Shape, HandlersAt, DownIsEmpty, Busy, memory
  <2>2. NoneSyncs(key)
    BY <2>1 DEF NoneSyncs, IInv, Shape, Locked
  <2>3. PICK own \in Entries : own = Line(q) /\ own.key = Key(q) /\ own # Torn
    BY <1>0, <2>1, LineIs, FixtureAssumption DEF FixtureAssumption
  <2>4. PICK line \in JournalLines : line \in {own, Torn} /\ (file' = Appended(line) \/ UNCHANGED file)
    BY <1>5, <2>3 DEF Write, WriteFails, JournalLines
  <2>5. /\ Cardinality(Spots(key)) \in Nat /\ Cardinality(Spots(key))' \in Nat
        /\ Cardinality(Spots(key))' <= Cardinality(Spots(key)) + 1
        /\ key # Key(q) => Cardinality(Spots(key))' <= Cardinality(Spots(key))
    BY <1>0, <2>3, <2>4, SpotsGrow
  <2>6. index[key] = None => Cardinality(Spots(key)) <= Cardinality(Told500(key))
    BY <1>2, <2>1, <2>2
  <2>7. CASE key # Key(q)
    BY <1>1, <1>2, <2>1, <2>5, <2>6, <2>7
  <2>8. CASE key = Key(q) /\ Write(q)
    <3>1. ~NoneSyncs(key)'
      BY <1>0, <2>8 DEF NoneSyncs, Write, Key, TypeOK
    <3> QED
      BY <1>1, <2>1, <2>5, <2>6, <2>8, <3>1
  <2>9. CASE key = Key(q) /\ WriteFails(q)
    <3>1. q \in For(key) /\ reply[q] # 500 /\ reply'[q] = 500
      BY <1>0, <1>4, <2>1, <2>9 DEF For, WriteFails, Finish, Shape, HandlersAt, TypeOK
    <3> QED
      BY <1>1, <2>1, <2>5, <2>6, <2>9, <3>1
  <2> QED
    BY <1>5, <2>7, <2>8, <2>9
<1>6. ASSUME NEW q \in Requests, Sync(q) \/ SyncFails(q), NEW key \in Keys
      PROVE  few(key)
  <2>1. /\ at[q] = "sync" /\ asked[q] # None /\ up /\ UNCHANGED <<up, file>>
        /\ \A p \in Requests : at[p] = "sync" => p = q
    BY <1>6 DEF Sync, SyncFails, IInv, Shape, HandlersAt, DownIsEmpty, Busy, disk, Locked
  <2>2. Cardinality(Spots(key)) \in Nat /\ Cardinality(Spots(key))' = Cardinality(Spots(key))
    BY <1>3, <2>1
  <2>3. CASE key # Key(q)
    <3>1. NoneSyncs(key)
      BY <2>1, <2>3 DEF NoneSyncs
    <3>2. index'[key] = index[key]
      BY <1>0, <1>6, <2>3 DEF Sync, SyncFails, memory, TypeOK
    <3> QED
      BY <1>1, <1>2, <2>1, <2>2, <3>1, <3>2
  <2>4. CASE key = Key(q) /\ Sync(q)
    <3>1. index'[key] # None
      <4>1. Fingerprint(q) # None
        BY <1>0, <2>1, LineIs, FixtureAssumption DEF FixtureAssumption
      <4> QED
        BY <1>0, <2>4, <4>1 DEF Sync, TypeOK
    <3> QED
      BY <1>1, <1>2, <2>2, <3>1
  <2>5. CASE key = Key(q) /\ SyncFails(q)
    <3>1. q \in For(key) /\ reply[q] # 500 /\ reply'[q] = 500
      BY <1>0, <1>4, <2>1, <2>5 DEF For, SyncFails, Finish, Shape, HandlersAt, TypeOK
    <3> QED
      BY <1>1, <1>2, <2>2, <3>1
  <2> QED
    BY <1>6, <2>3, <2>4, <2>5
<1>7. ASSUME Open, NEW key \in Keys
      PROVE  few(key)
  <2>1. UNCHANGED file /\ Readable /\ index'[key] = Replayed(file)[key]
    BY <1>7 DEF Open, disk
  <2>2. Cardinality(Spots(key)) \in Nat /\ Cardinality(Spots(key))' = Cardinality(Spots(key))
    BY <1>3, <2>1
  <2>3. index'[key] = None => Spots(key) = {}
    <3>1. \A i \in 1 .. Len(file) : file[i].print # None
      BY <1>0, <2>1, ElementOfSeq, FixtureAssumption
         DEF FixtureAssumption, TypeOK, Readable, Entries
    <3>2. index'[key] = None => \A i \in 1 .. Len(file) : file[i].key # key
      BY <1>0, <2>1, <3>1, ReplayedIs DEF Shape
    <3> QED
      BY <3>2 DEF Spots
  <2>4. Cardinality({}) = 0
    BY FS_EmptySet
  <2>5. index'[key] = None => Cardinality(Spots(key)) = 0
    BY <2>3, <2>4
  <2> QED
    BY <1>1, <1>2, <2>2, <2>5
<1>8. ASSUME Kill, NEW key \in Keys
      PROVE  few(key)
  <2>1. UNCHANGED file /\ ~up'
    BY <1>8 DEF Kill, disk
  <2> QED
    BY <1>1, <1>2, <1>3, <2>1
<1>9. ASSUME ~Open, ~Kill, NEW key \in Keys,
             \A q \in Requests : ~Write(q) /\ ~WriteFails(q) /\ ~Sync(q) /\ ~SyncFails(q)
      PROVE  few(key)
  <2>1. UNCHANGED <<up, file, index>>
    BY <1>9, MarkerIs DEF Next, Handler, Arrive, Refuse, StatMarker, Accept, Has, Lookup,
       Quiescent, disk, memory, vars
  <2>2. ASSUME NEW q \in Requests, at[q] = "sync"
        PROVE  at'[q] = "sync" /\ Key(q)' = Key(q)
    <3>1. ASSUME NEW p \in Requests, Arrive(p) \/ Refuse(p) \/ Handler(p)
          PROVE  at'[q] = "sync"
      <4>1. p # q
        BY <1>9, <2>2, <3>1, MarkerIs DEF Arrive, Refuse, Handler, StatMarker, Accept, Has, Lookup
      <4>2. ~Write(p) /\ ~WriteFails(p) /\ ~Sync(p) /\ ~SyncFails(p)
        BY <1>9
      <4>3. at = [r \in Requests |-> at[r]] /\ q \in Requests /\ p \in Requests
        BY <1>0, <2>2 DEF TypeOK
      <4>4. CASE Arrive(p) \/ Refuse(p) \/ Accept(p)
        BY <2>2, <4>1, <4>3, <4>4 DEF Arrive, Refuse, Accept, Finish
      <4>5. CASE StatMarker(p) \/ WriteMarker(p)
        BY <2>2, <4>1, <4>3, <4>5, MarkerIs DEF StatMarker, Finish
      <4>6. CASE Has(p) \/ Lookup(p)
        BY <2>2, <4>1, <4>3, <4>6 DEF Has, Lookup, Finish
      <4> QED
        BY <2>2, <3>1, <4>2, <4>4, <4>5, <4>6 DEF Handler
    <3>2. UNCHANGED at => at'[q] = "sync"
      BY <2>2
    <3>3. at'[q] = "sync"
      BY <1>9, <3>1, <3>2 DEF Next, Quiescent, vars
    <3> QED
      BY <1>0, <2>2, <3>3, SameKey
  <2>3. NoneSyncs(key)' => NoneSyncs(key)
    BY <2>2 DEF NoneSyncs
  <2>4. Cardinality(Spots(key)) \in Nat /\ Cardinality(Spots(key))' = Cardinality(Spots(key))
    BY <1>3, <2>1
  <2> QED
    BY <1>1, <1>2, <2>1, <2>3, <2>4
<1>10. \A key \in Keys : few(key)
  BY <1>5, <1>6, <1>7, <1>8, <1>9
<1> QED
  BY <1>1, <1>10 DEF FewLines

\* A key gets a second journal line only behind a writer that was told 500,
\* for any number of requests, kills and failing system calls.
THEOREM RepeatsAreFailures == Spec => []RepeatNeedsFailure
<1>1. Init => FewLines
  <2> SUFFICES ASSUME Init PROVE FewLines
    OBVIOUS
  <2>1. {q \in Requests : reply[q] = 500} = {}
    BY FixtureAssumption DEF Init, FixtureAssumption
  <2>2. \A key \in Keys : Spots(key) = {} /\ Told500(key) = {}
    <3>1. Len(file) = 0
      BY EmptySeq DEF Init
    <3> QED
      BY <2>1, <3>1 DEF Spots, Told500, For
  <2> QED
    BY <2>1, <2>2, FS_EmptySet DEF FewLines
<1>2. IInv /\ FewLines /\ [Next]_vars => FewLines'
  BY FewStep
<1>3. FewLines => RepeatNeedsFailure
  BY DEF FewLines, RepeatNeedsFailure, Lines, Spots, Told500
<1> QED
  BY <1>1, <1>2, <1>3, Invariant, PTL DEF Spec
=============================================================================
