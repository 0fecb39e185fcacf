------------------------------ MODULE OnceStore ------------------------------
(***************************************************************************)
(* What an idempotent write endpoint promises. A key is recorded at most   *)
(* once and keeps the body it was recorded with. A request learns whether  *)
(* it was the one that created the record (201), repeats it (200), reuses  *)
(* the key for another body (422), or that it was not carried out (500).   *)
(***************************************************************************)
CONSTANTS Requests, Keys, Bodies, None

VARIABLES
  asked,     \* the key and body of each request
  recorded,  \* the body recorded under each key
  reply      \* the status each request was answered with

vars == <<asked, recorded, reply>>

Unanswered == {q \in Requests : reply[q] = None}

Created(q) == recorded[asked[q].key] = asked[q].body
                /\ \A p \in Requests : reply[p] = 201 => asked[p].key # asked[q].key
Repeated(q) == recorded[asked[q].key] = asked[q].body
Conflicts(q) == recorded[asked[q].key] \notin {None, asked[q].body}

Init ==
  /\ asked = [q \in Requests |-> None]
  /\ recorded = [key \in Keys |-> None]
  /\ reply = [q \in Requests |-> None]

Ask(q) ==
  /\ asked[q] = None /\ reply[q] = None
  /\ \E key \in Keys, body \in Bodies :
       asked' = [asked EXCEPT ![q] = [key |-> key, body |-> body]]
  /\ UNCHANGED <<recorded, reply>>

\* Only an asked request that is not answered yet writes.
Record(q) ==
  /\ q \in Unanswered /\ asked[q] # None
  /\ recorded[asked[q].key] = None
  /\ recorded' = [recorded EXCEPT ![asked[q].key] = asked[q].body]
  /\ UNCHANGED <<asked, reply>>

Answer(q) ==
  /\ q \in Unanswered /\ asked[q] # None
  /\ \/ Created(q) /\ reply' = [reply EXCEPT ![q] = 201]
     \/ Repeated(q) /\ reply' = [reply EXCEPT ![q] = 200]
     \/ Conflicts(q) /\ reply' = [reply EXCEPT ![q] = 422]
     \/ reply' = [reply EXCEPT ![q] = 500]
  /\ UNCHANGED <<asked, recorded>>

\* A malformed request is refused unread.
Refuse(q) ==
  /\ q \in Unanswered /\ asked[q] = None
  /\ reply' = [reply EXCEPT ![q] = 400]
  /\ UNCHANGED <<asked, recorded>>

Next == \E q \in Requests : Ask(q) \/ Record(q) \/ Answer(q) \/ Refuse(q)

Spec == Init /\ [][Next]_vars
=============================================================================
