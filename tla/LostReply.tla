----------------------------- MODULE LostReply -----------------------------
(***************************************************************************)
(* What a lost response means, without saying how it is brought about. The *)
(* service is asked once, its answer reaches no client, and the fault      *)
(* counts as injected only if the service acknowledged and the client that *)
(* asked was left without any reply.                                       *)
(***************************************************************************)
EXTENDS Integers

CONSTANTS
  Clients,    \* who may be told something
  Own,        \* the one that asked
  Statuses,   \* what the service may answer
  Notices,    \* status codes that are not the service's
  Lost,       \* the client's error
  Nil

VARIABLES
  asked,      \* how often the service was asked
  answer,     \* what it answered
  heard,      \* what each client was told
  verdict     \* none, injected, failed

vars == <<asked, answer, heard, verdict>>

Init == asked = 0 /\ answer = Nil /\ heard = [c \in Clients |-> Nil] /\ verdict = "none"

Ask ==
  /\ asked = 0 /\ asked' = 1
  /\ UNCHANGED <<answer, heard, verdict>>

Answer ==
  /\ asked = 1 /\ answer = Nil /\ answer' \in Statuses
  /\ UNCHANGED <<asked, heard, verdict>>

\* Some clients are told something, each of them only once.
Hear ==
  /\ heard' \in [Clients -> {Nil, Lost} \cup Notices]
  /\ \A c \in Clients : heard[c] # Nil => heard'[c] = heard[c]
  /\ UNCHANGED <<asked, answer, verdict>>

Inject ==
  /\ verdict = "none" /\ answer \in 200 .. 299 /\ heard[Own] = Lost
  /\ verdict' = "injected"
  /\ UNCHANGED <<asked, answer, heard>>

Fail ==
  /\ verdict = "none" /\ verdict' = "failed"
  /\ UNCHANGED <<asked, answer, heard>>

Next == Ask \/ Answer \/ Hear \/ Inject \/ Fail

Spec == Init /\ [][Next]_vars
=============================================================================
