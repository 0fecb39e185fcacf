----------------------------- MODULE RetryCheck -----------------------------
(***************************************************************************)
(* The pure decision of internal/engine/response.go: given the rule of a   *)
(* scenario, the original reply and the retry's reply, is the comparison   *)
(* conclusive, and which issues does it find?                              *)
(*                                                                         *)
(* A reply body is abstracted to what the comparison can tell apart: it is *)
(* NotJSON (unusable or ambiguous JSON, also a body that was not captured) *)
(* or it assigns to every pointer a value or Missing.                      *)
(***************************************************************************)
EXTENDS Integers, FiniteSets

CONSTANTS
  Nil,          \* Go's nil: no rule, no check, no observation
  Statuses,     \* HTTP status codes the service may answer with
  Pointers,     \* JSON pointers a rule can name
  IDNamed,      \* the pointers whose last key reads like a resource id
  Place,        \* where the walk over a reply meets each pointer
  MaxIDs,       \* bound: the ids that are picked, 8 in the code
  Values,       \* what a pointer can reach
  Scalars,      \* the values that are strings or numbers
  Missing,      \* the pointer reaches nothing
  NotJSON       \* the body cannot be read as one JSON value

ASSUME StatusAssumption == Statuses \subseteq 200 .. 599
ASSUME NilAssumption == Nil \notin Int
ASSUME PointerAssumption ==
  /\ IDNamed \subseteq Pointers /\ IsFiniteSet(IDNamed)
  /\ Place \in [Pointers -> Nat] /\ MaxIDs \in Nat \ {0}
  /\ Scalars \subseteq Values
  /\ Missing \notin Values
  /\ NotJSON \notin [Pointers -> Values \cup {Missing}]

Bodies == {NotJSON} \cup [Pointers -> Values \cup {Missing}]

\* A rule is the retry_response block: exact codes (empty: any 2xx), the
\* pointers to compare, and whether to pick id-like pointers by itself.
RetryRules == [allowed : SUBSET Statuses, same : SUBSET Pointers, ids : BOOLEAN]

Success(status) == status \in 200 .. 299

AllowedRetry(rule, status) ==
  IF rule = Nil THEN Success(status)
  ELSE IF rule.allowed = {} THEN Success(status)
  ELSE status \in rule.allowed

\* Whether the reply bodies are read at all; an unread body is NotJSON.
CapturesReply(rule) == IF rule = Nil THEN FALSE ELSE rule.same # {} \/ rule.ids

Captured(rule, body) == IF CapturesReply(rule) THEN body ELSE NotJSON

IDFields(body) == IF body = NotJSON THEN {} ELSE {p \in IDNamed : body[p] \in Scalars}

\* Mutant: the walk stops one short.
MutIDPointers(body) ==
  {p \in IDFields(body) :
     Cardinality({q \in IDFields(body) : Place[q] <= Place[p]}) < MaxIDs}

\* The first MaxIDs of them.
IDPointers(body) ==
  {p \in IDFields(body) :
     Cardinality({q \in IDFields(body) : Place[q] <= Place[p]}) <= MaxIDs}

\* Declared pointers win; ids are picked only for a 2xx retry.
Compared(rule, original, status) ==
  IF rule = Nil THEN {}
  ELSE IF rule.same # {} THEN rule.same
  ELSE IF rule.ids /\ Success(status) THEN IDPointers(original)
  ELSE {}

\* An original reply without a value to compare makes the run inconclusive.
Conclusive(rule, original, status) ==
  LET pointers == Compared(rule, original, status)
  IN  pointers = {} \/ (original # NotJSON /\ \A p \in pointers : original[p] # Missing)

ValueIssues(pointers, original, body) ==
  IF pointers = {} THEN {}
  ELSE IF body = NotJSON THEN {"json"}
  ELSE {p \in pointers : body[p] # original[p]}

RetryIssues(rule, original, status, body) ==
  IF AllowedRetry(rule, status)
    THEN ValueIssues(Compared(rule, original, status), original, body)
    ELSE {"status"}

\* The record stored in the report when the comparison is conclusive.
ResponseCheck(rule, original, status, body) ==
  [retryStatus |-> status,
   pointers    |-> Compared(rule, original, status),
   issues      |-> RetryIssues(rule, original, status, body)]
=============================================================================
