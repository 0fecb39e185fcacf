------------------------------ MODULE Verdict ------------------------------
(***************************************************************************)
(* What a verdict of RecoveryLab promises, without saying how it is found. *)
(* A run owes some pieces of evidence. It gathers them one after another,  *)
(* none is ever withdrawn, and it concludes once: VIOLATION if a piece     *)
(* contradicts a declared check, PASS if all of them hold and none is      *)
(* owed any more, ERROR otherwise.                                         *)
(***************************************************************************)
CONSTANT Evidence

VARIABLES
  open,      \* evidence still owed
  failed,    \* some gathered piece contradicts a check
  verdict

vars == <<open, failed, verdict>>

Judge(owed, contradicted) ==
  IF contradicted THEN "VIOLATION" ELSE IF owed = {} THEN "PASS" ELSE "ERROR"

Init ==
  /\ open \in SUBSET Evidence
  /\ failed = FALSE
  /\ verdict = "none"

\* Only a gathered piece can contradict.
Learn ==
  /\ open' \subseteq open
  /\ failed' \in BOOLEAN
  /\ failed => failed'
  /\ failed' # failed => open' # open

Gather == verdict = "none" /\ verdict' = "none" /\ Learn

Conclude == verdict = "none" /\ verdict' = Judge(open', failed') /\ Learn

Next == Gather \/ Conclude

Spec == Init /\ [][Next]_vars
=============================================================================
