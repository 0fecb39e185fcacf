---------------------------- MODULE Process_proofs ----------------------------
(***************************************************************************)
(* What holds of the managed service on every path of a run: there is one  *)
(* child at a time, the handle is the child's, and no child outlives the   *)
(* run unkilled. The proofs share one invariant, which says where in the   *)
(* runner the handle is set and which children may still be alive.         *)
(***************************************************************************)
EXTENDS Process, FiniteSetTheorems, TLAPS

\* The runner waits for a killed child.
Waits == {"crashing", "waiting", "startWaiting"}

\* Children are spawned in order, the second one after the exit of the first.
SpawnedInOrder ==
  \A c \in Children :
    /\ child[c] = "none" <=> c > spawned
    /\ c < spawned => child[c] = "exited"

ClosedHaveExited == \A c \in closed : child[c] = "exited"

\* The handle is that of the last child; who has none is dead or dying, and
\* dead when kills take effect and nobody waits for them.
HandleKept ==
  /\ cmd # None => cmd = spawned
  /\ cmd = None => \A c \in Children : child[c] \notin {"booting", "serving"}
  /\ cmd = None /\ ~stuck /\ pc \notin Waits => \A c \in Children : ~Alive(c)

\* Where the handle is set, and how often the runner can have been there.
HandleAt ==
  /\ pc \in Waits \cup {"start", "spawn", "failed", "done"} => cmd = None
  /\ pc \in {"poll", "ready", "crash", "stopping"} => cmd # None
  /\ pc \in {"start", "spawn"} => spawned <= 1 /\ \A c \in Children : ~Alive(c)
  /\ pc \in {"crash", "crashing"} => spawned = 1
  /\ pc \in Waits => spawned >= 1

IInv == TypeOK /\ SpawnedInOrder /\ ClosedHaveExited /\ HandleKept /\ HandleAt

-----------------------------------------------------------------------------
\* A run spawns at most two children.
LEMMA TwoChildren == Cardinality(Children) = 2
<1>1. Cardinality(1 .. 2) = IF 1 > 2 THEN 0 ELSE 2 - 1 + 1
  <2>1. 1 \in Int /\ 2 \in Int
    OBVIOUS
  <2> QED
    BY <2>1, FS_Interval, Zenon
<1> QED
  BY <1>1 DEF Children

\* Nothing has been spawned when a run begins.
LEMMA InitIInv == Init => IInv
<1> SUFFICES ASSUME Init PROVE IInv
  OBVIOUS
<1>1. stuck \in BOOLEAN
  BY ProcessAssumption, Zenon DEF Init, ProcessAssumption
<1>2. /\ leftover \in {"absent", "slow", "ready"}
      /\ None \notin Nat
  BY ProcessAssumption DEF Init, ProcessAssumption
<1>3. child \in [Children -> {"none", "booting", "serving", "killed", "exited"}]
  BY DEF Init
<1>4. TypeOK
  <2>1. spawned \in 0 .. Cardinality(Children)
    BY TwoChildren DEF Init
  <2>2. /\ pc = "start" /\ cmd = None /\ closed = {} /\ probed = None
        /\ expired \in BOOLEAN /\ outcome = None
    BY DEF Init
  <2> QED
    BY <1>1, <1>2, <1>3, <2>1, <2>2, Zenon DEF TypeOK
<1>5. SpawnedInOrder /\ ClosedHaveExited
  BY DEF Init, SpawnedInOrder, ClosedHaveExited, Children
<1>6. HandleKept /\ HandleAt
  BY DEF Init, HandleKept, HandleAt, Alive, Waits
<1> QED
  BY <1>4, <1>5, <1>6 DEF IInv

\* A step of the runner keeps the invariant.
LEMMA RunnerStep == IInv /\ Runner => IInv'
<1> SUFFICES ASSUME IInv, Runner PROVE IInv'
  OBVIOUS
<1> USE TwoChildren, ProcessAssumption
    DEF IInv, TypeOK, SpawnedInOrder, ClosedHaveExited, HandleKept, HandleAt, Alive,
        Children, Waits, Other, ProcessAssumption
<1>1. CASE Preflight
  BY <1>1 DEF Preflight
<1>2. CASE Spawn
  BY <1>2 DEF Spawn
<1>3. CASE SpawnFails
  BY <1>3 DEF SpawnFails
<1>4. CASE Ready
  BY <1>4 DEF Ready, Answering
<1>5. CASE ExitedEarly
  BY <1>5 DEF ExitedEarly
<1>6. CASE ReadyTimeout
  BY <1>6 DEF ReadyTimeout
<1>7. CASE Proceed
  BY <1>7 DEF Proceed
<1>8. CASE GiveUp
  BY <1>8 DEF GiveUp
<1>9. CASE StartFailed
  BY <1>9 DEF StartFailed
<1>10. CASE CrashTooLate
  BY <1>10 DEF CrashTooLate
<1>11. CASE CrashKillFails
  BY <1>11 DEF CrashKillFails
<1>12. CASE CrashKills
  BY <1>12 DEF CrashKills, Killed
<1>13. CASE Crashed
  BY <1>13 DEF Crashed
<1>14. CASE CrashTimeout
  BY <1>14 DEF CrashTimeout
<1>15. CASE StopNothing
  BY <1>15 DEF StopNothing, Stopping, AfterStop
<1>16. CASE StopKillFails
  BY <1>16 DEF StopKillFails, Stopping, AfterStop
<1>17. CASE StopKills
  BY <1>17 DEF StopKills, Stopping, Killed
<1>18. CASE StopReturns
  BY <1>18 DEF StopReturns
<1> QED
  BY <1>1, <1>2, <1>3, <1>4, <1>5, <1>6, <1>7, <1>8, <1>9, <1>10, <1>11, <1>12,
     <1>13, <1>14, <1>15, <1>16, <1>17, <1>18 DEF Runner

\* So does a step of a child or of the goroutine that waits for it.
LEMMA SystemStep == IInv /\ System => IInv'
<1> SUFFICES ASSUME IInv, NEW c \in Children, ChildServes(c) \/ ChildExits(c) \/ Reaped(c)
             PROVE  IInv'
  BY DEF System
<1> USE TwoChildren DEF IInv, TypeOK, SpawnedInOrder, ClosedHaveExited, HandleKept, HandleAt,
        Alive, Children, Waits, Other
<1>1. CASE ChildServes(c)
  BY <1>1 DEF ChildServes
<1>2. CASE ChildExits(c)
  BY <1>2 DEF ChildExits
<1>3. CASE Reaped(c)
  BY <1>3 DEF Reaped
<1> QED
  BY <1>1, <1>2, <1>3

\* And so does every step.
LEMMA NextStep == IInv /\ [Next]_vars => IInv'
<1> SUFFICES ASSUME IInv, [Next]_vars PROVE IInv'
  OBVIOUS
<1>1. CASE Runner
  BY <1>1, RunnerStep
<1>2. CASE System
  BY <1>2, SystemStep
<1>3. CASE Expire \/ Done \/ UNCHANGED vars
  <2>1. /\ expired' \in BOOLEAN
        /\ UNCHANGED <<pc, cmd, spawned, child, closed, stuck, leftover, probed, outcome>>
    BY <1>3 DEF Expire, Done, vars, IInv, TypeOK
  <2> QED
    BY <2>1 DEF IInv, TypeOK, SpawnedInOrder, ClosedHaveExited, HandleKept, HandleAt, Alive
<1> QED
  BY <1>1, <1>2, <1>3 DEF Next

\* The invariant holds throughout.
LEMMA Invariant == Spec => []IInv
  BY InitIInv, NextStep, PTL DEF Spec

-----------------------------------------------------------------------------
\* Every variable keeps its type; at most two children are ever spawned.
THEOREM TypeCorrect == Spec => []TypeOK
<1>1. IInv => TypeOK
  BY DEF IInv
<1> QED
  BY <1>1, Invariant, PTL

\* A restart never overlaps the process it replaces (Crash waits for the
\* exit before Start is called again).
THEOREM NeverTwoChildren == Spec => []OneChildAtATime
<1>1. IInv => OneChildAtATime
  BY DEF IInv, TypeOK, SpawnedInOrder, OneChildAtATime, Alive, Children
<1> QED
  BY <1>1, Invariant, PTL

\* While Run does not wait for an exit, a live child is the one p.cmd holds,
\* whichever path Start, Crash and Stop took, if kills take effect in time.
THEOREM HandleNotLost == Spec => []HandleIsChild
<1>1. IInv => HandleIsChild
  BY DEF IInv, TypeOK, SpawnedInOrder, HandleKept, HandleIsChild, Alive, Children, Waits
<1> QED
  BY <1>1, Invariant, PTL

\* When Run has returned every child was killed or had exited: the deferred
\* Stop, and Stop in a failing Start, leave none behind untouched.
THEOREM NoneLeftUnkilled == Spec => []KilledOnCompletion
<1>1. IInv => KilledOnCompletion
  BY DEF IInv, HandleKept, HandleAt, KilledOnCompletion
<1> QED
  BY <1>1, Invariant, PTL

\* When Run has returned and kills took effect in time no child is left.
THEOREM NoneLeft == Spec => []NoChildLeft
<1>1. IInv => NoChildLeft
  BY DEF IInv, HandleKept, HandleAt, NoChildLeft, Waits
<1> QED
  BY <1>1, Invariant, PTL
=============================================================================
