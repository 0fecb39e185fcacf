------------------------------- MODULE Process -------------------------------
(***************************************************************************)
(* internal/engine/process.go: the service RecoveryLab starts, kills and   *)
(* starts again, with its callers in engine.Run and runCrashAfterAck.      *)
(*                                                                         *)
(* The runner is sequential. Beside it the operating system runs the       *)
(* children it spawned, one goroutine per child waits for the exit, time   *)
(* passes, and another server may listen on the readiness URL.             *)
(***************************************************************************)
EXTENDS Naturals, FiniteSets

CONSTANTS
  Crashes,      \* the scenario is crash-after-ack
  Leftovers,    \* what another server on the readiness URL may be doing
  Unkillable,   \* the values of stuck
  None

\* One child per Start of a run; 0 stands for another server on its URL.
Children == 1 .. 2
Other == 0

ASSUME ProcessAssumption ==
  /\ Crashes \in BOOLEAN /\ Unkillable \subseteq BOOLEAN /\ Unkillable # {}
  /\ Leftovers \subseteq {"absent", "slow", "ready"}
  /\ Leftovers # {}
  /\ None \notin Nat

VARIABLES
  pc,         \* where the runner is
  cmd,        \* p.cmd: the child behind the handle, None for nil
  spawned,    \* how many children were spawned
  child,      \* each child: none, booting, serving, killed (to exit), exited
  closed,     \* the children whose done channel is closed
  stuck,      \* five seconds after a kill the exit may not be known: the
              \* child stays, or a grandchild holds its output pipe
  leftover,   \* the other server: absent, slow (no 2xx in 300 ms), ready
  probed,     \* who gave the last 2xx to a readiness probe
  expired,    \* the context of the run or the startup timeout is over
  outcome     \* how Run ended: None, ok, error

vars == <<pc, cmd, spawned, child, closed, stuck, leftover, probed, expired, outcome>>

Alive(c) == child[c] \in {"booting", "serving", "killed"}

\* The 2xx answers a probe can get: of a serving child, of another server.
\* A server that is slow now may still answer a later probe in time.
Answering ==
  {c \in Children : child[c] = "serving"}
    \cup (IF leftover = "absent" THEN {} ELSE {Other})

\* A probe within 300 ms of a server that is up.
AnswersPreflight ==
  leftover = "ready" \/ \E c \in Children : child[c] = "serving"

-----------------------------------------------------------------------------
(* Start: preflight, spawn, readiness. *)

\* The guard against a handle in use, then the preflight probe. A probe
\* after the deadline gets no answer.
Preflight ==
  /\ pc = "start"
  /\ pc' = IF cmd # None \/ (AnswersPreflight /\ ~expired) THEN "failed" ELSE "spawn"
  /\ UNCHANGED <<cmd, spawned, child, closed, stuck, leftover, probed, expired, outcome>>

\* Mutant: the handle is set by the caller once the service is ready.
MutSpawn ==
  /\ pc = "spawn"
  /\ spawned' = spawned + 1
  /\ child' = [child EXCEPT ![spawned'] = "booting"]
  /\ pc' = "poll"
  /\ UNCHANGED <<cmd, closed, stuck, leftover, probed, expired, outcome>>

Spawn ==
  /\ pc = "spawn"
  /\ spawned' = spawned + 1
  /\ cmd' = spawned'
  /\ child' = [child EXCEPT ![spawned'] = "booting"]
  /\ pc' = "poll"
  /\ UNCHANGED <<closed, stuck, leftover, probed, expired, outcome>>

\* filepath.Abs or exec failed: there is no child.
SpawnFails ==
  /\ pc = "spawn"
  /\ pc' = "failed"
  /\ UNCHANGED <<cmd, spawned, child, closed, stuck, leftover, probed, expired, outcome>>

\* A probe got 2xx; nothing asks who sent it or whether the child lives.
Ready ==
  /\ pc = "poll" /\ ~expired
  /\ probed' \in Answering
  /\ pc' = "ready"
  /\ UNCHANGED <<cmd, spawned, child, closed, stuck, leftover, expired, outcome>>

\* The select after a probe without 2xx sees done closed.
ExitedEarly ==
  /\ pc = "poll" /\ cmd \in closed
  /\ cmd' = None
  /\ pc' = "failed"
  /\ UNCHANGED <<spawned, child, closed, stuck, leftover, probed, expired, outcome>>

\* Mutant: the startup timeout only reports.
MutReadyTimeout ==
  /\ pc = "poll" /\ expired
  /\ pc' = "failed"
  /\ UNCHANGED <<cmd, spawned, child, closed, stuck, leftover, probed, expired, outcome>>

\* ... or the deadline: Stop, then the error.
ReadyTimeout ==
  /\ pc = "poll" /\ expired
  /\ pc' = "stopping"
  /\ UNCHANGED <<cmd, spawned, child, closed, stuck, leftover, probed, expired, outcome>>

-----------------------------------------------------------------------------
(* The runner between the calls. *)

\* Mutant: every start is followed by a crash.
MutProceed ==
  /\ pc = "ready"
  /\ pc' = IF Crashes THEN "crash" ELSE "stop"
  /\ outcome' = IF Crashes THEN None ELSE "ok"
  /\ UNCHANGED <<cmd, spawned, child, closed, stuck, leftover, probed, expired>>

\* The scenario ran and was acknowledged: crash, or finish.
Proceed ==
  /\ pc = "ready"
  /\ pc' = IF Crashes /\ spawned = 1 THEN "crash" ELSE "stop"
  /\ outcome' = IF Crashes /\ spawned = 1 THEN None ELSE "ok"
  /\ UNCHANGED <<cmd, spawned, child, closed, stuck, leftover, probed, expired>>

\* It ended early.
GiveUp ==
  /\ pc = "ready"
  /\ outcome' = "error"
  /\ pc' = "stop"
  /\ UNCHANGED <<cmd, spawned, child, closed, stuck, leftover, probed, expired>>

\* Start failed. Stop is deferred only once a first Start succeeded.
StartFailed ==
  /\ pc = "failed"
  /\ outcome' = "error"
  /\ pc' = IF probed = None THEN "done" ELSE "stop"
  /\ UNCHANGED <<cmd, spawned, child, closed, stuck, leftover, probed, expired>>

-----------------------------------------------------------------------------
(* Crash and Stop. *)

\* Crash finds the done channel closed.
CrashTooLate ==
  /\ pc = "crash" /\ cmd \in closed
  /\ cmd' = None
  /\ outcome' = "error"
  /\ pc' = "stop"
  /\ UNCHANGED <<spawned, child, closed, stuck, leftover, probed, expired>>

\* Kill fails on a child that exited before its channel is closed.
CrashKillFails ==
  /\ pc = "crash" /\ cmd \notin closed /\ child[cmd] = "exited"
  /\ outcome' = "error"
  /\ pc' = "stop"
  /\ UNCHANGED <<cmd, spawned, child, closed, stuck, leftover, probed, expired>>

\* Killing a child that has just exited succeeds while it is not reaped.
Killed(c) == child' = IF Alive(c) THEN [child EXCEPT ![c] = "killed"] ELSE child

CrashKills ==
  /\ pc = "crash" /\ cmd \notin closed
  /\ Killed(cmd)
  /\ cmd' = None
  /\ pc' = "crashing"
  /\ UNCHANGED <<spawned, closed, stuck, leftover, probed, expired, outcome>>

\* Mutant: the restart does not wait for the exit.
MutCrashed ==
  /\ pc = "crashing"
  /\ pc' = "start"
  /\ UNCHANGED <<cmd, spawned, child, closed, stuck, leftover, probed, expired, outcome>>

Crashed ==
  /\ pc = "crashing" /\ spawned \in closed
  /\ pc' = "start"
  /\ UNCHANGED <<cmd, spawned, child, closed, stuck, leftover, probed, expired, outcome>>

\* Five seconds went by. The handle is gone, so Stop will do nothing.
CrashTimeout ==
  /\ pc = "crashing" /\ stuck
  /\ outcome' = "error"
  /\ pc' = "stop"
  /\ UNCHANGED <<cmd, spawned, child, closed, stuck, leftover, probed, expired>>

\* Stop, deferred by Run or called by a failing Start.
Stopping == pc \in {"stop", "stopping"}
AfterStop == pc' = IF pc = "stop" THEN "done" ELSE "failed"

\* Nothing to stop, or it has exited already.
StopNothing ==
  /\ Stopping /\ (cmd = None \/ cmd \in closed)
  /\ cmd' = None
  /\ AfterStop
  /\ UNCHANGED <<spawned, child, closed, stuck, leftover, probed, expired, outcome>>

\* The same for Stop, which does not wait then.
StopKillFails ==
  /\ Stopping /\ cmd # None /\ cmd \notin closed /\ child[cmd] = "exited"
  /\ cmd' = None
  /\ AfterStop
  /\ UNCHANGED <<spawned, child, closed, stuck, leftover, probed, expired, outcome>>

\* Mutant: Stop kills and returns.
MutStopKills ==
  /\ Stopping /\ cmd # None /\ cmd \notin closed
  /\ Killed(cmd)
  /\ cmd' = None
  /\ AfterStop
  /\ UNCHANGED <<spawned, closed, stuck, leftover, probed, expired, outcome>>

StopKills ==
  /\ Stopping /\ cmd # None /\ cmd \notin closed
  /\ Killed(cmd)
  /\ cmd' = None
  /\ pc' = IF pc = "stop" THEN "waiting" ELSE "startWaiting"
  /\ UNCHANGED <<spawned, closed, stuck, leftover, probed, expired, outcome>>

\* Mutant: Stop waits for the exit only.
MutStopReturns ==
  /\ pc \in {"waiting", "startWaiting"}
  /\ spawned \in closed
  /\ pc' = IF pc = "waiting" THEN "done" ELSE "failed"
  /\ UNCHANGED <<cmd, spawned, child, closed, stuck, leftover, probed, expired, outcome>>

\* The child is gone, or five seconds are over.
StopReturns ==
  /\ pc \in {"waiting", "startWaiting"}
  /\ spawned \in closed \/ stuck
  /\ pc' = IF pc = "waiting" THEN "done" ELSE "failed"
  /\ UNCHANGED <<cmd, spawned, child, closed, stuck, leftover, probed, expired, outcome>>

-----------------------------------------------------------------------------
(* The operating system and time. *)

\* A child serves once the port is its own.
ChildServes(c) ==
  /\ child[c] = "booting" /\ leftover = "absent"
  /\ \A d \in Children \ {c} : child[d] # "serving"
  /\ child' = [child EXCEPT ![c] = "serving"]
  /\ UNCHANGED <<pc, cmd, spawned, closed, stuck, leftover, probed, expired, outcome>>

\* It may exit by itself at any time, and does so when killed.
ChildExits(c) ==
  /\ Alive(c)
  /\ child' = [child EXCEPT ![c] = "exited"]
  /\ UNCHANGED <<pc, cmd, spawned, closed, stuck, leftover, probed, expired, outcome>>

\* go func() { cmd.Wait(); close(done) }()
Reaped(c) ==
  /\ child[c] = "exited" /\ c \notin closed
  /\ closed' = closed \cup {c}
  /\ UNCHANGED <<pc, cmd, spawned, child, stuck, leftover, probed, expired, outcome>>

Expire ==
  /\ ~expired /\ expired' = TRUE
  /\ UNCHANGED <<pc, cmd, spawned, child, closed, stuck, leftover, probed, outcome>>

Done == pc = "done" /\ UNCHANGED vars

Runner ==
  \/ Preflight \/ Spawn \/ SpawnFails \/ Ready \/ ExitedEarly \/ ReadyTimeout
  \/ Proceed \/ GiveUp \/ StartFailed
  \/ CrashTooLate \/ CrashKillFails \/ CrashKills \/ Crashed \/ CrashTimeout
  \/ StopNothing \/ StopKillFails \/ StopKills \/ StopReturns

\* The kernel carries out a kill in time, and Wait returns.
Dies(c) == ~stuck /\ ((child[c] = "killed" /\ ChildExits(c)) \/ Reaped(c))

System == \E c \in Children : ChildServes(c) \/ ChildExits(c) \/ Reaped(c)

Next == Runner \/ System \/ Expire \/ Done

Init ==
  /\ pc = "start" /\ cmd = None /\ spawned = 0
  /\ child = [c \in Children |-> "none"] /\ closed = {}
  /\ leftover \in Leftovers /\ stuck \in Unkillable
  /\ probed = None /\ expired = FALSE /\ outcome = None

Spec == Init /\ [][Next]_vars

\* The runner is scheduled and time passes: deadline, and the five seconds
\* of Crash and Stop. Nothing is assumed of a child but that a kill ends it,
\* and not even that when it is stuck.
FairSpec ==
  /\ Spec
  /\ WF_vars(Runner) /\ WF_vars(Expire)
  /\ \A c \in Children : WF_vars(Dies(c))

-----------------------------------------------------------------------------
TypeOK ==
  /\ pc \in {"start", "spawn", "poll", "ready", "failed", "crash", "crashing", "stop",
              "stopping", "waiting", "startWaiting", "done"}
  /\ cmd \in Children \cup {None}
  /\ spawned \in 0 .. Cardinality(Children)
  /\ child \in [Children -> {"none", "booting", "serving", "killed", "exited"}]
  /\ closed \subseteq Children
  /\ leftover \in {"absent", "slow", "ready"} /\ stuck \in BOOLEAN
  /\ probed \in Children \cup {Other, None}
  /\ expired \in BOOLEAN
  /\ outcome \in {None, "ok", "error"}

\* A restart never overlaps the process it replaces: the first child has
\* exited before the second one is spawned, whatever Kill and Wait raced.
OneChildAtATime == \A c, d \in Children : Alive(c) /\ Alive(d) => c = d

\* When Run has returned, on whichever path, no child is left, provided that
\* kills take effect in time (defer Stop; Start stops what it spawned).
NoChildLeft == pc = "done" /\ ~stuck => \A c \in Children : ~Alive(c)

\* "Managed processes are stopped on completion and on setup failures": the
\* same without the proviso. A child behind a handle is at least killed.
KilledOnCompletion == pc = "done" => \A c \in Children : child[c] \notin {"booting", "serving"}
StoppedOnCompletion == pc = "done" => \A c \in Children : ~Alive(c)

\* A lost handle cannot be stopped: while Run is not waiting for a child to
\* go, every live child is the one behind the handle.
HandleIsChild ==
  pc \notin {"crashing", "waiting", "startWaiting"} /\ ~stuck =>
    \A c \in Children : Alive(c) => cmd = c

\* A run that reached its end talked to the child it started, not to a
\* server that was there before.
EndIsOfChild == outcome = "ok" => probed = spawned

\* Run comes to an end, however the child behaves.
RunEnds == <>(pc = "done")
=============================================================================
