---------------------------- MODULE MCExperiment ----------------------------
(* Small instances of Experiment for TLC. *)
EXTENDS Experiment, Sequences

Lowest == -4

\* The walk meets the shorter pointer first.
Walk == [p \in Pointers |-> Len(p)]

OneDelta == [o \in Obs |-> 1]
FromZero == [o \in Obs |-> 0]

Config(s, m, r, b, start) ==
  [scenario |-> s, managed |-> m, rule |-> r, burst |-> b, reuse |-> 409, start |-> start]

Rule(allowed, same, ids) == [allowed |-> allowed, same |-> same, ids |-> ids]

SomeRules == {Nil, Rule({}, {}, TRUE), Rule({409}, {}, TRUE), Rule({}, {"/id"}, FALSE)}

LostConfigs == {Config("lost-response", m, r, Nil, FromZero) : m \in BOOLEAN, r \in SomeRules}
CrashConfigs == {Config("crash-after-ack", TRUE, r, Nil, FromZero) : r \in SomeRules}
BurstConfigs == {Config("concurrent-duplicates", m, Nil, b, FromZero) :
                   m \in BOOLEAN,
                   b \in {Nil, [allowed |-> {}, noServerErrors |-> TRUE],
                          [allowed |-> {201, 409}, noServerErrors |-> FALSE]}}
ReuseConfigs == {Config("key-reuse", m, Nil, Nil, FromZero) : m \in BOOLEAN}

AllConfigs == LostConfigs \cup CrashConfigs \cup BurstConfigs \cup ReuseConfigs

\* Two values, starting at both ends of int64 and in between.
Edges == {<<0, 0>>, <<MaxInt, 0>>, <<0, MinInt>>}
UpAndDown == <<1, -1>>
UpDownEffects == {<<1, -1>>, <<1, 0>>, <<0, 0>>}
EdgeConfigs ==
  {Config("lost-response", FALSE, Rule({}, {}, FALSE), Nil, s) : s \in Edges}
  \cup {Config("crash-after-ack", TRUE, r, Nil, s) : r \in {Nil, Rule({}, {}, FALSE)}, s \in Edges}
  \cup {Config("concurrent-duplicates", FALSE, Nil, [allowed |-> {}, noServerErrors |-> TRUE], s) : s \in Edges}
  \cup {Config("key-reuse", TRUE, Nil, Nil, s) : s \in Edges}
=============================================================================
