------------------------------- MODULE MCAudit -------------------------------
(* Small instances of Audit for TLC. *)
EXTENDS Audit

Lengths == [p \in Pointers |-> Len(p)]

Body(v, s, size) == [value |-> v, spelling |-> s, size |-> size]
Small(v) == Body(v, "canonical", "small")

Base(scenario, concurrency, managed, key, body, changed, reuse, rule, burst) ==
  [scenario |-> scenario, concurrency |-> concurrency, managed |-> managed, key |-> key,
   body |-> body, changed |-> changed, reuse |-> reuse, rule |-> rule, burst |-> burst,
   wellFormed |-> TRUE]

Upto(n) == [i \in 1 .. n |-> 199 + i]

Rule(allowed, same, ids) == [allowed |-> allowed, same |-> same, ids |-> ids]
RetrySettings ==
  {Nil}
  \cup {Rule(a, <<>>, ids) : a \in {<<>>, <<409>>, <<201, 409>>}, ids \in BOOLEAN}
  \cup {Rule(a, s, FALSE) : a \in {<<>>, <<409>>}, s \in {<<"/id">>, <<"/item/id", "/id">>}}
  \cup {Rule(<<199>>, <<>>, TRUE), Rule(<<599, 201>>, <<>>, TRUE), Rule(<<600>>, <<>>, TRUE),
        Rule(<<201, 201>>, <<>>, TRUE), Rule(Upto(16), <<>>, TRUE), Rule(Upto(17), <<>>, TRUE),
        Rule(<<>>, <<"id">>, FALSE), Rule(<<>>, <<"/id", "/id">>, FALSE), Rule(<<>>, <<"/id">>, TRUE)}

Burst(allowed, errors) == [allowed |-> allowed, noServerErrors |-> errors]
BurstSettings ==
  {Nil, Burst(<<>>, FALSE), Burst(<<>>, TRUE), Burst(<<201>>, FALSE), Burst(<<201, 409>>, TRUE),
   Burst(<<199>>, FALSE), Burst(<<201, 201>>, TRUE), Burst(Upto(16), FALSE), Burst(Upto(17), FALSE)}

SomeBodies ==
  {Nil, Small(1), Small(2), Body(1, "other", "small"), Body(1, "canonical", "edge"),
   Body(1, "canonical", "large")}
  \cup {Body(v, "", "small") : v \in Fixed}

\* Every combination of the settings of retries, of bursts and of key reuse
\* around the edges of what is valid, each with a setting of the others.
EveryBase ==
  {Base(s, c, m, TRUE, Small(1), Nil, 0, r, t) :
     s \in Scenarios \cup {""}, c \in {0, 2}, m \in BOOLEAN, r \in RetrySettings,
     t \in {Nil, Burst(<<201>>, FALSE)}}
  \cup
  {Base(s, c, m, TRUE, Small(1), Nil, 0, r, t) :
     s \in Scenarios \cup {""}, c \in {0, 1, 2, 64, 65}, m \in BOOLEAN,
     r \in {Nil, Rule(<<409>>, <<>>, FALSE)}, t \in BurstSettings}
  \cup
  {Base(s, c, TRUE, h, b, d, u, Nil, Nil) :
     s \in Scenarios \cup {""}, c \in {0, 2}, h \in BOOLEAN, b \in SomeBodies, d \in SomeBodies,
     u \in {0, 399, 409}}
  \cup
  {Base("key-reuse", 0, m, TRUE, Small(1), Small(2), 409, r, Burst(<<201>>, FALSE)) :
     m \in BOOLEAN, r \in RetrySettings}

\* One file that skips the crash, one that also skips the key reuse, one
\* that skips everything.
SomeBases ==
  {Base("", 0, FALSE, TRUE, Small(1), Nil, 0, Nil, Nil),
   Base("lost-response", 0, FALSE, FALSE, Small(1), Nil, 0, Nil, Nil),
   [Base("lost-response", 0, FALSE, FALSE, Nil, Nil, 0, Nil, Nil) EXCEPT !.wellFormed = FALSE]}

CallsWith(commands, fileLists, times, outputs, verdicts, writable) ==
  [command : commands, files : fileLists, times : {times}, outputs : {outputs},
   verdicts : {verdicts}, writable : {writable}]
Lists(bases, n) == [1 .. n -> bases]

\* Every kind of file passing everything, and a few files, two in one audit,
\* with every mix of verdicts and failing report files.
AuditCalls ==
  LET every == CallsWith({"audit", "run"}, Lists(EveryBase, 1), 1, {}, {"PASS"}, TRUE)
      mixed(commands, n) ==
        CallsWith(commands, Lists(SomeBases, n), 2, {"json", "junit", "markdown"},
                  {"PASS", "VIOLATION", "ERROR"}, FALSE)
  IN  every \cup mixed({"audit", "run"}, 1) \cup mixed({"audit"}, 2)

\* One file with a huge number and no changed body of its own.
HugeCalls ==
  CallsWith({"audit"}, Lists({Base("", 0, FALSE, TRUE, Body(Huge, "other", "small"), Nil, 0, Nil, Nil)}, 1),
            1, {}, {"PASS"}, TRUE)
=============================================================================
