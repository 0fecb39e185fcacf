---------------------------- MODULE Observation ----------------------------
(***************************************************************************)
(* A reply as RecoveryLab reads it: what engine.observe makes of a JSON    *)
(* value at a pointer, and which of its values init and discover propose   *)
(* to count. A pointer is the sequence of its keys; replies with duplicate *)
(* keys, that are no JSON or too large are failed reads.                   *)
(***************************************************************************)
EXTENDS Integers, SequencesExt

CONSTANTS
  Nil,
  Failed,      \* an error instead of a value
  Names,       \* every object key, in alphabetical order
  CountNames,  \* those that contain count, total, size, num or length
  SkipNames,   \* those that are page, limit, offset, status, ...
  Values       \* the JSON values a reply can hold, with every value inside one

ASSUME NamesAssumption == Names \in Seq(ToSet(Names)) /\ CountNames \cap SkipNames = {}

ASSUME ValuesAssumption ==
  /\ Nil \notin Values
  /\ Failed \notin Int
  /\ \A v \in Values :
       /\ v.kind = "object" =>
            \A n \in DOMAIN v.fields : n \in ToSet(Names) /\ v.fields[n] \in Values
       /\ v.kind = "array" => v.items \in Seq(Values)
       /\ v.kind = "number" => v.value \in Int \cup {Nil}

Null == [kind |-> "null"]
Boolean == [kind |-> "boolean"]
Number(n) == [kind |-> "number", value |-> n]     \* Nil: not an int64
Array(items) == [kind |-> "array", items |-> items]
Object(fields) == [kind |-> "object", fields |-> fields]

OnlyIf(condition, x) == IF condition THEN <<x>> ELSE <<>>

-----------------------------------------------------------------------------
(* observe and atPointer *)

\* The array indices a key can spell: no sign, no leading zero.
Index == [zero |-> 0, one |-> 1]

Child(node, key) ==
  IF node = Nil THEN Nil
  ELSE IF node.kind = "object" /\ key \in DOMAIN node.fields THEN node.fields[key]
  ELSE IF node.kind = "array" /\ key \in DOMAIN Index
    THEN IF Index[key] < Len(node.items) THEN node.items[Index[key] + 1] ELSE Nil
  ELSE Nil

AtPointer(root, pointer) ==
  LET at[i \in 0 .. Len(pointer)] == IF i = 0 THEN root ELSE Child(at[i - 1], pointer[i])
  IN  at[Len(pointer)]

\* Go and some ORMs encode an empty list as null.
Length(node) ==
  IF node.kind = "null" THEN 0 ELSE IF node.kind = "array" THEN Len(node.items) ELSE Failed

\* A reply is its first JSON value and whether more follow.
Observe(reply, o) ==
  LET node == AtPointer(reply.root, o.pointer)
  IN  IF reply.more \/ node = Nil THEN Failed
      ELSE IF o.measure = "length" THEN Length(node)
      ELSE IF node.kind # "number" THEN Failed
      ELSE IF node.value = Nil THEN Failed ELSE node.value

-----------------------------------------------------------------------------
(* candidates of init.go *)

MaxDepth == 4

Candidate(pointer, measure, rank) == [pointer |-> pointer, measure |-> measure, rank |-> rank]

RankOf(name) == IF name \in SkipNames THEN 0 ELSE IF name \in CountNames THEN 4 ELSE 1

Place(pointer, node) == [pointer |-> pointer, node |-> node]

\* Mutant: the keys above a value are forgotten.
MutInside(p) ==
  IF p.node.kind = "object"
  THEN FlattenSeq([i \in DOMAIN Names |->
         OnlyIf(Names[i] \in DOMAIN p.node.fields,
                Place(<<Names[i]>>, p.node.fields[Names[i]]))])
  ELSE <<p>>

\* An object is replaced by its values, in the order of their keys.
Inside(p) ==
  IF p.node.kind = "object"
  THEN FlattenSeq([i \in DOMAIN Names |->
         OnlyIf(Names[i] \in DOMAIN p.node.fields,
                Place(Append(p.pointer, Names[i]), p.node.fields[Names[i]]))])
  ELSE <<p>>

Opened(places) == FlattenSeq([i \in DOMAIN places |-> Inside(places[i])])

\* The walk over a reply, level by level: what is still an object after the
\* last one lies too deep.
Reached(root) ==
  LET level[d \in 0 .. MaxDepth] ==
        IF d = 0 THEN <<Place(<<>>, root)>> ELSE Opened(level[d - 1])
  IN  level[MaxDepth]

\* Nothing inside a list is proposed.
Proposed(p) ==
  IF p.node.kind = "array"
  THEN <<Candidate(p.pointer, "length", IF p.pointer = <<>> THEN 3 ELSE 2)>>
  ELSE IF p.node.kind = "number"
  THEN OnlyIf(p.node.value # Nil,
              Candidate(p.pointer, "value",
                        RankOf(IF p.pointer = <<>> THEN "" ELSE Last(p.pointer))))
  ELSE <<>>

Candidates(root) ==
  LET reached == Reached(root)
  IN  FlattenSeq([i \in DOMAIN reached |-> Proposed(reached[i])])

\* sort.SliceStable by rank, then the first.
Best(found) ==
  found[CHOOSE i \in DOMAIN found :
          \A j \in DOMAIN found :
            \/ found[j].rank < found[i].rank
            \/ found[j].rank = found[i].rank /\ i <= j]
=============================================================================
