-------------------------- MODULE Discover_proofs --------------------------
(***************************************************************************)
(* Theorems about Discover and the operators of Observation it chooses a   *)
(* counter with.                                                           *)
(***************************************************************************)
EXTENDS Discover, TLAPS, WellFoundedInduction, SequenceTheorems

(* Recursion and induction over the natural numbers, in terms of sets.     *)

\* A set of numbers with 0 and the successor of each of its numbers has all.
LEMMA SetInduction ==
  ASSUME NEW T, 0 \in T, \A n \in Nat : n \in T => n + 1 \in T
  PROVE  Nat \subseteq T
<1> SUFFICES ASSUME ~(Nat \subseteq T) PROVE FALSE
  OBVIOUS
<1> DEFINE R == OpToRel(<, Nat)
<1>1. IsWellFoundedOn(R, Nat)
  BY NatLessThanWellFounded
<1>2. \A x, y \in Nat : x < y => <<x, y>> \in R
  BY DEF OpToRel
<1> HIDE DEF R
<1>3. PICK x \in Nat \ T : \A y \in Nat \ T : ~(<<y, x>> \in R)
  BY <1>1, WFMin
<1>4. x - 1 \in Nat
  BY <1>3
<1>5. x - 1 \in T
  <2>1. <<x - 1, x>> \in R
    BY <1>2, <1>3, <1>4
  <2> QED
    BY <1>3, <1>4, <2>1
<1>6. (x - 1) + 1 \in T
  BY <1>4, <1>5
<1> QED
  BY <1>3, <1>6

\* f starts with v at m and goes on with the functions of G.
Follows(f, V, v, G, m, n) ==
  /\ f \in [m .. n -> V]
  /\ f[m] = v
  /\ \A i \in m + 1 .. n : f[i] = G[i][f[i - 1]]

\* There is such a function, of any length.
LEMMA StepsExist ==
  ASSUME NEW V, NEW v \in V, NEW G \in [Nat -> [V -> V]], NEW m \in Nat, NEW k \in Nat
  PROVE  \E f : Follows(f, V, v, G, m, m + k)
<1> DEFINE part(f, n) == /\ f \in [m .. m + n -> V]
                         /\ f[m] = v
                         /\ \A i \in m + 1 .. m + n : f[i] = G[i][f[i - 1]]
           E == {n \in Nat : \E f : part(f, n)}
<1>1. 0 \in E
  <2>1. part([i \in m .. m + 0 |-> v], 0)
    OBVIOUS
  <2> HIDE DEF part
  <2> QED
    BY <2>1
<1>2. ASSUME NEW n \in Nat, n \in E
      PROVE  n + 1 \in E
  <2>1. PICK f : part(f, n)
    BY <1>2
  <2> DEFINE h == [i \in m .. m + (n + 1) |-> IF i \in m .. m + n THEN f[i] ELSE G[i][f[i - 1]]]
  <2>2. h \in [m .. m + (n + 1) -> V]
    <3>1. ASSUME NEW i \in m .. m + (n + 1), ~(i \in m .. m + n)
          PROVE  G[i][f[i - 1]] \in V
      <4>1. i \in Nat /\ i - 1 \in m .. m + n
        BY <3>1
      <4>2. f[i - 1] \in V
        BY <2>1, <4>1
      <4> QED
        BY <4>1, <4>2
    <3> QED
      BY <2>1, <3>1
  <2>3. h[m] = v
    BY <2>1
  <2>4. ASSUME NEW i \in m + 1 .. m + (n + 1)
        PROVE  h[i] = G[i][h[i - 1]]
    <3>1. i - 1 \in m .. m + n /\ i \in m .. m + (n + 1)
      OBVIOUS
    <3>2. h[i - 1] = f[i - 1]
      BY <3>1
    <3>3. CASE i \in m .. m + n
      <4>1. h[i] = f[i] /\ i \in m + 1 .. m + n
        BY <3>3
      <4> QED
        BY <2>1, <3>2, <4>1
    <3>4. CASE ~(i \in m .. m + n)
      BY <3>1, <3>2, <3>4
    <3> QED
      BY <3>3, <3>4
  <2>5. part(h, n + 1)
    BY <2>2, <2>3, <2>4
  <2> HIDE DEF part
  <2> QED
    BY <2>5
<1>3. k \in E
  <2> HIDE DEF E
  <2>1. Nat \subseteq E
    BY <1>1, <1>2, SetInduction
  <2> QED
    BY <2>1
<1>4. PICK f : part(f, k)
  BY <1>3
<1>5. Follows(f, V, v, G, m, m + k)
  BY <1>4 DEF Follows
<1> QED
  BY <1>5

-----------------------------------------------------------------------------
(* Sequences. *)

\* FlattenSeq puts sequences behind one another and loses nothing.
LEMMA Flattened ==
  ASSUME NEW S, NEW ss \in Seq(Seq(S))
  PROVE  /\ FlattenSeq(ss) \in Seq(S)
         /\ \A x : x \in ToSet(FlattenSeq(ss)) <=> \E j \in DOMAIN ss : x \in ToSet(ss[j])
<1>1. CASE Len(ss) = 0
  <2>1. ss = <<>> /\ FlattenSeq(ss) = ss
    BY <1>1 DEF FlattenSeq
  <2>2. FlattenSeq(ss) = <<>> /\ DOMAIN ss = {} /\ <<>> \in Seq(S)
    BY <2>1
  <2>3. ToSet(FlattenSeq(ss)) = {}
    BY <2>1, <2>2 DEF ToSet
  <2> QED
    BY <2>2, <2>3
<1>2. CASE Len(ss) # 0
  <2> DEFINE n == Len(ss)
             is(f) == f = [i \in 1 .. n |-> IF i = 1 THEN ss[i] ELSE f[i - 1] \o ss[i]]
             flatten == CHOOSE f : is(f)
  <2>1. n \in Nat \ {0} /\ DOMAIN ss = 1 .. n /\ \A i \in 1 .. n : ss[i] \in Seq(S)
    BY <1>2
  <2>2. FlattenSeq(ss) = flatten[n]
    BY <1>2 DEF FlattenSeq
  <2>3. \E f : is(f)
    <3> DEFINE V == Seq(S)
               G == [i \in Nat |-> [s \in V |-> IF i \in 1 .. n THEN s \o ss[i] ELSE s]]
    <3>1. G \in [Nat -> [V -> V]]
      <4>1. \A i \in 1 .. n, s \in V : s \o ss[i] \in V
        BY <2>1, ConcatProperties
      <4> HIDE DEF V, n
      <4> QED
        BY <4>1
    <3> DEFINE v == ss[1]
               m == 1
               k == n - 1
    <3>2. v \in V /\ m \in Nat /\ k \in Nat /\ m + k = n
      BY <2>1
    <3> HIDE DEF G, V, n, v, m, k
    <3>3. PICK f : Follows(f, V, v, G, m, m + k)
      BY <3>1, <3>2, StepsExist
    <3>4. /\ f \in [1 .. n -> V] /\ f[1] = v
          /\ \A i \in 1 + 1 .. n : f[i] = G[i][f[i - 1]]
      BY <3>2, <3>3 DEF Follows, m
    <3>5. ASSUME NEW i \in 1 .. n
          PROVE  f[i] = IF i = 1 THEN ss[i] ELSE f[i - 1] \o ss[i]
      <4>1. CASE i = 1
        BY <3>2, <3>4, <4>1 DEF v
      <4>2. CASE i # 1
        <5>1. i \in 1 + 1 .. n /\ i - 1 \in 1 .. n /\ i \in Nat
          BY <2>1, <4>2
        <5>2. f[i] = G[i][f[i - 1]] /\ f[i - 1] \in V
          BY <3>4, <5>1
        <5> QED
          BY <4>2, <5>1, <5>2 DEF G
      <4> QED
        BY <4>1, <4>2
    <3>6. is(f)
      <4> HIDE DEF G
      <4> QED
        BY <3>4, <3>5
    <3> HIDE DEF is
    <3> QED
      BY <3>6
  <2>4. is(flatten)
    <3> HIDE DEF is
    <3> QED
      BY <2>3
  <2> HIDE DEF flatten
  <2>5. \A i \in 1 .. n : flatten[i] = IF i = 1 THEN ss[i] ELSE flatten[i - 1] \o ss[i]
    BY <2>4
  <2> HIDE DEF is, n
  <2> DEFINE good(i) ==
        /\ flatten[i] \in Seq(S)
        /\ \A x : x \in ToSet(flatten[i]) <=> \E j \in 1 .. i : x \in ToSet(ss[j])
             T == {i \in Nat : i \in 1 .. n => good(i)}
  <2>6. 0 \in T
    OBVIOUS
  <2>7. ASSUME NEW i \in Nat, i \in T
        PROVE  i + 1 \in T
    <3> SUFFICES ASSUME i + 1 \in 1 .. n PROVE good(i + 1)
      OBVIOUS
    <3>1. CASE i = 0
      <4>1. flatten[i + 1] = ss[1] /\ 1 \in 1 .. n
        BY <2>1, <2>5, <3>1
      <4>2. \A j : j \in 1 .. i + 1 <=> j = 1
        BY <3>1
      <4> QED
        BY <2>1, <4>1, <4>2
    <3>2. CASE i # 0
      <4>1. i \in 1 .. n /\ (i + 1) - 1 = i /\ i + 1 # 1
        BY <2>1, <3>2
      <4>2. flatten[i + 1] = flatten[i] \o ss[i + 1]
        BY <2>5, <4>1
      <4>3. good(i)
        BY <2>7, <4>1
      <4>4. flatten[i] \in Seq(S) /\ ss[i + 1] \in Seq(S)
        BY <2>1, <4>3
      <4>5. flatten[i + 1] \in Seq(S)
        BY <4>2, <4>4, ConcatProperties
      <4>6. ToSet(flatten[i + 1]) = ToSet(flatten[i]) \cup ToSet(ss[i + 1])
        <5>1. Range(flatten[i] \o ss[i + 1]) = Range(flatten[i]) \cup Range(ss[i + 1])
          BY <4>4, RangeConcatenation
        <5> QED
          BY <4>2, <5>1 DEF Range, ToSet
      <4>7. \A j : j \in 1 .. i + 1 <=> j \in 1 .. i \/ j = i + 1
        OBVIOUS
      <4> HIDE DEF T
      <4>8. ASSUME NEW x
            PROVE  x \in ToSet(flatten[i + 1]) <=> \E j \in 1 .. i + 1 : x \in ToSet(ss[j])
        <5>1. x \in ToSet(flatten[i]) <=> \E j \in 1 .. i : x \in ToSet(ss[j])
          BY <4>3
        <5> HIDE DEF good
        <5> QED
          BY <4>6, <4>7, <5>1
      <4> QED
        BY <4>5, <4>8
    <3> QED
      BY <3>1, <3>2
  <2>8. Nat \subseteq T
    <3> HIDE DEF T
    <3> QED
      BY <2>6, <2>7, SetInduction
  <2>9. good(n)
    <3> HIDE DEF good
    <3> QED
      BY <2>1, <2>8
  <2>10. DOMAIN ss = 1 .. n
    BY <2>1
  <2> QED
    BY <2>2, <2>9, <2>10
<1> QED
  BY <1>1, <1>2

-----------------------------------------------------------------------------
(* Pointers. *)

LEMMA ChildIsValue ==
  ASSUME NEW node \in Values \cup {Nil}, NEW key
  PROVE  Child(node, key) \in Values \cup {Nil}
<1>1. CASE node = Nil
  BY <1>1 DEF Child
<1>2. CASE node # Nil
  <2>1. node \in Values
    BY <1>2
  <2>2. CASE node.kind = "object"
    BY <1>2, <2>1, <2>2, ValuesAssumption DEF Child
  <2>3. CASE node.kind = "array" /\ key \in DOMAIN Index
    <3>1. Index[key] \in {0, 1}
      BY <2>3 DEF Index
    <3>2. node.items \in Seq(Values)
      BY <2>1, <2>3, ValuesAssumption
    <3>3. Index[key] < Len(node.items) => node.items[Index[key] + 1] \in Values
      BY <3>1, <3>2
    <3>4. Child(node, key) = IF Index[key] < Len(node.items)
                             THEN node.items[Index[key] + 1] ELSE Nil
      BY <1>2, <2>3 DEF Child
    <3> QED
      BY <3>3, <3>4
  <2>4. CASE node.kind # "object" /\ ~(node.kind = "array" /\ key \in DOMAIN Index)
    BY <1>2, <2>4 DEF Child
  <2> QED
    BY <2>2, <2>3, <2>4
<1> QED
  BY <1>1, <1>2

\* f holds what atPointer has found after each key.
Walk(f, root, pointer) ==
  /\ DOMAIN f = 0 .. Len(pointer)
  /\ f[0] = root
  /\ \A i \in 1 .. Len(pointer) : f[i] = Child(f[i - 1], pointer[i])

LEMMA PointerIsWalked ==
  ASSUME NEW root \in Values, NEW P, NEW pointer \in Seq(P)
  PROVE  \E f : Walk(f, root, pointer) /\ AtPointer(root, pointer) = f[Len(pointer)]
<1> DEFINE n == Len(pointer)
           is(f) == f = [i \in 0 .. n |-> IF i = 0 THEN root ELSE Child(f[i - 1], pointer[i])]
           at == CHOOSE f : is(f)
<1>1. n \in Nat
  OBVIOUS
<1>2. AtPointer(root, pointer) = at[n]
  BY DEF AtPointer
<1>3. \E f : is(f)
  <2> DEFINE V == Values \cup {Nil}
             G == [i \in Nat |-> [s \in V |-> Child(s, pointer[i])]]
             m == 0
  <2>1. G \in [Nat -> [V -> V]]
    <3>1. \A i \in Nat, s \in V : Child(s, pointer[i]) \in V
      BY ChildIsValue
    <3> HIDE DEF V
    <3> QED
      BY <3>1
  <2>2. root \in V /\ m \in Nat /\ m + n = n
    BY <1>1
  <2> HIDE DEF V, G, m, n
  <2>3. PICK f : Follows(f, V, root, G, m, m + n)
    BY <1>1, <2>1, <2>2, StepsExist
  <2>4. /\ f \in [0 .. n -> V] /\ f[0] = root
        /\ \A i \in 0 + 1 .. n : f[i] = G[i][f[i - 1]]
    BY <2>2, <2>3 DEF Follows, m
  <2>5. ASSUME NEW i \in 0 .. n
        PROVE  f[i] = IF i = 0 THEN root ELSE Child(f[i - 1], pointer[i])
    <3>1. CASE i = 0
      BY <2>4, <3>1
    <3>2. CASE i # 0
      <4>1. i \in 0 + 1 .. n /\ i - 1 \in 0 .. n /\ i \in Nat
        BY <1>1, <3>2
      <4>2. f[i] = G[i][f[i - 1]] /\ f[i - 1] \in V
        BY <2>4, <4>1
      <4> QED
        BY <3>2, <4>1, <4>2 DEF G
    <3> QED
      BY <3>1, <3>2
  <2>6. is(f)
    BY <2>4, <2>5
  <2> HIDE DEF is
  <2> QED
    BY <2>6
<1>4. is(at)
  <2> HIDE DEF is
  <2> QED
    BY <1>3
<1> HIDE DEF at
<1>5. Walk(at, root, pointer)
  <2>1. /\ DOMAIN at = 0 .. n
        /\ \A i \in 0 .. n : at[i] = IF i = 0 THEN root ELSE Child(at[i - 1], pointer[i])
    BY <1>4
  <2> HIDE DEF is
  <2> QED
    BY <1>1, <2>1 DEF Walk
<1> QED
  BY <1>2, <1>5

\* The empty pointer is the whole reply.
LEMMA EmptyPointer ==
  ASSUME NEW root \in Values
  PROVE  AtPointer(root, <<>>) = root
<1>1. PICK f : Walk(f, root, <<>>) /\ AtPointer(root, <<>>) = f[Len(<<>>)]
  <2>1. <<>> \in Seq(Values)
    OBVIOUS
  <2> QED
    BY <2>1, PointerIsWalked
<1> QED
  BY <1>1 DEF Walk

\* One more key leads from a value to its child.
LEMMA LongerPointer ==
  ASSUME NEW root \in Values, NEW P, NEW pointer \in Seq(P), NEW key \in P
  PROVE  AtPointer(root, Append(pointer, key)) = Child(AtPointer(root, pointer), key)
<1> DEFINE n == Len(pointer)
           longer == Append(pointer, key)
<1>1. /\ n \in Nat /\ longer \in Seq(P) /\ Len(longer) = n + 1 /\ longer[n + 1] = key
      /\ \A i \in 1 .. n : longer[i] = pointer[i]
  OBVIOUS
<1> HIDE DEF longer
<1>2. PICK f : Walk(f, root, pointer) /\ AtPointer(root, pointer) = f[n]
  BY PointerIsWalked
<1>3. PICK g : Walk(g, root, longer) /\ AtPointer(root, longer) = g[n + 1]
  BY <1>1, PointerIsWalked
<1> HIDE DEF n
<1>4. /\ f[0] = root /\ \A i \in 1 .. n : f[i] = Child(f[i - 1], pointer[i])
  BY <1>2 DEF Walk, n
<1>5. /\ g[0] = root /\ \A i \in 1 .. n + 1 : g[i] = Child(g[i - 1], longer[i])
  BY <1>1, <1>3 DEF Walk
<1> DEFINE T == {i \in Nat : i <= n => f[i] = g[i]}
<1>6. 0 \in T
  BY <1>4, <1>5
<1>7. ASSUME NEW i \in Nat, i \in T
      PROVE  i + 1 \in T
  <2> SUFFICES ASSUME i + 1 <= n PROVE f[i + 1] = g[i + 1]
    OBVIOUS
  <2>1. i + 1 \in 1 .. n /\ i + 1 \in 1 .. n + 1 /\ (i + 1) - 1 = i /\ f[i] = g[i]
    BY <1>1, <1>7
  <2>2. f[i + 1] = Child(f[i], pointer[i + 1]) /\ g[i + 1] = Child(g[i], longer[i + 1])
    BY <1>4, <1>5, <2>1
  <2> QED
    BY <1>1, <2>1, <2>2
<1>8. Nat \subseteq T
  <2> HIDE DEF T
  <2> QED
    BY <1>6, <1>7, SetInduction
<1>9. f[n] = g[n]
  BY <1>1, <1>8
<1>10. g[n + 1] = Child(g[n], key)
  <2>1. n + 1 \in 1 .. n + 1 /\ (n + 1) - 1 = n
    BY <1>1
  <2> QED
    BY <1>1, <1>5, <2>1
<1> QED
  BY <1>2, <1>3, <1>9, <1>10 DEF longer

-----------------------------------------------------------------------------
(* The walk over a reply. *)

Places == [pointer : Seq(ToSet(Names)), node : Values]

\* A place is right if its pointer leads to its value.
Right(root, p) == p \in Places /\ AtPointer(root, p.pointer) = p.node

LEMMA OnlyIfGives ==
  ASSUME NEW S, NEW condition, NEW x, condition => x \in S
  PROVE  /\ OnlyIf(condition, x) \in Seq(S)
         /\ \A y : y \in ToSet(OnlyIf(condition, x)) <=> condition /\ y = x
<1>1. CASE condition
  <2>1. OnlyIf(condition, x) = <<x>> /\ x \in S
    BY <1>1 DEF OnlyIf
  <2>2. DOMAIN <<x>> = {1} /\ <<x>>[1] = x /\ <<x>> \in Seq(S)
    BY <2>1
  <2> QED
    BY <1>1, <2>1, <2>2 DEF ToSet
<1>2. CASE ~condition
  <2>1. OnlyIf(condition, x) = <<>>
    BY <1>2 DEF OnlyIf
  <2>2. DOMAIN <<>> = {} /\ <<>> \in Seq(S)
    OBVIOUS
  <2> QED
    BY <1>2, <2>1, <2>2 DEF ToSet
<1> QED
  BY <1>1, <1>2

\* Opening an object gives a right place for each of its values; anything else
\* stays where it is.
LEMMA InsideIsRight ==
  ASSUME NEW root \in Values, NEW p, Right(root, p)
  PROVE  /\ Inside(p) \in Seq(Places)
         /\ \A q \in ToSet(Inside(p)) : Right(root, q)
         /\ p.node.kind # "object" => p \in ToSet(Inside(p))
         /\ p.node.kind = "object" =>
              \A n \in DOMAIN p.node.fields :
                Place(Append(p.pointer, n), p.node.fields[n]) \in ToSet(Inside(p))
<1>1. p \in Places /\ p.pointer \in Seq(ToSet(Names)) /\ p.node \in Values
  BY DEF Right, Places
<1>2. CASE p.node.kind # "object"
  <2>1. Inside(p) = <<p>>
    BY <1>2 DEF Inside
  <2>2. <<p>> \in Seq(Places) /\ DOMAIN <<p>> = {1} /\ <<p>>[1] = p
    BY <1>1
  <2>3. \A q : q \in ToSet(Inside(p)) <=> q = p
    BY <2>1, <2>2 DEF ToSet
  <2> QED
    BY <1>2, <2>1, <2>2, <2>3
<1>3. CASE p.node.kind = "object"
  <2> DEFINE fields == p.node.fields
             below(n) == Place(Append(p.pointer, n), fields[n])
             parts == [i \in DOMAIN Names |-> OnlyIf(Names[i] \in DOMAIN fields, below(Names[i]))]
  <2>1. ASSUME NEW n \in DOMAIN fields
        PROVE  n \in ToSet(Names) /\ Right(root, below(n))
    <3>1. n \in ToSet(Names) /\ fields[n] \in Values
      BY <1>1, <1>3, ValuesAssumption
    <3>2. Append(p.pointer, n) \in Seq(ToSet(Names))
      BY <1>1, <3>1
    <3>3. AtPointer(root, Append(p.pointer, n)) = Child(p.node, n)
      BY <1>1, <3>1, LongerPointer DEF Right
    <3>4. Child(p.node, n) = fields[n]
      BY <1>1, <1>3, ValuesAssumption DEF Child
    <3>5. below(n) \in Places
      BY <3>1, <3>2 DEF Places, Place
    <3>6. below(n).pointer = Append(p.pointer, n) /\ below(n).node = fields[n]
      BY DEF Place
    <3> HIDE DEF below
    <3> QED
      BY <3>1, <3>3, <3>4, <3>5, <3>6 DEF Right
  <2>2. Names \in Seq(ToSet(Names)) /\ DOMAIN Names = 1 .. Len(Names) /\ Len(Names) \in Nat
    BY NamesAssumption
  <2>3. Inside(p) = FlattenSeq(parts)
    BY <1>3 DEF Inside
  <2> HIDE DEF below, fields
  <2>4. ASSUME NEW i \in DOMAIN Names
        PROVE  /\ parts[i] \in Seq(Places)
               /\ \A q : q \in ToSet(parts[i]) <=>
                           Names[i] \in DOMAIN fields /\ q = below(Names[i])
    <3> DEFINE has == Names[i] \in DOMAIN fields
               x == below(Names[i])
    <3>1. has => x \in Places
      BY <2>1 DEF Right
    <3>2. parts[i] = OnlyIf(has, x)
      OBVIOUS
    <3> HIDE DEF parts, has, x
    <3>3. /\ OnlyIf(has, x) \in Seq(Places)
          /\ \A y : y \in ToSet(OnlyIf(has, x)) <=> has /\ y = x
      BY <3>1, OnlyIfGives
    <3> QED
      BY <3>2, <3>3 DEF has, x
  <2>5. parts \in Seq(Seq(Places)) /\ DOMAIN parts = DOMAIN Names
    <3>1. DOMAIN parts = 1 .. Len(Names)
      BY <2>2
    <3>2. parts = [i \in 1 .. Len(Names) |-> parts[i]]
      BY <2>2
    <3> HIDE DEF parts
    <3> QED
      BY <2>2, <2>4, <3>1, <3>2
  <2> HIDE DEF parts
  <2>6. /\ Inside(p) \in Seq(Places)
        /\ \A q : q \in ToSet(Inside(p)) <=> \E j \in DOMAIN parts : q \in ToSet(parts[j])
    BY <2>3, <2>5, Flattened
  <2>7. \A q \in ToSet(Inside(p)) : Right(root, q)
    BY <2>1, <2>4, <2>5, <2>6
  <2>8. ASSUME NEW n \in DOMAIN fields
        PROVE  below(n) \in ToSet(Inside(p))
    <3>1. PICK i \in DOMAIN Names : Names[i] = n
      BY <2>1 DEF ToSet
    <3> QED
      BY <2>4, <2>5, <2>6, <3>1
  <2> QED
    BY <1>3, <2>6, <2>7, <2>8 DEF below, fields
<1> QED
  BY <1>2, <1>3

\* A level of the walk has right places and leads to right places.
AllRight(root, places) ==
  places \in Seq(Places) /\ \A q \in ToSet(places) : Right(root, q)

LEMMA OpenedIsRight ==
  ASSUME NEW root \in Values, NEW places, AllRight(root, places)
  PROVE  /\ AllRight(root, Opened(places))
         /\ \A p \in ToSet(places) :
              ToSet(Inside(p)) \subseteq ToSet(Opened(places))
<1> DEFINE parts == [i \in DOMAIN places |-> Inside(places[i])]
<1>1. /\ places \in Seq(Places) /\ DOMAIN places = 1 .. Len(places) /\ Len(places) \in Nat
      /\ \A i \in DOMAIN places : Right(root, places[i])
  BY DEF AllRight, ToSet
<1>2. \A i \in DOMAIN places : parts[i] = Inside(places[i])
  OBVIOUS
<1>3. parts \in Seq(Seq(Places)) /\ DOMAIN parts = DOMAIN places
  <2>1. DOMAIN parts = 1 .. Len(places) /\ parts = [i \in 1 .. Len(places) |-> parts[i]]
    BY <1>1
  <2>2. \A i \in DOMAIN places : parts[i] \in Seq(Places)
    <3> HIDE DEF parts
    <3> QED
      BY <1>1, <1>2, InsideIsRight
  <2> HIDE DEF parts
  <2> QED
    BY <1>1, <2>1, <2>2
<1>4. Opened(places) = FlattenSeq(parts)
  BY DEF Opened
<1> HIDE DEF parts
<1>5. /\ Opened(places) \in Seq(Places)
      /\ \A q : q \in ToSet(Opened(places)) <=> \E j \in DOMAIN parts : q \in ToSet(parts[j])
  BY <1>3, <1>4, Flattened
<1>6. \A q \in ToSet(Opened(places)) : Right(root, q)
  BY <1>1, <1>2, <1>3, <1>5, InsideIsRight
<1>7. ASSUME NEW p \in ToSet(places)
      PROVE  ToSet(Inside(p)) \subseteq ToSet(Opened(places))
  <2>1. PICK i \in DOMAIN places : places[i] = p
    BY DEF ToSet
  <2> QED
    BY <1>2, <1>3, <1>5, <2>1
<1> QED
  BY <1>5, <1>6, <1>7 DEF AllRight

LEMMA ReachedUnfolds ==
  ASSUME NEW root
  PROVE  Reached(root) = Opened(Opened(Opened(Opened(<<Place(<<>>, root)>>))))
<1> DEFINE a == <<Place(<<>>, root)>>
           is(f) == f = [d \in 0 .. MaxDepth |-> IF d = 0 THEN a ELSE Opened(f[d - 1])]
           level == CHOOSE f : is(f)
<1>1. Reached(root) = level[MaxDepth]
  BY DEF Reached
<1> HIDE DEF a
<1>2. \E f : is(f)
  <2> DEFINE b == Opened(a)
             c == Opened(b)
             d4 == Opened(c)
             e == Opened(d4)
             f == [d \in 0 .. 4 |-> CASE d = 0 -> a [] d = 1 -> b [] d = 2 -> c
                                      [] d = 3 -> d4 [] d = 4 -> e]
  <2> HIDE DEF b, c, d4, e
  <2>1. f[0] = a /\ f[1] = b /\ f[2] = c /\ f[3] = d4 /\ f[4] = e
    OBVIOUS
  <2>2. DOMAIN f = 0 .. 4 /\ f = [d \in 0 .. 4 |-> f[d]]
    OBVIOUS
  <2> HIDE DEF f
  <2>3. \A d \in 0 .. 4 : f[d] = IF d = 0 THEN a ELSE Opened(f[d - 1])
    BY <2>1 DEF b, c, d4, e
  <2>4. is(f)
    BY <2>2, <2>3 DEF MaxDepth
  <2> HIDE DEF is
  <2> QED
    BY <2>4
<1>3. is(level)
  <2> HIDE DEF is
  <2> QED
    BY <1>2
<1> HIDE DEF level
<1>4. \A d \in 0 .. 4 : level[d] = IF d = 0 THEN a ELSE Opened(level[d - 1])
  BY <1>3 DEF MaxDepth
<1> HIDE DEF is
<1>5. /\ level[0] = a /\ level[1] = Opened(level[0]) /\ level[2] = Opened(level[1])
      /\ level[3] = Opened(level[2]) /\ level[4] = Opened(level[3])
  BY <1>4
<1> QED
  BY <1>1, <1>5 DEF MaxDepth, a

\* The walk finds right places only, the reply itself unless it is an object,
\* and its values of one level further in unless they are.
LEMMA ReachedIsRight ==
  ASSUME NEW root \in Values
  PROVE  /\ AllRight(root, Reached(root))
         /\ root.kind # "object" => Place(<<>>, root) \in ToSet(Reached(root))
         /\ root.kind = "object" =>
              \A n \in DOMAIN root.fields :
                root.fields[n].kind # "object" =>
                  Place(<<n>>, root.fields[n]) \in ToSet(Reached(root))
<1> DEFINE first == Place(<<>>, root)
           a == <<first>>
           b == Opened(a)
           c == Opened(b)
           d == Opened(c)
           e == Opened(d)
           stays(x, y) == \A p \in ToSet(x) : p.node.kind # "object" => p \in ToSet(y)
<1>1. first.pointer = <<>> /\ first.node = root /\ Right(root, first)
  <2>1. first.pointer = <<>> /\ first.node = root /\ first \in Places
    BY DEF Place, Places
  <2> HIDE DEF first
  <2> QED
    BY <2>1, EmptyPointer DEF Right
<1> HIDE DEF first
<1>2. AllRight(root, a) /\ first \in ToSet(a)
  <2>1. a \in Seq(Places) /\ DOMAIN a = {1} /\ a[1] = first
    BY <1>1 DEF Right
  <2> HIDE DEF a
  <2> QED
    BY <1>1, <2>1 DEF AllRight, ToSet
<1>3. ASSUME NEW x, AllRight(root, x)
      PROVE  AllRight(root, Opened(x)) /\ stays(x, Opened(x))
  <2>1. \A p \in ToSet(x) : Right(root, p) /\ ToSet(Inside(p)) \subseteq ToSet(Opened(x))
    BY <1>3, OpenedIsRight DEF AllRight
  <2>2. \A p \in ToSet(x) : p.node.kind # "object" => p \in ToSet(Inside(p))
    BY <2>1, InsideIsRight
  <2> QED
    BY <1>3, <2>1, <2>2, OpenedIsRight
<1> HIDE DEF a, b, c, d, e, stays
<1>4. /\ AllRight(root, b) /\ AllRight(root, c) /\ AllRight(root, d) /\ AllRight(root, e)
      /\ stays(a, b) /\ stays(b, c) /\ stays(c, d) /\ stays(d, e)
  BY <1>2, <1>3 DEF b, c, d, e
<1>5. Reached(root) = e
  BY ReachedUnfolds DEF a, b, c, d, e, first
<1>6. \A p \in ToSet(b) : p.node.kind # "object" => p \in ToSet(e)
  BY <1>4 DEF stays
<1>7. CASE root.kind # "object"
  <2>1. first \in ToSet(b)
    BY <1>1, <1>2, <1>4, <1>7 DEF stays
  <2>2. first \in ToSet(e)
    BY <1>1, <1>6, <1>7, <2>1
  <2> QED
    BY <1>4, <1>5, <1>7, <2>2 DEF first
<1>8. CASE root.kind = "object"
  <2> SUFFICES ASSUME NEW n \in DOMAIN root.fields, root.fields[n].kind # "object"
               PROVE  Place(<<n>>, root.fields[n]) \in ToSet(e)
    BY <1>4, <1>5, <1>8
  <2> DEFINE p == Place(<<n>>, root.fields[n])
  <2>1. Append(<<>>, n) = <<n>>
    OBVIOUS
  <2>2. p \in ToSet(Inside(first))
    BY <1>1, <1>8, <2>1, InsideIsRight
  <2>3. p \in ToSet(b)
    BY <1>2, <2>2, OpenedIsRight DEF b
  <2>4. p.node.kind # "object"
    BY DEF Place
  <2> HIDE DEF p
  <2>5. p \in ToSet(e)
    BY <1>6, <2>3, <2>4
  <2> QED
    BY <2>5 DEF p
<1> QED
  BY <1>7, <1>8

-----------------------------------------------------------------------------
(* The counters that are proposed. *)

Found == [pointer : Seq(ToSet(Names)), measure : {"length", "value"}, rank : 0 .. 4]

\* A value that is proposed is one the runner can read.
LEMMA CountableIsReadable ==
  ASSUME NEW reply \in [root : Values, more : BOOLEAN], NEW o,
         AtPointer(reply.root, o.pointer) \in Values,
         Countable(AtPointer(reply.root, o.pointer), o.measure)
  PROVE  Observe([reply EXCEPT !.more = FALSE], o) # Failed
<1> DEFINE node == AtPointer(reply.root, o.pointer)
           r == [reply EXCEPT !.more = FALSE]
<1>1. r.more = FALSE /\ r.root = reply.root
  OBVIOUS
<1>2. node # Nil
  BY DEF Countable
<1> HIDE DEF r
<1>3. Observe(r, o) = IF o.measure = "length" THEN Length(node)
                      ELSE IF node.kind # "number" THEN Failed
                      ELSE IF node.value = Nil THEN Failed ELSE node.value
  BY <1>1, <1>2 DEF Observe
<1> HIDE DEF node
<1>4. CASE o.measure = "length"
  <2>1. node.kind = "array" /\ node.items \in Seq(Values)
    BY <1>2, <1>4, ValuesAssumption DEF Countable, node
  <2>2. Length(node) = Len(node.items)
    BY <2>1 DEF Length
  <2>3. Len(node.items) \in Int
    BY <2>1
  <2> QED
    BY <1>3, <1>4, <2>2, <2>3, ValuesAssumption DEF r
<1>5. CASE o.measure # "length"
  <2>1. node.kind = "number" /\ node.value # Nil
    BY <1>2, <1>5 DEF Countable, node
  <2>2. node.value \in Int
    BY <2>1, ValuesAssumption DEF node
  <2> QED
    BY <1>3, <1>5, <2>1, <2>2, ValuesAssumption DEF r
<1> QED
  BY <1>4, <1>5

\* What is proposed for a place is the place, if it can be counted.
LEMMA ProposedIsCountable ==
  ASSUME NEW root \in Values, NEW p, Right(root, p)
  PROVE  /\ Proposed(p) \in Seq(Found)
         /\ \A c \in ToSet(Proposed(p)) :
              c.pointer = p.pointer /\ Countable(p.node, c.measure)
         /\ \A measure : Countable(p.node, measure) =>
              \E c \in ToSet(Proposed(p)) : c.pointer = p.pointer /\ c.measure = measure
<1>1. /\ p.pointer \in Seq(ToSet(Names)) /\ p.node \in Values /\ p.node # Nil
  BY ValuesAssumption DEF Right, Places
<1>2. CASE p.node.kind = "array"
  <2> DEFINE x == Candidate(p.pointer, "length", IF p.pointer = <<>> THEN 3 ELSE 2)
  <2>1. x.pointer = p.pointer /\ x.measure = "length" /\ x \in Found
    BY <1>1 DEF Candidate, Found
  <2>2. Proposed(p) = <<x>>
    BY <1>2 DEF Proposed
  <2> HIDE DEF x
  <2>3. Proposed(p) \in Seq(Found) /\ \A c : c \in ToSet(Proposed(p)) <=> c = x
    <3>1. <<x>> \in Seq(Found) /\ DOMAIN <<x>> = {1} /\ <<x>>[1] = x
      BY <2>1
    <3> QED
      BY <2>2, <3>1 DEF ToSet
  <2>4. \A measure : Countable(p.node, measure) <=> measure = "length"
    BY <1>1, <1>2 DEF Countable
  <2> QED
    BY <2>1, <2>3, <2>4
<1>3. CASE p.node.kind = "number"
  <2> DEFINE x == Candidate(p.pointer, "value",
                            RankOf(IF p.pointer = <<>> THEN "" ELSE Last(p.pointer)))
             has == p.node.value # Nil
  <2>1. x.pointer = p.pointer /\ x.measure = "value" /\ x \in Found
    <3>1. \A name : RankOf(name) \in 0 .. 4
      BY DEF RankOf
    <3> QED
      BY <1>1, <3>1 DEF Candidate, Found
  <2>2. Proposed(p) = OnlyIf(has, x)
    BY <1>3 DEF Proposed
  <2>3. \A measure : Countable(p.node, measure) <=> measure = "value" /\ has
    BY <1>1, <1>3 DEF Countable
  <2> HIDE DEF x, has
  <2>4. /\ OnlyIf(has, x) \in Seq(Found)
        /\ \A c : c \in ToSet(OnlyIf(has, x)) <=> has /\ c = x
    BY <2>1, OnlyIfGives
  <2> QED
    BY <2>1, <2>2, <2>3, <2>4
<1>4. CASE p.node.kind # "array" /\ p.node.kind # "number"
  <2>1. Proposed(p) = <<>> /\ \A measure : ~Countable(p.node, measure)
    BY <1>1, <1>4 DEF Proposed, Countable
  <2>2. <<>> \in Seq(Found) /\ DOMAIN <<>> = {}
    OBVIOUS
  <2> QED
    BY <2>1, <2>2 DEF ToSet
<1> QED
  BY <1>2, <1>3, <1>4

\* Every counter proposed for a reply is one the runner can read in it, and the
\* reply itself and the values of its keys are proposed if they can be counted.
LEMMA CandidatesAreReal ==
  ASSUME NEW root \in Values
  PROVE  /\ Candidates(root) \in Seq(Found)
         /\ \A c \in ToSet(Candidates(root)) :
              LET node == AtPointer(root, c.pointer)
              IN  node \in Values /\ Countable(node, c.measure)
         /\ \A measure : Countable(root, measure) =>
              \E c \in ToSet(Candidates(root)) : c.pointer = <<>> /\ c.measure = measure
         /\ root.kind = "object" =>
              \A n \in DOMAIN root.fields : \A measure :
                Countable(root.fields[n], measure) =>
                  \E c \in ToSet(Candidates(root)) : c.pointer = <<n>> /\ c.measure = measure
<1> DEFINE reached == Reached(root)
           parts == [i \in DOMAIN reached |-> Proposed(reached[i])]
<1>1. Candidates(root) = FlattenSeq(parts)
  BY DEF Candidates
<1>2. \A i \in DOMAIN reached : parts[i] = Proposed(reached[i])
  OBVIOUS
<1>3. DOMAIN parts = DOMAIN reached
  OBVIOUS
<1>4. AllRight(root, reached)
  BY ReachedIsRight
<1> HIDE DEF reached
<1>5. /\ reached \in Seq(Places) /\ DOMAIN reached = 1 .. Len(reached) /\ Len(reached) \in Nat
      /\ \A i \in DOMAIN reached : Right(root, reached[i])
  BY <1>4 DEF AllRight, ToSet
<1>6. parts \in Seq(Seq(Found))
  <2>1. parts = [i \in 1 .. Len(reached) |-> parts[i]]
    BY <1>5
  <2>2. \A i \in 1 .. Len(reached) : parts[i] \in Seq(Found)
    <3> HIDE DEF parts
    <3> QED
      BY <1>2, <1>5, ProposedIsCountable
  <2> HIDE DEF parts
  <2> QED
    BY <1>5, <2>1, <2>2
<1> HIDE DEF parts
<1>7. /\ Candidates(root) \in Seq(Found)
      /\ \A c : c \in ToSet(Candidates(root)) <=> \E j \in DOMAIN parts : c \in ToSet(parts[j])
  BY <1>1, <1>6, Flattened
<1>8. ASSUME NEW c \in ToSet(Candidates(root))
      PROVE  LET node == AtPointer(root, c.pointer)
             IN  node \in Values /\ Countable(node, c.measure)
  <2>1. PICK j \in DOMAIN parts : c \in ToSet(parts[j])
    BY <1>7
  <2>2. Right(root, reached[j]) /\ c \in ToSet(Proposed(reached[j]))
    BY <1>2, <1>3, <1>5, <2>1
  <2>3. c.pointer = reached[j].pointer /\ Countable(reached[j].node, c.measure)
    BY <2>2, ProposedIsCountable
  <2> QED
    BY <2>2, <2>3 DEF Right, Places
<1>9. ASSUME NEW p \in ToSet(reached), NEW measure, Countable(p.node, measure)
      PROVE  \E c \in ToSet(Candidates(root)) : c.pointer = p.pointer /\ c.measure = measure
  <2>1. PICK i \in DOMAIN reached : reached[i] = p
    BY DEF ToSet
  <2>2. PICK c \in ToSet(Proposed(p)) : c.pointer = p.pointer /\ c.measure = measure
    BY <1>5, <1>9, <2>1, ProposedIsCountable
  <2>3. c \in ToSet(Candidates(root))
    BY <1>2, <1>3, <1>7, <2>1
  <2> QED
    BY <2>2, <2>3
<1>10. ASSUME NEW measure, Countable(root, measure)
       PROVE  \E c \in ToSet(Candidates(root)) : c.pointer = <<>> /\ c.measure = measure
  <2> DEFINE p == Place(<<>>, root)
  <2>1. p.pointer = <<>> /\ p.node = root
    BY DEF Place
  <2>2. root.kind # "object"
    BY <1>10 DEF Countable
  <2>3. p \in ToSet(reached)
    BY <2>2, ReachedIsRight DEF reached
  <2> HIDE DEF p
  <2> QED
    BY <1>9, <1>10, <2>1, <2>3
<1>11. ASSUME root.kind = "object", NEW n \in DOMAIN root.fields, NEW measure,
              Countable(root.fields[n], measure)
       PROVE  \E c \in ToSet(Candidates(root)) : c.pointer = <<n>> /\ c.measure = measure
  <2> DEFINE p == Place(<<n>>, root.fields[n])
  <2>1. p.pointer = <<n>> /\ p.node = root.fields[n]
    BY DEF Place
  <2>2. root.fields[n].kind # "object"
    BY <1>11 DEF Countable
  <2>3. p \in ToSet(reached)
    BY <1>11, <2>2, ReachedIsRight DEF reached
  <2> HIDE DEF p
  <2> QED
    BY <1>9, <1>11, <2>1, <2>3
<1> QED
  BY <1>7, <1>8, <1>10, <1>11

\* The highest rank there is, and the first counter that has it, exist.
LEMMA BestIsFound ==
  ASSUME NEW found \in Seq(Found), found # <<>>
  PROVE  Best(found) \in ToSet(found)
<1> DEFINE first(i) == \A j \in DOMAIN found :
                          \/ found[j].rank < found[i].rank
                          \/ found[j].rank = found[i].rank /\ i <= j
<1>1. /\ Len(found) \in Nat \ {0} /\ DOMAIN found = 1 .. Len(found)
      /\ \A i \in DOMAIN found : found[i].rank \in 0 .. 4
  <2>1. Len(found) \in Nat \ {0} /\ DOMAIN found = 1 .. Len(found)
    OBVIOUS
  <2>2. \A i \in DOMAIN found : found[i] \in Found
    OBVIOUS
  <2>3. \A x \in Found : x.rank \in 0 .. 4
    BY DEF Found
  <2> QED
    BY <2>1, <2>2, <2>3
<1>2. \E i \in DOMAIN found : first(i)
  <2> DEFINE best(k) == \E i \in 1 .. k : \A j \in 1 .. k :
                          \/ found[j].rank < found[i].rank
                          \/ found[j].rank = found[i].rank /\ i <= j
             T == {k \in Nat : k \in 1 .. Len(found) => best(k)}
  <2>1. 0 \in T
    OBVIOUS
  <2>2. ASSUME NEW k \in Nat, k \in T
        PROVE  k + 1 \in T
    <3> SUFFICES ASSUME k + 1 \in 1 .. Len(found) PROVE best(k + 1)
      OBVIOUS
    <3>1. CASE k = 0
      <4>1. 1 \in 1 .. k + 1 /\ \A j \in 1 .. k + 1 : j = 1
        BY <3>1
      <4>2. \A j \in 1 .. k + 1 : found[j].rank = found[1].rank /\ 1 <= j
        BY <4>1
      <4> HIDE DEF T
      <4> QED
        BY <4>1, <4>2
    <3>2. CASE k # 0
      <4>1. k \in 1 .. Len(found)
        BY <1>1, <3>2
      <4>2. PICK i \in 1 .. k : \A j \in 1 .. k :
                          \/ found[j].rank < found[i].rank
                          \/ found[j].rank = found[i].rank /\ i <= j
        BY <2>2, <4>1
      <4>3. \A j \in 1 .. k + 1 : j \in 1 .. k \/ j = k + 1
        OBVIOUS
      <4>4. \A j \in 1 .. k + 1 : found[j].rank \in Int
        BY <1>1
      <4>5. i \in 1 .. k + 1 /\ k + 1 \in 1 .. k + 1 /\ i <= k + 1
        OBVIOUS
      <4> HIDE DEF T
      <4>6. CASE found[k + 1].rank <= found[i].rank
        <5>1. \A j \in 1 .. k + 1 : \/ found[j].rank < found[i].rank
                                    \/ found[j].rank = found[i].rank /\ i <= j
          BY <4>2, <4>3, <4>4, <4>5, <4>6
        <5> QED
          BY <4>5, <5>1
      <4>7. CASE found[i].rank < found[k + 1].rank
        <5>1. \A j \in 1 .. k + 1 : \/ found[j].rank < found[k + 1].rank
                                    \/ found[j].rank = found[k + 1].rank /\ k + 1 <= j
          BY <4>2, <4>3, <4>4, <4>5, <4>7
        <5> QED
          BY <4>5, <5>1
      <4>8. found[i].rank \in Int /\ found[k + 1].rank \in Int
        BY <4>4, <4>5
      <4> HIDE DEF best
      <4> QED
        BY <4>6, <4>7, <4>8
    <3> QED
      BY <3>1, <3>2
  <2>3. Nat \subseteq T
    <3> HIDE DEF T
    <3> QED
      BY <2>1, <2>2, SetInduction
  <2>4. best(Len(found))
    <3> HIDE DEF best
    <3> QED
      BY <1>1, <2>3
  <2> QED
    BY <1>1, <2>4
<1>3. Best(found) = found[CHOOSE i \in DOMAIN found : first(i)]
  BY DEF Best
<1> HIDE DEF first
<1> QED
  BY <1>2, <1>3 DEF ToSet

-----------------------------------------------------------------------------
(* Schemas. *)

\* A document names schemas.
NamesSchemas(d) == \A name \in DOMAIN d.schemas : d.schemas[name] \in Schemas

\* References stay in a set that is closed under one of them.
LEMMA ResolvedStays ==
  ASSUME NEW d, NEW V, \A n \in V : Hop(d, n) \in V, NEW node \in V
  PROVE  Resolve(d, node) \in V
<1> DEFINE is(f) == f = [i \in 0 .. MaxHops |-> IF i = 0 THEN node ELSE Hop(d, f[i - 1])]
           at == CHOOSE f : is(f)
<1>1. Resolve(d, node) = at[MaxHops]
  BY DEF Resolve
<1>2. PICK f : f \in [0 .. MaxHops -> V] /\ is(f)
  <2> DEFINE G == [i \in Nat |-> [n \in V |-> Hop(d, n)]]
             m == 0
  <2>1. G \in [Nat -> [V -> V]] /\ m \in Nat /\ MaxHops \in Nat /\ m + MaxHops = MaxHops
    BY DEF MaxHops
  <2> HIDE DEF G, m
  <2>2. PICK f : Follows(f, V, node, G, m, m + MaxHops)
    BY <2>1, StepsExist
  <2>3. /\ f \in [0 .. MaxHops -> V] /\ f[0] = node
        /\ \A i \in 0 + 1 .. MaxHops : f[i] = G[i][f[i - 1]]
    BY <2>1, <2>2 DEF Follows, m
  <2>4. ASSUME NEW i \in 0 .. MaxHops
        PROVE  f[i] = IF i = 0 THEN node ELSE Hop(d, f[i - 1])
    <3>1. CASE i = 0
      BY <2>3, <3>1
    <3>2. CASE i # 0
      <4>1. i \in 0 + 1 .. MaxHops /\ i - 1 \in 0 .. MaxHops /\ i \in Nat
        BY <2>1, <3>2
      <4>2. f[i] = G[i][f[i - 1]] /\ f[i - 1] \in V
        BY <2>3, <4>1
      <4> QED
        BY <3>2, <4>1, <4>2 DEF G
    <3> QED
      BY <3>1, <3>2
  <2>5. is(f)
    BY <2>3, <2>4
  <2> HIDE DEF is
  <2> QED
    BY <2>3, <2>5
<1>3. is(at)
  <2> HIDE DEF is
  <2> QED
    BY <1>2
<1> HIDE DEF at
<1> DEFINE T == {i \in Nat : i \in 0 .. MaxHops => at[i] \in V}
<1>4. 0 \in T
  BY <1>3 DEF MaxHops
<1>5. ASSUME NEW i \in Nat, i \in T
      PROVE  i + 1 \in T
  <2> SUFFICES ASSUME i + 1 \in 0 .. MaxHops PROVE at[i + 1] \in V
    OBVIOUS
  <2>1. i \in 0 .. MaxHops /\ (i + 1) - 1 = i /\ i + 1 # 0
    BY DEF MaxHops
  <2>2. at[i + 1] = Hop(d, at[i])
    BY <1>3, <2>1
  <2> QED
    BY <1>5, <2>1, <2>2
<1>6. MaxHops \in T
  <2> HIDE DEF T
  <2>1. MaxHops \in Nat /\ Nat \subseteq T
    BY <1>4, <1>5, SetInduction DEF MaxHops
  <2> QED
    BY <2>1
<1>7. MaxHops \in 0 .. MaxHops
  BY DEF MaxHops
<1> QED
  BY <1>1, <1>6, <1>7

\* References lead to schemas of the document, or to nothing.
LEMMA ResolvedIsSchema ==
  ASSUME NEW d, NamesSchemas(d), NEW n \in Schemas \cup {Nil}
  PROVE  /\ Resolve(d, n) \in Schemas \cup {Nil}
         /\ Resolve(d, Nil) = Nil
<1>1. \A s \in Schemas \cup {Nil} : Hop(d, s) \in Schemas \cup {Nil}
  BY DEF Hop, NamesSchemas
<1>2. \A s \in {Nil} : Hop(d, s) \in {Nil}
  BY DEF Hop
<1>3. Resolve(d, n) \in Schemas \cup {Nil}
  <2> DEFINE V == Schemas \cup {Nil}
  <2> HIDE DEF V
  <2>1. \A s \in V : Hop(d, s) \in V
    BY <1>1 DEF V
  <2>2. n \in V
    BY DEF V
  <2>3. Resolve(d, n) \in V
    BY <2>1, <2>2, ResolvedStays
  <2> QED
    BY <2>3 DEF V
<1>4. Resolve(d, Nil) \in {Nil}
  <2> DEFINE V == {Nil}
             n0 == Nil
  <2> HIDE DEF V, n0
  <2>1. \A s \in V : Hop(d, s) \in V
    BY <1>2 DEF V
  <2>2. n0 \in V
    BY DEF V, n0
  <2>3. Resolve(d, n0) \in V
    BY <2>1, <2>2, ResolvedStays
  <2> QED
    BY <2>3 DEF V, n0
<1> QED
  BY <1>3, <1>4

\* made holds what example builds for every schema, level by level.
Makes(made, d) ==
  /\ \A n \in Schemas \cup {Nil} : made[0][n] = Null
  /\ \A left \in 1 .. MaxLevels : \A n \in Schemas \cup {Nil} :
       made[left][n] = Built(d, Resolve(d, n), made[left - 1])
  /\ \A n \in Schemas \cup {Nil} : Body(d, n) = made[MaxLevels][n]

LEMMA BodyUnfolds == \A d : \E made : Makes(made, d)
<1> SUFFICES ASSUME NEW d PROVE \E made : Makes(made, d)
  OBVIOUS
<1> DEFINE S == Schemas \cup {Nil}
           base == [n \in S |-> Null]
           next(of) == [n \in S |-> Built(d, Resolve(d, n), of)]
           step(g, i) == IF i = 0 THEN base ELSE next(g[i - 1])
           part(g, n) == g = [i \in 0 .. n |-> step(g, i)]
           made == CHOOSE g : part(g, MaxLevels)
           E == {n \in Nat : \E g : part(g, n)}
<1>1. \A n : Body(d, n) = made[MaxLevels][n]
  BY DEF Body
<1> HIDE DEF base, next
<1>2. 0 \in E
  <2> DEFINE g == [i \in 0 .. 0 |-> base]
  <2>1. part(g, 0)
    OBVIOUS
  <2> HIDE DEF part
  <2> QED
    BY <2>1
<1>3. ASSUME NEW n \in Nat, n \in E
      PROVE  n + 1 \in E
  <2>1. PICK g : part(g, n)
    BY <1>3
  <2> DEFINE h == [i \in 0 .. n + 1 |-> step(g, i)]
  <2>2. \A i \in 0 .. n : h[i] = g[i]
    <3>1. \A i \in 0 .. n : g[i] = step(g, i)
      BY <2>1
    <3> QED
      BY <3>1
  <2>3. \A i \in 0 .. n + 1 : step(h, i) = step(g, i)
    <3> HIDE DEF h
    <3>1. \A i \in 0 .. n + 1 : i = 0 \/ i - 1 \in 0 .. n
      OBVIOUS
    <3> QED
      BY <2>2, <3>1
  <2>4. part(h, n + 1)
    BY <2>3
  <2>5. \E x : part(x, n + 1)
    <3> HIDE DEF part
    <3> QED
      BY <2>4
  <2> QED
    BY <2>5
<1>4. MaxLevels \in E
  <2> HIDE DEF E
  <2>1. MaxLevels \in Nat /\ Nat \subseteq E
    BY <1>2, <1>3, SetInduction DEF MaxLevels
  <2> QED
    BY <2>1
<1>5. part(made, MaxLevels)
  <2> HIDE DEF part
  <2> QED
    BY <1>4
<1> HIDE DEF made
<1>6. \A i \in 0 .. MaxLevels : made[i] = step(made, i)
  BY <1>5
<1>7. made[0] = base
  BY <1>6 DEF MaxLevels
<1>8. \A i \in 1 .. MaxLevels : made[i] = next(made[i - 1])
  BY <1>6 DEF MaxLevels
<1>9. Makes(made, d)
  BY <1>1, <1>7, <1>8 DEF Makes, base, next
<1> QED
  BY <1>9

\* claims holds what the parts of a value have to satisfy, level by level.
Unfolds(claims, d, schema, value) ==
  /\ claims[0] = {Claim(schema, value)}
  /\ \A level \in 1 .. MaxLevels :
       claims[level] = UNION {Claims(d, Resolve(d, c.schema), c.value) : c \in claims[level - 1]}
  /\ Satisfies(d, schema, value) =
       \A level \in 0 .. MaxLevels :
         \A c \in claims[level] : Meets(d, Resolve(d, c.schema), c.value)

LEMMA ClaimsUnfold ==
  \A d, schema, value : \E claims : Unfolds(claims, d, schema, value)
<1> SUFFICES ASSUME NEW d, NEW schema, NEW value
             PROVE  \E claims : Unfolds(claims, d, schema, value)
  OBVIOUS
<1> DEFINE base == {Claim(schema, value)}
           next(cs) == UNION {Claims(d, Resolve(d, c.schema), c.value) : c \in cs}
           step(g, i) == IF i = 0 THEN base ELSE next(g[i - 1])
           part(g, n) == g = [i \in 0 .. n |-> step(g, i)]
           claims == CHOOSE g : part(g, MaxLevels)
           E == {n \in Nat : \E g : part(g, n)}
<1>1. Satisfies(d, schema, value) =
        \A level \in 0 .. MaxLevels :
          \A c \in claims[level] : Meets(d, Resolve(d, c.schema), c.value)
  BY DEF Satisfies
<1> HIDE DEF base, next
<1>2. 0 \in E
  <2> DEFINE g == [i \in 0 .. 0 |-> base]
  <2>1. part(g, 0)
    OBVIOUS
  <2> HIDE DEF part
  <2> QED
    BY <2>1
<1>3. ASSUME NEW n \in Nat, n \in E
      PROVE  n + 1 \in E
  <2>1. PICK g : part(g, n)
    BY <1>3
  <2> DEFINE h == [i \in 0 .. n + 1 |-> step(g, i)]
  <2>2. \A i \in 0 .. n : h[i] = g[i]
    <3>1. \A i \in 0 .. n : g[i] = step(g, i)
      BY <2>1
    <3> QED
      BY <3>1
  <2>3. \A i \in 0 .. n + 1 : step(h, i) = step(g, i)
    <3> HIDE DEF h
    <3>1. \A i \in 0 .. n + 1 : i = 0 \/ i - 1 \in 0 .. n
      OBVIOUS
    <3> QED
      BY <2>2, <3>1
  <2>4. part(h, n + 1)
    BY <2>3
  <2>5. \E x : part(x, n + 1)
    <3> HIDE DEF part
    <3> QED
      BY <2>4
  <2> QED
    BY <2>5
<1>4. MaxLevels \in E
  <2> HIDE DEF E
  <2>1. MaxLevels \in Nat /\ Nat \subseteq E
    BY <1>2, <1>3, SetInduction DEF MaxLevels
  <2> QED
    BY <2>1
<1>5. part(claims, MaxLevels)
  <2> HIDE DEF part
  <2> QED
    BY <1>4
<1> HIDE DEF claims
<1>6. \A i \in 0 .. MaxLevels : claims[i] = step(claims, i)
  BY <1>5
<1>7. claims[0] = base
  BY <1>6 DEF MaxLevels
<1>8. \A i \in 1 .. MaxLevels : claims[i] = next(claims[i - 1])
  BY <1>6 DEF MaxLevels
<1>9. Unfolds(claims, d, schema, value)
  BY <1>1, <1>7, <1>8 DEF Unfolds, base, next
<1> QED
  BY <1>9

\* used holds the schemas example opens, level by level.
Opens(used, d, schema) ==
  /\ used[0] = {schema}
  /\ \A level \in 1 .. MaxLevels :
       used[level] = UNION {Used(d, Resolve(d, n)) : n \in used[level - 1]}
  /\ \A level \in 0 .. MaxLevels : \A n \in used[level] : Sound(d, Resolve(d, n))
  /\ \A n \in used[MaxLevels] : Resolve(d, n) = Nil

LEMMA PlainUnfolds ==
  ASSUME NEW d, NEW schema, Plain(d, schema)
  PROVE  \E used : Opens(used, d, schema)
<1> DEFINE base == {schema}
           next(ns) == UNION {Used(d, Resolve(d, n)) : n \in ns}
           step(g, i) == IF i = 0 THEN base ELSE next(g[i - 1])
           part(g, n) == g = [i \in 0 .. n |-> step(g, i)]
           used == CHOOSE g : part(g, MaxLevels)
           E == {n \in Nat : \E g : part(g, n)}
<1>1. /\ \A level \in 0 .. MaxLevels : \A n \in used[level] : Sound(d, Resolve(d, n))
      /\ \A n \in used[MaxLevels] : Resolve(d, n) = Nil
  BY DEF Plain
<1> HIDE DEF base, next
<1>2. 0 \in E
  <2> DEFINE g == [i \in 0 .. 0 |-> base]
  <2>1. part(g, 0)
    OBVIOUS
  <2> HIDE DEF part
  <2> QED
    BY <2>1
<1>3. ASSUME NEW n \in Nat, n \in E
      PROVE  n + 1 \in E
  <2>1. PICK g : part(g, n)
    BY <1>3
  <2> DEFINE h == [i \in 0 .. n + 1 |-> step(g, i)]
  <2>2. \A i \in 0 .. n : h[i] = g[i]
    <3>1. \A i \in 0 .. n : g[i] = step(g, i)
      BY <2>1
    <3> QED
      BY <3>1
  <2>3. \A i \in 0 .. n + 1 : step(h, i) = step(g, i)
    <3> HIDE DEF h
    <3>1. \A i \in 0 .. n + 1 : i = 0 \/ i - 1 \in 0 .. n
      OBVIOUS
    <3> QED
      BY <2>2, <3>1
  <2>4. part(h, n + 1)
    BY <2>3
  <2>5. \E x : part(x, n + 1)
    <3> HIDE DEF part
    <3> QED
      BY <2>4
  <2> QED
    BY <2>5
<1>4. MaxLevels \in E
  <2> HIDE DEF E
  <2>1. MaxLevels \in Nat /\ Nat \subseteq E
    BY <1>2, <1>3, SetInduction DEF MaxLevels
  <2> QED
    BY <2>1
<1>5. part(used, MaxLevels)
  <2> HIDE DEF part
  <2> QED
    BY <1>4
<1> HIDE DEF used
<1>6. \A i \in 0 .. MaxLevels : used[i] = step(used, i)
  BY <1>5
<1>7. used[0] = base
  BY <1>6 DEF MaxLevels
<1>8. \A i \in 1 .. MaxLevels : used[i] = next(used[i - 1])
  BY <1>6 DEF MaxLevels
<1>9. Opens(used, d, schema)
  BY <1>1, <1>7, <1>8 DEF Opens, base, next
<1> QED
  BY <1>9

\* The value v of schema s was built for it, as e, or has at most more fields
\* that an object of its own does not mention.
Carries(s, v, e) ==
  \/ v = e
  \/ /\ Simple(s)
     /\ v.kind = "object" /\ e.kind = "object"
     /\ \A name \in DOMAIN e.fields : name \in DOMAIN v.fields /\ v.fields[name] = e.fields[name]
     /\ \A name \in DOMAIN v.fields : name \in DOMAIN e.fields \/ name \notin Mentioned(s)

\* A claim on a value that was built for its schema.
Owed(d, used, of, c) ==
  \/ c.schema = Nil
  \/ /\ c.schema \in used /\ c.schema \in Schemas
     /\ Carries(Resolve(d, c.schema), c.value, of[c.schema])

\* An object is built field by field (openapi.go:289-313).
LEMMA ObjectIsBuilt ==
  ASSUME NEW d, NEW s, NEW of, Simple(s)
  PROVE  Built(d, s, of) = Object([name \in Sent(d, s) |-> of[Prop(s, name)]])
BY DEF Simple, Built, Declared

\* What is sent is required or a property; what is required is sent unless the
\* service fills it in.
LEMMA SentAreMentioned ==
  ASSUME NEW d, NEW s
  PROVE  /\ Sent(d, s) \subseteq Mentioned(s)
         /\ \A name \in s.required : name \in Sent(d, s) \/ ReadOnly(d, s, name)
BY DEF Sent, Mentioned

\* A property is a schema inside, and one that is not mentioned has none.
LEMMA PropIsSchema ==
  ASSUME NEW s \in Schemas, NEW name
  PROVE  /\ Prop(s, name) \in Schemas \cup {Nil}
         /\ name \notin Mentioned(s) => Prop(s, name) = Nil
BY SchemasAssumption DEF Prop, Mentioned

\* An object that was built for a schema satisfies it if its fields do, and so
\* does one with more fields.
LEMMA ObjectsHold ==
  ASSUME NEW d, NEW s \in Schemas, NEW of, NEW v, Simple(s), Carries(s, v, Built(d, s, of))
  PROVE  /\ Meets(d, s, v)
         /\ \A c \in Claims(d, s, v) : Owed(d, Used(d, s), of, c)
<1> DEFINE e == Built(d, s, of)
<1>1. e = Object([name \in Sent(d, s) |-> of[Prop(s, name)]])
  BY ObjectIsBuilt
<1>2. /\ e.kind = "object" /\ DOMAIN e.fields = Sent(d, s)
      /\ \A name \in Sent(d, s) : e.fields[name] = of[Prop(s, name)]
  BY <1>1 DEF Object
<1>3. s # Nil /\ ~Declared(s) /\ s.allOf = Nil /\ s.anyOf = <<>> /\ SchemaType(s) = "object"
  BY DEF Simple
<1> HIDE DEF e
<1>4. /\ v.kind = "object"
      /\ \A name \in Sent(d, s) : name \in DOMAIN v.fields /\ v.fields[name] = of[Prop(s, name)]
      /\ \A name \in DOMAIN v.fields : name \in Sent(d, s) \/ name \notin Mentioned(s)
  BY <1>2 DEF Carries, e
<1>5. Meets(d, s, v)
  BY <1>3, <1>4, SentAreMentioned DEF Meets
<1>6. Used(d, s) = {Prop(s, name) : name \in Sent(d, s)}
  BY <1>3 DEF Used
<1>7. Claims(d, s, v) = {Claim(Prop(s, name), v.fields[name]) : name \in DOMAIN v.fields}
  BY <1>3, <1>4 DEF Claims
<1>8. ASSUME NEW name \in DOMAIN v.fields
      PROVE  Owed(d, Used(d, s), of, Claim(Prop(s, name), v.fields[name]))
  <2> DEFINE c == Claim(Prop(s, name), v.fields[name])
  <2>1. c.schema = Prop(s, name) /\ c.value = v.fields[name]
    BY DEF Claim
  <2> HIDE DEF c
  <2>2. CASE Prop(s, name) = Nil
    BY <2>1, <2>2 DEF Owed, c
  <2>3. CASE Prop(s, name) # Nil
    <3>1. Prop(s, name) \in Schemas /\ name \in Sent(d, s)
      BY <1>4, <2>3, PropIsSchema
    <3>2. Prop(s, name) \in Used(d, s) /\ c.value = of[c.schema]
      BY <1>4, <1>6, <2>1, <3>1
    <3>3. Owed(d, Used(d, s), of, c)
      BY <2>1, <3>1, <3>2 DEF Owed, Carries
    <3> QED
      BY <3>3 DEF c
  <2> QED
    BY <2>2, <2>3
<1> QED
  BY <1>5, <1>7, <1>8

\* A merge of objects without a common field has every field of each of them.
LEMMA Merged ==
  ASSUME NEW parts,
         \A i \in DOMAIN parts : parts[i].kind = "object",
         \A i, j \in DOMAIN parts : \A name :
           name \in DOMAIN parts[i].fields /\ name \in DOMAIN parts[j].fields => i = j,
         DOMAIN parts \subseteq Int
  PROVE  /\ Merge(parts).kind = "object"
         /\ \A i \in DOMAIN parts : \A name \in DOMAIN parts[i].fields :
              /\ name \in DOMAIN Merge(parts).fields
              /\ Merge(parts).fields[name] = parts[i].fields[name]
         /\ \A name \in DOMAIN Merge(parts).fields :
              \E i \in DOMAIN parts : name \in DOMAIN parts[i].fields
<1> DEFINE fieldsOf(i) == IF parts[i].kind = "object" THEN DOMAIN parts[i].fields ELSE {}
           last(name) == CHOOSE i \in DOMAIN parts :
                           /\ name \in fieldsOf(i)
                           /\ \A j \in DOMAIN parts : name \in fieldsOf(j) => j <= i
           names == UNION {fieldsOf(i) : i \in DOMAIN parts}
           fields == [name \in names |-> parts[last(name)].fields[name]]
<1>1. Merge(parts) = Object(fields)
  BY DEF Merge
<1>2. \A i \in DOMAIN parts : fieldsOf(i) = DOMAIN parts[i].fields
  OBVIOUS
<1> HIDE DEF fieldsOf
<1>3. ASSUME NEW i \in DOMAIN parts, NEW name \in fieldsOf(i)
      PROVE  last(name) = i
  <2>1. \A j \in DOMAIN parts : name \in fieldsOf(j) => j = i
    BY <1>2, <1>3
  <2>2. i <= i
    OBVIOUS
  <2> QED
    BY <1>3, <2>1, <2>2
<1> HIDE DEF last
<1>4. \A i \in DOMAIN parts : \A name \in fieldsOf(i) :
        name \in DOMAIN fields /\ fields[name] = parts[i].fields[name]
  BY <1>3
<1>5. \A name \in DOMAIN fields : \E i \in DOMAIN parts : name \in fieldsOf(i)
  OBVIOUS
<1> HIDE DEF fields
<1> QED
  BY <1>1, <1>2, <1>4, <1>5 DEF Object

LEMMA ElementIn ==
  ASSUME NEW S, NEW seq \in Seq(S), NEW i \in DOMAIN seq
  PROVE  seq[i] \in ToSet(seq) /\ seq[i] \in S
BY DEF ToSet

\* The merged value carries what was built for each part.
LEMMA PartsHold ==
  ASSUME NEW d, NamesSchemas(d), NEW s \in Schemas, NEW of, NEW inner,
         ~Declared(s), s.allOf # Nil, Sound(d, s),
         \A q \in ToSet(s.allOf) : of[q] = Built(d, Resolve(d, q), inner)
  PROVE  /\ Built(d, s, of).kind = "object"
         /\ \A i \in DOMAIN s.allOf :
              LET q == s.allOf[i] IN
              Carries(Resolve(d, q), Built(d, s, of), of[q])
<1> DEFINE parts == [i \in DOMAIN s.allOf |-> of[s.allOf[i]]]
           part(i) == Resolve(d, s.allOf[i])
<1>1. s # Nil /\ s.allOf \in Seq(Schemas)
  BY SchemasAssumption
<1>2. Built(d, s, of) = Merge(parts)
  BY <1>1 DEF Built, Declared
<1>3. \A i \in DOMAIN s.allOf :
        /\ Simple(part(i))
        /\ \A j \in DOMAIN s.allOf : i # j => Mentioned(part(i)) \cap Mentioned(part(j)) = {}
  BY <1>1 DEF Sound
<1>4. DOMAIN parts = DOMAIN s.allOf /\ DOMAIN parts \subseteq Int
  <2>1. DOMAIN s.allOf = 1 .. Len(s.allOf) /\ Len(s.allOf) \in Nat
    BY <1>1
  <2> QED
    BY <2>1
<1>5. ASSUME NEW i \in DOMAIN parts
      PROVE  /\ parts[i] = of[s.allOf[i]]
             /\ parts[i].kind = "object" /\ DOMAIN parts[i].fields = Sent(d, part(i))
  <2>1. parts[i] = of[s.allOf[i]] /\ s.allOf[i] \in ToSet(s.allOf)
    BY DEF ToSet
  <2>2. parts[i] = Built(d, part(i), inner)
    BY <2>1
  <2>3. parts[i] = Object([name \in Sent(d, part(i)) |-> inner[Prop(part(i), name)]])
    BY <1>3, <1>4, <2>2, ObjectIsBuilt
  <2> QED
    BY <2>1, <2>3 DEF Object
<1> HIDE DEF parts
<1>6. \A i, j \in DOMAIN parts : \A name :
        name \in DOMAIN parts[i].fields /\ name \in DOMAIN parts[j].fields => i = j
  <2> SUFFICES ASSUME NEW i \in DOMAIN parts, NEW j \in DOMAIN parts, NEW name,
                      name \in DOMAIN parts[i].fields, name \in DOMAIN parts[j].fields, i # j
               PROVE  FALSE
    OBVIOUS
  <2>1. name \in Sent(d, part(i)) /\ name \in Sent(d, part(j))
    BY <1>5
  <2>2. name \in Mentioned(part(i)) /\ name \in Mentioned(part(j))
    BY <2>1, SentAreMentioned
  <2> QED
    BY <1>3, <1>4, <2>2
<1>7. /\ Merge(parts).kind = "object"
      /\ \A i \in DOMAIN parts : \A name \in DOMAIN parts[i].fields :
           /\ name \in DOMAIN Merge(parts).fields
           /\ Merge(parts).fields[name] = parts[i].fields[name]
      /\ \A name \in DOMAIN Merge(parts).fields :
           \E i \in DOMAIN parts : name \in DOMAIN parts[i].fields
  BY <1>4, <1>5, <1>6, Merged
<1>8. ASSUME NEW i \in DOMAIN s.allOf
      PROVE  Carries(part(i), Merge(parts), of[s.allOf[i]])
  <2>1. ASSUME NEW name \in DOMAIN Merge(parts).fields, name \notin DOMAIN parts[i].fields
        PROVE  name \notin Mentioned(part(i))
    <3>1. PICK j \in DOMAIN parts : name \in DOMAIN parts[j].fields
      BY <1>7
    <3>2. name \in Mentioned(part(j)) /\ i # j
      BY <1>5, <2>1, <3>1, SentAreMentioned
    <3> QED
      BY <1>3, <1>4, <3>2
  <2>2. Carries(part(i), Merge(parts), parts[i])
    BY <1>3, <1>4, <1>5, <1>7, <2>1 DEF Carries
  <2> QED
    BY <1>4, <1>5, <2>2
<1> QED
  BY <1>2, <1>7, <1>8

\* What example builds for a text or a number is within its limits.
LEMMA TextFits ==
  ASSUME NEW s \in Schemas, s.maxLength # Nil => s.maxLength > 0 /\ s.minLength <= s.maxLength
  PROVE  /\ StringExample(s).kind = "string"
         /\ Within(StringExample(s).length, s.minLength, s.maxLength)
<1>1. s.minLength \in Int /\ s.maxLength \in Int \cup {Nil} /\ Nil \notin Int
  BY SchemasAssumption
<1> DEFINE t == Template(s.format)
<1>2. t.filled \in Int /\ t.plain \in Int
  BY DEF Template
<1> HIDE DEF t
<1> DEFINE cut == IF s.maxLength = Nil THEN FALSE ELSE s.maxLength > 0 /\ t.filled > s.maxLength
           length == IF cut THEN Smaller(t.plain, s.maxLength) ELSE t.filled
<1>3. StringExample(s) = Text(Larger(length, s.minLength), t.unique /\ ~cut)
  BY DEF StringExample, t
<1>4. length \in Int /\ (s.maxLength # Nil => length <= s.maxLength)
  BY <1>1, <1>2 DEF Smaller
<1> HIDE DEF length, cut
<1>5. Within(Larger(length, s.minLength), s.minLength, s.maxLength)
  BY <1>1, <1>4 DEF Within, Larger
<1> QED
  BY <1>3, <1>5 DEF Text

LEMMA NumberFits ==
  ASSUME NEW s \in Schemas,
         s.min # Nil /\ s.max # Nil => (IF s.exclusive THEN s.min + 1 ELSE s.min) <= s.max
  PROVE  /\ NumberExample(s).kind = "number"
         /\ Within(NumberExample(s).value, s.min, s.max)
         /\ s.exclusive => NumberExample(s).value # s.min
<1>1. s.min \in Int \cup {Nil} /\ s.max \in Int \cup {Nil} /\ Nil \notin Int
  BY SchemasAssumption
<1>2. CASE s.min # Nil
  <2> DEFINE v == IF s.exclusive THEN s.min + 1 ELSE s.min
  <2>1. NumberExample(s) = Number(v)
    BY <1>2 DEF NumberExample
  <2>2. Within(v, s.min, s.max) /\ (s.exclusive => v # s.min)
    BY <1>1, <1>2 DEF Within
  <2> QED
    BY <2>1, <2>2 DEF Number
<1>3. CASE s.min = Nil
  <2> DEFINE v == IF s.max = Nil THEN 1 ELSE Smaller(s.max, 1)
  <2>1. NumberExample(s) = Number(v)
    BY <1>3 DEF NumberExample
  <2>2. v \in Int /\ Within(v, s.min, s.max)
    BY <1>1, <1>3 DEF Within, Smaller
  <2> HIDE DEF v
  <2> QED
    BY <1>1, <1>3, <2>1, <2>2 DEF Number
<1> QED
  BY <1>2, <1>3

\* What example builds for a sound schema meets its keywords, and leaves of
\* the schemas inside it claims on what was built for them.
LEMMA BuiltHolds ==
  ASSUME NEW d, NamesSchemas(d), NEW s \in Schemas, NEW of, NEW inner, Sound(d, s),
         s.allOf # Nil => \A q \in Used(d, s) : of[q] = Built(d, Resolve(d, q), inner)
  PROVE  /\ Meets(d, s, Built(d, s, of))
         /\ \A c \in Claims(d, s, Built(d, s, of)) : Owed(d, Used(d, s), of, c)
<1> DEFINE v == Built(d, s, of)
           good == /\ Meets(d, s, v)
                   /\ \A c \in Claims(d, s, v) : Owed(d, Used(d, s), of, c)
<1>1. s # Nil
  BY SchemasAssumption
<1>2. CASE Declared(s)
  <2>1. Claims(d, s, v) = {}
    BY <1>1, <1>2 DEF Claims
  <2>2. s.example = Nil => v \in ToSet(s.enum)
    <3> SUFFICES ASSUME s.example = Nil PROVE v \in ToSet(s.enum)
      OBVIOUS
    <3>1. s.enum # <<>> /\ s.enum \in Seq(ToSet(s.enum))
      BY <1>2, SchemasAssumption DEF Declared
    <3>2. Head(s.enum) \in ToSet(s.enum)
      BY <3>1, HeadTailProperties
    <3> QED
      BY <1>1, <3>1, <3>2 DEF Built
  <2>3. Meets(d, s, v)
    BY <1>1, <1>2, <2>2 DEF Meets
  <2> QED
    BY <2>1, <2>3
<1>3. CASE ~Declared(s) /\ s.allOf # Nil
  <2>1. /\ s.anyOf = <<>> /\ s.type \in {"", "object"} /\ s.props = Nil /\ s.required = {}
        /\ s.allOf \in Seq(Schemas)
    BY <1>1, <1>3, SchemasAssumption DEF Sound
  <2>2. Used(d, s) = ToSet(s.allOf)
    BY <1>1, <1>3 DEF Used
  <2>3. /\ v.kind = "object"
        /\ \A i \in DOMAIN s.allOf : Carries(Resolve(d, s.allOf[i]), v, of[s.allOf[i]])
    BY <1>3, <2>2, PartsHold
  <2> HIDE DEF v
  <2>4. SchemaType(s) \in {"", "object"} /\ \A name : Prop(s, name) = Nil
    BY <2>1 DEF SchemaType, Prop
  <2>5. Meets(d, s, v)
    BY <1>3, <2>1, <2>3, <2>4 DEF Meets
  <2>6. ASSUME NEW c \in Claims(d, s, v)
        PROVE  c.schema = Nil \/ \E i \in DOMAIN s.allOf : c = Claim(s.allOf[i], v)
    <3>1. SchemaType(s) # "array"
      BY <2>4
    <3>2. Claims(d, s, v) \subseteq
            {Claim(s.allOf[i], v) : i \in DOMAIN s.allOf}
            \cup {Claim(Prop(s, name), v.fields[name]) : name \in DOMAIN v.fields}
      BY <1>1, <1>3, <2>1, <3>1 DEF Claims
    <3>3. \/ \E i \in DOMAIN s.allOf : c = Claim(s.allOf[i], v)
          \/ \E name \in DOMAIN v.fields : c = Claim(Prop(s, name), v.fields[name])
      BY <2>6, <3>2
    <3> QED
      <4>1. CASE \E i \in DOMAIN s.allOf : c = Claim(s.allOf[i], v)
        BY <4>1
      <4>2. CASE \E name \in DOMAIN v.fields : c = Claim(Prop(s, name), v.fields[name])
        <5>1. PICK name \in DOMAIN v.fields : c = Claim(Prop(s, name), v.fields[name])
          BY <4>2
        <5>2. c.schema = Prop(s, name)
          BY <5>1 DEF Claim
        <5> QED
          BY <2>4, <5>2
      <4> QED
        BY <3>3, <4>1, <4>2
  <2>7. ASSUME NEW i \in DOMAIN s.allOf, NEW c, c = Claim(s.allOf[i], v)
        PROVE  Owed(d, Used(d, s), of, c)
    <3>1. s.allOf[i] \in ToSet(s.allOf) /\ s.allOf[i] \in Schemas
      BY <2>1, ElementIn
    <3>2. c.schema = s.allOf[i] /\ c.value = v
      BY <2>7 DEF Claim
    <3> QED
      BY <2>2, <2>3, <3>1, <3>2 DEF Owed
  <2>8. \A c \in Claims(d, s, v) : Owed(d, Used(d, s), of, c)
    <3>1. \A c : c.schema = Nil => Owed(d, Used(d, s), of, c)
      BY DEF Owed
    <3> QED
      BY <2>6, <2>7, <3>1
  <2>9. good
    BY <2>5, <2>8
  <2> QED
    BY <2>9 DEF v
<1>4. CASE ~Declared(s) /\ s.allOf = Nil /\ s.anyOf # <<>>
  <2>1. SchemaType(s) = "" /\ s.anyOf \in Seq(Schemas)
    BY <1>1, <1>4, SchemasAssumption DEF Sound
  <2>2. Used(d, s) = {Head(s.anyOf)} /\ v = of[Head(s.anyOf)] /\ Head(s.anyOf) \in Schemas
    <3>1. Head(s.anyOf) \in Schemas
      BY <1>4, <2>1, HeadTailProperties
    <3> QED
      BY <1>1, <1>4, <3>1 DEF Used, Built, Declared
  <2> HIDE DEF v
  <2>3. Claims(d, s, v) = {Claim(Head(s.anyOf), v)}
    BY <1>1, <1>4, <2>1 DEF Claims
  <2>4. Meets(d, s, v)
    BY <1>4, <2>1 DEF Meets
  <2>5. Owed(d, Used(d, s), of, Claim(Head(s.anyOf), v))
    BY <2>2 DEF Owed, Carries, Claim
  <2>6. good
    BY <2>3, <2>4, <2>5
  <2> QED
    BY <2>6 DEF v
<1>5. CASE ~Declared(s) /\ s.allOf = Nil /\ s.anyOf = <<>>
  <2>1. CASE SchemaType(s) = "object"
    <3>1. Simple(s) /\ Carries(s, v, Built(d, s, of))
      BY <1>1, <1>5, <2>1 DEF Simple, Carries
    <3> HIDE DEF v
    <3>2. good
      BY <3>1, ObjectsHold
    <3> QED
      BY <3>2 DEF v
  <2>2. CASE SchemaType(s) = "array"
    <3> DEFINE size == Larger(1, s.minItems)
    <3>1. v = Array([i \in 1 .. size |-> of[s.items]]) /\ Used(d, s) = {s.items}
      BY <1>1, <1>5, <2>2 DEF Built, Used, Declared
    <3>2. size \in Nat /\ size >= s.minItems /\ s.items \in Schemas \cup {Nil}
      BY SchemasAssumption DEF Larger
    <3> HIDE DEF size, v
    <3>3. /\ v.kind = "array" /\ DOMAIN v.items = 1 .. size /\ Len(v.items) = size
          /\ \A i \in 1 .. size : v.items[i] = of[s.items]
      BY <3>1, <3>2 DEF Array
    <3>4. Meets(d, s, v)
      BY <1>1, <1>5, <2>2, <3>2, <3>3 DEF Meets
    <3>5. \A c \in Claims(d, s, v) : c.schema = s.items /\ c.value = of[s.items]
      BY <1>1, <1>5, <2>2, <3>3 DEF Claims, Claim
    <3>6. \A c \in Claims(d, s, v) : Owed(d, Used(d, s), of, c)
      BY <3>1, <3>2, <3>5 DEF Owed, Carries
    <3>7. good
      BY <3>4, <3>6
    <3> QED
      BY <3>7 DEF v
  <2>3. CASE SchemaType(s) \notin {"object", "array"}
    <3>1. Claims(d, s, v) = {}
      BY <1>1, <1>5, <2>3 DEF Claims
    <3>2. CASE SchemaType(s) \in {"integer", "number"}
      <4>1. v = NumberExample(s)
        BY <1>1, <1>5, <3>2 DEF Built, Declared
      <4>2. /\ v.kind = "number" /\ Within(v.value, s.min, s.max)
            /\ s.exclusive => v.value # s.min
        BY <1>1, <1>5, <3>2, <4>1, NumberFits DEF Sound
      <4> HIDE DEF v
      <4>3. Meets(d, s, v)
        BY <1>1, <1>5, <3>2, <4>2 DEF Meets
      <4>4. good
        BY <3>1, <4>3 DEF v
      <4> QED
        BY <4>4 DEF v
    <3>3. CASE SchemaType(s) = "string"
      <4>1. v = StringExample(s)
        BY <1>1, <1>5, <3>3 DEF Built, Declared
      <4>2. v.kind = "string" /\ Within(v.length, s.minLength, s.maxLength)
        BY <1>1, <1>5, <3>3, <4>1, TextFits DEF Sound
      <4> HIDE DEF v
      <4>3. Meets(d, s, v)
        BY <1>1, <1>5, <3>3, <4>2 DEF Meets
      <4>4. good
        BY <3>1, <4>3 DEF v
      <4> QED
        BY <4>4 DEF v
    <3>4. CASE SchemaType(s) = "boolean"
      <4>1. v = Boolean
        BY <1>1, <1>5, <3>4 DEF Built, Declared
      <4>2. Meets(d, s, v)
        BY <1>1, <1>5, <3>4, <4>1 DEF Meets, Boolean
      <4> QED
        BY <3>1, <4>2
    <3>5. CASE SchemaType(s) \in {"", "null"}
      <4>1. v = Null
        BY <1>1, <1>5, <3>5 DEF Built, Declared
      <4>2. v.kind = "null"
        BY <4>1 DEF Null
      <4> HIDE DEF v
      <4>3. Meets(d, s, v)
        BY <1>1, <1>5, <3>5, <4>2 DEF Meets
      <4>4. good
        BY <3>1, <4>3 DEF v
      <4> QED
        BY <4>4 DEF v
    <3>6. SchemaType(s) \in {"", "null", "integer", "number", "boolean", "string"}
      BY <1>1, <1>5, <2>3 DEF Sound
    <3> QED
      BY <3>2, <3>3, <3>4, <3>5, <3>6
  <2> QED
    BY <2>1, <2>2, <2>3
<1> QED
  BY <1>2, <1>3, <1>4, <1>5

\* The claims of one level, all on what was built, hold and leave such claims.
LEMMA LevelHolds ==
  ASSUME NEW d, NamesSchemas(d), NEW made, Makes(made, d), NEW schema, NEW used,
         Opens(used, d, schema), NEW level \in 0 .. MaxLevels, NEW c,
         Owed(d, used[level], made[MaxLevels - level], c)
  PROVE  /\ Meets(d, Resolve(d, c.schema), c.value)
         /\ level < MaxLevels =>
              \A x \in Claims(d, Resolve(d, c.schema), c.value) :
                Owed(d, used[level + 1], made[MaxLevels - (level + 1)], x)
<1> DEFINE s == Resolve(d, c.schema)
           left == MaxLevels - (level + 1)
<1>1. CASE s = Nil
  BY <1>1 DEF Meets, Claims
<1>2. CASE s # Nil
  <2>1. /\ c.schema \in used[level] /\ c.schema \in Schemas
        /\ Carries(s, c.value, made[MaxLevels - level][c.schema])
    <3>1. c.schema # Nil
      BY <1>2, ResolvedIsSchema
    <3> QED
      BY <3>1 DEF Owed
  <2>2. s \in Schemas /\ Sound(d, s)
    BY <1>2, <2>1, ResolvedIsSchema DEF Opens
  <2>3. level < MaxLevels
    <3>1. level # MaxLevels
      BY <1>2, <2>1 DEF Opens
    <3> QED
      BY <3>1 DEF MaxLevels
  <2>4. /\ level + 1 \in 1 .. MaxLevels /\ left \in 0 .. MaxLevels - 1
        /\ MaxLevels - level = left + 1 /\ (level + 1) - 1 = level
    BY <2>3 DEF MaxLevels
  <2>5. Used(d, s) \subseteq used[level + 1]
    BY <2>1, <2>4 DEF Opens
  <2> DEFINE of == made[left]
             inner == made[left - 1]
  <2> HIDE DEF s, left
  <2>6. made[MaxLevels - level][c.schema] = Built(d, s, of)
    <3>1. left + 1 \in 1 .. MaxLevels /\ (left + 1) - 1 = left
      BY <2>4 DEF MaxLevels
    <3> QED
      BY <2>1, <2>4, <3>1 DEF Makes, s
  <2>7. ASSUME NEW q \in Schemas, q \in Used(d, s)
        PROVE  of[q] = Built(d, Resolve(d, q), inner)
    <3>1. CASE left = 0
      <4>1. level + 1 = MaxLevels
        BY <2>4, <3>1 DEF MaxLevels
      <4>2. Resolve(d, q) = Nil
        BY <2>5, <2>7, <4>1 DEF Opens
      <4>3. made[0][q] = Null
        BY DEF Makes
      <4> QED
        BY <3>1, <4>2, <4>3 DEF Built
    <3>2. CASE left # 0
      <4>1. left \in 1 .. MaxLevels
        BY <2>4, <3>2 DEF MaxLevels
      <4> QED
        BY <4>1 DEF Makes
    <3> QED
      BY <3>1, <3>2
  <2> HIDE DEF of, inner
  <2>8. s.allOf # Nil => \A q \in Used(d, s) : of[q] = Built(d, Resolve(d, q), inner)
    <3> SUFFICES ASSUME s.allOf # Nil, NEW q \in Used(d, s)
                 PROVE  of[q] = Built(d, Resolve(d, q), inner)
      OBVIOUS
    <3>1. s.allOf \in Seq(Schemas)
      BY <2>2, SchemasAssumption
    <3>2. ToSet(s.allOf) \subseteq Schemas
      BY <3>1, ElementIn DEF ToSet
    <3>3. q \in ToSet(s.allOf)
      BY <1>2 DEF Used, s
    <3> QED
      BY <2>7, <3>2, <3>3
  <2>9. /\ Meets(d, s, c.value)
        /\ \A x \in Claims(d, s, c.value) : Owed(d, Used(d, s), of, x)
    <3>1. Carries(s, c.value, Built(d, s, of))
      BY <2>1, <2>6
    <3>2. CASE c.value = Built(d, s, of)
      BY <2>2, <2>8, <3>2, BuiltHolds
    <3>3. CASE c.value # Built(d, s, of)
      <4>1. Simple(s)
        BY <3>1, <3>3 DEF Carries
      <4> QED
        BY <2>2, <3>1, <4>1, ObjectsHold
    <3> QED
      BY <3>2, <3>3
  <2>10. \A x : Owed(d, Used(d, s), of, x) => Owed(d, used[level + 1], of, x)
    BY <2>5 DEF Owed
  <2> QED
    BY <2>9, <2>10 DEF s, of, left
<1> QED
  BY <1>1, <1>2

\* A plain schema has a body that satisfies it.
LEMMA BodySatisfies ==
  ASSUME NEW d, NamesSchemas(d), NEW schema \in Schemas, Plain(d, schema)
  PROVE  Satisfies(d, schema, Body(d, schema))
<1>1. PICK made : Makes(made, d)
  BY BodyUnfolds
<1>2. PICK used : Opens(used, d, schema)
  BY PlainUnfolds
<1> DEFINE body == Body(d, schema)
<1> HIDE DEF body
<1>3. PICK claims : Unfolds(claims, d, schema, body)
  BY ClaimsUnfold
<1> DEFINE good(level) ==
             \A c \in claims[level] : Owed(d, used[level], made[MaxLevels - level], c)
           T == {level \in Nat : level \in 0 .. MaxLevels => good(level)}
<1>4. 0 \in T
  <2>1. claims[0] = {Claim(schema, body)} /\ used[0] = {schema}
    BY <1>2, <1>3 DEF Unfolds, Opens
  <2>2. body = made[MaxLevels][schema] /\ MaxLevels - 0 = MaxLevels
    BY <1>1 DEF Makes, body, MaxLevels
  <2>3. Claim(schema, body).schema = schema /\ Claim(schema, body).value = body
    BY DEF Claim
  <2>4. Owed(d, used[0], made[MaxLevels - 0], Claim(schema, body))
    BY <2>1, <2>2, <2>3 DEF Owed, Carries
  <2> QED
    BY <2>1, <2>4
<1>5. ASSUME NEW level \in Nat, level \in T
      PROVE  level + 1 \in T
  <2> SUFFICES ASSUME level + 1 \in 0 .. MaxLevels PROVE good(level + 1)
    OBVIOUS
  <2>1. /\ level \in 0 .. MaxLevels /\ level < MaxLevels
        /\ level + 1 \in 1 .. MaxLevels /\ (level + 1) - 1 = level
    BY DEF MaxLevels
  <2>2. good(level)
    BY <1>5, <2>1
  <2>3. claims[level + 1] =
          UNION {Claims(d, Resolve(d, c.schema), c.value) : c \in claims[level]}
    BY <1>3, <2>1 DEF Unfolds
  <2>4. ASSUME NEW c \in claims[level], NEW x \in Claims(d, Resolve(d, c.schema), c.value)
        PROVE  Owed(d, used[level + 1], made[MaxLevels - (level + 1)], x)
    <3>1. Owed(d, used[level], made[MaxLevels - level], c)
      BY <2>2
    <3> QED
      BY <1>1, <1>2, <2>1, <2>4, <3>1, LevelHolds
  <2> QED
    BY <2>3, <2>4
<1>6. \A level \in 0 .. MaxLevels : good(level)
  <2>1. Nat \subseteq T
    <3> HIDE DEF T
    <3> QED
      BY <1>4, <1>5, SetInduction
  <2> HIDE DEF good
  <2>2. \A level \in 0 .. MaxLevels : level \in Nat
    BY DEF MaxLevels
  <2> QED
    BY <2>1, <2>2
<1>7. ASSUME NEW level \in 0 .. MaxLevels, NEW c \in claims[level]
      PROVE  Meets(d, Resolve(d, c.schema), c.value)
  <2>1. Owed(d, used[level], made[MaxLevels - level], c)
    BY <1>6
  <2> QED
    BY <1>1, <1>2, <2>1, LevelHolds
<1>8. Satisfies(d, schema, body)
  BY <1>3, <1>7 DEF Unfolds
<1> QED
  BY <1>8 DEF body

-----------------------------------------------------------------------------
(* The endpoints of a document. *)

\* A guess names the reply itself or one of its keys, or nothing to count.
IsGuess(guess) ==
  \/ guess = NoGuess
  \/ guess.pointer = <<>>
  \/ guess.pointer = <<guess.pointer[1]>>

LEMMA GuessIsShort ==
  ASSUME NEW data, NEW node
  PROVE  IsGuess(CountGuess(data, node))
<1>1. \/ CountGuess(data, node) = NoGuess
      \/ CountGuess(data, node) = [pointer |-> <<>>, measure |-> "length"]
      \/ \E n : CountGuess(data, node) = [pointer |-> <<n>>, measure |-> "value"]
      \/ \E n : CountGuess(data, node) = [pointer |-> <<n>>, measure |-> "length"]
  BY DEF CountGuess
<1> QED
  BY <1>1 DEF IsGuess

Endpoints(es) == es \in Seq(ToSet(es)) /\ \A e \in ToSet(es) : IsGuess(e.guess)

\* The sets a sequence can be over are those that hold its elements.
LEMMA SeqOfElements ==
  ASSUME NEW S, NEW s \in Seq(S)
  PROVE  s \in Seq(ToSet(s))
<1>1. Range(s) = ToSet(s)
  BY DEF Range, ToSet
<1> QED
  BY <1>1, SeqOfRange

\* What is sent is what example builds for the schema, if there is one.
FromSchema(d, schema, body) ==
  schema # Nil => d \in Documents /\ schema \in Schemas /\ body \in {Nil, Body(d, schema)}

\* Writes lists endpoints, with the body of the schema each of them names.
LEMMA WritesAreEndpoints ==
  ASSUME NEW data \in Documents, NEW given
  PROVE  /\ Endpoints(Writes(data, given))
         /\ \A e \in ToSet(Writes(data, given)) : FromSchema(data, e.schema, e.body)
<1> DEFINE E == UNION {{Endpoint(data, item, method, given) : method \in DOMAIN item.ops} :
                         item \in ToSet(data.paths)}
           parts == [i \in DOMAIN data.paths |-> WritesOf(data, data.paths[i], given)]
<1>1. /\ data.paths \in Seq(ToSet(data.paths))
      /\ DOMAIN data.paths = 1 .. Len(data.paths) /\ Len(data.paths) \in Nat
  BY DocumentsAssumption
<1>2. ASSUME NEW item \in ToSet(data.paths)
      PROVE  WritesOf(data, item, given) \in Seq(E)
  <2> DEFINE ops == [j \in DOMAIN Methods |->
                      OnlyIf(Methods[j] \in DOMAIN item.ops,
                             Endpoint(data, item, Methods[j], given))]
  <2>1. DOMAIN Methods = 1 .. 3
    BY DEF Methods
  <2>2. ASSUME NEW j \in 1 .. 3
        PROVE  ops[j] \in Seq(E)
    <3> DEFINE has == Methods[j] \in DOMAIN item.ops
               x == Endpoint(data, item, Methods[j], given)
    <3>1. (has => x \in E) /\ ops[j] = OnlyIf(has, x)
      BY <2>1
    <3> HIDE DEF ops, has, x, E
    <3> QED
      BY <3>1, OnlyIfGives
  <2>3. ops = [j \in 1 .. 3 |-> ops[j]]
    BY <2>1
  <2>4. WritesOf(data, item, given) = FlattenSeq(ops)
    BY DEF WritesOf
  <2> HIDE DEF ops, E
  <2>5. ops \in Seq(Seq(E))
    BY <2>2, <2>3
  <2> QED
    BY <2>4, <2>5, Flattened
<1>3. \A e \in E : IsGuess(e.guess)
  <2>1. \A item, method :
          \/ Endpoint(data, item, method, given).guess = NoGuess
          \/ \E node : Endpoint(data, item, method, given).guess = CountGuess(data, node)
    BY DEF Endpoint
  <2>2. IsGuess(NoGuess)
    BY DEF IsGuess
  <2> QED
    BY <2>1, <2>2, GuessIsShort
<1>4. \A e \in E : FromSchema(data, e.schema, e.body)
  <2>1. ASSUME NEW item \in ToSet(data.paths), NEW method \in DOMAIN item.ops
        PROVE  LET e == Endpoint(data, item, method, given)
               IN  FromSchema(data, e.schema, e.body)
    <3> DEFINE e == Endpoint(data, item, method, given)
    <3>1. e.schema = item.ops[method].body /\ e.body \in {Nil, Body(data, item.ops[method].body)}
      BY DEF Endpoint
    <3>2. item.ops[method].body \in Schemas \cup {Nil}
      BY DocumentsAssumption
    <3> HIDE DEF e
    <3>3. FromSchema(data, e.schema, e.body)
      BY <3>1, <3>2 DEF FromSchema
    <3> QED
      BY <3>3 DEF e
  <2> QED
    BY <2>1
<1>5. Writes(data, given) = FlattenSeq(parts)
  BY DEF Writes
<1> HIDE DEF E
<1>6. parts \in Seq(Seq(E))
  <2> DEFINE n == Len(data.paths)
  <2>1. n \in Nat /\ parts = [i \in 1 .. n |-> parts[i]]
    BY <1>1
  <2>2. ASSUME NEW i \in 1 .. n
        PROVE  parts[i] \in Seq(E)
    <3>1. data.paths[i] \in ToSet(data.paths)
      BY <1>1 DEF ToSet
    <3>2. parts[i] = WritesOf(data, data.paths[i], given)
      BY <1>1
    <3> QED
      BY <1>2, <3>1, <3>2
  <2> HIDE DEF parts, n
  <2> QED
    BY <2>1, <2>2
<1> HIDE DEF parts
<1>7. Writes(data, given) \in Seq(E)
  BY <1>5, <1>6, Flattened
<1>8. Writes(data, given) \in Seq(ToSet(Writes(data, given)))
  BY <1>7, SeqOfElements
<1>9. ToSet(Writes(data, given)) \subseteq E
  BY <1>7 DEF ToSet
<1> QED
  BY <1>3, <1>4, <1>8, <1>9 DEF Endpoints

-----------------------------------------------------------------------------
(* The choice of a counter. *)

LEMMA ReadableCounter ==
  ASSUME NEW live \in Replies, NEW o, NEW c \in ToSet(Candidates(live.root)),
         o.pointer = c.pointer, o.measure = c.measure
  PROVE  Observe([live EXCEPT !.more = FALSE], o) # Failed
<1>1. live \in [root : Values, more : BOOLEAN] /\ live.root \in Values
  BY RepliesAssumption
<1>2. /\ AtPointer(live.root, c.pointer) \in Values
      /\ Countable(AtPointer(live.root, c.pointer), c.measure)
  BY <1>1, CandidatesAreReal
<1> QED
  BY <1>1, <1>2, CountableIsReadable

\* A guess the reply bears out is among what is proposed.
LEMMA GuessIsFound ==
  ASSUME NEW live \in Replies, NEW guess, IsGuess(guess),
         Countable(AtPointer(live.root, guess.pointer), guess.measure),
         live.root.kind = "array" => guess.pointer = <<>>
  PROVE  \E c \in ToSet(Candidates(live.root)) :
           c.pointer = guess.pointer /\ c.measure = guess.measure
<1> DEFINE root == live.root
<1>1. root \in Values
  BY RepliesAssumption
<1>2. CASE guess.pointer = <<>>
  <2>1. AtPointer(root, guess.pointer) = root
    BY <1>1, <1>2, EmptyPointer
  <2> QED
    BY <1>1, <1>2, <2>1, CandidatesAreReal
<1>3. CASE guess.pointer # <<>>
  <2>1. guess.pointer = <<guess.pointer[1]>>
    <3>1. NoGuess.pointer = <<>>
      BY DEF NoGuess
    <3>2. guess # NoGuess
      BY <1>3, <3>1
    <3> QED
      BY <1>3, <3>2 DEF IsGuess
  <2> DEFINE n == guess.pointer[1]
             node == AtPointer(root, <<n>>)
  <2>2. node # Nil /\ Countable(node, guess.measure) /\ root.kind # "array"
    BY <1>3, <2>1 DEF Countable
  <2> HIDE DEF n, root
  <2>3. node = Child(root, n)
    <3>1. <<>> \in Seq({n}) /\ n \in {n} /\ Append(<<>>, n) = <<n>>
      OBVIOUS
    <3>2. AtPointer(root, Append(<<>>, n)) = Child(AtPointer(root, <<>>), n)
      BY <1>1, <3>1, LongerPointer
    <3> QED
      BY <1>1, <3>1, <3>2, EmptyPointer
  <2> HIDE DEF node
  <2>4. root.kind = "object" /\ n \in DOMAIN root.fields /\ node = root.fields[n]
    <3>1. root # Nil
      BY <1>1, ValuesAssumption
    <3> QED
      BY <2>2, <2>3, <3>1 DEF Child
  <2>5. \E c \in ToSet(Candidates(root)) : c.pointer = <<n>> /\ c.measure = guess.measure
    <3>1. \A k \in DOMAIN root.fields : \A measure : Countable(root.fields[k], measure) =>
            \E c \in ToSet(Candidates(root)) : c.pointer = <<k>> /\ c.measure = measure
      BY <1>1, <2>4, CandidatesAreReal
    <3>2. Countable(root.fields[n], guess.measure)
      BY <2>2, <2>4
    <3> QED
      BY <2>4, <3>1, <3>2
  <2>6. guess.pointer = <<n>>
    BY <2>1 DEF n
  <2>7. \E c \in ToSet(Candidates(root)) :
          c.pointer = guess.pointer /\ c.measure = guess.measure
    BY <2>5, <2>6
  <2> QED
    BY <2>7 DEF root
<1> QED
  BY <1>2, <1>3

\* What discover chooses for a reply that has something to count.
LEMMA ChoiceIsReal ==
  ASSUME NEW live \in Replies, NEW guess, IsGuess(guess), NEW l,
         Candidates(live.root) # <<>>,
         l.live = live, l.guess = guess,
         l.scenario.observe = Chosen(Candidates(live.root), guess)
  PROVE  RealCounter(l)
<1> DEFINE found == Candidates(live.root)
           o == Chosen(found, guess)
           kept == \E i \in DOMAIN found : /\ found[i].pointer = guess.pointer
                                           /\ found[i].measure = guess.measure
<1>1. found \in Seq(Found)
  BY RepliesAssumption, CandidatesAreReal
<1>2. kept => o = guess
  BY DEF Chosen
<1>3. ~kept => o = [pointer |-> Best(found).pointer, measure |-> Best(found).measure]
  BY DEF Chosen
<1> HIDE DEF o
<1>4. Best(found) \in ToSet(found)
  BY <1>1, BestIsFound
<1>5. \E c \in ToSet(found) : o.pointer = c.pointer /\ o.measure = c.measure
  <2>1. CASE kept
    BY <1>2, <2>1 DEF ToSet
  <2>2. CASE ~kept
    BY <1>3, <1>4, <2>2
  <2> QED
    BY <2>1, <2>2
<1>6. Observe([live EXCEPT !.more = FALSE], o) # Failed
  BY <1>5, ReadableCounter
<1>7. ASSUME Countable(AtPointer(live.root, guess.pointer), guess.measure),
             live.root.kind = "array" => guess.pointer = <<>>
      PROVE  o = guess
  <2>1. PICK c \in ToSet(found) : c.pointer = guess.pointer /\ c.measure = guess.measure
    BY <1>7, GuessIsFound
  <2>2. kept
    BY <2>1 DEF ToSet
  <2> QED
    BY <1>2, <2>2
<1>8. l.scenario.observe = o
  BY DEF o
<1> QED
  BY <1>6, <1>7, <1>8 DEF RealCounter

\* What init chooses, whichever candidate it is.
LEMMA InitChoiceIsReal ==
  ASSUME NEW live \in Replies, NEW l, NEW c \in ToSet(Candidates(live.root)),
         l.live = live, l.guess = NoGuess,
         l.scenario.observe = [pointer |-> c.pointer, measure |-> c.measure]
  PROVE  RealCounter(l)
<1>1. \A node : ~Countable(node, NoGuess.measure)
  BY DEF Countable, NoGuess
<1>2. Observe([live EXCEPT !.more = FALSE], l.scenario.observe) # Failed
  BY ReadableCounter
<1> QED
  BY <1>1, <1>2 DEF RealCounter

\* One of some numbers up to n is the last.
LEMMA LastExists ==
  ASSUME NEW n \in Nat, NEW N \in SUBSET (1 .. n), N # {}
  PROVE  \E i \in N : \A j \in N : j <= i
<1> SUFFICES ASSUME \A i \in N : \E j \in N : ~(j <= i) PROVE FALSE
  OBVIOUS
<1> DEFINE T == {k \in Nat : \E i \in N : k <= i}
<1>1. 0 \in T
  <2>1. PICK i \in N : i \in 1 .. n
    OBVIOUS
  <2> QED
    BY <2>1
<1>2. ASSUME NEW k \in Nat, k \in T
      PROVE  k + 1 \in T
  <2>1. PICK i \in N : k <= i
    BY <1>2
  <2>2. PICK j \in N : ~(j <= i)
    OBVIOUS
  <2>3. k + 1 <= j
    BY <2>1, <2>2
  <2> QED
    BY <2>3
<1>3. n + 1 \in T
  <2> HIDE DEF T
  <2>1. Nat \subseteq T
    BY <1>1, <1>2, SetInduction
  <2> QED
    BY <2>1
<1> QED
  BY <1>3

-----------------------------------------------------------------------------
(* The inductive invariant. *)

\* What is left to do was listed, and what is about to be written, or was, has
\* a counter the runner can read.
ChoicesAreReal ==
  /\ doc \in Documents \cup {Nil}
  /\ Endpoints(todo)
  /\ pc = "write" => RealCounter(draft)
  /\ log \in Seq(ToSet(log))
  /\ CounterIsReal

\* What was in the folder and what was written is in the folder.
Kept ==
  ~opts.force =>
    /\ \A f \in DOMAIN before : f \in DOMAIN disk /\ disk[f] = before[f]
    /\ \A i \in DOMAIN log :
         log[i].file \in DOMAIN disk /\ disk[log[i].file] = log[i].scenario

\* Nothing is reported before the first file is written; init writes one, to a
\* name it has found free, whatever it has read since.
Reported ==
  /\ pc \in {"load", "base", "init"} => log = <<>>
  /\ pc = "write" /\ opts.command = "init" => log = <<>> /\ ~Taken(draft.file)
  /\ pc = "done" => (exit = 0 <=> log # <<>>)

\* The commands do not mix, and what discover writes is the scenario of the
\* endpoint that comes next.
HasTurn ==
  /\ pc = "init" => opts.command = "init"
  /\ pc \in {"load", "base", "next"} => opts.command # "init"
  /\ pc = "write" /\ opts.command = "discover" => todo # <<>>

\* Every body comes from a schema of the document that was read.
BodiesAreBuilt ==
  /\ pc = "load" => todo = <<>>
  /\ \A e \in ToSet(todo) : FromSchema(doc, e.schema, e.body)
  /\ pc = "write" => FromSchema(doc, draft.schema, draft.scenario.request.body)
  /\ \A i \in DOMAIN log : FromSchema(doc, log[i].schema, log[i].scenario.request.body)

IInv == ChoicesAreReal /\ Kept /\ Reported /\ HasTurn /\ BodiesAreBuilt

LEMMA InitEstablishes ==
  ASSUME Init
  PROVE  IInv
<1>1. /\ doc = Nil /\ todo = <<>> /\ log = <<>> /\ disk = before
      /\ pc \in {"init", "load"}
  BY DEF Init
<1>2. DOMAIN log = {} /\ \A S : <<>> \in Seq(S)
  BY <1>1
<1>3. Endpoints(todo)
  <2>1. ToSet(<<>>) = {}
    BY DEF ToSet
  <2> QED
    BY <1>1, <1>2, <2>1 DEF Endpoints
<1>4. ChoicesAreReal
  BY <1>1, <1>2, <1>3 DEF ChoicesAreReal, CounterIsReal
<1>5. Kept
  BY <1>1, <1>2 DEF Kept
<1>6. Reported /\ HasTurn
  BY <1>1 DEF Reported, HasTurn, Init
<1>7. BodiesAreBuilt
  <2>1. ToSet(<<>>) = {}
    BY DEF ToSet
  <2> QED
    BY <1>1, <1>2, <2>1 DEF BodiesAreBuilt
<1> QED
  BY <1>4, <1>5, <1>6, <1>7 DEF IInv

LEMMA RestOfEndpoints ==
  ASSUME NEW es, Endpoints(es), es # <<>>
  PROVE  /\ Endpoints(Tail(es)) /\ IsGuess(Head(es).guess)
         /\ ToSet(Tail(es)) \subseteq ToSet(es) /\ Head(es) \in ToSet(es)
<1>1. es \in Seq(ToSet(es))
  BY DEF Endpoints
<1>2. /\ Head(es) \in ToSet(es) /\ Tail(es) \in Seq(ToSet(es))
  BY <1>1, HeadTailProperties
<1>3. Tail(es) \in Seq(ToSet(Tail(es)))
  BY <1>2, SeqOfElements
<1>4. ToSet(Tail(es)) \subseteq ToSet(es)
  <2> DEFINE S == ToSet(es)
             s == Tail(es)
  <2> HIDE DEF S, s
  <2>1. s \in Seq(S)
    BY <1>2 DEF S, s
  <2>2. ToSet(s) \subseteq S
    BY <2>1 DEF ToSet
  <2> QED
    BY <2>2 DEF S, s
<1> QED
  BY <1>2, <1>3, <1>4 DEF Endpoints

\* One more entry at the end of a sequence.
LEMMA OneMore ==
  ASSUME NEW s, s \in Seq(ToSet(s)), NEW x
  PROVE  /\ Append(s, x) \in Seq(ToSet(Append(s, x)))
         /\ \A i \in DOMAIN Append(s, x) :
              \/ i \in DOMAIN s /\ Append(s, x)[i] = s[i]
              \/ Append(s, x)[i] = x
         /\ Append(s, x) # <<>>
<1> DEFINE S == ToSet(s) \cup {x}
<1>1. s \in Seq(S) /\ x \in S
  <2>1. ToSet(s) \subseteq S
    OBVIOUS
  <2> HIDE DEF S
  <2>2. s \in Seq(S)
    BY <2>1, SeqMonotonic
  <2> QED
    BY <2>2 DEF S
<1> HIDE DEF S
<1>2. /\ Append(s, x) \in Seq(S) /\ Append(s, x) # <<>>
      /\ DOMAIN s = 1 .. Len(s) /\ DOMAIN Append(s, x) = 1 .. Len(s) + 1 /\ Len(s) \in Nat
      /\ \A i \in 1 .. Len(s) : Append(s, x)[i] = s[i]
      /\ Append(s, x)[Len(s) + 1] = x
  BY <1>1
<1>3. Append(s, x) \in Seq(ToSet(Append(s, x)))
  BY <1>2, SeqOfElements
<1>4. \A i \in 1 .. Len(s) + 1 : i \in 1 .. Len(s) \/ i = Len(s) + 1
  BY <1>2
<1> QED
  BY <1>2, <1>3, <1>4

LEMMA ChoicesPreserved ==
  ASSUME IInv, [Next]_vars
  PROVE  ChoicesAreReal'
<1>1. /\ doc \in Documents \cup {Nil} /\ Endpoints(todo) /\ (pc = "write" => RealCounter(draft))
      /\ log \in Seq(ToSet(log)) /\ \A i \in DOMAIN log : RealCounter(log[i])
  BY DEF IInv, ChoicesAreReal, CounterIsReal
<1>2. ASSUME /\ doc' \in Documents \cup {Nil} /\ Endpoints(todo')
             /\ log' = log /\ (pc' = "write" => RealCounter(draft'))
      PROVE  ChoicesAreReal'
  BY <1>1, <1>2 DEF ChoicesAreReal, CounterIsReal
<1>3. ASSUME RefuseBase \/ LoadFails \/ NothingListed \/ NoFolder \/ Finish \/ InitRefuses
      PROVE  ChoicesAreReal'
  BY <1>1, <1>2, <1>3 DEF RefuseBase, LoadFails, NothingListed, NoFolder, Finish, InitRefuses, Stop
<1>4. CASE LoadSpec
  BY <1>1, <1>2, <1>4 DEF LoadSpec
<1>5. CASE TryPath
  <2>1. PICK data \in Documents \cup {Nil} :
          IF Parses(data)
          THEN doc' = data /\ pc' = "base" /\ UNCHANGED tried
          ELSE tried' = tried + 1 /\ UNCHANGED <<doc, pc>>
    BY <1>5 DEF TryPath
  <2>2. doc' \in Documents \cup {Nil} /\ pc' # "write" /\ log' = log /\ todo' = todo
    BY <1>1, <1>5, <2>1 DEF TryPath, CanLoad
  <2> QED
    BY <1>1, <1>2, <2>2
<1>6. CASE List
  <2>1. Parses(doc) /\ doc \in Documents
    BY <1>1, <1>6 DEF List, Listable, Parses
  <2>2. Endpoints(todo')
    BY <1>6, <2>1, WritesAreEndpoints DEF List
  <2> QED
    BY <1>1, <1>2, <1>6, <2>2 DEF List
<1>7. CASE Skip
  BY <1>1, <1>2, <1>7, RestOfEndpoints DEF Skip
<1>8. CASE ReadList
  <2> DEFINE e == Head(todo)
             found(live) == IF live = Failed THEN <<>> ELSE Candidates(live.root)
             counted(live) == IF live = Failed THEN e.guess # NoGuess ELSE found(live) # <<>>
             observe(live) == IF live = Failed THEN e.guess ELSE Chosen(found(live), e.guess)
             drafted(live) ==
               [file |-> ScenarioName(e.method, e.path), live |-> live,
                guess |-> e.guess, schema |-> e.schema,
                scenario |-> [request |-> Request(e.method, e.path, e.body, e.headers),
                              observe |-> observe(live)]]
  <2>1. /\ todo # <<>> /\ doc' = doc /\ log' = log
        /\ \E live \in Replies \cup {Failed}, valid \in BOOLEAN :
             IF counted(live) /\ valid
             THEN draft' = drafted(live) /\ pc' = "write" /\ todo' = todo
             ELSE todo' = Tail(todo) /\ draft' = draft /\ pc' = pc
        /\ pc = "next"
    BY <1>8 DEF ReadList
  <2>2. PICK live \in Replies \cup {Failed}, valid \in BOOLEAN :
             IF counted(live) /\ valid
             THEN draft' = drafted(live) /\ pc' = "write" /\ todo' = todo
             ELSE todo' = Tail(todo) /\ draft' = draft /\ pc' = pc
    BY <2>1
  <2>3. Endpoints(Tail(todo)) /\ IsGuess(e.guess)
    BY <1>1, <2>1, RestOfEndpoints
  <2>4. CASE counted(live) /\ valid
    <3>1. draft' = drafted(live) /\ todo' = todo
      BY <2>2, <2>4
    <3>2. /\ drafted(live).live = live /\ drafted(live).guess = e.guess
          /\ drafted(live).scenario.observe = observe(live)
      OBVIOUS
    <3>3. live # Failed => /\ live \in Replies /\ Candidates(live.root) # <<>>
                           /\ observe(live) = Chosen(Candidates(live.root), e.guess)
      BY <2>4
    <3> HIDE DEF drafted, observe, e
    <3>4. RealCounter(drafted(live))
      <4>1. CASE live = Failed
        BY <3>2, <4>1 DEF RealCounter
      <4>2. CASE live # Failed
        BY <2>3, <3>2, <3>3, <4>2, ChoiceIsReal
      <4> QED
        BY <4>1, <4>2
    <3> QED
      BY <1>1, <1>2, <2>1, <3>1, <3>4
  <2>5. CASE ~(counted(live) /\ valid)
    <3>1. todo' = Tail(todo) /\ pc' = pc
      BY <2>2, <2>5
    <3> QED
      BY <1>1, <1>2, <2>1, <2>3, <3>1
  <2> QED
    BY <2>4, <2>5
<1>9. CASE AlreadyExists \/ WriteFails \/ WriteScenario
  <2>1. Endpoints(todo')
    <3>1. pc = "write" /\ opts.command = "discover" /\ todo' = Tail(todo)
      BY <1>9 DEF AlreadyExists, WriteFails, WriteScenario
    <3>2. todo # <<>>
      BY <3>1 DEF IInv, HasTurn
    <3> QED
      BY <1>1, <3>1, <3>2, RestOfEndpoints
  <2>2. CASE AlreadyExists \/ WriteFails
    BY <1>1, <1>2, <2>1, <2>2 DEF AlreadyExists, WriteFails
  <2>3. CASE WriteScenario
    <3>1. log' = Append(log, draft) /\ doc' = doc /\ pc' = "next" /\ RealCounter(draft)
      BY <1>1, <2>3 DEF WriteScenario
    <3> DEFINE longer == Append(log, draft)
    <3>2. /\ longer \in Seq(ToSet(longer))
          /\ \A i \in DOMAIN longer : (i \in DOMAIN log /\ longer[i] = log[i]) \/ longer[i] = draft
      BY <1>1, OneMore
    <3> HIDE DEF longer
    <3>3. \A i \in DOMAIN longer : RealCounter(longer[i])
      BY <1>1, <3>1, <3>2
    <3>4. log' \in Seq(ToSet(log')) /\ \A i \in DOMAIN log' : RealCounter(log'[i])
      BY <3>1, <3>2, <3>3 DEF longer
    <3> QED
      BY <1>1, <2>1, <3>1, <3>4 DEF ChoicesAreReal, CounterIsReal
  <2> QED
    BY <1>9, <2>2, <2>3
<1>10. CASE InitReads
  <2> DEFINE found(live) == IF live = Failed THEN <<>> ELSE Candidates(live.root)
             named(live) == {i \in DOMAIN found(live) : found(live)[i].pointer = opts.pointer}
             usable(live) == IF opts.pointer = <<>> THEN found(live) # <<>> ELSE named(live) # {}
             chosen(live) == IF opts.pointer = <<>> THEN Best(found(live))
                             ELSE found(live)[CHOOSE i \in named(live) :
                                                \A j \in named(live) : j <= i]
             drafted(live) ==
               [file |-> opts.out, live |-> live, guess |-> NoGuess, schema |-> Nil,
                scenario |-> [request |-> Request(opts.method, opts.path, opts.body, {}),
                              observe |-> [pointer |-> chosen(live).pointer,
                                           measure |-> chosen(live).measure]]]
  <2>1. /\ doc' = doc /\ log' = log /\ todo' = todo
        /\ \E live \in Replies \cup {Failed} :
             IF usable(live)
             THEN draft' = drafted(live) /\ pc' = "write"
             ELSE pc' = "done"
    BY <1>10 DEF InitReads, Stop
  <2>2. PICK live \in Replies \cup {Failed} :
             IF usable(live)
             THEN draft' = drafted(live) /\ pc' = "write"
             ELSE pc' = "done"
    BY <2>1
  <2>3. CASE usable(live)
    <3> DEFINE all == Candidates(live.root)
               theirs == {i \in DOMAIN all : all[i].pointer = opts.pointer}
               last == CHOOSE i \in theirs : \A j \in theirs : j <= i
    <3>1. live # Failed
      BY <2>3
    <3>2. live \in Replies /\ found(live) = all /\ all \in Seq(Found)
      BY <3>1, RepliesAssumption, CandidatesAreReal
    <3>3. /\ IF opts.pointer = <<>> THEN all # <<>> ELSE theirs # {}
          /\ chosen(live) = IF opts.pointer = <<>> THEN Best(all) ELSE all[last]
      BY <2>3, <3>2
    <3>4. /\ drafted(live).live = live /\ drafted(live).guess = NoGuess
          /\ drafted(live).scenario.observe = [pointer |-> chosen(live).pointer,
                                               measure |-> chosen(live).measure]
      OBVIOUS
    <3>5. draft' = drafted(live)
      BY <2>2, <2>3
    <3> HIDE DEF drafted, found, named, usable, chosen, all
    <3>6. chosen(live) \in ToSet(all)
      <4>1. CASE opts.pointer = <<>>
        BY <3>2, <3>3, <4>1, BestIsFound
      <4>2. CASE opts.pointer # <<>>
        <5>1. DOMAIN all = 1 .. Len(all) /\ Len(all) \in Nat
          BY <3>2
        <5>2. theirs \in SUBSET (1 .. Len(all)) /\ theirs # {} /\ theirs \subseteq DOMAIN all
          BY <3>3, <4>2, <5>1
        <5> HIDE DEF theirs
        <5>3. \E i \in theirs : \A j \in theirs : j <= i
          BY <5>1, <5>2, LastExists
        <5>4. last \in DOMAIN all
          BY <5>2, <5>3
        <5> HIDE DEF last
        <5> QED
          BY <3>3, <4>2, <5>4 DEF ToSet
      <4> QED
        BY <4>1, <4>2
    <3>7. RealCounter(drafted(live))
      BY <3>2, <3>4, <3>6, InitChoiceIsReal DEF all
    <3> QED
      BY <1>1, <1>2, <2>1, <3>5, <3>7
  <2>4. CASE ~usable(live)
    <3>1. pc' = "done"
      BY <2>2, <2>4
    <3> QED
      BY <1>1, <1>2, <2>1, <3>1
  <2> QED
    BY <2>3, <2>4
<1>11. CASE InitWrites
  <2>1. log' = <<draft>> /\ doc' = doc /\ todo' = todo /\ pc' = "done" /\ RealCounter(draft)
    BY <1>1, <1>11 DEF InitWrites, Stop
  <2>2. /\ DOMAIN <<draft>> = {1} /\ <<draft>>[1] = draft
        /\ <<draft>> \in Seq({draft})
    OBVIOUS
  <2>3. <<draft>> \in Seq(ToSet(<<draft>>))
    BY <2>2, SeqOfElements
  <2> QED
    BY <1>1, <2>1, <2>2, <2>3 DEF ChoicesAreReal, CounterIsReal
<1>12. CASE InitWriteFails
  BY <1>1, <1>2, <1>12 DEF InitWriteFails, Stop
<1>13. CASE Terminated \/ UNCHANGED vars
  BY <1>1, <1>2, <1>13 DEF Terminated, vars
<1> QED
  BY <1>3, <1>4, <1>5, <1>6, <1>7, <1>8, <1>9, <1>10, <1>11, <1>12, <1>13 DEF Next

\* Every body comes from its schema, also after a step.
LEMMA BodiesPreserved ==
  ASSUME IInv, [Next]_vars
  PROVE  BodiesAreBuilt'
<1> DEFINE fits(l) == FromSchema(doc, l.schema, l.scenario.request.body)
<1>1. /\ pc = "load" => todo = <<>> /\ log = <<>>
      /\ \A e \in ToSet(todo) : FromSchema(doc, e.schema, e.body)
      /\ pc = "write" => fits(draft)
      /\ \A i \in DOMAIN log : fits(log[i])
      /\ log \in Seq(ToSet(log)) /\ Endpoints(todo) /\ doc \in Documents \cup {Nil}
  BY DEF IInv, BodiesAreBuilt, Reported, ChoicesAreReal
<1>2. ASSUME /\ doc' = doc /\ ToSet(todo') \subseteq ToSet(todo) /\ pc' # "load"
             /\ pc' = "write" => fits(draft')
             /\ \A i \in DOMAIN log' : fits(log'[i])
      PROVE  BodiesAreBuilt'
  BY <1>1, <1>2 DEF BodiesAreBuilt
<1>3. CASE RefuseBase \/ LoadFails \/ NothingListed \/ NoFolder \/ Finish \/ InitRefuses
           \/ InitWriteFails
  <2>1. doc' = doc /\ todo' = todo /\ log' = log /\ pc' = "done"
    BY <1>3 DEF RefuseBase, LoadFails, NothingListed, NoFolder, Finish, InitRefuses,
                InitWriteFails, Stop
  <2> QED
    BY <1>1, <1>2, <2>1
<1>4. CASE LoadSpec \/ TryPath
  <2>1. /\ pc = "load" /\ todo' = todo /\ log' = log /\ pc' \in {"load", "base"}
    BY <1>4 DEF LoadSpec, TryPath, CanLoad
  <2>2. ToSet(<<>>) = {} /\ DOMAIN <<>> = {}
    BY DEF ToSet
  <2> QED
    BY <1>1, <2>1, <2>2 DEF BodiesAreBuilt
<1>5. CASE List
  <2>1. doc \in Documents
    BY <1>1, <1>5 DEF List, Listable, Parses
  <2>2. \A e \in ToSet(todo') : FromSchema(doc, e.schema, e.body)
    BY <1>5, <2>1, WritesAreEndpoints DEF List
  <2>3. doc' = doc /\ log' = log /\ pc' = "next"
    BY <1>5 DEF List
  <2> QED
    BY <1>1, <2>2, <2>3 DEF BodiesAreBuilt
<1>6. CASE Skip
  <2>1. doc' = doc /\ log' = log /\ pc' = "next" /\ todo' = Tail(todo) /\ todo # <<>>
    BY <1>6 DEF Skip
  <2> QED
    BY <1>1, <1>2, <2>1, RestOfEndpoints
<1>7. CASE ReadList
  <2>1. todo # <<>> /\ doc' = doc /\ log' = log /\ pc = "next"
    BY <1>7 DEF ReadList
  <2>2. \/ /\ pc' = "write" /\ todo' = todo /\ draft'.schema = Head(todo).schema
           /\ draft'.scenario.request =
                Request(Head(todo).method, Head(todo).path, Head(todo).body, Head(todo).headers)
        \/ pc' = pc /\ todo' = Tail(todo)
    BY <1>7 DEF ReadList
  <2>3. /\ FromSchema(doc, Head(todo).schema, Head(todo).body)
        /\ ToSet(Tail(todo)) \subseteq ToSet(todo)
    BY <1>1, <2>1, RestOfEndpoints
  <2>4. \A m, p, b, h : Request(m, p, b, h).body = b
    BY DEF Request
  <2>5. pc' = "write" => fits(draft')
    BY <2>1, <2>2, <2>3, <2>4
  <2>6. ToSet(todo') \subseteq ToSet(todo) /\ pc' # "load"
    BY <2>1, <2>2, <2>3
  <2> QED
    BY <1>1, <1>2, <2>1, <2>5, <2>6
<1>8. CASE AlreadyExists \/ WriteFails
  <2>1. /\ doc' = doc /\ log' = log /\ pc' = "next" /\ todo' = Tail(todo)
        /\ pc = "write" /\ opts.command = "discover"
    BY <1>8 DEF AlreadyExists, WriteFails
  <2>2. todo # <<>>
    BY <2>1 DEF IInv, HasTurn
  <2> QED
    BY <1>1, <1>2, <2>1, <2>2, RestOfEndpoints
<1>9. CASE WriteScenario
  <2>1. /\ doc' = doc /\ log' = Append(log, draft) /\ pc' = "next" /\ todo' = Tail(todo)
        /\ pc = "write" /\ opts.command = "discover"
    BY <1>9 DEF WriteScenario
  <2>2. todo # <<>>
    BY <2>1 DEF IInv, HasTurn
  <2>3. \A i \in DOMAIN log' : (i \in DOMAIN log /\ log'[i] = log[i]) \/ log'[i] = draft
    BY <1>1, <2>1, OneMore
  <2>4. \A i \in DOMAIN log' : fits(log'[i])
    BY <1>1, <2>1, <2>3
  <2> QED
    BY <1>1, <1>2, <2>1, <2>2, <2>4, RestOfEndpoints
<1>10. CASE InitReads
  <2>1. doc' = doc /\ log' = log /\ todo' = todo
    BY <1>10 DEF InitReads
  <2>2. (pc' = "write" /\ draft'.schema = Nil) \/ pc' = "done"
    BY <1>10 DEF InitReads, Stop
  <2>3. pc' = "write" => fits(draft')
    BY <2>2 DEF FromSchema
  <2> QED
    BY <1>1, <1>2, <2>1, <2>2, <2>3
<1>11. CASE InitWrites
  <2>1. doc' = doc /\ log' = <<draft>> /\ todo' = todo /\ pc' = "done" /\ pc = "write"
    BY <1>11 DEF InitWrites, Stop
  <2>2. \A i \in DOMAIN log' : log'[i] = draft
    BY <2>1
  <2> QED
    BY <1>1, <1>2, <2>1, <2>2
<1>12. CASE Terminated \/ UNCHANGED vars
  <2>1. UNCHANGED vars
    BY <1>12 DEF Terminated
  <2> QED
    BY <1>1, <2>1 DEF BodiesAreBuilt, vars
<1> QED
  BY <1>3, <1>4, <1>5, <1>6, <1>7, <1>8, <1>9, <1>10, <1>11, <1>12 DEF Next

\* A file that is put where there was none leaves the others alone.
LEMMA PutKeeps ==
  ASSUME NEW file, NEW content, Put(file, content)
  PROVE  /\ \A f \in DOMAIN disk : f \in DOMAIN disk' /\ (f # file => disk'[f] = disk[f])
         /\ file \in DOMAIN disk' /\ disk'[file] = content
BY DEF Put

\* Nothing that may not be lost is lost when nothing is added to the report.
LEMMA KeptPreserved ==
  ASSUME IInv, [Next]_vars
  PROVE  Kept'
<1> SUFFICES ASSUME ~opts'.force
             PROVE  /\ \A f \in DOMAIN before' : f \in DOMAIN disk' /\ disk'[f] = before'[f]
                    /\ \A i \in DOMAIN log' :
                         /\ log'[i].file \in DOMAIN disk'
                         /\ disk'[log'[i].file] = log'[i].scenario
  BY DEF Kept
<1>1. opts' = opts /\ before' = before
  BY DEF Next, vars, RefuseBase, LoadSpec, LoadFails, TryPath, NothingListed, NoFolder, List,
         Skip, ReadList, AlreadyExists, WriteFails, WriteScenario, Finish, InitRefuses,
         InitReads, InitWrites, InitWriteFails, Terminated
<1>2. /\ \A f \in DOMAIN before : f \in DOMAIN disk /\ disk[f] = before[f]
      /\ \A i \in DOMAIN log : log[i].file \in DOMAIN disk /\ disk[log[i].file] = log[i].scenario
  BY <1>1 DEF IInv, Kept
<1>3. ASSUME NEW content, Put(draft.file, content), ~Taken(draft.file)
      PROVE  /\ \A f \in DOMAIN disk : f \in DOMAIN disk' /\ disk'[f] = disk[f]
             /\ draft.file \in DOMAIN disk' /\ disk'[draft.file] = content
  <2>1. draft.file \notin DOMAIN disk
    BY <1>1, <1>3 DEF Taken
  <2> QED
    BY <1>3, <2>1, PutKeeps
<1>4. CASE log' = log /\ disk' = disk
  BY <1>1, <1>2, <1>4
<1>5. CASE WriteFails \/ InitWriteFails
  <2>1. /\ log' = log /\ ~Taken(draft.file)
        /\ Put(draft.file, Torn) \/ disk' = disk
    BY <1>5 DEF WriteFails, InitWriteFails, IInv, Reported
  <2> QED
    BY <1>1, <1>2, <1>3, <1>4, <2>1
<1>6. CASE WriteScenario
  <2>1. log' = Append(log, draft) /\ Put(draft.file, draft.scenario) /\ ~Taken(draft.file)
    BY <1>6 DEF WriteScenario
  <2>2. \A i \in DOMAIN log' : (i \in DOMAIN log /\ log'[i] = log[i]) \/ log'[i] = draft
    <3>1. log \in Seq(ToSet(log))
      BY DEF IInv, ChoicesAreReal
    <3> QED
      BY <2>1, <3>1, OneMore
  <2> QED
    BY <1>1, <1>2, <1>3, <2>1, <2>2
<1>7. CASE InitWrites
  <2>1. log' = <<draft>> /\ Put(draft.file, draft.scenario) /\ ~Taken(draft.file)
    BY <1>7 DEF InitWrites, IInv, Reported
  <2>2. \A i \in DOMAIN log' : log'[i] = draft
    BY <2>1
  <2> QED
    BY <1>1, <1>2, <1>3, <2>1, <2>2
<1>8. (log' = log /\ disk' = disk) \/ WriteFails \/ InitWriteFails \/ WriteScenario \/ InitWrites
  BY DEF Next, vars, RefuseBase, LoadSpec, LoadFails, TryPath, NothingListed, NoFolder, List,
         Skip, ReadList, AlreadyExists, Finish, InitRefuses, InitReads, Terminated
<1> QED
  BY <1>4, <1>5, <1>6, <1>7, <1>8

LEMMA ReportedPreserved ==
  ASSUME IInv, [Next]_vars
  PROVE  Reported' /\ HasTurn'
<1> USE DEF IInv, Reported, HasTurn, Stop
<1>1. CASE RefuseBase \/ LoadSpec \/ LoadFails \/ NothingListed \/ NoFolder \/ List
  BY <1>1 DEF RefuseBase, LoadSpec, LoadFails, NothingListed, NoFolder, List, CanLoad
<1>2. CASE TryPath
  <2>1. /\ pc = "load" /\ pc' \in {"load", "base"} /\ UNCHANGED <<opts, log>>
    BY <1>2 DEF TryPath, CanLoad
  <2> QED
    BY <2>1
<1>3. CASE Skip \/ AlreadyExists \/ WriteFails \/ InitRefuses \/ InitWriteFails
  BY <1>3 DEF Skip, AlreadyExists, WriteFails, InitRefuses, InitWriteFails
<1>4. CASE ReadList
  <2>1. /\ pc = "next" /\ todo # <<>> /\ UNCHANGED <<opts, log, disk>>
        /\ (pc' = "write" /\ todo' = todo) \/ pc' = "next"
    BY <1>4 DEF ReadList
  <2> QED
    BY <2>1
<1>5. CASE WriteScenario
  BY <1>5 DEF WriteScenario
<1>6. CASE Finish
  BY <1>6 DEF Finish
<1>7. CASE InitReads
  <2>1. /\ pc = "init" /\ ~Taken(opts.out) /\ UNCHANGED <<opts, log, disk, todo>>
        /\ \/ pc' = "write" /\ draft'.file = opts.out
           \/ pc' = "done" /\ exit' = 2
    BY <1>7 DEF InitReads
  <2>2. Taken(opts.out)' <=> Taken(opts.out)
    BY <2>1 DEF Taken
  <2> QED
    BY <2>1, <2>2 DEF Taken
<1>8. CASE InitWrites
  BY <1>8 DEF InitWrites
<1>9. CASE Terminated \/ UNCHANGED vars
  BY <1>9 DEF Terminated, vars, Taken
<1> QED
  BY <1>1, <1>2, <1>3, <1>4, <1>5, <1>6, <1>7, <1>8, <1>9 DEF Next

-----------------------------------------------------------------------------
(* Theorems. *)

\* The inductive invariant holds in every state of every run of the commands.
THEOREM Invariance == Spec => []IInv
<1>1. Init => IInv
  BY InitEstablishes
<1>2. IInv /\ [Next]_vars => IInv'
  BY ChoicesPreserved, KeptPreserved, ReportedPreserved, BodiesPreserved DEF IInv
<1> QED
  BY <1>1, <1>2, PTL DEF Spec

\* The counter discover and init write into a scenario (discover.go:203-215,
\* init.go:117-156) is one the runner reads in the reply it was chosen from, and
\* it is the schema's whenever the reply bears that out, for any reply as deep as
\* may be, any document and any schema.
THEOREM CountersAreReal == Spec => []CounterIsReal
<1>1. IInv => CounterIsReal
  BY DEF IInv, ChoicesAreReal
<1> QED
  BY <1>1, Invariance, PTL

\* Without --force no file is overwritten, by a write that fails either, no
\* scenario reported as written is replaced by a later one (discover.go:107-125,
\* init.go:73-78), and the exit code tells whether one was written.
THEOREM NothingIsLost == Spec => []NothingLost
<1>1. IInv => NothingLost
  BY DEF IInv, Kept, Reported, NothingLost
<1> QED
  BY <1>1, Invariance, PTL

\* The body discover writes, which example has built for the schema of the
\* operation (openapi.go:252-343), satisfies that schema in any document, as
\* long as the schemas example opens can be satisfied, their parts are objects
\* of their own, and the objects they need end before example stops.
THEOREM BodiesFit == Spec => []BodyFits
<1>1. IInv => BodyFits
  <2> SUFFICES ASSUME IInv, NEW i \in DOMAIN log, log[i].schema # Nil,
                      log[i].scenario.request.body # Nil, Plain(doc, log[i].schema)
               PROVE  Satisfies(doc, log[i].schema, log[i].scenario.request.body)
    BY DEF BodyFits
  <2>1. /\ doc \in Documents /\ log[i].schema \in Schemas
        /\ log[i].scenario.request.body = Body(doc, log[i].schema)
    BY DEF IInv, BodiesAreBuilt, FromSchema
  <2>2. NamesSchemas(doc)
    BY <2>1, DocumentsAssumption DEF NamesSchemas
  <2> QED
    BY <2>1, <2>2, BodySatisfies
<1> QED
  BY <1>1, Invariance, PTL
=============================================================================
