------------------------------ MODULE ProofFacts ------------------------------
(*****************************************************************************)
(* Facts that the proofs of several components need.  Induction over the     *)
(* natural numbers is in a form that names a set and not a predicate.        *)
(*****************************************************************************)
EXTENDS Integers, Sequences, SequencesExt, SequenceTheorems, WellFoundedInduction,
        FiniteSetTheorems, TLAPS

\* A set of natural numbers that is not empty has a least element.
LEMMA LeastNumber ==
    ASSUME NEW T, T \subseteq Nat, T # {}
    PROVE  \E m \in T : \A n \in T : m <= n
<1> DEFINE R == OpToRel(<, Nat)
<1>1. IsWellFoundedOn(R, Nat)
  BY NatLessThanWellFounded, Zenon
<1>2. PICK m \in T : \A n \in T : <<n, m>> \notin R
  <2> HIDE DEF R
  <2> QED
    BY <1>1, WFMin
<1>3. \A n \in T : ~(n < m)
  BY <1>2 DEF OpToRel
<1> QED
  BY <1>3

\* A set that holds 0, and with every number the next one, holds them all.
LEMMA SetInduction ==
    ASSUME NEW T, 0 \in T, \A n \in Nat : n \in T => n + 1 \in T
    PROVE  Nat \subseteq T
<1> SUFFICES ASSUME Nat \ T # {} PROVE FALSE
  OBVIOUS
<1>1. PICK m \in Nat \ T : \A n \in Nat \ T : m <= n
  BY LeastNumber
<1>2. m # 0 /\ m - 1 \in Nat
  BY <1>1
<1>3. m - 1 \in T
  BY <1>1, <1>2
<1> QED
  BY <1>2, <1>3

\* A function on 1..n is a sequence of length n.
LEMMA FunctionIsSeq ==
    ASSUME NEW S, NEW n \in Nat, NEW c \in [1..n -> S]
    PROVE  c \in Seq(S) /\ Len(c) = n
<1>1. c \in Seq(S)
  BY SeqDef
<1>2. DOMAIN c = 1..n
  OBVIOUS
<1>3. Len(c) \in Nat /\ DOMAIN c = 1..Len(c)
  BY <1>1, LenProperties
<1>4. 1..n = 1..Len(c)
  BY <1>2, <1>3
<1>5. n = Len(c)
  BY <1>3, <1>4
<1> QED
  BY <1>1, <1>5

LEMMA SeqOfMore ==
    ASSUME NEW S, NEW V, S \subseteq V, NEW s \in Seq(S)
    PROVE  s \in Seq(V)
<1>1. Len(s) \in Nat /\ s \in [1..Len(s) -> S]
  BY LenProperties
<1>2. s \in [1..Len(s) -> V]
  BY <1>1
<1> QED
  BY <1>1, <1>2, SeqDef

\* Three sequences put together, in a form that the provers apply.
Regroup(x, y, z) == (x \o y) \o z = x \o (y \o z)

LEMMA Regrouped ==
    ASSUME NEW S, NEW x \in Seq(S), NEW y \in Seq(S), NEW z \in Seq(S)
    PROVE  Regroup(x, y, z)
BY ConcatAssociative DEF Regroup

\* f is a run of n steps from a; the i-th takes v to step[v][i].
IsRun(f, V, n, a, step) ==
    /\ f \in [0..n -> V]
    /\ f[0] = a
    /\ \A i \in 1..n : f[i] = step[f[i - 1]][i]

\* A step that can always be taken can be taken n times.
LEMMA Iterate ==
    ASSUME NEW V, NEW a \in V, NEW n \in Nat, NEW step \in [V -> [1..n -> V]]
    PROVE  \E f : IsRun(f, V, n, a, step)
<1> DEFINE Good(k, f) == IsRun(f, V, k, a, step)
           T == {k \in Nat : k <= n => \E f : Good(k, f)}
<1>1. 0 \in T
  <2>1. Good(0, [i \in 0..0 |-> a])
    BY DEF IsRun
  <2> QED
    BY <2>1
<1>2. ASSUME NEW k \in Nat, k \in T, k + 1 <= n PROVE \E f : Good(k + 1, f)
  <2>1. PICK f : Good(k, f)
    BY <1>2
  <2> USE DEF IsRun
  <2>2. f[k] \in V /\ k + 1 \in 1..n
    BY <1>2, <2>1
  <2>3. PICK v \in V : v = step[f[k]][k + 1]
    BY <2>2
  <2> DEFINE g == [i \in 0..(k + 1) |-> IF i = k + 1 THEN v ELSE f[i]]
  <2>4. g \in [0..(k + 1) -> V] /\ g[0] = a
    BY <2>1, <2>3
  <2>5. ASSUME NEW i \in 1..(k + 1) PROVE g[i] = step[g[i - 1]][i]
    <3>1. g[i - 1] = f[i - 1]
      OBVIOUS
    <3>2. CASE i = k + 1
      BY <2>3, <3>1, <3>2
    <3>3. CASE i # k + 1
      <4>1. i \in 1..k /\ g[i] = f[i]
        BY <3>3
      <4> QED
        BY <2>1, <3>1, <4>1
    <3> QED
      BY <3>2, <3>3
  <2> QED
    BY <2>4, <2>5
<1>3. \A k \in Nat : k \in T => k + 1 \in T
  BY <1>2
<1>4. n \in T
  <2> HIDE DEF T
  <2> QED
    BY <1>1, <1>3, SetInduction
<1> QED
  BY <1>4

\* FlattenSeq computes whatever function agrees with it step by step.
LEMMA FlattenIs ==
    ASSUME NEW S, NEW n \in Nat, NEW c \in [1..n -> Seq(S)], NEW f \in [0..n -> Seq(S)],
           f[0] = <<>>, \A i \in 1..n : f[i] = f[i - 1] \o c[i]
    PROVE  FlattenSeq(c) = f[n]
<1> DEFINE Def(g) == [i \in 1..n |-> IF i = 1 THEN c[i] ELSE g[i - 1] \o c[i]]
           flat == CHOOSE g : g = Def(g)
           front == [i \in 1..n |-> f[i]]
<1>1. Len(c) = n
  BY FunctionIsSeq
<1>4. n # 0 => f[1] = c[1]
  <2> SUFFICES ASSUME 1 \in 1..n PROVE f[1] = c[1]
    OBVIOUS
  <2>1. f[1] = f[1 - 1] \o c[1] /\ c[1] \in Seq(S)
    OBVIOUS
  <2>2. f[1 - 1] = <<>>
    OBVIOUS
  <2>3. f[1] = <<>> \o c[1]
    BY <2>1, <2>2, Zenon
  <2> QED
    BY <2>1, <2>3
<1>2. CASE n = 0
  <2>1. FlattenSeq(c) = c
    BY <1>1, <1>2 DEF FlattenSeq
  <2>2. c = <<>>
    BY <1>2
  <2> QED
    BY <1>2, <2>1, <2>2
<1>3. CASE n # 0
  <2>1. FlattenSeq(c) = flat[n]
    BY <1>1, <1>3 DEF FlattenSeq
  <2>2. front = Def(front)
    <3>1. ASSUME NEW i \in 1..n
          PROVE  f[i] = IF i = 1 THEN c[i] ELSE front[i - 1] \o c[i]
      <4>1. CASE i = 1
        BY <4>1, <1>4
      <4>2. CASE i # 1
        <5>0. f[i] = f[i - 1] \o c[i]
          BY Zenon
        <5>1. i - 1 \in 1..n /\ front[i - 1] = f[i - 1]
          BY <4>2
        <5> QED
          BY <4>2, <5>0, <5>1, Zenon
      <4> QED
        BY <4>1, <4>2
    <3> QED
      BY <3>1
  <2>3. flat = Def(flat)
    BY <2>2
  <2> HIDE DEF flat
  <2>4. \A i \in 1..n : flat[i] = IF i = 1 THEN c[i] ELSE flat[i - 1] \o c[i]
    BY <2>3, Zenon
  <2> DEFINE T == {i \in Nat : i \in 1..n => flat[i] = f[i]}
  <2>5. 0 \in T
    OBVIOUS
  <2>6. ASSUME NEW i \in Nat, i \in T, i + 1 \in 1..n PROVE flat[i + 1] = f[i + 1]
    <3>1. CASE i = 0
      <4>0. 1 \in 1..n
        BY <1>3
      <4>1. flat[1] = c[1]
        BY <2>4, <4>0, Zenon
      <4> QED
        BY <1>3, <1>4, <3>1, <4>1
    <3>2. CASE i # 0
      <4>1. flat[i] = f[i] /\ (i + 1) - 1 = i /\ i + 1 # 1
        BY <2>6, <3>2
      <4>2. flat[i + 1] = flat[i] \o c[i + 1] /\ f[i + 1] = f[i] \o c[i + 1]
        BY <2>4, <2>6, <4>1
      <4> QED
        BY <4>1, <4>2
    <3> QED
      BY <3>1, <3>2
  <2>7. ASSUME NEW i \in Nat, i \in T PROVE i + 1 \in T
    <3>1. CASE i + 1 \in 1..n
      <4>1. flat[i + 1] = f[i + 1]
        BY <2>6, <2>7, <3>1
      <4> QED
        BY <4>1
    <3>2. CASE i + 1 \notin 1..n
      BY <3>2
    <3> QED
      BY <3>1, <3>2
  <2>8. n \in T
    <3> HIDE DEF T
    <3> QED
      BY <2>5, <2>7, SetInduction
  <2> QED
    BY <1>3, <2>1, <2>8
<1> QED
  BY <1>2, <1>3

\* f[k] is the concatenation of the first k sequences of c.
IsFronts(f, S, n, c) ==
    /\ f \in [0..n -> Seq(S)]
    /\ f[0] = <<>>
    /\ \A i \in 1..n : f[i] = f[i - 1] \o c[i]
    /\ \A k \in 0..n : FlattenSeq([x \in 1..k |-> c[x]]) = f[k]

\* What FlattenSeq makes of a sequence of sequences, step by step.
LEMMA FlattenSteps ==
    ASSUME NEW S, NEW n \in Nat, NEW c \in [1..n -> Seq(S)]
    PROVE  \E f : IsFronts(f, S, n, c)
<1> DEFINE step == [v \in Seq(S) |-> [i \in 1..n |-> v \o c[i]]]
<1>1. step \in [Seq(S) -> [1..n -> Seq(S)]]
  OBVIOUS
<1>2. <<>> \in Seq(S)
  OBVIOUS
<1>3. PICK f : IsRun(f, Seq(S), n, <<>>, step)
  <2> HIDE DEF step
  <2> QED
    BY <1>1, <1>2, Iterate, Zenon
<1>6. /\ f \in [0..n -> Seq(S)] /\ f[0] = <<>>
      /\ \A i \in 1..n : f[i] = step[f[i - 1]][i]
  <2> HIDE DEF step
  <2> QED
    BY <1>3, Zenon DEF IsRun
<1>4. ASSUME NEW i \in 1..n PROVE f[i] = f[i - 1] \o c[i]
  <2>1. f[i - 1] \in Seq(S)
    BY <1>6
  <2>2. step[f[i - 1]][i] = f[i - 1] \o c[i]
    BY <2>1, Zenon
  <2> QED
    BY <1>6, <2>2
<1>5. ASSUME NEW k \in 0..n PROVE FlattenSeq([x \in 1..k |-> c[x]]) = f[k]
  <2> DEFINE d == [x \in 1..k |-> c[x]]
             g == [x \in 0..k |-> f[x]]
  <2>1. d \in [1..k -> Seq(S)] /\ g \in [0..k -> Seq(S)] /\ k \in Nat
    BY <1>6
  <2>2. g[0] = <<>> /\ g[k] = f[k]
    BY <1>6
  <2>4. ASSUME NEW i \in 1..k PROVE g[i] = g[i - 1] \o d[i]
    <3>1. i \in 1..n /\ g[i] = f[i] /\ g[i - 1] = f[i - 1] /\ d[i] = c[i]
      OBVIOUS
    <3> QED
      BY <1>4, <3>1, Zenon
  <2> HIDE DEF d, g
  <2>3. FlattenSeq(d) = g[k]
    BY <2>1, <2>2, <2>4, FlattenIs
  <2> QED
    BY <2>2, <2>3 DEF d
<1> QED
  BY <1>4, <1>5, <1>6 DEF IsFronts

\* The elements of a concatenation.
LEMMA ToSetConcat ==
    ASSUME NEW S, NEW r \in Seq(S), NEW s \in Seq(S)
    PROVE  ToSet(r \o s) = ToSet(r) \cup ToSet(s)
<1>1. /\ DOMAIN r = 1..Len(r) /\ DOMAIN s = 1..Len(s) /\ Len(r) \in Nat /\ Len(s) \in Nat
      /\ DOMAIN (r \o s) = 1..(Len(r) + Len(s))
  BY ConcatProperties
<1>2. \A i \in 1..(Len(r) + Len(s)) : (r \o s)[i] = IF i <= Len(r) THEN r[i] ELSE s[i - Len(r)]
  BY ConcatProperties
<1>3. ASSUME NEW i \in 1..(Len(r) + Len(s)) PROVE (r \o s)[i] \in ToSet(r) \cup ToSet(s)
  <2>1. i \in 1..Len(r) \/ (~(i <= Len(r)) /\ i - Len(r) \in 1..Len(s))
    BY <1>1
  <2>2. (r \o s)[i] = IF i <= Len(r) THEN r[i] ELSE s[i - Len(r)]
    BY <1>2, Zenon
  <2>3. i \in 1..Len(r) => i <= Len(r)
    BY <1>1
  <2>4. CASE i \in 1..Len(r)
    <3>1. (r \o s)[i] = r[i]
      BY <2>2, <2>3, <2>4, Zenon
    <3> QED
      BY <1>1, <2>4, <3>1, Zenon DEF ToSet
  <2>5. CASE ~(i <= Len(r)) /\ i - Len(r) \in 1..Len(s)
    <3>1. (r \o s)[i] = s[i - Len(r)]
      BY <2>2, <2>5, Zenon
    <3> QED
      BY <1>1, <2>5, <3>1, Zenon DEF ToSet
  <2> QED
    BY <2>1, <2>4, <2>5, Zenon
<1>4. ASSUME NEW i \in 1..Len(r) PROVE r[i] \in ToSet(r \o s)
  <2>1. i \in 1..(Len(r) + Len(s)) /\ (r \o s)[i] = r[i]
    BY <1>1, <1>2
  <2> QED
    BY <1>1, <2>1 DEF ToSet
<1>5. ASSUME NEW i \in 1..Len(s) PROVE s[i] \in ToSet(r \o s)
  <2>1. i + Len(r) \in 1..(Len(r) + Len(s)) /\ (r \o s)[i + Len(r)] = s[i]
    BY <1>1, <1>2
  <2> QED
    BY <1>1, <2>1 DEF ToSet
<1> QED
  BY <1>1, <1>3, <1>4, <1>5 DEF ToSet
LEMMA PrefixConcat ==
    ASSUME NEW S, NEW a \in Seq(S), NEW b \in Seq(S)
    PROVE  IsPrefix(a, a \o b)
<1>1. /\ a \o b \in Seq(S) /\ Len(a \o b) = Len(a) + Len(b)
      /\ \A i \in 1..(Len(a) + Len(b)) : (a \o b)[i] = IF i <= Len(a) THEN a[i] ELSE b[i - Len(a)]
  BY ConcatProperties
<1>2. Len(a) \in Nat /\ Len(b) \in Nat
  OBVIOUS
<1>3. PICK c : c = a \o b
  OBVIOUS
<1>4. SubSeq(a, 1, Len(a)) = a
  BY <1>2
<1>5. /\ SubSeq(c, 1, Len(a)) \in Seq(S) /\ Len(SubSeq(c, 1, Len(a))) = Len(a)
      /\ \A i \in 1..Len(a) : SubSeq(c, 1, Len(a))[i] = c[i]
  BY <1>1, <1>2, <1>3
<1>6. \A i \in 1..Len(a) : c[i] = a[i]
  BY <1>1, <1>2, <1>3
<1>7. SubSeq(c, 1, Len(a)) = a
  BY <1>5, <1>6, SeqEqual
<1> QED
  BY <1>1, <1>2, <1>3, <1>4, <1>7 DEF IsPrefix

\* The two parts of a concatenation.
LEMMA TakeDrop ==
    ASSUME NEW S, NEW a \in Seq(S), NEW b \in Seq(S)
    PROVE  /\ a \o b \in Seq(S) /\ Len(a) \in Nat /\ Len(b) \in Nat
           /\ Len(a \o b) = Len(a) + Len(b)
           /\ SubSeq(a \o b, 1, Len(a)) = a
           /\ SubSeq(a \o b, Len(a) + 1, Len(a \o b)) = b
<1>1. PICK s : s = a \o b
  OBVIOUS
<1>2. PICK n \in Nat : n = Len(a)
  OBVIOUS
<1>3. PICK l \in Nat : l = Len(b)
  OBVIOUS
<1>4. /\ s \in Seq(S) /\ Len(s) = n + l
      /\ \A i \in 1..(n + l) : s[i] = IF i <= n THEN a[i] ELSE b[i - n]
  BY <1>1, <1>2, <1>3, ConcatProperties
<1>5. \A i \in 1..n : s[i] = a[i]
  BY <1>4
<1>6. \A i \in 1..l : s[n + i] = b[i]
  <2> SUFFICES ASSUME NEW i \in 1..l PROVE s[n + i] = b[i]
    OBVIOUS
  <2>1. n + i \in 1..(n + l) /\ ~(n + i <= n) /\ (n + i) - n = i
    OBVIOUS
  <2> QED
    BY <1>4, <2>1
<1>7. SubSeq(s, 1, n) = a
  <2>1. /\ SubSeq(s, 1, n) \in Seq(S) /\ Len(SubSeq(s, 1, n)) = n
        /\ \A i \in 1..n : SubSeq(s, 1, n)[i] = s[i]
    BY <1>4
  <2> QED
    BY <1>2, <1>5, <2>1, SeqEqual
<1>8. SubSeq(s, n + 1, n + l) = b
  <2>1. PICK t : t = SubSeq(s, n + 1, n + l)
    OBVIOUS
  <2>2. t \in Seq(S) /\ Len(t) = l /\ \A i \in 1..l : t[i] = s[n + i]
    BY <1>4, <2>1
  <2> QED
    BY <1>3, <1>6, <2>1, <2>2, SeqEqual
<1> QED
  BY <1>1, <1>2, <1>3, <1>4, <1>7, <1>8

-----------------------------------------------------------------------------
(* The part of a flattened sequence that is left when its first sequences    *)
(* have been taken off.                                                      *)

RestOf(c, n, d) == FlattenSeq([i \in 1..(n - d) |-> c[d + i]])

\* The last sequence of a flattened sequence.
LEMMA FlattenSnoc ==
    ASSUME NEW S, NEW n \in Nat, NEW c \in [1..(n + 1) -> Seq(S)]
    PROVE  FlattenSeq(c) = FlattenSeq([i \in 1..n |-> c[i]]) \o c[n + 1]
<1>1. n + 1 \in Nat
  OBVIOUS
<1>2. PICK f : IsFronts(f, S, n + 1, c)
  BY <1>1, FlattenSteps, Zenon
<1>3. f[n + 1] = f[n] \o c[n + 1]
  <2>1. n + 1 \in 1..(n + 1) /\ (n + 1) - 1 = n
    OBVIOUS
  <2>2. f[n + 1] = f[(n + 1) - 1] \o c[n + 1]
    BY <1>2, <2>1, Zenon DEF IsFronts
  <2> QED
    BY <2>1, <2>2, Zenon
<1>4. FlattenSeq([i \in 1..n |-> c[i]]) = f[n]
  <2>1. n \in 0..(n + 1)
    OBVIOUS
  <2> QED
    BY <1>2, <2>1, Zenon DEF IsFronts
<1>5. FlattenSeq([i \in 1..(n + 1) |-> c[i]]) = f[n + 1]
  <2>1. n + 1 \in 0..(n + 1)
    OBVIOUS
  <2> QED
    BY <1>2, <2>1, Zenon DEF IsFronts
<1>6. [i \in 1..(n + 1) |-> c[i]] = c
  OBVIOUS
<1> QED
  BY <1>3, <1>4, <1>5, <1>6, Zenon

\* The first sequence of a flattened sequence.
LEMMA FlattenCons ==
    ASSUME NEW S, NEW n \in Nat, NEW c \in [1..(n + 1) -> Seq(S)]
    PROVE  FlattenSeq(c) = c[1] \o FlattenSeq([i \in 1..n |-> c[i + 1]])
<1> DEFINE b == [i \in 1..n |-> c[i + 1]]
           h(g) == [i \in 0..(n + 1) |-> IF i = 0 THEN <<>> ELSE c[1] \o g[i - 1]]
<1>1. b \in [1..n -> Seq(S)]
  OBVIOUS
<1>2. PICK g : IsFronts(g, S, n, b)
  <2> HIDE DEF b
  <2> QED
    BY <1>1, FlattenSteps, Zenon
<1>3. /\ g \in [0..n -> Seq(S)] /\ g[0] = <<>>
      /\ \A i \in 1..n : g[i] = g[i - 1] \o b[i]
      /\ FlattenSeq(b) = g[n]
  <2> HIDE DEF b
  <2>1. n \in 0..n /\ [i \in 1..n |-> b[i]] = b
    BY <1>1
  <2>2. FlattenSeq([i \in 1..n |-> b[i]]) = g[n]
    BY <1>2, <2>1, Zenon DEF IsFronts
  <2> QED
    BY <1>2, <2>1, <2>2, Zenon DEF IsFronts
<1>4. c[1] \in Seq(S) /\ \A i \in 1..n : c[i + 1] \in Seq(S)
  OBVIOUS
<1>5. PICK f : f = h(g)
  OBVIOUS
<1>6. f[0] = <<>> /\ \A i \in 1..(n + 1) : f[i] = c[1] \o g[i - 1]
  <2>1. 0 \in 0..(n + 1) /\ \A i \in 1..(n + 1) : i \in 0..(n + 1) /\ i # 0
    OBVIOUS
  <2> QED
    BY <1>5, <2>1, Zenon
<1>7. f \in [0..(n + 1) -> Seq(S)]
  <2>1. ASSUME NEW i \in 0..n PROVE c[1] \o g[i] \in Seq(S)
    BY <1>3, <1>4, ConcatProperties
  <2>2. ASSUME NEW i \in 0..(n + 1) PROVE (IF i = 0 THEN <<>> ELSE c[1] \o g[i - 1]) \in Seq(S)
    <3>1. CASE i = 0
      BY <3>1
    <3>2. CASE i # 0
      <4>1. i - 1 \in 0..n
        BY <3>2
      <4> QED
        BY <2>1, <3>2, <4>1, Zenon
    <3> QED
      BY <3>1, <3>2
  <2> QED
    BY <1>5, <2>2
<1>8. ASSUME NEW i \in 1..(n + 1) PROVE f[i] = f[i - 1] \o c[i]
  <2>1. CASE i = 1
    <3>1. f[1] = c[1] \o g[0] /\ f[i - 1] = <<>>
      BY <1>6, <2>1
    <3>2. f[1] = c[1]
      BY <1>3, <1>4, <3>1, ConcatEmptySeq
    <3>3. <<>> \o c[1] = c[1]
      BY <1>4, ConcatEmptySeq
    <3> QED
      BY <2>1, <3>1, <3>2, <3>3
  <2>2. CASE i # 1
    <3>1. PICK j \in 1..n : i = j + 1 /\ i - 1 = j
      <4>1. i - 1 \in 1..n /\ i = (i - 1) + 1
        BY <2>2
      <4> QED
        BY <4>1
    <3>2. g[j] = g[j - 1] \o c[j + 1] /\ g[j - 1] \in Seq(S) /\ j \in 1..(n + 1)
      <4>1. j - 1 \in 0..n /\ j \in 1..(n + 1)
        OBVIOUS
      <4>2. b[j] = c[j + 1]
        OBVIOUS
      <4>3. g[j] = g[j - 1] \o b[j] /\ g[j - 1] \in Seq(S)
        <5> HIDE DEF b
        <5> QED
          BY <1>3, <4>1, Zenon
      <4> QED
        BY <4>1, <4>2, <4>3, Zenon
    <3>3. f[i] = c[1] \o g[j] /\ f[j] = c[1] \o g[j - 1]
      BY <1>6, <3>1, <3>2
    <3>4. PICK x, y, z : x = c[1] /\ y = g[j - 1] /\ z = c[j + 1]
      OBVIOUS
    <3>5. x \in Seq(S) /\ y \in Seq(S) /\ z \in Seq(S)
      BY <1>4, <3>2, <3>4
    <3>6. Regroup(x, y, z)
      BY <3>5, Regrouped, Zenon
    <3> QED
      BY <3>1, <3>2, <3>3, <3>4, <3>6, Zenon DEF Regroup
  <2> QED
    BY <2>1, <2>2
<1>9. n + 1 \in Nat /\ n + 1 \in 1..(n + 1) /\ (n + 1) - 1 = n
  OBVIOUS
<1>10. FlattenSeq(c) = f[n + 1]
  BY <1>6, <1>7, <1>8, <1>9, FlattenIs
<1> QED
  BY <1>3, <1>6, <1>9, <1>10
\* Taking the next sequence off, and adding one at the end.
LEMMA RestTake ==
    ASSUME NEW S, NEW n \in Nat, NEW c \in [1..n -> Seq(S)], NEW d \in 0..n
    PROVE  /\ RestOf(c, n, d) \in Seq(S)
           /\ d = n => RestOf(c, n, d) = <<>>
           /\ d < n => RestOf(c, n, d) = c[d + 1] \o RestOf(c, n, d + 1)
<1> DEFINE b == [i \in 1..(n - d) |-> c[d + i]]
<1>1. n - d \in Nat /\ b \in [1..(n - d) -> Seq(S)]
  OBVIOUS
<1>2. RestOf(c, n, d) \in Seq(S)
  <2> HIDE DEF b
  <2>1. PICK f : IsFronts(f, S, n - d, b)
    BY <1>1, FlattenSteps, Zenon
  <2>2. n - d \in 0..(n - d) /\ [x \in 1..(n - d) |-> b[x]] = b
    BY <1>1
  <2>3. FlattenSeq(b) = f[n - d] /\ f[n - d] \in Seq(S)
    BY <2>1, <2>2, Zenon DEF IsFronts
  <2> QED
    BY <2>3, Zenon DEF RestOf, b
<1>3. ASSUME d = n PROVE RestOf(c, n, d) = <<>>
  <2>1. n - d = 0 /\ b = <<>>
    BY <1>3
  <2>2. FlattenSeq(<<>>) = <<>>
    BY DEF FlattenSeq
  <2> QED
    BY <2>1, <2>2 DEF RestOf
<1>4. ASSUME d < n PROVE RestOf(c, n, d) = c[d + 1] \o RestOf(c, n, d + 1)
  <2>1. PICK k \in Nat : n - d = k + 1 /\ n - (d + 1) = k
    <3>1. n - (d + 1) \in Nat /\ n - d = (n - (d + 1)) + 1
      BY <1>4
    <3> QED
      BY <3>1
  <2>2. b \in [1..(k + 1) -> Seq(S)] /\ b[1] = c[d + 1]
    BY <1>1, <2>1
  <2>3. [i \in 1..k |-> b[i + 1]] = [i \in 1..k |-> c[(d + 1) + i]]
    <3> SUFFICES ASSUME NEW i \in 1..k PROVE b[i + 1] = c[(d + 1) + i]
      OBVIOUS
    <3>1. i + 1 \in 1..(n - d) /\ d + (i + 1) = (d + 1) + i
      BY <2>1
    <3> QED
      BY <3>1
  <2>4. FlattenSeq(b) = b[1] \o FlattenSeq([i \in 1..k |-> b[i + 1]])
    <3> HIDE DEF b
    <3> QED
      BY <2>2, FlattenCons, Zenon
  <2>5. RestOf(c, n, d + 1) = FlattenSeq([i \in 1..k |-> c[(d + 1) + i]])
    BY <2>1, Zenon DEF RestOf
  <2>6. RestOf(c, n, d) = FlattenSeq(b)
    BY DEF RestOf
  <2> HIDE DEF b
  <2> QED
    BY <2>2, <2>3, <2>4, <2>5, <2>6, Zenon
<1> QED
  BY <1>2, <1>3, <1>4, Zenon

\* The same, in a form that the provers apply.
TakesNext(c, n, d) == RestOf(c, n, d) = c[d + 1] \o RestOf(c, n, d + 1)

LEMMA RestNext ==
    ASSUME NEW S, NEW n \in Nat, NEW c \in [1..n -> Seq(S)], NEW d \in 0..n, d < n
    PROVE  TakesNext(c, n, d)
BY RestTake, Zenon DEF TakesNext

LEMMA RestAdd ==
    ASSUME NEW S, NEW n \in Nat, NEW c \in [1..(n + 1) -> Seq(S)], NEW d \in 0..n
    PROVE  RestOf(c, n + 1, d) = RestOf(c, n, d) \o c[n + 1]
<1> DEFINE b == [i \in 1..((n - d) + 1) |-> c[d + i]]
<1>1. n - d \in Nat /\ (n + 1) - d = (n - d) + 1 /\ d + ((n - d) + 1) = n + 1
  OBVIOUS
<1>2. b \in [1..((n - d) + 1) -> Seq(S)] /\ b[(n - d) + 1] = c[n + 1]
  BY <1>1
<1>3. [i \in 1..(n - d) |-> b[i]] = [i \in 1..(n - d) |-> c[d + i]]
  <2> SUFFICES ASSUME NEW i \in 1..(n - d) PROVE b[i] = c[d + i]
    OBVIOUS
  <2>1. i \in 1..((n - d) + 1)
    BY <1>1
  <2> QED
    BY <2>1
<1>4. RestOf(c, n + 1, d) = FlattenSeq(b)
  BY <1>1, Zenon DEF RestOf
<1> HIDE DEF b
<1>5. FlattenSeq(b) = FlattenSeq([i \in 1..(n - d) |-> b[i]]) \o b[(n - d) + 1]
  BY <1>1, <1>2, FlattenSnoc, Zenon
<1> QED
  BY <1>2, <1>3, <1>4, <1>5, Zenon DEF RestOf

-----------------------------------------------------------------------------
(* Recursive definitions.  A definition g[x] = rec[x][g] has a solution if   *)
(* what rec makes of g at x depends only on g where a measure m is smaller.  *)

\* g is a solution of g[x] = rec[x][g] as far as m is below n.
Solves(g, D, V, m, rec, n) ==
    /\ g \in [D -> V]
    /\ \A x \in D : m[x] < n => g[x] = rec[x][g]

\* What rec makes of g at x depends on g only where m is smaller.
Descends(D, V, m, rec) ==
    /\ m \in [D -> Nat] /\ rec \in [D -> [[D -> V] -> V]]
    /\ \A x \in D : \A g, h \in [D -> V] :
        (\A y \in D : m[y] < m[x] => g[y] = h[y]) => rec[x][g] = rec[x][h]

Agree(g, h, D, m, n) == \A x \in D : m[x] < n => g[x] = h[x]

\* Two solutions agree as far as both reach.
LEMMA SolutionUnique ==
    ASSUME NEW D, NEW V, NEW m, NEW rec,
           Descends(D, V, m, rec), NEW n \in Nat, NEW g, NEW h,
           Solves(g, D, V, m, rec, n), Solves(h, D, V, m, rec, n)
    PROVE  Agree(g, h, D, m, n)
<1>0. m \in [D -> Nat] /\ rec \in [D -> [[D -> V] -> V]]
  BY DEF Descends
<1> USE <1>0
<1> DEFINE T == {k \in Nat : \E x \in D : m[x] = k /\ k < n /\ g[x] # h[x]}
<1> SUFFICES ASSUME T # {} PROVE FALSE
  BY DEF Agree
<1>1. PICK k \in T : \A l \in T : k <= l
  <2>1. T \subseteq Nat
    OBVIOUS
  <2> HIDE DEF T
  <2> QED
    BY <2>1, LeastNumber
<1>2. PICK x \in D : m[x] = k /\ k < n /\ g[x] # h[x] /\ k \in Nat
  BY <1>1
<1>3. \A y \in D : m[y] < m[x] => g[y] = h[y]
  <2> SUFFICES ASSUME NEW y \in D, m[y] < m[x], g[y] # h[y] PROVE FALSE
    OBVIOUS
  <2>1. m[y] \in Nat /\ m[y] < n
    BY <1>2
  <2>2. m[y] \in T
    BY <2>1
  <2> QED
    BY <1>1, <1>2, <2>1, <2>2
<1>4. g \in [D -> V] /\ h \in [D -> V]
  BY DEF Solves
<1>5. rec[x][g] = rec[x][h]
  BY <1>3, <1>4, Zenon DEF Descends
<1>6. g[x] = rec[x][g] /\ h[x] = rec[x][h]
  BY <1>2 DEF Solves
<1> QED
  BY <1>2, <1>5, <1>6

\* By induction, there is a solution as far as any n.
LEMMA SolutionUpTo ==
    ASSUME NEW D, NEW V, V # {}, NEW m, NEW rec,
           Descends(D, V, m, rec), NEW n \in Nat
    PROVE  \E g : Solves(g, D, V, m, rec, n)
<1>0. m \in [D -> Nat] /\ rec \in [D -> [[D -> V] -> V]]
  BY DEF Descends
<1> USE <1>0
<1> DEFINE T == {k \in Nat : \E g : Solves(g, D, V, m, rec, k)}
<1>1. 0 \in T
  <2>1. PICK v \in V : TRUE
    OBVIOUS
  <2>2. Solves([x \in D |-> v], D, V, m, rec, 0)
    BY DEF Solves
  <2> QED
    BY <2>2
<1>2. ASSUME NEW k \in Nat, k \in T PROVE k + 1 \in T
  <2>1. PICK g : Solves(g, D, V, m, rec, k)
    BY <1>2
  <2>2. g \in [D -> V]
    BY <2>1 DEF Solves
  <2>3. PICK h : h = [x \in D |-> IF m[x] = k THEN rec[x][g] ELSE g[x]]
    OBVIOUS
  <2>4. h \in [D -> V]
    <3>1. \A x \in D : rec[x][g] \in V
      BY <2>2
    <3> QED
      BY <2>2, <2>3, <3>1
  <2>5. ASSUME NEW x \in D, m[x] < k + 1 PROVE h[x] = rec[x][h]
    <3>0. m[x] \in Nat
      OBVIOUS
    <3>1. \A y \in D : m[y] < m[x] => g[y] = h[y]
      <4> SUFFICES ASSUME NEW y \in D, m[y] < m[x] PROVE g[y] = h[y]
        OBVIOUS
      <4>1. m[y] \in Nat /\ m[y] # k
        BY <2>5, <3>0
      <4> QED
        BY <2>3, <4>1
    <3>2. rec[x][g] = rec[x][h]
      BY <2>2, <2>4, <3>1, Zenon DEF Descends
    <3>3. h[x] = rec[x][g]
      <4>1. CASE m[x] = k
        BY <2>3, <4>1
      <4>2. CASE m[x] # k
        <5>1. m[x] < k
          <6>1. PICK i \in Nat : i = m[x]
            BY <3>0
          <6>2. i < k + 1 /\ i # k
            BY <2>5, <4>2, <6>1
          <6>3. i < k
            BY <6>2
          <6> QED
            BY <6>1, <6>3
        <5>2. g[x] = rec[x][g]
          BY <2>1, <5>1, Zenon DEF Solves
        <5> QED
          BY <2>3, <4>2, <5>2
      <4> QED
        BY <4>1, <4>2
    <3> QED
      BY <3>2, <3>3
  <2>6. Solves(h, D, V, m, rec, k + 1)
    BY <2>4, <2>5 DEF Solves
  <2> QED
    BY <2>6
<1>3. \A k \in Nat : k \in T => k + 1 \in T
  BY <1>2
<1>4. n \in T
  <2> HIDE DEF T
  <2> QED
    BY <1>1, <1>3, SetInduction
<1> QED
  BY <1>4

IsSolution(f, D, V, rec) == f \in [D -> V] /\ \A x \in D : f[x] = rec[x][f]

\* A definition by recursion in which a measure decreases has a solution.
LEMMA RecursionHasSolution ==
    ASSUME NEW D, NEW V, V # {}, NEW m, NEW rec,
           Descends(D, V, m, rec)
    PROVE  \E f : IsSolution(f, D, V, rec)
<1>0. m \in [D -> Nat] /\ rec \in [D -> [[D -> V] -> V]]
  BY DEF Descends
<1> USE <1>0
<1> DEFINE Sol(n) == CHOOSE g : Solves(g, D, V, m, rec, n)
           f == [x \in D |-> Sol(m[x] + 1)[x]]
<1>1. ASSUME NEW n \in Nat PROVE Solves(Sol(n), D, V, m, rec, n) /\ Sol(n) \in [D -> V]
  <2>1. \E g : Solves(g, D, V, m, rec, n)
    BY SolutionUpTo
  <2>2. Solves(Sol(n), D, V, m, rec, n)
    BY <2>1, Zenon
  <2> HIDE DEF Sol
  <2> QED
    BY <2>2 DEF Solves
<1> HIDE DEF Sol
<1>2. f \in [D -> V]
  <2>1. ASSUME NEW x \in D PROVE Sol(m[x] + 1)[x] \in V
    <3>1. m[x] + 1 \in Nat
      OBVIOUS
    <3>2. Sol(m[x] + 1) \in [D -> V]
      BY <1>1, <3>1
    <3> QED
      BY <3>2
  <2> QED
    BY <2>1
<1>3. ASSUME NEW x \in D PROVE f[x] = rec[x][f]
  <2>1. PICK g : g = Sol(m[x] + 1)
    OBVIOUS
  <2>0. m[x] \in Nat /\ m[x] + 1 \in Nat /\ m[x] < m[x] + 1
    OBVIOUS
  <2>2. g \in [D -> V] /\ g[x] = rec[x][g]
    <3>1. Solves(g, D, V, m, rec, m[x] + 1)
      BY <1>1, <2>0, <2>1
    <3> QED
      BY <2>0, <3>1 DEF Solves
  <2>3. \A y \in D : m[y] < m[x] => f[y] = g[y]
    <3> SUFFICES ASSUME NEW y \in D, m[y] < m[x] PROVE f[y] = g[y]
      OBVIOUS
    <3>1. PICK h : h = Sol(m[y] + 1)
      OBVIOUS
    <3>2. m[y] \in Nat /\ m[y] + 1 \in Nat /\ m[y] < m[y] + 1 /\ m[y] + 1 <= m[x] + 1
      BY <2>0
    <3>3. Solves(h, D, V, m, rec, m[y] + 1)
      BY <1>1, <3>1, <3>2
    <3>4. Solves(g, D, V, m, rec, m[y] + 1)
      <4>1. Solves(g, D, V, m, rec, m[x] + 1)
        BY <1>1, <2>0, <2>1
      <4>2. \A z \in D : m[z] < m[y] + 1 => m[z] < m[x] + 1
        BY <3>2, <2>0
      <4> QED
        BY <4>1, <4>2, Zenon DEF Solves
    <3>5. h[y] = g[y]
      <4>0. PICK n \in Nat : n = m[y] + 1
        BY <3>2
      <4>2. Solves(h, D, V, m, rec, n) /\ Solves(g, D, V, m, rec, n)
        BY <3>3, <3>4, <4>0
      <4>3. \A z \in D : m[z] < n => h[z] = g[z]
        <5>1. Agree(h, g, D, m, n)
          BY <4>2, SolutionUnique, Zenon
        <5> QED
          BY <5>1 DEF Agree
      <4>1. \A z \in D : m[z] < m[y] + 1 => h[z] = g[z]
        BY <4>0, <4>3
      <4> QED
        BY <3>2, <4>1, Zenon
    <3> QED
      BY <3>1, <3>5
  <2>4. rec[x][f] = rec[x][g]
    <3> HIDE DEF f
    <3> QED
      BY <1>2, <2>2, <2>3, Zenon DEF Descends
  <2> QED
    BY <2>1, <2>2, <2>4
<1> QED
  BY <1>2, <1>3, Zenon DEF IsSolution

-----------------------------------------------------------------------------
(* Folds over sets of numbers take the numbers in their order, which makes   *)
(* them runs.                                                                *)

\* The maximum of a set of numbers from 1 to n.
LEMMA MaxOf ==
    ASSUME NEW n \in Nat, NEW s \in SUBSET (1..n), s # {}
    PROVE  Max(s) \in s /\ \A i \in s : i <= Max(s)
<1> DEFINE T == {n - i : i \in s}
<1>1. PICK k \in T : \A l \in T : k <= l
  <2>0. \A i \in s : n - i \in Nat
    OBVIOUS
  <2>1. T \subseteq Nat /\ T # {}
    BY <2>0
  <2> HIDE DEF T
  <2> QED
    BY <2>1, LeastNumber
<1>2. PICK x \in s : k = n - x
  BY <1>1
<1>3. \A y \in s : x >= y
  <2> SUFFICES ASSUME NEW y \in s PROVE x >= y
    OBVIOUS
  <2>1. n - y \in T
    OBVIOUS
  <2>2. n - x <= n - y
    BY <1>1, <1>2, <2>1
  <2> QED
    BY <2>2
<1>4. \E z \in s : \A y \in s : z >= y
  BY <1>3
<1>5. Max(s) \in s /\ \A y \in s : Max(s) >= y
  <2> DEFINE P(z) == \A y \in s : z >= y
  <2>1. \E z \in s : P(z)
    BY <1>4
  <2> HIDE DEF P
  <2>2. (CHOOSE z \in s : P(z)) \in s /\ P(CHOOSE z \in s : P(z))
    BY <2>1, Zenon
  <2> QED
    BY <2>2, Zenon DEF Max, P
<1> QED
  BY <1>5

\* The last of the numbers from 1 to k.
LEMMA MaxInterval ==
    ASSUME NEW k \in Nat, k # 0
    PROVE  Max(1..k) = k /\ (1..k) \ {k} = 1..(k - 1) /\ 1..k # {}
<1>1. 1..k \in SUBSET (1..k) /\ 1..k # {} /\ k \in 1..k
  OBVIOUS
<1>2. PICK x : x = Max(1..k)
  OBVIOUS
<1>3. x \in 1..k /\ \A i \in 1..k : i <= x
  BY <1>1, <1>2, MaxOf, Zenon
<1>4. x = k
  BY <1>3
<1>5. \A i \in Int : i \in 1..k /\ i # k <=> i \in 1..(k - 1)
  OBVIOUS
<1>6. (1..k) \ {k} = 1..(k - 1)
  BY <1>5
<1> QED
  BY <1>1, <1>2, <1>4, <1>6

IsFold(h, V, n, b, step) ==
    /\ h \in [SUBSET (1..n) -> V]
    /\ \A s \in SUBSET (1..n) :
           h[s] = IF s = {} THEN b ELSE step[h[s \ {Max(s)}]][Max(s)]

\* Folding over a set of numbers, the greatest first, is well defined.
LEMMA FoldExists ==
    ASSUME NEW n \in Nat, NEW V, NEW b \in V, NEW step \in [V -> [1..n -> V]]
    PROVE  \E h : IsFold(h, V, n, b, step)
<1> DEFINE D == SUBSET (1..n)
           m == [s \in D |-> Cardinality(s)]
           rec == [s \in D |-> [g \in [D -> V] |->
                      IF s = {} THEN b ELSE step[g[s \ {Max(s)}]][Max(s)]]]
<1>1. ASSUME NEW s \in D PROVE Cardinality(s) \in Nat /\ IsFiniteSet(s)
  <2>1. IsFiniteSet(1..n)
    BY FS_Interval
  <2> QED
    BY <2>1, FS_Subset, FS_CardinalityType
<1>2. ASSUME NEW s \in D, s # {}
      PROVE  Max(s) \in s /\ s \ {Max(s)} \in D /\ Cardinality(s \ {Max(s)}) < Cardinality(s)
  <2>1. Max(s) \in s
    BY <1>2, MaxOf
  <2>2. Cardinality(s \ {Max(s)}) = Cardinality(s) - 1
    BY <1>1, <2>1, FS_RemoveElement
  <2>3. s \ {Max(s)} \in D
    OBVIOUS
  <2> QED
    BY <1>1, <2>1, <2>2, <2>3
<1>3. m \in [D -> Nat]
  BY <1>1
<1>4. rec \in [D -> [[D -> V] -> V]]
  <2>1. ASSUME NEW s \in D, NEW g \in [D -> V]
        PROVE  (IF s = {} THEN b ELSE step[g[s \ {Max(s)}]][Max(s)]) \in V
    <3>1. CASE s = {}
      BY <3>1
    <3>2. CASE s # {}
      <4>1. PICK i \in 1..n : i = Max(s)
        BY <1>2, <3>2
      <4>2. PICK v \in V : v = g[s \ {Max(s)}]
        BY <1>2, <3>2
      <4>3. step[v][i] \in V
        OBVIOUS
      <4> QED
        BY <3>2, <4>1, <4>2, <4>3, Zenon
    <3> QED
      BY <3>1, <3>2
  <2> QED
    BY <2>1
<1>5. ASSUME NEW s \in D, NEW g \in [D -> V], NEW h \in [D -> V],
             \A y \in D : m[y] < m[s] => g[y] = h[y]
      PROVE  rec[s][g] = rec[s][h]
  <2>1. CASE s = {}
    BY <2>1
  <2>2. CASE s # {}
    <3>1. m[s \ {Max(s)}] < m[s] /\ s \ {Max(s)} \in D
      BY <1>2, <2>2
    <3>2. g[s \ {Max(s)}] = h[s \ {Max(s)}]
      BY <1>5, <3>1, Zenon
    <3> QED
      BY <3>2
  <2> QED
    BY <2>1, <2>2
<1>6. Descends(D, V, m, rec)
  <2> HIDE DEF m, rec, D
  <2> QED
    BY <1>3, <1>4, <1>5 DEF Descends
<1>9. PICK h : IsSolution(h, D, V, rec)
  <2> HIDE DEF m, rec, D
  <2>1. V # {}
    OBVIOUS
  <2> QED
    BY <1>6, <2>1, RecursionHasSolution, Zenon
<1>7. h \in [D -> V] /\ \A s \in D : h[s] = rec[s][h]
  <2> HIDE DEF m, rec, D
  <2> QED
    BY <1>9, Zenon DEF IsSolution
<1>8. ASSUME NEW s \in D
      PROVE  h[s] = IF s = {} THEN b ELSE step[h[s \ {Max(s)}]][Max(s)]
  <2>1. h[s] = rec[s][h]
    BY <1>7, Zenon
  <2>2. rec[s][h] = IF s = {} THEN b ELSE step[h[s \ {Max(s)}]][Max(s)]
    BY <1>7, Zenon
  <2> QED
    BY <2>1, <2>2, Zenon
<1> QED
  BY <1>7, <1>8 DEF IsFold

\* A fold takes its steps in the order of the numbers.
FoldsAs(iter, V, n, b, step) ==
    /\ iter[{}] = b
    /\ \A s \in SUBSET (1..n) :
           s # {} /\ iter[s \ {Max(s)}] \in V => iter[s] = step[iter[s \ {Max(s)}]][Max(s)]

\* A fold over 1..n is a run of n steps.
LEMMA FoldRuns ==
    ASSUME NEW n \in Nat, NEW V, NEW b, NEW step, NEW iter, FoldsAs(iter, V, n, b, step),
           NEW f, IsRun(f, V, n, b, step)
    PROVE  iter[1..n] = f[n]
<1> DEFINE T == {k \in Nat : k <= n => iter[1..k] = f[k]}
<1>1. 0 \in T
  <2>1. 1..0 = {}
    OBVIOUS
  <2> QED
    BY <2>1 DEF FoldsAs, IsRun
<1>2. ASSUME NEW k \in Nat, k \in T, k + 1 <= n PROVE iter[1..(k + 1)] = f[k + 1]
  <2>1. /\ Max(1..(k + 1)) = k + 1 /\ (1..(k + 1)) \ {k + 1} = 1..((k + 1) - 1)
        /\ 1..(k + 1) # {}
    <3>1. PICK j \in Nat : j = k + 1 /\ j # 0
      OBVIOUS
    <3> QED
      BY <3>1, MaxInterval
  <2>2. /\ (k + 1) - 1 = k /\ iter[1..k] = f[k] /\ 1..(k + 1) \in SUBSET (1..n)
        /\ k + 1 \in 1..n /\ k \in 0..n
    BY <1>2
  <2>3. f[k] \in V /\ f[k + 1] = step[f[k]][k + 1]
    BY <2>2, Zenon DEF IsRun
  <2>4. iter[1..(k + 1)] = step[iter[1..k]][k + 1]
    BY <2>1, <2>2, <2>3, Zenon DEF FoldsAs
  <2> QED
    BY <2>2, <2>3, <2>4
<1>3. n \in T
  <2>1. \A k \in Nat : k \in T => k + 1 \in T
    BY <1>2
  <2> HIDE DEF T
  <2> QED
    BY <1>1, <2>1, SetInduction
<1> QED
  BY <1>3

\* The larger of 0 and n.
LEMMA MaxPair ==
    ASSUME NEW n \in Int
    PROVE  Max({0, n}) = IF n > 0 THEN n ELSE 0
<1> DEFINE M == IF n > 0 THEN n ELSE 0
           Top_(x) == \A y \in {0, n} : x >= y
<1>1. M \in {0, n} /\ Top_(M)
  OBVIOUS
<1>2. PICK x : x = Max({0, n})
  OBVIOUS
<1>3. x \in {0, n} /\ Top_(x)
  <2>1. x = CHOOSE z \in {0, n} : Top_(z)
    BY <1>2 DEF Max
  <2> HIDE DEF Top_, M
  <2> QED
    BY <1>1, <2>1, Zenon
<1> QED
  BY <1>2, <1>3


-----------------------------------------------------------------------------
(* Remainders.                                                               *)

\* The remainder is in its range.
LEMMA ModRange ==
    ASSUME NEW n \in Int, NEW M \in Nat, M > 0
    PROVE  n % M \in 0..(M - 1) /\ n % M \in Int
OBVIOUS

\* The remainder differs by a multiple.
LEMMA ModDiv ==
    ASSUME NEW n \in Int, NEW M \in Nat, M > 0
    PROVE  \E k \in Int : n % M = n + k * M
<1>1. PICK d \in Int : d = n \div M
  OBVIOUS
<1>2. n = (M * d) + (n % M)
  BY <1>1
<1>3. PICK k \in Int : k = -d
  OBVIOUS
<1>4. k * M = -(M * d)
  BY <1>3
<1>5. n % M = n + (k * M)
  BY <1>2, <1>4
<1> QED
  BY <1>5, Zenon

\* Only one number in the range does.
LEMMA ModUnique ==
    ASSUME NEW n \in Int, NEW M \in Nat, M > 0, NEW k \in Int, NEW r \in 0..(M - 1), r = n + k * M
    PROVE  n % M = r
<1>1. PICK l \in Int : n % M = n + l * M
  BY ModDiv
<1>2. n % M \in 0..(M - 1)
  BY ModRange
<1>3. (n % M) - r = (l - k) * M
  BY <1>1
<1>4. PICK e \in Int : e = l - k
  OBVIOUS
<1>5. PICK z \in Int : z = e * M
  OBVIOUS
<1>6. z = (n % M) - r /\ z < M /\ -z < M
  BY <1>2, <1>3, <1>4, <1>5
<1>7. e >= 1 => z >= M
  BY <1>5
<1>8. e <= -1 => -z >= M
  BY <1>5
<1>9. e = 0
  BY <1>6, <1>7, <1>8
<1>10. z = 0
  BY <1>5, <1>9
<1> QED
  BY <1>2, <1>6, <1>10

\* Odd and even numbers follow each other.
LEMMA Parity ==
    ASSUME NEW n \in Nat
    PROVE  /\ n % 2 = 1 \/ n % 2 = 0
           /\ (n + 1) % 2 = 1 <=> n % 2 = 0
           /\ (n + 1) % 2 = 0 <=> n % 2 = 1
           /\ n % 2 = 0 => \E h \in Nat : n = 2 * h
<1>1. PICK k \in Int : n % 2 = n + k * 2
  BY ModDiv
<1>2. n % 2 \in 0..1
  BY ModRange
<1>3. CASE n % 2 = 0
  <2>1. 1 = (n + 1) + k * 2 /\ 1 \in 0..(2 - 1) /\ n + 1 \in Int
    BY <1>1, <1>3
  <2>2. (n + 1) % 2 = 1
    BY <2>1, ModUnique
  <2>3. -k \in Nat /\ n = 2 * (-k)
    BY <1>1, <1>3
  <2> QED
    BY <1>3, <2>2, <2>3
<1>4. CASE n % 2 = 1
  <2>1. 0 = (n + 1) + (k - 1) * 2 /\ 0 \in 0..(2 - 1) /\ n + 1 \in Int /\ k - 1 \in Int
    BY <1>1, <1>4
  <2>2. (n + 1) % 2 = 0
    BY <2>1, ModUnique
  <2> QED
    BY <1>4, <2>2
<1> QED
  BY <1>2, <1>3, <1>4

-----------------------------------------------------------------------------
(* Sums, and the lengths of concatenations.                                  *)

\* g adds up f over the sets of numbers up to n, in whatever order.
IsSum(g, f, n) ==
    /\ g \in [SUBSET (1..n) -> Int]
    /\ g[{}] = 0
    /\ \A s \in SUBSET (1..n) : \A x \in s : g[s] = f[x] + g[s \ {x}]

\* Taking a number out of a set.
LEMMA Removed ==
    ASSUME NEW n \in Nat, NEW s \in SUBSET (1..n), NEW x \in s
    PROVE  /\ Cardinality(s) \in Nat /\ Cardinality(s \ {x}) \in Nat
           /\ Cardinality(s) = Cardinality(s \ {x}) + 1
           /\ s \ {x} \in SUBSET (1..n)
<1>1. IsFiniteSet(s)
  <2>1. IsFiniteSet(1..n)
    BY FS_Interval
  <2> QED
    BY <2>1, FS_Subset
<1>2. Cardinality(s) \in Nat /\ IsFiniteSet(s \ {x}) /\ Cardinality(s \ {x}) = Cardinality(s) - 1
  BY <1>1, FS_RemoveElement, FS_CardinalityType
<1>3. Cardinality(s \ {x}) \in Nat
  BY <1>2, FS_CardinalityType
<1> QED
  BY <1>2, <1>3

\* SumFunction adds up a function whatever the order.
LEMMA SumExists ==
    ASSUME NEW n \in Nat, NEW f \in [1..n -> Int]
    PROVE  \E g : IsSum(g, f, n) /\ SumFunction(f) = g[1..n]
<1> DEFINE D == SUBSET (1..n)
           Pick(s) == CHOOSE x \in s : TRUE
           m == [s \in D |-> Cardinality(s)]
           Body(g, s) == IF s = {} THEN 0 ELSE f[Pick(s)] + g[s \ {Pick(s)}]
           rec == [s \in D |-> [g \in [D -> Int] |-> Body(g, s)]]
           Def(g) == [s \in D |-> Body(g, s)]
           iter == CHOOSE g : g = Def(g)
<1>1. \A s \in D : s # {} => Pick(s) \in s
  BY Zenon
<1>0. ASSUME NEW s \in D, NEW x \in s
      PROVE  /\ Cardinality(s) \in Nat /\ Cardinality(s \ {x}) \in Nat
             /\ Cardinality(s) = Cardinality(s \ {x}) + 1
             /\ s \ {x} \in D /\ x \in 1..n
  <2>1. x \in 1..n
    OBVIOUS
  <2> QED
    BY <2>1, Removed, Zenon
<1>2. m \in [D -> Nat] /\ \A s \in D : m[s] = Cardinality(s)
  <2>1. \A s \in D : Cardinality(s) \in Nat
    <3>1. IsFiniteSet(1..n)
      BY FS_Interval
    <3> QED
      BY <3>1, FS_Subset, FS_CardinalityType
  <2> QED
    BY <2>1
<1> HIDE DEF Pick
<1>3. ASSUME NEW s \in D, s # {}
      PROVE  /\ Pick(s) \in s /\ Pick(s) \in 1..n /\ s \ {Pick(s)} \in D
             /\ m[s \ {Pick(s)}] < m[s] /\ f[Pick(s)] \in Int
  <2>1. PICK x \in s : x = Pick(s)
    BY <1>1, <1>3
  <2>2. x \in 1..n /\ s \ {x} \in D /\ Cardinality(s \ {x}) < Cardinality(s)
    <3>1. s \ {x} \in D /\ x \in 1..n
      BY <1>0, Zenon
    <3>2. PICK a \in Nat, b \in Nat : a = Cardinality(s) /\ b = Cardinality(s \ {x}) /\ a = b + 1
      BY <1>0, Zenon
    <3> QED
      BY <3>1, <3>2
  <2> QED
    BY <1>2, <2>1, <2>2
<1>4. ASSUME NEW s \in D, NEW g \in [D -> Int] PROVE Body(g, s) \in Int
  <2>1. CASE s = {}
    BY <2>1
  <2>2. CASE s # {}
    <3>1. g[s \ {Pick(s)}] \in Int /\ f[Pick(s)] \in Int
      BY <1>3, <2>2
    <3> QED
      BY <2>2, <3>1
  <2> QED
    BY <2>1, <2>2
<1>5. rec \in [D -> [[D -> Int] -> Int]]
  <2> HIDE DEF Body, D
  <2> QED
    BY <1>4
<1>6. ASSUME NEW s \in D, NEW g \in [D -> Int], NEW h \in [D -> Int],
             \A y \in D : m[y] < m[s] => g[y] = h[y]
      PROVE  rec[s][g] = rec[s][h]
  <2>1. CASE s = {}
    BY <2>1
  <2>2. CASE s # {}
    <3>1. g[s \ {Pick(s)}] = h[s \ {Pick(s)}]
      BY <1>3, <1>6, <2>2, Zenon
    <3> QED
      BY <3>1
  <2> QED
    BY <2>1, <2>2
<1>7. PICK h : IsSolution(h, D, Int, rec)
  <2> HIDE DEF rec, m, D
  <2>1. Descends(D, Int, m, rec)
    BY <1>2, <1>5, <1>6 DEF Descends
  <2>2. Int # {}
    OBVIOUS
  <2> QED
    BY <2>1, <2>2, RecursionHasSolution, Zenon
<1>8. h \in [D -> Int] /\ \A s \in D : h[s] = rec[s][h]
  <2> HIDE DEF rec, D
  <2> QED
    BY <1>7, Zenon DEF IsSolution
<1>9. h = Def(h)
  <2>1. \A s \in D : h[s] = Body(h, s)
    <3> HIDE DEF Body
    <3> QED
      BY <1>8
  <2> HIDE DEF D, Body
  <2> QED
    BY <1>8, <2>1
<1>10. iter = Def(iter)
  <2> HIDE DEF Def
  <2> QED
    BY <1>9, Zenon
<1> HIDE DEF iter
<1>11. iter[{}] = 0 /\ \A s \in D : s # {} => iter[s] = f[Pick(s)] + iter[s \ {Pick(s)}]
  <2>1. \A s \in D : iter[s] = Body(iter, s)
    BY <1>10, Zenon
  <2>2. {} \in D
    OBVIOUS
  <2> QED
    BY <2>1, <2>2, Zenon
<1> DEFINE Adds(s) == iter[s] \in Int /\ \A x \in s : iter[s] = f[x] + iter[s \ {x}]
           T == {k \in Nat : \A s \in D : Cardinality(s) <= k => Adds(s)}
<1> HIDE DEF T
<1>12. Adds({})
  BY <1>11
<1>13. 0 \in T
  <2> SUFFICES ASSUME NEW s \in D, Cardinality(s) <= 0 PROVE Adds(s)
    <3> HIDE DEF Adds, D
    <3> QED
      BY DEF T
  <2>1. s = {}
    <3> SUFFICES ASSUME NEW x \in s PROVE FALSE
      OBVIOUS
    <3>1. PICK a \in Nat, b \in Nat : a = Cardinality(s) /\ b = Cardinality(s \ {x}) /\ a = b + 1
      BY <1>0, Zenon
    <3> QED
      BY <3>1
  <2> QED
    BY <1>12, <2>1
<1>14. ASSUME NEW k \in Nat, k \in T PROVE k + 1 \in T
  <2> SUFFICES ASSUME NEW s \in D, Cardinality(s) <= k + 1 PROVE Adds(s)
    <3> HIDE DEF Adds, D
    <3> QED
      BY DEF T
  <2>1. CASE s = {}
    BY <1>12, <2>1
  <2>2. CASE s # {}
    <3>1. ASSUME NEW x \in s
          PROVE  /\ Adds(s \ {x}) /\ f[x] \in Int
                 /\ s \ {x} \in D /\ Cardinality(s \ {x}) <= k
      <4>1. s \ {x} \in D /\ Cardinality(s \ {x}) <= k /\ x \in 1..n
        <5>1. s \ {x} \in D /\ x \in 1..n
          BY <1>0, Zenon
        <5>2. PICK a \in Nat, b \in Nat : a = Cardinality(s) /\ b = Cardinality(s \ {x}) /\ a = b + 1
          BY <1>0, Zenon
        <5> QED
          BY <5>1, <5>2
      <4> QED
        BY <1>14, <4>1 DEF T
    <3>2. PICK y \in s : y = Pick(s)
      BY <1>3, <2>2
    <3>3. iter[s] = f[y] + iter[s \ {y}]
      BY <1>11, <2>2, <3>2
    <3>4. iter[s] \in Int
      <4>1. iter[s \ {y}] \in Int /\ f[y] \in Int
        BY <3>1
      <4> QED
        BY <3>3, <4>1
    <3>5. ASSUME NEW x \in s PROVE iter[s] = f[x] + iter[s \ {x}]
      <4>1. CASE x = y
        BY <3>3, <4>1
      <4>2. CASE x # y
        <5>1. PICK r : r = (s \ {x}) \ {y}
          OBVIOUS
        <5>2. r = (s \ {y}) \ {x} /\ y \in s \ {x} /\ x \in s \ {y}
          BY <4>2, <5>1
        <5>3. iter[s \ {x}] = f[y] + iter[r] /\ iter[s \ {x}] \in Int
          BY <3>1, <5>1, <5>2
        <5>4. iter[s \ {y}] = f[x] + iter[r] /\ iter[s \ {y}] \in Int
          BY <3>1, <5>2
        <5>5. iter[r] \in Int
          <6>1. PICK q \in D : q = s \ {x} /\ Cardinality(q) <= k /\ y \in q /\ r = q \ {y}
            BY <3>1, <5>1, <5>2
          <6>2. r \in D
            BY <1>0, <6>1, Zenon
          <6>3. PICK a \in Nat, b \in Nat : a = Cardinality(q) /\ b = Cardinality(r) /\ a = b + 1
            BY <1>0, <6>1, Zenon
          <6>4. Cardinality(r) <= k
            BY <6>1, <6>3
          <6> QED
            BY <1>14, <6>2, <6>4 DEF T
        <5> QED
          BY <3>1, <3>3, <5>3, <5>4, <5>5
      <4> QED
        BY <4>1, <4>2
    <3> QED
      BY <3>4, <3>5
  <2> QED
    BY <2>1, <2>2
<1>15. ASSUME NEW s \in D PROVE Adds(s)
  <2>1. Cardinality(s) \in Nat
    BY <1>2
  <2>2. Nat \subseteq T
    <3> QED
      BY <1>13, <1>14, SetInduction
  <2>3. Cardinality(s) \in T
    BY <2>1, <2>2
  <2> HIDE DEF Adds, D
  <2> QED
    BY <2>1, <2>3 DEF T
<1>16. IsSum(iter, f, n)
  <2>1. iter \in [D -> Int]
    <3>1. DOMAIN iter = D /\ iter = [s \in D |-> iter[s]]
      <4>1. iter = [s \in D |-> Body(iter, s)]
        BY <1>10
      <4> HIDE DEF Body, D
      <4> QED
        BY <4>1
    <3>2. \A s \in D : iter[s] \in Int
      BY <1>15
    <3> QED
      BY <3>1, <3>2
  <2> QED
    BY <1>11, <1>15, <2>1 DEF IsSum
<1>17. SumFunction(f) = iter[1..n]
  <2>1. DOMAIN f = 1..n
    OBVIOUS
  <2> QED
    BY <2>1 DEF SumFunction, SumFunctionOnSet, FoldFunctionOnSet, MapThenFoldSet, iter, Def, Body, Pick
<1> QED
  BY <1>16, <1>17

Permutes(p, n) ==
    p \in [1..n -> 1..n] /\ \A i \in 1..n, j \in 1..n : i # j => p[i] # p[j]

Image(p, k) == {p[i] : i \in 1..k}

\* A permutation reaches every number once.
LEMMA ImageFacts ==
    ASSUME NEW n \in Nat, NEW p, Permutes(p, n)
    PROVE  /\ Image(p, 0) = {} /\ Image(p, n) = 1..n
           /\ \A k \in 0..n : Image(p, k) \in SUBSET (1..n)
           /\ \A k \in 1..n : p[k] \in Image(p, k) /\ Image(p, k) \ {p[k]} = Image(p, k - 1)
<1>1. Image(p, 0) = {}
  BY DEF Image
<1>2. \A k \in 0..n : Image(p, k) \in SUBSET (1..n)
  BY DEF Image, Permutes
<1>3. ASSUME NEW k \in 1..n
      PROVE  p[k] \in Image(p, k) /\ Image(p, k) \ {p[k]} = Image(p, k - 1)
  <2>1. k \in 1..k /\ \A i \in 1..k : i \in 1..n /\ (i \in 1..(k - 1) <=> i # k)
    OBVIOUS
  <2>2. \A i \in 1..k : p[i] = p[k] <=> i = k
    BY <2>1 DEF Permutes
  <2>3. \A i \in 1..(k - 1) : i \in 1..k
    OBVIOUS
  <2> QED
    BY <2>1, <2>2, <2>3, Zenon DEF Image
<1>4. Image(p, n) = 1..n
  <2>0. IsFiniteSet(1..n)
    BY FS_Interval
  <2>1. p \in Injection(1..n, 1..n)
    <3>1. p \in [1..n -> 1..n] /\ DOMAIN p = 1..n
      BY DEF Permutes
    <3>2. IsInjective(p)
      BY <3>1, Zenon DEF Permutes, IsInjective
    <3> QED
      BY <3>1, <3>2, Zenon DEF Injection
  <2>2. p \in Surjection(1..n, 1..n)
    BY <2>0, <2>1, FS_Injection, Zenon
  <2> QED
    BY <2>2, <1>2 DEF Surjection, Image
<1> QED
  BY <1>1, <1>2, <1>3, <1>4

\* A length that was counted right, or is at least two more than was counted.
SameOrMore(a, b) == a = b \/ a >= b + 2

PartsFit(c, f, p, n) == \A k \in 1..n : SameOrMore(Len(c[k]), f[p[k]])
PartsExact(c, f, p, n) == \A k \in 1..n : Len(c[k]) = f[p[k]]

\* The length of a concatenation, and the sum of the counted lengths of its
\* parts, taken in another order.
LEMMA FlattenLength ==
    ASSUME NEW S, NEW n \in Nat, NEW c \in [1..n -> Seq(S)], NEW p, Permutes(p, n),
           NEW f \in [1..n -> Int], PartsFit(c, f, p, n)
    PROVE  /\ FlattenSeq(c) \in Seq(S) /\ SumFunction(f) \in Int
           /\ SameOrMore(Len(FlattenSeq(c)), SumFunction(f))
           /\ PartsExact(c, f, p, n) => Len(FlattenSeq(c)) = SumFunction(f)
<1>1. PICK h : IsFronts(h, S, n, c)
  BY FlattenSteps, Zenon
<1>2. /\ h \in [0..n -> Seq(S)] /\ h[0] = <<>>
      /\ \A i \in 1..n : h[i] = h[i - 1] \o c[i]
      /\ FlattenSeq(c) = h[n]
  <2>1. n \in 0..n /\ [i \in 1..n |-> c[i]] = c
    OBVIOUS
  <2>2. FlattenSeq([i \in 1..n |-> c[i]]) = h[n]
    BY <1>1, <2>1, Zenon DEF IsFronts
  <2> QED
    BY <1>1, <2>1, <2>2, Zenon DEF IsFronts
<1>3. PICK g : IsSum(g, f, n) /\ SumFunction(f) = g[1..n]
  BY SumExists
<1>4. /\ g \in [SUBSET (1..n) -> Int] /\ g[{}] = 0
      /\ \A s \in SUBSET (1..n) : \A x \in s : g[s] = f[x] + g[s \ {x}]
  BY <1>3 DEF IsSum
<1> DEFINE Exact == PartsExact(c, f, p, n)
           Good(k) == /\ SameOrMore(Len(h[k]), g[Image(p, k)])
                      /\ Exact => Len(h[k]) = g[Image(p, k)]
           T == {k \in Nat : k <= n => Good(k)}
<1>5. Good(0)
  BY <1>2, <1>4, ImageFacts DEF SameOrMore
<1>6. ASSUME NEW k \in Nat, k + 1 <= n, Good(k) PROVE Good(k + 1)
  <2>1. k + 1 \in 1..n /\ (k + 1) - 1 = k /\ k \in 0..n /\ k + 1 \in 0..n
    BY <1>6
  <2>2. PICK s \in SUBSET (1..n) : s = Image(p, k + 1)
    BY <2>1, ImageFacts
  <2>3. p[k + 1] \in s /\ s \ {p[k + 1]} = Image(p, k)
    BY <2>1, <2>2, ImageFacts
  <2>4. g[s] = f[p[k + 1]] + g[Image(p, k)]
    <3>1. PICK x : x = p[k + 1]
      OBVIOUS
    <3>2. g[s] = f[x] + g[s \ {x}]
      BY <1>4, <2>3, <3>1
    <3> QED
      BY <2>3, <3>1, <3>2
  <2>5. PICK a \in Int, b \in Int : a = f[p[k + 1]] /\ b = g[Image(p, k)]
    BY <1>4, <2>1, ImageFacts DEF Permutes
  <2>6. h[k + 1] = h[k] \o c[k + 1] /\ h[k] \in Seq(S) /\ c[k + 1] \in Seq(S)
    BY <1>2, <2>1
  <2>7. PICK i \in Nat, j \in Nat : i = Len(h[k]) /\ j = Len(c[k + 1])
    BY <2>6
  <2>8. Len(h[k + 1]) = i + j
    BY <2>6, <2>7, ConcatProperties
  <2>9. SameOrMore(j, a) /\ (Exact => j = a)
    BY <2>1, <2>5, <2>7 DEF PartsFit, PartsExact
  <2>10. SameOrMore(i, b) /\ (Exact => i = b)
    BY <1>6, <2>5, <2>7
  <2> HIDE DEF Exact
  <2>11. SameOrMore(i + j, a + b) /\ (Exact => i + j = a + b)
    BY <2>9, <2>10 DEF SameOrMore
  <2> QED
    BY <2>2, <2>4, <2>5, <2>8, <2>11
<1>7. Good(n)
  <2> HIDE DEF Good
  <2>1. 0 \in T /\ \A k \in Nat : k \in T => k + 1 \in T
    BY <1>5, <1>6
  <2>2. n \in T
    <3> HIDE DEF T
    <3> QED
      BY <2>1, SetInduction
  <2> QED
    BY <2>2
<1>8. g[1..n] \in Int /\ Image(p, n) = 1..n /\ h[n] \in Seq(S)
  BY <1>2, <1>4, ImageFacts
<1> QED
  BY <1>2, <1>3, <1>7, <1>8

\* The length of a text in three parts.
LEMMA ThreeParts ==
    ASSUME NEW S, NEW a \in Seq(S), NEW b \in Seq(S), NEW c \in Seq(S)
    PROVE  a \o b \o c \in Seq(S) /\ Len(a \o b \o c) = Len(a) + Len(b) + Len(c)
<1>1. PICK x : x = a \o b
  OBVIOUS
<1>2. x \in Seq(S) /\ Len(x) = Len(a) + Len(b)
  BY <1>1, ConcatProperties
<1>3. x \o c \in Seq(S) /\ Len(x \o c) = Len(x) + Len(c)
  BY <1>2, ConcatProperties
<1> QED
  BY <1>1, <1>2, <1>3

\* A flattened sequence has elements of the same set.
LEMMA FlattenType ==
    ASSUME NEW S, NEW n \in Nat, NEW c \in [1..n -> Seq(S)]
    PROVE  FlattenSeq(c) \in Seq(S)
<1>1. PICK h : IsFronts(h, S, n, c)
  BY FlattenSteps, Zenon
<1>2. n \in 0..n /\ [i \in 1..n |-> c[i]] = c
  OBVIOUS
<1>3. FlattenSeq([i \in 1..n |-> c[i]]) = h[n] /\ h[n] \in Seq(S)
  BY <1>1, <1>2, Zenon DEF IsFronts
<1> QED
  BY <1>2, <1>3, Zenon
==============================================================================
