---------------------------- MODULE HashtableProofs ----------------------------
(*****************************************************************************)
(* Proofs about Hashtable, for any keys, values and hashes, and any bounds.  *)
(*****************************************************************************)
EXTENDS Hashtable, ProofFacts, TLAPS

-----------------------------------------------------------------------------
(* Tables.  t is a table of n chains; its entries, chain by chain.           *)

IsTable(t, n) == n \in Nat \ {0} /\ t \in [0..(n - 1) -> Seq(Entry)]

\* WellPlaced, of any table.
Placed(t, n) ==
    \A i \in 0..(n - 1) :
        \A x \in DOMAIN t[i] :
            /\ Index(t[i][x].key, n) = i
            /\ \A y \in DOMAIN t[i] : t[i][x].key = t[i][y].key => x = y

\* The entries of the first i chains, in order.
Upto(t, i) == FlattenSeq([x \in 1..i |-> t[x - 1]])

\* The set of them.
Below(t, i) == UNION {ToSet(t[j]) : j \in 0..(i - 1)}

LEMMA IndexInTable ==
    ASSUME NEW k \in Keys, NEW n \in Nat \ {0}
    PROVE  Index(k, n) \in 0..(n - 1)
<1>1. Hash[k] \in Int
  BY HashtableAssumption
<1>2. PICK h \in Nat : Index(k, n) = h % n
  BY <1>1 DEF Index, HashFunction
<1> QED
  BY <1>2

LEMMA UptoSteps ==
    ASSUME NEW t, NEW n, IsTable(t, n)
    PROVE  /\ Upto(t, 0) = <<>>
           /\ \A i \in 0..n : Upto(t, i) \in Seq(Entry)
           /\ \A i \in 0..(n - 1) : Upto(t, i + 1) = Upto(t, i) \o t[i]
<1> DEFINE c == [x \in 1..n |-> t[x - 1]]
<1>1. n \in Nat /\ c \in [1..n -> Seq(Entry)]
  BY DEF IsTable
<1>2. PICK f : IsFronts(f, Entry, n, c)
  <2> HIDE DEF c
  <2> QED
    BY <1>1, FlattenSteps, Zenon
<1>3. ASSUME NEW k \in 0..n PROVE Upto(t, k) = f[k]
  <2>1. \A x \in 1..k : x \in 1..n
    BY <1>1
  <2>2. [x \in 1..k |-> c[x]] = [x \in 1..k |-> t[x - 1]]
    BY <2>1
  <2>3. FlattenSeq([x \in 1..k |-> c[x]]) = f[k]
    BY <1>2 DEF IsFronts
  <2> QED
    BY <2>2, <2>3 DEF Upto
<1>4. f \in [0..n -> Seq(Entry)] /\ f[0] = <<>> /\ \A i \in 1..n : f[i] = f[i - 1] \o c[i]
  BY <1>2 DEF IsFronts
<1>5. ASSUME NEW i \in 0..(n - 1) PROVE Upto(t, i + 1) = Upto(t, i) \o t[i]
  <2>1. i + 1 \in 1..n /\ (i + 1) - 1 = i /\ c[i + 1] = t[i]
    BY <1>1
  <2>2. f[i + 1] = f[i] \o c[i + 1]
    BY <1>4, <2>1
  <2>3. i \in 0..n /\ i + 1 \in 0..n
    BY <1>1
  <2> QED
    BY <1>3, <2>1, <2>2, <2>3, Zenon
<1> QED
  BY <1>1, <1>3, <1>4, <1>5

LEMMA UptoElements ==
    ASSUME NEW t, NEW n, IsTable(t, n)
    PROVE  \A i \in 0..n : ToSet(Upto(t, i)) = Below(t, i)
<1> DEFINE T == {i \in Nat : i <= n => ToSet(Upto(t, i)) = Below(t, i)}
<1>1. n \in Nat
  BY DEF IsTable
<1>2. 0 \in T
  <2>1. Upto(t, 0) = <<>> /\ Below(t, 0) = {}
    BY UptoSteps DEF Below
  <2>2. ToSet(<<>>) = {}
    BY DEF ToSet
  <2> QED
    BY <2>1, <2>2
<1>3. ASSUME NEW i \in Nat, i \in T, i + 1 <= n
      PROVE  ToSet(Upto(t, i + 1)) = Below(t, i + 1)
  <2>1. i \in 0..n /\ i \in 0..(n - 1)
    BY <1>1, <1>3
  <2>2. Upto(t, i + 1) = Upto(t, i) \o t[i] /\ Upto(t, i) \in Seq(Entry)
    BY <2>1, UptoSteps
  <2>3. t[i] \in Seq(Entry)
    BY <2>1 DEF IsTable
  <2>4. ToSet(Upto(t, i + 1)) = ToSet(Upto(t, i)) \cup ToSet(t[i])
    BY <2>2, <2>3, ToSetConcat
  <2>5. ToSet(Upto(t, i)) = Below(t, i)
    BY <1>1, <1>3
  <2>6. Below(t, i + 1) = Below(t, i) \cup ToSet(t[i])
    <3>1. 0..((i + 1) - 1) = 0..(i - 1) \cup {i}
      OBVIOUS
    <3> QED
      BY <3>1, Zenon DEF Below
  <2> QED
    BY <2>4, <2>5, <2>6
<1>4. ASSUME NEW i \in Nat, i \in T PROVE i + 1 \in T
  <2>1. CASE i + 1 <= n
    BY <1>3, <1>4, <2>1
  <2>2. CASE ~(i + 1 <= n)
    BY <2>2
  <2> QED
    BY <2>1, <2>2
<1>5. Nat \subseteq T
  <2> HIDE DEF T
  <2> QED
    BY <1>2, <1>4, SetInduction
<1> QED
  BY <1>1, <1>5

\* The entries of a sequence all have different keys.
Distinct(s) == \A p, q \in 1..Len(s) : s[p].key = s[q].key => p = q

LEMMA DistinctConcat ==
    ASSUME NEW r \in Seq(Entry), NEW s \in Seq(Entry), Distinct(r),
           \A x, y \in 1..Len(s) : s[x].key = s[y].key => x = y,
           \A p \in 1..Len(r) : \A x \in 1..Len(s) : r[p].key # s[x].key
    PROVE  Distinct(r \o s)
<1>1. Len(r) \in Nat /\ Len(s) \in Nat /\ Len(r \o s) = Len(r) + Len(s)
  BY ConcatProperties
<1>2. \A i \in 1..(Len(r) + Len(s)) : (r \o s)[i] = IF i <= Len(r) THEN r[i] ELSE s[i - Len(r)]
  BY ConcatProperties
<1> SUFFICES ASSUME NEW p \in 1..(Len(r) + Len(s)), NEW q \in 1..(Len(r) + Len(s)),
                    (r \o s)[p].key = (r \o s)[q].key
             PROVE  p = q
  BY <1>1 DEF Distinct
<1>4. CASE p <= Len(r) /\ q <= Len(r)
  <2>1. r[p].key = r[q].key /\ p \in 1..Len(r) /\ q \in 1..Len(r)
    BY <1>2, <1>4
  <2> QED
    BY <2>1 DEF Distinct
<1>5. CASE ~(p <= Len(r)) /\ ~(q <= Len(r))
  <2>1. s[p - Len(r)].key = s[q - Len(r)].key
    BY <1>2, <1>5
  <2>2. p - Len(r) \in 1..Len(s) /\ q - Len(r) \in 1..Len(s)
    BY <1>1, <1>5
  <2>3. p - Len(r) = q - Len(r)
    BY <2>1, <2>2
  <2> QED
    BY <1>1, <2>3
<1>6. CASE p <= Len(r) /\ ~(q <= Len(r))
  <2>1. r[p].key = s[q - Len(r)].key
    BY <1>2, <1>6
  <2>2. p \in 1..Len(r) /\ q - Len(r) \in 1..Len(s)
    BY <1>1, <1>6
  <2> QED
    BY <2>1, <2>2
<1>7. CASE ~(p <= Len(r)) /\ q <= Len(r)
  <2>1. r[q].key = s[p - Len(r)].key
    BY <1>2, <1>7
  <2>2. q \in 1..Len(r) /\ p - Len(r) \in 1..Len(s)
    BY <1>1, <1>7
  <2> QED
    BY <2>1, <2>2
<1> QED
  BY <1>4, <1>5, <1>6, <1>7

LEMMA UptoDistinct ==
    ASSUME NEW t, NEW n, IsTable(t, n), Placed(t, n)
    PROVE  \A i \in 0..n : Distinct(Upto(t, i))
<1> DEFINE T == {i \in Nat : i <= n => Distinct(Upto(t, i))}
<1>1. n \in Nat
  BY DEF IsTable
<1>2. 0 \in T
  BY UptoSteps DEF Distinct
<1>3. ASSUME NEW i \in Nat, i \in T, i + 1 <= n
      PROVE  Distinct(Upto(t, i + 1))
  <2>1. i \in 0..n /\ i \in 0..(n - 1)
    BY <1>1, <1>3
  <2>2. PICK r, s : r = Upto(t, i) /\ s = t[i]
    OBVIOUS
  <2>3. Upto(t, i + 1) = r \o s /\ r \in Seq(Entry) /\ s \in Seq(Entry)
    BY <2>1, <2>2, UptoSteps DEF IsTable
  <2>4. Distinct(r)
    BY <1>1, <1>3, <2>2
  <2>5. \A x \in 1..Len(s) : /\ Index(s[x].key, n) = i
                             /\ \A y \in 1..Len(s) : s[x].key = s[y].key => x = y
    <3>1. DOMAIN s = 1..Len(s)
      BY <2>3
    <3> QED
      BY <2>1, <2>2, <3>1 DEF Placed
  <2>6. \A p \in 1..Len(r) : Index(r[p].key, n) # i
    <3> SUFFICES ASSUME NEW p \in 1..Len(r) PROVE Index(r[p].key, n) # i
      OBVIOUS
    <3>1. r[p] \in ToSet(r)
      BY <2>3 DEF ToSet
    <3>2. PICK j \in 0..(i - 1) : r[p] \in ToSet(t[j])
      BY <2>1, <2>2, <3>1, UptoElements DEF Below
    <3>3. j \in 0..(n - 1) /\ j # i
      BY <1>1, <2>1
    <3>4. PICK x \in DOMAIN t[j] : r[p] = t[j][x]
      BY <3>2 DEF ToSet
    <3>5. Index(t[j][x].key, n) = j
      BY <3>3 DEF Placed
    <3> QED
      BY <3>3, <3>4, <3>5
  <2>7. \A p \in 1..Len(r) : \A x \in 1..Len(s) : r[p].key # s[x].key
    BY <2>5, <2>6
  <2>8. Distinct(r \o s)
    BY <2>3, <2>4, <2>5, <2>7, DistinctConcat
  <2> QED
    BY <2>3, <2>8
<1>4. ASSUME NEW i \in Nat, i \in T PROVE i + 1 \in T
  <2>1. CASE i + 1 <= n
    BY <1>3, <1>4, <2>1
  <2>2. CASE ~(i + 1 <= n)
    BY <2>2
  <2> QED
    BY <2>1, <2>2
<1>5. Nat \subseteq T
  <2> HIDE DEF T
  <2> QED
    BY <1>2, <1>4, SetInduction
<1> QED
  BY <1>1, <1>5

\* No two entries of a table have the same key.
LEMMA KeysOnce ==
    ASSUME NEW t, NEW n, IsTable(t, n), Placed(t, n),
           NEW e \in Below(t, n), NEW f \in Below(t, n), e.key = f.key
    PROVE  e = f
<1>1. PICK i \in 0..(n - 1) : e \in ToSet(t[i])
  BY DEF Below
<1>2. PICK j \in 0..(n - 1) : f \in ToSet(t[j])
  BY DEF Below
<1>3. PICK x \in DOMAIN t[i] : e = t[i][x]
  BY <1>1 DEF ToSet
<1>4. PICK y \in DOMAIN t[j] : f = t[j][y]
  BY <1>2 DEF ToSet
<1>5. Index(t[i][x].key, n) = i /\ Index(t[j][y].key, n) = j
  BY DEF Placed
<1>6. i = j
  BY <1>3, <1>4, <1>5
<1>7. x = y
  BY <1>3, <1>4, <1>6 DEF Placed
<1> QED
  BY <1>3, <1>4, <1>6, <1>7

\* What the loop over a chain finds.
LEMMA FindFacts ==
    ASSUME NEW chain \in Seq(Entry), NEW k
    PROVE  /\ Find(chain, k) \in 0..Len(chain)
           /\ Find(chain, k) = 0 => \A x \in 1..Len(chain) : chain[x].key # k
           /\ Find(chain, k) # 0 => chain[Find(chain, k)].key = k
<1> DEFINE I == {i \in 1..Len(chain) : chain[i].key = k}
<1>1. Find(chain, k) = IF I # {} THEN Min(I) ELSE 0
  BY DEF Find, SelectInSeq
<1>2. CASE I = {}
  BY <1>1, <1>2
<1>3. CASE I # {}
  <2>1. I \subseteq Nat
    OBVIOUS
  <2>2. \E m \in I : \A i \in I : m <= i
    <3> HIDE DEF I
    <3> QED
      BY <1>3, <2>1, LeastNumber
  <2>3. Min(I) \in I
    <3> HIDE DEF I
    <3> QED
      BY <2>2 DEF Min
  <2> QED
    BY <1>1, <1>3, <2>3
<1> QED
  BY <1>2, <1>3

\* An entry with a new key at the end of its chain.
LEMMA InsertFacts ==
    ASSUME NEW t, NEW n, IsTable(t, n), Placed(t, n), NEW e \in Entry,
           \A f \in Below(t, n) : f.key # e.key
    PROVE  /\ IsTable(HtInsert(t, e, n), n)
           /\ Placed(HtInsert(t, e, n), n)
           /\ Below(HtInsert(t, e, n), n) = Below(t, n) \cup {e}
<1> DEFINE j == Index(e.key, n)
           u == HtInsert(t, e, n)
<1>1. j \in 0..(n - 1) /\ n \in Nat \ {0}
  BY IndexInTable DEF IsTable, Entry
<1>2. PICK r : r = t[j] /\ r \in Seq(Entry)
  BY <1>1 DEF IsTable
<1>3. u = [t EXCEPT ![j] = Append(r, e)]
  BY <1>2 DEF HtInsert
<1>9. j = Index(e.key, n)
  OBVIOUS
<1> HIDE DEF u, j
<1>4. Append(r, e) \in Seq(Entry)
  BY <1>2
<1>5. IsTable(u, n)
  BY <1>1, <1>3, <1>4 DEF IsTable
<1>6. \A i \in 0..(n - 1) : u[i] = IF i = j THEN Append(r, e) ELSE t[i]
  BY <1>1, <1>3 DEF IsTable
<1>7. Placed(u, n)
  <2> SUFFICES ASSUME NEW i \in 0..(n - 1), NEW x \in DOMAIN u[i]
               PROVE  /\ Index(u[i][x].key, n) = i
                      /\ \A y \in DOMAIN u[i] : u[i][x].key = u[i][y].key => x = y
    BY DEF Placed
  <2>1. CASE i # j
    <3>1. u[i] = t[i]
      BY <1>6, <2>1
    <3> QED
      BY <3>1 DEF Placed
  <2>2. CASE i = j
    <3>0. u[i] = Append(r, e)
      BY <1>6, <2>2, Zenon
    <3>1. u[i] = Append(r, e) /\ DOMAIN r = 1..Len(r) /\ Len(r) \in Nat
      BY <1>2, <3>0
    <3>2. /\ DOMAIN u[i] = 1..(Len(r) + 1)
          /\ \A y \in 1..(Len(r) + 1) : u[i][y] = IF y = Len(r) + 1 THEN e ELSE r[y]
      BY <1>2, <3>1
    <3>3. \A y \in 1..Len(r) : Index(r[y].key, n) = j /\ r[y].key # e.key
      <4> SUFFICES ASSUME NEW y \in 1..Len(r) PROVE Index(r[y].key, n) = j /\ r[y].key # e.key
        OBVIOUS
      <4>1. y \in DOMAIN t[j] /\ r[y] = t[j][y]
        BY <1>2, <3>1
      <4>2. r[y] \in Below(t, n)
        BY <1>1, <4>1 DEF Below, ToSet
      <4> QED
        BY <1>1, <4>1, <4>2 DEF Placed
    <3>4. \A y, z \in 1..Len(r) : r[y].key = r[z].key => y = z
      BY <1>1, <1>2, <3>1 DEF Placed
    <3>5. Index(u[i][x].key, n) = i
      BY <1>9, <2>2, <3>1, <3>2, <3>3
    <3>6. ASSUME NEW y \in DOMAIN u[i], u[i][x].key = u[i][y].key PROVE x = y
      BY <3>1, <3>2, <3>3, <3>4, <3>6
    <3> QED
      BY <3>5, <3>6
  <2> QED
    BY <2>1, <2>2
<1>8. Below(u, n) = Below(t, n) \cup {e}
  <2>1. ToSet(Append(r, e)) = ToSet(r) \cup {e}
    <3>0. <<e>> \in Seq(Entry)
      OBVIOUS
    <3>1. ToSet(r \o <<e>>) = ToSet(r) \cup ToSet(<<e>>)
      BY <1>2, <3>0, ToSetConcat, Zenon
    <3>2. r \o <<e>> = Append(r, e)
      BY <1>2, AppendIsConcat
    <3>3. ToSet(<<e>>) = {e}
      BY DEF ToSet
    <3> QED
      BY <3>1, <3>2, <3>3
  <2>2. ASSUME NEW i \in 0..(n - 1)
        PROVE  ToSet(u[i]) = IF i = j THEN ToSet(t[i]) \cup {e} ELSE ToSet(t[i])
    BY <1>2, <1>6, <2>1
  <2> QED
    BY <1>1, <2>2 DEF Below
<1> QED
  BY <1>5, <1>7, <1>8 DEF u
LEMMA GrowFacts ==
    ASSUME IsTable(table, cap), WellPlaced, NEW n \in Nat \ {0}
    PROVE  /\ IsTable(GrowTable(n), n)
           /\ Placed(GrowTable(n), n)
           /\ Below(GrowTable(n), n) = Below(table, cap)
<1>1. PICK s : s = Entries
  OBVIOUS
<1>2. Entries = Upto(table, cap) /\ cap \in 0..cap /\ Placed(table, cap)
  BY DEF Entries, Upto, WellPlaced, Placed, IsTable
<1>3. s \in Seq(Entry) /\ Distinct(s) /\ ToSet(s) = Below(table, cap)
  BY <1>1, <1>2, UptoSteps, UptoDistinct, UptoElements
<1>4. PICK L \in Nat : L = Len(s) /\ DOMAIN s = 1..L
  BY <1>3
<1>5. \A m \in 1..L : s[m] \in Entry
  BY <1>3, <1>4
<1> DEFINE V == [0..(n - 1) -> Seq(Entry)]
           none == [j \in 0..(n - 1) |-> <<>>]
           step == [t \in V |-> [m \in 1..L |-> HtInsert(t, s[m], n)]]
           Def(g) == [m \in 0..L |-> IF m = 0 THEN none ELSE HtInsert(g[m - 1], s[m], n)]
           moved == CHOOSE g : g = Def(g)
<1>6. none \in V
  OBVIOUS
<1>7. step \in [V -> [1..L -> V]]
  <2> SUFFICES ASSUME NEW t \in V, NEW m \in 1..L PROVE HtInsert(t, s[m], n) \in V
    OBVIOUS
  <2>1. s[m] \in Entry /\ Index(s[m].key, n) \in 0..(n - 1)
    BY <1>5, IndexInTable DEF Entry
  <2>2. t[Index(s[m].key, n)] \in Seq(Entry)
    BY <2>1
  <2>3. Append(t[Index(s[m].key, n)], s[m]) \in Seq(Entry)
    BY <2>1, <2>2
  <2> QED
    BY <2>1, <2>3 DEF HtInsert
<1>8. PICK f : IsRun(f, V, L, none, step)
  <2> HIDE DEF V, none, step
  <2> QED
    BY <1>6, <1>7, Iterate, Zenon
<1>9. f = Def(f)
  <2>1. f \in [0..L -> V] /\ f[0] = none /\ \A m \in 1..L : f[m] = step[f[m - 1]][m]
    <3> HIDE DEF V, none, step
    <3> QED
      BY <1>8, Zenon DEF IsRun
  <2>2. ASSUME NEW m \in 0..L
        PROVE  f[m] = IF m = 0 THEN none ELSE HtInsert(f[m - 1], s[m], n)
    <3>1. CASE m = 0
      BY <2>1, <3>1
    <3>2. CASE m # 0
      <4>1. m \in 1..L /\ m - 1 \in 0..L
        BY <3>2
      <4>2. f[m - 1] \in V /\ f[m] = step[f[m - 1]][m]
        <5> HIDE DEF V, none, step
        <5> QED
          BY <2>1, <4>1, Zenon
      <4>3. step[f[m - 1]][m] = HtInsert(f[m - 1], s[m], n)
        <5> HIDE DEF V
        <5> QED
          BY <4>1, <4>2, Zenon
      <4> QED
        BY <3>2, <4>2, <4>3, Zenon
    <3> QED
      BY <3>1, <3>2
  <2>3. DOMAIN f = 0..L
    <3> HIDE DEF V
    <3> QED
      BY <2>1
  <2>4. f = [m \in 0..L |-> f[m]]
    <3> HIDE DEF V
    <3> QED
      BY <2>1
  <2> HIDE DEF none
  <2> QED
    BY <2>2, <2>4, Zenon
<1>10. moved = Def(moved)
  BY <1>9, Zenon
<1>11. GrowTable(n) = moved[L]
  BY <1>1, <1>4, Zenon DEF GrowTable
<1> HIDE DEF moved
<1>12. moved[0] = none /\ \A m \in 1..L : moved[m] = HtInsert(moved[m - 1], s[m], n)
  <2>1. \A m \in 0..L : moved[m] = IF m = 0 THEN none ELSE HtInsert(moved[m - 1], s[m], n)
    BY <1>10, Zenon
  <2>2. 0 \in 0..L /\ \A m \in 1..L : m \in 0..L /\ m # 0
    OBVIOUS
  <2> QED
    BY <2>1, <2>2, Zenon
<1> DEFINE Done(m) == /\ IsTable(moved[m], n) /\ Placed(moved[m], n)
                      /\ Below(moved[m], n) = {s[p] : p \in 1..m}
           T == {m \in Nat : m <= L => Done(m)}
<1>13. 0 \in T
  <2>1. IsTable(none, n) /\ Placed(none, n)
    BY <1>6 DEF IsTable, Placed
  <2>2. Below(none, n) = {}
    BY DEF Below, ToSet
  <2> HIDE DEF none
  <2> QED
    BY <1>12, <2>1, <2>2
<1>14. ASSUME NEW m \in Nat, m \in T, m + 1 <= L PROVE Done(m + 1)
  <2>1. Done(m) /\ m + 1 \in 1..L /\ (m + 1) - 1 = m
    BY <1>14
  <2>2. moved[m + 1] = HtInsert(moved[m], s[m + 1], n) /\ s[m + 1] \in Entry
    BY <1>5, <1>12, <2>1
  <2>3. \A e \in Below(moved[m], n) : e.key # s[m + 1].key
    <3> SUFFICES ASSUME NEW p \in 1..m PROVE s[p].key # s[m + 1].key
      BY <2>1
    <3>1. p \in 1..L /\ p # m + 1
      BY <2>1
    <3> QED
      BY <1>3, <1>4, <2>1, <3>1 DEF Distinct
  <2>4. /\ IsTable(moved[m + 1], n) /\ Placed(moved[m + 1], n)
        /\ Below(moved[m + 1], n) = Below(moved[m], n) \cup {s[m + 1]}
    BY <2>1, <2>2, <2>3, InsertFacts
  <2>5. {s[p] : p \in 1..(m + 1)} = {s[p] : p \in 1..m} \cup {s[m + 1]}
    <3>1. 1..(m + 1) = 1..m \cup {m + 1}
      OBVIOUS
    <3> QED
      BY <3>1
  <2> QED
    BY <2>1, <2>4, <2>5
<1>15. ASSUME NEW m \in Nat, m \in T PROVE m + 1 \in T
  <2> HIDE DEF Done
  <2> QED
    BY <1>14, <1>15
<1>16. L \in T
  <2> HIDE DEF T
  <2> QED
    BY <1>13, <1>15, SetInduction
<1>17. {s[p] : p \in 1..L} = ToSet(s)
  BY <1>4 DEF ToSet
<1>18. Done(L)
  <2> HIDE DEF Done
  <2> QED
    BY <1>16
<1> QED
  BY <1>3, <1>11, <1>17, <1>18, Zenon
\* The table in which entry e replaces the one at place x of its chain.
Replaced(t, n, x, e) ==
    [t EXCEPT ![Index(e.key, n)] = ReplaceAt(t[Index(e.key, n)], x, e)]

\* The table without the entry at place x of the chain of k.
Unlinked(t, n, x, k) == [t EXCEPT ![Index(k, n)] = Unlink(t[Index(k, n)], x)]

LEMMA ReplaceFacts ==
    ASSUME NEW t, NEW n, IsTable(t, n), Placed(t, n), NEW e \in Entry,
           NEW x \in 1..Len(t[Index(e.key, n)]), t[Index(e.key, n)][x].key = e.key
    PROVE  /\ IsTable(Replaced(t, n, x, e), n)
           /\ Placed(Replaced(t, n, x, e), n)
           /\ Below(Replaced(t, n, x, e), n) = {f \in Below(t, n) : f.key # e.key} \cup {e}
<1> SUFFICES ASSUME NEW j, j = Index(e.key, n),
                    NEW u, u = [t EXCEPT ![j] = ReplaceAt(t[j], x, e)]
             PROVE  /\ IsTable(u, n)
                    /\ Placed(u, n)
                    /\ Below(u, n) = {f \in Below(t, n) : f.key # e.key} \cup {e}
  BY DEF Replaced
<1>1. j \in 0..(n - 1) /\ n \in Nat \ {0}
  BY IndexInTable DEF IsTable, Entry
<1>2. PICK r : r = t[j] /\ r \in Seq(Entry)
  BY <1>1 DEF IsTable
<1>3. PICK s : s = [r EXCEPT ![x] = e]
  OBVIOUS
<1>4. /\ s \in Seq(Entry) /\ DOMAIN s = 1..Len(r) /\ DOMAIN r = 1..Len(r) /\ x \in 1..Len(r)
      /\ \A y \in 1..Len(r) : s[y] = IF y = x THEN e ELSE r[y]
  BY <1>2, <1>3
<1>5. u = [t EXCEPT ![j] = s]
  BY <1>2, <1>3 DEF ReplaceAt
<1>6. IsTable(u, n)
  BY <1>1, <1>4, <1>5 DEF IsTable
<1>7. \A i \in 0..(n - 1) : u[i] = IF i = j THEN s ELSE t[i]
  BY <1>1, <1>5 DEF IsTable
<1>8. \A y \in 1..Len(r) : /\ s[y].key = r[y].key
                           /\ Index(r[y].key, n) = j
                           /\ \A z \in 1..Len(r) : r[y].key = r[z].key => y = z
  BY <1>1, <1>2, <1>4 DEF Placed
<1>9. Placed(u, n)
  <2> SUFFICES ASSUME NEW i \in 0..(n - 1), NEW y \in DOMAIN u[i]
               PROVE  /\ Index(u[i][y].key, n) = i
                      /\ \A z \in DOMAIN u[i] : u[i][y].key = u[i][z].key => y = z
    BY DEF Placed
  <2>1. CASE i # j
    <3>1. u[i] = t[i]
      BY <1>7, <2>1
    <3> QED
      BY <3>1 DEF Placed
  <2>2. CASE i = j
    <3>1. u[i] = s /\ y \in 1..Len(r)
      BY <1>4, <1>7, <2>2
    <3> QED
      BY <1>4, <1>8, <2>2, <3>1
  <2> QED
    BY <2>1, <2>2
<1>11. ToSet(s) = {f \in ToSet(r) : f.key # e.key} \cup {e}
  <2>1. \A y \in 1..Len(r) : y # x => r[y].key # e.key
    BY <1>2, <1>4, <1>8
  <2> QED
    BY <1>2, <1>4, <2>1 DEF ToSet
<1>12. ASSUME NEW i \in 0..(n - 1), i # j, NEW f \in ToSet(t[i]) PROVE f.key # e.key
  <2>1. PICK y \in DOMAIN t[i] : f = t[i][y]
    BY <1>12 DEF ToSet
  <2> QED
    BY <1>12, <2>1 DEF Placed
<1>13. ASSUME NEW i \in 0..(n - 1)
       PROVE  ToSet(u[i]) = {f \in ToSet(t[i]) : f.key # e.key} \cup (IF i = j THEN {e} ELSE {})
  BY <1>2, <1>7, <1>11, <1>12
<1> QED
  BY <1>1, <1>6, <1>9, <1>13 DEF Below

LEMMA UnlinkFacts ==
    ASSUME NEW t, NEW n, IsTable(t, n), Placed(t, n), NEW k \in Keys,
           NEW x \in 1..Len(t[Index(k, n)]), t[Index(k, n)][x].key = k
    PROVE  /\ IsTable(Unlinked(t, n, x, k), n)
           /\ Placed(Unlinked(t, n, x, k), n)
           /\ Below(Unlinked(t, n, x, k), n) = {f \in Below(t, n) : f.key # k}
<1> SUFFICES ASSUME NEW j, j = Index(k, n), NEW u, u = [t EXCEPT ![j] = Unlink(t[j], x)]
             PROVE  /\ IsTable(u, n)
                    /\ Placed(u, n)
                    /\ Below(u, n) = {f \in Below(t, n) : f.key # k}
  BY DEF Unlinked
<1>1. j \in 0..(n - 1) /\ n \in Nat \ {0}
  BY IndexInTable DEF IsTable
<1>2. PICK r : r = t[j] /\ r \in Seq(Entry)
  BY <1>1 DEF IsTable
<1>3. PICK s : s = Unlink(r, x)
  OBVIOUS
<1>4. Len(r) \in Nat /\ DOMAIN r = 1..Len(r) /\ x \in 1..Len(r)
  BY <1>2
<1>5. /\ s \in Seq(Entry) /\ Len(s) = Len(r) - 1 /\ DOMAIN s = 1..(Len(r) - 1)
      /\ \A y \in 1..(Len(r) - 1) : s[y] = IF y < x THEN r[y] ELSE r[y + 1]
  <2>1. s = SubSeq(r, 1, x - 1) \o SubSeq(r, x + 1, Len(r))
    BY <1>3 DEF Unlink, RemoveAt
  <2>2. PICK a, b : a = SubSeq(r, 1, x - 1) /\ b = SubSeq(r, x + 1, Len(r))
    OBVIOUS
  <2>3. a \in Seq(Entry) /\ Len(a) = x - 1 /\ \A y \in 1..(x - 1) : a[y] = r[y]
    BY <1>2, <1>4, <2>2
  <2>4. b \in Seq(Entry) /\ Len(b) = Len(r) - x /\ \A y \in 1..(Len(r) - x) : b[y] = r[y + x]
    <3>1. PICK l, m : l = Len(r) /\ m = x + 1
      OBVIOUS
    <3>2. l \in Nat /\ m \in 1..(l + 1) /\ x \in 1..l /\ r \in Seq(Entry) /\ l = Len(r)
      BY <1>2, <1>4, <3>1
    <3>3. b = SubSeq(r, m, l)
      BY <2>2, <3>1, Zenon
    <3>4. b \in Seq(Entry)
      BY <3>2, <3>3
    <3>5. Len(b) = l - x
      BY <3>1, <3>2, <3>3
    <3>6. ASSUME NEW y \in 1..(l - x) PROVE b[y] = r[y + x]
      <4>1. y \in 1..(l - m + 1)
        BY <3>1, <3>2
      <4>2. SubSeq(r, m, l)[y] = r[m + y - 1]
        BY <3>2, <4>1
      <4>3. m + y - 1 = y + x
        BY <3>1, <3>2
      <4> QED
        BY <3>3, <4>2, <4>3, Zenon
    <3> QED
      BY <3>1, <3>4, <3>5, <3>6
  <2>5. s = a \o b
    BY <2>1, <2>2
  <2>6. /\ s \in Seq(Entry) /\ Len(s) = Len(r) - 1
        /\ \A y \in 1..(Len(r) - 1) : s[y] = IF y <= x - 1 THEN a[y] ELSE b[y - (x - 1)]
    <3>1. /\ s \in Seq(Entry) /\ Len(s) = Len(a) + Len(b)
          /\ \A y \in 1..(Len(a) + Len(b)) : s[y] = IF y <= Len(a) THEN a[y] ELSE b[y - Len(a)]
      BY <2>3, <2>4, <2>5, ConcatProperties, Zenon
    <3>2. Len(a) + Len(b) = Len(r) - 1
      BY <1>4, <2>3, <2>4
    <3> QED
      BY <2>3, <3>1, <3>2
  <2>7. ASSUME NEW y \in 1..(Len(r) - 1) PROVE s[y] = IF y < x THEN r[y] ELSE r[y + 1]
    <3>1. CASE y < x
      BY <1>4, <2>3, <2>6, <3>1
    <3>2. CASE ~(y < x)
      <4>1. y - (x - 1) \in 1..(Len(r) - x) /\ (y - (x - 1)) + x = y + 1 /\ ~(y <= x - 1)
        BY <1>4, <3>2
      <4>2. b[y - (x - 1)] = r[y + 1]
        BY <2>4, <4>1
      <4> QED
        BY <2>6, <3>2, <4>1, <4>2
    <3> QED
      BY <3>1, <3>2
  <2> QED
    BY <2>6, <2>7
<1>6. u = [t EXCEPT ![j] = s]
  BY <1>2, <1>3
<1>7. IsTable(u, n)
  BY <1>1, <1>5, <1>6 DEF IsTable
<1>8. \A i \in 0..(n - 1) : u[i] = IF i = j THEN s ELSE t[i]
  BY <1>1, <1>6 DEF IsTable
<1>9. \A y \in 1..Len(r) : /\ Index(r[y].key, n) = j
                           /\ \A z \in 1..Len(r) : r[y].key = r[z].key => y = z
  BY <1>1, <1>2, <1>4 DEF Placed
<1> DEFINE From(y) == IF y < x THEN y ELSE y + 1
<1>10. ASSUME NEW y \in 1..(Len(r) - 1)
       PROVE  From(y) \in 1..Len(r) /\ From(y) # x /\ s[y] = r[From(y)]
  BY <1>4, <1>5
<1>11. \A y, z \in 1..(Len(r) - 1) : From(y) = From(z) => y = z
  BY <1>4
<1>12. \A p \in 1..Len(r) : p # x => \E y \in 1..(Len(r) - 1) : From(y) = p
  <2> SUFFICES ASSUME NEW p \in 1..Len(r), p # x PROVE \E y \in 1..(Len(r) - 1) : From(y) = p
    OBVIOUS
  <2>1. CASE p < x
    <3>1. p \in 1..(Len(r) - 1) /\ From(p) = p
      BY <1>4, <2>1
    <3> QED
      BY <3>1
  <2>2. CASE ~(p < x)
    <3>1. p - 1 \in 1..(Len(r) - 1) /\ From(p - 1) = p
      BY <1>4, <2>2
    <3> QED
      BY <3>1
  <2> QED
    BY <2>1, <2>2
<1> HIDE DEF From
<1>13. Placed(u, n)
  <2> SUFFICES ASSUME NEW i \in 0..(n - 1), NEW y \in DOMAIN u[i]
               PROVE  /\ Index(u[i][y].key, n) = i
                      /\ \A z \in DOMAIN u[i] : u[i][y].key = u[i][z].key => y = z
    BY DEF Placed
  <2>1. CASE i # j
    <3>1. u[i] = t[i]
      BY <1>8, <2>1
    <3> QED
      BY <3>1 DEF Placed
  <2>2. CASE i = j
    <3>1. u[i] = s /\ y \in 1..(Len(r) - 1) /\ DOMAIN u[i] = 1..(Len(r) - 1)
      BY <1>5, <1>8, <2>2
    <3>2. ASSUME NEW z \in 1..(Len(r) - 1), s[y].key = s[z].key PROVE y = z
      BY <1>9, <1>10, <1>11, <3>1, <3>2
    <3> QED
      BY <1>9, <1>10, <2>2, <3>1, <3>2
  <2> QED
    BY <2>1, <2>2
<1>14. ToSet(s) = {f \in ToSet(r) : f.key # k}
  <2>1. \A y \in 1..Len(r) : y # x <=> r[y].key # k
    BY <1>2, <1>4, <1>9
  <2>2. ToSet(s) \subseteq {f \in ToSet(r) : f.key # k}
    BY <1>4, <1>5, <1>10, <2>1 DEF ToSet
  <2>3. ASSUME NEW p \in 1..Len(r), r[p].key # k PROVE r[p] \in ToSet(s)
    <3>1. PICK y \in 1..(Len(r) - 1) : From(y) = p
      BY <1>12, <2>1, <2>3
    <3> QED
      BY <1>5, <1>10, <3>1 DEF ToSet
  <2>4. {f \in ToSet(r) : f.key # k} \subseteq ToSet(s)
    BY <1>4, <2>3 DEF ToSet
  <2> QED
    BY <2>2, <2>4
<1>15. ASSUME NEW i \in 0..(n - 1), i # j, NEW f \in ToSet(t[i]) PROVE f.key # k
  <2>1. PICK y \in DOMAIN t[i] : f = t[i][y]
    BY <1>15 DEF ToSet
  <2> QED
    BY <1>15, <2>1 DEF Placed
<1>16. ASSUME NEW i \in 0..(n - 1) PROVE ToSet(u[i]) = {f \in ToSet(t[i]) : f.key # k}
  BY <1>2, <1>8, <1>14, <1>15
<1> QED
  BY <1>1, <1>7, <1>13, <1>16 DEF Below
-----------------------------------------------------------------------------
(* The operations, on the set of entries.                                    *)

Content == Below(table, cap)

HashInv ==
    /\ IsTable(table, cap)
    /\ cap <= MaxCap
    /\ WellPlaced

\* The entry that a lookup of k in table t comes to.
LEMMA LookupFacts ==
    ASSUME NEW t, NEW n, IsTable(t, n), Placed(t, n), NEW k \in Keys,
           NEW chain, chain = t[Index(k, n)]
    PROVE  /\ chain \in Seq(Entry)
           /\ Find(chain, k) = 0 => \A f \in Below(t, n) : f.key # k
           /\ Find(chain, k) # 0 => /\ Find(chain, k) \in 1..Len(chain)
                                    /\ chain[Find(chain, k)] \in Below(t, n)
                                    /\ chain[Find(chain, k)].key = k
<1>1. Index(k, n) \in 0..(n - 1) /\ n \in Nat \ {0}
  BY IndexInTable DEF IsTable
<1>2. chain \in Seq(Entry)
  BY <1>1 DEF IsTable
<1>3. DOMAIN chain = 1..Len(chain) /\ Len(chain) \in Nat
  BY <1>2
<1>4. Find(chain, k) \in 0..Len(chain)
  BY <1>2, FindFacts
<1>5. ASSUME Find(chain, k) = 0, NEW f \in Below(t, n), f.key = k PROVE FALSE
  <2>1. PICK i \in 0..(n - 1) : f \in ToSet(t[i])
    BY DEF Below
  <2>2. PICK x \in DOMAIN t[i] : f = t[i][x]
    BY <2>1 DEF ToSet
  <2>3. i = Index(k, n)
    BY <1>5, <2>2 DEF Placed
  <2>4. x \in 1..Len(chain) /\ chain[x].key = k
    BY <1>3, <1>5, <2>2, <2>3
  <2> QED
    BY <1>2, <1>5, <2>4, FindFacts
<1>6. ASSUME Find(chain, k) # 0
      PROVE  /\ Find(chain, k) \in 1..Len(chain)
             /\ chain[Find(chain, k)] \in Below(t, n)
             /\ chain[Find(chain, k)].key = k
  <2>1. Find(chain, k) \in 1..Len(chain)
    BY <1>3, <1>4, <1>6
  <2>2. chain[Find(chain, k)] \in ToSet(t[Index(k, n)])
    BY <1>3, <2>1 DEF ToSet
  <2> QED
    BY <1>1, <1>2, <1>6, <2>1, <2>2, FindFacts DEF Below
<1> QED
  BY <1>2, <1>5, <1>6

\* What put makes of a table that need not grow any more.
LEMMA PutFacts ==
    ASSUME HashInv, NEW k \in Keys, NEW v \in Vals, Put(k, v)
    PROVE  /\ HashInv'
           /\ Content' = {f \in Content : f.key # k} \cup {[key |-> k, val |-> v]}
           /\ res' = <<IF \E f \in Content : f.key = k THEN 1 ELSE 0, NoVal>>
<1> DEFINE n == IF Full THEN 2 * cap ELSE cap
           t == IF Full THEN GrowTable(n) ELSE table
           chain == t[Index(k, n)]
           i == Find(chain, k)
           e == [key |-> k, val |-> v]
<1>1. /\ n <= MaxCap /\ cap' = n
      /\ table' = [t EXCEPT ![Index(k, n)] =
             IF i = 0 THEN Append(chain, e) ELSE ReplaceAt(chain, i, e)]
      /\ res' = <<IF i = 0 THEN 0 ELSE 1, NoVal>>
  BY DEF Put
<1>2. IsTable(table, cap) /\ Placed(table, cap) /\ cap \in Nat \ {0}
  BY DEF HashInv, WellPlaced, Placed, IsTable
<1>3. n \in Nat \ {0}
  BY <1>2
<1>4. IsTable(t, n) /\ Placed(t, n) /\ Below(t, n) = Content
  <2>1. CASE Full
    <3>1. t = GrowTable(n) /\ IsTable(table, cap) /\ WellPlaced
      BY <2>1 DEF HashInv
    <3> HIDE DEF n, t
    <3> QED
      BY <1>3, <3>1, GrowFacts DEF Content
  <2>2. CASE ~Full
    BY <1>2, <2>2 DEF Content
  <2> QED
    BY <2>1, <2>2
<1>5. e \in Entry /\ e.key = k
  BY DEF Entry
<1>9. chain = t[Index(k, n)] /\ i = Find(chain, k)
  OBVIOUS
<1> HIDE DEF n, t, chain, i, e
<1>6. /\ i = 0 => \A f \in Content : f.key # k
      /\ i # 0 => i \in 1..Len(chain) /\ chain[i] \in Content /\ chain[i].key = k
  BY <1>4, <1>9, LookupFacts
<1>7. /\ IsTable(table', n) /\ Placed(table', n)
      /\ Below(table', n) = {f \in Content : f.key # k} \cup {e}
  <2>1. CASE i = 0
    <3>1. table' = HtInsert(t, e, n)
      BY <1>1, <1>5, <1>9, <2>1 DEF HtInsert
    <3>2. Below(table', n) = Content \cup {e} /\ IsTable(table', n) /\ Placed(table', n)
      BY <1>4, <1>5, <1>6, <2>1, <3>1, InsertFacts
    <3> QED
      BY <1>6, <2>1, <3>2
  <2>2. CASE i # 0
    <3>1. table' = Replaced(t, n, i, e)
      BY <1>1, <1>5, <1>9, <2>2 DEF Replaced
    <3>2. i \in 1..Len(t[Index(e.key, n)]) /\ t[Index(e.key, n)][i].key = e.key
      BY <1>5, <1>6, <1>9, <2>2
    <3>3. /\ IsTable(Replaced(t, n, i, e), n) /\ Placed(Replaced(t, n, i, e), n)
          /\ Below(Replaced(t, n, i, e), n) = {f \in Below(t, n) : f.key # e.key} \cup {e}
      BY <1>4, <1>5, <3>2, ReplaceFacts
    <3> QED
      BY <1>4, <1>5, <3>1, <3>3
  <2> QED
    BY <2>1, <2>2
<1>8. HashInv' /\ Content' = {f \in Content : f.key # k} \cup {e}
  BY <1>1, <1>7 DEF HashInv, Content, WellPlaced, Placed
<1>10. res' = <<IF \E f \in Content : f.key = k THEN 1 ELSE 0, NoVal>>
  BY <1>1, <1>6
<1> QED
  BY <1>8, <1>10 DEF e

LEMMA DeleteFacts ==
    ASSUME HashInv, NEW k \in Keys, Delete(k)
    PROVE  /\ HashInv'
           /\ Content' = {f \in Content : f.key # k}
           /\ \/ /\ \A f \in Content : f.key # k
                 /\ res' = <<0, NoVal>>
              \/ \E f \in Content : f.key = k /\ res' = <<1, f.val>>
<1> DEFINE chain == table[Index(k, cap)]
           i == Find(chain, k)
<1>1. /\ cap' = cap
      /\ i = 0 => res' = <<0, NoVal>> /\ table' = table
      /\ i # 0 => /\ res' = <<1, chain[i].val>>
                  /\ table' = [table EXCEPT ![Index(k, cap)] = Unlink(chain, i)]
  BY DEF Delete
<1>2. IsTable(table, cap) /\ Placed(table, cap) /\ Content = Below(table, cap)
  BY DEF HashInv, WellPlaced, Placed, Content
<1>3. chain = table[Index(k, cap)] /\ i = Find(chain, k)
  OBVIOUS
<1> HIDE DEF chain, i
<1>4. /\ i = 0 => \A f \in Content : f.key # k
      /\ i # 0 => i \in 1..Len(chain) /\ chain[i] \in Content /\ chain[i].key = k
  BY <1>2, <1>3, LookupFacts
<1>5. CASE i = 0
  <2>1. HashInv' /\ Content' = Content
    BY <1>1, <1>5 DEF HashInv, Content, WellPlaced
  <2> QED
    BY <1>1, <1>4, <1>5, <2>1
<1>6. CASE i # 0
  <2>1. /\ IsTable(table', cap) /\ Placed(table', cap)
        /\ Below(table', cap) = {f \in Content : f.key # k}
    <3>1. table' = Unlinked(table, cap, i, k)
      BY <1>1, <1>3, <1>6 DEF Unlinked
    <3>2. i \in 1..Len(table[Index(k, cap)]) /\ table[Index(k, cap)][i].key = k
      BY <1>3, <1>4, <1>6
    <3> QED
      BY <1>2, <3>1, <3>2, UnlinkFacts
  <2>2. HashInv' /\ Content' = {f \in Content : f.key # k}
    BY <1>1, <2>1 DEF HashInv, Content, WellPlaced, Placed
  <2> QED
    BY <1>1, <1>4, <1>6, <2>2
<1> QED
  BY <1>5, <1>6

LEMMA GetFacts ==
    ASSUME HashInv, NEW k \in Keys, Get(k)
    PROVE  /\ UNCHANGED <<table, cap>>
           /\ \/ /\ \A f \in Content : f.key # k
                 /\ res' = <<0, NoVal>>
              \/ \E f \in Content : f.key = k /\ res' = <<1, f.val>>
<1> DEFINE chain == table[Index(k, cap)]
           i == Find(chain, k)
<1>1. /\ UNCHANGED <<table, cap>>
      /\ i = 0 => res' = <<0, NoVal>>
      /\ i # 0 => res' = <<1, chain[i].val>>
  BY DEF Get
<1>2. IsTable(table, cap) /\ Placed(table, cap) /\ Content = Below(table, cap)
  BY DEF HashInv, WellPlaced, Placed, Content
<1>3. chain = table[Index(k, cap)] /\ i = Find(chain, k)
  OBVIOUS
<1> HIDE DEF chain, i
<1>4. /\ i = 0 => \A f \in Content : f.key # k
      /\ i # 0 => chain[i] \in Content /\ chain[i].key = k
  BY <1>2, <1>3, LookupFacts
<1> QED
  BY <1>1, <1>4

LEMMA HashInit == Init => HashInv
<1> SUFFICES ASSUME Init PROVE HashInv
  OBVIOUS
<1>1. IsTable(table, cap) /\ cap <= MaxCap
  BY HashtableAssumption DEF Init, IsTable
<1>2. WellPlaced
  BY HashtableAssumption DEF Init, WellPlaced
<1> QED
  BY <1>1, <1>2 DEF HashInv

LEMMA HashSame ==
    ASSUME HashInv, UNCHANGED <<table, cap>>
    PROVE  HashInv' /\ Content' = Content
BY DEF HashInv, Content, WellPlaced

LEMMA HashNext == HashInv /\ [Next]_vars => HashInv'
<1> SUFFICES ASSUME HashInv, [Next]_vars PROVE HashInv'
  OBVIOUS
<1>1. CASE \E k \in Keys : Delete(k) \/ \E v \in Vals : Put(k, v)
  BY <1>1, DeleteFacts, PutFacts
<1>2. CASE (\E k \in Keys : Get(k)) \/ Iterator \/ IterNext \/ UNCHANGED vars
  <2>1. UNCHANGED <<table, cap>>
    BY <1>2 DEF Get, Iterator, IterNext, vars
  <2> QED
    BY <2>1, HashSame
<1> QED
  BY <1>1, <1>2 DEF Next

\* A lookup can find every entry of the table, and finds the only one of its
\* key, for any hashes, however often the table has grown (hashtable.c:107-142).
THEOREM PlacedWell == Spec => []WellPlaced
<1>1. HashInv => WellPlaced
  BY DEF HashInv
<1> QED
  BY <1>1, HashInit, HashNext, PTL DEF Spec
-----------------------------------------------------------------------------
(* The iterator: what it has yielded, and what it has in hand, are the       *)
(* entries of the chains before the index where its search goes on.          *)

\* Empty chains add nothing.
LEMMA UptoSkip ==
    ASSUME NEW t, NEW n, IsTable(t, n), NEW i \in 0..n, NEW j \in i..n,
           \A l \in i..(j - 1) : t[l] = <<>>
    PROVE  Upto(t, j) = Upto(t, i)
<1> DEFINE T == {d \in Nat : i + d <= j => Upto(t, i + d) = Upto(t, i)}
<1>1. n \in Nat
  BY DEF IsTable
<1>2. 0 \in T
  OBVIOUS
<1>3. ASSUME NEW d \in Nat, d \in T, i + (d + 1) <= j
      PROVE  Upto(t, i + (d + 1)) = Upto(t, i)
  <2>1. i + d \in 0..(n - 1) /\ i + d \in 0..n /\ i + d \in i..(j - 1) /\ i + (d + 1) = (i + d) + 1
    BY <1>1, <1>3
  <2>2. Upto(t, i + d) = Upto(t, i) /\ t[i + d] = <<>>
    BY <1>1, <1>3, <2>1
  <2>3. Upto(t, (i + d) + 1) = Upto(t, i + d) \o t[i + d] /\ Upto(t, i + d) \in Seq(Entry)
    BY <2>1, UptoSteps
  <2>4. Upto(t, i + d) \o <<>> = Upto(t, i + d)
    BY <2>3, ConcatEmptySeq
  <2> QED
    BY <2>1, <2>2, <2>3, <2>4, Zenon
<1>4. ASSUME NEW d \in Nat, d \in T PROVE d + 1 \in T
  <2>1. CASE i + (d + 1) <= j
    BY <1>3, <1>4, <2>1
  <2>2. CASE ~(i + (d + 1) <= j)
    BY <2>2
  <2> QED
    BY <2>1, <2>2
<1>5. Nat \subseteq T
  <2> HIDE DEF T
  <2> QED
    BY <1>2, <1>4, SetInduction
<1>6. PICK d \in Nat : i + d = j /\ i + d <= j
  <2>1. j - i \in Nat /\ i + (j - i) = j /\ j <= j
    BY <1>1
  <2> QED
    BY <2>1
<1>7. d \in T
  <2> HIDE DEF T
  <2> QED
    BY <1>5
<1> QED
  BY <1>6, <1>7

\* The entries of the first chains come first.
LEMMA UptoPrefix ==
    ASSUME NEW t, NEW n, IsTable(t, n), NEW i \in 0..n
    PROVE  \E z \in Seq(Entry) : Upto(t, n) = Upto(t, i) \o z
<1> DEFINE T == {d \in Nat : i + d <= n => \E z \in Seq(Entry) : Upto(t, i + d) = Upto(t, i) \o z}
<1>1. n \in Nat
  BY DEF IsTable
<1>2. 0 \in T
  <2>1. Upto(t, i) \in Seq(Entry)
    BY UptoSteps
  <2>2. Upto(t, i) = Upto(t, i) \o <<>>
    BY <2>1, ConcatEmptySeq
  <2>3. i + 0 = i /\ <<>> \in Seq(Entry)
    BY <1>1
  <2> QED
    BY <2>2, <2>3
<1>3. ASSUME NEW d \in Nat, d \in T, i + (d + 1) <= n
      PROVE  \E z \in Seq(Entry) : Upto(t, i + (d + 1)) = Upto(t, i) \o z
  <2>1. i + d \in 0..(n - 1) /\ i + d \in 0..n /\ i + (d + 1) = (i + d) + 1 /\ i + d <= n
    BY <1>1, <1>3
  <2>2. PICK z \in Seq(Entry) : Upto(t, i + d) = Upto(t, i) \o z
    BY <1>3, <2>1
  <2>3. Upto(t, (i + d) + 1) = Upto(t, i + d) \o t[i + d] /\ Upto(t, i) \in Seq(Entry)
    BY <2>1, UptoSteps
  <2>4. t[i + d] \in Seq(Entry)
    BY <2>1 DEF IsTable
  <2>5. (Upto(t, i) \o z) \o t[i + d] = Upto(t, i) \o (z \o t[i + d]) /\ z \o t[i + d] \in Seq(Entry)
    <3>1. (Upto(t, i) \o z) \o t[i + d] = Upto(t, i) \o (z \o t[i + d])
      <4>1. PICK a, b : a = Upto(t, i) /\ b = t[i + d]
        OBVIOUS
      <4>2. a \in Seq(Entry) /\ b \in Seq(Entry)
        BY <2>3, <2>4, <4>1
      <4>3. (a \o z) \o b = a \o (z \o b)
        BY <4>2, ConcatAssociative
      <4> QED
        BY <4>1, <4>3
    <3>2. z \o t[i + d] \in Seq(Entry)
      BY <2>4, ConcatProperties, Zenon
    <3> QED
      BY <3>1, <3>2, Zenon
  <2> QED
    BY <2>1, <2>2, <2>3, <2>5, Zenon
<1>4. ASSUME NEW d \in Nat, d \in T PROVE d + 1 \in T
  <2>1. CASE i + (d + 1) <= n
    BY <1>3, <1>4, <2>1
  <2>2. CASE ~(i + (d + 1) <= n)
    BY <2>2
  <2> QED
    BY <2>1, <2>2
<1>5. Nat \subseteq T
  <2> HIDE DEF T
  <2> QED
    BY <1>2, <1>4, SetInduction
<1>6. PICK d \in Nat : i + d = n /\ i + d <= n
  <2>1. n - i \in Nat /\ i + (n - i) = n /\ n <= n
    BY <1>1
  <2> QED
    BY <2>1
<1>7. d \in T
  <2> HIDE DEF T
  <2> QED
    BY <1>5
<1> QED
  BY <1>6, <1>7

LEMMA SearchFacts ==
    ASSUME HashInv, NEW i \in 0..cap
    PROVE  \E j \in 0..cap, r \in Seq(Entry) :
               /\ SearchFrom(i) = [index |-> j, rest |-> r]
               /\ Upto(table, i) \o r = Upto(table, j)
               /\ r = <<>> => j = cap
<1> DEFINE S == {j \in i..(cap - 1) : table[j] # <<>>}
<1>1. IsTable(table, cap) /\ cap \in Nat /\ Upto(table, i) \in Seq(Entry)
  BY UptoSteps DEF HashInv, IsTable
<1>2. CASE S = {}
  <2>1. SearchFrom(i) = [index |-> cap, rest |-> <<>>]
    BY <1>2 DEF SearchFrom
  <2>2. cap \in i..cap /\ \A l \in i..(cap - 1) : table[l] = <<>>
    BY <1>1, <1>2
  <2>3. Upto(table, cap) = Upto(table, i)
    BY <1>1, <2>2, UptoSkip
  <2>4. Upto(table, i) \o <<>> = Upto(table, cap)
    BY <1>1, <2>3, ConcatEmptySeq
  <2>5. cap \in 0..cap /\ <<>> \in Seq(Entry)
    BY <1>1
  <2> QED
    BY <2>1, <2>4, <2>5
<1>3. CASE S # {}
  <2> DEFINE j == CHOOSE j \in S : \A l \in S : j <= l
  <2>1. SearchFrom(i) = [index |-> j + 1, rest |-> table[j]]
    BY <1>3 DEF SearchFrom, Found
  <2>2. S \subseteq Nat
    BY <1>1
  <2>3. \E m \in S : \A l \in S : m <= l
    <3> HIDE DEF S
    <3> QED
      BY <1>3, <2>2, LeastNumber
  <2>4. j \in S /\ \A l \in S : j <= l
    <3> HIDE DEF S
    <3> QED
      BY <2>3
  <2> HIDE DEF j
  <2>5. j \in i..(cap - 1) /\ j \in 0..(cap - 1) /\ j \in i..cap /\ table[j] # <<>>
    BY <1>1, <2>4
  <2>6. \A l \in i..(j - 1) : table[l] = <<>>
    BY <1>1, <2>4, <2>5
  <2>7. Upto(table, j) = Upto(table, i)
    BY <1>1, <2>5, <2>6, UptoSkip
  <2>8. Upto(table, j + 1) = Upto(table, i) \o table[j]
    BY <1>1, <2>5, <2>7, UptoSteps
  <2>9. table[j] \in Seq(Entry) /\ j + 1 \in 0..cap
    BY <1>1, <2>5 DEF IsTable
  <2> QED
    BY <2>1, <2>5, <2>8, <2>9
<1> QED
  BY <1>2, <1>3
IterInv ==
    /\ visited \in Seq(Entry)
    /\ iter \in [index : Nat, rest : Seq(Entry)]
    /\ iter.index <= cap => /\ visited \o iter.rest = Upto(table, iter.index)
                            /\ iter.rest = <<>> => iter.index = cap
    /\ ~(iter.index <= cap) => iter.rest = <<>>

\* No iteration is on.
LEMMA NoIterFacts ==
    ASSUME NEW c \in Nat, c <= MaxCap
    PROVE  /\ ~(NoIter.index <= c) /\ NoIter.rest = <<>>
           /\ NoIter \in [index : Nat, rest : Seq(Entry)]
<1>1. MaxCap \in Nat
  BY HashtableAssumption
<1> QED
  BY <1>1 DEF NoIter

\* What has been yielded, v, are the entries before i; the search goes on there.
LEMMA SearchInv ==
    ASSUME HashInv, NEW i \in 0..cap, NEW v, v = Upto(table, i),
           NEW it, it = SearchFrom(i)
    PROVE  /\ v \in Seq(Entry)
           /\ it \in [index : Nat, rest : Seq(Entry)]
           /\ it.index <= cap
           /\ v \o it.rest = Upto(table, it.index)
           /\ it.rest = <<>> => it.index = cap
<1>1. PICK j \in 0..cap, r \in Seq(Entry) :
          /\ SearchFrom(i) = [index |-> j, rest |-> r]
          /\ Upto(table, i) \o r = Upto(table, j)
          /\ r = <<>> => j = cap
  BY SearchFacts, Zenon
<1>2. cap \in Nat /\ Upto(table, i) \in Seq(Entry)
  BY UptoSteps DEF HashInv, IsTable
<1>3. it = [index |-> j, rest |-> r]
  BY <1>1
<1>4. it.index = j /\ it.rest = r
  BY <1>3
<1>5. it \in [index : Nat, rest : Seq(Entry)]
  BY <1>2, <1>3
<1>6. it.index <= cap
  BY <1>2, <1>4
<1> QED
  BY <1>1, <1>2, <1>4, <1>5, <1>6, Zenon

LEMMA IterSame ==
    ASSUME IterInv, UNCHANGED <<table, cap, iter, visited>>
    PROVE  IterInv'
BY DEF IterInv, Upto

LEMMA IterationInv ==
    ASSUME HashInv, IterInv, HashInv', UNCHANGED <<table, cap>>, Iterator \/ IterNext
    PROVE  IterInv'
<1>1. cap \in Nat /\ IsTable(table, cap)
  BY DEF HashInv, IsTable
<1>3. CASE Iterator
  <2>1. 0 \in 0..cap /\ visited' = Upto(table, 0) /\ iter' = SearchFrom(0)
    BY <1>1, <1>3, UptoSteps DEF Iterator
  <2>2. PICK v, it : v = visited' /\ it = iter'
    OBVIOUS
  <2>3. /\ v \in Seq(Entry)
        /\ it \in [index : Nat, rest : Seq(Entry)]
        /\ it.index <= cap
        /\ v \o it.rest = Upto(table, it.index)
        /\ it.rest = <<>> => it.index = cap
    BY <2>1, <2>2, SearchInv
  <2> QED
    BY <2>2, <2>3 DEF IterInv, Upto
<1>4. CASE IterNext
  <2>1. /\ iter.rest # <<>>
        /\ visited' = Append(visited, Head(iter.rest))
        /\ iter' = IF Tail(iter.rest) # <<>> THEN [iter EXCEPT !.rest = Tail(@)]
                   ELSE SearchFrom(iter.index)
    BY <1>4 DEF IterNext
  <2>2. PICK r, i, v : r = iter.rest /\ i = iter.index /\ v = visited
    OBVIOUS
  <2>3. /\ r \in Seq(Entry) /\ i \in 0..cap /\ v \in Seq(Entry) /\ r # <<>>
        /\ v \o r = Upto(table, i)
    BY <1>1, <2>1, <2>2 DEF IterInv
  <2>4. PICK v2 : v2 = Append(v, Head(r))
    OBVIOUS
  <2>5. v2 \in Seq(Entry) /\ v2 \o Tail(r) = v \o r /\ Tail(r) \in Seq(Entry)
    <3>1. /\ Tail(r) \in Seq(Entry) /\ Head(r) \in Entry /\ Len(Tail(r)) = Len(r) - 1
          /\ \A x \in 1..(Len(r) - 1) : Tail(r)[x] = r[x + 1]
          /\ Head(r) = r[1] /\ Len(r) \in Nat \ {0} /\ Len(v) \in Nat
      BY <2>3
    <3>2. /\ v2 \in Seq(Entry) /\ Len(v2) = Len(v) + 1
          /\ \A x \in 1..(Len(v) + 1) : v2[x] = IF x = Len(v) + 1 THEN r[1] ELSE v[x]
      BY <2>3, <2>4, <3>1
    <3>3. PICK t : t = Tail(r)
      OBVIOUS
    <3>4. /\ v2 \o t \in Seq(Entry) /\ Len(v2 \o t) = Len(v2) + Len(t)
          /\ \A x \in 1..(Len(v2) + Len(t)) : (v2 \o t)[x] = IF x <= Len(v2) THEN v2[x] ELSE t[x - Len(v2)]
      BY <3>1, <3>2, <3>3, ConcatProperties
    <3>5. /\ v \o r \in Seq(Entry) /\ Len(v \o r) = Len(v) + Len(r)
          /\ \A x \in 1..(Len(v) + Len(r)) : (v \o r)[x] = IF x <= Len(v) THEN v[x] ELSE r[x - Len(v)]
      BY <2>3, ConcatProperties
    <3>6. Len(v2) + Len(t) = Len(v) + Len(r)
      BY <3>1, <3>2, <3>3
    <3>7. ASSUME NEW x \in 1..(Len(v) + Len(r)) PROVE (v2 \o t)[x] = (v \o r)[x]
      <4>1. CASE x <= Len(v)
        BY <3>1, <3>2, <3>4, <3>5, <3>6, <4>1
      <4>2. CASE x = Len(v) + 1
        BY <3>1, <3>2, <3>4, <3>5, <3>6, <4>2
      <4>3. CASE x > Len(v) + 1
        <5>1. /\ x - Len(v2) \in 1..(Len(r) - 1) /\ (x - Len(v2)) + 1 = x - Len(v)
              /\ ~(x <= Len(v2)) /\ ~(x <= Len(v))
          BY <3>1, <3>2, <4>3
        <5>2. t[x - Len(v2)] = r[x - Len(v)]
          BY <3>1, <3>3, <5>1
        <5> QED
          BY <3>4, <3>5, <3>6, <5>1, <5>2
      <4>4. x <= Len(v) \/ x = Len(v) + 1 \/ x > Len(v) + 1
        BY <3>1
      <4> QED
        BY <4>1, <4>2, <4>3, <4>4, Zenon
    <3>8. v2 \o t = v \o r
      BY <3>4, <3>5, <3>6, <3>7, SeqEqual
    <3> QED
      BY <3>1, <3>2, <3>3, <3>8
  <2>6. CASE Tail(r) # <<>>
    <3>1. iter' = [iter EXCEPT !.rest = Tail(r)] /\ visited' = v2
      BY <2>1, <2>2, <2>4, <2>6
    <3>2. iter'.index = i /\ iter'.rest = Tail(r) /\ iter' \in [index : Nat, rest : Seq(Entry)]
      BY <2>2, <2>5, <3>1 DEF IterInv
    <3>3. v2 \o Tail(r) = Upto(table, i)
      BY <2>3, <2>5
    <3> QED
      <4>1. iter'.index <= cap' /\ iter'.rest # <<>> /\ visited' \in Seq(Entry)
        BY <1>1, <2>3, <2>5, <2>6, <3>1, <3>2
      <4>2. visited' \o iter'.rest = Upto(table, iter'.index)
        BY <3>1, <3>2, <3>3
      <4> QED
        BY <3>2, <4>1, <4>2 DEF IterInv, Upto
  <2>7. CASE Tail(r) = <<>>
    <3>1. v2 = Upto(table, i)
      BY <2>3, <2>5, <2>7, ConcatEmptySeq
    <3>2. visited' = v2 /\ iter' = SearchFrom(i)
      BY <2>1, <2>2, <2>4, <2>7
    <3>3. PICK it : it = iter'
      OBVIOUS
    <3>4. /\ it \in [index : Nat, rest : Seq(Entry)]
          /\ it.index <= cap
          /\ v2 \o it.rest = Upto(table, it.index)
          /\ it.rest = <<>> => it.index = cap
      BY <2>3, <3>1, <3>2, <3>3, SearchInv
    <3> QED
      BY <2>5, <3>2, <3>3, <3>4 DEF IterInv, Upto
  <2> QED
    BY <2>6, <2>7
<1> QED
  BY <1>3, <1>4

LEMMA IterNextInv == HashInv /\ IterInv /\ [Next]_vars => IterInv'
<1> SUFFICES ASSUME HashInv, IterInv, [Next]_vars PROVE IterInv'
  OBVIOUS
<1>1. HashInv'
  BY HashNext
<1>2. CASE \E k \in Keys : Delete(k) \/ \E v \in Vals : Put(k, v)
  <2>1. iter' = NoIter /\ visited' = <<>>
    BY <1>2 DEF Delete, Put
  <2>2. cap' \in Nat /\ cap' <= MaxCap
    BY <1>1 DEF HashInv, IsTable
  <2> QED
    BY <2>1, <2>2, NoIterFacts DEF IterInv
<1>3. CASE (\E k \in Keys : Get(k)) \/ UNCHANGED vars
  <2>1. UNCHANGED <<table, cap, iter, visited>>
    BY <1>3 DEF Get, vars
  <2> QED
    BY <2>1, IterSame
<1>4. CASE Iterator \/ IterNext
  <2>1. UNCHANGED <<table, cap>>
    BY <1>4 DEF Iterator, IterNext
  <2> QED
    BY <1>1, <1>4, <2>1, IterationInv
<1> QED
  BY <1>2, <1>3, <1>4 DEF Next
\* An iteration that nothing interrupts yields the entries in order, none
\* twice, and ends when it has yielded them all, for tables of any size
\* (hashtable.c:246-280).
THEOREM IterationComplete == Spec => []IterComplete
<1>1. Init => IterInv
  <2> SUFFICES ASSUME Init PROVE IterInv
    OBVIOUS
  <2>1. iter = NoIter /\ visited = <<>>
    BY DEF Init
  <2>2. cap \in Nat /\ cap <= MaxCap
    BY HashInit DEF HashInv, IsTable
  <2> QED
    BY <2>1, <2>2, NoIterFacts DEF IterInv
<1>2. HashInv /\ IterInv => IterComplete
  <2> SUFFICES ASSUME HashInv, IterInv, iter.index <= cap
               PROVE  IsPrefix(visited, Entries) /\ (iter.rest = <<>> => visited = Entries)
    BY DEF IterComplete
  <2>1. IsTable(table, cap) /\ cap \in Nat /\ Entries = Upto(table, cap)
    BY DEF HashInv, IsTable, Entries, Upto
  <2>2. PICK v, r, i : v = visited /\ r = iter.rest /\ i = iter.index
    OBVIOUS
  <2>3. /\ v \in Seq(Entry) /\ r \in Seq(Entry) /\ i \in 0..cap
        /\ v \o r = Upto(table, i)
        /\ r = <<>> => i = cap
    BY <2>1, <2>2 DEF IterInv
  <2>4. PICK z \in Seq(Entry) : Upto(table, cap) = Upto(table, i) \o z
    BY <2>1, <2>3, UptoPrefix
  <2>5. (v \o r) \o z = v \o (r \o z) /\ r \o z \in Seq(Entry)
    <3>0. v \in Seq(Entry) /\ r \in Seq(Entry)
      BY <2>3
    <3>1. (v \o r) \o z = v \o (r \o z)
      BY <3>0, ConcatAssociative
    <3>2. r \o z \in Seq(Entry)
      BY <2>3, ConcatProperties
    <3> QED
      BY <3>1, <3>2
  <2>6. Entries = v \o (r \o z)
    BY <2>1, <2>3, <2>4, <2>5, Zenon
  <2>7. IsPrefix(visited, Entries)
    BY <2>2, <2>3, <2>5, <2>6, PrefixConcat
  <2>8. r = <<>> => v = Upto(table, cap)
    BY <2>3, ConcatEmptySeq
  <2> QED
    BY <2>1, <2>2, <2>7, <2>8
<1> QED
  BY <1>1, <1>2, HashInit, HashNext, IterNextInv, PTL DEF Spec

-----------------------------------------------------------------------------
(* The table implements Dictionary.                                          *)

\* The map that a set of entries stands for.
MapOf(E) == [k \in {e.key : e \in E} |-> (CHOOSE e \in E : e.key = k).val]

OneEach(E) == \A e, f \in E : e.key = f.key => e = f

LEMMA MapOfFacts ==
    ASSUME NEW E, OneEach(E)
    PROVE  /\ DOMAIN MapOf(E) = {e.key : e \in E}
           /\ \A e \in E : MapOf(E)[e.key] = e.val
<1>1. ASSUME NEW e \in E PROVE MapOf(E)[e.key] = e.val
  <2> DEFINE c == CHOOSE f \in E : f.key = e.key
  <2>1. c \in E /\ c.key = e.key
    OBVIOUS
  <2>2. MapOf(E)[e.key] = c.val
    BY DEF MapOf
  <2> HIDE DEF c
  <2> QED
    BY <2>1, <2>2 DEF OneEach
<1> QED
  BY <1>1 DEF MapOf

LEMMA ContentFacts ==
    ASSUME NEW t, NEW n, IsTable(t, n), Placed(t, n)
    PROVE  OneEach(Below(t, n)) /\ ToSet(Upto(t, n)) = Below(t, n)
<1>1. n \in 0..n
  BY DEF IsTable
<1>2. OneEach(Below(t, n))
  BY KeysOnce DEF OneEach
<1> QED
  BY <1>1, <1>2, UptoElements

LEMMA MappingIs == Mapping = MapOf(ToSet(Entries))
BY DEF Mapping, MapOf

LEMMA MapSame ==
    ASSUME UNCHANGED <<table, cap>>
    PROVE  Mapping' = Mapping
BY DEF Mapping, Entries

Without(E, k) == {f \in E : f.key # k}

With(E, k, v) == {f \in E : f.key # k} \cup {[key |-> k, val |-> v]}

Updated(m, k, v) == [j \in DOMAIN m \cup {k} |-> IF j = k THEN v ELSE m[j]]

LEMMA MapPut ==
    ASSUME NEW E, OneEach(E), NEW k, NEW v
    PROVE  MapOf(With(E, k, v)) = Updated(MapOf(E), k, v)
<1> DEFINE E2 == With(E, k, v)
<1>1. PICK e : e = [key |-> k, val |-> v]
  OBVIOUS
<1>2. e.key = k /\ e.val = v /\ E2 = {f \in E : f.key # k} \cup {e}
  BY <1>1 DEF With
<1> HIDE DEF E2
<1>3. OneEach(E2)
  BY <1>2 DEF OneEach
<1>4. DOMAIN MapOf(E) = {f.key : f \in E} /\ \A f \in E : MapOf(E)[f.key] = f.val
  BY MapOfFacts
<1>5. DOMAIN MapOf(E2) = {f.key : f \in E2} /\ \A f \in E2 : MapOf(E2)[f.key] = f.val
  BY <1>3, MapOfFacts
<1>6. {f.key : f \in E2} = {f.key : f \in E} \cup {k}
  BY <1>2
<1>7. ASSUME NEW j \in {f.key : f \in E} \cup {k}
      PROVE  MapOf(E2)[j] = IF j = k THEN v ELSE MapOf(E)[j]
  BY <1>2, <1>4, <1>5
<1>8. MapOf(E2) = [j \in DOMAIN MapOf(E2) |-> MapOf(E2)[j]]
  BY DEF MapOf
<1> QED
  BY <1>4, <1>5, <1>6, <1>7, <1>8 DEF E2, Updated

LEMMA MapRemove ==
    ASSUME NEW E, OneEach(E), NEW k
    PROVE  MapOf(Without(E, k)) = [j \in DOMAIN MapOf(E) \ {k} |-> MapOf(E)[j]]
<1> DEFINE E2 == Without(E, k)
<1>7. E2 = {f \in E : f.key # k}
  BY DEF Without
<1> HIDE DEF E2
<1>1. OneEach(E2)
  BY <1>7 DEF OneEach
<1>2. DOMAIN MapOf(E) = {f.key : f \in E} /\ \A f \in E : MapOf(E)[f.key] = f.val
  BY MapOfFacts
<1>3. DOMAIN MapOf(E2) = {f.key : f \in E2} /\ \A f \in E2 : MapOf(E2)[f.key] = f.val
  BY <1>1, MapOfFacts
<1>4. {f.key : f \in E2} = {f.key : f \in E} \ {k}
  BY <1>7
<1>5. ASSUME NEW j \in {f.key : f \in E} \ {k} PROVE MapOf(E2)[j] = MapOf(E)[j]
  BY <1>2, <1>3, <1>7
<1>6. MapOf(E2) = [j \in DOMAIN MapOf(E2) |-> MapOf(E2)[j]]
  BY DEF MapOf
<1> QED
  BY <1>2, <1>3, <1>4, <1>5, <1>6 DEF E2

\* The table behaves as a dictionary: every operation has the result and the
\* effect that Dictionary gives it, for any keys and hashes, through growth,
\* collisions and a size that has drifted (hashtable.h, hashtable.c:88-224).
THEOREM ImplementsDictionary == Spec => IsDictionary
<1>1. Init => Dict!Init
  <2> SUFFICES ASSUME Init PROVE Mapping = [k \in {} |-> NoVal] /\ res = <<0, NoVal>>
    BY DEF Dict!Init
  <2>1. HashInv
    BY HashInit
  <2>2. Mapping = MapOf(Content)
    <3>1. IsTable(table, cap) /\ Placed(table, cap)
      BY <2>1 DEF HashInv, WellPlaced, Placed
    <3>2. ToSet(Upto(table, cap)) = Content
      BY <3>1, ContentFacts DEF Content
    <3>3. ToSet(Entries) = Content
      BY <3>2 DEF Entries, Upto
    <3> QED
      BY <3>3, MappingIs
  <2>3. Content = {}
    BY DEF Init, Content, Below, ToSet
  <2>4. MapOf({}) = [k \in {} |-> NoVal]
    BY DEF MapOf
  <2> QED
    BY <2>2, <2>3, <2>4 DEF Init
<1>2. HashInv /\ [Next]_vars => [Dict!Next]_<<Mapping, res>>
  <2> SUFFICES ASSUME HashInv, [Next]_vars
               PROVE  Dict!Next \/ UNCHANGED <<Mapping, res>>
    OBVIOUS
  <2>1. OneEach(Content) /\ Mapping = MapOf(Content)
    <3>1. IsTable(table, cap) /\ Placed(table, cap)
      BY DEF HashInv, WellPlaced, Placed
    <3>2. ToSet(Upto(table, cap)) = Content /\ OneEach(Content)
      BY <3>1, ContentFacts DEF Content
    <3>3. ToSet(Entries) = Content
      BY <3>2 DEF Entries, Upto
    <3> QED
      BY <3>2, <3>3, MappingIs
  <2>2. Mapping' = MapOf(Content')
    <3>1. IsTable(table', cap') /\ Placed(table', cap')
      BY HashNext DEF HashInv, WellPlaced, Placed
    <3>2. ToSet(Upto(table', cap')) = Below(table', cap')
      BY <3>1, ContentFacts
    <3>3. Entries' = Upto(table', cap')
      BY DEF Entries, Upto
    <3>4. Mapping' = MapOf(ToSet(Entries'))
      BY DEF Mapping, MapOf
    <3>5. Content' = Below(table', cap')
      BY DEF Content
    <3> QED
      BY <3>2, <3>3, <3>4, <3>5, Zenon
  <2>3. DOMAIN Mapping = {f.key : f \in Content} /\ \A f \in Content : Mapping[f.key] = f.val
    BY <2>1, MapOfFacts
  <2>4. ASSUME NEW k \in Keys, Get(k) PROVE Dict!Get(k)
    <3>1. UNCHANGED <<table, cap>> /\ Mapping' = Mapping
      BY <2>4, GetFacts, MapSame
    <3>2. res' = IF k \in DOMAIN Mapping THEN <<1, Mapping[k]>> ELSE <<0, NoVal>>
      BY <2>3, <2>4, GetFacts
    <3> QED
      BY <3>1, <3>2 DEF Dict!Get
  <2>5. ASSUME NEW k \in Keys, Delete(k) PROVE Dict!Remove(k)
    <3>1. res' = IF k \in DOMAIN Mapping THEN <<1, Mapping[k]>> ELSE <<0, NoVal>>
      BY <2>3, <2>5, DeleteFacts
    <3>2. Mapping' = [j \in DOMAIN Mapping \ {k} |-> Mapping[j]]
      <4>1. PICK E, E2 : E = Content /\ E2 = Content'
        OBVIOUS
      <4>2. E2 = Without(E, k)
        BY <2>5, <4>1, DeleteFacts DEF Without
      <4>3. MapOf(Without(E, k)) = [j \in DOMAIN MapOf(E) \ {k} |-> MapOf(E)[j]]
        <5>1. OneEach(E)
          BY <2>1, <4>1
        <5> QED
          BY <5>1, MapRemove, Zenon
      <4> QED
        BY <2>1, <2>2, <4>1, <4>2, <4>3, Zenon
    <3> QED
      BY <3>1, <3>2 DEF Dict!Remove
  <2>6. ASSUME NEW k \in Keys, NEW v \in Vals, Put(k, v) PROVE Dict!Put(k, v)
    <3>1. res' = <<IF k \in DOMAIN Mapping THEN 1 ELSE 0, NoVal>>
      BY <2>3, <2>6, PutFacts
    <3>2. Mapping' = [j \in DOMAIN Mapping \cup {k} |-> IF j = k THEN v ELSE Mapping[j]]
      <4>1. PICK E, E2 : E = Content /\ E2 = Content'
        OBVIOUS
      <4>2. E2 = With(E, k, v)
        BY <2>6, <4>1, PutFacts DEF With
      <4>3. MapOf(With(E, k, v)) = Updated(MapOf(E), k, v)
        <5>1. OneEach(E)
          BY <2>1, <4>1
        <5> QED
          BY <5>1, MapPut, Zenon
      <4> QED
        BY <2>1, <2>2, <4>1, <4>2, <4>3, Zenon DEF Updated
    <3> QED
      BY <3>1, <3>2 DEF Dict!Put
  <2>7. ASSUME Iterator \/ IterNext \/ UNCHANGED vars PROVE UNCHANGED <<Mapping, res>>
    <3>1. UNCHANGED <<table, cap, res>>
      BY <2>7 DEF Iterator, IterNext, vars
    <3> QED
      BY <3>1, MapSame
  <2> QED
    BY <2>4, <2>5, <2>6, <2>7 DEF Next, Dict!Next
<1> QED
  BY <1>1, <1>2, HashInit, HashNext, PTL DEF Spec, IsDictionary, Dict!Spec
==============================================================================
