------------------------------ MODULE ListProofs ------------------------------
(*****************************************************************************)
(* Proofs about List, for any number of threads and elements, any lists to   *)
(* begin with and any bounds.                                                *)
(*****************************************************************************)
EXTENDS List, ProofFacts, FiniteSetTheorems, TLAPS

-----------------------------------------------------------------------------
(* Chains.  The nodes of the list in order, s, linked both ways: what the    *)
(* walks of list.c follow, given as the fields they start from.              *)

IsChain(s, h, t, n, nx, pv) ==
    /\ s \in [1..n -> NodeIds]
    /\ \A i, j \in 1..n : s[i] = s[j] => i = j
    /\ h = IF n = 0 THEN Null ELSE s[1]
    /\ t = IF n = 0 THEN Null ELSE s[n]
    /\ \A i \in 1..n : nx[s[i]] = IF i = n THEN Null ELSE s[i + 1]
    /\ \A i \in 1..n : pv[s[i]] = IF i = 1 THEN Null ELSE s[i - 1]

\* A walk computes whatever function agrees with it step by step.
LEMMA WalkIs ==
    ASSUME NEW first, NEW pointer, NEW k \in Nat, NEW V, NEW f \in [0..k -> V],
           f[0] = first, \A i \in 1..k : f[i] = Follow(pointer, f[i - 1])
    PROVE  Walk(first, pointer, k) = f[k]
<1> DEFINE Def(g) == [i \in 0..k |-> IF i = 0 THEN first ELSE Follow(pointer, g[i - 1])]
           node == CHOOSE g : g = Def(g)
<1>1. Walk(first, pointer, k) = node[k]
  BY DEF Walk
<1>2. f = Def(f)
  <2>1. ASSUME NEW i \in 0..k
        PROVE  f[i] = IF i = 0 THEN first ELSE Follow(pointer, f[i - 1])
    <3>1. i = 0 \/ i \in 1..k
      OBVIOUS
    <3> QED
      BY <3>1
  <2> QED
    BY <2>1
<1>3. node = Def(node)
  BY <1>2
<1> HIDE DEF node
<1> DEFINE T == {i \in Nat : i <= k => node[i] = f[i]}
<1>4. node[0] = first /\ \A i \in 1..k : node[i] = Follow(pointer, node[i - 1])
  <2>1. \A i \in 0..k : node[i] = IF i = 0 THEN first ELSE Follow(pointer, node[i - 1])
    BY <1>3, Zenon
  <2>2. 0 \in 0..k /\ \A i \in 1..k : i \in 0..k /\ i # 0
    OBVIOUS
  <2> QED
    BY <2>1, <2>2, Zenon
<1>5. 0 \in T
  BY <1>4
<1>6. ASSUME NEW i \in Nat, i \in T PROVE i + 1 \in T
  <2>1. CASE i + 1 <= k
    <3>1. node[i] = f[i] /\ i + 1 \in 1..k /\ (i + 1) - 1 = i
      BY <1>6, <2>1
    <3>2. node[i + 1] = Follow(pointer, node[i]) /\ f[i + 1] = Follow(pointer, f[i])
      BY <1>4, <3>1
    <3> QED
      BY <3>1, <3>2
  <2>2. CASE ~(i + 1 <= k)
    BY <2>2
  <2> QED
    BY <2>1, <2>2
<1>7. k \in T
  <2> HIDE DEF T
  <2> QED
    BY <1>5, <1>6, SetInduction
<1> QED
  BY <1>1, <1>7

\* From either end a walk goes through the nodes of the chain.
LEMMA ChainWalk ==
    ASSUME NEW s, NEW h, NEW t, NEW n \in Nat, NEW nx, NEW pv, IsChain(s, h, t, n, nx, pv),
           NEW k \in 0..(n - 1)
    PROVE  Walk(h, nx, k) = s[k + 1] /\ Walk(t, pv, k) = s[n - k]
<1> DEFINE f == [i \in 0..k |-> s[i + 1]]
           b == [i \in 0..k |-> s[n - i]]
<1>0. \A i \in 1..n : s[i] # Null
  BY ListAssumption DEF IsChain, NodeIds, Null
<1>1. f[0] = h /\ b[0] = t
  BY DEF IsChain
<1>2. \A i \in 1..k : f[i] = Follow(nx, f[i - 1])
  <2> SUFFICES ASSUME NEW i \in 1..k PROVE s[i + 1] = Follow(nx, s[i])
    OBVIOUS
  <2>1. i \in 1..n /\ i # n
    OBVIOUS
  <2> QED
    BY <1>0, <2>1 DEF IsChain, Follow
<1>3. \A i \in 1..k : b[i] = Follow(pv, b[i - 1])
  <2> SUFFICES ASSUME NEW i \in 1..k PROVE s[n - i] = Follow(pv, s[n - (i - 1)])
    OBVIOUS
  <2>1. n - (i - 1) \in 1..n /\ n - (i - 1) # 1 /\ (n - (i - 1)) - 1 = n - i
    OBVIOUS
  <2> QED
    BY <1>0, <2>1 DEF IsChain, Follow
<1>4. f \in [0..k -> NodeIds] /\ b \in [0..k -> NodeIds] /\ k \in Nat
  BY DEF IsChain
<1>5. f[k] = s[k + 1] /\ b[k] = s[n - k]
  OBVIOUS
<1> HIDE DEF f, b
<1>6. Walk(h, nx, k) = f[k]
  BY <1>1, <1>2, <1>4, WalkIs
<1>7. Walk(t, pv, k) = b[k]
  BY <1>1, <1>3, <1>4, WalkIs
<1> QED
  BY <1>5, <1>6, <1>7
\* The chain with node m at place j.
WithNode(s, n, j, m) ==
    [i \in 1..(n + 1) |-> IF i < j THEN s[i] ELSE IF i = j THEN m ELSE s[i - 1]]

\* The links that put a new node m at place j of chain s.
Spliced(s, n, j, m, nx, pv, nx2, pv2) ==
    /\ \A x \in NodeIds :
           nx2[x] = IF x = m THEN (IF j <= n THEN s[j] ELSE Null)
                    ELSE IF j > 1 /\ x = s[j - 1] THEN m ELSE nx[x]
    /\ \A x \in NodeIds :
           pv2[x] = IF x = m THEN (IF j > 1 THEN s[j - 1] ELSE Null)
                    ELSE IF j <= n /\ x = s[j] THEN m ELSE pv[x]

LEMMA SpliceChain ==
    ASSUME NEW s, NEW h, NEW t, NEW n \in Nat, NEW nx, NEW pv, IsChain(s, h, t, n, nx, pv),
           NEW j \in 1..(n + 1), NEW m \in NodeIds, \A i \in 1..n : s[i] # m,
           NEW nx2, NEW pv2, Spliced(s, n, j, m, nx, pv, nx2, pv2),
           NEW h2, h2 = (IF j = 1 THEN m ELSE h), NEW t2, t2 = (IF j = n + 1 THEN m ELSE t)
    PROVE  IsChain(WithNode(s, n, j, m), h2, t2, n + 1, nx2, pv2)
<1> DEFINE u == WithNode(s, n, j, m)
<1>1. /\ s \in [1..n -> NodeIds]
      /\ \A i, k \in 1..n : s[i] = s[k] => i = k
      /\ h = IF n = 0 THEN Null ELSE s[1]
      /\ t = IF n = 0 THEN Null ELSE s[n]
      /\ \A i \in 1..n : nx[s[i]] = IF i = n THEN Null ELSE s[i + 1]
      /\ \A i \in 1..n : pv[s[i]] = IF i = 1 THEN Null ELSE s[i - 1]
  BY DEF IsChain
<1>2. \A i \in 1..(n + 1) : u[i] = IF i < j THEN s[i] ELSE IF i = j THEN m ELSE s[i - 1]
  BY DEF WithNode
<1>3. u \in [1..(n + 1) -> NodeIds]
  BY <1>1 DEF WithNode
<1> HIDE DEF u
<1>4. \A i \in 1..(n + 1) : /\ i < j => i \in 1..n
                            /\ i > j => i - 1 \in 1..n
  OBVIOUS
<1>5. ASSUME NEW i \in 1..(n + 1), NEW k \in 1..(n + 1), u[i] = u[k] PROVE i = k
  BY <1>1, <1>2, <1>4, <1>5
<1>6. h2 = u[1] /\ t2 = u[n + 1]
  <2>1. 1 \in 1..(n + 1) /\ n + 1 \in 1..(n + 1) /\ (n + 1) - 1 = n
    OBVIOUS
  <2> QED
    BY <1>1, <1>2, <2>1
<1>7. ASSUME NEW i \in 1..(n + 1)
      PROVE  nx2[u[i]] = IF i = n + 1 THEN Null ELSE u[i + 1]
  <2>1. i # n + 1 => i + 1 \in 1..(n + 1) /\ (i + 1) - 1 = i
    OBVIOUS
  <2>2. CASE i = j
    BY <1>1, <1>2, <2>1, <2>2 DEF Spliced
  <2>3. CASE i = j - 1
    <3>1. i \in 1..n /\ j > 1 /\ u[i] = s[i] /\ s[i] # m /\ s[i] \in NodeIds
      BY <1>1, <1>2, <2>3
    <3> QED
      BY <1>2, <2>1, <2>3, <3>1 DEF Spliced
  <2>4. CASE i < j - 1
    <3>1. i \in 1..n /\ i # n /\ j - 1 \in 1..n /\ u[i] = s[i]
      BY <1>2, <2>4
    <3>2. s[i] # m /\ s[i] \in NodeIds /\ s[i] # s[j - 1] /\ nx[s[i]] = s[i + 1]
      BY <1>1, <2>4, <3>1
    <3>3. nx2[s[i]] = s[i + 1]
      BY <3>2 DEF Spliced
    <3> QED
      BY <1>2, <2>1, <2>4, <3>1, <3>3
  <2>5. CASE i > j
    <3>1. i - 1 \in 1..n /\ u[i] = s[i - 1] /\ (j > 1 => j - 1 \in 1..n) /\ i - 1 # j - 1
      BY <1>2, <2>5
    <3>2. s[i - 1] # m /\ s[i - 1] \in NodeIds /\ (j > 1 => s[i - 1] # s[j - 1])
      BY <1>1, <3>1
    <3>3. nx2[u[i]] = nx[s[i - 1]]
      BY <3>1, <3>2 DEF Spliced
    <3>4. nx[s[i - 1]] = IF i - 1 = n THEN Null ELSE s[(i - 1) + 1]
      BY <1>1, <3>1
    <3> QED
      BY <1>2, <2>1, <2>5, <3>3, <3>4
  <2> QED
    BY <2>2, <2>3, <2>4, <2>5
<1>8. ASSUME NEW i \in 1..(n + 1)
      PROVE  pv2[u[i]] = IF i = 1 THEN Null ELSE u[i - 1]
  <2>1. i # 1 => i - 1 \in 1..(n + 1)
    OBVIOUS
  <2>2. CASE i = j
    BY <1>1, <1>2, <2>1, <2>2 DEF Spliced
  <2>3. CASE i = j + 1
    <3>1. j \in 1..n /\ u[i] = s[j] /\ s[j] # m /\ s[j] \in NodeIds /\ i - 1 = j
      BY <1>1, <1>2, <2>3
    <3> QED
      BY <1>2, <2>1, <2>3, <3>1 DEF Spliced
  <2>4. CASE i < j
    <3>1. i \in 1..n /\ u[i] = s[i] /\ (j <= n => j \in 1..n)
      BY <1>2, <2>4
    <3>2. s[i] # m /\ s[i] \in NodeIds /\ (j <= n => s[i] # s[j])
      BY <1>1, <2>4, <3>1
    <3>3. pv2[u[i]] = pv[s[i]]
      BY <3>1, <3>2 DEF Spliced
    <3>4. pv[s[i]] = IF i = 1 THEN Null ELSE s[i - 1]
      BY <1>1, <3>1
    <3> QED
      BY <1>2, <2>1, <2>4, <3>3, <3>4
  <2>5. CASE i > j + 1
    <3>1. i - 1 \in 1..n /\ i - 1 # 1 /\ u[i] = s[i - 1] /\ j \in 1..n
      BY <1>2, <2>5
    <3>2. s[i - 1] # m /\ s[i - 1] \in NodeIds /\ s[i - 1] # s[j]
      BY <1>1, <2>5, <3>1
    <3>3. pv2[u[i]] = pv[s[i - 1]]
      BY <3>1, <3>2 DEF Spliced
    <3>4. pv[s[i - 1]] = s[(i - 1) - 1]
      BY <1>1, <3>1
    <3> QED
      BY <1>2, <2>1, <2>5, <3>3, <3>4
  <2> QED
    BY <2>2, <2>3, <2>4, <2>5
<1>9. n + 1 # 0
  OBVIOUS
<1>10. IsChain(u, h2, t2, n + 1, nx2, pv2)
  BY <1>3, <1>5, <1>6, <1>7, <1>8, <1>9 DEF IsChain
<1> QED
  BY <1>10 DEF u

\* The chain without its last node.
LEMMA CutChain ==
    ASSUME NEW s, NEW h, NEW t, NEW n \in Nat, NEW nx, NEW pv, IsChain(s, h, t, n, nx, pv), n > 0,
           NEW nx2, \A x \in NodeIds : nx2[x] = IF n > 1 /\ x = s[n - 1] THEN Null ELSE nx[x],
           NEW h2, h2 = (IF n = 1 THEN Null ELSE h),
           NEW t2, t2 = (IF n = 1 THEN Null ELSE s[n - 1]),
           NEW u, u = [i \in 1..(n - 1) |-> s[i]]
    PROVE  IsChain(u, h2, t2, n - 1, nx2, pv)
<1>1. /\ s \in [1..n -> NodeIds]
      /\ \A i, k \in 1..n : s[i] = s[k] => i = k
      /\ h = s[1]
      /\ \A i \in 1..n : nx[s[i]] = IF i = n THEN Null ELSE s[i + 1]
      /\ \A i \in 1..n : pv[s[i]] = IF i = 1 THEN Null ELSE s[i - 1]
  BY DEF IsChain
<1>2. u \in [1..(n - 1) -> NodeIds] /\ \A i \in 1..(n - 1) : u[i] = s[i] /\ i \in 1..n
  BY <1>1
<1>3. \A i, k \in 1..(n - 1) : u[i] = u[k] => i = k
  BY <1>1, <1>2
<1>4. /\ h2 = IF n - 1 = 0 THEN Null ELSE u[1]
      /\ t2 = IF n - 1 = 0 THEN Null ELSE u[n - 1]
  BY <1>1, <1>2
<1>5. ASSUME NEW i \in 1..(n - 1) PROVE nx2[u[i]] = IF i = n - 1 THEN Null ELSE u[i + 1]
  <2>1. i \in 1..n /\ n - 1 \in 1..n /\ n > 1 /\ u[i] = s[i] /\ s[i] \in NodeIds /\ i # n
    BY <1>1, <1>2
  <2>2. CASE i = n - 1
    BY <2>1, <2>2
  <2>3. CASE i # n - 1
    <3>1. s[i] # s[n - 1] /\ i + 1 \in 1..(n - 1)
      BY <1>1, <2>1, <2>3
    <3> QED
      BY <1>1, <1>2, <2>1, <2>3, <3>1
  <2> QED
    BY <2>2, <2>3
<1>6. ASSUME NEW i \in 1..(n - 1) PROVE pv[u[i]] = IF i = 1 THEN Null ELSE u[i - 1]
  <2>1. i # 1 => i - 1 \in 1..(n - 1)
    OBVIOUS
  <2> QED
    BY <1>1, <1>2, <2>1
<1> QED
  BY <1>2, <1>3, <1>4, <1>5, <1>6 DEF IsChain
LEMMA NoStep == ASSUME NEW first, NEW pointer PROVE Walk(first, pointer, 0) = first
<1>1. PICK k \in Nat : k = 0
  OBVIOUS
<1>0. PICK V : first \in V
  <2>1. first \in {first}
    OBVIOUS
  <2> QED
    BY <2>1
<1> DEFINE f == [i \in 0..k |-> first]
<1>2. f \in [0..k -> V] /\ f[0] = first /\ f[k] = first
  BY <1>0, <1>1
<1>3. \A i \in 1..k : f[i] = Follow(pointer, f[i - 1])
  BY <1>1
<1> HIDE DEF f
<1>4. Walk(first, pointer, k) = f[k]
  BY <1>2, <1>3, WalkIs
<1> QED
  BY <1>1, <1>2, <1>4

-----------------------------------------------------------------------------
(* The invariant of the list.  The nodes are a chain of live ones, the ones  *)
(* not allocated yet have no links, and the calls under way have room.       *)

Chain(s) ==
    /\ IsChain(s, head, tail, len, next, prev)
    /\ \A i \in 1..len : s[i] \in (1..nodes) \ freed

Chained == \E s : Chain(s)

Fresh == \A n \in NodeIds : n > nodes => next[n] = Null /\ prev[n] = Null

Pending == {t \in Threads : pc[t] \in Adding}

Budget ==
    /\ len <= nodes /\ freed \subseteq 1..nodes
    /\ nodes + room + Cardinality(Pending) <= MaxNodes

Args ==
    \A t \in Threads :
        /\ pc[t] \in Adding => op[t].val \in Vals
        /\ pc[t] \in {"choose", "insert", "get"} => op[t].idx \in Nat

Inv == TypeOK /\ Chained /\ Fresh /\ Budget /\ Args

\* The node that a call walks to.
LEMMA NodeAtIs ==
    ASSUME TypeOK, NEW s, Chain(s), NEW i \in Nat
    PROVE  NodeAt(i) = IF len = 0 THEN Null ELSE IF i < len THEN s[i + 1] ELSE s[len]
<1>1. len \in Nat /\ IsChain(s, head, tail, len, next, prev)
  BY DEF TypeOK, Chain
<1>2. \A k \in 0..(len - 1) : Ahead(k) = s[k + 1] /\ Behind(k) = s[len - k]
  BY <1>1, ChainWalk DEF Ahead, Behind
<1>3. Ahead(0) = head /\ Behind(0) = tail
  BY NoStep DEF Ahead, Behind
<1>4. CASE len = 0
  <2>1. head = Null /\ tail = Null
    BY <1>1, <1>4 DEF IsChain
  <2>2. i <= len \div 2 => i = 0
    BY <1>4
  <2>3. ~(Back(i) > 0)
    BY <1>4 DEF Back
  <2> QED
    BY <1>3, <1>4, <2>1, <2>2, <2>3 DEF NodeAt
<1>5. CASE len # 0
  <2>1. CASE i <= len \div 2
    <3>1. i \in 0..(len - 1) /\ i < len
      BY <1>1, <1>5, <2>1
    <3> QED
      BY <1>2, <1>5, <2>1, <3>1 DEF NodeAt
  <2>2. CASE ~(i <= len \div 2) /\ i < len
    <3>1. (IF Back(i) > 0 THEN Back(i) ELSE 0) = len - i - 1
      BY <1>1, <2>2 DEF Back
    <3>2. len - i - 1 \in 0..(len - 1) /\ len - (len - i - 1) = i + 1
      BY <1>1, <2>2
    <3> QED
      BY <1>2, <1>5, <2>2, <3>1, <3>2 DEF NodeAt
  <2>3. CASE ~(i <= len \div 2) /\ ~(i < len)
    <3>1. (IF Back(i) > 0 THEN Back(i) ELSE 0) = 0 /\ 0 \in 0..(len - 1) /\ len - 0 = len
      BY <1>1, <1>5, <2>3 DEF Back
    <3> QED
      BY <1>2, <1>5, <2>3, <3>1 DEF NodeAt
  <2> QED
    BY <2>1, <2>2, <2>3
<1> QED
  BY <1>4, <1>5

-----------------------------------------------------------------------------
(* The calls that add a node.                                                *)

\* The call of t puts a new node at place j of chain s.
Grows(t, s, j) ==
    /\ Chain(s) /\ j \in 1..(len + 1)
    /\ nodes + 1 \in NodeIds /\ nodes' = nodes + 1 /\ len' = len + 1 /\ freed' = freed
    /\ Spliced(s, len, j, nodes + 1, next, prev, next', prev')
    /\ head' = IF j = 1 THEN nodes + 1 ELSE head
    /\ tail' = IF j = len + 1 THEN nodes + 1 ELSE tail
    /\ op[t].val \in Vals /\ val' = [val EXCEPT ![nodes + 1] = op[t].val]
    /\ next' \in [NodeIds -> 0..MaxNodes] /\ prev' \in [NodeIds -> 0..MaxNodes]

LEMMA PendingFacts ==
    ASSUME Inv
    PROVE  /\ IsFiniteSet(Pending) /\ Cardinality(Pending) \in Nat
           /\ \A t \in Pending : /\ nodes + 1 \in NodeIds /\ nodes + 1 \in 0..MaxNodes
                                 /\ Cardinality(Pending \ {t}) = Cardinality(Pending) - 1
<1>1. IsFiniteSet(Pending) /\ Cardinality(Pending) \in Nat
  BY ListAssumption, FS_Subset, FS_CardinalityType DEF Pending
<1>2. ASSUME NEW t \in Pending
      PROVE  Cardinality(Pending \ {t}) = Cardinality(Pending) - 1 /\ Cardinality(Pending) > 0
  <2>1. Cardinality(Pending \ {t}) = Cardinality(Pending) - 1
    BY <1>1, FS_RemoveElement
  <2>2. Cardinality(Pending \ {t}) \in Nat
    BY <1>1, FS_Subset, FS_CardinalityType
  <2> QED
    BY <1>1, <2>1, <2>2
<1>3. nodes \in Nat /\ room \in Nat /\ nodes + room + Cardinality(Pending) <= MaxNodes
  BY ListAssumption DEF Inv, TypeOK, Budget
<1> QED
  BY ListAssumption, <1>1, <1>2, <1>3 DEF NodeIds

\* create_node has a node to give.
LEMMA NewNode ==
    ASSUME Inv, NEW t \in Pending
    PROVE  LET n == nodes + 1 IN
           /\ n \in NodeIds /\ n \in 0..MaxNodes /\ next[n] = Null /\ prev[n] = Null
           /\ next \in [NodeIds -> 0..MaxNodes] /\ prev \in [NodeIds -> 0..MaxNodes]
           /\ nodes \in Nat
<1>1. nodes + 1 \in NodeIds /\ nodes + 1 \in 0..MaxNodes
  BY PendingFacts
<1>2. nodes \in Nat /\ next \in [NodeIds -> 0..MaxNodes] /\ prev \in [NodeIds -> 0..MaxNodes]
  BY DEF Inv, TypeOK
<1>3. nodes + 1 > nodes
  BY <1>2
<1> QED
  BY <1>1, <1>2, <1>3 DEF Inv, Fresh

LEMMA ChainEnds ==
    ASSUME TypeOK, NEW s, Chain(s)
    PROVE  /\ len \in Nat /\ nodes \in Nat
           /\ \A i \in 1..len :
                  s[i] \in NodeIds /\ s[i] \in 0..MaxNodes /\ s[i] # nodes + 1 /\ s[i] # Null
           /\ len # 0 => head = s[1] /\ tail = s[len] /\ head \in NodeIds /\ tail \in NodeIds
           /\ len = 0 => head = Null /\ tail = Null
<1>1. len \in Nat /\ nodes \in Nat /\ MaxNodes \in Nat
  BY ListAssumption DEF TypeOK
<1>2. \A i \in 1..len : s[i] \in NodeIds /\ s[i] \in 0..MaxNodes /\ s[i] # nodes + 1 /\ s[i] # Null
  <2> SUFFICES ASSUME NEW i \in 1..len
               PROVE  s[i] \in NodeIds /\ s[i] \in 0..MaxNodes /\ s[i] # nodes + 1 /\ s[i] # Null
    OBVIOUS
  <2>1. s[i] \in NodeIds /\ s[i] \in 1..nodes
    BY DEF Chain, IsChain
  <2> QED
    BY <1>1, <2>1 DEF NodeIds, Null
<1>3. len # 0 => 1 \in 1..len /\ len \in 1..len
  BY <1>1
<1> QED
  BY <1>1, <1>2, <1>3 DEF Chain, IsChain

LEMMA AppendGrows ==
    ASSUME Inv, NEW t \in Threads, DoAppend(t)
    PROVE  \E s : Grows(t, s, len + 1)
<1>1. PICK s : Chain(s)
  BY DEF Inv, Chained
<1> DEFINE n == nodes + 1
<1>2. t \in Pending /\ op[t].val \in Vals
  BY DEF DoAppend, Return, Leave, Inv, Pending, Adding, Args
<1>3. /\ n \in NodeIds /\ n \in 0..MaxNodes /\ next[n] = Null /\ prev[n] = Null
      /\ next \in [NodeIds -> 0..MaxNodes] /\ prev \in [NodeIds -> 0..MaxNodes]
      /\ nodes \in Nat
  BY <1>2, NewNode
<1>4. /\ len \in Nat
      /\ \A i \in 1..len : s[i] \in NodeIds /\ s[i] \in 0..MaxNodes /\ s[i] # n
      /\ len # 0 => head = s[1] /\ tail = s[len] /\ tail \in NodeIds
      /\ len = 0 => head = Null /\ tail = Null
  BY <1>1, ChainEnds DEF Inv
<1>5. CASE len = 0
  <2>1. Spliced(s, len, len + 1, n, next, prev, next', prev')
    BY <1>3, <1>5 DEF Spliced, DoAppend
  <2> QED
    BY <1>1, <1>2, <1>3, <1>4, <1>5, <2>1 DEF Grows, DoAppend, Create
<1>6. CASE len # 0
  <2>1. next' = [next EXCEPT ![tail] = n] /\ prev' = [prev EXCEPT ![n] = tail] /\ head' = head
    BY <1>6 DEF DoAppend, Link
  <2>2. tail # n /\ tail = s[(len + 1) - 1] /\ tail \in 0..MaxNodes
    BY <1>4, <1>6
  <2>3. Spliced(s, len, len + 1, n, next, prev, next', prev')
    BY <1>3, <1>4, <1>6, <2>1, <2>2 DEF Spliced
  <2> QED
    BY <1>1, <1>2, <1>3, <1>4, <1>6, <2>1, <2>2, <2>3 DEF Grows, DoAppend, Create
<1> QED
  BY <1>5, <1>6

LEMMA PrependGrows ==
    ASSUME Inv, NEW t \in Threads, DoPrepend(t)
    PROVE  \E s : Grows(t, s, 1)
<1>1. PICK s : Chain(s)
  BY DEF Inv, Chained
<1> DEFINE n == nodes + 1
<1>2. t \in Pending /\ op[t].val \in Vals
  BY DEF DoPrepend, Return, Leave, Inv, Pending, Adding, Args
<1>3. /\ n \in NodeIds /\ n \in 0..MaxNodes /\ next[n] = Null /\ prev[n] = Null
      /\ next \in [NodeIds -> 0..MaxNodes] /\ prev \in [NodeIds -> 0..MaxNodes]
      /\ nodes \in Nat
  BY <1>2, NewNode
<1>4. /\ len \in Nat
      /\ \A i \in 1..len : s[i] \in NodeIds /\ s[i] \in 0..MaxNodes /\ s[i] # n
      /\ len # 0 => head = s[1] /\ tail = s[len] /\ head \in NodeIds
      /\ len = 0 => head = Null /\ tail = Null
  BY <1>1, ChainEnds DEF Inv
<1>5. CASE len = 0
  <2>1. Spliced(s, len, 1, n, next, prev, next', prev')
    BY <1>3, <1>5 DEF Spliced, DoPrepend
  <2> QED
    BY <1>1, <1>2, <1>3, <1>4, <1>5, <2>1 DEF Grows, DoPrepend, Create
<1>6. CASE len # 0
  <2>1. next' = [next EXCEPT ![n] = head] /\ prev' = [prev EXCEPT ![head] = n] /\ tail' = tail
    BY <1>6 DEF DoPrepend, Link
  <2>2. head # n /\ head = s[1] /\ head \in 0..MaxNodes
    BY <1>4, <1>6
  <2>3. Spliced(s, len, 1, n, next, prev, next', prev')
    BY <1>3, <1>4, <1>6, <2>1, <2>2 DEF Spliced
  <2> QED
    BY <1>1, <1>2, <1>3, <1>4, <1>6, <2>1, <2>2, <2>3 DEF Grows, DoPrepend, Create
<1> QED
  BY <1>5, <1>6

LEMMA InsertGrows ==
    ASSUME Inv, NEW t \in Threads, DoInsert(t)
    PROVE  \E s : Grows(t, s, IF op[t].idx < len THEN op[t].idx + 1 ELSE len)
<1>1. PICK s : Chain(s)
  BY DEF Inv, Chained
<1> DEFINE n == nodes + 1
           node == NodeAt(op[t].idx)
<1>2. t \in Pending /\ op[t].val \in Vals /\ op[t].idx \in Nat /\ pc[t] = "insert"
  BY DEF DoInsert, Return, Leave, Inv, Pending, Adding, Args
<1>3. /\ n \in NodeIds /\ n \in 0..MaxNodes /\ next[n] = Null /\ prev[n] = Null
      /\ next \in [NodeIds -> 0..MaxNodes] /\ prev \in [NodeIds -> 0..MaxNodes]
      /\ nodes \in Nat
  BY <1>2, NewNode
<1>4. /\ len \in Nat
      /\ \A i \in 1..len : s[i] \in NodeIds /\ s[i] \in 0..MaxNodes /\ s[i] # n
  BY <1>1, ChainEnds DEF Inv
<1>5. node # Null /\ prev[node] # Null
  BY <1>2 DEF DoInsert, NoNode
<1>6. PICK j \in 1..len : node = s[j] /\ j = IF op[t].idx < len THEN op[t].idx + 1 ELSE len
  <2>1. node = IF len = 0 THEN Null ELSE IF op[t].idx < len THEN s[op[t].idx + 1] ELSE s[len]
    BY <1>1, <1>2, NodeAtIs DEF Inv
  <2>2. len # 0
    BY <1>5, <2>1
  <2>3. CASE op[t].idx < len
    <3>1. op[t].idx + 1 \in 1..len
      BY <1>2, <1>4, <2>3
    <3> QED
      BY <2>1, <2>2, <2>3, <3>1
  <2>4. CASE ~(op[t].idx < len)
    <3>1. len \in 1..len
      BY <1>4, <2>2
    <3> QED
      BY <2>1, <2>2, <2>4, <3>1
  <2> QED
    BY <2>3, <2>4
<1>7. next' = [next EXCEPT ![prev[node]] = n, ![n] = node]
      /\ prev' = [prev EXCEPT ![n] = prev[node], ![node] = n]
  BY DEF DoInsert, InsertBefore
<1> HIDE DEF node
<1>8. j # 1 /\ j - 1 \in 1..len /\ prev[node] = s[j - 1] /\ j \in 1..(len + 1)
  <2>1. prev[s[j]] = IF j = 1 THEN Null ELSE s[j - 1]
    BY <1>1, <1>6 DEF Chain, IsChain
  <2> QED
    BY <1>4, <1>5, <1>6, <2>1
<1>9. \A i, k \in 1..len : s[i] = s[k] => i = k
  BY <1>1 DEF Chain, IsChain
<1>10. s[j - 1] # s[j] /\ s[j] # n /\ s[j - 1] # n /\ j <= len /\ j > 1 /\ j # len + 1
  BY <1>4, <1>6, <1>8, <1>9
<1>11. next' = [next EXCEPT ![s[j - 1]] = n, ![n] = s[j]]
       /\ prev' = [prev EXCEPT ![n] = s[j - 1], ![s[j]] = n]
  BY <1>6, <1>7, <1>8
<1>12. s[j] \in NodeIds /\ s[j - 1] \in NodeIds /\ s[j] \in 0..MaxNodes /\ s[j - 1] \in 0..MaxNodes
  BY <1>4, <1>6, <1>8
<1>13. Spliced(s, len, j, n, next, prev, next', prev')
  BY <1>3, <1>10, <1>11, <1>12 DEF Spliced
<1>14. next' \in [NodeIds -> 0..MaxNodes] /\ prev' \in [NodeIds -> 0..MaxNodes]
  BY <1>3, <1>11, <1>12
<1>15. /\ head' = head /\ tail' = tail /\ nodes' = n /\ len' = len + 1 /\ freed' = freed
       /\ val' = [val EXCEPT ![n] = op[t].val]
  BY DEF DoInsert, Create
<1>16. Grows(t, s, j)
  BY <1>1, <1>2, <1>3, <1>8, <1>10, <1>13, <1>14, <1>15 DEF Grows
<1> QED
  BY <1>6, <1>16

\* What growing makes of the invariant's parts that speak of the nodes.
LEMMA GrownChain ==
    ASSUME Inv, NEW t, NEW s, NEW j \in 1..(len + 1), Grows(t, s, j)
    PROVE  /\ \E u : u = WithNode(s, len, j, nodes + 1) /\ Chain(u)'
           /\ Fresh' /\ len' <= nodes'
           /\ len' \in 0..MaxNodes /\ nodes' \in 0..MaxNodes
           /\ {head', tail'} \subseteq 0..MaxNodes /\ val' \in [NodeIds -> Vals \cup {NoVal}]
<1> DEFINE n == nodes + 1
<1>0. PICK u : u = WithNode(s, len, j, n)
  OBVIOUS
<1>1. /\ len \in Nat /\ nodes \in Nat /\ MaxNodes \in Nat /\ len <= nodes
      /\ n \in NodeIds /\ n \in 0..MaxNodes /\ {head, tail} \subseteq 0..MaxNodes
      /\ val \in [NodeIds -> Vals \cup {NoVal}] /\ freed \subseteq NodeIds
      /\ nodes' = n /\ len' = len + 1 /\ freed' = freed
  <2>1. /\ len \in Nat /\ nodes \in Nat /\ {head, tail} \subseteq 0..MaxNodes
        /\ val \in [NodeIds -> Vals \cup {NoVal}] /\ freed \subseteq NodeIds
    BY DEF Inv, TypeOK
  <2>2. n \in NodeIds /\ nodes' = n /\ len' = len + 1 /\ freed' = freed
    BY DEF Grows
  <2>3. MaxNodes \in Nat /\ len <= nodes
    BY ListAssumption DEF Inv, Budget
  <2>4. n \in 0..MaxNodes
    BY <2>1, <2>2, <2>3 DEF NodeIds
  <2> QED
    BY <2>1, <2>2, <2>3, <2>4
<1>2. \A i \in 1..len : s[i] \in (1..nodes) \ freed /\ s[i] # n /\ s[i] \in NodeIds
  BY ChainEnds DEF Inv, Grows, Chain
<1>3. IsChain(u, head', tail', len + 1, next', prev')
  <2>1. IsChain(s, head, tail, len, next, prev)
    BY DEF Grows, Chain
  <2> QED
    BY <1>0, <1>1, <1>2, <2>1, SpliceChain DEF Grows
<1>4. n \notin freed
  <2>1. freed \subseteq 1..nodes
    BY DEF Inv, Budget
  <2> QED
    BY <1>1, <2>1
<1>5. ASSUME NEW i \in 1..(len + 1) PROVE u[i] \in (1..n) \ freed
  <2>1. u[i] = IF i < j THEN s[i] ELSE IF i = j THEN n ELSE s[i - 1]
    BY <1>0 DEF WithNode
  <2>2. (i < j => i \in 1..len) /\ (i > j => i - 1 \in 1..len)
    BY <1>1
  <2> QED
    BY <1>1, <1>2, <1>4, <2>1, <2>2
<1>6. Chain(u)'
  BY <1>1, <1>3, <1>5 DEF Chain
<1>7. Fresh'
  <2> SUFFICES ASSUME NEW x \in NodeIds, x > n PROVE next'[x] = Null /\ prev'[x] = Null
    BY <1>1 DEF Fresh
  <2>1. x # n /\ next[x] = Null /\ prev[x] = Null /\ \A i \in 1..len : x # s[i]
    BY <1>1, <1>2 DEF Inv, Fresh, NodeIds
  <2>2. (j > 1 => j - 1 \in 1..len) /\ (j <= len => j \in 1..len)
    BY <1>1
  <2> QED
    BY <2>1, <2>2 DEF Grows, Spliced
<1>8. {head', tail'} \subseteq 0..MaxNodes /\ val' \in [NodeIds -> Vals \cup {NoVal}]
  BY <1>1 DEF Grows
<1>9. len + 1 \in 0..MaxNodes
  BY <1>1
<1> QED
  BY <1>0, <1>1, <1>6, <1>7, <1>8, <1>9
-----------------------------------------------------------------------------
(* list_truncate.                                                            *)

\* The last node of chain s is given back.
Shrinks(s) ==
    /\ Chain(s) /\ len > 0
    /\ len' = len - 1 /\ freed' = freed \cup {s[len]}
    /\ head' = IF len = 1 THEN Null ELSE head
    /\ tail' = IF len = 1 THEN Null ELSE s[len - 1]
    /\ \A x \in NodeIds : next'[x] = IF len > 1 /\ x = s[len - 1] THEN Null ELSE next[x]
    /\ next' \in [NodeIds -> 0..MaxNodes] /\ UNCHANGED <<prev, val, nodes>>

LEMMA TruncateShrinks ==
    ASSUME Inv, NEW t \in Threads, DoTruncate(t)
    PROVE  \E s : Shrinks(s)
<1>1. PICK s : Chain(s)
  BY DEF Inv, Chained
<1>2. /\ len \in Nat /\ len > 0 /\ MaxNodes \in Nat
      /\ next \in [NodeIds -> 0..MaxNodes] /\ prev \in [NodeIds -> 0..MaxNodes]
  BY ListAssumption DEF Inv, TypeOK, DoTruncate, TooShort
<1>3. /\ tail = s[len] /\ \A i \in 1..len : s[i] \in NodeIds
  BY <1>1, <1>2, ChainEnds DEF Inv
<1>4. prev[s[len]] = IF len = 1 THEN Null ELSE s[len - 1]
  <2>1. len \in 1..len
    BY <1>2
  <2> QED
    BY <1>1, <2>1 DEF Chain, IsChain
<1>5. /\ len' = len - 1 /\ freed' = freed \cup {s[len]} /\ UNCHANGED <<prev, val, nodes>>
  BY <1>3 DEF DoTruncate, Less
<1>6. CASE len = 1
  <2>1. head' = Null /\ tail' = Null /\ next' = next
    BY <1>6 DEF DoTruncate
  <2> QED
    BY <1>1, <1>2, <1>5, <1>6, <2>1 DEF Shrinks
<1>7. CASE len # 1
  <2>1. len - 1 \in 1..len /\ s[len - 1] \in NodeIds /\ len > 1
    BY <1>2, <1>3, <1>7
  <2>2. head' = head /\ tail' = s[len - 1] /\ next' = [next EXCEPT ![s[len - 1]] = Null]
    BY <1>3, <1>4, <1>7 DEF DoTruncate
  <2>3. Null \in 0..MaxNodes
    BY <1>2 DEF Null
  <2>4. /\ next' \in [NodeIds -> 0..MaxNodes]
        /\ \A x \in NodeIds : next'[x] = IF x = s[len - 1] THEN Null ELSE next[x]
    BY <1>2, <2>1, <2>2, <2>3
  <2> QED
    BY <1>1, <1>2, <1>5, <1>7, <2>1, <2>2, <2>4 DEF Shrinks
<1> QED
  BY <1>6, <1>7

LEMMA ShrunkChain ==
    ASSUME Inv, NEW s, Shrinks(s)
    PROVE  /\ \E u : u = [i \in 1..(len - 1) |-> s[i]] /\ Chain(u)'
           /\ Fresh' /\ len' <= nodes' /\ len' \in 0..MaxNodes
           /\ {head', tail'} \subseteq 0..MaxNodes
           /\ s[len] \in 1..nodes /\ s[len] \in NodeIds /\ s[len] \notin freed
<1>1. /\ len \in Nat /\ len > 0 /\ nodes \in Nat /\ MaxNodes \in Nat /\ len <= nodes
      /\ len \in 0..MaxNodes /\ {head, tail} \subseteq 0..MaxNodes
      /\ len' = len - 1 /\ nodes' = nodes /\ prev' = prev /\ freed' = freed \cup {s[len]}
  BY ListAssumption DEF Inv, TypeOK, Budget, Shrinks
<1>2. /\ \A i \in 1..len : s[i] \in (1..nodes) \ freed /\ s[i] \in NodeIds /\ s[i] \in 0..MaxNodes
      /\ \A i, k \in 1..len : s[i] = s[k] => i = k
      /\ IsChain(s, head, tail, len, next, prev)
  BY ChainEnds DEF Inv, Shrinks, Chain, IsChain
<1>3. PICK u : u = [i \in 1..(len - 1) |-> s[i]]
  OBVIOUS
<1>4. IsChain(u, head', tail', len - 1, next', prev)
  <2>1. \A x \in NodeIds : next'[x] = IF len > 1 /\ x = s[len - 1] THEN Null ELSE next[x]
    BY DEF Shrinks
  <2>2. /\ head' = IF len = 1 THEN Null ELSE head
        /\ tail' = IF len = 1 THEN Null ELSE s[len - 1]
    BY DEF Shrinks
  <2> QED
    BY <1>1, <1>2, <1>3, <2>1, <2>2, CutChain
<1>5. len \in 1..len
  BY <1>1
<1>6. ASSUME NEW i \in 1..(len - 1) PROVE u[i] \in (1..nodes) \ freed'
  <2>1. u[i] = s[i] /\ i \in 1..len /\ i # len
    BY <1>1, <1>3
  <2> QED
    BY <1>1, <1>2, <1>5, <2>1
<1>7. Chain(u)'
  BY <1>1, <1>4, <1>6 DEF Chain
<1>8. Fresh'
  BY <1>1 DEF Inv, Fresh, Shrinks
<1>9. {head', tail'} \subseteq 0..MaxNodes
  <2>1. len # 1 => len - 1 \in 1..len
    BY <1>1
  <2> QED
    BY <1>1, <1>2, <2>1 DEF Shrinks, Null
<1>10. len - 1 \in 0..MaxNodes /\ len - 1 <= nodes
  BY <1>1
<1> QED
  BY <1>1, <1>2, <1>3, <1>5, <1>7, <1>8, <1>9, <1>10

-----------------------------------------------------------------------------
(* The invariant is kept.                                                    *)

Labels == {"idle", "choose", "append", "prepend", "insert", "get", "truncate"}

Arg == [idx : Int, val : Vals \cup {NoVal}, born : Nat, seen : Nat]

\* What every step keeps of the threads' own state.
ThreadsTyped ==
    /\ room \in 0..MaxAdded /\ mutex \in Threads \cup {NoThread}
    /\ pc \in [Threads -> Labels] /\ op \in [Threads -> Arg]
    /\ res \in BOOLEAN \X (Vals \cup {NoVal}) /\ crashed \in BOOLEAN

LEMMA FreedCount == ASSUME TypeOK PROVE IsFiniteSet(freed) /\ Cardinality(freed) \in Nat
<1>1. IsFiniteSet(NodeIds)
  BY ListAssumption, FS_Interval DEF NodeIds
<1> QED
  BY <1>1, FS_Subset, FS_CardinalityType DEF TypeOK

\* A call begins: its section and its arguments.
LEMMA EnterFacts ==
    ASSUME Inv, NEW t \in Threads, NEW section \in Labels \ {"idle"}, NEW i \in Int,
           NEW v \in Vals \cup {NoVal}, Enter(t, section, i, v),
           section \in Adding => v \in Vals /\ Reserve,
           section \notin Adding => UNCHANGED room,
           section \in {"choose", "insert", "get"} => i \in Nat
    PROVE  Inv'
<1>1. TypeOK /\ UNCHANGED <<links, mutex, res, crashed>>
  BY DEF Inv, Enter
<1>2. /\ pc' = [pc EXCEPT ![t] = section] /\ pc[t] = "idle"
      /\ op' = [op EXCEPT ![t] = 
                    [idx |-> i, val |-> v, born |-> nodes, seen |-> Cardinality(freed)]]
  BY DEF Enter
<1>3. pc' \in [Threads -> Labels] /\ op' \in [Threads -> Arg]
  BY <1>1, <1>2, FreedCount DEF TypeOK, Labels, Arg
<1>4. room' \in 0..MaxAdded
  <2>1. room \in 0..MaxAdded /\ MaxAdded \in Nat
    BY <1>1, ListAssumption DEF TypeOK
  <2>2. room' = room \/ Reserve
    BY Zenon
  <2> QED
    BY <2>1, <2>2 DEF Reserve
<1>5. TypeOK'
  BY <1>1, <1>3, <1>4 DEF TypeOK, links, Labels, Arg
<1>6. Chained' /\ Fresh'
  BY <1>1 DEF Inv, Chained, Chain, Fresh, links
<1>7. Args'
  BY <1>1, <1>2 DEF Inv, Args, TypeOK
<1>8. /\ len \in Nat /\ nodes \in Nat /\ room \in Nat /\ Cardinality(Pending) \in Nat
      /\ IsFiniteSet(Pending)
  BY <1>1, ListAssumption, PendingFacts DEF TypeOK
<1>9. nodes + room' + Cardinality(Pending') <= MaxNodes
  <2>1. CASE section \in Adding
    <3>1. Pending' = Pending \cup {t} /\ t \notin Pending
      BY <1>1, <1>2, <2>1 DEF Pending, Adding, TypeOK
    <3>2. Cardinality(Pending') = Cardinality(Pending) + 1
      BY <1>8, <3>1, FS_AddElement
    <3> QED
      BY <1>8, <2>1, <3>2, ListAssumption DEF Inv, Budget, Reserve
  <2>2. CASE section \notin Adding
    <3>1. Pending' = Pending
      BY <1>1, <1>2, <2>2 DEF Pending, Adding, TypeOK
    <3> QED
      BY <2>2, <3>1 DEF Inv, Budget
  <2> QED
    BY <2>1, <2>2
<1>10. Budget'
  BY <1>1, <1>9 DEF Inv, Budget, links
<1> QED
  BY <1>5, <1>6, <1>7, <1>10 DEF Inv

LEMMA AddGrows ==
    ASSUME Inv, NEW t \in Threads, DoAppend(t) \/ DoPrepend(t) \/ DoInsert(t)
    PROVE  \E s : \E j \in 1..(len + 1) : Grows(t, s, j)
<1>1. \E s, j : Grows(t, s, j)
  BY AppendGrows, PrependGrows, InsertGrows
<1> QED
  BY <1>1 DEF Grows

LEMMA InvAdd ==
    ASSUME Inv, NEW t \in Threads, DoAppend(t) \/ DoPrepend(t) \/ DoInsert(t)
    PROVE  Inv'
<1>1. PICK s : \E j \in 1..(len + 1) : Grows(t, s, j)
  BY AddGrows
<1>2. PICK j \in 1..(len + 1) : Grows(t, s, j)
  BY <1>1
<1>3. /\ \E u : Chain(u)'
      /\ Fresh' /\ len' <= nodes' /\ len' \in 0..MaxNodes /\ nodes' \in 0..MaxNodes
      /\ {head', tail'} \subseteq 0..MaxNodes /\ val' \in [NodeIds -> Vals \cup {NoVal}]
  BY <1>2, GrownChain
<1>4. /\ next' \in [NodeIds -> 0..MaxNodes] /\ prev' \in [NodeIds -> 0..MaxNodes]
      /\ freed' = freed /\ nodes' = nodes + 1
  BY <1>2 DEF Grows
<1>5. /\ pc[t] \in Adding /\ pc' = [pc EXCEPT ![t] = "idle"] /\ op' = [op EXCEPT ![t] = NoOp]
      /\ res' = Done /\ UNCHANGED <<room, mutex, crashed>>
  BY DEF DoAppend, DoPrepend, DoInsert, Return, Leave, Adding
<1>6. TypeOK /\ Args /\ Budget
  BY DEF Inv
<1>7. NoOp \in [idx : Int, val : Vals \cup {NoVal}, born : Nat, seen : Nat]
  BY DEF NoOp, NoIndex
<1>8. Done \in BOOLEAN \X (Vals \cup {NoVal})
  BY DEF Done
<1>9. TypeOK'
  BY <1>3, <1>4, <1>5, <1>6, <1>7, <1>8 DEF TypeOK
<1>10. Args'
  BY <1>5, <1>6 DEF Args, TypeOK, Adding
<1>11. Pending' = Pending \ {t} /\ t \in Pending
  BY <1>5, <1>6 DEF Pending, TypeOK, Adding
<1>12. Cardinality(Pending') = Cardinality(Pending) - 1 /\ Cardinality(Pending) \in Nat
  BY <1>11, PendingFacts
<1>13. Budget'
  <2>1. nodes \in Nat /\ room \in Nat /\ MaxNodes \in Nat
    BY <1>6, ListAssumption DEF TypeOK
  <2>2. freed \subseteq 1..(nodes + 1)
    BY <1>6, <2>1 DEF Budget
  <2> QED
    BY <1>3, <1>4, <1>5, <1>6, <1>12, <2>1, <2>2 DEF Budget
<1> QED
  BY <1>3, <1>9, <1>10, <1>13 DEF Inv, Chained

LEMMA InvTruncate ==
    ASSUME Inv, NEW t \in Threads, DoTruncate(t)
    PROVE  Inv'
<1>1. PICK s : Shrinks(s)
  BY TruncateShrinks
<1>2. /\ \E u : Chain(u)'
      /\ Fresh' /\ len' <= nodes' /\ len' \in 0..MaxNodes
      /\ {head', tail'} \subseteq 0..MaxNodes
      /\ s[len] \in 1..nodes /\ s[len] \in NodeIds
  BY <1>1, ShrunkChain
<1>3. /\ next' \in [NodeIds -> 0..MaxNodes] /\ UNCHANGED <<prev, val, nodes>>
      /\ freed' = freed \cup {s[len]}
  BY <1>1 DEF Shrinks
<1>4. /\ pc[t] = "truncate" /\ pc' = [pc EXCEPT ![t] = "idle"] /\ op' = [op EXCEPT ![t] = NoOp]
      /\ res' = Done /\ UNCHANGED <<room, mutex, crashed>>
  BY DEF DoTruncate, Return, Leave
<1>5. TypeOK /\ Args /\ Budget
  BY DEF Inv
<1>6. Done \in BOOLEAN \X (Vals \cup {NoVal})
  BY DEF Done
<1>7. NoOp \in Arg
  BY DEF NoOp, NoIndex, Arg
<1>8. TypeOK'
  BY <1>2, <1>3, <1>4, <1>5, <1>6, <1>7 DEF TypeOK, Arg
<1>9. Args' /\ Pending' = Pending
  BY <1>4, <1>5 DEF Args, Pending, Adding, TypeOK
<1>10. Budget'
  BY <1>2, <1>3, <1>4, <1>5, <1>9 DEF Budget
<1> QED
  BY <1>2, <1>8, <1>9, <1>10 DEF Inv, Chained

\* A step that leaves the nodes, the room and the pending calls alone.
LEMMA InvQuiet ==
    ASSUME Inv, UNCHANGED <<links, room>>, ThreadsTyped', Args', Pending' = Pending
    PROVE  Inv'
<1>1. TypeOK'
  BY DEF Inv, TypeOK, ThreadsTyped, links, Labels, Arg
<1>2. Chained' /\ Fresh'
  BY DEF Inv, Chained, Chain, Fresh, links
<1>3. Budget'
  BY DEF Inv, Budget, links
<1> QED
  BY <1>1, <1>2, <1>3 DEF Inv

LEMMA InvNext == Inv /\ [Next]_vars => Inv'
<1> SUFFICES ASSUME Inv, [Next]_vars PROVE Inv'
  OBVIOUS
<1>0. TypeOK /\ Args /\ ThreadsTyped
  BY DEF Inv, TypeOK, ThreadsTyped, Labels, Arg
<1>1. <<FALSE, NoVal>> \in BOOLEAN \X (Vals \cup {NoVal})
  OBVIOUS
<1>2. ASSUME NEW t \in Threads, Refuse(t) PROVE Inv'
  BY <1>0, <1>1, <1>2, InvQuiet DEF Refuse, ThreadsTyped, Args, Pending
<1>3. ASSUME NEW t \in Threads, NEW v \in Vals, CallAppend(t, v) \/ CallPrepend(t, v) PROVE Inv'
  <2>1. NoIndex \in Int
    BY DEF NoIndex
  <2> QED
    BY <1>3, <2>1, EnterFacts DEF CallAppend, CallPrepend, Labels, Adding
<1>4. ASSUME NEW t \in Threads, NEW v \in Vals, NEW i \in -1..(len + 1), CallInsert(t, i, v)
      PROVE  Inv'
  <2>1. CASE Refuse(t)
    BY <1>2, <2>1
  <2>2. CASE Within(i) /\ Reserve /\ Enter(t, "choose", i, v)
    <3>1. i \in Nat /\ i \in Int
      BY <1>0, <2>2 DEF Within, TypeOK
    <3> QED
      BY <2>2, <3>1, EnterFacts DEF Labels, Adding
  <2> QED
    BY <1>4, <2>1, <2>2 DEF CallInsert
<1>5. ASSUME NEW t \in Threads, NEW i \in -1..len, CallGet(t, i) PROVE Inv'
  <2>1. CASE Refuse(t)
    BY <1>2, <2>1
  <2>2. CASE i \in 0..(len - 1) /\ Enter(t, "get", i, NoVal) /\ UNCHANGED room
    <3>1. i \in Nat /\ i \in Int
      BY <1>0, <2>2 DEF TypeOK
    <3> QED
      BY <2>2, <3>1, EnterFacts DEF Labels, Adding
  <2> QED
    BY <1>5, <2>1, <2>2 DEF CallGet
<1>6. ASSUME NEW t \in Threads, Choose(t) PROVE Inv'
  <2>1. pc[t] = "choose" /\ UNCHANGED <<links, room, mutex, op, res, crashed>>
    BY <1>6 DEF Choose
  <2>2. PICK c \in {"append", "prepend", "insert"} : pc' = [pc EXCEPT ![t] = c]
    BY <1>6 DEF Choose, Section
  <2>3. ThreadsTyped'
    BY <1>0, <2>1, <2>2 DEF ThreadsTyped, Labels
  <2>4. Pending' = Pending /\ Args'
    BY <1>0, <2>1, <2>2 DEF Pending, Args, Adding, TypeOK
  <2> QED
    BY <2>1, <2>3, <2>4, InvQuiet
<1>7. ASSUME NEW t \in Threads, DoAppend(t) \/ DoPrepend(t) \/ DoInsert(t) PROVE Inv'
  BY <1>7, InvAdd
<1>8. ASSUME NEW t \in Threads, DoGet(t) PROVE Inv'
  <2>1. /\ pc[t] = "get" /\ pc' = [pc EXCEPT ![t] = "idle"] /\ op' = [op EXCEPT ![t] = NoOp]
        /\ res' = <<TRUE, val[NodeAt(op[t].idx)]>> /\ NodeAt(op[t].idx) # Null
        /\ UNCHANGED <<links, room, mutex, crashed>>
    BY <1>8 DEF DoGet, Return, Leave, NoNode
  <2>2. PICK s : Chain(s)
    BY DEF Inv, Chained
  <2>3. op[t].idx \in Nat
    BY <1>0, <2>1 DEF Args
  <2>4. NodeAt(op[t].idx) \in NodeIds
    <3>1. /\ len \in Nat /\ \A i \in 1..len : s[i] \in NodeIds
      BY <1>0, <2>2, ChainEnds
    <3>2. /\ op[t].idx < len => op[t].idx + 1 \in 1..len
          /\ len # 0 => len \in 1..len
      BY <2>3, <3>1
    <3> QED
      BY <1>0, <2>1, <2>2, <2>3, <3>1, <3>2, NodeAtIs
  <2>5. val[NodeAt(op[t].idx)] \in Vals \cup {NoVal}
    BY <1>0, <2>4 DEF TypeOK
  <2>6. NoOp \in Arg
    BY DEF NoOp, NoIndex, Arg
  <2>7. ThreadsTyped'
    BY <1>0, <2>1, <2>5, <2>6 DEF ThreadsTyped, Labels
  <2>8. Pending' = Pending /\ Args'
    BY <1>0, <2>1 DEF Pending, Args, Adding, TypeOK
  <2> QED
    BY <2>1, <2>7, <2>8, InvQuiet
<1>9. ASSUME NEW t \in Threads, Crash(t) PROVE Inv'
  BY <1>0, <1>9, InvQuiet DEF Crash, ThreadsTyped, Args, Pending
<1>10. ASSUME NEW t \in Threads, DoTruncate(t) PROVE Inv'
  BY <1>10, InvTruncate
<1>11. ASSUME NEW t \in Threads, TruncateEmpty(t) PROVE Inv'
  <2>1. /\ pc[t] = "truncate" /\ pc' = [pc EXCEPT ![t] = "idle"] /\ op' = [op EXCEPT ![t] = NoOp]
        /\ res' = <<FALSE, NoVal>> /\ mutex' = t /\ UNCHANGED <<links, room, crashed>>
    BY <1>11 DEF TruncateEmpty, Leave
  <2>2. NoOp \in Arg
    BY DEF NoOp, NoIndex, Arg
  <2>3. ThreadsTyped'
    BY <1>0, <1>1, <2>1, <2>2 DEF ThreadsTyped, Labels
  <2>4. Pending' = Pending /\ Args'
    BY <1>0, <2>1 DEF Pending, Args, Adding, TypeOK
  <2> QED
    BY <2>1, <2>3, <2>4, InvQuiet
<1>12. ASSUME NEW t \in Threads, CallTruncate(t) PROVE Inv'
  <2>1. NoIndex \in Int
    BY DEF NoIndex
  <2> QED
    BY <1>12, <2>1, EnterFacts DEF CallTruncate, Labels, Adding
<1>13. CASE UNCHANGED vars
  BY <1>0, <1>13, InvQuiet DEF vars, ThreadsTyped, Args, Pending
<1> QED
  BY <1>3, <1>4, <1>5, <1>6, <1>7, <1>8, <1>9, <1>10, <1>11, <1>12, <1>13 DEF Next, Call, Proceed

LEMMA InvInit == Init => Inv
<1> SUFFICES ASSUME Init PROVE Inv
  OBVIOUS
<1>1. PICK s \in Starts :
          /\ head = (IF Len(s) = 0 THEN Null ELSE 1) /\ tail = Len(s)
          /\ len = Len(s) /\ nodes = Len(s)
          /\ next = [i \in NodeIds |-> IF i < Len(s) THEN i + 1 ELSE Null]
          /\ prev = [i \in NodeIds |-> IF i \in 2..Len(s) THEN i - 1 ELSE Null]
          /\ val = [i \in NodeIds |-> IF i <= Len(s) THEN s[i] ELSE NoVal]
  BY DEF Init
<1>2. /\ s \in Seq(Vals) /\ Len(s) \in Nat /\ MaxNodes \in Nat /\ MaxAdded \in Nat
      /\ Len(s) + MaxAdded <= MaxNodes
  BY ListAssumption
<1> DEFINE n == Len(s)
<1>3. /\ freed = {} /\ room = MaxAdded /\ mutex = NoThread /\ res = Done /\ crashed = FALSE
      /\ pc = [t \in Threads |-> "idle"] /\ op = [t \in Threads |-> NoOp]
  BY DEF Init
<1>4. \A i \in 1..n : s[i] \in Vals
  BY <1>2
<1> HIDE DEF n
<1>5. n \in Nat /\ n <= MaxNodes
  BY <1>2 DEF n
<1>6. TypeOK
  <2>1. {head, tail} \subseteq 0..MaxNodes /\ len \in 0..MaxNodes /\ nodes \in 0..MaxNodes
    BY <1>1, <1>2, <1>5 DEF n, Null
  <2>2. next \in [NodeIds -> 0..MaxNodes] /\ prev \in [NodeIds -> 0..MaxNodes]
    BY <1>1, <1>2, <1>5 DEF n, Null, NodeIds
  <2>3. val \in [NodeIds -> Vals \cup {NoVal}]
    BY <1>1, <1>2, <1>4, <1>5 DEF n, NodeIds
  <2>4. ThreadsTyped /\ freed \subseteq NodeIds
    <3>1. NoOp \in Arg
      BY DEF NoOp, NoIndex, Arg
    <3>2. Done \in BOOLEAN \X (Vals \cup {NoVal})
      BY DEF Done
    <3>3. room \in 0..MaxAdded
      BY <1>2, <1>3
    <3> QED
      BY <1>3, <3>1, <3>2, <3>3 DEF ThreadsTyped, Labels
  <2> QED
    BY <2>1, <2>2, <2>3, <2>4 DEF TypeOK, ThreadsTyped, Labels, Arg
<1>7. Chained
  <2>1. PICK u : u = [i \in 1..n |-> i]
    OBVIOUS
  <2>2. \A i \in 1..n : i \in NodeIds
    BY <1>2, <1>5 DEF NodeIds
  <2>3. u \in [1..n -> NodeIds] /\ \A i \in 1..n : u[i] = i
    BY <2>1, <2>2
  <2>4. \A i \in 1..n : next[u[i]] = IF i = n THEN Null ELSE u[i + 1]
    BY <1>1, <1>5, <2>2, <2>3 DEF n
  <2>5. \A i \in 1..n : prev[u[i]] = IF i = 1 THEN Null ELSE u[i - 1]
    BY <1>1, <1>5, <2>2, <2>3 DEF n
  <2>6. head = (IF n = 0 THEN Null ELSE u[1]) /\ tail = (IF n = 0 THEN Null ELSE u[n])
    BY <1>1, <1>5, <2>3 DEF n, Null
  <2>7. IsChain(u, head, tail, n, next, prev)
    BY <2>3, <2>4, <2>5, <2>6 DEF IsChain
  <2>8. len = n /\ nodes = n
    BY <1>1 DEF n
  <2>9. \A i \in 1..n : u[i] \in (1..n) \ freed
    BY <1>3, <2>3
  <2> QED
    BY <2>7, <2>8, <2>9 DEF Chained, Chain
<1>8. Fresh
  BY <1>1, <1>2 DEF Fresh, Null, NodeIds
<1>9. Pending = {} /\ Args
  BY <1>3 DEF Pending, Args, Adding
<1>10. Budget
  BY <1>1, <1>2, <1>3, <1>9, FS_EmptySet DEF Budget
<1> QED
  BY <1>6, <1>7, <1>8, <1>9, <1>10 DEF Inv
-----------------------------------------------------------------------------
(* The theorems about the nodes.                                             *)

\* The invariant holds throughout.
THEOREM Invariance == Spec => []Inv
BY InvInit, InvNext, PTL DEF Spec

\* The fields of list_t, the nodes and the threads keep their types; no call
\* runs out of nodes.
THEOREM TypeCorrect == Spec => []TypeOK
<1>1. Inv => TypeOK
  BY DEF Inv
<1> QED
  BY <1>1, Invariance, PTL

\* The nodes are a doubly linked list, whatever the calls (list.c:35-141).
THEOREM ListLinked == Spec => []Linked
<1>1. Inv => Linked
  <2> SUFFICES ASSUME Inv PROVE Linked
    OBVIOUS
  <2>1. PICK s : Chain(s)
    BY DEF Inv, Chained
  <2>2. /\ len \in Nat
        /\ len # 0 => head = s[1] /\ tail = s[len]
        /\ len = 0 => head = Null /\ tail = Null
    BY <2>1, ChainEnds DEF Inv
  <2>3. CASE len = 0
    BY <2>2, <2>3 DEF Linked
  <2>4. CASE len # 0
    <3>1. ASSUME NEW i \in 0..(len - 1)
          PROVE  Ahead(i) = Behind(len - 1 - i) /\ Ahead(i) \in (1..nodes) \ freed
      <4>1. len - 1 - i \in 0..(len - 1) /\ len - (len - 1 - i) = i + 1 /\ i + 1 \in 1..len
        BY <2>2
      <4>2. Ahead(i) = s[i + 1] /\ Behind(len - 1 - i) = s[i + 1]
        <5>1. IsChain(s, head, tail, len, next, prev)
          BY <2>1 DEF Chain
        <5>2. \A k \in 0..(len - 1) : Ahead(k) = s[k + 1] /\ Behind(k) = s[len - k]
          BY <2>2, <5>1, ChainWalk DEF Ahead, Behind
        <5> QED
          BY <4>1, <5>2
      <4> QED
        BY <2>1, <4>1, <4>2 DEF Chain
    <3>2. prev[head] = Null /\ next[tail] = Null
      <4>1. 1 \in 1..len /\ len \in 1..len
        BY <2>2, <2>4
      <4> QED
        BY <2>1, <2>2, <2>4, <4>1 DEF Chain, IsChain
    <3> QED
      BY <2>4, <3>1, <3>2 DEF Linked
  <2> QED
    BY <2>3, <2>4
<1> QED
  BY <1>1, Invariance, PTL

-----------------------------------------------------------------------------
(* Stale lengths.  Until some node is freed, the index that a call has       *)
(* tested against the length is still within it; until another call takes    *)
(* effect, it is still where list_insert saw it.                             *)

Raced(t) == nodes > op[t].born \/ Cardinality(freed) > op[t].seen

Fits(t) ==
    /\ op[t].born <= nodes /\ op[t].seen <= Cardinality(freed)
    /\ op[t].seen = Cardinality(freed) =>
           /\ pc[t] = "choose" => op[t].idx <= len
           /\ pc[t] = "insert" => op[t].idx > 0 /\ op[t].idx < len
           /\ pc[t] = "get" => op[t].idx < len
    /\ pc[t] = "append" => op[t].idx = NoIndex \/ op[t].idx = len \/ Raced(t)
    /\ pc[t] = "prepend" => op[t].idx = NoIndex \/ op[t].idx = 0
    /\ pc[t] = "truncate" => op[t].idx = NoIndex

FitInv == \A t \in Threads : Fits(t)

\* What a step may do to the length and to the counts of nodes.
LengthMove ==
    \/ UNCHANGED <<len, nodes, freed>>
    \/ freed' = freed /\ len' >= len /\ nodes' > nodes
    \/ nodes' = nodes /\ Cardinality(freed') > Cardinality(freed)

LEMMA LengthMoves == ASSUME Inv, [Next]_vars PROVE LengthMove
<1>0. TypeOK /\ len \in Nat /\ nodes \in Nat
  BY DEF Inv, TypeOK
<1>1. ASSUME NEW t \in Threads, DoAppend(t) \/ DoPrepend(t) \/ DoInsert(t)
      PROVE  freed' = freed /\ len' >= len /\ nodes' > nodes
  BY <1>0, <1>1 DEF DoAppend, DoPrepend, DoInsert, Create
<1>2. ASSUME NEW t \in Threads, DoTruncate(t)
      PROVE  nodes' = nodes /\ Cardinality(freed') > Cardinality(freed)
  <2>1. PICK s : Shrinks(s)
    BY <1>2, TruncateShrinks
  <2>2. s[len] \notin freed /\ freed' = freed \cup {s[len]} /\ nodes' = nodes
    BY <2>1, ShrunkChain DEF Shrinks
  <2>3. Cardinality(freed') = Cardinality(freed) + 1
    BY <1>0, <2>2, FreedCount, FS_AddElement
  <2> QED
    BY <1>0, <2>2, <2>3, FreedCount
<1>3. \/ \E t \in Threads : DoAppend(t) \/ DoPrepend(t) \/ DoInsert(t) \/ DoTruncate(t)
      \/ UNCHANGED <<len, nodes, freed>>
  BY DEF Next, Call, Proceed, CallAppend, CallPrepend, CallInsert, CallGet, CallTruncate, Refuse,
         Enter, Choose, DoGet, TruncateEmpty, Crash, vars, links
<1> QED
  BY <1>1, <1>2, <1>3 DEF LengthMove

\* What a step may do to the place of a thread.
Begins(t) ==
    /\ pc[t] = "idle" /\ UNCHANGED links
    /\ op'[t].born = nodes /\ op'[t].seen = Cardinality(freed)
    /\ \/ pc'[t] \in {"append", "prepend", "truncate"} /\ op'[t].idx = NoIndex
       \/ pc'[t] = "choose" /\ op'[t].idx \in 0..len
       \/ pc'[t] = "get" /\ op'[t].idx \in 0..(len - 1)

Moves(t) ==
    \/ pc'[t] = pc[t] /\ op'[t] = op[t]
    \/ pc'[t] = "idle" /\ op'[t] = NoOp
    \/ Begins(t)
    \/ Choose(t)

LEMMA PlaceMoves == ASSUME Inv, [Next]_vars, NEW t \in Threads PROVE Moves(t)
<1>1. pc \in [Threads -> Labels] /\ op \in [Threads -> Arg]
  BY DEF Inv, TypeOK, Labels, Arg
<1>2. ASSUME NEW v \in Threads, NEW section, NEW i, NEW x, Enter(v, section, i, x),
             \/ section \in {"append", "prepend", "truncate"} /\ i = NoIndex
             \/ section = "choose" /\ i \in 0..len
             \/ section = "get" /\ i \in 0..(len - 1)
      PROVE  Moves(t)
  <2>1. CASE v = t
    <3>1. /\ pc'[t] = section /\ pc[t] = "idle" /\ UNCHANGED links
          /\ op'[t] = [idx |-> i, val |-> x, born |-> nodes, seen |-> Cardinality(freed)]
      BY <1>1, <1>2, <2>1 DEF Enter
    <3>2. Begins(t)
      BY <1>2, <3>1 DEF Begins
    <3> QED
      BY <3>2 DEF Moves
  <2>2. CASE v # t
    BY <1>1, <1>2, <2>2 DEF Enter, Moves
  <2> QED
    BY <2>1, <2>2
<1>3. ASSUME NEW v \in Threads,
             pc' = [pc EXCEPT ![v] = "idle"] /\ op' = [op EXCEPT ![v] = NoOp]
      PROVE  Moves(t)
  BY <1>1, <1>3 DEF Moves
<1>4. ASSUME NEW v \in Threads, Choose(v) PROVE Moves(t)
  BY <1>1, <1>4 DEF Choose, Moves
<1>5. ASSUME UNCHANGED <<pc, op>> PROVE Moves(t)
  BY <1>5 DEF Moves
<1>6. ASSUME NEW v \in Threads, Call(v) PROVE Moves(t)
  <2>1. ASSUME NEW x \in Vals, CallAppend(v, x) \/ CallPrepend(v, x) PROVE Moves(t)
    BY <1>2, <2>1 DEF CallAppend, CallPrepend
  <2>2. ASSUME NEW x \in Vals, NEW i \in -1..(len + 1), CallInsert(v, i, x) PROVE Moves(t)
    BY <1>2, <1>5, <2>2 DEF CallInsert, Within, Refuse
  <2>3. ASSUME NEW i \in -1..len, CallGet(v, i) PROVE Moves(t)
    BY <1>2, <1>5, <2>3 DEF CallGet, Refuse
  <2>4. ASSUME CallTruncate(v) PROVE Moves(t)
    BY <1>2, <2>4 DEF CallTruncate
  <2> QED
    BY <1>6, <2>1, <2>2, <2>3, <2>4 DEF Call
<1>7. ASSUME NEW v \in Threads, Proceed(v) PROVE Moves(t)
  <2>1. CASE DoAppend(v) \/ DoPrepend(v) \/ DoInsert(v) \/ DoGet(v) \/ DoTruncate(v)
             \/ TruncateEmpty(v)
    <3>1. pc' = [pc EXCEPT ![v] = "idle"] /\ op' = [op EXCEPT ![v] = NoOp]
      BY <2>1 DEF DoAppend, DoPrepend, DoInsert, DoGet, DoTruncate, TruncateEmpty, Return, Leave
    <3> QED
      BY <1>3, <3>1
  <2>2. CASE Crash(v)
    BY <1>5, <2>2 DEF Crash
  <2> QED
    BY <1>4, <1>7, <2>1, <2>2 DEF Proceed
<1> QED
  BY <1>5, <1>6, <1>7 DEF Next, vars

LEMMA FitNext == Inv /\ FitInv /\ [Next]_vars => FitInv'
<1> SUFFICES ASSUME Inv, FitInv, [Next]_vars, NEW t \in Threads PROVE Fits(t)'
  BY DEF FitInv
<1>0. Inv' /\ TypeOK /\ TypeOK' /\ Args /\ Args' /\ Fits(t)
  BY InvNext DEF Inv, FitInv
<1>1. /\ len \in Nat /\ len' \in Nat /\ nodes \in Nat /\ nodes' \in Nat
      /\ op[t].seen \in Nat /\ op[t].born \in Nat /\ op[t].idx \in Int
  BY <1>0 DEF TypeOK
<1>2. Cardinality(freed) \in Nat
  BY <1>0, FreedCount
<1>3. Cardinality(freed') \in Nat
  <2>1. IsFiniteSet(NodeIds) /\ freed' \subseteq NodeIds
    BY <1>0, ListAssumption, FS_Interval DEF NodeIds, TypeOK
  <2> QED
    BY <2>1, FS_Subset, FS_CardinalityType
<1>4. LengthMove
  BY LengthMoves
<1>5. CASE pc'[t] = pc[t] /\ op'[t] = op[t]
  <2>1. CASE UNCHANGED <<len, nodes, freed>>
    BY <1>0, <1>5, <2>1 DEF Fits, Raced
  <2>2. CASE freed' = freed /\ len' >= len /\ nodes' > nodes
    BY <1>0, <1>1, <1>2, <1>5, <2>2 DEF Fits, Raced
  <2>3. CASE nodes' = nodes /\ Cardinality(freed') > Cardinality(freed)
    BY <1>0, <1>1, <1>2, <1>3, <1>5, <2>3 DEF Fits, Raced
  <2> QED
    BY <1>4, <2>1, <2>2, <2>3 DEF LengthMove
<1>6. CASE pc'[t] = "idle" /\ op'[t] = NoOp
  BY <1>1, <1>3, <1>6 DEF Fits, NoOp
<1>7. CASE Begins(t)
  BY <1>1, <1>2, <1>7 DEF Begins, Fits, links
<1>8. CASE Choose(t)
  <2>1. /\ UNCHANGED links /\ op' = op /\ pc[t] = "choose" /\ op[t].idx \in Nat
        /\ pc'[t] = Section(op[t].idx)
    BY <1>0, <1>8 DEF Choose, Args, TypeOK
  <2>2. \/ pc'[t] = "append" /\ op[t].idx = len
        \/ pc'[t] = "prepend" /\ op[t].idx = 0
        \/ pc'[t] = "insert" /\ op[t].idx # len /\ op[t].idx # 0
    BY <2>1 DEF Section
  <2> QED
    BY <1>0, <1>1, <2>1, <2>2 DEF Fits, links
<1> QED
  BY <1>5, <1>6, <1>7, <1>8, PlaceMoves DEF Moves

LEMMA FitInit == Init => FitInv
<1> SUFFICES ASSUME Init PROVE FitInv
  OBVIOUS
<1>1. Cardinality(freed) = 0
  BY FS_EmptySet DEF Init
<1>2. nodes \in Nat
  BY InvInit DEF Inv, TypeOK
<1> QED
  BY <1>1, <1>2 DEF Init, FitInv, Fits, NoOp

\* A null pointer is followed only by a call that another thread's truncation
\* has overtaken (list.c:82, 85, 144).
THEOREM OnlyTruncateCrashes == Spec => []CrashNeedsTruncate
<1>1. Inv /\ FitInv => CrashNeedsTruncate
  <2> SUFFICES ASSUME Inv, FitInv, NEW t \in Threads, NoNode(t)
               PROVE  Cardinality(freed) > op[t].seen
    BY DEF CrashNeedsTruncate
  <2>0. TypeOK /\ Args /\ Fits(t)
    BY DEF Inv, FitInv
  <2>1. /\ len \in Nat /\ op[t].seen \in Nat /\ Cardinality(freed) \in Nat
    BY <2>0, FreedCount DEF TypeOK
  <2>2. pc[t] \in {"insert", "get"} /\ op[t].idx \in Nat
    BY <2>0 DEF NoNode, Args
  <2>3. PICK s : Chain(s)
    BY DEF Inv, Chained
  <2> DEFINE i == op[t].idx
  <2>4. ~(i < len /\ (pc[t] = "insert" => i > 0))
    <3> SUFFICES ASSUME i < len, pc[t] = "insert" => i > 0 PROVE FALSE
      OBVIOUS
    <3>1. NodeAt(i) = s[i + 1] /\ i + 1 \in 1..len
      BY <2>0, <2>1, <2>2, <2>3, NodeAtIs
    <3>2. s[i + 1] # Null
      BY <2>0, <2>3, <3>1, ChainEnds
    <3>3. pc[t] = "insert" => prev[s[i + 1]] # Null
      <4> SUFFICES ASSUME pc[t] = "insert" PROVE prev[s[i + 1]] # Null
        OBVIOUS
      <4>1. i + 1 # 1 /\ i \in 1..len /\ (i + 1) - 1 = i
        BY <2>1, <2>2
      <4>2. prev[s[i + 1]] = s[i]
        BY <2>3, <3>1, <4>1 DEF Chain, IsChain
      <4> QED
        BY <2>0, <2>3, <4>1, <4>2, ChainEnds
    <3> QED
      BY <3>1, <3>2, <3>3 DEF NoNode
  <2> QED
    BY <2>0, <2>1, <2>2, <2>4 DEF Fits
<1> QED
  BY <1>1, FitInit, FitNext, Invariance, PTL DEF Spec

-----------------------------------------------------------------------------
(* The elements.                                                             *)

LEMMA ContentsAre ==
    ASSUME NEW n \in Nat, NEW s, NEW h, NEW t, NEW nx, NEW pv, IsChain(s, h, t, n, nx, pv), NEW v
    PROVE  [i \in 1..n |-> v[Walk(h, nx, i - 1)]] = [i \in 1..n |-> v[s[i]]]
<1>1. ASSUME NEW i \in 1..n PROVE Walk(h, nx, i - 1) = s[i]
  <2>1. i - 1 \in 0..(n - 1) /\ (i - 1) + 1 = i
    OBVIOUS
  <2> QED
    BY <2>1, ChainWalk
<1> QED
  BY <1>1

\* list_get hands out the element at its index, whichever end it walks from
\* (list.c:149-162), unless the list has shrunk to the index meanwhile.
THEOREM GetCorrect == Spec => GetsElement
<1>1. ASSUME Inv, [Next]_vars
      PROVE  [\A t \in Threads :
                  pc[t] = "get" /\ pc'[t] = "idle" /\ op[t].idx < len =>
                      res' = <<TRUE, Contents[op[t].idx + 1]>>]_vars
  <2> SUFFICES ASSUME Next, NEW t \in Threads, pc[t] = "get", pc'[t] = "idle", op[t].idx < len
               PROVE  res' = <<TRUE, Contents[op[t].idx + 1]>>
    BY <1>1
  <2>0. TypeOK /\ Args /\ len \in Nat /\ op[t].idx \in Nat
    BY <1>1 DEF Inv, TypeOK, Args
  <2>1. DoGet(t)
    <3>1. PICK v \in Threads : Call(v) \/ Proceed(v)
      BY DEF Next
    <3>2. pc \in [Threads -> Labels]
      BY <2>0 DEF TypeOK, Labels
    <3>3. ~Call(v)
      BY <3>2 DEF Call, CallAppend, CallPrepend, CallInsert, CallGet, CallTruncate, Refuse, Enter
    <3>4. ~(Choose(v) \/ Crash(v))
      <4>1. Section(op[v].idx) # "idle"
        BY DEF Section
      <4> QED
        BY <3>2, <4>1 DEF Choose, Crash
    <3>5. DoAppend(v) \/ DoPrepend(v) \/ DoInsert(v) \/ DoTruncate(v) \/ TruncateEmpty(v)
              => pc[v] # "get" /\ pc' = [pc EXCEPT ![v] = "idle"]
      BY DEF DoAppend, DoPrepend, DoInsert, DoTruncate, TruncateEmpty, Return, Leave
    <3>6. DoGet(v) => pc' = [pc EXCEPT ![v] = "idle"]
      BY DEF DoGet, Return, Leave
    <3>7. v = t
      BY <3>1, <3>2, <3>3, <3>4, <3>5, <3>6 DEF Proceed
    <3> QED
      BY <3>1, <3>3, <3>4, <3>5, <3>7 DEF Proceed
  <2>2. PICK s : Chain(s)
    BY <1>1 DEF Inv, Chained
  <2>3. NodeAt(op[t].idx) = s[op[t].idx + 1] /\ op[t].idx + 1 \in 1..len
    BY <2>0, <2>2, NodeAtIs
  <2>4. Contents = [i \in 1..len |-> val[s[i]]]
    BY <2>0, <2>2, ContentsAre DEF Chain, Contents, Ahead
  <2>5. res' = <<TRUE, val[NodeAt(op[t].idx)]>>
    BY <2>1 DEF DoGet, Return, Leave
  <2> QED
    BY <2>3, <2>4, <2>5
<1> QED
  BY <1>1, Invariance, PTL DEF Spec, GetsElement
\* What InsertAt and Front of the abstract list return.
LEMMA InsertIs ==
    ASSUME NEW S, NEW n \in Nat, NEW c \in [1..n -> S], NEW j \in 1..(n + 1), NEW e \in S,
           NEW d, d = [i \in 1..(n + 1) |-> IF i < j THEN c[i] ELSE IF i = j THEN e ELSE c[i - 1]]
    PROVE  SubSeq(c, 1, j - 1) \o <<e>> \o SubSeq(c, j, Len(c)) = d
<1> DEFINE a == SubSeq(c, 1, j - 1)
           b == SubSeq(c, j, n)
           m == a \o <<e>>
           r == m \o b
<1>1. c \in Seq(S) /\ Len(c) = n
  BY FunctionIsSeq
<1>2. /\ a \in Seq(S) /\ Len(a) = j - 1
      /\ \A i \in 1..(j - 1) : a[i] = c[i]
  <2>1. \A i \in 1..(j - 1) : c[i] \in S
    OBVIOUS
  <2>2. /\ a \in Seq(S) /\ Len(a) = IF 1 <= j - 1 THEN (j - 1) - 1 + 1 ELSE 0
        /\ \A i \in 1..((j - 1) - 1 + 1) : a[i] = c[1 + i - 1]
    BY <2>1, SubSeqProperties
  <2>3. (j - 1) - 1 + 1 = j - 1 /\ \A i \in 1..(j - 1) : 1 + i - 1 = i
    OBVIOUS
  <2> HIDE DEF a
  <2> QED
    BY <2>2, <2>3
<1>3. /\ b \in Seq(S) /\ Len(b) = n - j + 1
      /\ \A i \in 1..(n - j + 1) : b[i] = c[j + i - 1]
  <2>1. \A i \in j..n : c[i] \in S
    OBVIOUS
  <2>2. /\ b \in Seq(S) /\ Len(b) = IF j <= n THEN n - j + 1 ELSE 0
        /\ \A i \in 1..(n - j + 1) : b[i] = c[j + i - 1]
    BY <2>1, SubSeqProperties
  <2> HIDE DEF b
  <2> QED
    BY <2>2
<1>4. <<e>> \in Seq(S) /\ Len(<<e>>) = 1 /\ <<e>>[1] = e
  OBVIOUS
<1> HIDE DEF a, b
<1>5. /\ m \in Seq(S) /\ Len(m) = j
      /\ \A i \in 1..j : m[i] = IF i < j THEN c[i] ELSE e
  <2>1. /\ m \in Seq(S) /\ Len(m) = Len(a) + Len(<<e>>)
        /\ \A i \in 1..(Len(a) + Len(<<e>>)) : m[i] = IF i <= Len(a) THEN a[i] ELSE <<e>>[i - Len(a)]
    BY <1>2, <1>4, ConcatProperties
  <2>2. Len(a) + Len(<<e>>) = j
    BY <1>2, <1>4
  <2> HIDE DEF m
  <2>3. ASSUME NEW i \in 1..j PROVE m[i] = IF i < j THEN c[i] ELSE e
    <3>1. m[i] = IF i <= j - 1 THEN a[i] ELSE <<e>>[i - (j - 1)]
      BY <1>2, <2>1, <2>2
    <3>2. CASE i < j
      BY <1>2, <3>1, <3>2
    <3>3. CASE i = j
      <4>1. i - (j - 1) = 1 /\ ~(i <= j - 1)
        BY <3>3
      <4> QED
        BY <1>4, <3>1, <3>3, <4>1
    <3> QED
      BY <3>2, <3>3
  <2> QED
    BY <2>1, <2>2, <2>3
<1> HIDE DEF m
<1>6. /\ r \in Seq(S) /\ Len(r) = n + 1
      /\ \A i \in 1..(n + 1) : r[i] = IF i <= j THEN m[i] ELSE b[i - j]
  <2>1. /\ r \in Seq(S) /\ Len(r) = Len(m) + Len(b)
        /\ \A i \in 1..(Len(m) + Len(b)) : r[i] = IF i <= Len(m) THEN m[i] ELSE b[i - Len(m)]
    BY <1>3, <1>5, ConcatProperties
  <2>2. Len(m) + Len(b) = n + 1 /\ Len(m) = j
    BY <1>3, <1>5
  <2> HIDE DEF r
  <2> QED
    BY <2>1, <2>2
<1> HIDE DEF r
<1>7. d \in [1..(n + 1) -> S]
  OBVIOUS
<1>8. d \in Seq(S) /\ Len(d) = n + 1
  BY <1>7, FunctionIsSeq
<1>9. ASSUME NEW i \in 1..(n + 1) PROVE r[i] = d[i]
  <2>1. CASE i <= j
    <3>1. i \in 1..j
      BY <2>1
    <3> QED
      BY <1>5, <1>6, <2>1, <3>1
  <2>2. CASE i > j
    <3>1. i - j \in 1..(n - j + 1) /\ j + (i - j) - 1 = i - 1
      BY <2>2
    <3>2. r[i] = c[i - 1]
      BY <1>3, <1>6, <2>2, <3>1
    <3> QED
      BY <2>2, <3>2
  <2> QED
    BY <2>1, <2>2
<1>10. r = d
  BY <1>6, <1>8, <1>9, SeqEqual
<1> QED
  BY <1>1, <1>10 DEF r, m, a, b

LEMMA FrontIs ==
    ASSUME NEW S, NEW n \in Nat \ {0}, NEW c \in [1..n -> S],
           NEW d, d = [i \in 1..(n - 1) |-> c[i]]
    PROVE  c # <<>> /\ SubSeq(c, 1, Len(c) - 1) = d
<1> DEFINE a == SubSeq(c, 1, n - 1)
<1>1. c \in Seq(S) /\ Len(c) = n
  BY FunctionIsSeq
<1>2. d \in [1..(n - 1) -> S] /\ n - 1 \in Nat
  OBVIOUS
<1>3. d \in Seq(S) /\ Len(d) = n - 1
  BY <1>2, FunctionIsSeq
<1>4. \A i \in 1..(n - 1) : c[i] \in S
  OBVIOUS
<1>5. /\ a \in Seq(S) /\ Len(a) = IF 1 <= n - 1 THEN (n - 1) - 1 + 1 ELSE 0
      /\ \A i \in 1..((n - 1) - 1 + 1) : a[i] = c[1 + i - 1]
  BY <1>4, SubSeqProperties
<1> HIDE DEF a
<1>6. Len(a) = n - 1 /\ \A i \in 1..(n - 1) : a[i] = d[i]
  BY <1>5
<1>7. a = d
  BY <1>3, <1>5, <1>6, SeqEqual
<1>8. Len(<<>>) = 0
  OBVIOUS
<1> QED
  BY <1>1, <1>7, <1>8 DEF a
Elements == Vals \cup {NoVal}

LEMMA ContentsFact ==
    ASSUME TypeOK, NEW s, Chain(s)
    PROVE  /\ Contents = [i \in 1..len |-> val[s[i]]]
           /\ Contents \in [1..len -> Elements] /\ len \in Nat
<1>1. len \in Nat /\ IsChain(s, head, tail, len, next, prev)
  BY DEF TypeOK, Chain
<1>2. Contents = [i \in 1..len |-> val[s[i]]]
  BY <1>1, ContentsAre DEF Contents, Ahead
<1>3. \A i \in 1..len : val[s[i]] \in Elements
  BY ChainEnds DEF TypeOK, Elements
<1> QED
  BY <1>1, <1>2, <1>3

-----------------------------------------------------------------------------
(* The abstract list.                                                        *)

\* The abstract call of a thread.
CallOf == [t \in Threads |-> IF pc[t] \in {"idle", "get"} THEN NoCall ELSE Asked(t)]

\* The call of t has returned, and what the other threads do is what it was.
Returned(t) == pc' = [pc EXCEPT ![t] = "idle"] /\ op' = [op EXCEPT ![t] = NoOp]

\* The fields of what a caller has asked for, in this state and the next.
Fields(t, kind, overtaken) ==
    [kind |-> kind, idx |-> op[t].idx, val |-> op[t].val, raced |-> overtaken]

Kind(t) == IF op[t].idx # NoIndex THEN "insert" ELSE pc[t]

LEMMA AskedIs ==
    ASSUME NEW t
    PROVE  /\ \E o \in BOOLEAN : o = Raced(t) /\ Asked(t) = Fields(t, Kind(t), o)
           /\ \E o \in BOOLEAN : o = Raced(t)' /\ Asked(t)' = Fields(t, Kind(t), o)'
<1>1. ASSUME NEW o \in BOOLEAN, o = Raced(t) PROVE Asked(t) = Fields(t, Kind(t), o)
  <2>1. (nodes > op[t].born \/ Cardinality(freed) > op[t].seen) = o
    BY <1>1 DEF Raced
  <2> QED
    BY <2>1, Zenon DEF Asked, Fields, Kind
<1>2. ASSUME NEW o \in BOOLEAN, o = Raced(t)' PROVE Asked(t)' = Fields(t, Kind(t), o)'
  <2>1. (nodes' > op'[t].born \/ Cardinality(freed') > op'[t].seen) = o
    BY <1>2 DEF Raced
  <2> QED
    BY <2>1, Zenon DEF Asked, Fields, Kind
<1>3. (\E o \in BOOLEAN : o = Raced(t)) /\ (\E o \in BOOLEAN : o = Raced(t)')
  BY DEF Raced
<1> QED
  BY <1>1, <1>2, <1>3

\* A call other than list_get is one that the abstract list knows of.
LEMMA CallIs ==
    ASSUME TypeOK, NEW t \in Threads
    PROVE  /\ pc[t] \in {"idle", "get"} => CallOf[t] = NoCall
           /\ pc[t] \notin {"idle", "get"} =>
                  /\ CallOf[t] = Asked(t) /\ CallOf[t] # NoCall
                  /\ CallOf[t].kind = Kind(t) /\ CallOf[t].val = op[t].val
<1>1. pc[t] \in Labels
  BY DEF TypeOK, Labels
<1>2. pc[t] \in {"idle", "get"} => CallOf[t] = NoCall
  BY DEF CallOf
<1>3. ASSUME pc[t] \notin {"idle", "get"}
      PROVE  /\ CallOf[t] = Asked(t) /\ CallOf[t] # NoCall
             /\ CallOf[t].kind = Kind(t) /\ CallOf[t].val = op[t].val
  <2>1. CallOf[t] = Asked(t)
    BY <1>3 DEF CallOf
  <2>2. Asked(t).kind = Kind(t) /\ Asked(t).val = op[t].val
    BY AskedIs DEF Fields
  <2>3. Kind(t) # "none" /\ NoCall.kind = "none"
    BY <1>1 DEF Kind, NoCall, Labels
  <2> QED
    BY <2>1, <2>2, <2>3
<1> QED
  BY <1>2, <1>3

\* The calls of the other threads are overtaken by a call that takes effect.
LEMMA EffectIs ==
    ASSUME Inv, FitInv, TypeOK', NEW t \in Threads, Returned(t), LengthMove,
           ~UNCHANGED <<len, nodes, freed>>
    PROVE  CallOf' = [u \in Threads |-> IF u = t \/ CallOf[u] = NoCall THEN NoCall
                                        ELSE [CallOf[u] EXCEPT !.raced = TRUE]]
<1>0. TypeOK /\ pc \in [Threads -> Labels] /\ op \in [Threads -> Arg]
  BY DEF Inv, TypeOK, Labels, Arg
<1> SUFFICES ASSUME NEW u \in Threads
             PROVE  (IF pc'[u] \in {"idle", "get"} THEN NoCall ELSE Asked(u)')
                    = IF u = t \/ CallOf[u] = NoCall THEN NoCall
                      ELSE [CallOf[u] EXCEPT !.raced = TRUE]
  BY DEF CallOf
<1>1. CASE u = t
  BY <1>0, <1>1 DEF Returned
<1>2. CASE u # t
  <2>1. pc'[u] = pc[u] /\ op'[u] = op[u]
    BY <1>0, <1>2 DEF Returned
  <2>2. CASE pc[u] \in {"idle", "get"}
    BY <1>0, <1>2, <2>1, <2>2, CallIs
  <2>3. CASE pc[u] \notin {"idle", "get"}
    <3>1. CallOf[u] = Asked(u) /\ CallOf[u] # NoCall
      BY <1>0, <2>3, CallIs
    <3>2. Raced(u)'
      <4>1. /\ op[u].born <= nodes /\ op[u].seen <= Cardinality(freed)
            /\ nodes \in Nat /\ nodes' \in Nat /\ op[u].born \in Nat /\ op[u].seen \in Nat
        BY <1>0 DEF FitInv, Fits, TypeOK, Arg
      <4>2. Cardinality(freed) \in Nat
        BY <1>0, FreedCount
      <4>3. Cardinality(freed') \in Nat
        <5>1. IsFiniteSet(NodeIds) /\ freed' \subseteq NodeIds
          BY ListAssumption, FS_Interval DEF NodeIds, TypeOK
        <5> QED
          BY <5>1, FS_Subset, FS_CardinalityType
      <4>4. nodes' > nodes \/ Cardinality(freed') > Cardinality(freed)
        BY DEF LengthMove
      <4> QED
        BY <2>1, <4>1, <4>2, <4>3, <4>4 DEF Raced
    <3>3. PICK o \in BOOLEAN : Asked(u) = Fields(u, Kind(u), o)
      BY AskedIs
    <3>4. PICK p \in BOOLEAN : p = Raced(u)' /\ Asked(u)' = Fields(u, Kind(u), p)'
      BY AskedIs
    <3>5. p = TRUE
      BY <3>2, <3>4
    <3>6. Asked(u)' = [Asked(u) EXCEPT !.raced = TRUE]
      <4>1. Fields(u, Kind(u), p)' = Fields(u, Kind(u), p)
        BY <2>1 DEF Fields, Kind
      <4>2. Fields(u, Kind(u), p) = [Fields(u, Kind(u), o) EXCEPT !.raced = p]
        BY DEF Fields
      <4> QED
        BY <3>3, <3>4, <3>5, <4>1, <4>2, Zenon
    <3> QED
      BY <1>2, <2>1, <2>3, <3>1, <3>6
  <2> QED
    BY <2>2, <2>3
<1> QED
  BY <1>1, <1>2

\* A thread's call begins, as it was asked for.
LEMMA EnterBegins ==
    ASSUME Inv, NEW t \in Threads, NEW section, NEW i, NEW v, Enter(t, section, i, v),
           \/ section \in {"append", "prepend"} /\ i = NoIndex /\ v \in Vals
           \/ section = "choose" /\ i \in 0..len /\ v \in Vals
           \/ section = "truncate" /\ i = NoIndex /\ v = NoVal
    PROVE  SS!Begin(t)
<1>0. /\ TypeOK /\ nodes \in Nat /\ len \in Nat
      /\ pc \in [Threads -> Labels] /\ op \in [Threads -> Arg]
  BY DEF Inv, TypeOK, Labels, Arg
<1>1. /\ pc[t] = "idle" /\ pc' = [pc EXCEPT ![t] = section] /\ UNCHANGED links
      /\ op' = [op EXCEPT ![t] =
                    [idx |-> i, val |-> v, born |-> nodes, seen |-> Cardinality(freed)]]
  BY DEF Enter
<1>2. Contents' = Contents
  BY <1>1 DEF links, Contents, Ahead
<1>3. Len(Contents) = len
  <2>1. PICK s : Chain(s)
    BY DEF Inv, Chained
  <2>2. Contents \in [1..len -> Elements] /\ len \in Nat
    BY <1>0, <2>1, ContentsFact
  <2> QED
    BY <2>2, FunctionIsSeq
<1>4. CallOf[t] = NoCall
  BY <1>0, <1>1, CallIs
<1>5. (nodes > nodes \/ Cardinality(freed) > Cardinality(freed)) = FALSE
  BY <1>0, FreedCount
<1>6. /\ op'[t] = [idx |-> i, val |-> v, born |-> nodes, seen |-> Cardinality(freed)]
      /\ pc'[t] = section /\ nodes' = nodes /\ freed' = freed
  BY <1>0, <1>1 DEF links
<1>7. CallOf'[t] = [kind |-> IF i # NoIndex THEN "insert" ELSE section,
                    idx |-> i, val |-> v, raced |-> FALSE]
  <2>1. CallOf'[t] = Asked(t)'
    BY <1>6 DEF CallOf
  <2>2. PICK o \in BOOLEAN : o = Raced(t)' /\ Asked(t)' = Fields(t, Kind(t), o)'
    BY AskedIs
  <2>3. o = FALSE
    <3>1. ~(nodes' > op'[t].born) /\ ~(Cardinality(freed') > op'[t].seen)
      BY <1>5, <1>6
    <3>2. ~Raced(t)'
      BY <3>1 DEF Raced
    <3> QED
      BY <2>2, <3>2
  <2>4. op'[t].idx = i /\ op'[t].val = v /\ pc'[t] = section
    BY <1>6
  <2>5. Asked(t)' = [kind |-> IF i # NoIndex THEN "insert" ELSE section,
                     idx |-> i, val |-> v, raced |-> o]
    BY <2>2, <2>4 DEF Fields, Kind
  <2> QED
    BY <2>1, <2>3, <2>5
<1>8. CallOf'[t] \in SS!Requests
  <2>1. CASE section \in {"append", "prepend"} /\ i = NoIndex /\ v \in Vals
    <3>1. CallOf'[t] = SS!Request(section, NoIndex, v)
      BY <1>7, <2>1 DEF SS!Request
    <3> QED
      BY <2>1, <3>1 DEF SS!Requests
  <2>2. CASE section = "choose" /\ i \in 0..len /\ v \in Vals
    <3>1. i # NoIndex
      BY <1>0, <2>2 DEF NoIndex
    <3>2. CallOf'[t] = SS!Request("insert", i, v)
      BY <1>7, <3>1 DEF SS!Request
    <3>3. i \in 0..Len(Contents)
      BY <1>3, <2>2
    <3> QED
      BY <2>2, <3>2, <3>3 DEF SS!Requests
  <2>3. CASE section = "truncate" /\ i = NoIndex /\ v = NoVal
    BY <1>7, <2>3 DEF SS!Requests, SS!Request
  <2> QED
    BY <2>1, <2>2, <2>3
<1>9. CallOf' = [CallOf EXCEPT ![t] = CallOf'[t]]
  <2> SUFFICES ASSUME NEW u \in Threads, u # t PROVE CallOf'[u] = CallOf[u]
    BY DEF CallOf
  <2>1. pc'[u] = pc[u] /\ op'[u] = op[u]
    BY <1>0, <1>1
  <2> QED
    BY <1>6, <2>1 DEF CallOf, Asked
<1> QED
  BY <1>2, <1>4, <1>8, <1>9 DEF SS!Begin, CallOf

\* The calls that add insert one element at one place.
LEMMA GrowInserts ==
    ASSUME Inv, NEW t \in Threads, NEW s, NEW j \in 1..(len + 1), Grows(t, s, j)
    PROVE  /\ Contents' = SS!InsertAt(Contents, j, op[t].val)
           /\ Len(Contents) = len
<1> DEFINE n == nodes + 1
           v == op[t].val
<1>1. /\ Contents = [i \in 1..len |-> val[s[i]]]
      /\ Contents \in [1..len -> Elements] /\ len \in Nat
  BY ContentsFact DEF Grows, Inv
<1>2. PICK u : u = WithNode(s, len, j, n) /\ Chain(u)'
  BY GrownChain
<1>3. Contents' = [i \in 1..len' |-> val'[u[i]]] /\ len' = len + 1
  <2>1. len' \in Nat /\ len' = len + 1
    BY <1>1 DEF Grows
  <2> QED
    BY <1>2, <2>1, ContentsAre DEF Chain, Contents, Ahead
<1>4. /\ v \in Vals /\ n \in NodeIds /\ val' = [val EXCEPT ![n] = v]
      /\ val \in [NodeIds -> Vals \cup {NoVal}]
  BY DEF Grows, Inv, TypeOK
<1>5. \A i \in 1..len : s[i] \in NodeIds /\ s[i] # n
  BY ChainEnds DEF Inv, Grows
<1>6. ASSUME NEW i \in 1..(len + 1)
      PROVE  val'[u[i]] = IF i < j THEN Contents[i] ELSE IF i = j THEN v ELSE Contents[i - 1]
  <2>1. u[i] = IF i < j THEN s[i] ELSE IF i = j THEN n ELSE s[i - 1]
    BY <1>2 DEF WithNode
  <2>2. (i < j => i \in 1..len) /\ (i > j => i - 1 \in 1..len) /\ (i < j \/ i = j \/ i > j)
    BY <1>1
  <2>3. CASE i < j
    BY <1>1, <1>4, <1>5, <2>1, <2>2, <2>3
  <2>4. CASE i = j
    BY <1>4, <2>1, <2>4
  <2>5. CASE i > j
    <3>1. u[i] = s[i - 1] /\ ~(i < j) /\ i # j
      BY <1>1, <2>1, <2>5
    <3>2. val'[s[i - 1]] = val[s[i - 1]]
      BY <1>4, <1>5, <2>2, <2>5
    <3> QED
      BY <1>1, <2>2, <2>5, <3>1, <3>2
  <2> QED
    BY <2>2, <2>3, <2>4, <2>5
<1>7. Contents' = [i \in 1..(len + 1) |->
                      IF i < j THEN Contents[i] ELSE IF i = j THEN v ELSE Contents[i - 1]]
  BY <1>3, <1>6
<1>8. v \in Elements
  BY <1>4 DEF Elements
<1> HIDE DEF v
<1>9. SubSeq(Contents, 1, j - 1) \o <<v>> \o SubSeq(Contents, j, Len(Contents)) = Contents'
  BY <1>1, <1>7, <1>8, InsertIs
<1>10. Len(Contents) = len
  BY <1>1, FunctionIsSeq
<1> QED
  BY <1>9, <1>10 DEF SS!InsertAt, v

\* list_truncate takes the last element away.
LEMMA ShrinkTruncates ==
    ASSUME Inv, NEW s, Shrinks(s)
    PROVE  Contents # <<>> /\ Contents' = SS!Front(Contents)
<1>1. /\ Contents = [i \in 1..len |-> val[s[i]]]
      /\ Contents \in [1..len -> Elements] /\ len \in Nat /\ len # 0
  BY ContentsFact DEF Shrinks, Inv
<1>2. PICK u : u = [i \in 1..(len - 1) |-> s[i]] /\ Chain(u)'
  BY ShrunkChain
<1>3. Contents' = [i \in 1..(len - 1) |-> val[u[i]]]
  <2>1. len' = len - 1 /\ len' \in Nat /\ val' = val
    BY <1>1 DEF Shrinks
  <2>2. Contents' = [i \in 1..len' |-> val'[u[i]]]
    BY <1>2, <2>1, ContentsAre DEF Chain, Contents, Ahead
  <2> QED
    BY <2>1, <2>2
<1>4. Contents' = [i \in 1..(len - 1) |-> Contents[i]]
  <2>1. ASSUME NEW i \in 1..(len - 1) PROVE val[u[i]] = Contents[i]
    BY <1>1, <1>2
  <2> QED
    BY <1>3, <2>1
<1>5. Contents # <<>> /\ SubSeq(Contents, 1, Len(Contents) - 1) = Contents'
  BY <1>1, <1>4, FrontIs
<1> QED
  BY <1>5 DEF SS!Front

\* The place where the element of a call goes is one that the call allows.
LEMMA PlaceAllowed ==
    ASSUME Inv, FitInv, NEW t \in Threads, Len(Contents) = len, NEW j,
           \/ pc[t] = "append" /\ j = len + 1
           \/ pc[t] = "prepend" /\ j = 1
           \/ pc[t] = "insert" /\ j = IF op[t].idx < len THEN op[t].idx + 1 ELSE len
    PROVE  j \in SS!Places(CallOf[t])
<1>0. TypeOK /\ Args /\ Fits(t) /\ len \in Nat /\ nodes \in Nat
  BY DEF Inv, FitInv, TypeOK
<1>1. CallOf[t] = Asked(t)
  BY <1>0, CallIs
<1> DEFINE c == CallOf[t]
<1>2. /\ c.kind = (IF op[t].idx # NoIndex THEN "insert" ELSE pc[t])
      /\ c.idx = op[t].idx /\ c.raced = Raced(t)
  BY <1>1 DEF Asked, Raced
<1> HIDE DEF c
<1>3. /\ c.kind = "append" => SS!Places(c) = {len + 1}
      /\ c.kind = "prepend" => SS!Places(c) = {1}
      /\ c.kind = "insert" =>
             SS!Places(c) = {c.idx + 1} \cup (IF c.raced THEN {len, len + 1} ELSE {})
  BY DEF SS!Places
<1>4. CASE pc[t] = "append" /\ j = len + 1
  <2>1. op[t].idx = NoIndex \/ op[t].idx = len \/ Raced(t)
    BY <1>0, <1>4 DEF Fits
  <2>2. CASE op[t].idx = NoIndex
    BY <1>2, <1>3, <1>4, <2>2 DEF c
  <2>3. CASE op[t].idx # NoIndex
    BY <1>2, <1>3, <1>4, <2>1, <2>3 DEF c
  <2> QED
    BY <2>2, <2>3
<1>5. CASE pc[t] = "prepend" /\ j = 1
  <2>1. op[t].idx = NoIndex \/ op[t].idx = 0
    BY <1>0, <1>5 DEF Fits
  <2>2. CASE op[t].idx = NoIndex
    BY <1>2, <1>3, <1>5, <2>2 DEF c
  <2>3. CASE op[t].idx # NoIndex
    BY <1>2, <1>3, <1>5, <2>1, <2>3 DEF c
  <2> QED
    BY <2>2, <2>3
<1>6. CASE pc[t] = "insert" /\ j = IF op[t].idx < len THEN op[t].idx + 1 ELSE len
  <2>1. op[t].idx \in Nat /\ op[t].idx # NoIndex
    BY <1>0, <1>6 DEF Args, NoIndex
  <2>2. CASE op[t].idx < len
    BY <1>2, <1>3, <1>6, <2>1, <2>2 DEF c
  <2>3. CASE ~(op[t].idx < len)
    <3>1. op[t].seen \in Nat /\ Cardinality(freed) \in Nat
      BY <1>0, FreedCount DEF TypeOK
    <3>2. Raced(t)
      BY <1>0, <1>6, <2>3, <3>1 DEF Fits, Raced
    <3> QED
      BY <1>2, <1>3, <1>6, <2>1, <2>3, <3>2 DEF c
  <2> QED
    BY <2>2, <2>3
<1> QED
  BY <1>4, <1>5, <1>6

\* A call that adds does what the abstract list allows it.
LEMMA AddImplements ==
    ASSUME Inv, FitInv, [Next]_vars, NEW t \in Threads, DoAppend(t) \/ DoPrepend(t) \/ DoInsert(t)
    PROVE  SS!Add(t)
<1>0. TypeOK /\ TypeOK' /\ len \in Nat
  BY InvNext DEF Inv, TypeOK
<1>1. PICK s, j : /\ Grows(t, s, j)
                  /\ \/ pc[t] = "append" /\ j = len + 1
                     \/ pc[t] = "prepend" /\ j = 1
                     \/ pc[t] = "insert" /\ j = IF op[t].idx < len THEN op[t].idx + 1 ELSE len
  <2>1. CASE DoAppend(t)
    BY <2>1, AppendGrows DEF DoAppend, Return, Leave
  <2>2. CASE DoPrepend(t)
    BY <2>2, PrependGrows DEF DoPrepend, Return, Leave
  <2>3. CASE DoInsert(t)
    BY <2>3, InsertGrows DEF DoInsert, Return, Leave
  <2> QED
    BY <2>1, <2>2, <2>3
<1>2. j \in 1..(len + 1) /\ len' = len + 1
  BY <1>1 DEF Grows
<1>3. Contents' = SS!InsertAt(Contents, j, op[t].val) /\ Len(Contents) = len
  BY <1>1, <1>2, GrowInserts
<1>4. j \in SS!Places(CallOf[t])
  BY <1>1, <1>3, PlaceAllowed
<1>5. CallOf[t] # NoCall /\ CallOf[t].val = op[t].val
  BY <1>0, <1>1, CallIs
<1>6. CallOf' = [u \in Threads |-> IF u = t \/ CallOf[u] = NoCall THEN NoCall
                                   ELSE [CallOf[u] EXCEPT !.raced = TRUE]]
  <2>1. Returned(t)
    BY DEF DoAppend, DoPrepend, DoInsert, Return, Leave, Returned
  <2>2. LengthMove /\ ~UNCHANGED <<len, nodes, freed>>
    BY <1>0, <1>2, LengthMoves
  <2> QED
    BY <1>0, <2>1, <2>2, EffectIs
<1>7. j \in SS!Places(CallOf[t]) \cap 1..(Len(Contents) + 1)
  BY <1>2, <1>3, <1>4
<1> HIDE DEF SS!InsertAt
<1> QED
  BY <1>3, <1>5, <1>6, <1>7 DEF SS!Add, SS!Effect, CallOf

\* And list_truncate takes the last element, or finds none.
LEMMA TruncateImplements ==
    ASSUME Inv, FitInv, [Next]_vars, NEW t \in Threads, DoTruncate(t)
    PROVE  SS!Truncate(t)
<1>0. TypeOK /\ TypeOK' /\ len \in Nat
  BY InvNext DEF Inv, TypeOK
<1>1. PICK s : Shrinks(s)
  BY TruncateShrinks
<1>2. Contents # <<>> /\ Contents' = SS!Front(Contents)
  BY <1>1, ShrinkTruncates
<1>3. CallOf[t].kind = "truncate"
  <2>1. pc[t] = "truncate"
    BY DEF DoTruncate, Return, Leave
  <2>2. op[t].idx = NoIndex
    BY <2>1 DEF FitInv, Fits
  <2> QED
    BY <1>0, <2>1, <2>2, CallIs DEF Kind
<1>4. CallOf' = [u \in Threads |-> IF u = t \/ CallOf[u] = NoCall THEN NoCall
                                   ELSE [CallOf[u] EXCEPT !.raced = TRUE]]
  <2>1. Returned(t)
    BY DEF DoTruncate, Return, Leave, Returned
  <2>2. LengthMove /\ ~UNCHANGED <<len, nodes, freed>>
    <3>1. len' # len
      BY <1>0, <1>1 DEF Shrinks
    <3> QED
      BY <3>1, LengthMoves
  <2> QED
    BY <1>0, <2>1, <2>2, EffectIs
<1> QED
  BY <1>2, <1>3, <1>4 DEF SS!Truncate, SS!Effect, CallOf

LEMMA EmptyImplements ==
    ASSUME Inv, FitInv, NEW t \in Threads, TruncateEmpty(t)
    PROVE  SS!ReturnFalse(t)
<1>0. TypeOK /\ pc \in [Threads -> Labels] /\ op \in [Threads -> Arg]
  BY DEF Inv, TypeOK, Labels, Arg
<1>1. /\ pc[t] = "truncate" /\ len < 1 /\ UNCHANGED links
      /\ pc' = [pc EXCEPT ![t] = "idle"] /\ op' = [op EXCEPT ![t] = NoOp]
  BY DEF TruncateEmpty, TooShort, Leave
<1>2. Contents = <<>> /\ Contents' = Contents
  <2>1. len = 0
    BY <1>0, <1>1 DEF TypeOK
  <2>2. Contents = [i \in 1..0 |-> val[Ahead(i - 1)]]
    BY <2>1 DEF Contents
  <2>3. Contents' = Contents
    BY <1>1 DEF links, Contents, Ahead
  <2> QED
    BY <2>2, <2>3
<1>3. CallOf[t].kind = "truncate"
  <2>1. op[t].idx = NoIndex
    BY <1>1 DEF FitInv, Fits
  <2> QED
    BY <1>0, <1>1, <2>1, CallIs DEF Kind
<1>4. CallOf' = [CallOf EXCEPT ![t] = NoCall]
  <2> SUFFICES ASSUME NEW u \in Threads
               PROVE  CallOf'[u] = IF u = t THEN NoCall ELSE CallOf[u]
    BY DEF CallOf
  <2>1. pc'[u] = (IF u = t THEN "idle" ELSE pc[u]) /\ (u # t => op'[u] = op[u])
    BY <1>0, <1>1
  <2>2. nodes' = nodes /\ freed' = freed
    BY <1>1 DEF links
  <2> QED
    BY <2>1, <2>2 DEF CallOf, Asked
<1> QED
  BY <1>2, <1>3, <1>4 DEF SS!ReturnFalse, CallOf

\* The other steps are not seen by the abstract list.
LEMMA QuietStutters ==
    ASSUME Inv, UNCHANGED links,
           \A u \in Threads : \/ pc'[u] = pc[u] /\ op'[u] = op[u]
                              \/ pc[u] \in {"idle", "get"} /\ pc'[u] \in {"idle", "get"}
                              \/ Choose(u)
    PROVE  UNCHANGED <<Contents, CallOf>>
<1>0. TypeOK /\ Args /\ pc \in [Threads -> Labels]
  BY DEF Inv, TypeOK, Labels
<1>1. Contents' = Contents
  BY DEF links, Contents, Ahead
<1>2. ASSUME NEW u \in Threads PROVE CallOf'[u] = CallOf[u]
  <2>1. nodes' = nodes /\ freed' = freed
    BY DEF links
  <2>2. CASE pc'[u] = pc[u] /\ op'[u] = op[u]
    BY <2>1, <2>2 DEF CallOf, Asked
  <2>3. CASE pc[u] \in {"idle", "get"} /\ pc'[u] \in {"idle", "get"}
    BY <2>3 DEF CallOf
  <2>4. CASE Choose(u)
    <3>1. /\ pc[u] = "choose" /\ pc'[u] = Section(op[u].idx) /\ op'[u] = op[u]
          /\ op[u].idx # NoIndex
      BY <1>0, <2>4 DEF Choose, Args, NoIndex
    <3>2. pc'[u] \notin {"idle", "get"}
      BY <3>1 DEF Section
    <3> QED
      BY <2>1, <3>1, <3>2 DEF CallOf, Asked
  <2> QED
    BY <2>2, <2>3, <2>4
<1> QED
  BY <1>1, <1>2 DEF CallOf

\* Each call changes the sequence once and as list.h:33-43 says: append adds its
\* value at the end, prepend at the start, insert at its index unless another
\* call has overtaken it, and truncate takes the last element (list.c:35-141).
THEOREM ImplementsSequence == Spec => IsSequence
<1>1. Init => SS!Init
  <2> SUFFICES ASSUME Init PROVE Contents \in Starts
    BY DEF Init, SS!Init
  <2>1. PICK s \in Starts :
            /\ len = Len(s)
            /\ head = (IF Len(s) = 0 THEN Null ELSE 1)
            /\ next = [i \in NodeIds |-> IF i < Len(s) THEN i + 1 ELSE Null]
            /\ val = [i \in NodeIds |-> IF i <= Len(s) THEN s[i] ELSE NoVal]
    BY DEF Init
  <2>2. /\ s \in Seq(Vals) /\ Len(s) \in Nat /\ MaxNodes \in Nat /\ MaxAdded \in Nat
        /\ Len(s) + MaxAdded <= MaxNodes
    BY ListAssumption
  <2>3. PICK u : Chain(u)
    BY InvInit DEF Inv, Chained
  <2>4. Contents = [i \in 1..len |-> val[u[i]]]
    BY <2>3, InvInit, ContentsFact DEF Inv
  <2> DEFINE Counted == {i \in Nat : i < len => u[i + 1] = i + 1}
  <2>5. 0 \in Counted
    BY <2>1, <2>2, <2>3 DEF Chain, IsChain
  <2>6. ASSUME NEW i \in Nat, i \in Counted PROVE i + 1 \in Counted
    <3> SUFFICES ASSUME i + 1 < len PROVE u[i + 2] = i + 2
      OBVIOUS
    <3>1. u[i + 1] = i + 1 /\ i + 1 \in 1..len /\ i + 1 # len /\ (i + 1) + 1 = i + 2
      BY <2>1, <2>2, <2>6
    <3>2. next[i + 1] = u[i + 2]
      BY <2>3, <3>1 DEF Chain, IsChain
    <3>3. i + 1 \in NodeIds /\ i + 1 < Len(s)
      BY <2>1, <2>2, <3>1 DEF NodeIds
    <3> QED
      BY <2>1, <3>2, <3>3
  <2>7. Nat \subseteq Counted
    <3> HIDE DEF Counted
    <3> QED
      BY <2>5, <2>6, SetInduction
  <2>8. \A i \in 1..len : val[u[i]] = s[i]
    <3> SUFFICES ASSUME NEW i \in 1..len PROVE val[u[i]] = s[i]
      OBVIOUS
    <3>1. i - 1 \in Nat /\ i - 1 < len /\ (i - 1) + 1 = i
      BY <2>1, <2>2
    <3>2. u[i] = i
      BY <2>7, <3>1
    <3>3. i \in NodeIds /\ i <= Len(s)
      BY <2>1, <2>2 DEF NodeIds
    <3> QED
      BY <2>1, <3>2, <3>3
  <2>9. s = [i \in 1..len |-> s[i]]
    BY <2>1, <2>2, LenProperties
  <2>10. Contents = [i \in 1..len |-> s[i]]
    BY <2>4, <2>8
  <2> QED
    BY <2>9, <2>10
<1>2. Inv /\ FitInv /\ [Next]_vars => [SS!Next]_<<Contents, CallOf>>
  <2> SUFFICES ASSUME Inv, FitInv, [Next]_vars
               PROVE  SS!Next \/ UNCHANGED <<Contents, CallOf>>
    OBVIOUS
  <2>0. pc \in [Threads -> Labels] /\ op \in [Threads -> Arg]
    BY DEF Inv, TypeOK, Labels, Arg
  <2>1. ASSUME NEW t \in Threads, NEW v \in Vals,
               \/ CallAppend(t, v) \/ CallPrepend(t, v)
               \/ \E i \in -1..(len + 1) : CallInsert(t, i, v) /\ ~Refuse(t)
        PROVE  SS!Next
    <3>1. SS!Begin(t)
      BY <2>1, EnterBegins DEF CallAppend, CallPrepend, CallInsert, Within
    <3> QED
      BY <3>1 DEF SS!Next
  <2>2. ASSUME NEW t \in Threads, CallTruncate(t) PROVE SS!Next
    <3>1. SS!Begin(t)
      BY <2>2, EnterBegins DEF CallTruncate
    <3> QED
      BY <3>1 DEF SS!Next
  <2>3. ASSUME NEW t \in Threads,
               \/ DoAppend(t) \/ DoPrepend(t) \/ DoInsert(t) \/ DoTruncate(t) \/ TruncateEmpty(t)
        PROVE  SS!Next
    <3>1. SS!Add(t) \/ SS!Truncate(t) \/ SS!ReturnFalse(t)
      BY <2>3, AddImplements, TruncateImplements, EmptyImplements
    <3> QED
      BY <3>1 DEF SS!Next
  <2>4. ASSUME UNCHANGED links, UNCHANGED <<pc, op>> PROVE UNCHANGED <<Contents, CallOf>>
    BY <2>4, QuietStutters
  <2>5. ASSUME NEW t \in Threads, NEW i \in -1..len, CallGet(t, i)
        PROVE  UNCHANGED <<Contents, CallOf>>
    <3>1. CASE Refuse(t)
      BY <2>4, <3>1 DEF Refuse
    <3>2. CASE Enter(t, "get", i, NoVal)
      <4>1. \A u \in Threads : \/ pc'[u] = pc[u] /\ op'[u] = op[u]
                               \/ pc[u] \in {"idle", "get"} /\ pc'[u] \in {"idle", "get"}
        BY <2>0, <3>2 DEF Enter
      <4> QED
        BY <3>2, <4>1, QuietStutters DEF Enter
    <3> QED
      BY <2>5, <3>1, <3>2 DEF CallGet
  <2>6. ASSUME NEW t \in Threads, DoGet(t) PROVE UNCHANGED <<Contents, CallOf>>
    <3>1. \A u \in Threads : \/ pc'[u] = pc[u] /\ op'[u] = op[u]
                             \/ pc[u] \in {"idle", "get"} /\ pc'[u] \in {"idle", "get"}
      BY <2>0, <2>6 DEF DoGet, Return, Leave
    <3> QED
      BY <2>6, <3>1, QuietStutters DEF DoGet
  <2>7. ASSUME NEW t \in Threads, Choose(t) PROVE UNCHANGED <<Contents, CallOf>>
    <3>1. \A u \in Threads : (pc'[u] = pc[u] /\ op'[u] = op[u]) \/ Choose(u)
      BY <2>0, <2>7 DEF Choose
    <3> QED
      BY <2>7, <3>1, QuietStutters DEF Choose
  <2>8. ASSUME NEW t \in Threads, Refuse(t) \/ Crash(t) PROVE UNCHANGED <<Contents, CallOf>>
    BY <2>4, <2>8 DEF Refuse, Crash
  <2>9. CASE UNCHANGED vars
    BY <2>4, <2>9 DEF vars
  <2>10. ASSUME NEW t \in Threads, Call(t) PROVE SS!Next \/ UNCHANGED <<Contents, CallOf>>
    BY <2>1, <2>2, <2>5, <2>8, <2>10 DEF Call
  <2>11. ASSUME NEW t \in Threads, Proceed(t) PROVE SS!Next \/ UNCHANGED <<Contents, CallOf>>
    BY <2>3, <2>6, <2>7, <2>8, <2>11 DEF Proceed
  <2> QED
    BY <2>9, <2>10, <2>11 DEF Next
<1> QED
  BY <1>1, <1>2, FitInit, FitNext, Invariance, PTL DEF Spec, IsSequence, SS!Spec, CallOf
==============================================================================
