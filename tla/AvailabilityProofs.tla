-------------------------- MODULE AvailabilityProofs --------------------------
(*****************************************************************************)
(* Proofs about Availability, for any number of peers and writers, any       *)
(* bitfields and any number of messages.                                     *)
(*****************************************************************************)
EXTENDS Availability, FiniteSetTheorems, TLAPS

Msg == [size : Nat, bits : SUBSET Nat]

-----------------------------------------------------------------------------
(* Numbers and blocks.                                                       *)

LEMMA AllPiecesNat == AllPieces \subseteq Nat
BY DEF AllPieces, Pieces

LEMMA ByteOfNat == ASSUME NEW i \in Nat PROVE ByteOf(i) \in Nat
BY AvailabilityAssumption DEF ByteOf

LEMMA BlockFields ==
    ASSUME NEW b \in Block
    PROVE  b.live \in BOOLEAN /\ b.size \in Nat /\ b.filled \in BOOLEAN /\ b.bits \in SUBSET Nat
BY DEF Block

LEMMA FreedBlock ==
    ASSUME NEW b \in Block
    PROVE  LET c == [b EXCEPT !.live = FALSE]
           IN  c \in Block /\ c.bits = b.bits
BY DEF Block

LEMMA FilledBlock ==
    ASSUME NEW b \in Block, NEW x \in SUBSET Nat
    PROVE  LET c == [b EXCEPT !.filled = TRUE, !.bits = x]
           IN  c \in Block /\ c.live = b.live /\ c.size = b.size /\ c.filled /\ c.bits = x
BY DEF Block

LEMMA MarkedBlock ==
    ASSUME NEW b \in Block, NEW x \in SUBSET Nat
    PROVE  LET c == [b EXCEPT !.bits = x]
           IN  c \in Block /\ c.live = b.live /\ c.size = b.size /\ c.filled = b.filled /\ c.bits = x
BY DEF Block

\* Block k of peer p becomes c, and nothing else changes.
Put(p, k, c) ==
    /\ p \in Peers /\ k \in 1..Current(p) /\ c \in Block
    /\ blocks' \in [Peers -> Seq(Block)]
    /\ \A q \in Peers \ {p} : blocks'[q] = blocks[q]
    /\ Len(blocks'[p]) = Len(blocks[p])
    /\ blocks'[p][k] = c
    /\ \A j \in 1..Current(p) : j # k => blocks'[p][j] = blocks[p][j]

LEMMA PutBlock ==
    ASSUME TypeOK, NEW p \in Peers, NEW k \in 1..Current(p), NEW c \in Block,
           blocks' = [blocks EXCEPT ![p] = [blocks[p] EXCEPT ![k] = c]]
    PROVE  Put(p, k, c)
<1>1. blocks[p] \in Seq(Block) /\ blocks \in [Peers -> Seq(Block)]
  BY DEF TypeOK
<1> DEFINE s == [blocks[p] EXCEPT ![k] = c]
<1>2. s \in Seq(Block) /\ Len(s) = Len(blocks[p]) /\ s[k] = c
      /\ \A j \in 1..Len(blocks[p]) : j # k => s[j] = blocks[p][j]
  BY <1>1 DEF Current
<1>3. blocks' = [blocks EXCEPT ![p] = s]
  OBVIOUS
<1> HIDE DEF s
<1> QED
  BY <1>1, <1>2, <1>3 DEF Put, Current

\* A block of a peer is a block.
LEMMA IsBlock ==
    ASSUME TypeOK, NEW p \in Peers, NEW k \in 1..Current(p)
    PROVE  blocks[p][k] \in Block
BY DEF TypeOK, Current

LEMMA CurrentNat == ASSUME TypeOK, NEW p \in Peers PROVE Current(p) \in Nat
BY DEF TypeOK, Current

-----------------------------------------------------------------------------
(* Types.  A block is used only where there is one: a writer past its malloc *)
(* has one, and so has a peer with a length, and no block goes away.         *)

AtPeer == rpc \notin {"out", "count"}

WritersAllocated ==
    /\ \A p \in Peers : length[p] > 0 => Current(p) > 0
    /\ \A w \in Writers : wpc[w] \notin {"recv", "malloc"} => Current(target[w]) > 0
    /\ \A w \in Writers : wpc[w] \in {"copy", "load", "store"} => ptr[w] \in 1..Current(target[w])

ReaderAllocated ==
    /\ AtPeer => pos \in Peers
    /\ rpc = "count" => pos = NPeers + 1
    /\ rpc \in {"calloc", "masterlen", "same", "array", "or"} => Current(pos) > 0
    /\ rpc = "or" => rptr \in 1..Current(pos)

\* There is a master from calloc to the end of the pass.
MasterAllocated ==
    /\ master.peer = 0 => master = NoMaster /\ masterLen = 0
    /\ rpc \in {"masterlen", "same", "array", "or"} => master.peer # 0
    /\ rpc = "out" => master = NoMaster

Typed == TypeOK /\ WritersAllocated /\ ReaderAllocated /\ MasterAllocated

LEMMA TypedInit == Init => Typed
BY AvailabilityAssumption
   DEF Init, Typed, WritersAllocated, ReaderAllocated, MasterAllocated, AtPeer, TypeOK, NoMsg,
       NoMaster, WriterPC, ReaderPC, Block, Current

(* What the steps of a writer do to its peer's blocks and to its own fields. *)

FreedBy(w, b) ==
    LET p == target[w] IN
    /\ p \in Peers /\ b \in Msg
    /\ \/ Current(p) = 0 /\ blocks' = blocks /\ unsafe' = unsafe
       \/ \E c \in Block : /\ Put(p, Current(p), c) /\ c.bits = blocks[p][Current(p)].bits
                           /\ Current(p) > 0 /\ unsafe' \in {unsafe, unsafe \cup {p}}

LEMMA FreeOldFacts ==
    ASSUME Typed, NEW w \in Writers, NEW b \in Bitfields, FreeOld(w, b)
    PROVE  FreedBy(w, b)
<1> USE DEF FreedBy
<1> DEFINE p == target[w]
           c == [blocks[p][Current(p)] EXCEPT !.live = FALSE]
<1>1. p \in Peers /\ b \in Msg /\ TypeOK /\ Current(p) \in Nat
  BY AvailabilityAssumption, CurrentNat DEF Typed, TypeOK, Msg
<1>2. CASE blocks[p] = <<>>
  BY <1>1, <1>2 DEF FreeOld, Current
<1>3. CASE blocks[p] # <<>>
  <2>1. Current(p) > 0 /\ Current(p) \in 1..Current(p)
    BY <1>1, <1>3 DEF Current, TypeOK
  <2>2. blocks[p][Current(p)] \in Block
    BY <1>1, <2>1, IsBlock
  <2>3. blocks' = [blocks EXCEPT ![p] = [blocks[p] EXCEPT ![Current(p)] = c]]
    BY <1>3 DEF FreeOld
  <2>4. c \in Block /\ c.bits = blocks[p][Current(p)].bits
    BY <2>2, FreedBlock
  <2> HIDE DEF c
  <2>5. Put(p, Current(p), c)
    BY <1>1, <2>1, <2>3, <2>4, PutBlock
  <2>6. unsafe' \in {unsafe, unsafe \cup {p}}
    BY <1>3 DEF FreeOld
  <2> QED
    BY <1>1, <2>1, <2>4, <2>5, <2>6
<1> QED
  BY <1>2, <1>3

AllocatedBy(w) ==
    LET p == target[w]
        n == Current(p) + 1 IN
    /\ p \in Peers /\ Current(p) \in Nat
    /\ blocks' \in [Peers -> Seq(Block)]
    /\ \A q \in Peers \ {p} : blocks'[q] = blocks[q]
    /\ Len(blocks'[p]) = n
    /\ blocks'[p][n] = [live |-> TRUE, size |-> msg[w].size, filled |-> FALSE, bits |-> {}]
    /\ \A j \in 1..Current(p) : blocks'[p][j] = blocks[p][j]

LEMMA MallocFacts ==
    ASSUME Typed, NEW w \in Writers, Malloc(w)
    PROVE  AllocatedBy(w)
<1> USE DEF AllocatedBy
<1> DEFINE p == target[w]
           c == [live |-> TRUE, size |-> msg[w].size, filled |-> FALSE, bits |-> {}]
<1>1. p \in Peers /\ msg[w].size \in Nat /\ blocks \in [Peers -> Seq(Block)] /\ blocks[p] \in Seq(Block)
  BY DEF Typed, TypeOK
<1>2. c \in Block
  BY <1>1 DEF Block
<1>3. blocks' = [blocks EXCEPT ![p] = Append(blocks[p], c)]
  BY DEF Malloc
<1> HIDE DEF c
<1> DEFINE s == Append(blocks[p], c)
<1>4. s \in Seq(Block) /\ Len(s) = Len(blocks[p]) + 1 /\ s[Len(blocks[p]) + 1] = c
      /\ \A j \in 1..Len(blocks[p]) : s[j] = blocks[p][j]
  BY <1>1, <1>2
<1>5. blocks' = [blocks EXCEPT ![p] = s]
  BY <1>3
<1> HIDE DEF s
<1>6. Len(blocks[p]) \in Nat
  BY <1>1
<1>7. AllocatedBy(w) <=>
        /\ p \in Peers /\ Current(p) \in Nat
        /\ blocks' \in [Peers -> Seq(Block)]
        /\ \A q \in Peers \ {p} : blocks'[q] = blocks[q]
        /\ Len(blocks'[p]) = Current(p) + 1
        /\ blocks'[p][Current(p) + 1] = c
        /\ \A j \in 1..Current(p) : blocks'[p][j] = blocks[p][j]
  BY DEF c
<1> QED
  BY <1>1, <1>4, <1>5, <1>6, <1>7 DEF Current

CopiedBy(w) ==
    LET p == target[w]
        k == ptr[w] IN
    /\ p \in Peers /\ k \in 1..Current(p) /\ blocks[p][k] \in Block
    /\ IF Valid(blocks[p][k], msg[w].size)
       THEN \E c \in Block : /\ Put(p, k, c) /\ c.live /\ c.filled
                             /\ c.size = blocks[p][k].size /\ c.bits = msg[w].bits
                             /\ unsafe' = unsafe
       ELSE blocks' = blocks /\ unsafe' = unsafe \cup {p}

LEMMA MemcpyFacts ==
    ASSUME Typed, NEW w \in Writers, Memcpy(w)
    PROVE  CopiedBy(w)
<1> USE DEF CopiedBy
<1> DEFINE p == target[w]
           k == ptr[w]
           c == [blocks[p][k] EXCEPT !.filled = TRUE, !.bits = msg[w].bits]
<1>1. p \in Peers /\ msg[w].bits \in SUBSET Nat /\ TypeOK /\ k \in 1..Current(p)
  BY DEF Typed, TypeOK, WritersAllocated, Memcpy
<1>2. blocks[p][k] \in Block
  BY <1>1, IsBlock
<1>3. CASE Valid(blocks[p][k], msg[w].size)
  <2>1. blocks' = [blocks EXCEPT ![p] = [blocks[p] EXCEPT ![k] = c]] /\ unsafe' = unsafe
    BY <1>3 DEF Memcpy
  <2>2. c \in Block /\ c.live = blocks[p][k].live /\ c.size = blocks[p][k].size /\ c.filled
        /\ c.bits = msg[w].bits
    BY <1>1, <1>2, FilledBlock
  <2> HIDE DEF c
  <2>3. Put(p, k, c)
    BY <1>1, <2>1, <2>2, PutBlock
  <2> QED
    BY <1>1, <1>2, <1>3, <2>1, <2>2, <2>3 DEF Valid
<1>4. CASE ~Valid(blocks[p][k], msg[w].size)
  BY <1>1, <1>2, <1>4 DEF Memcpy
<1> QED
  BY <1>3, <1>4

MarkedBy(w, k) ==
    LET p == target[w]
        n == ByteOf(have[w]) IN
    /\ p \in Peers /\ k \in 1..Current(p) /\ blocks[p][k] \in Block
    /\ have[w] \in Nat /\ n \in Nat
    /\ IF Valid(blocks[p][k], n + 1)
       THEN \E c \in Block :
                /\ Put(p, k, c) /\ c.live /\ c.filled = blocks[p][k].filled
                /\ c.size = blocks[p][k].size
                /\ c.bits = (blocks[p][k].bits \ Byte(n)) \cup msg[w].bits \cup {have[w]}
                /\ unsafe' = unsafe
       ELSE blocks' = blocks /\ unsafe' = unsafe \cup {p}

LEMMA HaveStoreFacts ==
    ASSUME Typed, NEW w \in Writers, HaveStore(w)
    PROVE  \E k \in {ptr[w], Current(target[w])} : MarkedBy(w, k)
<1> DEFINE p == target[w]
           n == ByteOf(have[w])
<1>1. /\ p \in Peers /\ msg[w].bits \in SUBSET Nat /\ have[w] \in Nat /\ TypeOK
      /\ ptr[w] \in 1..Current(p) /\ n \in Nat /\ Current(p) \in Nat /\ Current(p) > 0
  BY ByteOfNat, CurrentNat DEF Typed, TypeOK, WritersAllocated, HaveStore
<1>2. PICK k \in {ptr[w], Current(p)} :
           IF Valid(blocks[p][k], n + 1)
           THEN /\ blocks' = [blocks EXCEPT ![p][k].bits =
                                  (@ \ Byte(n)) \cup msg[w].bits \cup Mask(have[w])]
                /\ UNCHANGED unsafe
           ELSE unsafe' = unsafe \cup {p} /\ UNCHANGED blocks
  BY DEF HaveStore
<1>3. k \in 1..Current(p)
  BY <1>1
<1>4. blocks[p][k] \in Block
  BY <1>1, <1>3, IsBlock
<1> DEFINE x == (blocks[p][k].bits \ Byte(n)) \cup msg[w].bits \cup {have[w]}
           c == [blocks[p][k] EXCEPT !.bits = x]
<1>5. x \in SUBSET Nat
  BY <1>1, <1>4 DEF Block
<1>6. CASE Valid(blocks[p][k], n + 1)
  <2>1. blocks' = [blocks EXCEPT ![p] = [blocks[p] EXCEPT ![k] = c]] /\ unsafe' = unsafe
    BY <1>2, <1>6 DEF Mask
  <2> HIDE DEF x
  <2>2. c \in Block /\ c.live = blocks[p][k].live /\ c.size = blocks[p][k].size
        /\ c.filled = blocks[p][k].filled /\ c.bits = x
    BY <1>4, <1>5, MarkedBlock
  <2> HIDE DEF c
  <2>3. Put(p, k, c)
    BY <1>1, <1>3, <2>1, <2>2, PutBlock
  <2> USE DEF x
  <2> QED
    BY <1>1, <1>3, <1>4, <1>6, <2>1, <2>2, <2>3 DEF MarkedBy, Valid
<1>7. CASE ~Valid(blocks[p][k], n + 1)
  BY <1>1, <1>2, <1>3, <1>4, <1>7 DEF MarkedBy
<1> QED
  BY <1>6, <1>7

(* A step of a writer leaves the other peers and the other writers alone,    *)
(* and takes no block away.                                                  *)

Frame(w) ==
    /\ target' = target /\ rvars' = rvars
    /\ blocks' \in [Peers -> Seq(Block)]
    /\ \A q \in Peers : Current(q) \in Nat /\ Len(blocks'[q]) \in Nat /\ Current(q) <= Len(blocks'[q])
    /\ \A q \in Peers \ {target[w]} :
           /\ blocks'[q] = blocks[q] /\ length'[q] = length[q] /\ first'[q] = first[q]
           /\ updates'[q] = updates[q] /\ announced'[q] = announced[q]
    /\ \A v \in Writers \ {w} :
           wpc'[v] = wpc[v] /\ msg'[v] = msg[v] /\ have'[v] = have[v] /\ ptr'[v] = ptr[v]
    /\ unsafe \subseteq unsafe' /\ unsafe' \subseteq unsafe \cup {target[w]}
    /\ updates'[target[w]] >= updates[target[w]]

BlockFrame(w) ==
    /\ blocks' \in [Peers -> Seq(Block)]
    /\ \A q \in Peers : Current(q) \in Nat /\ Len(blocks'[q]) \in Nat /\ Current(q) <= Len(blocks'[q])
    /\ \A q \in Peers \ {target[w]} : blocks'[q] = blocks[q]
    /\ unsafe \subseteq unsafe' /\ unsafe' \subseteq unsafe \cup {target[w]}

LEMMA PutFrame ==
    ASSUME TypeOK, NEW w \in Writers, NEW k, NEW c, Put(target[w], k, c),
           unsafe' \in {unsafe, unsafe \cup {target[w]}}
    PROVE  BlockFrame(w)
<1>1. \A q \in Peers : Current(q) \in Nat /\ Len(blocks'[q]) = Current(q)
  BY CurrentNat DEF Put, Current
<1> QED
  BY <1>1 DEF Put, BlockFrame

LEMMA WriterBlocks ==
    ASSUME Typed, NEW w \in Writers, WriterStep(w)
    PROVE  BlockFrame(w)
<1>0. TypeOK /\ target[w] \in Peers /\ \A q \in Peers : Current(q) \in Nat
  BY CurrentNat DEF Typed, TypeOK
<1>1. ASSUME blocks' = blocks, unsafe' \in {unsafe, unsafe \cup {target[w]}} PROVE BlockFrame(w)
  BY <1>0, <1>1 DEF BlockFrame, Current, TypeOK
<1>2. ASSUME NEW b \in Bitfields, FreeOld(w, b) PROVE BlockFrame(w)
  BY <1>0, <1>1, <1>2, FreeOldFacts, PutFrame DEF FreedBy
<1>3. CASE Malloc(w)
  <2>1. AllocatedBy(w) /\ unsafe' = unsafe
    BY <1>3, MallocFacts DEF Malloc
  <2>2. \A q \in Peers : Len(blocks'[q]) \in {Current(q), Current(q) + 1}
    BY <1>0, <2>1 DEF AllocatedBy, Current
  <2> QED
    BY <1>0, <2>1, <2>2 DEF AllocatedBy, BlockFrame
<1>4. CASE Memcpy(w)
  BY <1>0, <1>1, <1>4, MemcpyFacts, PutFrame DEF CopiedBy
<1>5. CASE SetLength(w) \/ LoadPointer(w, "dest", "copy") \/ LoadPointer(w, "array", "load")
  BY <1>1, <1>5 DEF SetLength, LoadPointer
<1>6. ASSUME NEW idx \in AllPieces, HaveDrop(w, idx) \/ HaveTest(w, idx) PROVE BlockFrame(w)
  BY <1>1, <1>6 DEF HaveDrop, HaveTest
<1>7. CASE HaveLoad(w)
  BY <1>1, <1>7 DEF HaveLoad
<1>8. CASE HaveStore(w)
  BY <1>0, <1>1, <1>8, HaveStoreFacts, PutFrame DEF MarkedBy
<1> QED
  BY <1>2, <1>3, <1>4, <1>5, <1>6, <1>7, <1>8 DEF WriterStep

LEMMA WriterFrame ==
    ASSUME Typed, NEW w \in Writers, WriterStep(w), UNCHANGED target
    PROVE  Frame(w)
<1>0. TypeOK /\ target[w] \in Peers /\ BlockFrame(w) /\ updates[target[w]] \in Nat
  BY WriterBlocks DEF Typed, TypeOK
<1> USE <1>0 DEF Frame, BlockFrame, rvars, hist, wvars
<1>1. ASSUME NEW b \in Bitfields, FreeOld(w, b) PROVE Frame(w)
  <2>1. /\ updates'[target[w]] = updates[target[w]] + 1
        /\ \A q \in Peers \ {target[w]} : updates'[q] = updates[q] /\ first'[q] = first[q]
                                          /\ announced'[q] = announced[q] /\ length'[q] = length[q]
    BY <1>1 DEF FreeOld, TypeOK
  <2>2. \A v \in Writers \ {w} :
           wpc'[v] = wpc[v] /\ msg'[v] = msg[v] /\ have'[v] = have[v] /\ ptr'[v] = ptr[v]
    BY <1>1 DEF FreeOld, TypeOK
  <2>3. rvars' = rvars
    BY <1>1 DEF FreeOld
  <2> QED
    BY <2>1, <2>2, <2>3
<1>2. CASE Malloc(w)
  BY <1>2 DEF Malloc, TypeOK
<1>3. CASE Memcpy(w)
  BY <1>3 DEF Memcpy, TypeOK
<1>4. CASE SetLength(w)
  BY <1>4 DEF SetLength, TypeOK
<1>5. CASE LoadPointer(w, "dest", "copy") \/ LoadPointer(w, "array", "load")
  <2>1. ASSUME NEW x, NEW y, LoadPointer(w, x, y) PROVE Frame(w)
    BY <2>1 DEF LoadPointer, TypeOK
  <2> QED
    BY <1>5, <2>1
<1>6. ASSUME NEW idx \in AllPieces, HaveDrop(w, idx) PROVE Frame(w)
  BY <1>6 DEF HaveDrop
<1>7. ASSUME NEW idx \in AllPieces, HaveTest(w, idx) PROVE Frame(w)
  BY <1>7 DEF HaveTest, TypeOK
<1>8. CASE HaveLoad(w)
  BY <1>8 DEF HaveLoad, TypeOK
<1>9. CASE HaveStore(w)
  BY <1>9 DEF HaveStore, TypeOK
<1> QED
  BY <1>1, <1>2, <1>3, <1>4, <1>5, <1>6, <1>7, <1>8, <1>9 DEF WriterStep

\* The fields of the writers and the history, after a step of a writer.
WriterTypes ==
    /\ length \in [Peers -> Nat]
    /\ wpc \in [Writers -> WriterPC]
    /\ msg \in [Writers -> Msg]
    /\ have \in [Writers -> Nat]
    /\ ptr \in [Writers -> Nat]
    /\ left \in 0..MaxMessages
    /\ updates \in [Peers -> Nat]
    /\ first \in [Peers -> SUBSET Nat]
    /\ announced \in [Peers -> SUBSET Nat]

LEMMA WriterTyped ==
    ASSUME Typed, NEW w \in Writers, WriterStep(w), UNCHANGED target
    PROVE  WriterTypes'
<1> DEFINE p == target[w]
<1>0. TypeOK /\ p \in Peers /\ WriterTypes /\ Current(p) \in Nat
  BY CurrentNat DEF Typed, TypeOK, WriterTypes, Msg
<1>a. Take => left' \in 0..MaxMessages
  BY <1>0, AvailabilityAssumption DEF Take, WriterTypes
<1> USE <1>0 DEF WriterTypes, hist, wvars
<1>1. ASSUME NEW b \in Bitfields, FreeOld(w, b) PROVE WriterTypes'
  <2>1. b \in Msg /\ b.bits \subseteq Nat
    BY AvailabilityAssumption DEF Msg
  <2>2. wpc' \in [Writers -> WriterPC] /\ msg' \in [Writers -> Msg]
    BY <1>1, <2>1 DEF FreeOld, WriterPC
  <2>3. announced' \in [Peers -> SUBSET Nat] /\ updates' \in [Peers -> Nat]
    BY <1>1, <2>1 DEF FreeOld
  <2>4. first' \in [Peers -> SUBSET Nat]
    BY <1>1, <2>1 DEF FreeOld
  <2>5. length' = length /\ have' = have /\ ptr' = ptr /\ left' \in 0..MaxMessages
    BY <1>1, <1>a DEF FreeOld
  <2> QED
    BY <2>2, <2>3, <2>4, <2>5
<1>2. CASE Malloc(w)
  BY <1>2 DEF Malloc, WriterPC
<1>3. CASE Memcpy(w)
  BY <1>3 DEF Memcpy, WriterPC
<1>4. CASE SetLength(w)
  <2>1. NoMsg \in Msg /\ msg[w].size \in Nat
    BY DEF NoMsg, Msg
  <2> QED
    BY <1>4, <2>1 DEF SetLength, WriterPC
<1>5. CASE LoadPointer(w, "dest", "copy") \/ LoadPointer(w, "array", "load")
  BY <1>5 DEF LoadPointer, WriterPC
<1>6. ASSUME NEW idx \in AllPieces, HaveDrop(w, idx) PROVE WriterTypes'
  BY <1>6 DEF HaveDrop
<1>7. ASSUME NEW idx \in AllPieces, HaveTest(w, idx) PROVE WriterTypes'
  <2>1. idx \in Nat
    BY AllPiecesNat
  <2>2. announced' \in [Peers -> SUBSET Nat]
    BY <1>7, <2>1 DEF HaveTest
  <2> QED
    BY <1>7, <1>a, <2>1, <2>2 DEF HaveTest, WriterPC
<1>8. CASE HaveLoad(w)
  <2> DEFINE x == blocks[p][ptr[w]].bits \cap Byte(ByteOf(have[w]))
  <2>1. x \in SUBSET Nat
    BY DEF Byte
  <2>2. msg' = [msg EXCEPT ![w].bits = x]
    BY <1>8 DEF HaveLoad
  <2> HIDE DEF x
  <2>3. msg' \in [Writers -> Msg]
    BY <2>1, <2>2 DEF Msg
  <2> QED
    BY <1>8, <2>3 DEF HaveLoad, WriterPC
<1>9. CASE HaveStore(w)
  <2>1. NoMsg \in Msg
    BY DEF NoMsg, Msg
  <2> QED
    BY <1>9, <2>1 DEF HaveStore, WriterPC
<1> QED
  BY <1>1, <1>2, <1>3, <1>4, <1>5, <1>6, <1>7, <1>8, <1>9 DEF WriterStep

LEMMA WriterStays ==
    ASSUME Typed, NEW w \in Writers, WriterStep(w), UNCHANGED target
    PROVE  WritersAllocated'
<1> DEFINE p == target[w]
<1>0. TypeOK /\ p \in Peers /\ Frame(w) /\ WritersAllocated /\ Current(p) \in Nat
      /\ \A v \in Writers : target[v] \in Peers
  BY WriterFrame, CurrentNat DEF Typed, TypeOK
\* What the step owes for its own peer.
<1> DEFINE Own == /\ length'[p] > 0 => Len(blocks'[p]) > 0
                  /\ wpc'[w] \notin {"recv", "malloc"} => Len(blocks'[p]) > 0
                  /\ wpc'[w] \in {"copy", "load", "store"} => ptr'[w] \in 1..Len(blocks'[p])
<1>1. ASSUME Own PROVE WritersAllocated'
  <2>1. \A q \in Peers : length'[q] > 0 => Len(blocks'[q]) > 0
    BY <1>0, <1>1 DEF Frame, WritersAllocated
  <2>2. ASSUME NEW v \in Writers
        PROVE  /\ wpc'[v] \notin {"recv", "malloc"} => Len(blocks'[target[v]]) > 0
               /\ wpc'[v] \in {"copy", "load", "store"} => ptr'[v] \in 1..Len(blocks'[target[v]])
    <3>1. CASE v = w
      BY <1>1, <3>1
    <3>2. CASE v # w
      <4>1. /\ target[v] \in Peers
            /\ wpc'[v] = wpc[v] /\ ptr'[v] = ptr[v] /\ Current(target[v]) \in Nat
            /\ Len(blocks'[target[v]]) \in Nat /\ Current(target[v]) <= Len(blocks'[target[v]])
        BY <1>0, <3>2 DEF Frame
      <4> QED
        BY <1>0, <4>1 DEF WritersAllocated
    <3> QED
      BY <3>1, <3>2
  <2> QED
    BY <1>0, <2>1, <2>2 DEF WritersAllocated, Frame, Current
<1> HIDE DEF Own
<1>2. Len(blocks'[p]) \in Nat /\ Current(p) <= Len(blocks'[p]) /\ wpc \in [Writers -> WriterPC]
      /\ ptr \in [Writers -> Nat]
  BY <1>0 DEF Frame, TypeOK
<1>3. ASSUME NEW b \in Bitfields, FreeOld(w, b) PROVE Own
  BY <1>0, <1>2, <1>3 DEF FreeOld, Own, WritersAllocated
<1>4. ASSUME Malloc(w) PROVE Own
  <2>1. AllocatedBy(w)
    BY <1>4, MallocFacts
  <2> QED
    BY <1>0, <1>2, <1>4, <2>1 DEF Malloc, Own, AllocatedBy, Current
<1>5. ASSUME Memcpy(w) PROVE Own
  BY <1>0, <1>2, <1>5 DEF Memcpy, Own, WritersAllocated
<1>6. ASSUME SetLength(w) PROVE Own
  BY <1>0, <1>2, <1>6 DEF SetLength, Own, WritersAllocated
<1>7. ASSUME LoadPointer(w, "dest", "copy") PROVE Own
  BY <1>0, <1>2, <1>7 DEF LoadPointer, Own, WritersAllocated
<1>8. ASSUME LoadPointer(w, "array", "load") PROVE Own
  BY <1>0, <1>2, <1>8 DEF LoadPointer, Own, WritersAllocated
<1>9. ASSUME NEW idx \in AllPieces, HaveDrop(w, idx) PROVE Own
  BY <1>0, <1>2, <1>9 DEF HaveDrop, wvars, Own, WritersAllocated
<1>10. ASSUME NEW idx \in AllPieces, HaveTest(w, idx) PROVE Own
  <2>1. length[p] > 0
    BY <1>0, <1>10, AllPiecesNat, ByteOfNat DEF HaveTest, TypeOK
  <2> QED
    BY <1>0, <1>2, <1>10, <2>1 DEF HaveTest, Own, WritersAllocated
<1>11. ASSUME HaveLoad(w) PROVE Own
  BY <1>0, <1>2, <1>11 DEF HaveLoad, Own, WritersAllocated
<1>12. ASSUME HaveStore(w) PROVE Own
  BY <1>0, <1>2, <1>12 DEF HaveStore, Own, WritersAllocated
<1> QED
  BY <1>1, <1>3, <1>4, <1>5, <1>6, <1>7, <1>8, <1>9, <1>10, <1>11, <1>12 DEF WriterStep

(* The steps of the reader.                                                  *)

ReaderTypes ==
    /\ rpc \in ReaderPC
    /\ pos \in 0..(NPeers + 1) /\ byte \in Nat /\ rptr \in Nat
    /\ master \in [peer : 0..NPeers, size : Nat, bits : SUBSET Nat]
    /\ masterLen \in Nat
    /\ before \in [Peers -> SUBSET Nat]
    /\ unsafe \subseteq Peers

LEMMA NextPeerFacts ==
    ASSUME NextPeer, pos \in Peers
    PROVE  /\ pos' \in 1..(NPeers + 1) /\ byte' = 0 /\ rptr' = 0 /\ pos' = pos + 1
           /\ \/ rpc' = "count" /\ pos' = NPeers + 1
              \/ rpc' = "length" /\ pos' \in Peers
BY AvailabilityAssumption DEF NextPeer, Peers

LEMMA ReaderTyped ==
    ASSUME Typed, ReaderStep
    PROVE  ReaderTypes' /\ ReaderAllocated' /\ MasterAllocated'
<1>0. TypeOK /\ ReaderAllocated /\ MasterAllocated /\ \A q \in Peers : Current(q) \in Nat
  BY CurrentNat DEF Typed
<1>a. 0 \in Nat /\ 0 \in 0..NPeers /\ 0 \in 0..(NPeers + 1) /\ 1 \in Peers
      /\ Peers \subseteq 0..NPeers /\ Peers \subseteq 0..(NPeers + 1) /\ NPeers \in Nat
      /\ NoMaster \in [peer : 0..NPeers, size : Nat, bits : SUBSET Nat] /\ 0 \notin Peers
  BY AvailabilityAssumption DEF Peers, NoMaster
<1>b. AtPeer => pos \in Peers
  BY <1>0 DEF ReaderAllocated
<1>c. blocks' = blocks
  BY DEF ReaderStep, Reading, StartPass, TestLength, TestPointer, Calloc, SetMasterLen, Compare,
         OrPointer, OrByte, Count
<1>d. ASSUME AtPeer, NextPeer PROVE /\ rpc' \in ReaderPC /\ pos' \in 0..(NPeers + 1)
                                   /\ byte' \in Nat /\ rptr' \in Nat
                                   /\ ReaderAllocated' /\ rpc' \in {"length", "count"}
  BY <1>a, <1>b, <1>d, NextPeerFacts DEF ReaderPC, ReaderAllocated, AtPeer
<1>1. CASE StartPass
  <2>1. ASSUME NEW p \in Peers PROVE Stored(p) \in SUBSET Nat
    <3>1. first[p] \in SUBSET Nat
      BY <1>0 DEF TypeOK
    <3>2. length[p] # 0 => blocks[p][Current(p)].bits \in SUBSET Nat
      <4>1. /\ length[p] \in Nat /\ Current(p) \in Nat
            /\ length[p] > 0 => Current(p) > 0
        BY <1>0 DEF Typed, WritersAllocated, TypeOK
      <4>2. length[p] # 0 => Current(p) \in 1..Current(p)
        BY <4>1
      <4> QED
        BY <1>0, <4>2, IsBlock, BlockFields
    <3> QED
      BY <3>1, <3>2 DEF Stored
  <2>2. before' \in [Peers -> SUBSET Nat]
    BY <1>1, <2>1 DEF StartPass
  <2>3. rpc' = "length" /\ pos' = 1 /\ UNCHANGED <<byte, rptr, master, masterLen, unsafe>>
        /\ rpc = "out"
    BY <1>1 DEF StartPass, Reading
  <2> QED
    BY <1>0, <1>a, <1>c, <2>2, <2>3
       DEF ReaderTypes, ReaderAllocated, MasterAllocated, AtPeer, ReaderPC, TypeOK
<1>2. CASE TestLength
  <2>1. rpc = "length" /\ AtPeer /\ UNCHANGED <<master, masterLen, before, unsafe>>
    BY <1>2 DEF TestLength, Reading, AtPeer
  <2>2. CASE NextPeer
    BY <1>0, <1>d, <2>1, <2>2 DEF ReaderTypes, MasterAllocated, TypeOK
  <2>3. CASE rpc' = "pointer" /\ UNCHANGED <<pos, byte, rptr>>
    BY <1>0, <1>b, <1>c, <2>1, <2>3
       DEF ReaderTypes, ReaderAllocated, MasterAllocated, AtPeer, ReaderPC, TypeOK
  <2> QED
    BY <1>2, <2>2, <2>3 DEF TestLength
<1>3. CASE TestPointer
  <2>1. rpc = "pointer" /\ AtPeer /\ UNCHANGED <<master, masterLen, before, unsafe>>
    BY <1>3 DEF TestPointer, Reading, AtPeer
  <2>2. CASE NextPeer
    BY <1>0, <1>d, <2>1, <2>2 DEF ReaderTypes, MasterAllocated, TypeOK
  <2>3. CASE /\ Current(pos) # 0 /\ UNCHANGED <<pos, byte, rptr>>
             /\ rpc' = IF master = NoMaster THEN "calloc" ELSE "same"
    <3>1. Len(blocks'[pos']) > 0 /\ pos' \in Peers
      BY <1>0, <1>b, <1>c, <2>1, <2>3 DEF Current
    <3>2. rpc' = "same" => master.peer # 0
      BY <1>0, <2>3 DEF MasterAllocated
    <3> QED
      BY <1>0, <2>1, <2>3, <3>1, <3>2
         DEF ReaderTypes, ReaderAllocated, MasterAllocated, AtPeer, ReaderPC, TypeOK, Current
  <2> QED
    BY <1>3, <2>2, <2>3 DEF TestPointer
<1>4. CASE Calloc
  <2>1. rpc = "calloc" /\ AtPeer /\ rpc' = "masterlen" /\ UNCHANGED <<pos, byte, rptr, masterLen, before, unsafe>>
        /\ master' = [peer |-> pos, size |-> length[pos], bits |-> {}]
    BY <1>4 DEF Calloc, Reading, AtPeer
  <2>2. length[pos] \in Nat /\ pos \in 0..NPeers /\ pos # 0
    BY <1>0, <1>a, <1>b, <2>1 DEF TypeOK
  <2>3. master' \in [peer : 0..NPeers, size : Nat, bits : SUBSET Nat] /\ master'.peer # 0
    BY <2>1, <2>2
  <2> QED
    BY <1>0, <1>b, <1>c, <2>1, <2>3
       DEF ReaderTypes, ReaderAllocated, MasterAllocated, AtPeer, ReaderPC, TypeOK, Current
<1>5. CASE SetMasterLen
  <2>1. rpc = "masterlen" /\ AtPeer /\ rpc' = "same" /\ UNCHANGED <<pos, byte, rptr, master, before, unsafe>>
        /\ masterLen' = length[pos]
    BY <1>5 DEF SetMasterLen, Reading, AtPeer
  <2>2. length[pos] \in Nat
    BY <1>0, <1>b, <2>1 DEF TypeOK
  <2> QED
    BY <1>0, <1>b, <1>c, <2>1, <2>2
       DEF ReaderTypes, ReaderAllocated, MasterAllocated, AtPeer, ReaderPC, TypeOK, Current
<1>6. CASE Compare
  <2>1. rpc = "same" /\ AtPeer /\ UNCHANGED <<master, masterLen, before, unsafe>>
    BY <1>6 DEF Compare, Reading, AtPeer
  <2>2. CASE NextPeer
    BY <1>0, <1>d, <2>1, <2>2 DEF ReaderTypes, MasterAllocated, TypeOK
  <2>3. CASE rpc' = "array" /\ UNCHANGED <<pos, byte, rptr>>
    BY <1>0, <1>b, <1>c, <2>1, <2>3
       DEF ReaderTypes, ReaderAllocated, MasterAllocated, AtPeer, ReaderPC, TypeOK, Current
  <2> QED
    BY <1>6, <2>2, <2>3 DEF Compare
<1>7. CASE OrPointer
  <2>1. rpc = "array" /\ AtPeer /\ rpc' = "or" /\ rptr' = Current(pos)
        /\ UNCHANGED <<pos, byte, master, masterLen, before, unsafe>>
    BY <1>7 DEF OrPointer, Reading, AtPeer
  <2>2. Current(pos) \in Nat /\ Current(pos) > 0
    BY <1>0, <1>b, <2>1 DEF ReaderAllocated
  <2> QED
    BY <1>0, <1>b, <1>c, <2>1, <2>2
       DEF ReaderTypes, ReaderAllocated, MasterAllocated, AtPeer, ReaderPC, TypeOK, Current
<1>8. CASE OrByte
  <2>1. rpc = "or" /\ AtPeer /\ UNCHANGED <<masterLen, before>> /\ pos \in Peers
        /\ master.peer # 0 /\ master.peer \in Peers
    BY <1>0, <1>a, <1>b, <1>8 DEF OrByte, Reading, AtPeer, MasterAllocated, TypeOK, Peers
  <2> DEFINE x == master.bits \cup (blocks[pos][rptr].bits \cap Byte(byte))
  <2>2. x \in SUBSET Nat
    BY <1>0 DEF TypeOK, Byte
  <2>3. master' = [master EXCEPT !.bits = x]
    BY <1>8 DEF OrByte, Ored
  <2> HIDE DEF x
  <2>4. master' \in [peer : 0..NPeers, size : Nat, bits : SUBSET Nat] /\ master'.peer = master.peer
    BY <1>0, <2>2, <2>3 DEF TypeOK
  <2>5. unsafe' \subseteq Peers
    BY <1>0, <1>8, <2>1 DEF OrByte, TypeOK
  <2>6. CASE NextPeer
    BY <1>0, <1>d, <2>1, <2>4, <2>5, <2>6 DEF ReaderTypes, MasterAllocated, TypeOK
  <2>7. CASE byte' = byte + 1 /\ rpc' = "array" /\ rptr' = 0 /\ UNCHANGED pos
    BY <1>0, <1>a, <1>b, <1>c, <2>1, <2>4, <2>5, <2>7
       DEF ReaderTypes, ReaderAllocated, MasterAllocated, AtPeer, ReaderPC, TypeOK, Current
  <2> QED
    BY <1>8, <2>6, <2>7 DEF OrByte
<1>9. CASE Count
  <2>1. rpc' = "out" /\ pos' = 0 /\ master' = NoMaster /\ masterLen' = 0 /\ UNCHANGED <<byte, rptr>>
        /\ before' \in [Peers -> SUBSET Nat]
    BY <1>9 DEF Count
  <2>2. unsafe' \subseteq Peers
    <3>1. master.peer = 0 => masterLen <= master.size
      BY <1>0 DEF MasterAllocated, NoMaster
    <3>2. master.peer # 0 => master.peer \in Peers
      BY <1>0, AvailabilityAssumption DEF TypeOK, Peers
    <3> QED
      BY <1>0, <1>9, <3>1, <3>2 DEF Count, TypeOK
  <2> QED
    BY <1>0, <1>a, <2>1, <2>2
       DEF ReaderTypes, ReaderAllocated, MasterAllocated, AtPeer, ReaderPC, TypeOK
<1> QED
  BY <1>1, <1>2, <1>3, <1>4, <1>5, <1>6, <1>7, <1>8, <1>9 DEF ReaderStep

LEMMA TypedNext == Typed /\ [Next]_vars => Typed'
<1> SUFFICES ASSUME Typed, [Next]_vars PROVE Typed'
  OBVIOUS
<1>0. TypeOK /\ WritersAllocated /\ ReaderAllocated /\ MasterAllocated
  BY DEF Typed
<1>1. ASSUME NEW w \in Writers, WriterStep(w), UNCHANGED target PROVE Typed'
  <2>1. Frame(w) /\ WriterTypes' /\ WritersAllocated' /\ target[w] \in Peers
    BY <1>0, <1>1, WriterFrame, WriterTyped, WriterStays DEF TypeOK
  <2>2. TypeOK'
    BY <1>0, <2>1 DEF Frame, WriterTypes, Msg, TypeOK, rvars
  <2>3. ReaderAllocated'
    BY <1>0, <2>1 DEF Frame, ReaderAllocated, AtPeer, rvars, Current
  <2>4. MasterAllocated'
    BY <1>0, <2>1 DEF Frame, MasterAllocated, rvars
  <2> QED
    BY <2>1, <2>2, <2>3, <2>4 DEF Typed
<1>2. CASE ReaderStep /\ UNCHANGED target
  <2>1. UNCHANGED <<blocks, length, wvars, hist, target>>
    BY <1>2 DEF ReaderStep, Reading, StartPass, TestLength, TestPointer, Calloc, SetMasterLen,
                Compare, OrPointer, OrByte, Count
  <2>2. ReaderTypes' /\ ReaderAllocated' /\ MasterAllocated'
    BY <1>2, ReaderTyped
  <2>3. TypeOK'
    BY <1>0, <2>1, <2>2 DEF TypeOK, ReaderTypes, wvars, hist
  <2>4. WritersAllocated'
    BY <1>0, <2>1 DEF WritersAllocated, wvars, Current
  <2> QED
    BY <2>2, <2>3, <2>4 DEF Typed
<1>3. CASE UNCHANGED vars
  BY <1>0, <1>3 DEF vars, wvars, rvars, hist, Typed, TypeOK, WritersAllocated, ReaderAllocated,
                    MasterAllocated, AtPeer, Current
<1> QED
  BY <1>1, <1>2, <1>3 DEF Next

\* The variables of the bitfields, the writers and the pass keep their types.
THEOREM TypeCorrect == Spec => []TypeOK
<1>1. Typed => TypeOK
  BY DEF Typed
<1> QED
  BY <1>1, TypedInit, TypedNext, PTL DEF Spec

-----------------------------------------------------------------------------
(* Accesses.  As long as a peer has sent one bitfield at most, it has one    *)
(* block, which is what its length says, and no length is set before the     *)
(* block is filled: the writer that stores the bitfield is alone with it     *)
(* until then.  The bits that the bitfield came with stay in the block, for  *)
(* whoever stores a byte has read them there.                                *)

Busy(w) == wpc[w] \in {"malloc", "dest", "copy", "length"}

Marking(w) == wpc[w] \in {"array", "load", "store"}

Ready(p) ==
    LET b == blocks[p][1] IN
    /\ Current(p) = 1 /\ b.live /\ b.filled /\ b.size = length[p]
    /\ first[p] \subseteq b.bits
    /\ \A i \in b.bits : ByteOf(i) < b.size

\* Where writer w is with the first bitfield of its peer p.
FirstUse(p, w) ==
    /\ Busy(w) => /\ updates[p] = 1 /\ length[p] = 0 /\ first[p] = msg[w].bits
                  /\ \A i \in msg[w].bits : ByteOf(i) < msg[w].size
                  /\ \A v \in Writers \ {w} : target[v] = p => wpc[v] = "recv"
    /\ wpc[w] = "malloc" => Current(p) = 0
    /\ wpc[w] \in {"dest", "copy", "length"} =>
           Current(p) = 1 /\ blocks[p][1].live /\ blocks[p][1].size = msg[w].size
    /\ wpc[w] = "length" => blocks[p][1].filled /\ blocks[p][1].bits = msg[w].bits
    /\ Marking(w) => ByteOf(have[w]) < length[p]
    /\ wpc[w] = "store" => /\ first[p] \cap Byte(ByteOf(have[w])) \subseteq msg[w].bits
                           /\ msg[w].bits \subseteq Byte(ByteOf(have[w]))

Once(p) ==
    updates[p] <= 1 =>
        /\ p \notin unsafe
        /\ updates[p] = 0 => Current(p) = 0 /\ length[p] = 0
        /\ length[p] > 0 => Ready(p)
        /\ \A w \in Writers : target[w] = p => FirstUse(p, w)

OnceInv == \A p \in Peers : Once(p)

LEMMA OnceInit == Init => OnceInv
BY DEF Init, OnceInv, Once, FirstUse, Busy, Marking, Current

LEMMA OnceOthers ==
    ASSUME Typed, OnceInv, NEW w \in Writers, Frame(w), NEW q \in Peers, q # target[w]
    PROVE  Once(q)'
<1>1. Once(q)
  BY DEF OnceInv
<1>2. /\ blocks'[q] = blocks[q] /\ length'[q] = length[q] /\ first'[q] = first[q]
      /\ updates'[q] = updates[q] /\ (q \in unsafe' => q \in unsafe) /\ target' = target
  BY DEF Frame
<1>3. Ready(q)' <=> Ready(q)
  BY <1>2 DEF Ready, Current
<1>4. ASSUME NEW v \in Writers, target[v] = q, FirstUse(q, v) PROVE FirstUse(q, v)'
  <2>1. \A u \in Writers : target[u] = q => wpc'[u] = wpc[u] /\ msg'[u] = msg[u] /\ have'[u] = have[u]
    BY DEF Frame
  <2> QED
    BY <1>2, <1>4, <2>1 DEF FirstUse, Busy, Marking, Current
<1> QED
  BY <1>1, <1>2, <1>3, <1>4 DEF Once, Current

\* The other threads of the peer wait for a message: the bitfield is not theirs.
LEMMA OthersWait ==
    ASSUME Typed, NEW w \in Writers, Frame(w), NEW p \in Peers,
           NEW v \in Writers \ {w}, target[v] = p, wpc[v] = "recv"
    PROVE  FirstUse(p, v)'
BY DEF Frame, FirstUse, Busy, Marking

LEMMA OnceFree ==
    ASSUME Typed, OnceInv, NEW w \in Writers, NEW b \in Bitfields, FreeOld(w, b),
           UNCHANGED target, NEW p \in Peers, target[w] = p
    PROVE  Once(p)'
<1>0. WriterStep(w)
  BY DEF WriterStep
<1>1. Frame(w) /\ Once(p) /\ TypeOK /\ updates[p] \in Nat
  BY <1>0, WriterFrame DEF OnceInv, Typed, TypeOK
<1>2. updates' = [updates EXCEPT ![p] = updates[p] + 1]
  BY DEF FreeOld
<1> SUFFICES ASSUME updates[p] = 0 PROVE Once(p)'
  BY <1>1, <1>2 DEF Once, TypeOK
<1>3. Current(p) = 0 /\ length[p] = 0 /\ p \notin unsafe
  BY <1>1 DEF Once
<1>4. blocks' = blocks /\ unsafe' = unsafe
  BY <1>3, FreeOldFacts DEF FreedBy
<1>5. \A v \in Writers : target[v] = p => wpc[v] = "recv"
  <2>1. \A v \in Writers : have[v] \in Nat /\ ByteOf(have[v]) \in Nat /\ wpc[v] \in WriterPC
    BY <1>1, ByteOfNat DEF TypeOK
  <2> QED
    BY <1>1, <1>3, <2>1 DEF Once, FirstUse, Busy, Marking, WriterPC
<1>6. /\ wpc'[w] = "malloc" /\ msg'[w] = b /\ first'[p] = b.bits /\ updates'[p] = 1
      /\ length' = length
  BY <1>1, <1>2 DEF FreeOld, TypeOK
<1>7. \A i \in b.bits : ByteOf(i) < b.size
  BY AvailabilityAssumption
<1>8. FirstUse(p, w)'
  BY <1>1, <1>3, <1>4, <1>5, <1>6, <1>7 DEF Frame, FirstUse, Busy, Marking, Current
<1>9. \A v \in Writers : target[v] = p => FirstUse(p, v)'
  BY <1>1, <1>5, <1>8, OthersWait
<1>10. target' = target
  OBVIOUS
<1> QED
  BY <1>3, <1>4, <1>6, <1>9, <1>10 DEF Once

\* The steps of the writer that stores the first bitfield.
LEMMA OnceBusy ==
    ASSUME Typed, OnceInv, NEW w \in Writers,
           Malloc(w) \/ LoadPointer(w, "dest", "copy") \/ Memcpy(w) \/ SetLength(w),
           UNCHANGED target, NEW p \in Peers, target[w] = p
    PROVE  Once(p)'
<1>0. WriterStep(w)
  BY DEF WriterStep
<1>1. Frame(w) /\ Once(p) /\ TypeOK /\ updates[p] \in Nat /\ target' = target
  BY <1>0, WriterFrame DEF OnceInv, Typed, TypeOK
<1>2. UNCHANGED <<updates, first>> /\ Busy(w)
  BY DEF Malloc, LoadPointer, Memcpy, SetLength, hist, Busy
<1> SUFFICES ASSUME updates[p] <= 1 PROVE Once(p)'
  BY <1>2 DEF Once
<1>3. FirstUse(p, w) /\ p \notin unsafe /\ updates[p] = 1 /\ length[p] = 0
  BY <1>1, <1>2 DEF Once, FirstUse
<1>4. \A v \in Writers \ {w} : target[v] = p => FirstUse(p, v)'
  BY <1>1, <1>2, <1>3, OthersWait DEF FirstUse
<1>5. ASSUME FirstUse(p, w)', p \notin unsafe', length'[p] > 0 => Ready(p)' PROVE Once(p)'
  BY <1>1, <1>2, <1>3, <1>4, <1>5 DEF Once
<1>6. \A v \in Writers \ {w} : target'[v] = p => wpc'[v] = "recv"
  BY <1>1, <1>2, <1>3 DEF FirstUse, Frame
<1>7. CASE Malloc(w)
  <2>1. AllocatedBy(w) /\ Current(p) = 0
    BY <1>3, <1>7, MallocFacts DEF FirstUse, Malloc
  <2>2. Len(blocks'[p]) = 1 /\ blocks'[p][1].live /\ blocks'[p][1].size = msg[w].size
    BY <2>1 DEF AllocatedBy
  <2>3. wpc'[w] = "dest" /\ UNCHANGED <<msg, length, unsafe>>
    BY <1>1, <1>7 DEF Malloc, TypeOK
  <2>4. FirstUse(p, w)'
    BY <1>2, <1>3, <1>6, <2>2, <2>3 DEF FirstUse, Busy, Marking, Current
  <2> QED
    BY <1>3, <1>5, <2>3, <2>4
<1>8. CASE LoadPointer(w, "dest", "copy")
  <2>1. wpc[w] = "dest" /\ wpc'[w] = "copy" /\ UNCHANGED <<blocks, msg, length, unsafe>>
    BY <1>1, <1>8 DEF LoadPointer, TypeOK
  <2>2. FirstUse(p, w)'
    BY <1>2, <1>3, <1>6, <2>1 DEF FirstUse, Busy, Marking, Current
  <2> QED
    BY <1>3, <1>5, <2>1, <2>2
<1>9. CASE Memcpy(w)
  <2>1. wpc[w] = "copy" /\ wpc'[w] = "length" /\ UNCHANGED <<msg, length>> /\ CopiedBy(w)
    BY <1>1, <1>9, MemcpyFacts DEF Memcpy, TypeOK
  <2>2. ptr[w] = 1 /\ Current(p) = 1 /\ blocks[p][1].live /\ blocks[p][1].size = msg[w].size
    BY <1>3, <2>1 DEF FirstUse, CopiedBy
  <2>3. msg[w].size \in Nat
    BY <1>1 DEF TypeOK
  <2>4. Valid(blocks[p][1], msg[w].size)
    BY <2>2, <2>3 DEF Valid
  <2>5. PICK c \in Block : /\ Put(p, 1, c) /\ c.live /\ c.filled
                            /\ c.size = blocks[p][1].size /\ c.bits = msg[w].bits
                            /\ unsafe' = unsafe
    BY <2>1, <2>2, <2>4 DEF CopiedBy
  <2>6. Len(blocks'[p]) = 1 /\ blocks'[p][1] = c
    BY <2>2, <2>5 DEF Put, Current
  <2>7. blocks'[p][1].live /\ blocks'[p][1].size = msg[w].size /\ blocks'[p][1].bits = msg[w].bits
    BY <2>2, <2>5, <2>6
  <2>8. blocks'[p][1].filled
    BY <2>5, <2>6
  <2>9. FirstUse(p, w)'
    BY <1>2, <1>3, <1>6, <2>1, <2>6, <2>7, <2>8 DEF FirstUse, Busy, Marking, Current
  <2> QED
    BY <1>3, <1>5, <2>1, <2>5, <2>9
<1>10. CASE SetLength(w)
  <2>1. /\ wpc[w] = "length" /\ wpc'[w] = "recv" /\ UNCHANGED <<blocks, unsafe>>
        /\ length'[p] = msg[w].size
    BY <1>1, <1>10 DEF SetLength, TypeOK
  <2>2. FirstUse(p, w)'
    BY <2>1 DEF FirstUse, Busy, Marking
  <2>3. Ready(p)'
    BY <1>2, <1>3, <2>1 DEF FirstUse, Busy, Ready, Current
  <2> QED
    BY <1>3, <1>5, <2>1, <2>2, <2>3
<1> QED
  BY <1>7, <1>8, <1>9, <1>10

\* The steps of a HAVE.
LEMMA OnceMarking ==
    ASSUME Typed, OnceInv, NEW w \in Writers, WriterStep(w), NEW idx \in Nat,
           \/ HaveDrop(w, idx) \/ HaveTest(w, idx)
           \/ LoadPointer(w, "array", "load") \/ HaveLoad(w) \/ HaveStore(w),
           UNCHANGED target, NEW p \in Peers, target[w] = p
    PROVE  Once(p)'
<1>1. Frame(w) /\ Once(p) /\ TypeOK /\ updates[p] \in Nat /\ length[p] \in Nat /\ target' = target
  BY WriterFrame DEF OnceInv, Typed, TypeOK
<1>2. UNCHANGED <<updates, first, length>>
  BY DEF HaveDrop, HaveTest, LoadPointer, HaveLoad, HaveStore, hist
<1>3. CASE HaveDrop(w, idx)
  BY <1>1, <1>3 DEF HaveDrop, wvars, hist, Once, FirstUse, Busy, Marking, Ready, Current
<1> SUFFICES ASSUME updates[p] <= 1, ~HaveDrop(w, idx) PROVE Once(p)'
  BY <1>2, <1>3 DEF Once
<1>4. idx \in Nat /\ ByteOf(idx) \in Nat /\ have[w] \in Nat /\ ByteOf(have[w]) \in Nat
  BY <1>1, ByteOfNat DEF TypeOK
<1>5. length[p] > 0 /\ ~Busy(w)
  BY <1>1, <1>4 DEF HaveTest, LoadPointer, HaveLoad, HaveStore, Once, FirstUse, Busy, Marking
<1>6. Ready(p) /\ p \notin unsafe /\ updates[p] # 0 /\ FirstUse(p, w)
  BY <1>1, <1>5 DEF Once
<1>7. ASSUME FirstUse(p, w)', p \notin unsafe', Ready(p)' PROVE Once(p)'
  <2>1. ASSUME NEW v \in Writers \ {w}, target[v] = p PROVE FirstUse(p, v)'
    <3>1. FirstUse(p, v) /\ ~Busy(v)
      BY <1>1, <1>5, <2>1 DEF Once, FirstUse
    <3> QED
      BY <1>1, <1>2, <3>1 DEF Frame, FirstUse, Busy, Marking
  <2> QED
    BY <1>1, <1>2, <1>6, <1>7, <2>1 DEF Once
<1>8. CASE HaveTest(w, idx)
  <2>1. wpc'[w] = "array" /\ have'[w] = idx /\ ByteOf(idx) < length[p] /\ UNCHANGED <<blocks, unsafe>>
    BY <1>1, <1>8 DEF HaveTest, TypeOK
  <2>2. FirstUse(p, w)' /\ Ready(p)'
    BY <1>2, <1>6, <2>1 DEF FirstUse, Busy, Marking, Ready, Current
  <2> QED
    BY <1>6, <1>7, <2>1, <2>2
<1>9. CASE LoadPointer(w, "array", "load")
  <2>1. wpc[w] = "array" /\ wpc'[w] = "load" /\ UNCHANGED <<blocks, unsafe, have>>
    BY <1>1, <1>9 DEF LoadPointer, TypeOK
  <2>2. FirstUse(p, w)' /\ Ready(p)'
    BY <1>2, <1>6, <2>1 DEF FirstUse, Busy, Marking, Ready, Current
  <2> QED
    BY <1>6, <1>7, <2>1, <2>2
<1>10. CASE HaveLoad(w)
  <2> DEFINE n == ByteOf(have[w])
  <2>1. wpc[w] = "load" /\ wpc'[w] = "store" /\ UNCHANGED <<blocks, have>>
    BY <1>1, <1>10 DEF HaveLoad, TypeOK
  <2>2. ptr[w] = 1 /\ n < length[p]
    BY <1>6, <2>1 DEF Typed, WritersAllocated, Ready, FirstUse, Marking
  <2>3. msg' = [msg EXCEPT ![w].bits = blocks[p][1].bits \cap Byte(n)]
    BY <1>10, <2>2 DEF HaveLoad
  <2>4. msg'[w].bits = blocks[p][1].bits \cap Byte(n)
    BY <1>1, <2>3 DEF TypeOK
  <2>5. Valid(blocks[p][1], n + 1) /\ blocks[p][1].filled
    BY <1>1, <1>4, <1>6, <2>2 DEF Valid, Ready
  <2>6. unsafe' = unsafe
    BY <1>10, <2>2, <2>5 DEF HaveLoad
  <2>7. Ready(p)'
    BY <1>2, <1>6, <2>1 DEF Ready, Current
  <2>8. FirstUse(p, w)'
    BY <1>2, <1>6, <2>1, <2>2, <2>4 DEF FirstUse, Busy, Marking, Ready
  <2> QED
    BY <1>6, <1>7, <2>6, <2>7, <2>8
<1>11. CASE HaveStore(w)
  <2> DEFINE n == ByteOf(have[w])
  <2>1. wpc[w] = "store" /\ wpc'[w] = "recv"
    BY <1>1, <1>11 DEF HaveStore, TypeOK
  <2>2. ptr[w] = 1 /\ n < length[p] /\ Current(p) = 1
    BY <1>6, <2>1 DEF Typed, WritersAllocated, Ready, FirstUse, Marking
  <2>3. MarkedBy(w, 1)
    BY <1>11, <2>2, HaveStoreFacts
  <2>4. Valid(blocks[p][1], n + 1)
    BY <1>1, <1>4, <1>6, <2>2 DEF Valid, Ready
  <2>5. PICK c \in Block :
            /\ Put(p, 1, c) /\ c.live /\ c.filled = blocks[p][1].filled
            /\ c.size = blocks[p][1].size
            /\ c.bits = (blocks[p][1].bits \ Byte(n)) \cup msg[w].bits \cup {have[w]}
            /\ unsafe' = unsafe
    BY <2>3, <2>4 DEF MarkedBy
  <2>6. Len(blocks'[p]) = 1 /\ blocks'[p][1] = c
    BY <2>2, <2>5 DEF Put, Current
  <2>7. first[p] \cap Byte(n) \subseteq msg[w].bits /\ msg[w].bits \subseteq Byte(n)
    BY <1>6, <2>1 DEF FirstUse
  <2>8. first[p] \subseteq c.bits
    BY <1>6, <2>5, <2>7 DEF Ready
  <2>9. \A i \in c.bits : ByteOf(i) < c.size
    <3>1. \A i \in msg[w].bits : ByteOf(i) = n
      BY <2>7 DEF Byte
    <3>2. blocks[p][1].size = length[p] /\ \A i \in blocks[p][1].bits : ByteOf(i) < length[p]
      BY <1>6 DEF Ready
    <3> QED
      BY <2>2, <2>5, <3>1, <3>2
  <2>10. c.filled
    BY <1>6, <2>5, Zenon DEF Ready
  <2>11. c.live /\ c.size = length[p]
    BY <1>6, <2>5 DEF Ready
  <2>12. Ready(p)'
    BY <1>2, <2>6, <2>8, <2>9, <2>10, <2>11 DEF Ready, Current
  <2>13. FirstUse(p, w)'
    BY <2>1 DEF FirstUse, Busy, Marking
  <2> QED
    BY <1>6, <1>7, <2>5, <2>12, <2>13
<1> QED
  BY <1>8, <1>9, <1>10, <1>11

LEMMA OnceWriter ==
    ASSUME Typed, OnceInv, NEW w \in Writers, WriterStep(w), UNCHANGED target
    PROVE  OnceInv'
<1>1. Frame(w) /\ target[w] \in Peers
  BY WriterFrame DEF Typed, TypeOK
<1>2. ASSUME NEW p \in Peers PROVE Once(p)'
  <2>1. CASE p # target[w]
    BY <1>1, <2>1, OnceOthers
  <2>2. CASE p = target[w]
    <3>1. ASSUME NEW b \in Bitfields, FreeOld(w, b) PROVE Once(p)'
      BY <2>2, <3>1, OnceFree
    <3>2. CASE Malloc(w) \/ LoadPointer(w, "dest", "copy") \/ Memcpy(w) \/ SetLength(w)
      BY <2>2, <3>2, OnceBusy
    <3>3. ASSUME NEW idx \in AllPieces, HaveDrop(w, idx) \/ HaveTest(w, idx) PROVE Once(p)'
      BY <2>2, <3>3, AllPiecesNat, OnceMarking
    <3>4. CASE LoadPointer(w, "array", "load") \/ HaveLoad(w) \/ HaveStore(w)
      <4>1. 0 \in Nat
        OBVIOUS
      <4> QED
        BY <2>2, <3>4, <4>1, OnceMarking
    <3> QED
      BY <3>1, <3>2, <3>3, <3>4 DEF WriterStep
  <2> QED
    BY <2>1, <2>2
<1> QED
  BY <1>2 DEF OnceInv, Peers

(* The reader.  It looks at a peer with one bitfield only when the length is *)
(* set, and from then on neither the length nor the block is replaced: what  *)
(* it reads again is what it has read.                                       *)

Measured ==
    /\ AtPeer /\ rpc # "length" /\ updates[pos] <= 1 => length[pos] > 0
    /\ master.peer # 0 /\ updates[master.peer] <= 1 =>
           /\ length[master.peer] > 0 /\ master.size = length[master.peer]
           /\ rpc # "masterlen" => masterLen = master.size
    /\ rpc = "masterlen" => pos = master.peer
    /\ rpc \in {"length", "pointer", "calloc", "masterlen", "same"} => byte = 0
    /\ rpc \in {"array", "or"} =>
           byte < masterLen /\ (updates[pos] <= 1 => length[pos] = masterLen)
    /\ rpc \in {"out", "count"} => byte = 0

LEMMA Steady ==
    ASSUME Typed, OnceInv, NEW w \in Writers, WriterStep(w), UNCHANGED target,
           NEW p \in Peers, updates'[p] <= 1
    PROVE  updates[p] <= 1 /\ (length[p] > 0 => length'[p] = length[p])
<1>1. Frame(w) /\ Once(p) /\ TypeOK /\ updates[p] \in Nat /\ target[w] \in Peers
      /\ updates'[p] \in Nat
  <2>1. WriterTypes'
    BY WriterTyped
  <2> QED
    BY <2>1, WriterFrame DEF OnceInv, Typed, TypeOK, WriterTypes
<1>2. updates[p] <= updates'[p]
  BY <1>1 DEF Frame
<1>3. updates[p] <= 1
  BY <1>1, <1>2
<1>4. ASSUME length[p] > 0, length'[p] # length[p] PROVE FALSE
  <2>1. p = target[w] /\ updates[p] # 0
    BY <1>1, <1>3, <1>4 DEF Frame, Once, TypeOK
  <2>2. SetLength(w)
    BY <1>4 DEF WriterStep, FreeOld, Malloc, LoadPointer, Memcpy, HaveDrop, HaveTest, HaveLoad,
                HaveStore
  <2>3. Busy(w) /\ FirstUse(p, w)
    BY <1>1, <1>3, <2>1, <2>2 DEF SetLength, Busy, Once
  <2> QED
    BY <1>1, <1>4, <2>3 DEF FirstUse, TypeOK
<1> QED
  BY <1>3, <1>4

LEMMA ReaderFrame ==
    ASSUME ReaderStep
    PROVE  UNCHANGED <<blocks, length, wpc, msg, have, ptr, left, updates, first, announced>>
BY DEF ReaderStep, Reading, StartPass, TestLength, TestPointer, Calloc, SetMasterLen, Compare,
       OrPointer, OrByte, Count, wvars, hist

LEMMA MeasuredWriter ==
    ASSUME Typed, OnceInv, Measured, NEW w \in Writers, WriterStep(w), UNCHANGED target
    PROVE  Measured'
<1>1. rvars' = rvars
  BY WriterFrame DEF Frame
<1>2. \A p \in Peers : updates'[p] <= 1 => updates[p] <= 1 /\ (length[p] > 0 => length'[p] = length[p])
  BY Steady
<1>3. (AtPeer => pos \in Peers) /\ (master.peer # 0 => master.peer \in Peers)
  BY DEF Typed, TypeOK, ReaderAllocated, Peers
<1>4. ASSUME AtPeer, rpc # "length", updates'[pos] <= 1
      PROVE  updates[pos] <= 1 /\ length[pos] > 0 /\ length'[pos] = length[pos]
  BY <1>2, <1>3, <1>4 DEF Measured
<1>5. ASSUME master.peer # 0, updates'[master.peer] <= 1
      PROVE  /\ updates[master.peer] <= 1 /\ length[master.peer] > 0
             /\ length'[master.peer] = length[master.peer]
  BY <1>2, <1>3, <1>5 DEF Measured
<1> QED
  BY <1>1, <1>4, <1>5 DEF Measured, rvars, AtPeer

LEMMA MeasuredReader ==
    ASSUME Typed, Measured, ReaderStep
    PROVE  Measured'
<1>0. UNCHANGED <<length, updates>>
  BY ReaderFrame
<1>1. TypeOK /\ (AtPeer => pos \in Peers) /\ (master.peer # 0 => master.peer \in Peers)
  <2>1. TypeOK /\ master.peer \in 0..NPeers /\ NPeers \in Nat
    BY AvailabilityAssumption DEF Typed, TypeOK
  <2>2. master.peer # 0 => master.peer \in Peers
    BY <2>1 DEF Peers
  <2> QED
    BY <2>1, <2>2 DEF Typed, ReaderAllocated
<1>2. byte \in Nat /\ masterLen \in Nat /\ \A p \in Peers : length[p] \in Nat
  BY <1>1 DEF TypeOK
<1>3. ASSUME NextPeer, AtPeer
      PROVE  rpc' \in {"count", "length"} /\ byte' = 0
  BY <1>1, <1>3, NextPeerFacts
<1>4. CASE StartPass
  <2>1. rpc = "out" /\ rpc' = "length" /\ UNCHANGED <<byte, master, masterLen>>
    BY <1>4 DEF StartPass, Reading
  <2> QED
    BY <1>0, <2>1 DEF Measured, AtPeer
<1>5. CASE TestLength
  <2>1. rpc = "length" /\ UNCHANGED <<master, masterLen>> /\ AtPeer
    BY <1>5 DEF TestLength, Reading, AtPeer
  <2>2. CASE TooShort(pos)
    BY <1>0, <1>3, <1>5, <2>1, <2>2 DEF TestLength, Measured, AtPeer
  <2>3. CASE ~TooShort(pos)
    <3>1. length[pos] > 0
      BY <1>1, <1>2, <2>1, <2>3 DEF TooShort
    <3>2. rpc' = "pointer" /\ UNCHANGED <<pos, byte>>
      BY <1>5, <2>3 DEF TestLength
    <3> QED
      BY <1>0, <2>1, <3>1, <3>2 DEF Measured, AtPeer
  <2> QED
    BY <2>2, <2>3
<1>6. CASE TestPointer
  <2>1. rpc = "pointer" /\ UNCHANGED <<master, masterLen>> /\ AtPeer
    BY <1>6 DEF TestPointer, Reading, AtPeer
  <2>2. CASE NextPeer
    BY <1>0, <1>3, <2>1, <2>2 DEF Measured, AtPeer
  <2>3. CASE rpc' \in {"calloc", "same"} /\ UNCHANGED <<pos, byte>>
    BY <1>0, <2>1, <2>3 DEF Measured, AtPeer
  <2> QED
    BY <1>6, <2>2, <2>3 DEF TestPointer
<1>7. CASE Calloc
  <2>1. rpc = "calloc" /\ rpc' = "masterlen" /\ UNCHANGED <<pos, byte>> /\ AtPeer
        /\ master' = [peer |-> pos, size |-> length[pos], bits |-> {}]
    BY <1>7 DEF Calloc, Reading, AtPeer
  <2>2. master'.peer = pos /\ master'.size = length[pos]
    BY <2>1
  <2> QED
    BY <1>0, <2>1, <2>2 DEF Measured, AtPeer
<1>8. CASE SetMasterLen
  <2>1. rpc = "masterlen" /\ rpc' = "same" /\ UNCHANGED <<pos, byte, master>> /\ AtPeer
        /\ masterLen' = length[pos]
    BY <1>8 DEF SetMasterLen, Reading, AtPeer
  <2> QED
    BY <1>0, <2>1 DEF Measured, AtPeer
<1>9. CASE Compare
  <2>1. rpc = "same" /\ UNCHANGED <<master, masterLen>> /\ AtPeer
    BY <1>9 DEF Compare, Reading, AtPeer
  <2>2. CASE NextPeer
    BY <1>0, <1>3, <2>1, <2>2 DEF Measured, AtPeer
  <2>3. CASE length[pos] = masterLen /\ masterLen > 0 /\ rpc' = "array" /\ UNCHANGED <<pos, byte>>
    BY <1>0, <2>1, <2>3 DEF Measured, AtPeer
  <2> QED
    BY <1>9, <2>2, <2>3 DEF Compare
<1>10. CASE OrPointer
  <2>1. rpc = "array" /\ rpc' = "or" /\ UNCHANGED <<pos, byte, master, masterLen>>
    BY <1>10 DEF OrPointer, Reading
  <2> QED
    BY <1>0, <2>1 DEF Measured, AtPeer
<1>11. CASE OrByte
  <2>1. rpc = "or" /\ UNCHANGED masterLen /\ AtPeer
    BY <1>11 DEF OrByte, Reading, AtPeer
  <2>2. master'.peer = master.peer /\ master'.size = master.size
    BY <1>1, <1>11 DEF OrByte, TypeOK
  <2>3. CASE NextPeer
    BY <1>0, <1>3, <2>1, <2>2, <2>3 DEF Measured, AtPeer
  <2>4. CASE byte + 1 < masterLen /\ byte' = byte + 1 /\ rpc' = "array" /\ UNCHANGED pos
    BY <1>0, <2>1, <2>2, <2>4 DEF Measured, AtPeer
  <2> QED
    BY <1>11, <2>3, <2>4 DEF OrByte
<1>12. CASE Count
  <2>1. rpc = "count" /\ rpc' = "out" /\ master' = NoMaster /\ UNCHANGED byte
    BY <1>12 DEF Count, Reading
  <2> QED
    BY <1>0, <2>1 DEF Measured, NoMaster, AtPeer
<1> QED
  BY <1>4, <1>5, <1>6, <1>7, <1>8, <1>9, <1>10, <1>11, <1>12 DEF ReaderStep

\* No access of the reader goes astray for a peer with one bitfield.
LEMMA ReaderSafe ==
    ASSUME Typed, OnceInv, Measured, ReaderStep, NEW p \in Peers, updates[p] <= 1, p \notin unsafe
    PROVE  p \notin unsafe'
<1>1. Once(p) /\ TypeOK
  BY DEF OnceInv, Typed
<1>2. CASE OrByte
  <2>1. rpc = "or" /\ byte < masterLen /\ byte \in Nat /\ masterLen \in Nat /\ AtPeer
    BY <1>1, <1>2 DEF OrByte, Reading, Measured, TypeOK, AtPeer
  <2>2. ASSUME p = pos PROVE Valid(blocks[pos][rptr], byte + 1) /\ blocks[pos][rptr].filled
    <3>1. length[pos] = masterLen /\ length[pos] > 0
      BY <2>1, <2>2 DEF Measured
    <3>2. Ready(p)
      BY <1>1, <2>2, <3>1 DEF Once
    <3>3. rptr = 1
      BY <2>1, <2>2, <3>2 DEF Typed, ReaderAllocated, Ready
    <3> QED
      BY <2>1, <2>2, <3>1, <3>2, <3>3 DEF Ready, Valid
  <2>3. ASSUME p = master.peer PROVE byte < master.size
    <3>1. master.peer # 0
      BY <2>1 DEF Typed, MasterAllocated
    <3> QED
      BY <2>1, <2>3, <3>1 DEF Measured
  <2> QED
    BY <1>2, <2>2, <2>3 DEF OrByte
<1>3. CASE Count
  <2>1. rpc = "count" /\ masterLen \in Nat
    BY <1>1, <1>3 DEF Count, Reading, TypeOK
  <2>2. ASSUME p = master.peer PROVE masterLen <= master.size
    <3>1. master.peer # 0
      BY <2>2, AvailabilityAssumption DEF Peers
    <3> QED
      BY <2>1, <2>2, <3>1 DEF Measured
  <2> QED
    BY <1>3, <2>2 DEF Count
<1>4. CASE unsafe' = unsafe
  BY <1>4
<1> QED
  BY <1>2, <1>3, <1>4
     DEF ReaderStep, StartPass, TestLength, TestPointer, Calloc, SetMasterLen, Compare, OrPointer

SafeInv == OnceInv /\ Measured

LEMMA SafeInit == Init => SafeInv
BY OnceInit DEF Init, SafeInv, Measured, NoMaster, AtPeer

LEMMA SafeNext == Typed /\ SafeInv /\ [Next]_vars => SafeInv'
<1> SUFFICES ASSUME Typed, OnceInv, Measured, [Next]_vars PROVE SafeInv'
  BY DEF SafeInv
<1>1. ASSUME NEW w \in Writers, WriterStep(w), UNCHANGED target PROVE SafeInv'
  BY <1>1, OnceWriter, MeasuredWriter DEF SafeInv
<1>2. CASE ReaderStep /\ UNCHANGED target
  <2>1. Measured'
    BY <1>2, MeasuredReader
  <2>2. UNCHANGED <<blocks, length, wpc, msg, have, ptr, updates, first, target>>
    BY <1>2, ReaderFrame
  <2>3. ASSUME NEW p \in Peers PROVE Once(p)'
    <3>1. Once(p) /\ (updates[p] <= 1 => p \notin unsafe')
      BY <1>2, ReaderSafe DEF OnceInv, Once
    <3> QED
      BY <2>2, <3>1 DEF Once, FirstUse, Busy, Marking, Ready, Current
  <2> QED
    BY <2>1, <2>3 DEF SafeInv, OnceInv, Peers
<1>3. CASE UNCHANGED vars
  <2>1. Measured'
    BY <1>3 DEF vars, rvars, wvars, hist, Measured, AtPeer
  <2>2. OnceInv'
    BY <1>3 DEF vars, wvars, hist, OnceInv, Once, FirstUse, Busy, Marking, Ready, Current, Peers
  <2> QED
    BY <2>1, <2>2 DEF SafeInv
<1> QED
  BY <1>1, <1>2, <1>3 DEF Next

\* peer_update_bitfield publishes the length last (peer.c:13) and every reader
\* tests it first: freed, unfilled or foreign memory is used only for a peer
\* whose bitfield was sent again, although the readers of client.c:224-234 and
\* peer.c:18-25 load length and pointer several times without a lock.
THEOREM SafeUnlessReplaced == Spec => []UnsafeOnlyWhenReplaced
<1>1. Typed /\ SafeInv => UnsafeOnlyWhenReplaced
  BY DEF Typed, TypeOK, SafeInv, OnceInv, Once, UnsafeOnlyWhenReplaced
<1> QED
  BY <1>1, TypedInit, TypedNext, SafeInit, SafeNext, PTL DEF Spec

-----------------------------------------------------------------------------
(* Phantoms.  Whatever the writers do to each other, the bits of a block and *)
(* of a byte or message on its way into one have been claimed by that peer.  *)

Claimed ==
    /\ \A p \in Peers : \A k \in 1..Current(p) : blocks[p][k].bits \subseteq announced[p]
    /\ \A w \in Writers : msg[w].bits \subseteq announced[target[w]]
    /\ \A w \in Writers : Marking(w) => have[w] \in announced[target[w]]

Claims == UNION {announced[p] : p \in Peers}

ClaimInv == Claimed /\ master.bits \subseteq Claims

\* What a step of w owes to the peer it talks to.
ClaimsOwn(w) ==
    LET p == target[w] IN
    /\ announced[p] \subseteq announced'[p]
    /\ \A k \in 1..Len(blocks'[p]) : blocks'[p][k].bits \subseteq announced'[p]
    /\ msg'[w].bits \subseteq announced'[p]
    /\ wpc'[w] \in {"array", "load", "store"} => have'[w] \in announced'[p]

LEMMA PutClaims ==
    ASSUME Typed, Claimed, NEW p \in Peers, NEW k, NEW c, Put(p, k, c),
           announced[p] \subseteq announced'[p], c.bits \subseteq announced'[p]
    PROVE  \A j \in 1..Len(blocks'[p]) : blocks'[p][j].bits \subseteq announced'[p]
BY DEF Put, Claimed, Current

LEMMA ClaimedWriter ==
    ASSUME Typed, Claimed, NEW w \in Writers, WriterStep(w), UNCHANGED target
    PROVE  Claimed' /\ \A p \in Peers : announced[p] \subseteq announced'[p]
<1> DEFINE p == target[w]
<1>1. Frame(w) /\ p \in Peers /\ TypeOK /\ Current(p) \in Nat
  BY WriterFrame, CurrentNat DEF Typed, TypeOK
<1>2. \A k \in 1..Len(blocks[p]) : blocks[p][k].bits \subseteq announced[p]
  BY <1>1 DEF Claimed, Current
<1>3. msg[w].bits \subseteq announced[p] /\ NoMsg.bits = {}
  BY DEF Claimed, NoMsg
<1>4. ASSUME NEW b \in Bitfields, FreeOld(w, b) PROVE ClaimsOwn(w)
  <2>1. /\ FreedBy(w, b) /\ msg'[w] = b /\ announced'[p] = announced[p] \cup b.bits
        /\ wpc'[w] = "malloc"
    BY <1>1, <1>4, FreeOldFacts DEF FreeOld, TypeOK
  <2>2. \A k \in 1..Len(blocks'[p]) : blocks'[p][k].bits \subseteq announced'[p]
    <3>1. CASE blocks' = blocks
      BY <1>2, <2>1, <3>1
    <3>2. ASSUME NEW c \in Block, Put(p, Current(p), c), c.bits = blocks[p][Current(p)].bits,
                 Current(p) > 0
          PROVE  \A k \in 1..Len(blocks'[p]) : blocks'[p][k].bits \subseteq announced'[p]
      <4>1. c.bits \subseteq announced'[p]
        BY <1>1, <1>2, <2>1, <3>2 DEF Current
      <4> QED
        BY <1>1, <2>1, <3>2, <4>1, PutClaims
    <3> QED
      BY <2>1, <3>1, <3>2 DEF FreedBy
  <2> QED
    BY <2>1, <2>2 DEF ClaimsOwn
<1>5. ASSUME Malloc(w) PROVE ClaimsOwn(w)
  <2>1. AllocatedBy(w) /\ wpc'[w] = "dest" /\ UNCHANGED <<announced, msg>>
    BY <1>1, <1>5, MallocFacts DEF Malloc, hist, TypeOK
  <2>2. blocks'[p][Current(p) + 1].bits = {}
    BY <2>1 DEF AllocatedBy
  <2>3. \A k \in 1..Len(blocks'[p]) : blocks'[p][k].bits \subseteq announced'[p]
    BY <1>1, <1>2, <2>1, <2>2 DEF AllocatedBy, Current
  <2> QED
    BY <1>3, <2>1, <2>3 DEF ClaimsOwn
<1>6. ASSUME Memcpy(w) PROVE ClaimsOwn(w)
  <2>1. CopiedBy(w) /\ wpc'[w] = "length" /\ UNCHANGED <<announced, msg>>
    BY <1>1, <1>6, MemcpyFacts DEF Memcpy, hist, TypeOK
  <2>2. \A k \in 1..Len(blocks'[p]) : blocks'[p][k].bits \subseteq announced'[p]
    BY <1>1, <1>2, <1>3, <2>1, PutClaims DEF CopiedBy
  <2> QED
    BY <1>3, <2>1, <2>2 DEF ClaimsOwn
<1>7. ASSUME SetLength(w) PROVE ClaimsOwn(w)
  BY <1>1, <1>2, <1>3, <1>7 DEF SetLength, hist, ClaimsOwn, TypeOK
<1>8. ASSUME NEW idx \in AllPieces, HaveDrop(w, idx) PROVE ClaimsOwn(w)
  <2>1. UNCHANGED <<announced, blocks, msg, wpc, have>>
    BY <1>8 DEF HaveDrop, hist, wvars
  <2> QED
    BY <1>2, <1>3, <1>8, <2>1 DEF HaveDrop, ClaimsOwn
<1>9. ASSUME NEW idx \in AllPieces, HaveTest(w, idx) PROVE ClaimsOwn(w)
  <2>1. /\ announced'[p] = announced[p] \cup {idx} /\ have'[w] = idx /\ UNCHANGED <<blocks, msg>>
    BY <1>1, <1>9 DEF HaveTest, TypeOK
  <2> QED
    BY <1>2, <1>3, <2>1 DEF ClaimsOwn
<1>10. ASSUME LoadPointer(w, "dest", "copy") \/ LoadPointer(w, "array", "load") PROVE ClaimsOwn(w)
  <2>1. UNCHANGED <<announced, blocks, msg, have>>
    BY <1>10 DEF LoadPointer, hist
  <2>2. wpc'[w] = "copy" \/ (wpc[w] = "array" /\ wpc'[w] = "load")
    BY <1>1, <1>10 DEF LoadPointer, TypeOK
  <2> QED
    BY <1>2, <1>3, <2>1, <2>2 DEF ClaimsOwn, Claimed, Marking
<1>11. ASSUME HaveLoad(w) PROVE ClaimsOwn(w)
  <2>1. UNCHANGED <<announced, blocks, have>> /\ wpc[w] = "load"
    BY <1>11 DEF HaveLoad, hist
  <2>2. msg' = [msg EXCEPT ![w].bits = blocks[p][ptr[w]].bits \cap Byte(ByteOf(have[w]))]
    BY <1>11 DEF HaveLoad
  <2>3. msg'[w].bits \subseteq blocks[p][ptr[w]].bits
    BY <1>1, <2>2 DEF TypeOK
  <2>4. ptr[w] \in 1..Len(blocks[p])
    BY <2>1 DEF Typed, WritersAllocated, Current
  <2>5. have[w] \in announced[p]
    BY <2>1 DEF Claimed, Marking
  <2> QED
    BY <1>2, <2>1, <2>3, <2>4, <2>5 DEF ClaimsOwn
<1>12. ASSUME HaveStore(w) PROVE ClaimsOwn(w)
  <2>1. /\ wpc[w] = "store" /\ wpc'[w] = "recv" /\ msg'[w] = NoMsg /\ UNCHANGED announced
    BY <1>1, <1>12 DEF HaveStore, hist, TypeOK
  <2>2. have[w] \in announced[p]
    BY <2>1 DEF Claimed, Marking
  <2>3. PICK k \in {ptr[w], Current(p)} : MarkedBy(w, k)
    BY <1>12, HaveStoreFacts
  <2>4. blocks[p][k].bits \subseteq announced[p]
    BY <1>2, <2>3 DEF MarkedBy, Current
  <2>5. \A j \in 1..Len(blocks'[p]) : blocks'[p][j].bits \subseteq announced'[p]
    <3>1. CASE blocks' = blocks
      BY <1>2, <2>1, <3>1
    <3>2. ASSUME NEW c \in Block, Put(p, k, c),
                 c.bits = (blocks[p][k].bits \ Byte(ByteOf(have[w]))) \cup msg[w].bits \cup {have[w]}
          PROVE  \A j \in 1..Len(blocks'[p]) : blocks'[p][j].bits \subseteq announced'[p]
      <4>1. c.bits \subseteq announced'[p]
        BY <1>3, <2>1, <2>2, <2>4, <3>2
      <4> QED
        BY <1>1, <2>1, <3>2, <4>1, PutClaims
    <3> QED
      BY <2>3, <3>1, <3>2 DEF MarkedBy
  <2> QED
    BY <1>3, <2>1, <2>5 DEF ClaimsOwn
<1>13. ClaimsOwn(w)
  BY <1>4, <1>5, <1>6, <1>7, <1>8, <1>9, <1>10, <1>11, <1>12 DEF WriterStep
<1>14. \A q \in Peers : announced[q] \subseteq announced'[q]
  BY <1>1, <1>13 DEF Frame, ClaimsOwn
<1>15. \A q \in Peers : \A k \in 1..Len(blocks'[q]) : blocks'[q][k].bits \subseteq announced'[q]
  <2>1. ASSUME NEW q \in Peers, q # p
        PROVE  \A k \in 1..Len(blocks'[q]) : blocks'[q][k].bits \subseteq announced'[q]
    <3>1. blocks'[q] = blocks[q] /\ announced'[q] = announced[q]
      BY <1>1, <2>1 DEF Frame
    <3> QED
      BY <3>1 DEF Claimed, Current
  <2> QED
    BY <1>13, <2>1 DEF ClaimsOwn
<1>16. ASSUME NEW v \in Writers
       PROVE  /\ msg'[v].bits \subseteq announced'[target[v]]
              /\ wpc'[v] \in {"array", "load", "store"} => have'[v] \in announced'[target[v]]
  <2>1. CASE v = w
    BY <1>13, <2>1 DEF ClaimsOwn
  <2>2. CASE v # w
    <3>1. target[v] \in Peers
      BY <1>1 DEF TypeOK
    <3> QED
      BY <1>1, <1>14, <2>2, <3>1 DEF Frame, Claimed, Marking
  <2> QED
    BY <2>1, <2>2
<1> QED
  BY <1>14, <1>15, <1>16 DEF Claimed, Marking, Current, Peers

LEMMA ClaimNext == Typed /\ ClaimInv /\ [Next]_vars => ClaimInv'
<1> SUFFICES ASSUME Typed, Claimed, master.bits \subseteq Claims, [Next]_vars PROVE ClaimInv'
  BY DEF ClaimInv
<1>1. ASSUME NEW w \in Writers, WriterStep(w), UNCHANGED target PROVE ClaimInv'
  <2>1. Frame(w)
    BY <1>1, WriterFrame
  <2>2. Claimed' /\ \A p \in Peers : announced[p] \subseteq announced'[p]
    BY <1>1, ClaimedWriter
  <2>3. master' = master
    BY <2>1 DEF Frame, rvars
  <2>4. (master.bits \subseteq Claims)'
    BY <2>2, <2>3 DEF Claims, Peers
  <2> QED
    BY <2>2, <2>4 DEF ClaimInv
<1>2. CASE ReaderStep /\ UNCHANGED target
  <2>1. Claimed' /\ announced' = announced
    BY <1>2, ReaderFrame DEF Claimed, Marking, Current
  <2>2. CASE OrByte
    <3>1. pos \in Peers /\ rptr \in 1..Current(pos)
      BY <2>2 DEF OrByte, Reading, Typed, ReaderAllocated, AtPeer
    <3>2. blocks[pos][rptr].bits \subseteq announced[pos]
      BY <3>1 DEF Claimed
    <3>3. master'.bits = master.bits \cup (blocks[pos][rptr].bits \cap Byte(byte))
      BY <2>2 DEF OrByte, Ored, Typed, TypeOK
    <3>4. master'.bits \subseteq Claims
      BY <3>1, <3>2, <3>3 DEF Claims
    <3> QED
      BY <2>1, <3>4 DEF ClaimInv, Claims, Peers
  <2>3. CASE master'.bits \in {master.bits, {}}
    BY <2>1, <2>3 DEF ClaimInv, Claims, Peers
  <2> QED
    BY <1>2, <2>2, <2>3 DEF ReaderStep, StartPass, TestLength, TestPointer, Calloc, SetMasterLen,
                            Compare, OrPointer, Count, NoMaster
<1>3. CASE UNCHANGED vars
  BY <1>3 DEF vars, wvars, rvars, hist, ClaimInv, Claimed, Claims, Marking, Current, Peers
<1> QED
  BY <1>1, <1>2, <1>3 DEF Next

\* The sum counts only pieces that a listed peer has claimed (client.c:220-240),
\* although every thread writes to the bitfields without a lock and the reader
\* loads each byte through the pointer of that moment.
THEOREM NoPhantoms == Spec => []NoPhantomPieces
<1>1. Init => ClaimInv
  BY DEF Init, ClaimInv, Claimed, Claims, NoMsg, NoMaster, Marking, Current
<1>2. ClaimInv => NoPhantomPieces
  BY DEF ClaimInv, Claims, NoPhantomPieces
<1> QED
  BY <1>1, <1>2, ClaimNext, TypedInit, TypedNext, PTL DEF Spec

-----------------------------------------------------------------------------
(* The sum.  What was stored for a peer when the pass began stays in its     *)
(* block as long as no other bitfield comes, and the pass takes over the     *)
(* bytes of that block one by one.                                           *)

\* A thread that is alone with its peer stores the byte it has read.
OwnByte(p) ==
    updates[p] <= 1 /\ OneThread(p) =>
        \A w \in Writers : target[w] = p /\ wpc[w] = "store" =>
            msg[w].bits = blocks[p][1].bits \cap Byte(ByteOf(have[w]))

OwnInv == \A p \in Peers : OwnByte(p)

LEMMA OnlyThread ==
    ASSUME NEW p, OneThread(p), NEW v \in Writers, NEW w \in Writers, target[v] = p, target[w] = p
    PROVE  v = w
<1> DEFINE S == {u \in Writers : target[u] = p}
<1>1. IsFiniteSet(S)
  BY AvailabilityAssumption, FS_Subset
<1>2. Cardinality(S) = 1
  BY DEF OneThread
<1> HIDE DEF S
<1>3. PICK x : S = {x}
  BY <1>1, <1>2, FS_Singleton
<1> QED
  BY <1>3 DEF S

LEMMA OwnNext ==
    ASSUME Typed, OnceInv, OwnInv, [Next]_vars
    PROVE  OwnInv'
<1>0. \A p : OneThread(p)' <=> OneThread(p)
  BY DEF Next, vars, OneThread
<1>1. ASSUME NEW w \in Writers, WriterStep(w), UNCHANGED target PROVE OwnInv'
  <2>1. Frame(w) /\ target[w] \in Peers /\ TypeOK
    BY <1>1, WriterFrame DEF Typed, TypeOK
  <2>2. ASSUME NEW p \in Peers, updates'[p] <= 1, OneThread(p),
               NEW v \in Writers, target[v] = p, wpc'[v] = "store"
        PROVE  msg'[v].bits = blocks'[p][1].bits \cap Byte(ByteOf(have'[v]))
    <3>1. updates[p] <= 1
      BY <1>1, <2>2, Steady
    <3>2. CASE v # w
      <4>1. target[w] # p
        BY <2>2, <3>2, OnlyThread
      <4>2. /\ blocks'[p] = blocks[p] /\ msg'[v] = msg[v] /\ have'[v] = have[v]
            /\ wpc'[v] = wpc[v]
        BY <2>1, <3>2, <4>1 DEF Frame
      <4> QED
        BY <2>2, <3>1, <4>2 DEF OwnInv, OwnByte
    <3>3. CASE v = w
      <4>1. CASE HaveLoad(w)
        <5>1. wpc[w] = "load" /\ UNCHANGED <<blocks, have>>
          BY <4>1 DEF HaveLoad
        <5>2. FirstUse(p, w) /\ Once(p)
          BY <2>2, <3>1, <3>3 DEF OnceInv, Once
        <5>3. have[w] \in Nat /\ ByteOf(have[w]) \in Nat /\ length[p] \in Nat
          BY <2>1, ByteOfNat DEF TypeOK
        <5>4. length[p] > 0
          BY <5>1, <5>2, <5>3 DEF FirstUse, Marking
        <5>5. ptr[w] = 1
          BY <2>2, <3>1, <3>3, <5>1, <5>2, <5>4 DEF Once, Ready, Typed, WritersAllocated
        <5>6. msg' = [msg EXCEPT ![w].bits = blocks[p][1].bits \cap Byte(ByteOf(have[w]))]
          BY <2>2, <3>3, <4>1, <5>5 DEF HaveLoad
        <5> QED
          BY <2>1, <3>3, <5>1, <5>6 DEF TypeOK
      <4>2. ASSUME ~HaveLoad(w) PROVE UNCHANGED <<blocks, msg, have>> /\ wpc[w] = "store"
        BY <1>1, <2>1, <2>2, <3>3, <4>2
           DEF WriterStep, FreeOld, Malloc, LoadPointer, Memcpy, SetLength, HaveDrop, HaveTest,
               HaveStore, wvars, TypeOK
      <4>3. CASE ~HaveLoad(w)
        BY <2>2, <3>1, <3>3, <4>2, <4>3 DEF OwnInv, OwnByte
      <4> QED
        BY <4>1, <4>3
    <3> QED
      BY <3>2, <3>3
  <2> QED
    BY <1>0, <1>1, <2>2 DEF OwnInv, OwnByte, Peers
<1>2. CASE ReaderStep /\ UNCHANGED target
  <2>1. UNCHANGED <<blocks, wpc, msg, have, updates, target>>
    BY <1>2, ReaderFrame
  <2> QED
    BY <1>0, <2>1 DEF OwnInv, OwnByte, Peers
<1>3. CASE UNCHANGED vars
  BY <1>0, <1>3 DEF vars, wvars, hist, OwnInv, OwnByte, Peers
<1> QED
  BY <1>1, <1>2, <1>3 DEF Next

\* What is certain to stay in the bitfield stays there.
LEMMA StoredGrows ==
    ASSUME Typed, OnceInv, OwnInv, NEW w \in Writers, WriterStep(w), UNCHANGED target,
           NEW p \in Peers, updates'[p] <= 1
    PROVE  Stored(p) \subseteq Stored(p)'
<1>0. OneThread(p)' <=> OneThread(p)
  BY DEF OneThread
<1>1. /\ Frame(w) /\ Once(p) /\ Once(p)' /\ updates[p] <= 1 /\ length[p] \in Nat
      /\ length[p] > 0 => length'[p] = length[p]
      /\ updates[p] \in Nat /\ TypeOK /\ target[w] \in Peers
  BY WriterFrame, OnceWriter, Steady DEF OnceInv, Peers, Typed, TypeOK
<1> SUFFICES ASSUME length[p] > 0 PROVE Stored(p) \subseteq Stored(p)'
  BY <1>1 DEF Stored
<1>2. Ready(p) /\ Ready(p)' /\ updates[p] = 1 /\ length'[p] = length[p] /\ length'[p] # 0
  BY <1>1 DEF Once
<1>3. ASSUME NEW b \in Bitfields, FreeOld(w, b), target[w] = p PROVE FALSE
  BY <1>1, <1>2, <1>3 DEF FreeOld, TypeOK
<1>4. CASE ~OneThread(p)
  <2>1. first'[p] = first[p]
    <3>1. CASE p = target[w]
      BY <1>3, <3>1 DEF WriterStep, Malloc, LoadPointer, Memcpy, SetLength, HaveDrop, HaveTest,
                        HaveLoad, HaveStore, hist
    <3>2. CASE p # target[w]
      BY <1>1, <3>2 DEF Frame
    <3> QED
      BY <3>1, <3>2
  <2> QED
    BY <1>0, <1>1, <1>2, <1>4, <2>1 DEF Stored
<1>5. CASE OneThread(p)
  <2>1. Current(p) = 1 /\ Current(p)' = 1
    BY <1>2 DEF Ready
  <2>2. ~Busy(w) \/ p # target[w]
    BY <1>1 DEF Once, FirstUse
  <2>3. blocks[p][1].bits \subseteq blocks'[p][1].bits
    <3>1. CASE blocks'[p] = blocks[p]
      BY <3>1
    <3>2. CASE p = target[w] /\ HaveStore(w)
      <4> DEFINE n == ByteOf(have[w])
      <4>1. wpc[w] = "store" /\ ptr[w] = 1 /\ have[w] \in Nat /\ n \in Nat
        BY <1>1, <2>1, <3>2, ByteOfNat DEF HaveStore, Typed, WritersAllocated, TypeOK
      <4>2. msg[w].bits = blocks[p][1].bits \cap Byte(n)
        BY <1>1, <1>5, <3>2, <4>1 DEF OwnInv, OwnByte
      <4>3. MarkedBy(w, 1)
        BY <2>1, <3>2, <4>1, HaveStoreFacts
      <4>4. FirstUse(p, w)
        BY <1>1, <3>2 DEF Once
      <4>5. n < length[p]
        BY <4>1, <4>4 DEF FirstUse, Marking
      <4>6. Valid(blocks[p][1], n + 1)
        BY <1>1, <1>2, <4>1, <4>5 DEF Valid, Ready
      <4>7. PICK c \in Block :
                /\ Put(p, 1, c)
                /\ c.bits = (blocks[p][1].bits \ Byte(n)) \cup msg[w].bits \cup {have[w]}
        BY <3>2, <4>3, <4>6 DEF MarkedBy
      <4>8. blocks'[p][1] = c
        BY <4>7 DEF Put
      <4> QED
        BY <4>2, <4>7, <4>8
    <3>3. p = target[w] => blocks' = blocks \/ HaveStore(w)
      BY <1>3, <2>2 DEF WriterStep, Malloc, LoadPointer, Memcpy, SetLength, HaveDrop, HaveTest,
                        HaveLoad, Busy
    <3>4. p # target[w] => blocks'[p] = blocks[p]
      BY <1>1 DEF Frame
    <3> QED
      BY <3>1, <3>2, <3>3, <3>4
  <2>4. Stored(p) = blocks[p][1].bits
    BY <1>5, <2>1 DEF Stored
  <2>5. Stored(p)' = blocks'[p][1].bits
    BY <1>0, <1>2, <1>5, <2>1 DEF Stored
  <2> QED
    BY <2>3, <2>4, <2>5
<1> QED
  BY <1>4, <1>5

\* It is in the bytes of the block.
LEMMA StoredInBlock ==
    ASSUME Typed, OnceInv, NEW p \in Peers, updates[p] <= 1
    PROVE  /\ length[p] = 0 => Stored(p) = {}
           /\ length[p] > 0 => /\ Stored(p) \subseteq blocks[p][1].bits
                               /\ \A i \in Stored(p) : ByteOf(i) < length[p]
<1>1. Once(p) /\ length[p] \in Nat
  BY DEF OnceInv, Typed, TypeOK
<1>2. CASE length[p] > 0
  <2>1. Ready(p)
    BY <1>1, <1>2 DEF Once
  <2>2. Stored(p) \subseteq blocks[p][1].bits
    BY <1>1, <1>2, <2>1 DEF Stored, Ready
  <2> QED
    BY <1>1, <1>2, <2>1, <2>2 DEF Ready
<1>3. CASE length[p] = 0
  BY <1>3 DEF Stored
<1> QED
  BY <1>1, <1>2, <1>3

\* The pass has left peer p behind.  As long as no master is measured, it has
\* found no bitfield.
Passed(p) ==
    IF master.peer = 0 \/ rpc = "masterlen" THEN before[p] = {}
    ELSE length[p] = masterLen => before[p] \subseteq master.bits

\* How far it has come with peer p.
Taken(p) ==
    /\ before[p] \subseteq Stored(p)
    /\ p < pos => Passed(p)
    /\ p = pos /\ rpc \in {"array", "or"} =>
           \A i \in before[p] : ByteOf(i) < byte => i \in master.bits

PassInv ==
    /\ rpc = "calloc" => master.peer = 0
    /\ rpc # "out" => \A p \in Peers : updates[p] <= 1 => Taken(p)

LEMMA PassWriter ==
    ASSUME Typed, OnceInv, OwnInv, PassInv, NEW w \in Writers, WriterStep(w), UNCHANGED target
    PROVE  PassInv'
<1>1. rvars' = rvars
  BY WriterFrame DEF Frame
<1>2. ASSUME NEW p \in Peers, rpc # "out", updates'[p] <= 1 PROVE Taken(p)'
  <2>1. /\ updates[p] <= 1 /\ (length[p] > 0 => length'[p] = length[p]) /\ length[p] \in Nat
        /\ Taken(p) /\ Stored(p) \subseteq Stored(p)'
    BY <1>2, Steady, StoredGrows DEF PassInv, Typed, TypeOK
  <2>2. length[p] = 0 => before[p] = {}
    BY <2>1, StoredInBlock DEF Taken
  <2>3. Passed(p) => Passed(p)'
    BY <1>1, <2>1, <2>2 DEF Passed, rvars
  <2> QED
    BY <1>1, <2>1, <2>3 DEF Taken, rvars
<1> QED
  BY <1>1, <1>2 DEF PassInv, rvars, Peers

\* The loop goes on, and owes the peer it leaves what was stored for it.
LEMMA PassOn ==
    ASSUME Typed, PassInv, AtPeer, rpc # "masterlen", NextPeer, NEW p \in Peers, updates[p] <= 1,
           UNCHANGED <<blocks, length, first, target, masterLen, before>>,
           master'.peer = master.peer, master.bits \subseteq master'.bits,
           p = pos => IF master.peer = 0 THEN before[p] = {}
                      ELSE length[p] = masterLen => before[p] \subseteq master'.bits
    PROVE  Taken(p)' /\ rpc' # "calloc"
<1>1. pos \in Peers /\ pos' = pos + 1 /\ rpc' \in {"length", "count"} /\ byte' = 0 /\ pos \in Int
  BY NextPeerFacts DEF Typed, ReaderAllocated, Peers
<1>2. Taken(p) /\ p \in Int
  BY DEF PassInv, AtPeer, Peers
<1>3. Stored(p)' = Stored(p)
  BY DEF Stored, OneThread, Current
<1>4. ASSUME p < pos' PROVE Passed(p)'
  <2>1. CASE p = pos
    BY <1>1, <2>1 DEF Passed
  <2>2. CASE p # pos
    <3>1. Passed(p)
      BY <1>1, <1>2, <1>4, <2>2 DEF Taken
    <3> QED
      BY <1>1, <3>1 DEF Passed
  <2> QED
    BY <2>1, <2>2
<1> QED
  BY <1>1, <1>2, <1>3, <1>4 DEF Taken

LEMMA PassReader ==
    ASSUME Typed, OnceInv, Measured, PassInv, ReaderStep, UNCHANGED target
    PROVE  PassInv'
<1>0. UNCHANGED <<blocks, length, updates, first, target>>
  BY ReaderFrame
<1>1. \A p \in Peers : Stored(p)' = Stored(p)
  BY <1>0 DEF Stored, OneThread, Current
<1>2. TypeOK /\ (AtPeer => pos \in Peers)
  BY DEF Typed, ReaderAllocated
<1>a. ASSUME rpc' # "calloc", \A p \in Peers : updates[p] <= 1 => Taken(p)' PROVE PassInv'
  BY <1>0, <1>a DEF PassInv, Peers
<1>b. ASSUME rpc # "out", NEW p \in Peers, updates[p] <= 1
      PROVE  /\ Taken(p) /\ length[p] \in Nat
             /\ length[p] = 0 => before[p] = {}
             /\ length[p] > 0 => /\ before[p] \subseteq blocks[p][1].bits
                                 /\ \A i \in before[p] : ByteOf(i) < length[p]
  BY <1>2, <1>b, StoredInBlock DEF PassInv, Taken, TypeOK
\* A step that stays with the peer, and makes no master.
<1>c. ASSUME NEW p \in Peers, Taken(p), UNCHANGED <<pos, before, byte, master, masterLen>>,
             rpc # "masterlen", rpc' # "masterlen",
             rpc' \in {"array", "or"} => \/ rpc \in {"array", "or"}
                                         \/ p = pos => \A i \in before[p] : ~(ByteOf(i) < byte)
      PROVE  Taken(p)'
  BY <1>0, <1>1, <1>c DEF Taken, Passed
<1>3. CASE StartPass
  <2>1. rpc' = "length" /\ pos' = 1 /\ before' = [p \in Peers |-> Stored(p)]
    BY <1>3 DEF StartPass
  <2>2. \A p \in Peers : ~(p < 1)
    BY DEF Peers
  <2>3. \A p \in Peers : Taken(p)'
    BY <1>1, <2>1, <2>2 DEF Taken
  <2> QED
    BY <1>a, <2>1, <2>3
<1>4. CASE TestLength
  <2>1. rpc = "length" /\ UNCHANGED <<master, masterLen, before>> /\ AtPeer
    BY <1>4 DEF TestLength, Reading, AtPeer
  <2>2. CASE TooShort(pos)
    <3>1. NextPeer
      BY <1>4, <2>2 DEF TestLength
    <3>2. length[pos] = 0
      BY <1>2, <2>1, <2>2 DEF TooShort, TypeOK
    <3>3. ASSUME NEW p \in Peers, updates[p] <= 1 PROVE Taken(p)' /\ rpc' # "calloc"
      <4>1. p = pos => before[p] = {}
        BY <1>b, <2>1, <3>2, <3>3
      <4> QED
        BY <1>0, <2>1, <3>1, <3>3, <4>1, PassOn
    <3> QED
      BY <1>2, <1>a, <2>1, <3>1, <3>3, NextPeerFacts
  <2>3. CASE ~TooShort(pos)
    <3>1. rpc' = "pointer" /\ UNCHANGED <<pos, byte>>
      BY <1>4, <2>3 DEF TestLength
    <3> QED
      BY <1>a, <1>b, <1>c, <2>1, <3>1
  <2> QED
    BY <2>2, <2>3
<1>5. CASE TestPointer
  <2>1. rpc = "pointer" /\ UNCHANGED <<master, masterLen, before>> /\ AtPeer
    BY <1>5 DEF TestPointer, Reading, AtPeer
  <2>2. CASE Current(pos) = 0
    <3>1. NextPeer
      BY <1>5, <2>2 DEF TestPointer
    <3>2. ~(updates[pos] <= 1)
      <4>1. updates[pos] <= 1 => length[pos] > 0 /\ Ready(pos)
        BY <1>2, <2>1 DEF Measured, OnceInv, Once
      <4> QED
        BY <2>2, <4>1 DEF Ready
    <3>3. ASSUME NEW p \in Peers, updates[p] <= 1 PROVE Taken(p)' /\ rpc' # "calloc"
      <4>1. p # pos
        BY <1>2, <2>1, <3>2, <3>3 DEF TypeOK
      <4> QED
        BY <1>0, <2>1, <3>1, <3>3, <4>1, PassOn
    <3> QED
      BY <1>2, <1>a, <2>1, <3>1, <3>3, NextPeerFacts
  <2>3. CASE Current(pos) # 0
    <3>1. rpc' = (IF master = NoMaster THEN "calloc" ELSE "same") /\ UNCHANGED <<pos, byte>>
      BY <1>5, <2>3 DEF TestPointer
    <3>2. \A p \in Peers : updates[p] <= 1 => Taken(p)'
      BY <1>b, <1>c, <2>1, <3>1
    <3>3. rpc' = "calloc" => master'.peer = 0
      BY <2>1, <3>1 DEF NoMaster
    <3> QED
      BY <1>0, <3>2, <3>3 DEF PassInv, Peers
  <2> QED
    BY <2>2, <2>3
<1>6. CASE Calloc
  <2>1. /\ rpc = "calloc" /\ rpc' = "masterlen" /\ UNCHANGED <<pos, byte, before>>
        /\ master.peer = 0
    BY <1>6 DEF Calloc, Reading, PassInv
  <2> QED
    BY <1>1, <1>a, <1>b, <2>1 DEF Taken, Passed
<1>7. CASE SetMasterLen
  <2>1. rpc = "masterlen" /\ rpc' = "same" /\ UNCHANGED <<pos, byte, before, master>>
    BY <1>7 DEF SetMasterLen, Reading
  <2>2. master.peer # 0
    BY <2>1 DEF Typed, MasterAllocated
  <2> QED
    BY <1>1, <1>a, <1>b, <2>1, <2>2 DEF Taken, Passed
<1>8. CASE Compare
  <2>1. rpc = "same" /\ UNCHANGED <<master, masterLen, before>> /\ AtPeer /\ byte = 0
        /\ masterLen \in Nat /\ master.peer # 0
    BY <1>8, <1>2 DEF Compare, Reading, AtPeer, Measured, TypeOK, Typed, MasterAllocated
  <2>2. CASE length[pos] = masterLen /\ masterLen > 0
    <3>1. rpc' = "array" /\ UNCHANGED <<pos, byte>>
      BY <1>8, <2>2 DEF Compare
    <3>2. ASSUME NEW p \in Peers PROVE \A i \in before[p] : ~(ByteOf(i) < byte)
      <4>1. before[p] \subseteq Nat
        BY <1>2 DEF TypeOK
      <4> QED
        BY <2>1, <4>1, ByteOfNat
    <3> QED
      BY <1>a, <1>b, <1>c, <2>1, <3>1, <3>2
  <2>3. CASE ~(length[pos] = masterLen /\ masterLen > 0)
    <3>1. NextPeer
      BY <1>8, <2>3 DEF Compare
    <3>2. ASSUME NEW p \in Peers, updates[p] <= 1 PROVE Taken(p)' /\ rpc' # "calloc"
      <4>1. p = pos => length[p] # masterLen
        BY <2>1, <2>3, <3>2 DEF Measured
      <4> QED
        BY <1>0, <2>1, <3>1, <3>2, <4>1, PassOn
    <3> QED
      BY <1>2, <1>a, <2>1, <3>1, <3>2, NextPeerFacts
  <2> QED
    BY <2>2, <2>3
<1>9. CASE OrPointer
  <2>1. rpc = "array" /\ rpc' = "or" /\ UNCHANGED <<pos, byte, before, master, masterLen>>
    BY <1>9 DEF OrPointer, Reading
  <2> QED
    BY <1>a, <1>b, <1>c, <2>1
<1>10. CASE OrByte
  <2>1. /\ rpc = "or" /\ UNCHANGED <<masterLen, before>> /\ AtPeer /\ master.peer # 0
        /\ byte \in Nat /\ masterLen \in Nat /\ pos \in Peers
    BY <1>10, <1>2 DEF OrByte, Reading, AtPeer, TypeOK, Typed, MasterAllocated
  <2>2. /\ master'.peer = master.peer
        /\ master'.bits = master.bits \cup (blocks[pos][rptr].bits \cap Byte(byte))
    BY <1>2, <1>10 DEF OrByte, Ored, TypeOK
  <2>3. ASSUME updates[pos] <= 1, NEW i \in before[pos], ByteOf(i) < byte + 1
        PROVE  i \in master'.bits
    <3>1. length[pos] > 0 /\ Ready(pos)
      BY <2>1, <2>3 DEF Measured, OnceInv, Once
    <3>2. rptr = 1
      BY <2>1, <3>1 DEF Ready, Typed, ReaderAllocated
    <3>3. i \in blocks[pos][1].bits /\ Taken(pos)
      BY <1>b, <2>1, <2>3, <3>1
    <3>4. i \in Nat /\ ByteOf(i) \in Nat
      BY <1>2, <2>1, <2>3, ByteOfNat DEF TypeOK
    <3>5. CASE ByteOf(i) = byte
      BY <2>2, <3>2, <3>3, <3>4, <3>5 DEF Byte
    <3>6. CASE ByteOf(i) < byte
      BY <2>1, <2>2, <3>3, <3>6 DEF Taken
    <3> QED
      BY <2>1, <2>3, <3>4, <3>5, <3>6
  <2>4. CASE byte + 1 < masterLen
    <3>1. byte' = byte + 1 /\ rpc' = "array" /\ UNCHANGED pos
      BY <1>10, <2>4 DEF OrByte
    <3>2. ASSUME NEW p \in Peers, updates[p] <= 1 PROVE Taken(p)'
      <4>1. Taken(p)
        BY <1>b, <2>1, <3>2
      <4>2. Passed(p) => Passed(p)'
        BY <1>0, <2>1, <2>2, <3>1 DEF Passed
      <4>3. p = pos => \A i \in before[p] : ByteOf(i) < byte' => i \in master'.bits
        BY <2>3, <3>1, <3>2
      <4> QED
        BY <1>1, <2>1, <3>1, <4>1, <4>2, <4>3 DEF Taken
    <3> QED
      BY <1>a, <3>1, <3>2
  <2>5. CASE ~(byte + 1 < masterLen)
    <3>1. NextPeer
      BY <1>10, <2>5 DEF OrByte
    <3>2. ASSUME NEW p \in Peers, updates[p] <= 1 PROVE Taken(p)' /\ rpc' # "calloc"
      <4>1. ASSUME p = pos PROVE before[p] \subseteq master'.bits
        <5>1. length[p] = masterLen /\ length[p] > 0 /\ masterLen = byte + 1
          BY <2>1, <2>5, <3>2, <4>1 DEF Measured
        <5>2. \A i \in before[p] : ByteOf(i) < byte + 1
          BY <1>b, <2>1, <3>2, <5>1
        <5> QED
          BY <2>3, <3>2, <4>1, <5>2
      <4>2. master.bits \subseteq master'.bits
        BY <2>2
      <4> QED
        BY <1>0, <2>1, <2>2, <3>1, <3>2, <4>1, <4>2, PassOn
    <3> QED
      BY <1>2, <1>a, <2>1, <3>1, <3>2, NextPeerFacts
  <2> QED
    BY <2>4, <2>5
<1>11. CASE Count
  BY <1>11 DEF Count, PassInv
<1> QED
  BY <1>3, <1>4, <1>5, <1>6, <1>7, <1>8, <1>9, <1>10, <1>11 DEF ReaderStep

SumInv == SafeInv /\ OwnInv /\ PassInv

LEMMA SumNext == Typed /\ SumInv /\ [Next]_vars => SumInv'
<1> SUFFICES ASSUME Typed, SafeInv, OwnInv, PassInv, [Next]_vars PROVE SumInv'
  BY DEF SumInv
<1>0. OnceInv /\ Measured
  BY DEF SafeInv
<1>1. SafeInv' /\ OwnInv'
  BY <1>0, SafeNext, OwnNext
<1>2. ASSUME NEW w \in Writers, WriterStep(w), UNCHANGED target PROVE PassInv'
  BY <1>0, <1>2, PassWriter
<1>3. ASSUME ReaderStep, UNCHANGED target PROVE PassInv'
  BY <1>0, <1>3, PassReader
<1>4. ASSUME UNCHANGED vars PROVE PassInv'
  BY <1>4 DEF vars, rvars, hist, PassInv, Taken, Passed, Stored, OneThread, Current, Peers
<1> QED
  BY <1>1, <1>2, <1>3, <1>4 DEF SumInv, Next

\* A pass that any number of threads disturb counts, of every peer with one
\* bitfield as long as the first one found, what was stored when it began: the
\* bitfield and, unless two threads took the peer, every HAVE that was set
\* (client.c:220-237, peer.c:25).
THEOREM SumsStored == Spec => []CountsStored
<1>1. Init => SumInv
  BY SafeInit DEF Init, SumInv, OwnInv, OwnByte, PassInv
<1>2. Typed /\ SumInv => CountsStored
  <2> SUFFICES ASSUME Typed, SumInv, rpc = "count", NEW p \in Peers, length[p] = masterLen,
                      updates[p] <= 1
               PROVE  before[p] \subseteq master.bits
    BY DEF CountsStored, Counted
  <2>1. Taken(p) /\ p < pos
    BY AvailabilityAssumption DEF SumInv, PassInv, Typed, ReaderAllocated, Peers
  <2> QED
    BY <2>1 DEF Taken, Passed
<1> QED
  BY <1>1, <1>2, SumNext, TypedInit, TypedNext, PTL DEF Spec
==============================================================================
