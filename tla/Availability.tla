----------------------------- MODULE Availability -----------------------------
(*****************************************************************************)
(* The bitfields of the listed peers.  The peer thread that talks to a peer  *)
(* replaces its bitfield (peer_update_bitfield: free, malloc, memcpy, then   *)
(* the length) and sets bits in it (peer_update_bitfield_index), without any *)
(* lock; calculate_total_availability, in some other peer thread, reads the  *)
(* lengths, the pointers and the bytes under the list's mutex, which the     *)
(* writers do not take.  Every access to memory that threads share is a step *)
(* of its own.  The mutex admits one reader at a time, so there is one.      *)
(*****************************************************************************)
EXTENDS Integers, FiniteSets, Sequences

CONSTANTS
    NPeers,     \* peers on the list, in order 1..NPeers
    Writers,    \* peer threads inside the message loop
    Bitfields,  \* the bitfields that peers send: size in bytes, and one bits
    ByteBits,   \* bits in a byte: 8 in the code
    MaxMessages \* bound: BITFIELD and HAVE messages that are taken

\* The byte that piece i is in, and the pieces in byte n.
ByteOf(i) == i \div ByteBits

Byte(n) == {i \in Nat : ByteOf(i) = n}

ASSUME AvailabilityAssumption ==
    /\ NPeers \in Nat \ {0}
    /\ IsFiniteSet(Writers)
    /\ Bitfields \subseteq [size : Nat, bits : SUBSET Nat]
    /\ \A b \in Bitfields : \A i \in b.bits : ByteOf(i) < b.size
    /\ ByteBits \in Nat \ {0}
    /\ MaxMessages \in Nat

VARIABLES
    blocks,     \* the blocks that peer->bitfield has pointed to: it points to
                \* the last of them, and is NULL as long as there is none
    length,     \* peer->bitfield_length
    target,     \* the peer a writer talks to; two may share one, as in Swarm
    wpc,        \* where a writer is in peer_update_bitfield or _index
    msg,        \* the bitfield it is storing; for a HAVE, the byte it has read
    have,       \* the index of that HAVE
    ptr,        \* the value of peer->bitfield that it has loaded: a block
    left,       \* messages that may still come
    rpc,        \* where the reader is in its pass over the list
    pos,        \* the peer it looks at
    byte,       \* the index i of its inner loop
    rptr,       \* the value of p->bitfield that it has loaded
    master,     \* the block of master_bitfield; of peer 0 while it is NULL
    masterLen,  \* master_len
    \* History, for the properties.
    updates,    \* BITFIELD messages taken so far, by peer
    first,      \* the bits of the first of them
    announced,  \* pieces a peer has claimed in a message that was not dropped
    before,     \* bits stored for a peer before the pass began, see Stored
    unsafe      \* peers whose freed, unfilled or too short block was used, or
                \* after whom a master_bitfield was made that is too short

wvars == <<wpc, msg, have, ptr, left>>
rvars == <<rpc, pos, byte, rptr, master, masterLen, before>>
hist  == <<updates, first, announced>>
vars  == <<blocks, length, target, wvars, rvars, hist, unsafe>>

Peers == 1..NPeers

\* The pieces that the bits of n bytes stand for.
Pieces(n) == 0..(n * ByteBits - 1)

NoMsg == [size |-> 0, bits |-> {}]

NoMaster == [peer |-> 0, size |-> 0, bits |-> {}]

\* A use of the first n bytes of the block is an access the program may make.
Valid(b, n) == b.live /\ n <= b.size

Current(p) == Len(blocks[p])

-----------------------------------------------------------------------------
(* peer_update_bitfield and the message that calls it.                       *)

\* A message comes only while the bound has one left.
Take == left > 0 /\ left' = left - 1

FreeOld(w, b) ==
    LET p == target[w] IN
    /\ wpc[w] = "recv"
    /\ Take
    /\ wpc' = [wpc EXCEPT ![w] = "malloc"]
    /\ msg' = [msg EXCEPT ![w] = b]
    /\ updates' = [updates EXCEPT ![p] = @ + 1]
    /\ first' = IF updates[p] = 0 THEN [first EXCEPT ![p] = b.bits] ELSE first
    /\ announced' = [announced EXCEPT ![p] = @ \cup b.bits]
    /\ IF blocks[p] = <<>>
       THEN UNCHANGED <<blocks, unsafe>>
       ELSE /\ blocks' = [blocks EXCEPT ![p][Current(p)].live = FALSE]
            /\ unsafe' = IF blocks[p][Current(p)].live THEN unsafe ELSE unsafe \cup {p}
    /\ UNCHANGED <<length, have, ptr, rvars>>

Malloc(w) ==
    /\ wpc[w] = "malloc"
    /\ wpc' = [wpc EXCEPT ![w] = "dest"]
    /\ blocks' = [blocks EXCEPT ![target[w]] =
           Append(@, [live |-> TRUE, size |-> msg[w].size, filled |-> FALSE, bits |-> {}])]
    /\ UNCHANGED <<length, msg, have, ptr, left, rvars, hist, unsafe>>

\* peer->bitfield is loaded, for memcpy or for the |= of a HAVE.
LoadPointer(w, from, to) ==
    /\ wpc[w] = from
    /\ wpc' = [wpc EXCEPT ![w] = to]
    /\ ptr' = [ptr EXCEPT ![w] = Current(target[w])]
    /\ UNCHANGED <<blocks, length, msg, have, left, rvars, hist, unsafe>>

Memcpy(w) ==
    LET p == target[w]
        k == ptr[w] IN
    /\ wpc[w] = "copy"
    /\ wpc' = [wpc EXCEPT ![w] = "length"]
    /\ ptr' = [ptr EXCEPT ![w] = 0]
    /\ IF Valid(blocks[p][k], msg[w].size)
       THEN /\ blocks' = [blocks EXCEPT ![p][k] = [@ EXCEPT !.filled = TRUE, !.bits = msg[w].bits]]
            /\ UNCHANGED unsafe
       ELSE unsafe' = unsafe \cup {p} /\ UNCHANGED blocks
    /\ UNCHANGED <<length, msg, have, left, rvars, hist>>

SetLength(w) ==
    /\ wpc[w] = "length"
    /\ wpc' = [wpc EXCEPT ![w] = "recv"]
    /\ length' = [length EXCEPT ![target[w]] = msg[w].size]
    /\ msg' = [msg EXCEPT ![w] = NoMsg]
    /\ UNCHANGED <<blocks, have, ptr, left, rvars, hist, unsafe>>

-----------------------------------------------------------------------------
(* HAVE, through peer_update_bitfield_index.  An index beyond the length     *)
(* that is set, which includes every index while no bitfield has come, is    *)
(* dropped.  The |= of line 25 loads the pointer, loads the byte and stores  *)
(* it: clang stores through the pointer it has loaded, gcc, not optimising,  *)
(* loads it once more.                                                       *)

HaveDrop(w, idx) ==
    /\ wpc[w] = "recv"
    /\ ByteOf(idx) >= length[target[w]]
    /\ UNCHANGED <<blocks, length, wvars, rvars, hist, unsafe>>

HaveTest(w, idx) ==
    LET p == target[w] IN
    /\ wpc[w] = "recv"
    /\ ByteOf(idx) < length[p]
    /\ Take
    /\ wpc' = [wpc EXCEPT ![w] = "array"]
    /\ have' = [have EXCEPT ![w] = idx]
    /\ announced' = [announced EXCEPT ![p] = @ \cup {idx}]
    /\ UNCHANGED <<blocks, length, msg, ptr, rvars, updates, first, unsafe>>

HaveLoad(w) ==
    LET p == target[w]
        b == blocks[p][ptr[w]]
        n == ByteOf(have[w]) IN
    /\ wpc[w] = "load"
    /\ wpc' = [wpc EXCEPT ![w] = "store"]
    /\ msg' = [msg EXCEPT ![w].bits = b.bits \cap Byte(n)]
    /\ unsafe' = IF Valid(b, n + 1) /\ b.filled THEN unsafe ELSE unsafe \cup {p}
    /\ UNCHANGED <<blocks, length, have, ptr, left, rvars, hist>>

\* Mutant: the mask is one bit off.
MaskOff(idx) == {idx - 1}

Mask(idx) == {idx}

HaveStore(w) ==
    LET p == target[w]
        n == ByteOf(have[w]) IN
    /\ wpc[w] = "store"
    /\ wpc' = [wpc EXCEPT ![w] = "recv"]
    /\ \E k \in {ptr[w], Current(p)} :
           IF Valid(blocks[p][k], n + 1)
           THEN /\ blocks' = [blocks EXCEPT ![p][k].bits =
                                  (@ \ Byte(n)) \cup msg[w].bits \cup Mask(have[w])]
                /\ UNCHANGED unsafe
           ELSE unsafe' = unsafe \cup {p} /\ UNCHANGED blocks
    /\ msg' = [msg EXCEPT ![w] = NoMsg]
    /\ have' = [have EXCEPT ![w] = 0]
    /\ ptr' = [ptr EXCEPT ![w] = 0]
    /\ UNCHANGED <<length, left, rvars, hist>>

-----------------------------------------------------------------------------
(* calculate_total_availability: the length is read up to four times for one *)
(* peer, and the pointer once more for every byte.                           *)

Reading(from) == rpc = from /\ UNCHANGED <<blocks, length, wvars, hist>>

\* The loop goes on to the next peer, or has none left.
NextPeer ==
    /\ pos' = pos + 1
    /\ rpc' = IF pos = NPeers THEN "count" ELSE "length"
    /\ byte' = 0
    /\ rptr' = 0

\* The peer has one thread.
OneThread(p) == Cardinality({w \in Writers : target[w] = p}) = 1

\* What is certain to stay in the bitfield of a peer that sends no other: all of
\* its bits, or, with two threads whose stores may undo each other's HAVEs,
\* those that the bitfield came with.
Stored(p) ==
    IF length[p] = 0 THEN {} ELSE IF OneThread(p) THEN blocks[p][Current(p)].bits ELSE first[p]

StartPass ==
    /\ Reading("out")
    /\ rpc' = "length"
    /\ pos' = 1
    /\ before' = [p \in Peers |-> Stored(p)]
    /\ UNCHANGED <<byte, rptr, master, masterLen, unsafe>>

\* Mutant: a peer without a bitfield is not passed over.
NeverShort(p) == FALSE

TooShort(p) == length[p] < 1

TestLength ==
    /\ Reading("length")
    /\ IF TooShort(pos) THEN NextPeer ELSE rpc' = "pointer" /\ UNCHANGED <<pos, byte, rptr>>
    /\ UNCHANGED <<master, masterLen, before, unsafe>>

TestPointer ==
    /\ Reading("pointer")
    /\ IF Current(pos) = 0 THEN NextPeer
       ELSE /\ rpc' = IF master = NoMaster THEN "calloc" ELSE "same"
            /\ UNCHANGED <<pos, byte, rptr>>
    /\ UNCHANGED <<master, masterLen, before, unsafe>>

Calloc ==
    /\ Reading("calloc")
    /\ rpc' = "masterlen"
    /\ master' = [peer |-> pos, size |-> length[pos], bits |-> {}]
    /\ UNCHANGED <<pos, byte, rptr, masterLen, before, unsafe>>

SetMasterLen ==
    /\ Reading("masterlen")
    /\ rpc' = "same"
    /\ masterLen' = length[pos]
    /\ UNCHANGED <<pos, byte, rptr, master, before, unsafe>>

\* A peer whose bitfield is not as long as the first one found is passed over.
Compare ==
    /\ Reading("same")
    /\ IF length[pos] = masterLen /\ masterLen > 0
       THEN rpc' = "array" /\ UNCHANGED <<pos, byte, rptr>>
       ELSE NextPeer
    /\ UNCHANGED <<master, masterLen, before, unsafe>>

OrPointer ==
    /\ Reading("array")
    /\ rpc' = "or"
    /\ rptr' = Current(pos)
    /\ UNCHANGED <<pos, byte, master, masterLen, before, unsafe>>

\* Mutant: the byte is stored, and what was there is lost.
Assigned(old, new) == new

Ored(old, new) == old \cup new

OrByte ==
    LET b == blocks[pos][rptr] IN
    /\ Reading("or")
    /\ master' = [master EXCEPT !.bits = Ored(@, b.bits \cap Byte(byte))]
    /\ unsafe' = unsafe \cup (IF Valid(b, byte + 1) /\ b.filled THEN {} ELSE {pos})
                        \cup (IF byte < master.size THEN {} ELSE {master.peer})
    /\ IF byte + 1 < masterLen
       THEN byte' = byte + 1 /\ rpc' = "array" /\ rptr' = 0 /\ UNCHANGED pos
       ELSE NextPeer
    /\ UNCHANGED <<masterLen, before>>

\* The one bits of master_len bytes of the master are counted, and the numbers
\* printed.
Count ==
    /\ Reading("count")
    /\ rpc' = "out" /\ pos' = 0
    /\ master' = NoMaster /\ masterLen' = 0
    /\ before' = [p \in Peers |-> {}]
    /\ unsafe' = IF masterLen <= master.size THEN unsafe ELSE unsafe \cup {master.peer}
    /\ UNCHANGED <<byte, rptr>>

-----------------------------------------------------------------------------

Init ==
    /\ blocks = [p \in Peers |-> <<>>]
    /\ length = [p \in Peers |-> 0]
    /\ target \in [Writers -> Peers]
    /\ wpc = [w \in Writers |-> "recv"]
    /\ msg = [w \in Writers |-> NoMsg]
    /\ have = [w \in Writers |-> 0]
    /\ ptr = [w \in Writers |-> 0]
    /\ left = MaxMessages
    /\ rpc = "out" /\ pos = 0 /\ byte = 0 /\ rptr = 0
    /\ master = NoMaster
    /\ masterLen = 0
    /\ updates = [p \in Peers |-> 0]
    /\ first = [p \in Peers |-> {}]
    /\ announced = [p \in Peers |-> {}]
    /\ before = [p \in Peers |-> {}]
    /\ unsafe = {}

AllPieces == UNION {Pieces(b.size) : b \in Bitfields}

WriterStep(w) ==
    \/ \E b \in Bitfields : FreeOld(w, b)
    \/ Malloc(w) \/ LoadPointer(w, "dest", "copy") \/ Memcpy(w) \/ SetLength(w)
    \/ \E idx \in AllPieces : HaveDrop(w, idx) \/ HaveTest(w, idx)
    \/ LoadPointer(w, "array", "load") \/ HaveLoad(w) \/ HaveStore(w)

ReaderStep ==
    \/ StartPass \/ TestLength \/ TestPointer \/ Calloc \/ SetMasterLen
    \/ Compare \/ OrPointer \/ OrByte \/ Count

\* After an access that the program may not make nothing is said.
Next ==
    /\ unsafe = {}
    /\ UNCHANGED target
    /\ ReaderStep \/ \E w \in Writers : WriterStep(w)

Spec == Init /\ [][Next]_vars

-----------------------------------------------------------------------------
(* Properties.                                                               *)

Block == [live : BOOLEAN, size : Nat, filled : BOOLEAN, bits : SUBSET Nat]

WriterPC == {"recv", "malloc", "dest", "copy", "length", "array", "load", "store"}

ReaderPC == {"out", "length", "pointer", "calloc", "masterlen", "same", "array", "or", "count"}

TypeOK ==
    /\ blocks \in [Peers -> Seq(Block)]
    /\ length \in [Peers -> Nat]
    /\ target \in [Writers -> Peers]
    /\ wpc \in [Writers -> WriterPC]
    /\ msg \in [Writers -> [size : Nat, bits : SUBSET Nat]]
    /\ have \in [Writers -> Nat]
    /\ ptr \in [Writers -> Nat]
    /\ left \in 0..MaxMessages
    /\ rpc \in ReaderPC
    /\ pos \in 0..(NPeers + 1) /\ byte \in Nat /\ rptr \in Nat
    /\ master \in [peer : 0..NPeers, size : Nat, bits : SUBSET Nat]
    /\ masterLen \in Nat
    /\ updates \in [Peers -> Nat]
    /\ first \in [Peers -> SUBSET Nat]
    /\ announced \in [Peers -> SUBSET Nat]
    /\ before \in [Peers -> SUBSET Nat]
    /\ unsafe \subseteq Peers

\* peer_update_bitfield publishes the length last (peer.c:13), and every reader
\* tests it first (client.c:224, peer.c:18): a peer whose bitfield has been sent
\* once is never read, no bit of it set, and no master made after its length, in
\* freed, unfilled or foreign memory, although client.c:224-234 reads length and
\* pointer again and again.  Only the peers whose bitfield is sent again are
\* exposed.
UnsafeOnlyWhenReplaced == \A p \in unsafe : updates[p] >= 2

\* The sum never counts a piece that no listed peer has claimed in a message
\* that was taken (client.c:234, peer.c:25), whichever bytes and pointers are
\* replaced under the reader, as long as no access goes astray.
NoPhantomPieces ==
    unsafe = {} => master.bits \subseteq UNION {announced[p] : p \in Peers}

\* The bits of p that were stored before the pass are in the sum.
Counted(p) == updates[p] <= 1 => before[p] \subseteq master.bits

\* However it is disturbed, a pass counts what was stored before it began for
\* the peers that have sent one bitfield, as long as the first one found
\* (client.c:227-236): all of the bitfield and, unless two threads took the
\* peer, every HAVE after it (peer.c:25).  It is less than the comment of
\* client.c:217 says, "OR all the bitfields together": line 232 leaves those of
\* another length out, and without that condition the property is false.
CountsStored ==
    rpc = "count" /\ unsafe = {} =>
        \A p \in Peers : length[p] = masterLen => Counted(p)
==============================================================================
