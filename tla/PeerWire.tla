------------------------------- MODULE PeerWire -------------------------------
(*****************************************************************************)
(* One connection to a peer: the byte stream that the other side writes with *)
(* send_peer_handshake and send_peer_message, and the thread that reads it   *)
(* in peer_communication.  The reader never looks at what recv returns: a    *)
(* call that yields fewer bytes than asked (a segment boundary, the receive  *)
(* timeout, a closed connection) leaves the rest of the buffer as it was,    *)
(* and reading goes on with the next field.                                  *)
(*****************************************************************************)
EXTENDS Integers, Sequences, SequencesExt

CONSTANTS
    Messages,     \* messages the other side may send
    HandshakeLen, \* bytes of a handshake: 68 in the code
    CheckedLen,   \* of which the protocol string and the info hash: 48
    Garbage,      \* values of a word, or a byte, that was not received
    Huge,         \* a length beyond all bytes ever sent: uint32 wrap-around
    MaxSent,      \* bound: messages sent
    MaxFaults     \* bound: recv calls that yield less than they were asked for

ASSUME PeerWireAssumption ==
    /\ CheckedLen \in Nat /\ HandshakeLen \in Nat /\ CheckedLen < HandshakeLen
    /\ Garbage \subseteq Nat /\ Garbage # {}
    /\ Huge \in Nat /\ MaxSent \in Nat /\ MaxFaults \in Nat

VARIABLES
    stream,     \* bytes sent and not yet read
    sent,       \* messages sent (history)
    ours,       \* the handshake carries our info hash
    pc,         \* the field that is read next
    prefix,     \* length_prefix
    id,         \* msg_type
    words,      \* 32-bit fields of the body read so far
    data,       \* bitfield or piece data
    choking,    \* peer->choking
    interested, \* peer->interested
    delivered,  \* messages handed to the loop of peer_communication (history)
    faults      \* recv calls that fell short

sender == <<sent, ours>>
fields == <<prefix, id, words, data>>
flags  == <<choking, interested>>
vars   == <<stream, sender, pc, fields, flags, delivered, faults>>

-----------------------------------------------------------------------------
(* The format, as send_peer_message writes it.                               *)

WordSize == 4

\* Bound: the numbers of the model take two bytes of a word.
Wide == 65536

\* htonl, for the small numbers of the model.
Word(n) == <<0, 0, n \div 256, n % 256>>

\* ntohl, cut off at Huge.
WordValue(w) ==
    IF w[1] # 0 \/ w[2] # 0 THEN Huge ELSE w[3] * 256 + w[4]

MsgId == [choke |-> 0, unchoke |-> 1, interested |-> 2, notinterested |-> 3,
          have |-> 4, bitfield |-> 5, request |-> 6, piece |-> 7, cancel |-> 8]

\* The 32-bit fields that each type of message is sent with.
SentWords == [choke |-> 0, unchoke |-> 0, interested |-> 0, notinterested |-> 0,
              have |-> 1, bitfield |-> 0, request |-> 3, piece |-> 2, cancel |-> 3]

\* A message has the fields of its type; its length and its numbers are small
\* enough for Word.
ASSUME MessagesAssumption ==
    \A m \in Messages :
        /\ m \in [type : DOMAIN MsgId \cup {"keepalive"},
                  words : Seq(0..(Wide - 1)), data : Seq(0..255)]
        /\ m.type # "keepalive" =>
               /\ Len(m.words) = SentWords[m.type]
               /\ m.type \in {"bitfield", "piece"} \/ m.data = <<>>
               /\ 1 + WordSize * Len(m.words) + Len(m.data) < Wide

Encode(m) ==
    IF m.type = "keepalive" THEN Word(0)
    ELSE Word(1 + WordSize * Len(m.words) + Len(m.data)) \o <<MsgId[m.type]>>
             \o FlattenSeq([i \in DOMAIN m.words |-> Word(m.words[i])]) \o m.data

-----------------------------------------------------------------------------
(* The sender.                                                               *)

SendMessage(m) ==
    /\ Len(sent) < MaxSent
    /\ sent' = Append(sent, m)
    /\ stream' = stream \o Encode(m)
    /\ UNCHANGED <<ours, pc, fields, flags, delivered, faults>>

-----------------------------------------------------------------------------
(* recv of n bytes takes any number of those that have been sent, because    *)
(* any number may have arrived; none at all after a timeout or a close.      *)

Recv(n, k) ==
    /\ k <= n
    /\ k < n => faults < MaxFaults
    /\ faults' = IF k < n THEN faults + 1 ELSE faults
    /\ stream' = SubSeq(stream, k + 1, Len(stream))

Arrivals(n) == 0..(IF n < Len(stream) THEN n ELSE Len(stream))

Received(k) == SubSeq(stream, 1, k)

\* receive_peer_handshake and the checks after it.  A handshake of which only
\* the peer id is missing passes them; the missing bytes stay in the stream.
RecvHandshake ==
    /\ pc = "handshake"
    /\ \E k \in Arrivals(HandshakeLen) :
           /\ Recv(HandshakeLen, k)
           /\ pc' = IF ours /\ k >= CheckedLen THEN "prefix" ELSE "bad"
    /\ UNCHANGED <<sender, fields, flags, delivered>>

\* receive_peer_message.  A prefix of 0 sets the type to KEEPALIVE, which the
\* id that is read next then overwrites.
RecvPrefix ==
    /\ pc = "prefix"
    /\ pc' = "id"
    /\ \E k \in Arrivals(WordSize) :
           /\ Recv(WordSize, k)
           /\ prefix' \in IF k = WordSize THEN {WordValue(Received(k))} ELSE Garbage
    /\ UNCHANGED <<sender, id, words, data, flags, delivered>>

\* Mutant: the branch of request is not taken for cancel.
RequestOnly == {MsgId.request}

Requests == {MsgId.request, MsgId.cancel}

\* Number of 32-bit fields after an id.
WordCount(i) == CASE i = MsgId.have -> 1
                  [] i \in Requests -> 3
                  [] i = MsgId.piece -> 2
                  [] OTHER -> 0

HasData(i) == i \in {MsgId.bitfield, MsgId.piece}

\* The field after the words ws of a message with id i.
FieldAfter(i, ws) ==
    IF Len(ws) < WordCount(i) THEN "word" ELSE IF HasData(i) THEN "data" ELSE "handle"

RecvId ==
    /\ pc = "id"
    /\ \E k \in Arrivals(1) :
           /\ Recv(1, k)
           /\ id' \in IF k = 1 THEN {stream[1]} ELSE Garbage
    /\ words' = <<>>
    /\ data' = <<>>
    /\ pc' = FieldAfter(id', <<>>)
    /\ UNCHANGED <<sender, prefix, flags, delivered>>

RecvWord ==
    /\ pc = "word"
    /\ \E k \in Arrivals(WordSize) :
           /\ Recv(WordSize, k)
           /\ \E v \in IF k = WordSize THEN {WordValue(Received(k))} ELSE Garbage :
                  words' = Append(words, v)
    /\ pc' = FieldAfter(id, words')
    /\ UNCHANGED <<sender, prefix, id, data, flags, delivered>>

\* Mutant: the id byte is counted as data.
FixedNoId == WordSize * WordCount(id)

\* Mutant: one byte too few is left, which an empty bitfield wraps around.
FixedOneMore == 2 + WordSize * WordCount(id)

\* The bytes of the message that are not data.
Fixed == 1 + WordSize * WordCount(id)

\* bflen and piece_length: an unsigned subtraction.
DataLen == IF prefix < Fixed THEN Huge ELSE prefix - Fixed

\* Of the malloc'd buffer, the bytes that were received.
RecvData ==
    /\ pc = "data"
    /\ \E k \in Arrivals(DataLen) : Recv(DataLen, k) /\ data' = Received(k)
    /\ pc' = "handle"
    /\ UNCHANGED <<sender, prefix, id, words, flags, delivered>>

\* malloc yields NULL and the copy in peer_update_bitfield goes through it.
NoMemory ==
    /\ pc = "data"
    /\ DataLen >= Huge
    /\ pc' = "crashed"
    /\ UNCHANGED <<stream, sender, fields, flags, delivered, faults>>

Type(i) == IF \E t \in DOMAIN MsgId : MsgId[t] = i
           THEN CHOOSE t \in DOMAIN MsgId : MsgId[t] = i ELSE "unknown"

\* Mutant: a flag is never taken back.
FlagStays(on, off, now) == IF id = on THEN TRUE ELSE now

Flag(on, off, now) == IF id = on THEN TRUE ELSE IF id = off THEN FALSE ELSE now

\* The loop of peer_communication.  What bitfield and have do to the peer is
\* the subject of module Availability.
Handle ==
    /\ pc = "handle"
    /\ pc' = "prefix"
    /\ delivered' = Append(delivered, [type |-> Type(id), words |-> words, data |-> data])
    /\ choking' = Flag(MsgId.choke, MsgId.unchoke, choking)
    /\ interested' = Flag(MsgId.interested, MsgId.notinterested, interested)
    /\ UNCHANGED <<stream, sender, fields, faults>>

-----------------------------------------------------------------------------

\* The bytes of a peer id are like no field of a message: 45 is '-'.
Init ==
    /\ ours \in BOOLEAN
    /\ stream = [i \in 1..HandshakeLen |-> 45]
    /\ sent = <<>> /\ delivered = <<>>
    /\ pc = "handshake"
    /\ prefix = 0 /\ id = 0 /\ words = <<>> /\ data = <<>>
    /\ choking = FALSE /\ interested = FALSE
    /\ faults = 0

Reader == RecvHandshake \/ RecvPrefix \/ RecvId \/ RecvWord \/ RecvData \/ NoMemory \/ Handle

Next == Reader \/ \E m \in Messages : SendMessage(m)

Spec == Init /\ [][Next]_vars

\* The reading thread keeps running, and what is sent arrives; that a recv falls
\* short may happen at any time and never has to.
FairSpec == Spec /\ WF_vars(Reader /\ faults' = faults)

-----------------------------------------------------------------------------
(* Properties.                                                               *)

\* Neither a recv that fell short nor a keep-alive has disturbed the reader.
Undisturbed == faults = 0 /\ \A i \in DOMAIN sent : sent[i].type # "keepalive"

\* What is read is what was sent, in order (peer_protocol.c:116-186), however
\* the bytes are cut into segments, as long as each recv gets its bytes.
InSync == Undisturbed => IsPrefix(delivered, sent)

\* Between two messages the stream holds exactly the messages not yet read:
\* every branch of receive_peer_message consumes all of its message.
FramesWhole ==
    Undisturbed /\ pc = "prefix" =>
        stream = FlattenSeq([i \in 1..(Len(sent) - Len(delivered)) |->
                                 Encode(sent[Len(delivered) + i])])

\* The last of the messages s that is of type t or u is of type t.
LastIs(t, u, s) ==
    \E i \in DOMAIN s : s[i].type = t /\ \A j \in (i + 1)..Len(s) : s[j].type # u

\* The flags of the peer are those it sent last, of the messages read so far
\* (client.c:157-165).
FlagsFollowSender ==
    Undisturbed =>
        LET read == SubSeq(sent, 1, Len(delivered)) IN
        /\ LastIs("choke", "unchoke", read) => choking
        /\ LastIs("unchoke", "choke", read) => ~choking
        /\ LastIs("interested", "notinterested", read) => interested
        /\ LastIs("notinterested", "interested", read) => ~interested

\* Every message of a peer with our torrent is read in the end, unless a recv
\* really falls short or a keep-alive is sent: no branch of receive_peer_message
\* (peer_protocol.c:116-186) waits for bytes that its message does not have.
AllRead ==
    \A n \in 1..MaxSent :
        ours /\ Len(sent) = n ~> Len(delivered) >= n \/ ~Undisturbed

\* A keep-alive is one message among the others.
KeepaliveRead ==
    faults = 0 =>
        LET Bodies(s) == SelectSeq(s, LAMBDA m : m.type # "keepalive")
        IN  IsPrefix(Bodies(delivered), Bodies(sent))
==============================================================================
