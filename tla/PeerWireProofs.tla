---------------------------- MODULE PeerWireProofs ----------------------------
(*****************************************************************************)
(* Proofs about PeerWire, for any messages, any number of them, and any      *)
(* number of recv calls that fall short.                                     *)
(*****************************************************************************)
EXTENDS PeerWire, ProofFacts, TLAPS

-----------------------------------------------------------------------------
(* The format.                                                               *)

Types == {"choke", "unchoke", "interested", "notinterested", "have", "bitfield",
          "request", "piece", "cancel"}

LEMMA IdFacts ==
    /\ DOMAIN MsgId = Types
    /\ \A t \in Types : MsgId[t] \in Nat
    /\ \A t, u \in Types : MsgId[t] = MsgId[u] => t = u
<1>1. DOMAIN MsgId = Types
  BY DEF MsgId, Types
<1>2. /\ MsgId["choke"] = 0 /\ MsgId["unchoke"] = 1 /\ MsgId["interested"] = 2
      /\ MsgId["notinterested"] = 3 /\ MsgId["have"] = 4 /\ MsgId["bitfield"] = 5
      /\ MsgId["request"] = 6 /\ MsgId["piece"] = 7 /\ MsgId["cancel"] = 8
  BY DEF MsgId
<1> QED
  BY <1>1, <1>2 DEF Types

\* The reader expects of an id what is sent with its type.
LEMMA ReadAsSent ==
    ASSUME NEW t \in Types
    PROVE  /\ WordCount(MsgId[t]) = SentWords[t]
           /\ t \in {"bitfield", "piece"} => HasData(MsgId[t])
<1>1. /\ MsgId["choke"] = 0 /\ MsgId["unchoke"] = 1 /\ MsgId["interested"] = 2
      /\ MsgId["notinterested"] = 3 /\ MsgId["have"] = 4 /\ MsgId["bitfield"] = 5
      /\ MsgId["request"] = 6 /\ MsgId["piece"] = 7 /\ MsgId["cancel"] = 8
  BY DEF MsgId
<1>2. /\ SentWords["choke"] = 0 /\ SentWords["unchoke"] = 0 /\ SentWords["interested"] = 0
      /\ SentWords["notinterested"] = 0 /\ SentWords["have"] = 1 /\ SentWords["bitfield"] = 0
      /\ SentWords["request"] = 3 /\ SentWords["piece"] = 2 /\ SentWords["cancel"] = 3
  BY DEF SentWords
<1>3. \A i \in Nat : /\ i \in {0, 1, 2, 3, 5} => WordCount(i) = 0
                     /\ i = 4 => WordCount(i) = 1
                     /\ i \in {6, 8} => WordCount(i) = 3
                     /\ i = 7 => WordCount(i) = 2
  BY <1>1 DEF WordCount, Requests
<1>4. WordCount(MsgId[t]) = SentWords[t]
  BY <1>1, <1>2, <1>3 DEF Types
<1>5. t \in {"bitfield", "piece"} => HasData(MsgId[t])
  BY <1>1 DEF HasData
<1> QED
  BY <1>4, <1>5

\* The type that the loop of peer_communication sees for an id.
LEMMA TypeOfId ==
    /\ \A i : Type(i) \in Types \cup {"unknown"}
    /\ \A t \in Types : Type(MsgId[t]) = t
    /\ \A i : \A t \in Types : Type(i) = t => i = MsgId[t]
<1>1. ASSUME NEW i, NEW t \in Types, MsgId[t] = i PROVE Type(i) = t
  <2>1. \E u \in DOMAIN MsgId : MsgId[u] = i
    BY <1>1, IdFacts
  <2>2. Type(i) = CHOOSE u \in DOMAIN MsgId : MsgId[u] = i
    BY <2>1 DEF Type
  <2>3. Type(i) \in DOMAIN MsgId /\ MsgId[Type(i)] = i
    BY <2>1, <2>2
  <2> QED
    BY <1>1, <2>3, IdFacts
<1>2. ASSUME NEW i, \A t \in Types : MsgId[t] # i PROVE Type(i) = "unknown"
  BY <1>2, IdFacts DEF Type
<1>3. "unknown" \notin Types
  BY DEF Types
<1> QED
  BY <1>1, <1>2, <1>3

LEMMA WideIsNat == Wide \in Nat
BY DEF Wide

\* Every value a word can carry is a natural number.
LEMMA WideRange ==
    ASSUME NEW n \in 0..(Wide - 1)
    PROVE  n \in Nat
<1>1. PICK w : w = Wide - 1
  OBVIOUS
<1>2. w \in Int
  BY <1>1, WideIsNat
<1>3. n \in 0..w
  BY <1>1, Zenon
<1> QED
  BY <1>2, <1>3

LEMMA WordFacts ==
    ASSUME NEW n \in 0..(Wide - 1)
    PROVE  Word(n) \in Seq(Nat) /\ Len(Word(n)) = WordSize /\ WordValue(Word(n)) = n
<1>1. n \div 256 \in Nat /\ n % 256 \in Nat /\ (n \div 256) * 256 + (n % 256) = n
  <2>1. n \in Nat
    BY WideRange, Zenon
  <2>2. n \div 256 \in Nat
    BY <2>1
  <2>3. n % 256 \in Nat
    BY <2>1
  <2>4. 256 * (n \div 256) + (n % 256) = n
    BY <2>1
  <2> QED
    BY <2>2, <2>3, <2>4
<1>2. Word(n) = <<0, 0, n \div 256, n % 256>>
  BY DEF Word
<1>3. Word(n) \in Seq(Nat) /\ Len(Word(n)) = 4
  BY <1>1, <1>2
<1>4. Word(n)[1] = 0 /\ Word(n)[2] = 0 /\ Word(n)[3] = n \div 256 /\ Word(n)[4] = n % 256
  BY <1>2
<1>5. WordValue(Word(n)) = n
  BY <1>1, <1>4 DEF WordValue
<1> QED
  BY <1>3, <1>5 DEF WordSize

\* The bytes of the words of ws after the first d.
WordBytes(ws, d) == RestOf([i \in 1..Len(ws) |-> Word(ws[i])], Len(ws), d)

\* The number that is sent before message m.
Size(m) == 1 + WordSize * Len(m.words) + Len(m.data)

LEMMA WordBytesFacts ==
    ASSUME NEW ws \in Seq(0..(Wide - 1)), NEW d \in 0..Len(ws)
    PROVE  /\ WordBytes(ws, d) \in Seq(Nat)
           /\ d = Len(ws) => WordBytes(ws, d) = <<>>
           /\ d < Len(ws) => WordBytes(ws, d) = Word(ws[d + 1]) \o WordBytes(ws, d + 1)
<1> DEFINE c == [i \in 1..Len(ws) |-> Word(ws[i])]
<1>1. Len(ws) \in Nat /\ \A i \in 1..Len(ws) : ws[i] \in 0..(Wide - 1)
  <2>1. PICK V : V = 0..(Wide - 1)
    OBVIOUS
  <2>2. ws \in Seq(V)
    BY <2>1
  <2>3. Len(ws) \in Nat /\ \A i \in 1..Len(ws) : ws[i] \in V
    BY <2>2
  <2> QED
    BY <2>1, <2>3
<1>2. \A i \in 1..Len(ws) : Word(ws[i]) \in Seq(Nat)
  BY <1>1, WordFacts
<1>3. c \in [1..Len(ws) -> Seq(Nat)]
  BY <1>2
<1>4. d < Len(ws) => c[d + 1] = Word(ws[d + 1])
  BY <1>1
<1>5. /\ RestOf(c, Len(ws), d) \in Seq(Nat)
      /\ d = Len(ws) => RestOf(c, Len(ws), d) = <<>>
      /\ d < Len(ws) => RestOf(c, Len(ws), d) = c[d + 1] \o RestOf(c, Len(ws), d + 1)
  <2>1. PICK n, b : n = Len(ws) /\ b = c
    OBVIOUS
  <2> HIDE DEF c
  <2>2. n \in Nat /\ b \in [1..n -> Seq(Nat)] /\ d \in 0..n
    BY <1>1, <1>3, <2>1, Zenon
  <2>3. RestOf(b, n, d) \in Seq(Nat)
    BY <2>2, RestTake, Zenon
  <2>4. d = n => RestOf(b, n, d) = <<>>
    BY <2>2, RestTake, Zenon
  <2>5. ASSUME d < n PROVE RestOf(b, n, d) = b[d + 1] \o RestOf(b, n, d + 1)
    <3>1. TakesNext(b, n, d)
      BY <2>2, <2>5, RestNext, Zenon
    <3> QED
      BY <3>1, Zenon DEF TakesNext
  <2> QED
    BY <2>1, <2>3, <2>4, <2>5, Zenon
<1>6. \A x : WordBytes(ws, x) = RestOf(c, Len(ws), x)
  BY DEF WordBytes
<1> HIDE DEF c
<1> QED
  BY <1>4, <1>5, <1>6, Zenon

LEMMA SizeRange ==
    ASSUME NEW x \in Nat, NEW y \in Nat, NEW w \in Nat, 1 + 4 * x + y < w
    PROVE  1 + 4 * x + y \in 0..(w - 1)
<1>1. PICK z : z = 4 * x
  OBVIOUS
<1>2. z \in Nat
  BY <1>1
<1>3. 1 + z + y < w
  BY <1>1, Zenon
<1>4. 1 + z + y \in 0..(w - 1)
  BY <1>2, <1>3
<1> QED
  BY <1>1, <1>4, Zenon

LEMMA MessageFacts ==
    ASSUME NEW m \in Messages, m.type # "keepalive"
    PROVE  /\ m.type \in Types
           /\ m.words \in Seq(0..(Wide - 1)) /\ m.words \in Seq(Nat) /\ m.data \in Seq(Nat)
           /\ m = [type |-> m.type, words |-> m.words, data |-> m.data]
           /\ Len(m.words) = WordCount(MsgId[m.type])
           /\ HasData(MsgId[m.type]) \/ m.data = <<>>
           /\ Size(m) \in 0..(Wide - 1)
<1>1. /\ m \in [type : Types \cup {"keepalive"}, words : Seq(0..(Wide - 1)), data : Seq(0..255)]
      /\ Len(m.words) = SentWords[m.type]
      /\ m.type \in {"bitfield", "piece"} \/ m.data = <<>>
      /\ 1 + WordSize * Len(m.words) + Len(m.data) < Wide
  BY MessagesAssumption, IdFacts
<1>2. m.type \in Types /\ m.words \in Seq(0..(Wide - 1)) /\ m.data \in Seq(0..255)
  BY <1>1
<1>3. m.words \in Seq(Nat) /\ m.data \in Seq(Nat)
  <2>1. 0..(Wide - 1) \subseteq Nat /\ 0..255 \subseteq Nat
    BY DEF Wide
  <2>2. PICK A, B, N : A = 0..(Wide - 1) /\ B = 0..255 /\ N = Nat
    OBVIOUS
  <2>3. A \subseteq N /\ B \subseteq N /\ m.words \in Seq(A) /\ m.data \in Seq(B)
    BY <1>2, <2>1, <2>2
  <2>4. m.words \in Seq(N) /\ m.data \in Seq(N)
    BY <2>3, SeqOfMore, Zenon
  <2> QED
    BY <2>2, <2>4
<1>4. m = [type |-> m.type, words |-> m.words, data |-> m.data]
  BY <1>1
<1>5. Size(m) \in 0..(Wide - 1)
  <2>1. Len(m.words) \in Nat /\ Len(m.data) \in Nat
    BY <1>3
  <2>2. PICK x \in Nat, y \in Nat : x = Len(m.words) /\ y = Len(m.data)
    BY <2>1
  <2>3. 1 + 4 * x + y < Wide /\ Size(m) = 1 + 4 * x + y
    BY <1>1, <2>2, Zenon DEF Size, WordSize
  <2>4. 1 + 4 * x + y \in 0..(Wide - 1)
    BY <2>2, <2>3, SizeRange, WideIsNat, Zenon
  <2> QED
    BY <2>3, <2>4, Zenon
<1>6. /\ Len(m.words) = WordCount(MsgId[m.type])
      /\ HasData(MsgId[m.type]) \/ m.data = <<>>
  BY <1>1, <1>2, ReadAsSent
<1> QED
  BY <1>2, <1>3, <1>4, <1>5, <1>6

\* A message, field by field.
LEMMA EncodeIs ==
    ASSUME NEW m \in Messages, m.type # "keepalive"
    PROVE  /\ Encode(m) \in Seq(Nat)
           /\ WordBytes(m.words, 0) \o m.data \in Seq(Nat)
           /\ <<MsgId[m.type]>> \o (WordBytes(m.words, 0) \o m.data) \in Seq(Nat)
           /\ Encode(m) = Word(Size(m)) \o (<<MsgId[m.type]>> \o (WordBytes(m.words, 0) \o m.data))
<1>1. PICK a, b, c, e :
          /\ a = Word(Size(m)) /\ b = <<MsgId[m.type]>>
          /\ c = WordBytes(m.words, 0) /\ e = m.data
  OBVIOUS
<1>2. Len(m.words) \in Nat /\ DOMAIN m.words = 1..Len(m.words)
  BY MessageFacts
<1>3. a \in Seq(Nat)
  BY <1>1, MessageFacts, WordFacts
<1>4. b \in Seq(Nat)
  BY <1>1, MessageFacts, IdFacts
<1>5. c \in Seq(Nat)
  <2>1. 0 \in 0..Len(m.words) /\ m.words \in Seq(0..(Wide - 1))
    BY <1>2, MessageFacts
  <2> QED
    BY <1>1, <2>1, WordBytesFacts
<1>6. e \in Seq(Nat)
  BY <1>1, MessageFacts
<1>7. c = FlattenSeq([i \in DOMAIN m.words |-> Word(m.words[i])])
  <2> DEFINE f == [i \in 1..Len(m.words) |-> Word(m.words[i])]
  <2>1. Len(m.words) - 0 = Len(m.words) /\ \A i \in 1..Len(m.words) : 0 + i = i
    BY <1>2
  <2>2. [i \in 1..(Len(m.words) - 0) |-> f[0 + i]] = f
    BY <2>1
  <2>3. RestOf(f, Len(m.words), 0) = FlattenSeq(f)
    <3> HIDE DEF f
    <3> QED
      BY <2>2, Zenon DEF RestOf
  <2> QED
    BY <1>1, <1>2, <2>3, Zenon DEF WordBytes
<1>8. Encode(m) = ((a \o b) \o c) \o e
  BY <1>1, <1>7 DEF Encode, Size
<1>9. c \o e \in Seq(Nat) /\ a \o b \in Seq(Nat)
  BY <1>3, <1>4, <1>5, <1>6
<1>10. b \o (c \o e) \in Seq(Nat)
  BY <1>4, <1>9
<1>11. a \o (b \o (c \o e)) \in Seq(Nat)
  BY <1>3, <1>10
<1>12. Regroup(a \o b, c, e)
  BY <1>5, <1>6, <1>9, Regrouped, Zenon
<1>13. Regroup(a, b, c \o e)
  BY <1>3, <1>4, <1>9, Regrouped, Zenon
<1>14. ((a \o b) \o c) \o e = a \o (b \o (c \o e))
  BY <1>12, <1>13, Zenon DEF Regroup
<1> QED
  BY <1>1, <1>8, <1>9, <1>10, <1>11, <1>14, Zenon

\* The bytes of the messages of s after the first d.
Pend(s, d) == RestOf([i \in 1..Len(s) |-> Encode(s[i])], Len(s), d)

Bodies(s) == \A i \in DOMAIN s : s[i].type # "keepalive"

LEMMA PendFacts ==
    ASSUME NEW s \in Seq(Messages), Bodies(s), NEW d \in 0..Len(s)
    PROVE  /\ Pend(s, d) \in Seq(Nat)
           /\ d = Len(s) => Pend(s, d) = <<>>
           /\ d < Len(s) => Pend(s, d) = Encode(s[d + 1]) \o Pend(s, d + 1)
<1> DEFINE c == [i \in 1..Len(s) |-> Encode(s[i])]
<1>1. Len(s) \in Nat /\ \A i \in 1..Len(s) : s[i] \in Messages /\ s[i].type # "keepalive"
  BY DEF Bodies
<1>2. c \in [1..Len(s) -> Seq(Nat)]
  BY <1>1, EncodeIs
<1>3. d < Len(s) => c[d + 1] = Encode(s[d + 1])
  BY <1>1
<1>4. /\ RestOf(c, Len(s), d) \in Seq(Nat)
      /\ d = Len(s) => RestOf(c, Len(s), d) = <<>>
      /\ d < Len(s) => RestOf(c, Len(s), d) = c[d + 1] \o RestOf(c, Len(s), d + 1)
  <2>1. PICK n, b : n = Len(s) /\ b = c
    OBVIOUS
  <2> HIDE DEF c
  <2>2. n \in Nat /\ b \in [1..n -> Seq(Nat)] /\ d \in 0..n
    BY <1>1, <1>2, <2>1, Zenon
  <2>3. RestOf(b, n, d) \in Seq(Nat)
    BY <2>2, RestTake, Zenon
  <2>4. d = n => RestOf(b, n, d) = <<>>
    BY <2>2, RestTake, Zenon
  <2>5. ASSUME d < n PROVE RestOf(b, n, d) = b[d + 1] \o RestOf(b, n, d + 1)
    <3>1. TakesNext(b, n, d)
      BY <2>2, <2>5, RestNext, Zenon
    <3> QED
      BY <3>1, Zenon DEF TakesNext
  <2> QED
    BY <2>1, <2>3, <2>4, <2>5, Zenon
<1>5. \A x : Pend(s, x) = RestOf(c, Len(s), x)
  BY DEF Pend
<1> HIDE DEF c
<1> QED
  BY <1>3, <1>4, <1>5, Zenon

\* The bytes a come before what messages of s after the first d make.
Before(a, s, d) == a \o Pend(s, d)

LEMMA SendKeeps ==
    ASSUME NEW s \in Seq(Messages), NEW m \in Messages, Bodies(Append(s, m)),
           NEW d \in 0..Len(s), NEW a \in Seq(Nat)
    PROVE  Before(a, s, d) \o Encode(m) = Before(a, Append(s, m), d)
<1>0. PICK n, t : n = Len(s) /\ t = Append(s, m)
  OBVIOUS
<1>1. n = Len(s) /\ t = Append(s, m) /\ n \in Nat /\ t \in Seq(Messages) /\ Len(t) = n + 1
  BY <1>0
<1>2. t[n + 1] = m /\ \A i \in 1..n : t[i] = s[i]
  BY <1>0, <1>1
<1>3. \A i \in 1..(n + 1) : t[i] \in Messages /\ t[i].type # "keepalive"
  BY <1>1 DEF Bodies
<1>4. Bodies(s)
  BY <1>1, <1>2, <1>3 DEF Bodies
<1> DEFINE c == [i \in 1..(n + 1) |-> Encode(t[i])]
<1>5. c \in [1..(n + 1) -> Seq(Nat)] /\ c[n + 1] = Encode(m)
  <2>1. \A i \in 1..(n + 1) : Encode(t[i]) \in Seq(Nat)
    BY <1>3, EncodeIs
  <2>2. n + 1 \in 1..(n + 1)
    BY <1>1
  <2> QED
    BY <1>2, <2>1, <2>2
<1>6. Pend(s, d) = RestOf(c, n, d)
  <2>1. n - d \in Nat /\ \A i \in 1..(n - d) : d + i \in 1..n /\ d + i \in 1..(n + 1)
    BY <1>1
  <2>2. [i \in 1..(n - d) |-> c[d + i]] = [i \in 1..(n - d) |-> [j \in 1..n |-> Encode(s[j])][d + i]]
    BY <1>2, <2>1
  <2> QED
    BY <1>1, <2>2, Zenon DEF Pend, RestOf
<1>7. Pend(t, d) = RestOf(c, n + 1, d)
  BY <1>1 DEF Pend
<1>8. RestOf(c, n + 1, d) = RestOf(c, n, d) \o c[n + 1]
  <2> HIDE DEF c
  <2> QED
    BY <1>1, <1>5, RestAdd, Zenon
<1>9. Pend(s, d) \in Seq(Nat) /\ Encode(m) \in Seq(Nat)
  <2>1. n + 1 \in 1..(n + 1)
    BY <1>1
  <2>2. m.type # "keepalive"
    BY <1>2, <1>3, <2>1
  <2> QED
    BY <1>4, <2>2, PendFacts, EncodeIs
<1>10. Regroup(a, Pend(s, d), Encode(m))
  BY <1>9, Regrouped, Zenon
<1> HIDE DEF c
<1> QED
  BY <1>1, <1>5, <1>6, <1>7, <1>8, <1>10, Zenon DEF Before, Regroup

\* What recv gets when the bytes it asks for are first.
Parted(s, a, b) ==
    SubSeq(s, 1, Len(a)) = a /\ SubSeq(s, Len(a) + 1, Len(s)) = b

LEMMA Chunk ==
    ASSUME NEW a \in Seq(Nat), NEW r \in Seq(Nat), NEW p \in Seq(Nat)
    PROVE  Parted((a \o r) \o p, a, r \o p)
<1>1. PICK b : b = r \o p
  OBVIOUS
<1>2. b \in Seq(Nat)
  BY <1>1
<1>3. (a \o r) \o p = a \o b
  <2>1. Regroup(a, r, p)
    BY Regrouped, Zenon
  <2> QED
    BY <1>1, <2>1, Zenon DEF Regroup
<1>4. Parted(a \o b, a, b)
  BY <1>2, TakeDrop DEF Parted
<1> QED
  BY <1>1, <1>3, <1>4, Zenon

-----------------------------------------------------------------------------
(* The inductive invariant: while the reader is undisturbed, the stream is   *)
(* the rest of the message that is being read, and the messages after it.    *)

Hello == [i \in 1..HandshakeLen |-> 45]

Inside == {"id", "word", "data", "handle"}

\* The reader, at field p with the fields pre, i, ws and dt, has taken from
\* the stream str what comes before that field in message m.
At(p, m, s, d, pre, i, ws, dt, str) ==
    /\ p = "handshake" => str = Before(Hello, s, d)
    /\ p = "prefix" => str = Before(<<>>, s, d)
    /\ p = "id" =>
           /\ pre = Size(m)
           /\ str = Before(<<MsgId[m.type]>> \o (WordBytes(m.words, 0) \o m.data), s, d + 1)
    /\ p \in {"word", "data"} => pre = Size(m)
    /\ p \in {"word", "data", "handle"} => i = MsgId[m.type]
    /\ p = "word" =>
           /\ Len(ws) < Len(m.words) /\ \A x \in 1..Len(ws) : ws[x] = m.words[x]
           /\ dt = <<>>
           /\ str = Before(WordBytes(m.words, Len(ws)) \o m.data, s, d + 1)
    /\ p \in {"data", "handle"} => ws = m.words
    /\ p = "data" => HasData(i) /\ str = Before(m.data, s, d + 1)
    /\ p = "handle" => dt = m.data /\ str = Before(<<>>, s, d + 1)

Sync ==
    /\ Len(delivered) <= Len(sent)
    /\ \A i \in 1..Len(delivered) : delivered[i] = sent[i]
    /\ pc \in Inside => Len(delivered) < Len(sent)
    /\ At(pc, sent[Len(delivered) + 1], sent, Len(delivered), prefix, id, words, data, stream)
-----------------------------------------------------------------------------
(* Types.                                                                    *)

\* What Handle hands over: the fields of a message, whatever was received.
Parts == [type : Types \cup {"unknown"}, words : Seq(Nat), data : Seq(Nat)]

Typed ==
    /\ stream \in Seq(Nat) /\ sent \in Seq(Messages)
    /\ prefix \in Nat /\ words \in Seq(Nat) /\ data \in Seq(Nat)
    /\ choking \in BOOLEAN /\ interested \in BOOLEAN
    /\ delivered \in Seq(Parts)
    /\ faults \in Nat

LEMMA WordValueIsNat ==
    ASSUME NEW w \in Seq(Nat), Len(w) = 4
    PROVE  WordValue(w) \in Nat
<1>1. w[3] \in Nat /\ w[4] \in Nat
  <2>1. \A i \in 1..Len(w) : w[i] \in Nat
    BY ElementOfSeq, Zenon
  <2>2. 3 \in 1..Len(w) /\ 4 \in 1..Len(w)
    OBVIOUS
  <2> QED
    BY <2>1, <2>2, Zenon
<1>2. w[3] * 256 + w[4] \in Nat
  BY <1>1
<1> QED
  BY <1>2, PeerWireAssumption DEF WordValue

LEMMA EncodeIsBytes ==
    ASSUME NEW m \in Messages
    PROVE  Encode(m) \in Seq(Nat)
<1>1. CASE m.type = "keepalive"
  <2>1. 0 \in 0..(Wide - 1)
    BY DEF Wide
  <2> QED
    BY <1>1, <2>1, WordFacts DEF Encode
<1> QED
  BY <1>1, EncodeIs

\* A recv that asks for n bytes and gets k.
LEMMA RecvFacts ==
    ASSUME stream \in Seq(Nat), faults \in Nat,
           NEW n \in Nat, NEW k \in Arrivals(n), Recv(n, k)
    PROVE  /\ k \in Nat /\ k <= Len(stream)
           /\ stream' \in Seq(Nat)
           /\ Received(k) \in Seq(Nat) /\ Len(Received(k)) = k
           /\ faults' \in Nat
           /\ faults' = 0 => faults = 0 /\ k = n
           /\ stream' = SubSeq(stream, k + 1, Len(stream))
<1>1. PICK l \in Nat : l = Len(stream)
  OBVIOUS
<1>2. k \in Nat /\ k <= l /\ k <= n
  BY <1>1 DEF Arrivals, Recv
<1>3. stream' = SubSeq(stream, k + 1, Len(stream))
  BY DEF Recv
<1>4. stream' \in Seq(Nat)
  BY <1>1, <1>2, <1>3
<1>5. Received(k) \in Seq(Nat) /\ Len(Received(k)) = k
  BY <1>1, <1>2 DEF Received
<1>6. faults' \in Nat /\ (faults' = 0 => faults = 0 /\ k = n)
  BY <1>2 DEF Recv
<1> QED
  BY <1>1, <1>2, <1>3, <1>4, <1>5, <1>6

LEMMA DataLenIsNat ==
    ASSUME prefix \in Nat PROVE DataLen \in Nat /\ Fixed \in Nat
<1>1. PICK n : n = WordCount(id)
  OBVIOUS
<1>2. n \in Nat
  BY <1>1 DEF WordCount
<1>3. Fixed \in Nat
  BY <1>1, <1>2 DEF Fixed, WordSize
<1> QED
  BY <1>3, PeerWireAssumption DEF DataLen

LEMMA TypedInit == Init => Typed
<1> SUFFICES ASSUME Init PROVE Typed
  OBVIOUS
<1>1. HandshakeLen \in Nat /\ stream \in [1..HandshakeLen -> Nat]
  BY PeerWireAssumption DEF Init
<1>2. stream \in Seq(Nat)
  BY <1>1, FunctionIsSeq
<1>3. \A S : <<>> \in Seq(S)
  OBVIOUS
<1>4. 0 \in Nat /\ FALSE \in BOOLEAN
  OBVIOUS
<1> QED
  BY <1>2, <1>3, <1>4, Zenon DEF Init, Typed

LEMMA TypedStep == Typed /\ [Next]_vars => Typed'
<1> SUFFICES ASSUME Typed, [Next]_vars PROVE Typed'
  OBVIOUS
<1> USE DEF Typed, fields, flags, sender
<1>1. CASE RecvHandshake
  <2>1. PICK k \in Arrivals(HandshakeLen) : Recv(HandshakeLen, k)
    BY <1>1 DEF RecvHandshake
  <2>2. stream' \in Seq(Nat) /\ faults' \in Nat
    BY <2>1, RecvFacts, PeerWireAssumption
  <2> QED
    BY <1>1, <2>2 DEF RecvHandshake
<1>2. CASE RecvPrefix
  <2>1. PICK k \in Arrivals(WordSize) :
            /\ Recv(WordSize, k)
            /\ prefix' \in IF k = WordSize THEN {WordValue(Received(k))} ELSE Garbage
    BY <1>2 DEF RecvPrefix
  <2>2. /\ stream' \in Seq(Nat) /\ faults' \in Nat
        /\ Received(k) \in Seq(Nat) /\ Len(Received(k)) = k
    BY <2>1, RecvFacts DEF WordSize
  <2>3. prefix' \in Nat
    BY <2>1, <2>2, WordValueIsNat, PeerWireAssumption DEF WordSize
  <2> QED
    BY <1>2, <2>2, <2>3 DEF RecvPrefix
<1>3. CASE RecvId
  <2>1. PICK k \in Arrivals(1) : Recv(1, k)
    BY <1>3 DEF RecvId
  <2>2. stream' \in Seq(Nat) /\ faults' \in Nat
    BY <2>1, RecvFacts
  <2> QED
    BY <1>3, <2>2 DEF RecvId
<1>4. CASE RecvWord
  <2>1. PICK k \in Arrivals(WordSize) :
            /\ Recv(WordSize, k)
            /\ \E v \in IF k = WordSize THEN {WordValue(Received(k))} ELSE Garbage :
                   words' = Append(words, v)
    BY <1>4 DEF RecvWord
  <2>2. /\ stream' \in Seq(Nat) /\ faults' \in Nat
        /\ Received(k) \in Seq(Nat) /\ Len(Received(k)) = k
    BY <2>1, RecvFacts DEF WordSize
  <2>3. PICK v \in IF k = WordSize THEN {WordValue(Received(k))} ELSE Garbage :
            words' = Append(words, v)
    BY <2>1
  <2>4. v \in Nat
    BY <2>2, <2>3, WordValueIsNat, PeerWireAssumption DEF WordSize
  <2>5. words' \in Seq(Nat)
    BY <2>3, <2>4
  <2> QED
    BY <1>4, <2>2, <2>5 DEF RecvWord
<1>5. CASE RecvData
  <2>1. PICK k \in Arrivals(DataLen) : Recv(DataLen, k) /\ data' = Received(k)
    BY <1>5 DEF RecvData
  <2>2. stream' \in Seq(Nat) /\ faults' \in Nat /\ data' \in Seq(Nat)
    BY <2>1, RecvFacts, DataLenIsNat
  <2> QED
    BY <1>5, <2>2 DEF RecvData
<1>6. CASE NoMemory
  BY <1>6 DEF NoMemory
<1>7. CASE Handle
  <2>1. [type |-> Type(id), words |-> words, data |-> data] \in Parts
    BY TypeOfId DEF Parts
  <2>2. delivered' \in Seq(Parts)
    BY <1>7, <2>1 DEF Handle
  <2>3. choking' \in BOOLEAN /\ interested' \in BOOLEAN
    BY <1>7 DEF Handle, Flag
  <2> QED
    BY <1>7, <2>2, <2>3 DEF Handle
<1>8. ASSUME NEW m \in Messages, SendMessage(m) PROVE Typed'
  <2>1. Encode(m) \in Seq(Nat)
    BY EncodeIsBytes
  <2>2. stream' \in Seq(Nat) /\ sent' \in Seq(Messages)
    BY <1>8, <2>1 DEF SendMessage
  <2> QED
    BY <1>8, <2>2 DEF SendMessage
<1>9. CASE UNCHANGED vars
  BY <1>9 DEF vars
<1> QED
  BY <1>1, <1>2, <1>3, <1>4, <1>5, <1>6, <1>7, <1>8, <1>9 DEF Next, Reader
-----------------------------------------------------------------------------
(* The flags follow the messages that are read, disturbed or not.            *)

FlagInv ==
    /\ LastIs("choke", "unchoke", delivered) => choking
    /\ LastIs("unchoke", "choke", delivered) => ~choking
    /\ LastIs("interested", "notinterested", delivered) => interested
    /\ LastIs("notinterested", "interested", delivered) => ~interested

LEMMA LastOfMore ==
    ASSUME NEW S, NEW s \in Seq(S), NEW e \in S, NEW t, NEW u, LastIs(t, u, Append(s, e))
    PROVE  e.type = t \/ (e.type # u /\ LastIs(t, u, s))
<1>1. PICK n, r : n = Len(s) /\ r = Append(s, e)
  OBVIOUS
<1>2. n \in Nat /\ DOMAIN s = 1..n /\ DOMAIN r = 1..(n + 1) /\ Len(r) = n + 1
  BY <1>1
<1>3. r[n + 1] = e /\ \A i \in 1..n : r[i] = s[i]
  BY <1>1
<1>4. LastIs(t, u, r)
  BY <1>1, Zenon
<1>5. PICK i \in 1..(n + 1) : r[i].type = t /\ \A j \in (i + 1)..(n + 1) : r[j].type # u
  BY <1>2, <1>4, Zenon DEF LastIs
<1>6. CASE i = n + 1
  BY <1>3, <1>5, <1>6, Zenon
<1>7. CASE i # n + 1
  <2>1. i \in 1..n /\ n + 1 \in (i + 1)..(n + 1)
    BY <1>2, <1>7
  <2>2. \A j \in (i + 1)..n : j \in (i + 1)..(n + 1) /\ j \in 1..n
    BY <1>2, <2>1
  <2>3. s[i].type = t /\ \A j \in (i + 1)..n : s[j].type # u
    BY <1>3, <1>5, <2>1, <2>2, Zenon
  <2>4. LastIs(t, u, s)
    BY <1>1, <1>2, <2>1, <2>3, Zenon DEF LastIs
  <2> QED
    BY <1>3, <1>5, <2>1, <2>4, Zenon
<1> QED
  BY <1>6, <1>7

\* What Handle makes of a flag.
LEMMA FlagStep ==
    ASSUME NEW S, NEW s \in Seq(S), NEW e \in S, e.type = Type(id),
           NEW on \in Types, NEW off \in Types, on # off, NEW now \in BOOLEAN,
           LastIs(on, off, s) => now, LastIs(off, on, s) => ~now
    PROVE  /\ LastIs(on, off, Append(s, e)) => Flag(MsgId[on], MsgId[off], now)
           /\ LastIs(off, on, Append(s, e)) => ~Flag(MsgId[on], MsgId[off], now)
<1>1. MsgId[on] # MsgId[off]
  BY IdFacts
<1>2. \A t \in Types : e.type = t <=> id = MsgId[t]
  BY TypeOfId
<1>3. ASSUME LastIs(on, off, Append(s, e)) PROVE Flag(MsgId[on], MsgId[off], now)
  <2>1. e.type = on \/ (e.type # off /\ LastIs(on, off, s))
    BY <1>3, LastOfMore, Zenon
  <2> QED
    BY <1>2, <2>1, Zenon DEF Flag
<1>4. ASSUME LastIs(off, on, Append(s, e)) PROVE ~Flag(MsgId[on], MsgId[off], now)
  <2>1. e.type = off \/ (e.type # on /\ LastIs(off, on, s))
    BY <1>4, LastOfMore, Zenon
  <2> QED
    BY <1>1, <1>2, <2>1, Zenon DEF Flag
<1> QED
  BY <1>3, <1>4

LEMMA FlagInit == Init => FlagInv
<1>1. \A t, u : ~LastIs(t, u, <<>>)
  BY DEF LastIs
<1> QED
  BY <1>1 DEF Init, FlagInv

LEMMA FlagNext == Typed /\ FlagInv /\ [Next]_vars => FlagInv'
<1> SUFFICES ASSUME Typed, FlagInv, [Next]_vars PROVE FlagInv'
  OBVIOUS
<1>1. CASE Handle
  <2>1. PICK e : e = [type |-> Type(id), words |-> words, data |-> data]
    OBVIOUS
  <2>2. e \in Parts /\ e.type = Type(id) /\ delivered \in Seq(Parts)
    BY <2>1, TypeOfId DEF Parts, Typed
  <2>3. delivered' = Append(delivered, e)
    BY <1>1, <2>1 DEF Handle
  <2>4. choking \in BOOLEAN /\ interested \in BOOLEAN
    BY DEF Typed
  <2>5. /\ MsgId.choke = MsgId["choke"] /\ MsgId.unchoke = MsgId["unchoke"]
        /\ MsgId.interested = MsgId["interested"]
        /\ MsgId.notinterested = MsgId["notinterested"]
    OBVIOUS
  <2>6. /\ choking' = Flag(MsgId["choke"], MsgId["unchoke"], choking)
        /\ interested' = Flag(MsgId["interested"], MsgId["notinterested"], interested)
    BY <1>1, <2>5 DEF Handle
  <2>7. /\ LastIs("choke", "unchoke", Append(delivered, e)) => choking'
        /\ LastIs("unchoke", "choke", Append(delivered, e)) => ~choking'
    <3>1. "choke" \in Types /\ "unchoke" \in Types /\ "choke" # "unchoke"
      BY DEF Types
    <3> QED
      BY <2>2, <2>4, <2>6, <3>1, FlagStep, Zenon DEF FlagInv
  <2>8. /\ LastIs("interested", "notinterested", Append(delivered, e)) => interested'
        /\ LastIs("notinterested", "interested", Append(delivered, e)) => ~interested'
    <3>1. /\ "interested" \in Types /\ "notinterested" \in Types
          /\ "interested" # "notinterested"
      BY DEF Types
    <3> QED
      BY <2>2, <2>4, <2>6, <3>1, FlagStep, Zenon DEF FlagInv
  <2> QED
    BY <2>3, <2>7, <2>8, Zenon DEF FlagInv
<1>2. ASSUME delivered' = delivered, choking' = choking, interested' = interested PROVE FlagInv'
  BY <1>2 DEF FlagInv
<1> QED
  BY <1>1, <1>2 DEF Next, Reader, RecvHandshake, RecvPrefix, RecvId, RecvWord, RecvData,
                    NoMemory, SendMessage, vars, flags
-----------------------------------------------------------------------------
(* The reader stays in step.                                                 *)

LEMMA HelloFacts == Hello \in Seq(Nat) /\ Len(Hello) = HandshakeLen
<1>1. HandshakeLen \in Nat /\ Hello \in [1..HandshakeLen -> Nat]
  BY PeerWireAssumption DEF Hello
<1> QED
  BY <1>1, FunctionIsSeq

LEMMA NextMessage ==
    ASSUME NEW s \in Seq(Messages), Bodies(s), NEW d \in Nat, d < Len(s)
    PROVE  /\ s[d + 1] \in Messages /\ s[d + 1].type # "keepalive"
           /\ Pend(s, d + 1) \in Seq(Nat)
<1>1. d + 1 \in 1..Len(s) /\ d + 1 \in 0..Len(s) /\ DOMAIN s = 1..Len(s)
  OBVIOUS
<1>2. s[d + 1] \in Messages
  BY <1>1
<1>3. Pend(s, d + 1) \in Seq(Nat)
  BY <1>1, PendFacts, Zenon
<1> QED
  BY <1>1, <1>2, <1>3 DEF Bodies

\* The recv that got k bytes took the bytes a, and left r before the rest.
Took(k, a, r, s, x) == k = Len(a) /\ Received(k) = a /\ stream' = Before(r, s, x)

\* An undisturbed recv gets the bytes a that it asks for.
LEMMA Reads ==
    ASSUME stream \in Seq(Nat), faults \in Nat,
           NEW a \in Seq(Nat), NEW r \in Seq(Nat), NEW s, NEW x, Pend(s, x) \in Seq(Nat),
           stream = Before(a \o r, s, x),
           NEW k \in Arrivals(Len(a)), Recv(Len(a), k), faults' = 0
    PROVE  Took(k, a, r, s, x)
<1>1. PICK p, str : p = Pend(s, x) /\ str = (a \o r) \o p
  OBVIOUS
<1>2. stream = str /\ p \in Seq(Nat)
  BY <1>1 DEF Before
<1>3. k = Len(a) /\ stream' = SubSeq(stream, k + 1, Len(stream))
  <2>1. Len(a) \in Nat
    OBVIOUS
  <2> QED
    BY <2>1, RecvFacts
<1>4. Parted((a \o r) \o p, a, r \o p)
  BY <1>2, Chunk, Zenon
<1> QED
  BY <1>1, <1>2, <1>3, <1>4, Zenon DEF Took, Received, Before, Parted

\* The field that is read after the words ws.
LEMMA AfterWords ==
    ASSUME NEW m \in Messages, m.type # "keepalive", NEW ws \in Seq(Nat),
           Len(ws) <= Len(m.words), \A j \in 1..Len(ws) : ws[j] = m.words[j],
           NEW s, NEW d, NEW str,
           str = Before(WordBytes(m.words, Len(ws)) \o m.data, s, d + 1),
           NEW p, p = FieldAfter(MsgId[m.type], ws)
    PROVE  /\ p \in Inside
           /\ At(p, m, s, d, Size(m), MsgId[m.type], ws, <<>>, str)
<1> DEFINE i == MsgId[m.type]
<1>1. /\ Len(m.words) = WordCount(i) /\ (HasData(i) \/ m.data = <<>>)
      /\ m.words \in Seq(Nat) /\ m.data \in Seq(Nat) /\ m.words \in Seq(0..(Wide - 1))
  BY MessageFacts
<1>2. Len(ws) \in Nat /\ Len(m.words) \in Nat
  BY <1>1
<1>3. CASE Len(ws) < Len(m.words)
  <2>1. p = "word"
    BY <1>1, <1>3, Zenon DEF FieldAfter
  <2> QED
    BY <1>3, <2>1 DEF At, Inside
<1>4. CASE ~(Len(ws) < Len(m.words))
  <2>1. Len(ws) = Len(m.words)
    BY <1>2, <1>4
  <2>2. ws = m.words
    BY <1>1, <2>1, SeqEqual
  <2>3. WordBytes(m.words, Len(ws)) = <<>>
    <3>1. Len(ws) \in 0..Len(m.words)
      BY <1>2, <2>1
    <3> QED
      BY <1>1, <2>1, <3>1, WordBytesFacts, Zenon
  <2>4. <<>> \o m.data = m.data
    BY <1>1
  <2>5. str = Before(m.data, s, d + 1)
    BY <2>3, <2>4, Zenon
  <2>6. CASE HasData(i)
    <3>1. p = "data"
      BY <1>1, <1>4, <2>6, Zenon DEF FieldAfter
    <3> QED
      BY <2>2, <2>5, <2>6, <3>1 DEF At, Inside
  <2>7. CASE ~HasData(i)
    <3>1. p = "handle"
      BY <1>1, <1>4, <2>7, Zenon DEF FieldAfter
    <3>2. m.data = <<>>
      BY <1>1, <2>7
    <3> QED
      BY <2>2, <2>5, <3>1, <3>2 DEF At, Inside
  <2> QED
    BY <2>6, <2>7
<1> QED
  BY <1>3, <1>4

\* A message that is sent while another is being read.
LEMMA AtSend ==
    ASSUME NEW s \in Seq(Messages), NEW q \in Messages, Bodies(s), Bodies(Append(s, q)),
           NEW d \in 0..Len(s), NEW p, p \in Inside => d < Len(s),
           NEW m, p \in Inside => m = s[d + 1],
           NEW pre, NEW i, NEW ws \in Seq(Nat), NEW dt, NEW str,
           At(p, m, s, d, pre, i, ws, dt, str)
    PROVE  At(p, m, Append(s, q), d, pre, i, ws, dt, str \o Encode(q))
<1>1. PICK t : t = Append(s, q)
  OBVIOUS
<1>2. d \in Nat /\ Len(s) \in Nat
  OBVIOUS
<1>3. \A a \in Seq(Nat) : \A x \in 0..Len(s) : Before(a, s, x) \o Encode(q) = Before(a, t, x)
  BY <1>1, SendKeeps, Zenon
<1>4. CASE p = "handshake"
  <2>1. str \o Encode(q) = Before(Hello, t, d)
    BY <1>3, <1>4, HelloFacts, Zenon DEF At
  <2> QED
    BY <1>1, <1>4, <2>1 DEF At
<1>5. CASE p = "prefix"
  <2>1. <<>> \in Seq(Nat)
    OBVIOUS
  <2>2. str \o Encode(q) = Before(<<>>, t, d)
    BY <1>3, <1>5, <2>1, Zenon DEF At
  <2> QED
    BY <1>1, <1>5, <2>2 DEF At
<1>6. CASE p \in Inside
  <2>1. /\ m \in Messages /\ m.type # "keepalive" /\ d + 1 \in 0..Len(s)
    BY <1>2, <1>6, NextMessage
  <2>2. CASE p = "id"
    <3>1. PICK a : a = <<MsgId[m.type]>> \o (WordBytes(m.words, 0) \o m.data)
      OBVIOUS
    <3>2. a \in Seq(Nat)
      BY <2>1, <3>1, EncodeIs
    <3>3. str \o Encode(q) = Before(a, t, d + 1)
      BY <1>3, <2>1, <2>2, <3>1, <3>2, Zenon DEF At
    <3> QED
      BY <1>1, <2>2, <3>1, <3>3 DEF At
  <2>3. CASE p = "word"
    <3>1. PICK a : a = WordBytes(m.words, Len(ws)) \o m.data
      OBVIOUS
    <3>2. m.words \in Seq(0..(Wide - 1)) /\ m.data \in Seq(Nat)
      BY <2>1, MessageFacts
    <3>3. Len(ws) \in 0..Len(m.words)
      <4>1. Len(ws) < Len(m.words)
        BY <2>3 DEF At
      <4>2. Len(m.words) \in Nat /\ Len(ws) \in Nat
        BY <3>2
      <4> QED
        BY <4>1, <4>2
    <3>4. WordBytes(m.words, Len(ws)) \in Seq(Nat)
      BY <3>2, <3>3, WordBytesFacts, Zenon
    <3>5. a \in Seq(Nat)
      BY <3>1, <3>2, <3>4
    <3>6. str \o Encode(q) = Before(a, t, d + 1)
      BY <1>3, <2>1, <2>3, <3>1, <3>5, Zenon DEF At
    <3> QED
      BY <1>1, <2>3, <3>1, <3>6 DEF At
  <2>4. CASE p = "data"
    <3>1. m.data \in Seq(Nat)
      BY <2>1, MessageFacts
    <3>2. str \o Encode(q) = Before(m.data, t, d + 1)
      BY <1>3, <2>1, <2>4, <3>1, Zenon DEF At
    <3> QED
      BY <1>1, <2>4, <3>2 DEF At
  <2>5. CASE p = "handle"
    <3>1. <<>> \in Seq(Nat)
      OBVIOUS
    <3>2. str \o Encode(q) = Before(<<>>, t, d + 1)
      BY <1>3, <2>1, <2>5, <3>1, Zenon DEF At
    <3> QED
      BY <1>1, <2>5, <3>2 DEF At
  <2> QED
    BY <1>6, <2>2, <2>3, <2>4, <2>5 DEF Inside
<1>7. CASE p \notin Inside \cup {"handshake", "prefix"}
  BY <1>7 DEF At, Inside
<1> QED
  BY <1>4, <1>5, <1>6, <1>7
SyncInv == Undisturbed => Sync

LEMMA SyncInit == Init => SyncInv
<1> SUFFICES ASSUME Init PROVE Sync
  BY DEF SyncInv
<1>1. sent = <<>> /\ delivered = <<>> /\ stream = Hello /\ pc = "handshake"
  BY DEF Init, Hello
<1>2. Bodies(<<>>) /\ <<>> \in Seq(Messages) /\ 0 \in 0..Len(<<>>) /\ Len(<<>>) = 0
  BY DEF Bodies
<1>3. Pend(<<>>, 0) = <<>>
  BY <1>2, PendFacts
<1>4. Hello = Before(Hello, <<>>, 0)
  BY <1>3, HelloFacts DEF Before
<1>5. "handshake" \notin Inside
  BY DEF Inside
<1> QED
  BY <1>1, <1>2, <1>4, <1>5 DEF Sync, At

\* The messages that have been read, in a state where the reader is in step.
LEMMA SyncFacts ==
    ASSUME Typed, Sync
    PROVE  /\ Len(delivered) \in Nat /\ Len(sent) \in Nat
           /\ Len(delivered) \in 0..Len(sent)
<1>1. Len(delivered) \in Nat /\ Len(sent) \in Nat
  BY DEF Typed
<1> QED
  BY <1>1 DEF Sync

\* A step that reads, in which neither the messages sent nor those handed over
\* change, needs only its own field to be shown.
LEMMA SyncRead ==
    ASSUME Sync, sent' = sent, delivered' = delivered,
           pc' \in Inside => Len(delivered) < Len(sent),
           At(pc', sent[Len(delivered) + 1], sent, Len(delivered),
              prefix', id', words', data', stream')
    PROVE  Sync'
<1>1. Len(delivered)' = Len(delivered)
  BY Zenon
<1> QED
  BY <1>1, Zenon DEF Sync

LEMMA SyncHandshake ==
    ASSUME Typed, Sync, Bodies(sent), RecvHandshake, faults' = 0
    PROVE  Sync'
<1>1. PICK d : d = Len(delivered)
  OBVIOUS
<1>2. d \in 0..Len(sent) /\ sent \in Seq(Messages)
  BY <1>1, SyncFacts DEF Typed
<1>3. stream = Before(Hello, sent, d)
  BY <1>1 DEF Sync, At, RecvHandshake
<1>4. PICK k \in Arrivals(HandshakeLen) : Recv(HandshakeLen, k)
  BY DEF RecvHandshake
<1>5. Hello \o <<>> = Hello /\ <<>> \in Seq(Nat) /\ Hello \in Seq(Nat) /\ Len(Hello) = HandshakeLen
  BY HelloFacts
<1>6. Pend(sent, d) \in Seq(Nat)
  BY <1>2, PendFacts
<1>7. stream' = Before(<<>>, sent, d)
  <2>0. PICK a, r : a = Hello /\ r = <<>>
    OBVIOUS
  <2>1. stream = Before(a \o r, sent, d) /\ a \in Seq(Nat) /\ r \in Seq(Nat)
    BY <1>3, <1>5, <2>0, Zenon
  <2>2. k \in Arrivals(Len(a)) /\ Recv(Len(a), k)
    BY <1>4, <1>5, <2>0, Zenon
  <2>3. stream \in Seq(Nat) /\ faults \in Nat
    BY DEF Typed
  <2>4. Took(k, a, r, sent, d)
    BY <1>6, <2>1, <2>2, <2>3, Reads, Zenon
  <2> QED
    BY <2>0, <2>4, Zenon DEF Took
<1>8. pc' \in {"prefix", "bad"}
  BY DEF RecvHandshake
<1>9. At(pc', sent[d + 1], sent, d, prefix', id', words', data', stream')
  BY <1>7, <1>8 DEF At
<1>10. pc' \notin Inside /\ sent' = sent /\ delivered' = delivered
  BY <1>8 DEF Inside, RecvHandshake, sender
<1> QED
  BY <1>1, <1>9, <1>10, SyncRead, Zenon

LEMMA SyncPrefix ==
    ASSUME Typed, Sync, Bodies(sent), RecvPrefix, faults' = 0
    PROVE  Sync'
<1>1. PICK d : d = Len(delivered)
  OBVIOUS
<1>2. d \in Nat /\ d \in 0..Len(sent) /\ Len(sent) \in Nat /\ sent \in Seq(Messages)
  BY <1>1, SyncFacts DEF Typed
<1>3. stream = Before(<<>>, sent, d)
  BY <1>1 DEF Sync, At, RecvPrefix
<1>4. PICK k \in Arrivals(WordSize) :
          /\ Recv(WordSize, k)
          /\ prefix' \in IF k = WordSize THEN {WordValue(Received(k))} ELSE Garbage
  BY DEF RecvPrefix
<1>5. Pend(sent, d) \in Seq(Nat) /\ stream = Pend(sent, d)
  <2>1. Pend(sent, d) \in Seq(Nat)
    BY <1>2, PendFacts
  <2>2. <<>> \o Pend(sent, d) = Pend(sent, d)
    BY <2>1
  <2> QED
    BY <1>3, <2>1, <2>2, Zenon DEF Before
<1>6. stream \in Seq(Nat) /\ faults \in Nat
  BY DEF Typed
<1>7. d < Len(sent)
  <2>1. 4 <= Len(stream)
    BY <1>4, <1>6, RecvFacts DEF WordSize
  <2>2. stream # <<>>
    BY <2>1
  <2> QED
    BY <1>2, <1>5, <2>2, PendFacts
<1>8. PICK m : m = sent[d + 1]
  OBVIOUS
<1>9. m \in Messages /\ m.type # "keepalive" /\ Pend(sent, d + 1) \in Seq(Nat)
  BY <1>2, <1>7, <1>8, NextMessage
<1>10. PICK a, r : /\ a = Word(Size(m))
                   /\ r = <<MsgId[m.type]>> \o (WordBytes(m.words, 0) \o m.data)
  OBVIOUS
<1>11. /\ a \in Seq(Nat) /\ Len(a) = WordSize /\ WordValue(a) = Size(m)
       /\ r \in Seq(Nat) /\ Encode(m) = a \o r
  <2>1. Size(m) \in 0..(Wide - 1)
    BY <1>9, MessageFacts
  <2>2. a \in Seq(Nat) /\ Len(a) = WordSize /\ WordValue(a) = Size(m)
    BY <1>10, <2>1, WordFacts
  <2>3. r \in Seq(Nat) /\ Encode(m) = a \o r
    BY <1>9, <1>10, EncodeIs, Zenon
  <2> QED
    BY <2>2, <2>3
<1>12. stream = Before(a \o r, sent, d + 1)
  <2>1. Pend(sent, d) = Encode(sent[d + 1]) \o Pend(sent, d + 1)
    BY <1>2, <1>7, PendFacts
  <2> QED
    BY <1>5, <1>8, <1>11, <2>1, Zenon DEF Before
<1>13. k = Len(a) /\ Received(k) = a /\ stream' = Before(r, sent, d + 1)
  <2>1. k \in Arrivals(Len(a)) /\ Recv(Len(a), k)
    BY <1>4, <1>11, Zenon
  <2>2. Took(k, a, r, sent, d + 1)
    BY <1>6, <1>9, <1>11, <1>12, <2>1, Reads, Zenon
  <2> QED
    BY <2>2, Zenon DEF Took
<1>14. prefix' = Size(m)
  BY <1>4, <1>11, <1>13
<1>15. pc' = "id" /\ sent' = sent /\ delivered' = delivered
  BY DEF RecvPrefix, sender
<1>16. At(pc', m, sent, d, prefix', id', words', data', stream')
  BY <1>10, <1>13, <1>14, <1>15 DEF At
<1> QED
  BY <1>1, <1>7, <1>8, <1>15, <1>16, SyncRead, Zenon

\* The message that is being read.
LEMMA Reading ==
    ASSUME Typed, Sync, Bodies(sent), pc \in Inside, NEW d, d = Len(delivered),
           NEW m, m = sent[d + 1]
    PROVE  /\ d \in Nat /\ d < Len(sent) /\ Len(sent) \in Nat
           /\ m \in Messages /\ m.type # "keepalive" /\ Pend(sent, d + 1) \in Seq(Nat)
           /\ At(pc, m, sent, d, prefix, id, words, data, stream)
<1>1. d \in Nat /\ d < Len(sent) /\ Len(sent) \in Nat /\ sent \in Seq(Messages)
  BY SyncFacts DEF Typed, Sync
<1>2. m \in Messages /\ m.type # "keepalive" /\ Pend(sent, d + 1) \in Seq(Nat)
  BY <1>1, NextMessage
<1>3. At(pc, m, sent, d, prefix, id, words, data, stream)
  BY Zenon DEF Sync
<1> QED
  BY <1>1, <1>2, <1>3
LEMMA SyncId ==
    ASSUME Typed, Sync, Bodies(sent), RecvId, faults' = 0
    PROVE  Sync'
<1>1. PICK d, m : d = Len(delivered) /\ m = sent[d + 1]
  OBVIOUS
<1>2. pc = "id" /\ pc \in Inside
  BY DEF RecvId, Inside
<1>3. /\ d \in Nat /\ d < Len(sent)
      /\ m \in Messages /\ m.type # "keepalive" /\ Pend(sent, d + 1) \in Seq(Nat)
      /\ At(pc, m, sent, d, prefix, id, words, data, stream)
  BY <1>1, <1>2, Reading
<1>4. PICK a, r : a = <<MsgId[m.type]>> /\ r = WordBytes(m.words, 0) \o m.data
  OBVIOUS
<1>5. a \in Seq(Nat) /\ Len(a) = 1 /\ a[1] = MsgId[m.type] /\ r \in Seq(Nat)
  <2>1. MsgId[m.type] \in Nat
    BY <1>3, MessageFacts, IdFacts
  <2>2. a \in Seq(Nat) /\ Len(a) = 1 /\ a[1] = MsgId[m.type]
    BY <1>4, <2>1
  <2>3. r \in Seq(Nat)
    BY <1>3, <1>4, EncodeIs, Zenon
  <2> QED
    BY <2>2, <2>3
<1>6. stream = Before(a \o r, sent, d + 1) /\ prefix = Size(m)
  BY <1>2, <1>3, <1>4 DEF At
<1>7. PICK k \in Arrivals(1) : Recv(1, k) /\ id' \in IF k = 1 THEN {stream[1]} ELSE Garbage
  BY DEF RecvId
<1>8. stream \in Seq(Nat) /\ faults \in Nat
  BY DEF Typed
<1>9. k = 1 /\ Received(1) = a /\ stream' = Before(r, sent, d + 1)
  <2>1. k \in Arrivals(Len(a)) /\ Recv(Len(a), k)
    BY <1>5, <1>7, Zenon
  <2>2. Took(k, a, r, sent, d + 1)
    BY <1>3, <1>5, <1>6, <1>8, <2>1, Reads, Zenon
  <2> QED
    BY <1>5, <2>2, Zenon DEF Took
<1>10. id' = MsgId[m.type]
  <2>1. 1 <= Len(stream)
    BY <1>7, <1>8, <1>9, RecvFacts
  <2>2. SubSeq(stream, 1, 1)[1] = stream[1]
    BY <1>8, <2>1
  <2> QED
    BY <1>5, <1>7, <1>9, <2>2 DEF Received
<1>11. /\ words' = <<>> /\ data' = <<>> /\ prefix' = prefix
       /\ pc' = FieldAfter(id', words') /\ sent' = sent /\ delivered' = delivered
  BY DEF RecvId, sender
<1>12. PICK ws, p : ws = words' /\ p = pc'
  OBVIOUS
<1>13. ws \in Seq(Nat) /\ Len(ws) = 0 /\ \A j \in 1..Len(ws) : ws[j] = m.words[j]
  BY <1>11, <1>12
<1>14. Len(ws) <= Len(m.words)
  <2>1. Len(m.words) \in Nat
    BY <1>3, MessageFacts
  <2> QED
    BY <1>13, <2>1
<1>15. stream' = Before(WordBytes(m.words, Len(ws)) \o m.data, sent, d + 1)
  BY <1>4, <1>9, <1>13, Zenon
<1>16. p = FieldAfter(MsgId[m.type], ws)
  BY <1>10, <1>11, <1>12, Zenon
<1>17. PICK str : str = stream'
  OBVIOUS
<1>18. p \in Inside /\ At(p, m, sent, d, Size(m), MsgId[m.type], ws, <<>>, str)
  BY <1>3, <1>13, <1>14, <1>15, <1>16, <1>17, AfterWords, Zenon
<1>19. At(pc', m, sent, d, prefix', id', words', data', stream')
  BY <1>6, <1>10, <1>11, <1>12, <1>17, <1>18, Zenon
<1> QED
  BY <1>1, <1>3, <1>11, <1>12, <1>18, <1>19, SyncRead, Zenon

LEMMA SyncWord ==
    ASSUME Typed, Sync, Bodies(sent), RecvWord, faults' = 0
    PROVE  Sync'
<1>1. PICK d, m : d = Len(delivered) /\ m = sent[d + 1]
  OBVIOUS
<1>2. pc = "word" /\ pc \in Inside
  BY DEF RecvWord, Inside
<1>3. /\ d \in Nat /\ d < Len(sent)
      /\ m \in Messages /\ m.type # "keepalive" /\ Pend(sent, d + 1) \in Seq(Nat)
      /\ At(pc, m, sent, d, prefix, id, words, data, stream)
  BY <1>1, <1>2, Reading
<1>4. /\ id = MsgId[m.type] /\ prefix = Size(m) /\ data = <<>>
      /\ Len(words) < Len(m.words) /\ \A j \in 1..Len(words) : words[j] = m.words[j]
      /\ stream = Before(WordBytes(m.words, Len(words)) \o m.data, sent, d + 1)
  BY <1>2, <1>3 DEF At
<1>5. m.words \in Seq(0..(Wide - 1)) /\ m.data \in Seq(Nat)
  BY <1>3, MessageFacts
<1>6. PICK n : n = Len(words)
  OBVIOUS
<1>7. /\ n \in Nat /\ Len(m.words) \in Nat /\ n \in 0..Len(m.words)
      /\ n + 1 \in 0..Len(m.words) /\ n + 1 \in 1..Len(m.words) /\ n < Len(m.words)
  <2>1. n \in Nat /\ Len(m.words) \in Nat /\ n < Len(m.words)
    BY <1>4, <1>5, <1>6 DEF Typed
  <2> QED
    BY <2>1
<1>8. PICK v, a, b : v = m.words[n + 1] /\ a = Word(v) /\ b = WordBytes(m.words, n + 1)
  OBVIOUS
<1>9. v \in 0..(Wide - 1)
  <2>1. PICK V : V = 0..(Wide - 1)
    OBVIOUS
  <2>2. v \in V
    BY <1>5, <1>7, <1>8, <2>1, ElementOfSeq, Zenon
  <2> QED
    BY <2>1, <2>2, Zenon
<1>10. a \in Seq(Nat) /\ Len(a) = WordSize /\ WordValue(a) = v
  BY <1>8, <1>9, WordFacts
<1>11. b \in Seq(Nat) /\ WordBytes(m.words, n) = a \o b
  BY <1>5, <1>7, <1>8, WordBytesFacts, Zenon
<1>12. PICK r : r = b \o m.data
  OBVIOUS
<1>13. r \in Seq(Nat)
  BY <1>5, <1>11, <1>12
<1>14. stream = Before(a \o r, sent, d + 1)
  <2>1. Regroup(a, b, m.data)
    BY <1>5, <1>10, <1>11, Regrouped, Zenon
  <2> QED
    BY <1>4, <1>6, <1>11, <1>12, <2>1, Zenon DEF Regroup
<1>15. PICK k \in Arrivals(WordSize) :
          /\ Recv(WordSize, k)
          /\ \E w \in IF k = WordSize THEN {WordValue(Received(k))} ELSE Garbage :
                 words' = Append(words, w)
  BY DEF RecvWord
<1>16. stream \in Seq(Nat) /\ faults \in Nat /\ words \in Seq(Nat)
  BY DEF Typed
<1>17. k = Len(a) /\ Received(k) = a /\ stream' = Before(r, sent, d + 1)
  <2>1. k \in Arrivals(Len(a)) /\ Recv(Len(a), k)
    BY <1>10, <1>15, Zenon
  <2>2. Took(k, a, r, sent, d + 1)
    BY <1>3, <1>10, <1>13, <1>14, <1>16, <2>1, Reads, Zenon
  <2> QED
    BY <2>2, Zenon DEF Took
<1>18. words' = Append(words, v)
  BY <1>10, <1>15, <1>17
<1>19. /\ data' = <<>> /\ prefix' = Size(m) /\ id' = MsgId[m.type]
       /\ pc' = FieldAfter(id', words') /\ sent' = sent /\ delivered' = delivered
  BY <1>4 DEF RecvWord, sender
<1>20. PICK ws, p, str : ws = words' /\ p = pc' /\ str = stream'
  OBVIOUS
<1>21. v \in Nat
  BY <1>9, WideRange, Zenon
<1>22. /\ ws \in Seq(Nat) /\ Len(ws) = n + 1 /\ ws[n + 1] = v
       /\ \A j \in 1..n : ws[j] = words[j]
  BY <1>6, <1>16, <1>18, <1>20, <1>21
<1>23. \A j \in 1..Len(ws) : ws[j] = m.words[j]
  <2>1. \A j \in 1..(n + 1) : j = n + 1 \/ j \in 1..n
    BY <1>7
  <2> QED
    BY <1>4, <1>6, <1>8, <1>22, <2>1, Zenon
<1>24. Len(ws) <= Len(m.words)
  BY <1>7, <1>22
<1>25. str = Before(WordBytes(m.words, Len(ws)) \o m.data, sent, d + 1)
  BY <1>8, <1>12, <1>17, <1>20, <1>22, Zenon
<1>26. p = FieldAfter(MsgId[m.type], ws)
  BY <1>19, <1>20, Zenon
<1>27. p \in Inside /\ At(p, m, sent, d, Size(m), MsgId[m.type], ws, <<>>, str)
  BY <1>3, <1>22, <1>23, <1>24, <1>25, <1>26, AfterWords, Zenon
<1>28. At(pc', m, sent, d, prefix', id', words', data', stream')
  BY <1>19, <1>20, <1>27, Zenon
<1> QED
  BY <1>1, <1>3, <1>19, <1>20, <1>27, <1>28, SyncRead, Zenon

LEMMA SyncData ==
    ASSUME Typed, Sync, Bodies(sent), RecvData, faults' = 0
    PROVE  Sync'
<1>1. PICK d, m : d = Len(delivered) /\ m = sent[d + 1]
  OBVIOUS
<1>2. pc = "data" /\ pc \in Inside
  BY DEF RecvData, Inside
<1>3. /\ d \in Nat /\ d < Len(sent)
      /\ m \in Messages /\ m.type # "keepalive" /\ Pend(sent, d + 1) \in Seq(Nat)
      /\ At(pc, m, sent, d, prefix, id, words, data, stream)
  BY <1>1, <1>2, Reading
<1>4. /\ id = MsgId[m.type] /\ prefix = Size(m) /\ words = m.words
      /\ stream = Before(m.data, sent, d + 1)
  BY <1>2, <1>3 DEF At
<1>5. m.words \in Seq(Nat) /\ m.data \in Seq(Nat) /\ Len(m.words) = WordCount(MsgId[m.type])
  BY <1>3, MessageFacts
<1>6. DataLen = Len(m.data)
  <2>1. PICK x, y : x = 4 * Len(m.words) /\ y = Len(m.data)
    OBVIOUS
  <2>2. x \in Nat /\ y \in Nat
    BY <1>5, <2>1
  <2>3. prefix = 1 + x + y /\ Fixed = 1 + x
    BY <1>4, <1>5, <2>1 DEF Size, Fixed, WordSize
  <2>4. ~(1 + x + y < 1 + x) /\ (1 + x + y) - (1 + x) = y
    BY <2>2
  <2> QED
    BY <2>1, <2>3, <2>4, Zenon DEF DataLen
<1>7. PICK a, r : a = m.data /\ r = <<>>
  OBVIOUS
<1>8. a \in Seq(Nat) /\ r \in Seq(Nat) /\ a \o r = m.data
  BY <1>5, <1>7
<1>9. PICK k \in Arrivals(DataLen) : Recv(DataLen, k) /\ data' = Received(k)
  BY DEF RecvData
<1>10. stream \in Seq(Nat) /\ faults \in Nat
  BY DEF Typed
<1>11. data' = m.data /\ stream' = Before(<<>>, sent, d + 1)
  <2>1. k \in Arrivals(Len(a)) /\ Recv(Len(a), k)
    BY <1>6, <1>7, <1>9, Zenon
  <2>2. stream = Before(a \o r, sent, d + 1)
    BY <1>4, <1>8, Zenon
  <2>3. Took(k, a, r, sent, d + 1)
    BY <1>3, <1>8, <1>10, <2>1, <2>2, Reads, Zenon
  <2> QED
    BY <1>7, <1>9, <2>3, Zenon DEF Took
<1>12. /\ pc' = "handle" /\ id' = id /\ words' = words
       /\ sent' = sent /\ delivered' = delivered
  BY DEF RecvData, sender
<1>13. At(pc', m, sent, d, prefix', id', words', data', stream')
  BY <1>4, <1>11, <1>12 DEF At
<1> QED
  BY <1>1, <1>3, <1>12, <1>13, SyncRead, Zenon

LEMMA SyncHandle ==
    ASSUME Typed, Sync, Bodies(sent), Handle
    PROVE  Sync'
<1>1. PICK d, m : d = Len(delivered) /\ m = sent[d + 1]
  OBVIOUS
<1>2. pc = "handle" /\ pc \in Inside
  BY DEF Handle, Inside
<1>3. /\ d \in Nat /\ d < Len(sent) /\ Len(sent) \in Nat
      /\ m \in Messages /\ m.type # "keepalive"
      /\ At(pc, m, sent, d, prefix, id, words, data, stream)
  BY <1>1, <1>2, Reading
<1>4. /\ id = MsgId[m.type] /\ words = m.words /\ data = m.data
      /\ stream = Before(<<>>, sent, d + 1)
  BY <1>2, <1>3 DEF At
<1>5. m.type \in Types /\ m = [type |-> m.type, words |-> m.words, data |-> m.data]
  BY <1>3, MessageFacts
<1>6. [type |-> Type(id), words |-> words, data |-> data] = m
  BY <1>4, <1>5, TypeOfId
<1>7. delivered' = Append(delivered, m) /\ delivered \in Seq(Parts)
  BY <1>6 DEF Handle, Typed
<1>8. m \in Parts
  BY <1>5, <1>3, MessageFacts DEF Parts
<1>9. PICK del : del = delivered'
  OBVIOUS
<1>10. /\ Len(del) = d + 1 /\ del[d + 1] = m
       /\ \A i \in 1..d : del[i] = delivered[i]
  BY <1>1, <1>7, <1>8, <1>9
<1>11. \A i \in 1..(d + 1) : del[i] = sent[i]
  <2>1. \A i \in 1..(d + 1) : i = d + 1 \/ i \in 1..d
    BY <1>3
  <2>2. \A i \in 1..d : delivered[i] = sent[i]
    BY <1>1 DEF Sync
  <2> QED
    BY <1>1, <1>10, <2>1, <2>2, Zenon
<1>12. d + 1 <= Len(sent)
  BY <1>3
<1>13. pc' = "prefix" /\ sent' = sent /\ stream' = stream
  BY DEF Handle, sender
<1>14. pc' \notin Inside
  BY <1>13 DEF Inside
<1>15. At(pc', (sent[Len(delivered) + 1])', sent', d + 1, prefix', id', words', data', stream')
  BY <1>4, <1>13 DEF At
<1>16. Len(delivered)' = d + 1
  BY <1>9, <1>10, Zenon
<1> QED
  BY <1>9, <1>11, <1>12, <1>13, <1>14, <1>15, <1>16, Zenon DEF Sync

LEMMA SyncSend ==
    ASSUME Typed, Sync, NEW q \in Messages, SendMessage(q), Bodies(sent), Bodies(sent)'
    PROVE  Sync'
<1>1. PICK d, m : d = Len(delivered) /\ m = sent[d + 1]
  OBVIOUS
<1>2. d \in Nat /\ Len(sent) \in Nat /\ d \in 0..Len(sent) /\ sent \in Seq(Messages)
  BY <1>1, SyncFacts DEF Typed
<1>3. /\ sent' = Append(sent, q) /\ stream' = stream \o Encode(q)
      /\ pc' = pc /\ delivered' = delivered
      /\ prefix' = prefix /\ id' = id /\ words' = words /\ data' = data
  BY DEF SendMessage, fields
<1>4. PICK t : t = Append(sent, q)
  OBVIOUS
<1>5. Len(t) = Len(sent) + 1 /\ \A i \in 1..Len(sent) : t[i] = sent[i]
  BY <1>2, <1>4
<1>6. d <= Len(t) /\ (pc \in Inside => d < Len(t))
  BY <1>2, <1>5
<1>7. pc \in Inside => d < Len(sent) /\ t[d + 1] = m
  <2>1. pc \in Inside => d < Len(sent)
    BY <1>1 DEF Sync
  <2>2. d < Len(sent) => d + 1 \in 1..Len(sent)
    BY <1>2
  <2> QED
    BY <1>1, <1>5, <2>1, <2>2, Zenon
<1>8. \A i \in 1..d : delivered[i] = t[i]
  <2>1. \A i \in 1..d : i \in 1..Len(sent)
    BY <1>2
  <2>2. \A i \in 1..d : delivered[i] = sent[i]
    BY <1>1 DEF Sync
  <2> QED
    BY <1>5, <2>1, <2>2, Zenon
<1>9. Bodies(Append(sent, q)) /\ words \in Seq(Nat)
  BY <1>3 DEF Bodies, Typed
<1>10. At(pc, m, sent, d, prefix, id, words, data, stream)
  BY <1>1, Zenon DEF Sync
<1>11. At(pc, m, t, d, prefix, id, words, data, stream \o Encode(q))
  BY <1>1, <1>2, <1>4, <1>7, <1>9, <1>10, AtSend, Zenon
<1>12. At(pc, t[d + 1], t, d, prefix, id, words, data, stream \o Encode(q))
  <2>1. CASE pc \in Inside
    BY <1>7, <1>11, <2>1, Zenon
  <2>2. CASE pc \notin Inside
    BY <1>11, <2>2 DEF At, Inside
  <2> QED
    BY <2>1, <2>2
<1>13. Len(delivered)' = d
  BY <1>1, <1>3, Zenon
<1> QED
  BY <1>1, <1>3, <1>4, <1>6, <1>8, <1>12, <1>13, Zenon DEF Sync

LEMMA SyncNext == Typed /\ SyncInv /\ [Next]_vars => SyncInv'
<1> SUFFICES ASSUME Typed, SyncInv, [Next]_vars, Undisturbed' PROVE Sync'
  BY DEF SyncInv
<1>1. faults' = 0 /\ Bodies(sent)'
  BY DEF Undisturbed, Bodies
<1>2. ASSUME sent' = sent, faults = 0 PROVE Sync /\ Bodies(sent)
  BY <1>1, <1>2 DEF SyncInv, Undisturbed, Bodies
<1>3. ASSUME NEW n \in Nat, NEW k \in Arrivals(n), Recv(n, k) PROVE faults = 0
  BY <1>1, <1>3, RecvFacts DEF Typed
<1>4. CASE RecvHandshake
  <2>1. faults = 0 /\ sent' = sent
    BY <1>3, <1>4, PeerWireAssumption DEF RecvHandshake, sender
  <2> QED
    BY <1>1, <1>2, <1>4, <2>1, SyncHandshake
<1>5. CASE RecvPrefix
  <2>1. faults = 0 /\ sent' = sent
    BY <1>3, <1>5 DEF RecvPrefix, sender, WordSize
  <2> QED
    BY <1>1, <1>2, <1>5, <2>1, SyncPrefix
<1>6. CASE RecvId
  <2>1. faults = 0 /\ sent' = sent
    BY <1>3, <1>6 DEF RecvId, sender
  <2> QED
    BY <1>1, <1>2, <1>6, <2>1, SyncId
<1>7. CASE RecvWord
  <2>1. faults = 0 /\ sent' = sent
    BY <1>3, <1>7 DEF RecvWord, sender, WordSize
  <2> QED
    BY <1>1, <1>2, <1>7, <2>1, SyncWord
<1>8. CASE RecvData
  <2>1. DataLen \in Nat
    BY DataLenIsNat DEF Typed
  <2>2. faults = 0 /\ sent' = sent
    BY <1>3, <1>8, <2>1 DEF RecvData, sender
  <2> QED
    BY <1>1, <1>2, <1>8, <2>2, SyncData
<1>9. CASE NoMemory
  <2>1. /\ faults = 0 /\ sent' = sent /\ delivered' = delivered /\ pc' = "crashed"
    BY <1>1, <1>9 DEF NoMemory, sender
  <2>2. Sync
    BY <1>2, <2>1
  <2>3. pc' \notin Inside
    BY <2>1 DEF Inside
  <2>4. At(pc', sent[Len(delivered) + 1], sent, Len(delivered),
           prefix', id', words', data', stream')
    BY <2>1 DEF At
  <2> QED
    BY <2>1, <2>2, <2>3, <2>4, SyncRead, Zenon
<1>10. CASE Handle
  <2>1. faults = 0 /\ sent' = sent
    BY <1>1, <1>10 DEF Handle, sender
  <2> QED
    BY <1>2, <1>10, <2>1, SyncHandle
<1>11. ASSUME NEW q \in Messages, SendMessage(q) PROVE Sync'
  <2>1. faults = 0 /\ sent' = Append(sent, q) /\ sent \in Seq(Messages)
    BY <1>1, <1>11 DEF SendMessage, Typed
  <2>2. /\ DOMAIN sent \subseteq DOMAIN (sent')
        /\ \A i \in DOMAIN sent : sent'[i] = sent[i]
    BY <2>1
  <2>3. Bodies(sent)
    BY <1>1, <2>2 DEF Bodies
  <2>4. Sync
    BY <2>1, <2>3 DEF SyncInv, Undisturbed, Bodies
  <2> QED
    BY <1>1, <1>11, <2>3, <2>4, SyncSend
<1>12. CASE UNCHANGED vars
  <2>1. /\ faults = 0 /\ sent' = sent /\ delivered' = delivered /\ pc' = pc /\ stream' = stream
        /\ prefix' = prefix /\ id' = id /\ words' = words /\ data' = data
    BY <1>1, <1>12 DEF vars, sender, fields
  <2>2. Sync
    BY <1>2, <2>1
  <2> QED
    BY <2>1, <2>2, SyncRead, Zenon DEF Sync
<1> QED
  BY <1>4, <1>5, <1>6, <1>7, <1>8, <1>9, <1>10, <1>11, <1>12 DEF Next, Reader
-----------------------------------------------------------------------------
(* The theorems.                                                             *)

WireInv == Typed /\ FlagInv /\ SyncInv

LEMMA Invariance == Spec => []WireInv
<1>1. Init => WireInv
  BY TypedInit, FlagInit, SyncInit DEF WireInv
<1>2. WireInv /\ [Next]_vars => WireInv'
  BY TypedStep, FlagNext, SyncNext DEF WireInv
<1> QED
  BY <1>1, <1>2, PTL DEF Spec

\* In step, the messages read are the first of those sent.
LEMMA ReadIs ==
    ASSUME Typed, Sync
    PROVE  Len(delivered) <= Len(sent) /\ SubSeq(sent, 1, Len(delivered)) = delivered
<1>1. PICK d, S : d = Len(delivered) /\ S = Messages \cup Parts
  OBVIOUS
<1>2. d \in Nat /\ d \in 0..Len(sent) /\ Len(sent) \in Nat /\ d <= Len(sent)
  BY <1>1, SyncFacts DEF Sync
<1>3. sent \in Seq(S) /\ delivered \in Seq(S)
  <2>1. Messages \subseteq S /\ Parts \subseteq S
    BY <1>1
  <2>2. sent \in Seq(Messages) /\ delivered \in Seq(Parts)
    BY DEF Typed
  <2> QED
    BY <2>1, <2>2, SeqOfMore, Zenon
<1>4. PICK r : r = SubSeq(sent, 1, d)
  OBVIOUS
<1>5. r \in Seq(S) /\ Len(r) = d /\ \A i \in 1..d : r[i] = sent[i]
  BY <1>2, <1>3, <1>4
<1>6. \A i \in 1..d : sent[i] = delivered[i]
  BY <1>1 DEF Sync
<1>7. r = delivered
  BY <1>1, <1>3, <1>5, <1>6, SeqEqual
<1> QED
  BY <1>1, <1>2, <1>4, <1>7, Zenon

\* As long as every recv gets its bytes and no keep-alive is sent, the
\* messages that receive_peer_message hands over are those that were sent, in
\* order, whatever their bodies (peer_protocol.c:116-186).
THEOREM ReadsInStep == Spec => []InSync
<1>1. WireInv => InSync
  <2> SUFFICES ASSUME Typed, Sync PROVE IsPrefix(delivered, sent)
    BY DEF WireInv, SyncInv, InSync
  <2>1. SubSeq(delivered, 1, Len(delivered)) = delivered
    <3>1. delivered \in Seq(Parts)
      BY DEF Typed
    <3> QED
      BY <3>1, SubSeqFull, Zenon
  <2> QED
    BY <2>1, ReadIs DEF IsPrefix
<1> QED
  BY <1>1, Invariance, PTL

\* Every branch of receive_peer_message takes exactly the bytes of its message
\* from the stream: between two messages it holds whole messages.
THEOREM TakesWholeMessages == Spec => []FramesWhole
<1>1. WireInv => FramesWhole
  <2> SUFFICES ASSUME Typed, Sync, Undisturbed, pc = "prefix"
               PROVE  stream = FlattenSeq([i \in 1..(Len(sent) - Len(delivered)) |->
                                               Encode(sent[Len(delivered) + i])])
    BY DEF WireInv, SyncInv, FramesWhole
  <2>1. PICK d, l : d = Len(delivered) /\ l = Len(sent)
    OBVIOUS
  <2>2. d \in Nat /\ l \in Nat /\ d \in 0..l /\ Bodies(sent) /\ sent \in Seq(Messages)
    BY <2>1, SyncFacts DEF Undisturbed, Bodies, Typed
  <2>3. stream = Before(<<>>, sent, d)
    BY <2>1 DEF Sync, At
  <2>4. Pend(sent, d) \in Seq(Nat)
    BY <2>1, <2>2, PendFacts
  <2>5. stream = Pend(sent, d)
    <3>1. <<>> \o Pend(sent, d) = Pend(sent, d)
      BY <2>4
    <3> QED
      BY <2>3, <3>1, Zenon DEF Before
  <2>6. \A i \in 1..(l - d) : d + i \in 1..l
    BY <2>2
  <2> DEFINE f == [j \in 1..l |-> Encode(sent[j])]
  <2>7. [i \in 1..(l - d) |-> f[d + i]] = [i \in 1..(l - d) |-> Encode(sent[d + i])]
    BY <2>6
  <2>8. Pend(sent, d) = FlattenSeq([i \in 1..(l - d) |-> Encode(sent[d + i])])
    <3>1. Pend(sent, d) = RestOf(f, l, d)
      BY <2>1 DEF Pend
    <3> HIDE DEF f
    <3> QED
      BY <2>7, <3>1, Zenon DEF RestOf
  <2> QED
    BY <2>1, <2>5, <2>8, Zenon
<1> QED
  BY <1>1, Invariance, PTL

\* While the reader is undisturbed, peer->choking and peer->interested are what
\* the peer said last in the messages read so far (client.c:157-165).
THEOREM FlagsAsSent == Spec => []FlagsFollowSender
<1>1. WireInv => FlagsFollowSender
  <2> SUFFICES ASSUME Typed, FlagInv, Sync
               PROVE  LET read == SubSeq(sent, 1, Len(delivered)) IN
                      /\ LastIs("choke", "unchoke", read) => choking
                      /\ LastIs("unchoke", "choke", read) => ~choking
                      /\ LastIs("interested", "notinterested", read) => interested
                      /\ LastIs("notinterested", "interested", read) => ~interested
    BY DEF WireInv, SyncInv, FlagsFollowSender
  <2> QED
    BY ReadIs, Zenon DEF FlagInv
<1> QED
  BY <1>1, Invariance, PTL
==============================================================================
