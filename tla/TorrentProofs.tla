---------------------------- MODULE TorrentProofs ----------------------------
(*****************************************************************************)
(* Proofs about the torrent file: about Bencode, the reading and writing of  *)
(* its text, for any texts and any width of int that has two digits, and     *)
(* about Startup, what the program makes of it, for any torrent files and    *)
(* command lines.                                                            *)
(*****************************************************************************)
EXTENDS Bencode, Startup, ProofFacts, FiniteSetTheorems, TLAPS

-----------------------------------------------------------------------------
(* Bencode: numbers.  int wraps, sprintf writes decimal digits, and declen   *)
(* counts them.                                                              *)

Width == 2 * (IntMax + 1)

\* The range of int.
LEMMA WidthFacts ==
    /\ IntMax \in Nat /\ IntMax > 9 /\ Width \in Nat /\ Width > 0
    /\ IntMin \in Int /\ IntMin = -IntMax - 1 /\ IntMin + Width = IntMax + 1
BY BencodeAssumption DEF Width, IntMin

\* Wrap brings a number into the range of int, and leaves alone what is in it.
LEMMA WrapRange ==
    ASSUME NEW n \in Int
    PROVE  Wrap(n) \in IntMin..IntMax /\ Wrap(n) \in Int
<1>1. PICK r \in Int : r = (n - IntMin) % Width
  BY WidthFacts, ModRange
<1>2. r \in 0..(Width - 1)
  BY <1>1, WidthFacts, ModRange
<1>3. Wrap(n) = r + IntMin
  BY <1>1 DEF Wrap, Width
<1> QED
  BY <1>2, <1>3, WidthFacts

\* Wrap finds the only number of the range that differs by a multiple of the width.
LEMMA WrapUnique ==
    ASSUME NEW n \in Int, NEW k \in Int, NEW w \in IntMin..IntMax, w = n + (k * Width)
    PROVE  Wrap(n) = w
<1>1. PICK a \in Int : a = n - IntMin
  BY WidthFacts
<1>2. PICK r \in Int : r = w - IntMin
  BY WidthFacts
<1>3. r \in 0..(Width - 1)
  BY <1>2, WidthFacts
<1>4. r = a + (k * Width)
  BY <1>1, <1>2, WidthFacts
<1>5. a % Width = r
  BY <1>3, <1>4, WidthFacts, ModUnique
<1>6. Wrap(n) = (a % Width) + IntMin
  BY <1>1 DEF Wrap, Width
<1> QED
  BY <1>2, <1>5, <1>6, WidthFacts

\* What fits an int does not wrap.
LEMMA WrapSame ==
    ASSUME NEW n \in IntMin..IntMax
    PROVE  Wrap(n) = n
<1>1. n \in Int /\ n = n + (0 * Width)
  BY WidthFacts
<1> QED
  BY <1>1, WrapUnique

\* A digit may be added before or after the number wraps.
LEMMA WrapStep ==
    ASSUME NEW n \in Int, NEW d \in Int
    PROVE  Wrap(Wrap(n) * 10 + d) = Wrap(n * 10 + d)
<1>1. PICK k \in Int : (n - IntMin) % Width = (n - IntMin) + (k * Width)
  <2>1. n - IntMin \in Int
    BY WidthFacts
  <2> QED
    BY <2>1, WidthFacts, ModDiv
<1>2. Wrap(n) = n + (k * Width)
  <2>1. Wrap(n) = ((n - IntMin) % Width) + IntMin
    BY DEF Wrap, Width
  <2>2. PICK z \in Int : z = k * Width
    BY WidthFacts
  <2> QED
    BY <1>1, <2>1, <2>2, WidthFacts
<1>3. PICK l \in Int : Wrap(Wrap(n) * 10 + d) = (Wrap(n) * 10 + d) + (l * Width)
  <2>1. PICK a \in Int : a = Wrap(n) * 10 + d
    BY WrapRange
  <2>2. PICK l \in Int : (a - IntMin) % Width = (a - IntMin) + (l * Width)
    <3>1. a - IntMin \in Int
      BY WidthFacts
    <3> QED
      BY <3>1, WidthFacts, ModDiv
  <2>3. Wrap(a) = ((a - IntMin) % Width) + IntMin
    BY DEF Wrap, Width
  <2>4. PICK z \in Int : z = l * Width
    BY WidthFacts
  <2>5. Wrap(a) = a + (l * Width)
    BY <2>2, <2>3, <2>4, WidthFacts
  <2> QED
    BY <2>1, <2>5, Zenon
<1>4. PICK w \in IntMin..IntMax : w = Wrap(Wrap(n) * 10 + d)
  <2>1. Wrap(n) * 10 + d \in Int
    BY WrapRange
  <2> QED
    BY <2>1, WrapRange
<1>5. PICK j \in Int : j = 10 * k + l
  OBVIOUS
<1>6. w = (n * 10 + d) + (j * Width)
  <2>1. PICK x \in Int : x = k * Width
    BY WidthFacts
  <2>2. PICK y \in Int : y = l * Width
    BY WidthFacts
  <2>3. j * Width = 10 * x + y
    BY <1>5, <2>1, <2>2, WidthFacts
  <2>4. w = ((n + x) * 10 + d) + y
    BY <1>2, <1>3, <1>4, <2>1, <2>2
  <2> QED
    BY <2>3, <2>4
<1>7. n * 10 + d \in Int
  OBVIOUS
<1> QED
  BY <1>4, <1>6, <1>7, WrapUnique

Digit == ToSet(DigitChar)

\* The characters of digits.
LEMMA DigitFacts ==
    /\ Digit \subseteq Chars
    /\ \A c \in Digit : DigitOf(c) \in 0..9 /\ DigitOf(c) \in Int /\ DigitChar[DigitOf(c) + 1] = c
    /\ \A n \in 0..9 : DigitChar[n + 1] \in Digit
<1>1. DOMAIN DigitChar = 1..10
  BY DEF DigitChar
<1>2. \A i \in 1..10 : DigitChar[i] \in Chars
  <2>1. \A i \in 1..10 : i \in {1, 2, 3, 4, 5, 6, 7, 8, 9, 10}
    OBVIOUS
  <2> QED
    BY <2>1, BencodeAssumption DEF DigitChar
<1>3. ASSUME NEW c \in Digit PROVE DigitOf(c) \in 0..9 /\ DigitChar[DigitOf(c) + 1] = c
  <2>1. PICK i \in 1..10 : DigitChar[i] = c
    BY <1>1 DEF Digit, ToSet
  <2>2. PICK m \in 0..9 : m + 1 = i
    <3>1. i - 1 \in 0..9 /\ (i - 1) + 1 = i
      OBVIOUS
    <3> QED
      BY <3>1
  <2>3. \E n \in 0..9 : DigitChar[n + 1] = c
    BY <2>1, <2>2
  <2> QED
    BY <2>3, Zenon DEF DigitOf
<1>4. \A n \in 0..9 : DigitChar[n + 1] \in Digit
  <2> SUFFICES ASSUME NEW n \in 0..9 PROVE DigitChar[n + 1] \in Digit
    OBVIOUS
  <2>1. n + 1 \in 1..10
    OBVIOUS
  <2> QED
    BY <1>1, <2>1, Zenon DEF Digit, ToSet
<1>5. Digit \subseteq Chars
  BY <1>1, <1>2 DEF Digit, ToSet
<1>6. 0..9 \subseteq Int
  OBVIOUS
<1> QED
  BY <1>3, <1>4, <1>5, <1>6, Zenon

\* declen's loop.
LEMMA DivisionsEq ==
    \A n \in Int : /\ Divisions[n] \in Nat
                   /\ Divisions[n] = IF n <= 0 THEN 0 ELSE 1 + Divisions[n \div 10]
<1> DEFINE m == [n \in Int |-> IF n <= 0 THEN 0 ELSE n]
           rec == [n \in Int |-> [g \in [Int -> Nat] |-> IF n <= 0 THEN 0 ELSE 1 + g[n \div 10]]]
           Def(g) == [n \in Int |-> IF n <= 0 THEN 0 ELSE 1 + g[n \div 10]]
<1>1. \A n \in Int : n > 0 => n \div 10 \in Nat /\ n \div 10 < n
  OBVIOUS
<1>2. m \in [Int -> Nat] /\ rec \in [Int -> [[Int -> Nat] -> Nat]]
  BY <1>1
<1>3. ASSUME NEW n \in Int, NEW g \in [Int -> Nat], NEW h \in [Int -> Nat],
             \A y \in Int : m[y] < m[n] => g[y] = h[y]
      PROVE  rec[n][g] = rec[n][h]
  <2>1. CASE n <= 0
    BY <2>1
  <2>2. CASE n > 0
    <3>1. n \div 10 \in Int /\ m[n \div 10] < m[n]
      BY <1>1, <2>2
    <3>2. g[n \div 10] = h[n \div 10]
      BY <1>3, <3>1, Zenon
    <3> QED
      BY <3>2
  <2> QED
    BY <2>1, <2>2
<1>4. Descends(Int, Nat, m, rec)
  <2> HIDE DEF m, rec
  <2> QED
    BY <1>2, <1>3 DEF Descends
<1>5. PICK f : IsSolution(f, Int, Nat, rec)
  <2> HIDE DEF m, rec
  <2>1. Nat # {}
    OBVIOUS
  <2> QED
    BY <1>4, <2>1, RecursionHasSolution, Zenon
<1>6. f \in [Int -> Nat] /\ \A n \in Int : f[n] = rec[n][f]
  <2> HIDE DEF rec
  <2> QED
    BY <1>5, Zenon DEF IsSolution
<1>7. ASSUME NEW n \in Int PROVE f[n] = IF n <= 0 THEN 0 ELSE 1 + f[n \div 10]
  BY <1>6, Zenon
<1>8. f = Def(f)
  BY <1>6, <1>7
<1>9. Divisions = Def(Divisions)
  <2>1. Divisions = CHOOSE g : g = Def(g)
    BY DEF Divisions
  <2> HIDE DEF Def
  <2> QED
    BY <1>8, <2>1, Zenon
<1>10. \A n \in Int : Divisions[n] = IF n <= 0 THEN 0 ELSE 1 + Divisions[n \div 10]
  BY <1>9, Zenon
<1> DEFINE S == {k \in Nat : \A n \in Int : n <= k => Divisions[n] \in Nat}
<1>11. 0 \in S
  BY <1>10
<1>12. ASSUME NEW k \in Nat, k \in S PROVE k + 1 \in S
  <2> SUFFICES ASSUME NEW n \in Int, n <= k + 1 PROVE Divisions[n] \in Nat
    OBVIOUS
  <2>1. CASE n <= 0
    BY <1>10, <2>1
  <2>2. CASE n > 0
    <3>1. n \div 10 \in Int /\ n \div 10 <= k
      BY <1>1, <2>2
    <3>2. Divisions[n \div 10] \in Nat
      BY <1>12, <3>1
    <3>3. Divisions[n] = 1 + Divisions[n \div 10]
      BY <1>10, <2>2
    <3> QED
      BY <3>2, <3>3
  <2> QED
    BY <2>1, <2>2
<1>13. ASSUME NEW n \in Int PROVE Divisions[n] \in Nat
  <2>1. Nat \subseteq S
    <3> HIDE DEF S
    <3> QED
      BY <1>11, <1>12, SetInduction
  <2>2. CASE n <= 0
    BY <1>10, <2>2
  <2>3. CASE n > 0
    <3>1. n \in S
      BY <2>1, <2>3
    <3> QED
      BY <3>1
  <2> QED
    BY <2>2, <2>3
<1> QED
  BY <1>10, <1>13

\* sprintf's decimal digits.
LEMMA DecimalEq ==
    \A n \in Nat :
        /\ Decimal[n] \in Seq(Digit)
        /\ Decimal[n] = IF n < 10 THEN <<DigitChar[n + 1]>>
                        ELSE Append(Decimal[n \div 10], DigitChar[(n % 10) + 1])
<1> DEFINE V == Seq(Digit)
           m == [n \in Nat |-> n]
           Body(g, n) == IF n < 10 THEN <<DigitChar[n + 1]>>
                         ELSE Append(g[n \div 10], DigitChar[(n % 10) + 1])
           rec == [n \in Nat |-> [g \in [Nat -> V] |-> Body(g, n)]]
           Def(g) == [n \in Nat |-> Body(g, n)]
<1>1. \A n \in Nat : n >= 10 => n \div 10 \in Nat /\ n \div 10 < n
  OBVIOUS
<1>2. \A n \in Nat : /\ n < 10 => DigitChar[n + 1] \in Digit
                     /\ DigitChar[(n % 10) + 1] \in Digit
  <2> SUFFICES ASSUME NEW n \in Nat
               PROVE  (n < 10 => DigitChar[n + 1] \in Digit) /\ DigitChar[(n % 10) + 1] \in Digit
    OBVIOUS
  <2>1. n % 10 \in 0..9 /\ (n < 10 => n \in 0..9)
    OBVIOUS
  <2> QED
    BY <2>1, DigitFacts, Zenon
<1>3. ASSUME NEW n \in Nat, NEW g, n >= 10 => g[n \div 10] \in V PROVE Body(g, n) \in V
  <2>1. CASE n < 10
    <3>1. PICK c \in Digit : c = DigitChar[n + 1]
      BY <1>2, <2>1
    <3>2. <<c>> \in V
      OBVIOUS
    <3> QED
      BY <2>1, <3>1, <3>2
  <2>2. CASE n >= 10
    <3>1. PICK c \in Digit : c = DigitChar[(n % 10) + 1]
      BY <1>2
    <3>2. PICK s \in V : s = g[n \div 10]
      BY <1>3, <2>2
    <3>3. Append(s, c) \in V
      OBVIOUS
    <3> QED
      BY <2>2, <3>1, <3>2, <3>3
  <2> QED
    BY <2>1, <2>2
<1>4. m \in [Nat -> Nat] /\ rec \in [Nat -> [[Nat -> V] -> V]]
  <2>1. ASSUME NEW n \in Nat, NEW g \in [Nat -> V] PROVE Body(g, n) \in V
    <3>1. n >= 10 => g[n \div 10] \in V
      BY <1>1
    <3> HIDE DEF Body
    <3> QED
      BY <1>3, <3>1
  <2> HIDE DEF Body
  <2> QED
    BY <2>1
<1>5. ASSUME NEW n \in Nat, NEW g \in [Nat -> V], NEW h \in [Nat -> V],
             \A y \in Nat : m[y] < m[n] => g[y] = h[y]
      PROVE  rec[n][g] = rec[n][h]
  <2>1. n >= 10 => g[n \div 10] = h[n \div 10]
    <3>1. n >= 10 => n \div 10 \in Nat /\ m[n \div 10] < m[n]
      BY <1>1
    <3> QED
      BY <1>5, <3>1, Zenon
  <2>2. Body(g, n) = Body(h, n)
    BY <2>1
  <2> HIDE DEF Body
  <2> QED
    BY <2>2
<1>6. Descends(Nat, V, m, rec)
  <2> HIDE DEF m, rec, V
  <2> QED
    BY <1>4, <1>5 DEF Descends
<1>7. PICK f : IsSolution(f, Nat, V, rec)
  <2>1. V # {}
    BY EmptySeq
  <2> HIDE DEF m, rec, V
  <2> QED
    BY <1>6, <2>1, RecursionHasSolution, Zenon
<1>8. f \in [Nat -> V] /\ \A n \in Nat : f[n] = rec[n][f]
  <2> HIDE DEF rec, V
  <2> QED
    BY <1>7, Zenon DEF IsSolution
<1>9. f = Def(f)
  <2> HIDE DEF Body
  <2>1. \A n \in Nat : f[n] = Body(f, n)
    BY <1>8, Zenon
  <2> QED
    BY <1>8, <2>1
<1>10. Decimal = Def(Decimal)
  <2>1. Decimal = CHOOSE g : g = Def(g)
    BY DEF Decimal
  <2> HIDE DEF Def
  <2> QED
    BY <1>9, <2>1, Zenon
<1>11. \A n \in Nat : Decimal[n] = Body(Decimal, n)
  <2> HIDE DEF Body
  <2> QED
    BY <1>10, Zenon
<1> DEFINE S == {k \in Nat : \A n \in Nat : n <= k => Decimal[n] \in V}
<1>12. 0 \in S
  <2>1. Body(Decimal, 0) \in V
    <3> HIDE DEF Body
    <3> QED
      BY <1>3
  <2>2. Decimal[0] \in V
    BY <1>11, <2>1, Zenon
  <2> QED
    BY <2>2
<1>13. ASSUME NEW k \in Nat, k \in S PROVE k + 1 \in S
  <2> SUFFICES ASSUME NEW n \in Nat, n <= k + 1 PROVE Decimal[n] \in V
    OBVIOUS
  <2>1. n >= 10 => Decimal[n \div 10] \in V
    <3>1. n >= 10 => n \div 10 \in Nat /\ n \div 10 <= k
      BY <1>1
    <3> QED
      BY <1>13, <3>1
  <2> HIDE DEF Body
  <2>2. Body(Decimal, n) \in V
    BY <1>3, <2>1
  <2> QED
    BY <1>11, <2>2, Zenon
<1>14. Nat \subseteq S
  <2> HIDE DEF S
  <2> QED
    BY <1>12, <1>13, SetInduction
<1>15. ASSUME NEW n \in Nat PROVE Decimal[n] \in V
  <2>1. n \in S
    BY <1>14
  <2> QED
    BY <2>1
<1> QED
  BY <1>11, <1>15

\* A decimal number has one digit, or one more than its tenth.
LEMMA DecimalCases ==
    ASSUME NEW n \in Nat
    PROVE  /\ n < 10 => \E c \in Digit : Decimal[n] = <<c>>
           /\ n >= 10 => \E c \in Digit : Decimal[n] = Append(Decimal[n \div 10], c)
<1>1. Decimal[n] = IF n < 10 THEN <<DigitChar[n + 1]>>
                   ELSE Append(Decimal[n \div 10], DigitChar[(n % 10) + 1])
  BY DecimalEq, Zenon
<1>2. (n < 10 => n \in 0..9) /\ n % 10 \in 0..9 /\ (n >= 10 => ~(n < 10))
  OBVIOUS
<1> QED
  BY <1>1, <1>2, DigitFacts, Zenon

\* It has as many digits as it can be divided.
LEMMA DecimalLength ==
    ASSUME NEW n \in Nat, n > 0
    PROVE  Len(Decimal[n]) = Divisions[n]
<1> DEFINE S == {k \in Nat : \A i \in Nat : 0 < i /\ i <= k => Len(Decimal[i]) = Divisions[i]}
<1>1. 0 \in S
  OBVIOUS
<1>2. ASSUME NEW k \in Nat, k \in S PROVE k + 1 \in S
  <2> SUFFICES ASSUME NEW i \in Nat, 0 < i, i <= k + 1 PROVE Len(Decimal[i]) = Divisions[i]
    OBVIOUS
  <2>1. PICK j \in Nat : j = i \div 10
    OBVIOUS
  <2>2. Divisions[i] = 1 + Divisions[j] /\ Divisions[j] \in Nat
    BY <2>1, DivisionsEq
  <2>3. CASE i < 10
    <3>4. PICK c \in Digit : Decimal[i] = <<c>>
      BY <2>3, DecimalCases
    <3>1. Len(Decimal[i]) = 1
      BY <3>4
    <3>2. j = 0
      BY <2>1, <2>3
    <3>3. Divisions[0] = 0
      BY DivisionsEq
    <3> QED
      BY <2>2, <3>1, <3>2, <3>3
  <2>4. CASE i >= 10
    <3>1. 0 < j /\ j <= k
      BY <2>1, <2>4
    <3>2. Len(Decimal[j]) = Divisions[j]
      BY <1>2, <3>1
    <3>3. PICK c \in Digit : Decimal[i] = Append(Decimal[j], c)
      BY <2>1, <2>4, DecimalCases
    <3>4. Decimal[j] \in Seq(Digit)
      BY DecimalEq
    <3>6. Len(Decimal[i]) = Len(Decimal[j]) + 1
      BY <3>3, <3>4, AppendProperties
    <3> QED
      BY <2>2, <3>2, <3>6
  <2> QED
    BY <2>3, <2>4
<1>3. n \in S
  <2> HIDE DEF S
  <2> QED
    BY <1>1, <1>2, SetInduction
<1> QED
  BY <1>3

\* declen returns a number of characters.
LEMMA DeclenType ==
    ASSUME NEW n \in Int
    PROVE  Declen(n) \in Nat
<1>1. Wrap(-n) \in Int
  BY WrapRange
<1> QED
  BY <1>1, DivisionsEq DEF Declen

\* sprintf writes characters.
LEMMA ItoaType ==
    ASSUME NEW n \in Int
    PROVE  Itoa(n) \in Seq(Chars)
<1>1. \A k \in Nat : Decimal[k] \in Seq(Chars)
  <2> SUFFICES ASSUME NEW k \in Nat PROVE Decimal[k] \in Seq(Chars)
    OBVIOUS
  <2>1. Decimal[k] \in Seq(Digit)
    BY DecimalEq
  <2> QED
    BY <2>1, DigitFacts, SeqOfMore
<1>2. <<"-">> \in Seq(Chars)
  BY BencodeAssumption
<1>3. CASE n < 0
  <2>1. PICK s \in Seq(Chars) : s = Decimal[-n]
    BY <1>1, <1>3
  <2>2. <<"-">> \o s \in Seq(Chars)
    BY <1>2
  <2> QED
    BY <1>3, <2>1, <2>2 DEF Itoa
<1>4. CASE n >= 0
  BY <1>1, <1>4 DEF Itoa
<1> QED
  BY <1>3, <1>4

\* A negative number has a sign and its digits.
LEMMA ItoaNegative ==
    ASSUME NEW k \in Nat, k > 0
    PROVE  Len(Itoa(-k)) = 1 + Divisions[k]
<1>1. Itoa(-k) = <<"-">> \o Decimal[k]
  <2>1. -k < 0 /\ -(-k) = k
    OBVIOUS
  <2> QED
    BY <2>1 DEF Itoa
<1>2. PICK s : s = Decimal[k]
  OBVIOUS
<1>3. s \in Seq(Chars)
  <2>1. s \in Seq(Digit)
    BY <1>2, DecimalEq
  <2> QED
    BY <2>1, DigitFacts, SeqOfMore
<1>4. <<"-">> \in Seq(Chars) /\ Len(<<"-">>) = 1
  BY BencodeAssumption
<1>5. Len(<<"-">> \o s) = 1 + Len(s)
  BY <1>3, <1>4, ConcatProperties
<1> QED
  BY <1>1, <1>2, <1>5, DecimalLength

\* declen counts the characters of every number but INT_MIN.
LEMMA DeclenIsLength ==
    ASSUME NEW n \in Int, n > IntMin
    PROVE  Len(Itoa(n)) = Declen(n)
<1>2. CASE n = 0
  <2>1. PICK c \in Digit : Decimal[0] = <<c>>
    BY DecimalCases
  <2> QED
    BY <1>2, <2>1 DEF Itoa, Declen
<1>3. CASE n > 0
  BY <1>3, DecimalLength DEF Itoa, Declen
<1>4. CASE n < 0
  <2>1. PICK k \in Nat : k = -n /\ k > 0 /\ n = -k /\ k \in IntMin..IntMax
    BY <1>4, WidthFacts
  <2>2. Wrap(-n) = k
    BY <2>1, WrapSame
  <2>3. Declen(n) = 1 + Divisions[k]
    BY <1>4, <2>2 DEF Declen
  <2> QED
    BY <2>1, <2>3, ItoaNegative
<1> QED
  BY <1>2, <1>3, <1>4

\* For INT_MIN it counts one character, the sign's, where there are three at least.
LEMMA DeclenOfIntMin ==
    Declen(IntMin) = 1 /\ Len(Itoa(IntMin)) \in Nat /\ Len(Itoa(IntMin)) >= 3
<1>1. PICK k \in Nat : k = IntMax + 1 /\ IntMin = -k /\ k > 10 /\ IntMin \in IntMin..IntMax
  BY WidthFacts
<1>2. Wrap(-IntMin) = IntMin
  <2>1. -IntMin \in Int /\ -1 \in Int /\ IntMin = -IntMin + ((-1) * Width)
    BY <1>1, WidthFacts DEF Width
  <2>2. PICK m \in Int : m = -IntMin
    BY <2>1
  <2> QED
    BY <1>1, <2>1, <2>2, WrapUnique
<1>3. Declen(IntMin) = 1
  <2>1. Divisions[IntMin] = 0 /\ IntMin < 0
    BY <1>1, DivisionsEq
  <2> QED
    BY <1>2, <2>1 DEF Declen
<1>4. Divisions[k] \in Nat /\ Divisions[k] >= 2
  <2>1. PICK d \in Nat : d = k \div 10 /\ d > 0
    BY <1>1
  <2>2. Divisions[k] = 1 + Divisions[d]
    BY <1>1, <2>1, DivisionsEq
  <2>3. Divisions[d] = 1 + Divisions[d \div 10] /\ d \div 10 \in Int /\ Divisions[d] \in Nat
    BY <2>1, DivisionsEq
  <2>4. Divisions[d \div 10] \in Nat
    BY <2>3, DivisionsEq
  <2> QED
    BY <2>2, <2>3, <2>4
<1>5. Len(Itoa(IntMin)) = 1 + Divisions[k]
  BY <1>1, ItoaNegative
<1> QED
  BY <1>3, <1>4, <1>5

-----------------------------------------------------------------------------
(* Reading a number is a run of steps, one for each digit.                   *)

\* The steps of the fold that reads a decimal number.
PlainStep(n, c) == [v \in Int |-> [i \in 1..n |-> v * 10 + DigitOf(c[i])]]

\* Plain is a run of these steps.
LEMMA PlainIs ==
    ASSUME NEW n \in Nat, NEW c \in [1..n -> Digit],
           NEW f, IsRun(f, Int, n, 0, PlainStep(n, c))
    PROVE  Plain(c) = f[n]
<1> DEFINE D == DOMAIN c
           Def(g) == [s \in SUBSET D |->
                         IF s = {} THEN 0
                         ELSE g[s \ {Max(s)}] * 10 + DigitOf(c[Max(s)])]
           iter == CHOOSE g : g = Def(g)
           step == PlainStep(n, c)
<1>1. Plain(c) = iter[D]
  BY DEF Plain, FoldLeft, MapThenFoldSet
<1>2. step \in [Int -> [1..n -> Int]]
  BY DigitFacts DEF PlainStep
<1>3. PICK h : IsFold(h, Int, n, 0, step)
  <2> HIDE DEF step
  <2>1. 0 \in Int
    OBVIOUS
  <2> QED
    BY <1>2, <2>1, FoldExists, Zenon
<1>4. h \in [SUBSET (1..n) -> Int]
  <2> HIDE DEF step
  <2> QED
    BY <1>3 DEF IsFold
<1>5. ASSUME NEW s \in SUBSET D, s # {}, NEW v \in Int
      PROVE  step[v][Max(s)] = v * 10 + DigitOf(c[Max(s)])
  <2>1. PICK i \in 1..n : i = Max(s)
    BY <1>5, MaxOf
  <2>2. step[v][i] = v * 10 + DigitOf(c[i])
    BY DEF PlainStep
  <2> QED
    BY <2>1, <2>2, Zenon
<1>6. ASSUME NEW s \in SUBSET D
      PROVE  h[s] = IF s = {} THEN 0 ELSE h[s \ {Max(s)}] * 10 + DigitOf(c[Max(s)])
  <2> HIDE DEF step
  <2>1. h[s] = IF s = {} THEN 0 ELSE step[h[s \ {Max(s)}]][Max(s)]
    BY <1>3, Zenon DEF IsFold
  <2>2. h[s \ {Max(s)}] \in Int
    BY <1>4
  <2> QED
    BY <1>5, <2>1, <2>2, Zenon
<1>7. iter = Def(iter)
  <2>1. h = Def(h)
    BY <1>4, <1>6
  <2> HIDE DEF Def
  <2> QED
    BY <2>1, Zenon
<1> HIDE DEF iter
<1>8. ASSUME NEW s \in SUBSET D
      PROVE  iter[s] = IF s = {} THEN 0 ELSE iter[s \ {Max(s)}] * 10 + DigitOf(c[Max(s)])
  BY <1>7, Zenon
<1>9. FoldsAs(iter, Int, n, 0, step)
  <2> HIDE DEF step
  <2>1. {} \in SUBSET D /\ D = 1..n
    OBVIOUS
  <2> QED
    BY <1>5, <1>8, <2>1, Zenon DEF FoldsAs
<1>10. iter[1..n] = f[n]
  <2>1. IsRun(f, Int, n, 0, step)
    OBVIOUS
  <2> HIDE DEF step
  <2> QED
    BY <1>9, <2>1, FoldRuns
<1> QED
  BY <1>1, <1>10

\* The steps of the loops that read a number in b_parse_int and b_parse_string.
ReadStep(n, c) == [v \in IntMin..IntMax |-> [i \in 1..n |-> Wrap(v * 10 + DigitOf(c[i]))]]

\* They stay in the range of int.
LEMMA ReadStepType ==
    ASSUME NEW n \in Nat, NEW c \in [1..n -> Digit]
    PROVE  ReadStep(n, c) \in [IntMin..IntMax -> [1..n -> IntMin..IntMax]]
<1>1. ASSUME NEW v \in IntMin..IntMax, NEW i \in 1..n
      PROVE  Wrap(v * 10 + DigitOf(c[i])) \in IntMin..IntMax
  <2>1. v * 10 + DigitOf(c[i]) \in Int
    BY DigitFacts, WidthFacts
  <2> QED
    BY <2>1, WrapRange
<1> QED
  BY <1>1 DEF ReadStep

\* Accumulate is a run of these steps.
LEMMA AccumulateIs ==
    ASSUME NEW n \in Nat, NEW c \in [1..n -> Digit], NEW b \in IntMin..IntMax,
           NEW f, IsRun(f, IntMin..IntMax, n, b, ReadStep(n, c))
    PROVE  Accumulate(b, c) = f[n]
<1> DEFINE V == IntMin..IntMax
           D == DOMAIN c
           Def(g) == [s \in SUBSET D |->
                         IF s = {} THEN b
                         ELSE Wrap(g[s \ {Max(s)}] * 10 + DigitOf(c[Max(s)]))]
           iter == CHOOSE g : g = Def(g)
           step == ReadStep(n, c)
<1>1. Accumulate(b, c) = iter[D]
  BY DEF Accumulate, FoldLeft, MapThenFoldSet
<1>2. step \in [V -> [1..n -> V]]
  BY ReadStepType
<1>3. PICK h : IsFold(h, V, n, b, step)
  <2> HIDE DEF step, V
  <2>1. b \in V
    BY DEF V
  <2> QED
    BY <1>2, <2>1, FoldExists, Zenon
<1>4. h \in [SUBSET (1..n) -> V]
  <2> HIDE DEF step, V
  <2> QED
    BY <1>3 DEF IsFold
<1>5. ASSUME NEW s \in SUBSET D, s # {}, NEW v \in V
      PROVE  step[v][Max(s)] = Wrap(v * 10 + DigitOf(c[Max(s)]))
  <2>1. PICK i \in 1..n : i = Max(s)
    BY <1>5, MaxOf
  <2>2. step[v][i] = Wrap(v * 10 + DigitOf(c[i]))
    BY DEF ReadStep
  <2> QED
    BY <2>1, <2>2, Zenon
<1>6. ASSUME NEW s \in SUBSET D
      PROVE  h[s] = IF s = {} THEN b ELSE Wrap(h[s \ {Max(s)}] * 10 + DigitOf(c[Max(s)]))
  <2> HIDE DEF step, V
  <2>1. h[s] = IF s = {} THEN b ELSE step[h[s \ {Max(s)}]][Max(s)]
    BY <1>3, Zenon DEF IsFold
  <2>2. h[s \ {Max(s)}] \in V
    BY <1>4
  <2> QED
    BY <1>5, <2>1, <2>2, Zenon
<1>7. iter = Def(iter)
  <2>1. h = Def(h)
    BY <1>4, <1>6
  <2> HIDE DEF Def
  <2> QED
    BY <2>1, Zenon
<1> HIDE DEF iter
<1>8. ASSUME NEW s \in SUBSET D
      PROVE  iter[s] = IF s = {} THEN b ELSE Wrap(iter[s \ {Max(s)}] * 10 + DigitOf(c[Max(s)]))
  BY <1>7, Zenon
<1>9. FoldsAs(iter, V, n, b, step)
  <2> HIDE DEF step, V
  <2>1. {} \in SUBSET D /\ D = 1..n
    OBVIOUS
  <2> QED
    BY <1>5, <1>8, <2>1, Zenon DEF FoldsAs
<1>10. iter[1..n] = f[n]
  <2>1. IsRun(f, V, n, b, step)
    OBVIOUS
  <2> HIDE DEF step, V
  <2> QED
    BY <1>9, <2>1, FoldRuns
<1> QED
  BY <1>1, <1>10

\* What the loops read is an int.
LEMMA AccumulateType ==
    ASSUME NEW n \in Nat, NEW c \in [1..n -> Digit], NEW b \in IntMin..IntMax
    PROVE  Accumulate(b, c) \in IntMin..IntMax
<1> DEFINE V == IntMin..IntMax
           step == ReadStep(n, c)
<1>1. step \in [V -> [1..n -> V]]
  BY ReadStepType
<1>2. PICK f : IsRun(f, V, n, b, step)
  <2> HIDE DEF step, V
  <2>1. b \in V
    BY DEF V
  <2> QED
    BY <1>1, <2>1, Iterate, Zenon
<1>3. Accumulate(b, c) = f[n]
  BY <1>2, AccumulateIs, Zenon
<1>4. f \in [0..n -> V]
  <2> HIDE DEF step
  <2> QED
    BY <1>2 DEF IsRun
<1> QED
  BY <1>3, <1>4

-----------------------------------------------------------------------------
(* What b_parse_int and b_parse_string return.                               *)

Frame == [type : {"list", "dict"}, start : Nat, elems : Seq(Nat)]

Parsed == [type : {"int", "str", "list", "dict"}, start : Nat, end : Nat,
           num : IntMin..IntMax, str : Seq(Chars), elems : Seq(Nat)]

TextOK == text \in Seq(Chars) /\ beyond \in Chars

\* What the parser sees at a position.
LEMMA EofIs ==
    ASSUME TextOK, NEW p \in Nat
    PROVE  /\ Len(text) \in Nat
           /\ Eof(p) <=> p >= Len(text)
           /\ At(p) \in Chars
<1>1. Len(text) \in Nat
  BY DEF TextOK
<1>2. p < Len(text) => text[p + 1] \in Chars
  BY DEF TextOK
<1> QED
  BY <1>1, <1>2 DEF TextOK, Eof, At

\* Where the loops over digits stop.
LEMMA DigitsEndIs ==
    ASSUME TextOK, NEW p \in Nat, p <= Len(text)
    PROVE  /\ DigitsEnd(p) \in p..(Len(text) + 1) /\ DigitsEnd(p) \in Nat
           /\ \A r \in p..(DigitsEnd(p) - 1) : At(r) \in Digit /\ (r > p => ~Eof(r))
           /\ (DigitsEnd(p) > p /\ Eof(DigitsEnd(p))) \/ ~(At(DigitsEnd(p)) \in Digit)
<1>1. Len(text) \in Nat
  BY EofIs
<1> DEFINE Stops(q) == (q > p /\ Eof(q)) \/ ~IsDigit(At(q))
           T == {q \in p..(Len(text) + 1) : Stops(q)}
           End(q) == /\ \A r \in p..(q - 1) : IsDigit(At(r)) /\ (r > p => ~Eof(r))
                     /\ Stops(q)
<1>2. Len(text) + 1 \in T
  BY <1>1 DEF Eof
<1>3. PICK q \in T : \A r \in T : q <= r
  <2>1. T \subseteq Nat /\ T # {}
    BY <1>1, <1>2
  <2> HIDE DEF T
  <2> QED
    BY <2>1, LeastNumber
<1>4. q \in p..(Len(text) + 1) /\ Stops(q)
  BY <1>3
<1>5. ASSUME NEW r \in p..(q - 1) PROVE ~Stops(r)
  <2>1. r \in p..(Len(text) + 1) /\ ~(q <= r)
    BY <1>1, <1>4
  <2>2. r \notin T
    BY <1>3, <2>1
  <2> HIDE DEF Stops
  <2> QED
    BY <2>1, <2>2
<1>6. End(q)
  BY <1>4, <1>5
<1>7. DigitsEnd(p) \in p..(Len(text) + 1) /\ End(DigitsEnd(p))
  <2>1. DigitsEnd(p) = CHOOSE x \in p..(Len(text) + 1) : End(x)
    BY DEF DigitsEnd
  <2> HIDE DEF End
  <2> QED
    BY <1>4, <1>6, <2>1, Zenon
<1> QED
  BY <1>1, <1>7 DEF IsDigit, Digit

\* What the loops pass are digits.
LEMMA DigitsType ==
    ASSUME NEW p \in Nat, NEW q \in Nat, p <= q, \A r \in p..(q - 1) : At(r) \in Digit
    PROVE  q - p \in Nat /\ Digits(p, q) \in [1..(q - p) -> Digit]
<1>1. ASSUME NEW k \in 1..(q - p) PROVE At(p + k - 1) \in Digit
  <2>1. p + k - 1 \in p..(q - 1)
    OBVIOUS
  <2> QED
    BY <2>1
<1> QED
  BY <1>1 DEF Digits

\* A value that is not a list or a dictionary, read from pos.
Token(v) ==
    /\ v \in Parsed
    /\ v.type \in {"int", "str"}
    /\ v.start = pos /\ v.end >= pos
    /\ v.type = "str" /\ v.num >= 0 => Len(v.str) = v.num

\* Where b_parse_int stops, and whether it has read a number.
IntFrom == IF At(pos + 1) = "-" THEN pos + 2 ELSE pos + 1

IntEnd == DigitsEnd(IntFrom)

IntRead == ~Eof(pos + 1) /\ ~RanOut(IntFrom, IntEnd) /\ At(IntEnd) = "e"

\* What b_parse_int may return.
LEMMA IntReturns ==
    ASSUME TextOK, pos \in Nat, ~Eof(pos), ParseInt
    PROVE  \/ ~IntRead /\ (Answer("eof") \/ Answer("bad"))
           \/ /\ IntRead
              /\ \E v : Token(v) /\ v.type = "int" /\ v.end = IntEnd /\ Finish(v, v.end + 1, stack)
<1> DEFINE neg == At(pos + 1) = "-"
           p == IF neg THEN pos + 2 ELSE pos + 1
           q == DigitsEnd(p)
           num == Accumulate(0, Digits(p, q))
           v == Value("int", pos, q, IF neg THEN Wrap(-num) ELSE num, <<>>, <<>>)
<1>1. IF Eof(pos + 1) \/ RanOut(p, q) THEN Answer("eof")
      ELSE IF At(q) # "e" THEN Answer("bad")
      ELSE Finish(v, q + 1, stack)
  BY DEF ParseInt
<1>8. p = IntFrom /\ q = IntEnd
  BY DEF IntFrom, IntEnd
<1>2. SUFFICES ASSUME ~Eof(pos + 1), Finish(v, q + 1, stack)
               PROVE  Token(v) /\ v.end = q /\ v.type = "int"
  <2> HIDE DEF v, q, p
  <2> QED
    BY <1>1, <1>8 DEF IntRead
<1>3. p \in Nat /\ p <= Len(text) /\ p > pos
  <2>1. pos + 1 < Len(text) /\ Len(text) \in Nat
    BY <1>2, EofIs
  <2> QED
    BY <2>1
<1>4. q \in Nat /\ q >= p /\ \A r \in p..(q - 1) : At(r) \in Digit
  <2> HIDE DEF p
  <2>1. q \in p..(Len(text) + 1) /\ q \in Nat
    BY <1>3, DigitsEndIs
  <2>2. \A r \in p..(q - 1) : At(r) \in Digit
    BY <1>3, DigitsEndIs
  <2> HIDE DEF q
  <2> QED
    BY <1>3, <2>1, <2>2
<1>5. num \in IntMin..IntMax
  <2> HIDE DEF p, q
  <2>1. q - p \in Nat /\ Digits(p, q) \in [1..(q - p) -> Digit]
    BY <1>3, <1>4, DigitsType
  <2>2. 0 \in IntMin..IntMax
    BY WidthFacts
  <2> QED
    BY <2>1, <2>2, AccumulateType
<1>6. (IF neg THEN Wrap(-num) ELSE num) \in IntMin..IntMax
  <2> HIDE DEF num
  <2>1. -num \in Int
    BY <1>5, WidthFacts
  <2> QED
    BY <1>5, <2>1, WrapRange
<1> HIDE DEF num, q, p, neg
<1>7. <<>> \in Seq(Chars) /\ <<>> \in Seq(Nat)
  OBVIOUS
<1> QED
  BY <1>3, <1>4, <1>6, <1>7 DEF Token, Value, Parsed

\* The digits at i..k of the text write a number that does not fit an int.
Huge(i, k) ==
    /\ \A d \in i..k : IsDigit(At(d))
    /\ Plain(Digits(i, k + 1)) >= IntMax

HugeNumber == \E i \in 0..(Len(text) - 2) : \E k \in (i + 1)..(Len(text) - 1) : Huge(i, k)

\* The loop of b_parse_string computes the number modulo the width of int.
LEMMA ReadsModulo ==
    ASSUME NEW p \in Nat, NEW q \in Nat, p < q, \A r \in p..(q - 1) : At(r) \in Digit
    PROVE  /\ Plain(Digits(p, q)) \in Nat
           /\ Accumulate(DigitOf(At(p)), Digits(p + 1, q)) = Wrap(Plain(Digits(p, q)))
           /\ Accumulate(DigitOf(At(p)), Digits(p + 1, q)) \in IntMin..IntMax
           /\ q = p + 1 => /\ Accumulate(DigitOf(At(p)), Digits(p + 1, q)) \in 0..9
                          /\ Accumulate(DigitOf(At(p)), Digits(p + 1, q)) = DigitOf(At(p))
<1>1. PICK n \in Nat : n = q - (p + 1)
  OBVIOUS
<1>2. PICK c : c = Digits(p, q)
  OBVIOUS
<1>3. PICK e : e = Digits(p + 1, q)
  OBVIOUS
<1>4. c \in [1..(n + 1) -> Digit] /\ n + 1 \in Nat
  <2>1. n + 1 = q - p /\ p <= q /\ n + 1 \in Nat
    BY <1>1
  <2>2. Digits(p, q) \in [1..(q - p) -> Digit]
    BY <2>1, DigitsType
  <2> QED
    BY <1>2, <2>1, <2>2
<1>5. e \in [1..n -> Digit]
  <2>1. \A r \in (p + 1)..(q - 1) : At(r) \in Digit
    OBVIOUS
  <2> QED
    BY <1>1, <1>3, <2>1, DigitsType
<1>6. c[1] = At(p) /\ \A i \in 1..n : e[i] = c[i + 1]
  <2>1. c[1] = At(p + 1 - 1)
    BY <1>2 DEF Digits
  <2>2. p + 1 - 1 = p
    OBVIOUS
  <2>3. ASSUME NEW i \in 1..n PROVE e[i] = c[i + 1]
    <3>1. i \in 1..(q - (p + 1)) /\ i + 1 \in 1..(q - p) /\ (p + 1) + i - 1 = p + (i + 1) - 1
      BY <1>1
    <3>2. e[i] = At((p + 1) + i - 1) /\ c[i + 1] = At(p + (i + 1) - 1)
      BY <1>2, <1>3, <3>1, Zenon DEF Digits
    <3> QED
      BY <3>1, <3>2, Zenon
  <2> QED
    BY <2>1, <2>2, <2>3
<1>7. PICK b : b = DigitOf(At(p))
  OBVIOUS
<1>8. b \in 0..9 /\ b \in IntMin..IntMax /\ b \in Int
  <2>1. p \in p..(q - 1)
    OBVIOUS
  <2>2. b \in 0..9
    BY <1>7, <2>1, DigitFacts
  <2> QED
    BY <2>2, WidthFacts
<1> DEFINE V == IntMin..IntMax
<1>9. PICK f : IsRun(f, V, n, b, ReadStep(n, e))
  <2>1. ReadStep(n, e) \in [V -> [1..n -> V]]
    BY <1>5, ReadStepType
  <2>2. b \in V
    BY <1>8
  <2> HIDE DEF V
  <2> QED
    BY <2>1, <2>2, Iterate, Zenon
<1>10. PICK g : IsRun(g, Int, n + 1, 0, PlainStep(n + 1, c))
  <2>1. PlainStep(n + 1, c) \in [Int -> [1..(n + 1) -> Int]]
    BY <1>4, DigitFacts DEF PlainStep
  <2>2. 0 \in Int
    OBVIOUS
  <2> QED
    BY <1>4, <2>1, <2>2, Iterate, Zenon
<1>11. Accumulate(b, e) = f[n]
  BY <1>5, <1>8, <1>9, AccumulateIs
<1>12. Plain(c) = g[n + 1]
  BY <1>4, <1>10, PlainIs
<1>13. /\ f \in [0..n -> V] /\ f[0] = b
       /\ \A i \in 1..n : f[i] = ReadStep(n, e)[f[i - 1]][i]
  <2> HIDE DEF V
  <2> QED
    BY <1>9, Zenon DEF IsRun
<1>14. /\ g \in [0..(n + 1) -> Int] /\ g[0] = 0
       /\ \A i \in 1..(n + 1) : g[i] = PlainStep(n + 1, c)[g[i - 1]][i]
  BY <1>10, Zenon DEF IsRun
<1>15. ASSUME NEW i \in 1..n PROVE f[i] = Wrap(f[i - 1] * 10 + DigitOf(e[i]))
  <2>1. PICK v \in V : v = f[i - 1]
    BY <1>13
  <2>2. ReadStep(n, e)[v][i] = Wrap(v * 10 + DigitOf(e[i]))
    BY DEF ReadStep
  <2> QED
    BY <1>13, <2>1, <2>2, Zenon
<1>16. ASSUME NEW i \in 1..(n + 1) PROVE g[i] = g[i - 1] * 10 + DigitOf(c[i])
  <2>1. PICK v \in Int : v = g[i - 1]
    BY <1>14
  <2>2. PlainStep(n + 1, c)[v][i] = v * 10 + DigitOf(c[i])
    BY DEF PlainStep
  <2> QED
    BY <1>14, <2>1, <2>2, Zenon
<1> DEFINE S == {k \in Nat : k <= n => f[k] = Wrap(g[k + 1]) /\ g[k + 1] \in Nat}
<1>17. 0 \in S
  <2>1. 1 \in 1..(n + 1) /\ 1 - 1 = 0 /\ 0 + 1 = 1
    BY <1>4
  <2>2. g[1] = 0 * 10 + b
    BY <1>6, <1>7, <1>14, <1>16, <2>1
  <2>3. g[1] = b /\ b \in Nat
    BY <1>8, <2>2
  <2>4. Wrap(b) = b
    BY <1>8, WrapSame
  <2> QED
    BY <1>13, <2>1, <2>3, <2>4
<1>18. ASSUME NEW k \in Nat, k \in S PROVE k + 1 \in S
  <2> SUFFICES ASSUME k + 1 <= n PROVE f[k + 1] = Wrap(g[(k + 1) + 1]) /\ g[(k + 1) + 1] \in Nat
    OBVIOUS
  <2>1. /\ k + 1 \in 1..n /\ (k + 1) - 1 = k
        /\ (k + 1) + 1 \in 1..(n + 1) /\ ((k + 1) + 1) - 1 = k + 1
    OBVIOUS
  <2>2. f[k] = Wrap(g[k + 1]) /\ g[k + 1] \in Nat
    BY <1>18, <2>1
  <2>3. PICK d \in 0..9 : d = DigitOf(e[k + 1]) /\ d = DigitOf(c[(k + 1) + 1])
    <3>1. e[k + 1] \in Digit
      BY <1>5, <2>1
    <3> QED
      BY <1>6, <2>1, <3>1, DigitFacts
  <2>4. PICK y \in Nat : y = g[k + 1]
    BY <2>2
  <2>5. f[k + 1] = Wrap(Wrap(y) * 10 + d)
    BY <1>15, <2>1, <2>2, <2>3, <2>4, Zenon
  <2>6. g[(k + 1) + 1] = y * 10 + d
    BY <1>16, <2>1, <2>3, <2>4, Zenon
  <2>7. Wrap(Wrap(y) * 10 + d) = Wrap(y * 10 + d)
    BY WrapStep
  <2> QED
    BY <2>5, <2>6, <2>7
<1>19. n \in S
  <2> HIDE DEF S
  <2> QED
    BY <1>17, <1>18, SetInduction
<1>20. f[n] = Wrap(g[n + 1]) /\ g[n + 1] \in Nat /\ f[n] \in V
  BY <1>13, <1>19
<1>21. q = p + 1 => f[n] \in 0..9 /\ f[n] = b
  BY <1>1, <1>8, <1>13
<1> QED
  BY <1>2, <1>3, <1>7, <1>11, <1>12, <1>20, <1>21

\* A number that is negative, or too long for calloc, is written by more than
\* one digit and does not fit an int.
LEMMA LongNumber ==
    ASSUME TextOK, NEW p \in Nat, ~Eof(p), NEW q \in Nat, p < q,
           \A r \in p..(q - 1) : At(r) \in Digit,
           ~RanOut(p + 1, q),
           NEW n, n = Accumulate(DigitOf(At(p)), Digits(p + 1, q)), n < 0 \/ n = IntMax
    PROVE  HugeNumber
<1>1. /\ Plain(Digits(p, q)) \in Nat /\ n = Wrap(Plain(Digits(p, q)))
      /\ n \in IntMin..IntMax /\ (q = p + 1 => n \in 0..9)
  BY ReadsModulo
<1>2. p + 1 < q
  BY <1>1, WidthFacts
<1>3. q < Len(text) /\ Len(text) \in Nat
  BY <1>2, EofIs DEF RanOut
<1>4. PICK x \in Nat : x = Plain(Digits(p, q))
  BY <1>1
<1>5. x >= IntMax
  <2> SUFFICES ASSUME x < IntMax PROVE FALSE
    BY <1>4, WidthFacts
  <2>1. x \in IntMin..IntMax
    BY WidthFacts
  <2>2. n = x
    BY <1>1, <1>4, <2>1, WrapSame
  <2> QED
    BY <2>2, WidthFacts
<1>6. PICK k \in Nat : k = q - 1
  BY <1>2
<1>7. p \in 0..(Len(text) - 2) /\ k \in (p + 1)..(Len(text) - 1) /\ k + 1 = q
  BY <1>2, <1>3, <1>6
<1>8. Huge(p, k)
  BY <1>4, <1>5, <1>6, <1>7 DEF Huge, IsDigit, Digit
<1> QED
  BY <1>7, <1>8 DEF HugeNumber

\* Where b_parse_string finds the colon and the last character, and whether it
\* has read a string that ends before the text does.
StrColon == DigitsEnd(pos + 1)

StrNum == Accumulate(DigitOf(At(pos)), Digits(pos + 1, StrColon))

StrEnd == StrColon + Max({0, StrNum})

StrRead ==
    /\ ~RanOut(pos + 1, StrColon) /\ At(StrColon) = ":"
    /\ IF StrNum = IntMax THEN ~Eof(StrColon + 1) ELSE ~(StrEnd > StrColon /\ Eof(StrEnd))

\* What b_parse_string may return.
LEMMA StringReturns ==
    ASSUME TextOK, pos \in Nat, ~Eof(pos), ParseString
    PROVE  \/ ~StrRead /\ (Answer("eof") \/ Answer("bad"))
           \/ StrRead /\ Answer("crash") /\ HugeNumber
           \/ /\ StrRead /\ StrNum # IntMax
              /\ \E v : /\ Token(v) /\ v.type = "str" /\ v.end = StrEnd /\ (v.num < 0 => HugeNumber)
                        /\ Finish(v, v.end + 1, stack)
<1> DEFINE q == DigitsEnd(pos + 1)
           n == Accumulate(DigitOf(At(pos)), Digits(pos + 1, q))
           end == q + Max({0, n})
           s == SubSeq(text, q + 2, end + 1)
           v == Value("str", pos, end, n, s, <<>>)
<1>1. IF RanOut(pos + 1, q) THEN Answer("eof")
      ELSE IF At(q) # ":" THEN Answer("bad")
      ELSE IF n = IntMax THEN Answer(IF Eof(q + 1) THEN "eof" ELSE "crash")
      ELSE IF end > q /\ Eof(end) THEN Answer("eof")
      ELSE Finish(v, end + 1, stack)
  BY DEF ParseString
<1>12. q = StrColon /\ n = StrNum /\ end = StrEnd
  BY DEF StrColon, StrNum, StrEnd
<1>2. pos + 1 \in Nat /\ pos + 1 <= Len(text) /\ Len(text) \in Nat
  BY EofIs
<1>3. q \in Nat /\ pos < q /\ \A r \in pos..(q - 1) : At(r) \in Digit
  <2>1. q \in (pos + 1)..(Len(text) + 1) /\ q \in Nat
    BY <1>2, DigitsEndIs
  <2>2. \A r \in (pos + 1)..(q - 1) : At(r) \in Digit
    BY <1>2, DigitsEndIs
  <2>3. At(pos) \in Digit
    BY DEF ParseString, IsDigit, Digit
  <2> HIDE DEF q
  <2>4. ASSUME NEW r \in pos..(q - 1) PROVE At(r) \in Digit
    <3>1. r = pos \/ r \in (pos + 1)..(q - 1)
      BY <2>1
    <3> QED
      BY <2>2, <2>3, <3>1
  <2> QED
    BY <1>2, <2>1, <2>4
<1>4. n \in IntMin..IntMax /\ n \in Int
  <2> HIDE DEF q
  <2>1. n \in IntMin..IntMax
    BY <1>3, ReadsModulo
  <2> QED
    BY <2>1, WidthFacts
<1>5. ~RanOut(pos + 1, q) /\ (n < 0 \/ n = IntMax) => HugeNumber
  <2>1. PICK x : x = n
    OBVIOUS
  <2> HIDE DEF q
  <2> SUFFICES ASSUME ~RanOut(pos + 1, q), x < 0 \/ x = IntMax PROVE HugeNumber
    BY <2>1
  <2> QED
    BY <1>3, <2>1, LongNumber
<1> HIDE DEF n, q
<1>6. end = q + (IF n > 0 THEN n ELSE 0) /\ end \in Nat /\ end >= q
  <2>1. Max({0, n}) = IF n > 0 THEN n ELSE 0
    BY <1>4, MaxPair
  <2>2. (IF n > 0 THEN n ELSE 0) \in Nat
    BY <1>4
  <2> QED
    BY <1>3, <2>1, <2>2
<1> HIDE DEF end
<1>7. ASSUME ~(end > q /\ Eof(end))
      PROVE  s \in Seq(Chars) /\ (n >= 0 => Len(s) = n)
  <2>1. \A i \in (q + 2)..(end + 1) : text[i] \in Chars
    <3> SUFFICES ASSUME NEW i \in (q + 2)..(end + 1) PROVE text[i] \in Chars
      OBVIOUS
    <3>1. end < Len(text)
      BY <1>2, <1>3, <1>6, <1>7, EofIs
    <3>2. i \in 1..Len(text)
      BY <1>2, <1>3, <1>6, <3>1
    <3> QED
      BY <3>2 DEF TextOK
  <2>2. PICK a \in Int : a = q + 2
    BY <1>3
  <2>3. PICK b \in Int : b = end + 1
    BY <1>6
  <2>4. /\ SubSeq(text, a, b) \in Seq(Chars)
        /\ Len(SubSeq(text, a, b)) = IF a <= b THEN b - a + 1 ELSE 0
    BY <2>1, <2>2, <2>3, SubSeqProperties
  <2>5. n >= 0 => (IF a <= b THEN b - a + 1 ELSE 0) = n
    BY <1>3, <1>4, <1>6, <2>2, <2>3
  <2> QED
    BY <2>2, <2>3, <2>4, <2>5
<1>8. ASSUME ~(end > q /\ Eof(end)) PROVE Token(v) /\ v.end = end /\ v.num = n /\ v.type = "str"
  <2> HIDE DEF s
  <2>1. <<>> \in Seq(Nat)
    OBVIOUS
  <2> QED
    BY <1>3, <1>4, <1>6, <1>7, <1>8, <2>1 DEF Token, Value, Parsed
<1> HIDE DEF v
<1>9. CASE RanOut(pos + 1, q) \/ At(q) # ":"
  BY <1>1, <1>9, <1>12 DEF StrRead
<1>10. CASE ~RanOut(pos + 1, q) /\ At(q) = ":" /\ n = IntMax
  BY <1>1, <1>5, <1>10, <1>12 DEF StrRead
<1>11. CASE ~RanOut(pos + 1, q) /\ At(q) = ":" /\ n # IntMax
  <2>1. CASE end > q /\ Eof(end)
    BY <1>1, <1>11, <1>12, <2>1 DEF StrRead
  <2>2. CASE ~(end > q /\ Eof(end))
    <3>1. Finish(v, v.end + 1, stack) /\ Token(v) /\ (v.num < 0 => HugeNumber)
          /\ v.end = StrEnd /\ v.type = "str"
      BY <1>1, <1>5, <1>8, <1>11, <1>12, <2>2
    <3>2. StrRead /\ StrNum # IntMax
      BY <1>11, <1>12, <2>2 DEF StrRead
    <3> QED
      BY <3>1, <3>2
  <2> QED
    BY <2>1, <2>2
<1> QED
  BY <1>9, <1>10, <1>11

-----------------------------------------------------------------------------
(* The values that were read lie next to each other: those of a finished     *)
(* list or dictionary, and those of a call in progress.                      *)

\* Where the k-th of the values elems begins, if they lie next to each other.
StartOf(vs, elems, from, k) == IF k = 1 THEN from ELSE vs[elems[k - 1]].end + 1

\* The values elems, all among the first n, lie next to each other and fill
\* the text from `from' to `to'.
Fills(vs, elems, from, to, n) ==
    /\ \A k \in 1..Len(elems) :
           elems[k] \in 1..n /\ vs[elems[k]].start = StartOf(vs, elems, from, k)
    /\ to = StartOf(vs, elems, from, Len(elems) + 1)

Compound(v) == v.type \in {"list", "dict"}

\* Every list and dictionary is filled by values finished before it.
Tiled(vs) ==
    \A i \in 1..Len(vs) :
        Compound(vs[i]) => Fills(vs, vs[i].elems, vs[i].start + 1, vs[i].end, i - 1)

\* What a call in progress has read so far ends where the call it waits for
\* begins, or at p.
Waits(vs, stk, p) ==
    \A d \in 1..Len(stk) :
        Fills(vs, stk[d].elems, stk[d].start + 1,
              IF d = Len(stk) THEN p ELSE stk[d + 1].start, Len(vs))

\* Values that are read later change nothing.
LEMMA FillsMore ==
    ASSUME NEW vs \in Seq(Parsed), NEW v \in Parsed, NEW n \in Nat, n <= Len(vs),
           NEW elems \in Seq(Nat), NEW from, NEW to, Fills(vs, elems, from, to, n),
           NEW m \in Nat, n <= m
    PROVE  Fills(Append(vs, v), elems, from, to, m)
<1>1. PICK ws : ws = Append(vs, v)
  OBVIOUS
<1>2. \A i \in 1..n : ws[i] = vs[i]
  BY <1>1
<1>3. Len(elems) \in Nat
  OBVIOUS
<1>4. ASSUME NEW k \in 1..(Len(elems) + 1)
      PROVE  StartOf(ws, elems, from, k) = StartOf(vs, elems, from, k)
  <2>1. CASE k = 1
    BY <2>1 DEF StartOf
  <2>2. CASE k # 1
    <3>1. k - 1 \in 1..Len(elems)
      BY <1>3, <2>2
    <3>2. elems[k - 1] \in 1..n
      BY <3>1 DEF Fills
    <3> QED
      BY <1>2, <2>2, <3>2 DEF StartOf
  <2> QED
    BY <2>1, <2>2
<1>5. \A k \in 1..Len(elems) : k \in 1..(Len(elems) + 1) /\ Len(elems) + 1 \in 1..(Len(elems) + 1)
  BY <1>3
<1>6. ASSUME NEW k \in 1..Len(elems)
      PROVE  elems[k] \in 1..m /\ ws[elems[k]].start = StartOf(ws, elems, from, k)
  <2>1. elems[k] \in 1..n /\ vs[elems[k]].start = StartOf(vs, elems, from, k)
    BY DEF Fills
  <2> QED
    BY <1>2, <1>4, <1>5, <2>1
<1>7. to = StartOf(ws, elems, from, Len(elems) + 1)
  <2>1. Len(elems) + 1 \in 1..(Len(elems) + 1)
    BY <1>3
  <2> QED
    BY <1>4, <2>1 DEF Fills
<1> QED
  BY <1>1, <1>6, <1>7, Zenon DEF Fills

\* A value that begins where the others end.
LEMMA FillsNext ==
    ASSUME NEW vs \in Seq(Parsed), NEW v \in Parsed, NEW elems \in Seq(Nat), NEW from,
           Fills(vs, elems, from, v.start, Len(vs)), NEW n \in Nat, n = Len(vs) + 1
    PROVE  Fills(Append(vs, v), Append(elems, n), from, v.end + 1, n)
<1>1. PICK ws : ws = Append(vs, v)
  OBVIOUS
<1>2. PICK es : es = Append(elems, n)
  OBVIOUS
<1>3. PICK l \in Nat : l = Len(elems)
  OBVIOUS
<1>4. /\ Len(es) = l + 1 /\ es[l + 1] = n /\ \A k \in 1..l : es[k] = elems[k]
  BY <1>2, <1>3
<1>5. ws[n] = v
  BY <1>1
<1>6. Fills(ws, elems, from, v.start, n)
  <2>1. Len(vs) \in Nat
    OBVIOUS
  <2> QED
    BY <1>1, <2>1, FillsMore
<1>7. ASSUME NEW k \in 1..(l + 1)
      PROVE  StartOf(ws, es, from, k) = StartOf(ws, elems, from, k)
  <2>1. k # 1 => k - 1 \in 1..l
    OBVIOUS
  <2> QED
    BY <1>4, <2>1 DEF StartOf
<1>8. ASSUME NEW k \in 1..(l + 1)
      PROVE  es[k] \in 1..n /\ ws[es[k]].start = StartOf(ws, es, from, k)
  <2>1. CASE k = l + 1
    BY <1>3, <1>4, <1>5, <1>6, <1>7, <2>1 DEF Fills
  <2>2. CASE k # l + 1
    <3>1. k \in 1..l
      BY <2>2
    <3>2. elems[k] \in 1..n /\ ws[elems[k]].start = StartOf(ws, elems, from, k)
      BY <1>3, <1>6, <3>1 DEF Fills
    <3> QED
      BY <1>4, <1>7, <3>1, <3>2
  <2> QED
    BY <2>1, <2>2
<1>9. StartOf(ws, es, from, (l + 1) + 1) = v.end + 1
  <2>1. (l + 1) + 1 # 1 /\ ((l + 1) + 1) - 1 = l + 1
    OBVIOUS
  <2> QED
    BY <1>4, <1>5, <2>1, Zenon DEF StartOf
<1>10. Fills(ws, es, from, v.end + 1, n)
  BY <1>4, <1>8, <1>9 DEF Fills
<1> QED
  BY <1>1, <1>2, <1>10

\* A list or dictionary may be added whose values fill it.
LEMMA TiledNext ==
    ASSUME NEW vs \in Seq(Parsed), NEW v \in Parsed, Tiled(vs),
           Compound(v) => Fills(vs, v.elems, v.start + 1, v.end, Len(vs))
    PROVE  Tiled(Append(vs, v))
<1>1. PICK ws : ws = Append(vs, v)
  OBVIOUS
<1>2. PICK n \in Nat : n = Len(vs)
  OBVIOUS
<1>3. Len(ws) = n + 1 /\ ws[n + 1] = v /\ \A i \in 1..n : ws[i] = vs[i]
  BY <1>1, <1>2
<1>4. ASSUME NEW i \in 1..(n + 1), Compound(ws[i])
      PROVE  Fills(ws, ws[i].elems, ws[i].start + 1, ws[i].end, i - 1)
  <2>1. CASE i = n + 1
    <3>1. Fills(vs, v.elems, v.start + 1, v.end, n)
      BY <1>2, <1>3, <1>4, <2>1
    <3>2. v.elems \in Seq(Nat)
      BY DEF Parsed
    <3>3. Fills(ws, v.elems, v.start + 1, v.end, n)
      BY <1>1, <1>2, <3>1, <3>2, FillsMore
    <3>4. i - 1 = n
      BY <2>1
    <3> QED
      BY <1>3, <2>1, <3>3, <3>4
  <2>2. CASE i # n + 1
    <3>1. i \in 1..n /\ i - 1 \in Nat /\ i - 1 <= n
      BY <2>2
    <3>2. PICK u \in Parsed : u = vs[i]
      BY <1>2, <3>1
    <3>3. Fills(vs, u.elems, u.start + 1, u.end, i - 1)
      BY <1>2, <1>3, <1>4, <3>1, <3>2 DEF Tiled
    <3>4. u.elems \in Seq(Nat)
      BY DEF Parsed
    <3>5. Fills(ws, u.elems, u.start + 1, u.end, i - 1)
      BY <1>1, <1>2, <3>1, <3>3, <3>4, FillsMore
    <3> QED
      BY <1>3, <3>1, <3>2, <3>5
  <2> QED
    BY <2>1, <2>2
<1> QED
  BY <1>1, <1>3, <1>4 DEF Tiled

\* The innermost call gets a value.
LEMMA WaitsNext ==
    ASSUME NEW vs \in Seq(Parsed), NEW v \in Parsed, NEW stk \in Seq(Frame), stk # <<>>,
           Waits(vs, stk, v.start),
           NEW n \in Nat, n = Len(vs) + 1,
           NEW elems, elems = Append(stk[Len(stk)].elems, n)
    PROVE  Waits(Append(vs, v), [stk EXCEPT ![Len(stk)].elems = elems], v.end + 1)
<1>1. PICK ws : ws = Append(vs, v)
  OBVIOUS
<1>2. PICK l \in Nat : l = Len(stk) /\ l # 0
  OBVIOUS
<1>3. PICK new : new = [stk EXCEPT ![Len(stk)].elems = elems]
  OBVIOUS
<1>9. PICK fr : fr = [stk[Len(stk)] EXCEPT !.elems = elems]
  OBVIOUS
<1>10. elems \in Seq(Nat)
  <2>2. PICK x \in Frame : x = stk[Len(stk)]
    BY <1>2
  <2>1. stk[Len(stk)].elems \in Seq(Nat)
    BY <2>2 DEF Frame
  <2> QED
    BY <2>1
<1>11. fr \in Frame /\ fr.elems = elems /\ fr.start = stk[l].start
  <2>1. stk[Len(stk)] \in Frame
    BY <1>2
  <2> QED
    BY <1>2, <1>9, <1>10, <2>1 DEF Frame
<1>12. new = [stk EXCEPT ![l] = fr]
  BY <1>2, <1>3, <1>9
<1>4. Len(new) = l /\ new[l] = fr /\ \A d \in 1..l : d # l => new[d] = stk[d]
  BY <1>2, <1>11, <1>12, ExceptSeq
<1>5. \A d \in 1..l : stk[d] \in Frame
  BY <1>2
<1>6. new[l].elems = elems /\ \A d \in 1..l : new[d].start = stk[d].start
  BY <1>4, <1>11
<1>7. Len(ws) = n
  BY <1>1
<1>8. ASSUME NEW d \in 1..l
      PROVE  Fills(ws, new[d].elems, new[d].start + 1,
                   IF d = l THEN v.end + 1 ELSE new[d + 1].start, n)
  <2>1. PICK es \in Seq(Nat) : es = stk[d].elems
    BY <1>5 DEF Frame
  <2>2. Fills(vs, es, stk[d].start + 1, IF d = l THEN v.start ELSE stk[d + 1].start, Len(vs))
    BY <1>2, <2>1 DEF Waits
  <2>3. CASE d = l
    <3>1. Fills(vs, es, stk[d].start + 1, v.start, Len(vs))
      BY <2>2, <2>3
    <3>2. elems = Append(es, n)
      BY <1>2, <2>1, <2>3
    <3>3. Fills(ws, elems, stk[d].start + 1, v.end + 1, n)
      BY <1>1, <3>1, <3>2, FillsNext
    <3> QED
      BY <1>6, <2>3, <3>3
  <2>4. CASE d # l
    <3>1. Fills(vs, es, stk[d].start + 1, stk[d + 1].start, Len(vs))
      BY <2>2, <2>4
    <3>2. Len(vs) \in Nat /\ Len(vs) <= n
      OBVIOUS
    <3>3. Fills(ws, es, stk[d].start + 1, stk[d + 1].start, n)
      <4>1. PICK from : from = stk[d].start + 1
        OBVIOUS
      <4>2. PICK to : to = stk[d + 1].start
        OBVIOUS
      <4>3. PICK k \in Nat : k = Len(vs)
        OBVIOUS
      <4>4. Fills(vs, es, from, to, k) /\ k <= Len(vs) /\ k <= n
        BY <3>1, <3>2, <4>1, <4>2, <4>3
      <4>5. Fills(ws, es, from, to, n)
        BY <1>1, <4>4, FillsMore
      <4> QED
        BY <4>1, <4>2, <4>5
    <3>4. new[d].elems = es /\ new[d].start = stk[d].start /\ new[d + 1].start = stk[d + 1].start
      BY <1>4, <1>6, <2>1, <2>4
    <3> QED
      BY <2>4, <3>3, <3>4
  <2> QED
    BY <2>3, <2>4
<1> QED
  BY <1>1, <1>3, <1>4, <1>7, <1>8 DEF Waits

\* The innermost call returns.
LEMMA WaitsFront ==
    ASSUME NEW vs, NEW stk \in Seq(Frame), stk # <<>>, NEW p, Waits(vs, stk, p)
    PROVE  /\ Front(stk) \in Seq(Frame)
           /\ Waits(vs, Front(stk), stk[Len(stk)].start)
           /\ Fills(vs, stk[Len(stk)].elems, stk[Len(stk)].start + 1, p, Len(vs))
<1>1. PICK l \in Nat : l = Len(stk) /\ l # 0
  OBVIOUS
<1>2. PICK f : f = Front(stk)
  OBVIOUS
<1>3. f \in Seq(Frame) /\ Len(f) = l - 1 /\ \A d \in 1..(l - 1) : f[d] = stk[d]
  BY <1>1, <1>2 DEF Front
<1>4. ASSUME NEW d \in 1..(l - 1)
      PROVE  Fills(vs, f[d].elems, f[d].start + 1,
                   IF d = l - 1 THEN stk[l].start ELSE f[d + 1].start, Len(vs))
  <2>1. d \in 1..l /\ d # l
    OBVIOUS
  <2>2. Fills(vs, stk[d].elems, stk[d].start + 1, stk[d + 1].start, Len(vs))
    BY <1>1, <2>1 DEF Waits
  <2>3. d # l - 1 => f[d + 1] = stk[d + 1]
    BY <1>3
  <2>4. d = l - 1 => d + 1 = l
    OBVIOUS
  <2> QED
    BY <1>3, <2>2, <2>3, <2>4
<1>5. Waits(vs, f, stk[l].start)
  BY <1>3, <1>4 DEF Waits
<1>6. Fills(vs, stk[l].elems, stk[l].start + 1, p, Len(vs))
  <2>1. l \in 1..l
    BY <1>1
  <2> QED
    BY <1>1, <2>1 DEF Waits
<1> QED
  BY <1>1, <1>2, <1>3, <1>5, <1>6

\* A call begins.
LEMMA WaitsPush ==
    ASSUME NEW vs, NEW stk \in Seq(Frame), NEW p, Waits(vs, stk, p),
           NEW f \in Frame, f.start = p, f.elems = <<>>
    PROVE  Waits(vs, Append(stk, f), p + 1)
<1>1. PICK l \in Nat : l = Len(stk)
  OBVIOUS
<1>2. PICK new : new = Append(stk, f)
  OBVIOUS
<1>3. Len(new) = l + 1 /\ new[l + 1] = f /\ \A d \in 1..l : new[d] = stk[d]
  BY <1>1, <1>2
<1>4. Fills(vs, <<>>, p + 1, p + 1, Len(vs))
  BY DEF Fills, StartOf
<1>5. ASSUME NEW d \in 1..(l + 1)
      PROVE  Fills(vs, new[d].elems, new[d].start + 1,
                   IF d = l + 1 THEN p + 1 ELSE new[d + 1].start, Len(vs))
  <2>1. CASE d = l + 1
    BY <1>3, <1>4, <2>1
  <2>2. CASE d # l + 1
    <3>1. d \in 1..l
      BY <2>2
    <3>2. Fills(vs, stk[d].elems, stk[d].start + 1, IF d = l THEN p ELSE stk[d + 1].start, Len(vs))
      BY <1>1, <3>1 DEF Waits
    <3>3. new[d + 1].start = IF d = l THEN p ELSE stk[d + 1].start
      <4>1. d # l => d + 1 \in 1..l
        BY <3>1
      <4> QED
        BY <1>3, <4>1
    <3> QED
      BY <1>3, <2>2, <3>1, <3>2, <3>3
  <2> QED
    BY <2>1, <2>2
<1> QED
  BY <1>2, <1>3, <1>5 DEF Waits

-----------------------------------------------------------------------------
(* The inductive invariant of the parser.                                    *)

ParserTypes ==
    /\ TextOK
    /\ pos \in Nat /\ stack \in Seq(Frame) /\ vals \in Seq(Parsed)
    /\ code \in {"run", "eof", "bad", "crash", "ok", "undef", "overrun", "written"}
    /\ out \in Seq(Chars) /\ outlen \in Int

\* The parser goes on only before the end of the text.
Inside ==
    /\ code = "run" =>
           /\ \A i \in 1..Len(vals) : vals[i].end < Len(text)
           /\ stack # <<>> => pos < Len(text)
    /\ code = "ok" =>
           /\ vals # <<>>
           /\ \A i \in 1..Len(vals) :
                  vals[i].end < Len(text) \/ (i = Len(vals) /\ ~Compound(vals[i]))

\* A string has the length that was read, unless that is negative.
Measured(v) ==
    v.type = "str" => (v.num >= 0 /\ Len(v.str) = v.num) \/ (v.num < 0 /\ HugeNumber)

Numbers ==
    /\ \A i \in 1..Len(vals) : Measured(vals[i])
    /\ code = "crash" => HugeNumber
    /\ code = "overrun" => \E i \in 1..Len(vals) : vals[i].num = IntMin
    /\ code = "written" => Len(out) = outlen

ParserInv ==
    ParserTypes /\ Tiled(vals) /\ Waits(vals, stack, pos) /\ Inside /\ Numbers

\* The text decides whether it holds such a number.
LEMMA HugeStays ==
    ASSUME text' = text, beyond' = beyond
    PROVE  HugeNumber' = HugeNumber
<1>1. \A d : At(d)' = At(d)
  BY DEF At, Eof
<1> QED
  BY <1>1 DEF HugeNumber, Huge, Digits

\* An answer other than a value leaves what was read as it is.
LEMMA AnswerKeeps ==
    ASSUME ParserInv, NEW c \in {"eof", "bad", "crash", "undef"}, c = "crash" => HugeNumber,
           Answer(c)
    PROVE  ParserInv'
<1>1. /\ code' = c /\ text' = text /\ beyond' = beyond /\ pos' = pos /\ stack' = stack
      /\ vals' = vals /\ out' = out /\ outlen' = outlen
  BY DEF Answer
<1>2. HugeNumber' = HugeNumber
  BY <1>1, HugeStays
<1>3. ParserTypes'
  BY <1>1 DEF ParserInv, ParserTypes, TextOK
<1>4. Tiled(vals)' /\ Waits(vals, stack, pos)'
  BY <1>1 DEF ParserInv, Tiled, Waits
<1>5. Inside'
  BY <1>1 DEF Inside
<1>6. Numbers'
  BY <1>1, <1>2 DEF ParserInv, Numbers, Measured
<1> QED
  BY <1>3, <1>4, <1>5, <1>6 DEF ParserInv

\* A value that may be returned to callers.
Returnable(v, callers) ==
    /\ v \in Parsed /\ callers \in Seq(Frame)
    /\ Waits(vals, callers, v.start)
    /\ Compound(v) => v.end < Len(text) /\ Fills(vals, v.elems, v.start + 1, v.end, Len(vals))
    /\ Measured(v)

\* How a call that returns leaves its caller.
LEMMA FinishCodes ==
    ASSUME ParserInv, code = "run", NEW v, NEW callers, Returnable(v, callers),
           Finish(v, v.end + 1, callers)
    PROVE  /\ code' \in {"run", "eof", "bad", "crash", "ok"}
           /\ code' = "ok" => callers = <<>>
           /\ code' = "run" => callers # <<>> /\ ~Eof(v.end + 1)
           /\ code' = "crash" => HugeNumber
<1> DEFINE top == callers[Len(callers)]
           n == Len(vals) + 1
           elems == Append(top.elems, n)
           fin == Append(vals, v)
           key == fin[elems[Len(elems) - 1]]
<1>1. CASE callers = <<>>
  BY <1>1 DEF Finish
<1>2. CASE callers # <<>>
  <2>1. code' \in IF Eof(v.end + 1) THEN {"eof"}
                  ELSE IF top.type = "dict" /\ Len(elems) % 2 = 0 THEN PutKey(key)
                  ELSE {"run"}
    BY <1>2 DEF Finish
  <2>2. CASE Eof(v.end + 1)
    BY <1>2, <2>1, <2>2
  <2>3. CASE ~Eof(v.end + 1) /\ ~(top.type = "dict" /\ Len(elems) % 2 = 0)
    <3>1. code' = "run"
      <4> HIDE DEF elems, top, key
      <4> QED
        BY <2>1, <2>3
    <3> QED
      BY <1>2, <2>3, <3>1
  <2>4. CASE ~Eof(v.end + 1) /\ top.type = "dict" /\ Len(elems) % 2 = 0
    <3>1. code' \in PutKey(key)
      <4> HIDE DEF elems, top, key
      <4> QED
        BY <2>1, <2>4
    <3>2. PICK es \in Seq(Nat) : es = top.elems
      <4>1. PICK f \in Frame : f = top
        BY <1>2 DEF Returnable
      <4> HIDE DEF top
      <4> QED
        BY <4>1 DEF Frame
    <3>3. PICK l \in Nat : l = Len(es)
      OBVIOUS
    <3>4. /\ n \in Nat /\ Len(elems) = l + 1
          /\ \A k \in 1..l : elems[k] = es[k]
      <4>1. n \in Nat
        BY DEF ParserInv, ParserTypes
      <4> HIDE DEF n, top
      <4> QED
        BY <3>2, <3>3, <4>1
    <3>5. l \in 1..l /\ Len(elems) - 1 = l
      <4>1. (l + 1) % 2 = 0
        <5> HIDE DEF elems
        <5> QED
          BY <2>4, <3>4
      <4>2. l # 0
        BY <4>1
      <4> HIDE DEF elems
      <4> QED
        BY <3>4, <4>2
    <3>6. es[l] \in 1..Len(vals)
      <4>1. Fills(vals, es, top.start + 1, v.start, Len(vals))
        BY <1>2, <3>2, WaitsFront DEF Returnable
      <4> QED
        BY <3>3, <3>5, <4>1 DEF Fills
    <3>7. key = vals[es[l]]
      <4>1. elems[Len(elems) - 1] = es[l]
        BY <3>4, <3>5, Zenon
      <4> HIDE DEF elems
      <4>2. fin[es[l]] = vals[es[l]]
        BY <3>6 DEF ParserInv, ParserTypes, Returnable
      <4> QED
        BY <4>1, <4>2
    <3>8. Measured(key) /\ key.num \in Int
      <4>1. Measured(vals[es[l]])
        BY <3>6 DEF ParserInv, Numbers
      <4>2. vals[es[l]] \in Parsed
        BY <3>6 DEF ParserInv, ParserTypes
      <4>3. IntMin..IntMax \subseteq Int
        BY WidthFacts
      <4>4. vals[es[l]].num \in Int
        BY <4>2, <4>3 DEF Parsed
      <4> HIDE DEF key
      <4> QED
        BY <3>7, <4>1, <4>4
    <3> HIDE DEF key, top, elems
    <3>9. code' \in {"bad", "crash", "run"} /\ (code' = "crash" => HugeNumber)
      BY <3>1, <3>8 DEF PutKey, Measured
    <3> QED
      BY <1>2, <2>4, <3>9
  <2> HIDE DEF elems, top, key
  <2> QED
    BY <2>2, <2>3, <2>4
<1> QED
  BY <1>1, <1>2

\* A value is returned to its caller.
LEMMA FinishKeeps ==
    ASSUME ParserInv, code = "run", NEW v, NEW callers, Returnable(v, callers),
           Finish(v, v.end + 1, callers)
    PROVE  ParserInv'
<1>1. /\ vals' = Append(vals, v) /\ pos' = v.end + 1
      /\ text' = text /\ beyond' = beyond /\ out' = out /\ outlen' = outlen
  BY DEF Finish
<1>2. /\ code' \in {"run", "eof", "bad", "crash", "ok"}
      /\ code' = "ok" => callers = <<>>
      /\ code' = "run" => callers # <<>> /\ ~Eof(v.end + 1)
      /\ code' = "crash" => HugeNumber
  BY FinishCodes
<1>3. HugeNumber' = HugeNumber
  BY <1>1, HugeStays
<1>4. PICK n \in Nat : n = Len(vals)
  BY DEF ParserInv, ParserTypes
<1>5. /\ v \in Parsed /\ v.end \in Nat /\ v.end + 1 \in Nat /\ vals \in Seq(Parsed)
      /\ Len(vals') = n + 1 /\ vals'[n + 1] = v /\ \A i \in 1..n : vals'[i] = vals[i]
      /\ vals' \in Seq(Parsed)
  <2>1. v \in Parsed /\ vals \in Seq(Parsed)
    BY DEF Returnable, ParserInv, ParserTypes
  <2>2. v.end \in Nat /\ v.end + 1 \in Nat
    BY <2>1 DEF Parsed
  <2> QED
    BY <1>1, <1>4, <2>1, <2>2, AppendProperties
<1>6. Tiled(vals)'
  BY <1>1, <1>5, TiledNext DEF ParserInv, Returnable
<1>7. stack' \in Seq(Frame) /\ Waits(vals', stack', v.end + 1)
  <2>1. CASE callers = <<>>
    <3>1. stack' = <<>>
      BY <2>1 DEF Finish
    <3> QED
      BY <3>1 DEF Waits
  <2>2. CASE callers # <<>>
    <3>1. PICK elems : /\ elems = Append(callers[Len(callers)].elems, Len(vals) + 1)
                       /\ stack' = [callers EXCEPT ![Len(callers)].elems = elems]
      BY <2>2 DEF Finish
    <3>2. Waits(vals', stack', v.end + 1)
      <4>1. callers \in Seq(Frame) /\ Waits(vals, callers, v.start)
        BY DEF Returnable
      <4>2. n + 1 \in Nat /\ n + 1 = Len(vals) + 1
        BY <1>4
      <4>3. elems = Append(callers[Len(callers)].elems, n + 1)
        BY <1>4, <3>1
      <4>4. PICK m \in Nat : m = n + 1
        BY <4>2
      <4>5. Waits(Append(vals, v), [callers EXCEPT ![Len(callers)].elems = elems], v.end + 1)
        BY <1>5, <2>2, <4>1, <4>2, <4>3, <4>4, WaitsNext
      <4> QED
        BY <1>1, <3>1, <4>5
    <3>3. stack' \in Seq(Frame)
      <4>1. PICK l \in Nat : l = Len(callers) /\ l # 0 /\ callers \in Seq(Frame)
        BY <2>2 DEF Returnable
      <4>2. PICK f \in Frame : f = callers[Len(callers)]
        BY <4>1
      <4>3. elems \in Seq(Nat)
        BY <1>4, <3>1, <4>2 DEF Frame
      <4>4. PICK g : g = [f EXCEPT !.elems = elems]
        OBVIOUS
      <4>5. g \in Frame
        BY <4>3, <4>4 DEF Frame
      <4>6. stack' = [callers EXCEPT ![l] = g]
        BY <3>1, <4>1, <4>2, <4>4
      <4> QED
        BY <4>1, <4>5, <4>6, ExceptSeq
    <3> QED
      BY <3>2, <3>3
  <2> QED
    BY <2>1, <2>2
<1>8. ParserTypes'
  BY <1>1, <1>2, <1>5, <1>7 DEF ParserInv, ParserTypes, TextOK
<1>9. Inside'
  <2>1. Len(text) \in Nat /\ \A i \in 1..n : vals[i].end < Len(text)
    BY <1>4, EofIs DEF ParserInv, ParserTypes, TextOK, Inside
  <2>2. code' = "run" => v.end + 1 < Len(text)
    BY <1>2, <1>5, EofIs DEF ParserInv, ParserTypes
  <2>3. CASE code' = "run"
    <3>1. \A i \in 1..(n + 1) : vals'[i].end < Len(text)
      <4> SUFFICES ASSUME NEW i \in 1..(n + 1) PROVE vals'[i].end < Len(text)
        OBVIOUS
      <4>1. i \in 1..n \/ i = n + 1
        OBVIOUS
      <4>2. v.end < Len(text)
        BY <1>5, <2>1, <2>2, <2>3
      <4> QED
        BY <1>5, <2>1, <4>1, <4>2
    <3> QED
      BY <1>1, <1>5, <2>2, <2>3, <3>1 DEF Inside
  <2>4. CASE code' = "ok"
    <3>1. \A i \in 1..(n + 1) :
              vals'[i].end < Len(text) \/ (i = n + 1 /\ ~Compound(vals'[i]))
      <4> SUFFICES ASSUME NEW i \in 1..(n + 1)
                   PROVE  vals'[i].end < Len(text) \/ (i = n + 1 /\ ~Compound(vals'[i]))
        OBVIOUS
      <4>1. i \in 1..n \/ i = n + 1
        OBVIOUS
      <4>2. Compound(v) => v.end < Len(text)
        BY DEF Returnable
      <4> QED
        BY <1>5, <2>1, <4>1, <4>2
    <3>2. vals' # <<>>
      BY <1>5
    <3> QED
      BY <1>1, <1>5, <2>4, <3>1, <3>2 DEF Inside
  <2> QED
    BY <2>3, <2>4 DEF Inside
<1>10. Numbers'
  <2>1. ASSUME NEW i \in 1..(n + 1) PROVE Measured(vals'[i])
    <3>1. i \in 1..n \/ i = n + 1
      OBVIOUS
    <3> QED
      BY <1>4, <1>5, <3>1 DEF ParserInv, Numbers, Returnable
  <2>2. \A i \in 1..Len(vals') : Measured(vals[i])'
    BY <1>3, <1>5, <2>1 DEF Measured
  <2> QED
    BY <1>2, <1>3, <2>2 DEF Numbers
<1> QED
  BY <1>1, <1>6, <1>7, <1>8, <1>9, <1>10 DEF ParserInv

\* An integer or a string may be returned to the innermost call.
LEMMA TokenReturnable ==
    ASSUME ParserInv, NEW v, Token(v), v.num < 0 /\ v.type = "str" => HugeNumber
    PROVE  Returnable(v, stack)
<1>1. ~Compound(v) /\ v.start = pos /\ v \in Parsed
  BY DEF Token, Compound
<1>2. v.num \in Int
  <2>1. IntMin..IntMax \subseteq Int
    BY WidthFacts
  <2> QED
    BY <1>1, <2>1 DEF Parsed
<1>3. Measured(v)
  BY <1>2 DEF Token, Measured
<1> QED
  BY <1>1, <1>3 DEF Returnable, ParserInv, ParserTypes

\* b_parse_list and b_parse_dict begin.
LEMMA OpenKeeps ==
    ASSUME ParserInv, code = "run", Open
    PROVE  ParserInv'
<1>1. CASE Eof(pos + 1)
  <2>1. Answer("eof")
    BY <1>1 DEF Open
  <2> QED
    BY <2>1, AnswerKeeps
<1>2. CASE ~Eof(pos + 1)
  <2>1. PICK f : /\ f = [type |-> IF At(pos) = "l" THEN "list" ELSE "dict",
                         start |-> pos, elems |-> <<>>]
                 /\ stack' = Append(stack, f)
    BY <1>2 DEF Open
  <2>2. /\ pos' = pos + 1 /\ text' = text /\ beyond' = beyond /\ vals' = vals
        /\ code' = code /\ out' = out /\ outlen' = outlen
    BY <1>2 DEF Open
  <2>3. f \in Frame /\ f.start = pos /\ f.elems = <<>>
    <3>1. pos \in Nat /\ <<>> \in Seq(Nat)
      BY DEF ParserInv, ParserTypes
    <3> QED
      BY <2>1, <3>1 DEF Frame
  <2>4. HugeNumber' = HugeNumber
    BY <2>2, HugeStays
  <2>5. ParserTypes'
    BY <2>1, <2>2, <2>3 DEF ParserInv, ParserTypes, TextOK
  <2>6. Tiled(vals)'
    BY <2>2 DEF ParserInv, Tiled
  <2>7. Waits(vals, stack, pos)'
    <3>1. Waits(vals, Append(stack, f), pos + 1)
      BY <2>3, WaitsPush DEF ParserInv, ParserTypes
    <3> QED
      BY <2>1, <2>2, <3>1
  <2>8. Inside'
    <3>1. pos + 1 < Len(text)
      BY <1>2, EofIs DEF ParserInv, ParserTypes
    <3> QED
      BY <2>2, <3>1 DEF ParserInv, Inside
  <2>9. Numbers'
    BY <2>2, <2>4 DEF ParserInv, Numbers, Measured
  <2> QED
    BY <2>5, <2>6, <2>7, <2>8, <2>9 DEF ParserInv
<1> QED
  BY <1>1, <1>2

\* They have met their 'e'.
LEMMA CloseKeeps ==
    ASSUME ParserInv, code = "run", stack # <<>>, Close
    PROVE  ParserInv'
<1> DEFINE v == Value(Top.type, Top.start, pos, 0, <<>>, Top.elems)
<1>1. Finish(v, pos + 1, Front(stack))
  BY DEF Close
<1>2. Top \in Frame /\ pos \in Nat /\ stack \in Seq(Frame) /\ pos < Len(text)
  BY DEF ParserInv, ParserTypes, Inside, Top
<1>3. /\ Front(stack) \in Seq(Frame) /\ Waits(vals, Front(stack), Top.start)
      /\ Fills(vals, Top.elems, Top.start + 1, pos, Len(vals))
  BY <1>2, WaitsFront DEF ParserInv, Top
<1>4. /\ v \in Parsed /\ v.start = Top.start /\ v.end = pos /\ v.elems = Top.elems
      /\ v.type \in {"list", "dict"}
  <2>1. 0 \in IntMin..IntMax /\ <<>> \in Seq(Chars)
    BY WidthFacts
  <2> QED
    BY <1>2, <2>1 DEF Value, Parsed, Frame
<1> HIDE DEF v
<1>5. Returnable(v, Front(stack))
  BY <1>2, <1>3, <1>4 DEF Returnable, Measured
<1> QED
  BY <1>1, <1>4, <1>5, FinishKeeps

\* Every step of the parser keeps the invariant.
LEMMA ParseKeeps ==
    ASSUME ParserInv, Parse
    PROVE  ParserInv'
<1>1. code = "run" /\ pos \in Nat /\ TextOK
  BY DEF Parse, ParserInv, ParserTypes
<1>2. ASSUME NEW c \in {"eof", "bad"}, Answer(c) PROVE ParserInv'
  BY <1>2, AnswerKeeps
<1>3. ASSUME NEW v, Token(v), v.num < 0 /\ v.type = "str" => HugeNumber,
             Finish(v, v.end + 1, stack)
      PROVE  ParserInv'
  <2>1. Returnable(v, stack)
    BY <1>3, TokenReturnable
  <2> QED
    BY <1>1, <1>3, <2>1, FinishKeeps
<1>4. CASE Calls /\ Eof(pos) /\ Answer("eof")
  BY <1>2, <1>4
<1>5. CASE ~Eof(pos) /\ ParseInt
  <2>1. Answer("eof") \/ Answer("bad") \/ \E v : Token(v) /\ v.type = "int" /\ Finish(v, v.end + 1, stack)
    BY <1>1, <1>5, IntReturns
  <2> QED
    BY <1>2, <1>3, <2>1
<1>6. CASE ~Eof(pos) /\ ParseString
  <2>1. \/ Answer("eof") \/ Answer("bad") \/ (Answer("crash") /\ HugeNumber)
        \/ \E v : Token(v) /\ (v.num < 0 => HugeNumber) /\ Finish(v, v.end + 1, stack)
    BY <1>1, <1>6, StringReturns
  <2>2. CASE Answer("crash") /\ HugeNumber
    BY <2>2, AnswerKeeps
  <2> QED
    BY <1>2, <1>3, <2>1, <2>2
<1>7. CASE Open
  BY <1>1, <1>7, OpenKeeps
<1>8. CASE ParseOther
  BY <1>2, <1>8 DEF ParseOther
<1>9. CASE ~Calls /\ Close
  <2>1. stack # <<>>
    BY <1>9 DEF Calls
  <2> QED
    BY <1>1, <1>9, <2>1, CloseKeeps
<1> QED
  BY <1>4, <1>5, <1>6, <1>7, <1>8, <1>9 DEF Parse

-----------------------------------------------------------------------------
(* What b_to_string_len counts.                                              *)

\* A key is a prefix of the string.
LEMMA CStringType ==
    ASSUME NEW s \in Seq(Chars)
    PROVE  CString(s) \in Seq(Chars)
<1>1. PICK l \in Nat : l = Len(s)
  OBVIOUS
<1> DEFINE Stop(n) == n = l \/ s[n + 1] = "nul"
           T == {n \in 0..l : Stop(n)}
           End(n) == Stop(n) /\ \A k \in 1..n : s[k] # "nul"
<1>2. PICK n \in T : \A k \in T : n <= k
  <2>1. T \subseteq Nat /\ T # {}
    BY <1>1
  <2> HIDE DEF T
  <2> QED
    BY <2>1, LeastNumber
<1>3. ASSUME NEW k \in 1..n PROVE s[k] # "nul"
  <2>1. k - 1 \in 0..l /\ (k - 1) + 1 = k /\ ~(n <= k - 1)
    BY <1>1, <1>2
  <2>2. k - 1 \notin T
    BY <1>2, <2>1
  <2> QED
    BY <2>1, <2>2
<1>4. n \in 0..l /\ End(n)
  BY <1>2, <1>3
<1>5. PICK e \in 0..l : e = CHOOSE x \in 0..l : End(x)
  <2> HIDE DEF End
  <2> QED
    BY <1>4
<1>6. CString(s) = SubSeq(s, 1, e)
  BY <1>1, <1>5 DEF CString
<1>7. \A i \in 1..e : s[i] \in Chars
  BY <1>1, <1>5
<1> QED
  BY <1>1, <1>5, <1>6, <1>7, SubSeqProperties

\* What the encoder is given: values made of earlier ones, and no string of a
\* length other than its number.
Encodable(vs) ==
    /\ vs \in Seq(Parsed) /\ vs # <<>>
    /\ \A i \in 1..Len(vs) :
           /\ Compound(vs[i]) =>
                  \A k \in 1..Len(vs[i].elems) : vs[i].elems[k] \in 1..(i - 1)
           /\ vs[i].type = "str" => vs[i].num >= 0 /\ Len(vs[i].str) = vs[i].num

\* Half of the values of a dictionary are keys.
LEMMA PairFacts ==
    ASSUME Encodable(vals), NEW i \in 1..Len(vals)
    PROVE  \E p \in Nat :
               /\ Pairs(i) = 1..p
               /\ \A k \in 1..p : 2 * k - 1 \in 1..Len(vals[i].elems) /\ 2 * k \in 1..Len(vals[i].elems)
<1>1. PICK v \in Parsed : v = vals[i]
  BY DEF Encodable
<1>2. PICK l \in Nat : l = Len(v.elems)
  BY DEF Parsed
<1>3. PICK p \in Nat : p = l \div 2
  OBVIOUS
<1>4. \A k \in 1..p : 2 * k - 1 \in 1..l /\ 2 * k \in 1..l
  BY <1>3
<1> QED
  BY <1>1, <1>2, <1>3, <1>4 DEF Pairs

\* A dictionary's keys and values.
LEMMA KeyType ==
    ASSUME Encodable(vals), NEW i \in 1..Len(vals), vals[i].type = "dict", NEW k \in Pairs(i)
    PROVE  Key(i, k) \in Seq(Chars) /\ vals[i].elems[2 * k] \in 1..(i - 1)
<1>1. 2 * k - 1 \in 1..Len(vals[i].elems) /\ 2 * k \in 1..Len(vals[i].elems)
  BY PairFacts
<1>2. \A j \in 1..Len(vals[i].elems) : vals[i].elems[j] \in 1..(i - 1)
  BY DEF Encodable, Compound
<1>3. PICK j \in 1..(i - 1) : j = vals[i].elems[2 * k - 1]
  BY <1>1, <1>2
<1>4. vals[j] \in Parsed
  <2>1. j \in 1..Len(vals)
    BY DEF Encodable
  <2> QED
    BY <2>1 DEF Encodable
<1>5. vals[j].str \in Seq(Chars)
  BY <1>4 DEF Parsed
<1> QED
  BY <1>1, <1>2, <1>3, <1>5, CStringType DEF Key

-----------------------------------------------------------------------------
CountPair(l, i, k) ==
    Declen(Len(Key(i, k))) + 1 + Len(Key(i, k)) + l[vals[i].elems[2 * k]]

CountList(l, i) == [k \in DOMAIN vals[i].elems |-> l[vals[i].elems[k]]]
CountDict(l, i) == [k \in Pairs(i) |-> CountPair(l, i, k)]

\* What b_to_string_len makes of the lengths of earlier values.
LengthOf(l, i) ==
    CASE vals[i].type = "str" -> Declen(vals[i].num) + 1 + vals[i].num
      [] vals[i].type = "int" -> 1 + Declen(vals[i].num) + 1
      [] vals[i].type = "list" -> 2 + SumFunction(CountList(l, i))
      [] vals[i].type = "dict" -> 2 + SumFunction(CountDict(l, i))

\* Only earlier values count.
LEMMA CountSame ==
    ASSUME Encodable(vals), NEW i \in 1..Len(vals), NEW l, NEW h,
           \A j \in 1..(i - 1) : l[j] = h[j]
    PROVE  LengthOf(l, i) = LengthOf(h, i)
<1>1. vals[i].type \in {"int", "str", "list", "dict"}
  <2>1. vals[i] \in Parsed
    BY DEF Encodable
  <2> QED
    BY <2>1 DEF Parsed
<1>2. CASE vals[i].type \in {"int", "str"}
  BY <1>2 DEF LengthOf
<1>3. CASE vals[i].type = "list"
  <2>1. \A k \in 1..Len(vals[i].elems) : vals[i].elems[k] \in 1..(i - 1)
    BY <1>3 DEF Encodable, Compound
  <2>2. CountList(l, i) = CountList(h, i)
    BY <2>1 DEF CountList
  <2> QED
    BY <1>3, <2>2 DEF LengthOf
<1>4. CASE vals[i].type = "dict"
  <2>1. \A k \in Pairs(i) : CountPair(l, i, k) = CountPair(h, i, k)
    BY <1>4, KeyType DEF CountPair
  <2>2. CountDict(l, i) = CountDict(h, i)
    BY <2>1 DEF CountDict
  <2> QED
    BY <1>4, <2>2 DEF LengthOf
<1> QED
  BY <1>1, <1>2, <1>3, <1>4

\* The lengths are numbers.
LEMMA CountTypes ==
    ASSUME Encodable(vals), NEW i \in 1..Len(vals), NEW l \in [1..Len(vals) -> Int]
    PROVE  /\ LengthOf(l, i) \in Int
           /\ vals[i].type = "list" =>
                  CountList(l, i) \in [1..Len(vals[i].elems) -> Int]
           /\ vals[i].type = "dict" => CountDict(l, i) \in [Pairs(i) -> Int]
<1>1. PICK v \in Parsed : v = vals[i]
  BY DEF Encodable
<1>2. v.type \in {"int", "str", "list", "dict"} /\ v.num \in Int /\ v.elems \in Seq(Nat)
  <2>1. IntMin..IntMax \subseteq Int
    BY WidthFacts
  <2> QED
    BY <2>1 DEF Parsed
<1>3. Declen(v.num) \in Int
  <2>1. PICK x \in Int : x = v.num
    BY <1>2
  <2>2. Declen(x) \in Nat
    BY DeclenType
  <2> QED
    BY <2>1, <2>2
<1>4. PICK n \in Nat : n = Len(v.elems)
  BY <1>2
<1>5. \A j \in 1..(i - 1) : l[j] \in Int
  BY DEF Encodable
<1>6. ASSUME v.type = "list"
      PROVE  CountList(l, i) \in [1..n -> Int] /\ SumFunction(CountList(l, i)) \in Int
  <2>1. \A k \in 1..n : vals[i].elems[k] \in 1..(i - 1)
    BY <1>1, <1>4, <1>6 DEF Encodable, Compound
  <2>2. CountList(l, i) \in [1..n -> Int]
    BY <1>1, <1>4, <1>5, <2>1 DEF CountList
  <2>3. PICK g : IsSum(g, CountList(l, i), n) /\ SumFunction(CountList(l, i)) = g[1..n]
    BY <2>2, SumExists
  <2>4. g[1..n] \in Int
    BY <2>3 DEF IsSum
  <2> QED
    BY <2>2, <2>3, <2>4
<1>7. ASSUME v.type = "dict"
      PROVE  CountDict(l, i) \in [Pairs(i) -> Int] /\ SumFunction(CountDict(l, i)) \in Int
  <2>1. PICK p \in Nat : Pairs(i) = 1..p
    BY PairFacts
  <2>2. ASSUME NEW k \in Pairs(i) PROVE CountPair(l, i, k) \in Int
    <3>1. Key(i, k) \in Seq(Chars) /\ vals[i].elems[2 * k] \in 1..(i - 1)
      BY <1>1, <1>7, KeyType
    <3>2. PICK a \in Nat : a = Len(Key(i, k))
      BY <3>1
    <3>3. Declen(a) \in Nat
      BY DeclenType
    <3>4. l[vals[i].elems[2 * k]] \in Int
      BY <1>5, <3>1
    <3> QED
      BY <3>2, <3>3, <3>4 DEF CountPair
  <2>3. CountDict(l, i) \in [1..p -> Int]
    BY <2>1, <2>2 DEF CountDict
  <2>4. PICK g : IsSum(g, CountDict(l, i), p) /\ SumFunction(CountDict(l, i)) = g[1..p]
    BY <2>3, SumExists
  <2>5. g[1..p] \in Int
    BY <2>4 DEF IsSum
  <2> QED
    BY <2>1, <2>3, <2>4, <2>5
<1>8. LengthOf(l, i) \in Int
  BY <1>1, <1>2, <1>3, <1>6, <1>7 DEF LengthOf
<1> QED
  BY <1>1, <1>4, <1>6, <1>7, <1>8

IsCount(l) ==
    /\ l \in [DOMAIN vals -> Int]
    /\ \A i \in DOMAIN vals : l[i] = LengthOf(l, i)
    /\ BToStringLen = l[Len(vals)]

\* The recursion of b_to_string_len computes what it should.
LEMMA CountIs ==
    ASSUME Encodable(vals)
    PROVE  \E l : IsCount(l)
<1> DEFINE D == DOMAIN vals
           m == [i \in D |-> i]
           rec == [i \in D |-> [g \in [D -> Int] |-> LengthOf(g, i)]]
           Def(g) == [i \in D |-> LengthOf(g, i)]
           iter == CHOOSE g : g = Def(g)
<1>1. D = 1..Len(vals) /\ Len(vals) \in Nat /\ Len(vals) \in D
  BY DEF Encodable
<1>2. \A i \in D, g \in [D -> Int] : LengthOf(g, i) \in Int
  BY <1>1, CountTypes
<1>3. rec \in [D -> [[D -> Int] -> Int]] /\ m \in [D -> Nat] /\ \A i \in D : m[i] = i
  <2>1. D \subseteq Nat
    BY <1>1
  <2> HIDE DEF D
  <2> QED
    BY <1>2, <2>1
<1>4. ASSUME NEW i \in D, NEW g, NEW h, \A j \in D : j < i => g[j] = h[j]
      PROVE  LengthOf(g, i) = LengthOf(h, i)
  <2>1. \A j \in 1..(i - 1) : j \in D /\ j < i
    BY <1>1
  <2>2. \A j \in 1..(i - 1) : g[j] = h[j]
    BY <1>4, <2>1
  <2> QED
    BY <1>1, <2>2, CountSame
<1>5. ASSUME NEW i \in D, NEW g \in [D -> Int], NEW h \in [D -> Int],
             \A j \in D : m[j] < m[i] => g[j] = h[j]
      PROVE  rec[i][g] = rec[i][h]
  <2>1. LengthOf(g, i) = LengthOf(h, i)
    BY <1>3, <1>4, <1>5
  <2> QED
    BY <2>1
<1> HIDE DEF D
<1>6. PICK h : IsSolution(h, D, Int, rec)
  <2> HIDE DEF rec, m
  <2>1. Descends(D, Int, m, rec)
    BY <1>3, <1>5 DEF Descends
  <2>2. Int # {}
    OBVIOUS
  <2> QED
    BY <2>1, <2>2, RecursionHasSolution, Zenon
<1>7. h \in [D -> Int] /\ \A i \in D : h[i] = LengthOf(h, i)
  <2>1. h \in [D -> Int] /\ \A i \in D : h[i] = rec[i][h]
    <3> HIDE DEF rec
    <3> QED
      BY <1>6, Zenon DEF IsSolution
  <2> QED
    BY <2>1
<1>8. h = Def(h)
  BY <1>7
<1>9. iter = Def(iter)
  <2> HIDE DEF Def
  <2> QED
    BY <1>8, Zenon
<1>10. BToStringLen = iter[Len(vals)]
  BY DEF BToStringLen, iter, Def, D, LengthOf, CountList, CountDict, CountPair
<1> HIDE DEF iter
<1>11. \A i \in D : iter[i] = LengthOf(iter, i)
  BY <1>9
<1> DEFINE T == {k \in Nat : \A i \in D : i <= k => iter[i] = h[i]}
<1>12. 0 \in T
  BY <1>1
<1>13. ASSUME NEW k \in Nat, k \in T PROVE k + 1 \in T
  <2> SUFFICES ASSUME NEW i \in D, i <= k + 1 PROVE iter[i] = h[i]
    OBVIOUS
  <2>1. \A j \in D : j < i => j <= k
    BY <1>1
  <2>2. \A j \in D : j < i => iter[j] = h[j]
    BY <1>13, <2>1
  <2>3. LengthOf(iter, i) = LengthOf(h, i)
    BY <1>4, <2>2
  <2> QED
    BY <1>7, <1>11, <2>3
<1>14. Len(vals) \in T
  <2> HIDE DEF T
  <2> QED
    BY <1>1, <1>12, <1>13, SetInduction
<1>15. iter[Len(vals)] = h[Len(vals)]
  BY <1>1, <1>14
<1> QED
  BY <1>7, <1>10, <1>15 DEF IsCount, D

-----------------------------------------------------------------------------
(* What b_to_string writes.                                                  *)

\* Any order that qsort leaves holds every pair once.
LEMMA OrderFacts ==
    ASSUME Encodable(vals), NEW order \in Orders, NEW i \in 1..Len(vals), vals[i].type = "dict"
    PROVE  \E p \in Nat : Pairs(i) = 1..p /\ DOMAIN order[i] = 1..p /\ Permutes(order[i], p)
<1>1. PICK p \in Nat : Pairs(i) = 1..p
  BY PairFacts
<1>2. Cardinality(1..p) = p
  BY FS_Interval
<1>3. order[i] \in SetToSeqs(Pairs(i))
  <2>1. i \in DOMAIN vals /\ IsDict(i)
    BY DEF Encodable, IsDict
  <2> QED
    BY <2>1 DEF Orders
<1>4. order[i] \in {f \in [1..p -> 1..p] : \A a, b \in 1..p : a # b => f[a] # f[b]}
  BY <1>1, <1>2, <1>3 DEF SetToSeqs
<1>5. order[i] \in [1..p -> 1..p] /\ \A a, b \in 1..p : a # b => order[i][a] # order[i][b]
  BY <1>4
<1> QED
  BY <1>1, <1>5 DEF Permutes

WritePair(w, i, k) ==
    Itoa(Len(Key(i, k))) \o <<":">> \o Key(i, k) \o w[vals[i].elems[2 * k]]

WriteList(w, i) == [k \in DOMAIN vals[i].elems |-> w[vals[i].elems[k]]]
WriteDict(w, order, i) == [k \in DOMAIN order[i] |-> WritePair(w, i, order[i][k])]

\* What b_to_string makes of the texts of earlier values.
TextOf(w, order, i) ==
    CASE vals[i].type = "str" -> Itoa(vals[i].num) \o <<":">> \o vals[i].str
      [] vals[i].type = "int" -> <<"i">> \o Itoa(vals[i].num) \o <<"e">>
      [] vals[i].type = "list" -> <<"l">> \o FlattenSeq(WriteList(w, i)) \o <<"e">>
      [] vals[i].type = "dict" -> <<"d">> \o FlattenSeq(WriteDict(w, order, i)) \o <<"e">>

\* Only earlier values are written.
LEMMA TextSame ==
    ASSUME Encodable(vals), NEW order \in Orders, NEW i \in 1..Len(vals), NEW l, NEW h,
           \A j \in 1..(i - 1) : l[j] = h[j]
    PROVE  TextOf(l, order, i) = TextOf(h, order, i)
<1>1. vals[i].type \in {"int", "str", "list", "dict"}
  <2>1. vals[i] \in Parsed
    BY DEF Encodable
  <2> QED
    BY <2>1 DEF Parsed
<1>2. CASE vals[i].type \in {"int", "str"}
  BY <1>2 DEF TextOf
<1>3. CASE vals[i].type = "list"
  <2>1. \A k \in DOMAIN vals[i].elems : vals[i].elems[k] \in 1..(i - 1)
    <3>1. vals[i].elems \in Seq(Nat)
      <4>1. vals[i] \in Parsed
        BY DEF Encodable
      <4> QED
        BY <4>1 DEF Parsed
    <3> QED
      BY <1>3, <3>1 DEF Encodable, Compound
  <2>2. WriteList(l, i) = WriteList(h, i)
    BY <2>1 DEF WriteList
  <2> QED
    BY <1>3, <2>2 DEF TextOf
<1>4. CASE vals[i].type = "dict"
  <2>1. \A k \in Pairs(i) : WritePair(l, i, k) = WritePair(h, i, k)
    BY <1>4, KeyType DEF WritePair
  <2>2. \A k \in DOMAIN order[i] : order[i][k] \in Pairs(i)
    BY <1>4, OrderFacts DEF Permutes
  <2>3. WriteDict(l, order, i) = WriteDict(h, order, i)
    BY <2>1, <2>2 DEF WriteDict
  <2> QED
    BY <1>4, <2>3 DEF TextOf
<1> QED
  BY <1>1, <1>2, <1>3, <1>4

\* The characters around values.
LEMMA Marks ==
    /\ <<":">> \in Seq(Chars) /\ <<"i">> \in Seq(Chars) /\ <<"l">> \in Seq(Chars)
    /\ <<"d">> \in Seq(Chars) /\ <<"e">> \in Seq(Chars)
    /\ Len(<<":">>) = 1 /\ Len(<<"i">>) = 1 /\ Len(<<"l">>) = 1
    /\ Len(<<"d">>) = 1 /\ Len(<<"e">>) = 1
BY BencodeAssumption

\* The text of a key and its value.
LEMMA PairText ==
    ASSUME Encodable(vals), NEW i \in 1..Len(vals), vals[i].type = "dict", NEW k \in Pairs(i),
           NEW w, \A j \in 1..(i - 1) : w[j] \in Seq(Chars)
    PROVE  /\ WritePair(w, i, k) \in Seq(Chars)
           /\ Len(WritePair(w, i, k)) = Declen(Len(Key(i, k))) + 1 + Len(Key(i, k))
                                            + Len(w[vals[i].elems[2 * k]])
<1>1. PICK key \in Seq(Chars), e \in 1..(i - 1) : key = Key(i, k) /\ e = vals[i].elems[2 * k]
  BY KeyType
<1>2. PICK n \in Nat : n = Len(key)
  OBVIOUS
<1>3. PICK num \in Seq(Chars) : num = Itoa(n)
  BY ItoaType
<1>4. Len(num) = Declen(n) /\ Declen(n) \in Nat
  BY <1>3, WidthFacts, DeclenIsLength, DeclenType
<1>5. PICK s \in Seq(Chars) : s = w[e]
  OBVIOUS
<1>6. PICK x : x = num \o <<":">> \o key
  OBVIOUS
<1>7. x \in Seq(Chars) /\ Len(x) = Declen(n) + 1 + n
  <2>1. PICK colon \in Seq(Chars) : colon = <<":">> /\ Len(colon) = 1
    BY Marks
  <2>2. num \o colon \o key \in Seq(Chars) /\ Len(num \o colon \o key) = Len(num) + Len(colon) + Len(key)
    BY ThreeParts
  <2> QED
    BY <1>2, <1>4, <1>6, <2>1, <2>2
<1>8. x \o s \in Seq(Chars) /\ Len(x \o s) = Len(x) + Len(s)
  BY <1>7, ConcatProperties
<1>9. WritePair(w, i, k) = x \o s
  BY <1>1, <1>2, <1>3, <1>5, <1>6 DEF WritePair
<1> QED
  BY <1>1, <1>2, <1>5, <1>7, <1>8, <1>9

\* The texts are sequences of characters.
LEMMA TextTypes ==
    ASSUME Encodable(vals), NEW order \in Orders, NEW i \in 1..Len(vals),
           NEW w \in [1..Len(vals) -> Seq(Chars)]
    PROVE  TextOf(w, order, i) \in Seq(Chars)
<1>1. PICK v \in Parsed : v = vals[i]
  BY DEF Encodable
<1>2. /\ v.type \in {"int", "str", "list", "dict"} /\ v.num \in Int /\ v.str \in Seq(Chars)
      /\ v.elems \in Seq(Nat)
  <2>1. IntMin..IntMax \subseteq Int
    BY WidthFacts
  <2> QED
    BY <2>1 DEF Parsed
<1>3. PICK num \in Seq(Chars) : num = Itoa(v.num)
  <2>1. PICK x \in Int : x = v.num
    BY <1>2
  <2>2. Itoa(x) \in Seq(Chars)
    BY ItoaType
  <2> QED
    BY <2>1, <2>2
<1>4. \A j \in 1..(i - 1) : w[j] \in Seq(Chars)
  BY DEF Encodable
<1>5. CASE v.type = "str"
  <2>1. TextOf(w, order, i) = num \o <<":">> \o v.str
    BY <1>1, <1>3, <1>5 DEF TextOf
  <2> QED
    BY <1>2, <2>1, Marks, ThreeParts
<1>6. CASE v.type = "int"
  <2>1. TextOf(w, order, i) = <<"i">> \o num \o <<"e">>
    BY <1>1, <1>3, <1>6 DEF TextOf
  <2> QED
    BY <2>1, Marks, ThreeParts
<1>7. CASE v.type = "list"
  <2>1. PICK n \in Nat : n = Len(v.elems) /\ DOMAIN v.elems = 1..n
    <3>1. PICK es \in Seq(Nat) : es = v.elems
      BY <1>2
    <3>2. Len(es) \in Nat /\ DOMAIN es = 1..Len(es)
      OBVIOUS
    <3> QED
      BY <3>1, <3>2
  <2>2. \A k \in 1..n : vals[i].elems[k] \in 1..(i - 1)
    BY <1>1, <1>7, <2>1 DEF Encodable, Compound
  <2>3. PICK c : c = WriteList(w, i)
    OBVIOUS
  <2>4. c \in [1..n -> Seq(Chars)]
    BY <1>1, <1>4, <2>1, <2>2, <2>3 DEF WriteList
  <2>5. FlattenSeq(c) \in Seq(Chars)
    BY <2>4, FlattenType
  <2>6. TextOf(w, order, i) = <<"l">> \o FlattenSeq(c) \o <<"e">>
    BY <1>1, <1>7, <2>3 DEF TextOf
  <2> QED
    BY <2>5, <2>6, Marks, ThreeParts
<1>8. CASE v.type = "dict"
  <2>1. PICK p \in Nat : Pairs(i) = 1..p /\ DOMAIN order[i] = 1..p /\ Permutes(order[i], p)
    BY <1>1, <1>8, OrderFacts
  <2>2. \A k \in 1..p : order[i][k] \in Pairs(i)
    BY <2>1 DEF Permutes
  <2>3. PICK c : c = WriteDict(w, order, i)
    OBVIOUS
  <2>4. c \in [1..p -> Seq(Chars)]
    <3>1. \A k \in Pairs(i) : WritePair(w, i, k) \in Seq(Chars)
      BY <1>1, <1>4, <1>8, PairText
    <3> QED
      BY <2>1, <2>2, <2>3, <3>1 DEF WriteDict
  <2>5. FlattenSeq(c) \in Seq(Chars)
    BY <2>4, FlattenType
  <2>6. TextOf(w, order, i) = <<"d">> \o FlattenSeq(c) \o <<"e">>
    BY <1>1, <1>8, <2>3 DEF TextOf
  <2> QED
    BY <2>5, <2>6, Marks, ThreeParts
<1> QED
  BY <1>2, <1>5, <1>6, <1>7, <1>8

IsText(l, order) ==
    /\ l \in [DOMAIN vals -> Seq(Chars)]
    /\ \A i \in DOMAIN vals : l[i] = TextOf(l, order, i)
    /\ BToString(order) = l[Len(vals)]

\* The recursion of b_to_string computes what it should.
LEMMA TextIs ==
    ASSUME Encodable(vals), NEW order \in Orders
    PROVE  \E l : IsText(l, order)
<1> DEFINE D == DOMAIN vals
           m == [i \in D |-> i]
           rec == [i \in D |-> [g \in [D -> Seq(Chars)] |-> TextOf(g, order, i)]]
           Def(g) == [i \in D |-> TextOf(g, order, i)]
           iter == CHOOSE g : g = Def(g)
<1>1. D = 1..Len(vals) /\ Len(vals) \in Nat /\ Len(vals) \in D
  BY DEF Encodable
<1>2. \A i \in D, g \in [D -> Seq(Chars)] : TextOf(g, order, i) \in Seq(Chars)
  BY <1>1, TextTypes
<1>3. rec \in [D -> [[D -> Seq(Chars)] -> Seq(Chars)]] /\ m \in [D -> Nat] /\ \A i \in D : m[i] = i
  <2>1. D \subseteq Nat
    BY <1>1
  <2> HIDE DEF D
  <2> QED
    BY <1>2, <2>1
<1>4. ASSUME NEW i \in D, NEW g, NEW h, \A j \in D : j < i => g[j] = h[j]
      PROVE  TextOf(g, order, i) = TextOf(h, order, i)
  <2>1. \A j \in 1..(i - 1) : j \in D /\ j < i
    BY <1>1
  <2>2. \A j \in 1..(i - 1) : g[j] = h[j]
    BY <1>4, <2>1
  <2> QED
    BY <1>1, <2>2, TextSame
<1>5. ASSUME NEW i \in D, NEW g \in [D -> Seq(Chars)], NEW h \in [D -> Seq(Chars)],
             \A j \in D : m[j] < m[i] => g[j] = h[j]
      PROVE  rec[i][g] = rec[i][h]
  <2>1. TextOf(g, order, i) = TextOf(h, order, i)
    BY <1>3, <1>4, <1>5
  <2> QED
    BY <2>1
<1> HIDE DEF D
<1>6. PICK h : IsSolution(h, D, Seq(Chars), rec)
  <2> HIDE DEF rec, m
  <2>1. Descends(D, Seq(Chars), m, rec)
    BY <1>3, <1>5 DEF Descends
  <2>2. Seq(Chars) # {}
    BY EmptySeq
  <2> QED
    BY <2>1, <2>2, RecursionHasSolution, Zenon
<1>7. h \in [D -> Seq(Chars)] /\ \A i \in D : h[i] = TextOf(h, order, i)
  <2>1. h \in [D -> Seq(Chars)] /\ \A i \in D : h[i] = rec[i][h]
    <3> HIDE DEF rec
    <3> QED
      BY <1>6, Zenon DEF IsSolution
  <2> QED
    BY <2>1
<1>8. h = Def(h)
  BY <1>7
<1>9. iter = Def(iter)
  <2> HIDE DEF Def
  <2> QED
    BY <1>8, Zenon
<1>10. BToString(order) = iter[Len(vals)]
  BY DEF BToString, iter, Def, D, TextOf, WriteList, WriteDict, WritePair
<1> HIDE DEF iter
<1>11. \A i \in D : iter[i] = TextOf(iter, order, i)
  BY <1>9
<1> DEFINE T == {k \in Nat : \A i \in D : i <= k => iter[i] = h[i]}
<1>12. 0 \in T
  BY <1>1
<1>13. ASSUME NEW k \in Nat, k \in T PROVE k + 1 \in T
  <2> SUFFICES ASSUME NEW i \in D, i <= k + 1 PROVE iter[i] = h[i]
    OBVIOUS
  <2>1. \A j \in D : j < i => j <= k
    BY <1>1
  <2>2. \A j \in D : j < i => iter[j] = h[j]
    BY <1>13, <2>1
  <2>3. TextOf(iter, order, i) = TextOf(h, order, i)
    BY <1>4, <2>2
  <2> QED
    BY <1>7, <1>11, <2>3
<1>14. Len(vals) \in T
  <2> HIDE DEF T
  <2> QED
    BY <1>1, <1>12, <1>13, SetInduction
<1>15. iter[Len(vals)] = h[Len(vals)]
  BY <1>1, <1>14
<1> QED
  BY <1>7, <1>10, <1>15 DEF IsText, D

-----------------------------------------------------------------------------
(* The text is as long as was counted.                                       *)

NoIntMin == \A i \in 1..Len(vals) : vals[i].num # IntMin

\* A value's text is as long as was counted, or much longer, because of INT_MIN.
Fits(w, l, i) == SameOrMore(Len(w[i]), l[i]) /\ (NoIntMin => Len(w[i]) = l[i])

\* The text of a number, and what declen counts.
LEMMA ItoaFits ==
    ASSUME NEW n \in IntMin..IntMax
    PROVE  SameOrMore(Len(Itoa(n)), Declen(n)) /\ (n # IntMin => Len(Itoa(n)) = Declen(n))
<1>1. CASE n = IntMin
  BY <1>1, DeclenOfIntMin DEF SameOrMore
<1>2. CASE n # IntMin
  <2>1. n \in Int /\ n > IntMin
    BY <1>2, WidthFacts
  <2> QED
    BY <2>1, DeclenIsLength DEF SameOrMore
<1> QED
  BY <1>1, <1>2

\* A value fits if the earlier ones do.
LEMMA FitsNext ==
    ASSUME Encodable(vals), NEW order \in Orders, NEW l, IsCount(l), NEW w, IsText(w, order),
           NEW i \in 1..Len(vals), \A j \in 1..(i - 1) : Fits(w, l, j)
    PROVE  Fits(w, l, i)
<1>1. PICK v \in Parsed : v = vals[i]
  BY DEF Encodable
<1>2. /\ v.type \in {"int", "str", "list", "dict"} /\ v.num \in IntMin..IntMax /\ v.num \in Int
      /\ v.str \in Seq(Chars) /\ v.elems \in Seq(Nat)
  <2>1. IntMin..IntMax \subseteq Int
    BY WidthFacts
  <2> QED
    BY <2>1 DEF Parsed
<1>3. PICK m \in Int : m = v.num
  BY <1>2
<1>4. PICK num \in Seq(Chars) : num = Itoa(m)
  BY ItoaType
<1>5. PICK a \in Nat, b \in Nat : a = Len(num) /\ b = Declen(m)
  BY DeclenType
<1>6. SameOrMore(a, b) /\ (m # IntMin => a = b)
  BY <1>2, <1>3, <1>4, <1>5, ItoaFits
<1>7. /\ w \in [1..Len(vals) -> Seq(Chars)] /\ l \in [1..Len(vals) -> Int]
      /\ l[i] = LengthOf(l, i) /\ w[i] = TextOf(w, order, i)
  <2>1. DOMAIN vals = 1..Len(vals)
    BY DEF Encodable
  <2> QED
    BY <2>1 DEF IsCount, IsText
<1>8. \A j \in 1..(i - 1) : w[j] \in Seq(Chars) /\ l[j] \in Int
  BY <1>7 DEF Encodable
<1>9. CASE v.type = "str"
  <2>1. m >= 0 /\ m # IntMin /\ Len(v.str) = m
    BY <1>1, <1>3, <1>9, WidthFacts DEF Encodable
  <2>2. TextOf(w, order, i) = num \o <<":">> \o v.str
    BY <1>1, <1>3, <1>4, <1>9 DEF TextOf
  <2>3. Len(num \o <<":">> \o v.str) = a + 1 + m
    <3>1. PICK colon \in Seq(Chars) : colon = <<":">> /\ Len(colon) = 1
      BY Marks
    <3>2. Len(num \o colon \o v.str) = Len(num) + Len(colon) + Len(v.str)
      BY <1>2, ThreeParts
    <3> QED
      BY <1>5, <2>1, <3>1, <3>2
  <2>4. LengthOf(l, i) = b + 1 + m
    BY <1>1, <1>3, <1>5, <1>9 DEF LengthOf
  <2> QED
    BY <1>6, <1>7, <2>1, <2>2, <2>3, <2>4 DEF Fits, SameOrMore
<1>10. CASE v.type = "int"
  <2>1. TextOf(w, order, i) = <<"i">> \o num \o <<"e">>
    BY <1>1, <1>3, <1>4, <1>10 DEF TextOf
  <2>2. Len(<<"i">> \o num \o <<"e">>) = a + 2
    <3>1. PICK x \in Seq(Chars), y \in Seq(Chars) : x = <<"i">> /\ Len(x) = 1 /\ y = <<"e">> /\ Len(y) = 1
      BY Marks
    <3>2. Len(x \o num \o y) = Len(x) + Len(num) + Len(y)
      BY ThreeParts
    <3> QED
      BY <1>5, <3>1, <3>2
  <2>3. LengthOf(l, i) = b + 2
    BY <1>1, <1>3, <1>5, <1>10 DEF LengthOf
  <2>4. NoIntMin => m # IntMin
    BY <1>1, <1>3 DEF NoIntMin
  <2> QED
    BY <1>6, <1>7, <2>1, <2>2, <2>3, <2>4 DEF Fits, SameOrMore
\* What is left is to add the two marks around the texts of the elements.
<1>11. ASSUME NEW x \in Seq(Chars), Len(x) = 1, NEW y \in Seq(Chars), Len(y) = 1,
              NEW c \in Seq(Chars), NEW k \in Int, SameOrMore(Len(c), k), NoIntMin => Len(c) = k,
              TextOf(w, order, i) = x \o c \o y, LengthOf(l, i) = 2 + k
       PROVE  Fits(w, l, i)
  <2>1. Len(x \o c \o y) = 1 + Len(c) + 1
    <3>1. Len(x \o c \o y) = Len(x) + Len(c) + Len(y)
      BY ThreeParts
    <3> QED
      BY <1>11, <3>1
  <2>2. PICK d \in Nat : d = Len(c)
    OBVIOUS
  <2> QED
    BY <1>7, <1>11, <2>1, <2>2 DEF Fits, SameOrMore
<1>12. CASE v.type = "list"
  <2>1. PICK n \in Nat : n = Len(v.elems) /\ DOMAIN v.elems = 1..n
    <3>1. PICK es \in Seq(Nat) : es = v.elems
      BY <1>2
    <3>2. Len(es) \in Nat /\ DOMAIN es = 1..Len(es)
      OBVIOUS
    <3> QED
      BY <3>1, <3>2
  <2>2. \A k \in 1..n : v.elems[k] \in 1..(i - 1)
    BY <1>1, <1>12, <2>1 DEF Encodable, Compound
  <2>3. PICK c : c = WriteList(w, i)
    OBVIOUS
  <2>4. PICK f : f = CountList(l, i)
    OBVIOUS
  <2>5. /\ c \in [1..n -> Seq(Chars)] /\ f \in [1..n -> Int]
        /\ \A k \in 1..n : c[k] = w[v.elems[k]] /\ f[k] = l[v.elems[k]]
    BY <1>1, <1>8, <2>1, <2>2, <2>3, <2>4 DEF WriteList, CountList
  <2>6. PICK p : p = [k \in 1..n |-> k]
    OBVIOUS
  <2>7. Permutes(p, n) /\ \A k \in 1..n : p[k] = k
    BY <2>6 DEF Permutes
  <2>8. \A k \in 1..n : SameOrMore(Len(c[k]), f[p[k]]) /\ (NoIntMin => Len(c[k]) = f[p[k]])
    BY <2>2, <2>5, <2>7 DEF Fits
  <2>9. /\ FlattenSeq(c) \in Seq(Chars) /\ SumFunction(f) \in Int
        /\ SameOrMore(Len(FlattenSeq(c)), SumFunction(f))
        /\ PartsExact(c, f, p, n) => Len(FlattenSeq(c)) = SumFunction(f)
    <3>1. PartsFit(c, f, p, n)
      BY <2>8, Zenon DEF PartsFit
    <3>2. c \in [1..n -> Seq(Chars)] /\ f \in [1..n -> Int] /\ Permutes(p, n)
      BY <2>5, <2>7
    <3> QED
      BY <3>1, <3>2, FlattenLength, Zenon
  <2>10. TextOf(w, order, i) = <<"l">> \o FlattenSeq(c) \o <<"e">>
    BY <1>1, <1>12, <2>3 DEF TextOf
  <2>11. LengthOf(l, i) = 2 + SumFunction(f)
    BY <1>1, <1>12, <2>4 DEF LengthOf
  <2> QED
    BY <1>11, <2>8, <2>9, <2>10, <2>11, Marks DEF PartsExact
<1>13. CASE v.type = "dict"
  <2>1. PICK n \in Nat : Pairs(i) = 1..n /\ DOMAIN order[i] = 1..n /\ Permutes(order[i], n)
    BY <1>1, <1>13, OrderFacts
  <2>2. PICK p : p = order[i]
    OBVIOUS
  <2>3. PICK c : c = WriteDict(w, order, i)
    OBVIOUS
  <2>4. PICK f : f = CountDict(l, i)
    OBVIOUS
  <2>5. p \in [1..n -> 1..n]
    BY <2>1, <2>2 DEF Permutes
  <2>6. ASSUME NEW k \in 1..n
        PROVE  /\ WritePair(w, i, k) \in Seq(Chars) /\ CountPair(l, i, k) \in Int
               /\ SameOrMore(Len(WritePair(w, i, k)), CountPair(l, i, k))
               /\ NoIntMin => Len(WritePair(w, i, k)) = CountPair(l, i, k)
    <3>1. k \in Pairs(i)
      BY <2>1
    <3>2. PICK e \in 1..(i - 1) : e = vals[i].elems[2 * k]
      BY <1>1, <1>13, <3>1, KeyType
    <3>3. PICK d \in Int : d = Declen(Len(Key(i, k))) + 1 + Len(Key(i, k))
      <4>1. PICK q \in Nat : q = Len(Key(i, k))
        <5>1. Key(i, k) \in Seq(Chars)
          BY <1>1, <1>13, <3>1, KeyType
        <5> QED
          BY <5>1
      <4>2. Declen(q) \in Nat
        <5>1. q \in Int
          OBVIOUS
        <5> QED
          BY <5>1, DeclenType, Zenon
      <4> QED
        BY <4>1, <4>2
    <3>4. WritePair(w, i, k) \in Seq(Chars) /\ Len(WritePair(w, i, k)) = d + Len(w[e])
      BY <1>1, <1>8, <1>13, <3>1, <3>2, <3>3, PairText
    <3>5. CountPair(l, i, k) = d + l[e]
      BY <3>2, <3>3 DEF CountPair
    <3>6. PICK s \in Nat, t \in Int : s = Len(w[e]) /\ t = l[e]
      BY <1>8
    <3>7. SameOrMore(s, t) /\ (NoIntMin => s = t)
      BY <3>6 DEF Fits
    <3>8. PICK x \in Int, y \in Int : /\ x = Len(WritePair(w, i, k)) /\ x = d + s
                                     /\ y = CountPair(l, i, k) /\ y = d + t
      BY <3>4, <3>5, <3>6
    <3>9. SameOrMore(x, y) /\ (NoIntMin => x = y)
      BY <3>7, <3>8 DEF SameOrMore
    <3> QED
      BY <3>4, <3>8, <3>9
  <2>7. /\ c \in [1..n -> Seq(Chars)] /\ \A k \in 1..n : c[k] = WritePair(w, i, p[k])
    BY <2>1, <2>2, <2>3, <2>5, <2>6 DEF WriteDict
  <2>8. f \in [1..n -> Int] /\ \A k \in 1..n : f[k] = CountPair(l, i, k)
    BY <2>1, <2>4, <2>6 DEF CountDict
  <2>9. \A k \in 1..n : SameOrMore(Len(c[k]), f[p[k]]) /\ (NoIntMin => Len(c[k]) = f[p[k]])
    BY <2>5, <2>6, <2>7, <2>8
  <2>10. /\ FlattenSeq(c) \in Seq(Chars) /\ SumFunction(f) \in Int
         /\ SameOrMore(Len(FlattenSeq(c)), SumFunction(f))
         /\ PartsExact(c, f, p, n) => Len(FlattenSeq(c)) = SumFunction(f)
    <3>1. PartsFit(c, f, p, n)
      BY <2>9, Zenon DEF PartsFit
    <3> QED
      BY <2>1, <2>2, <2>7, <2>8, <2>9, <3>1, FlattenLength, Zenon
  <2>11. TextOf(w, order, i) = <<"d">> \o FlattenSeq(c) \o <<"e">>
    BY <1>1, <1>13, <2>3 DEF TextOf
  <2>12. LengthOf(l, i) = 2 + SumFunction(f)
    BY <1>1, <1>13, <2>4 DEF LengthOf
  <2> QED
    BY <1>11, <2>9, <2>10, <2>11, <2>12, Marks DEF PartsExact
<1> QED
  BY <1>2, <1>9, <1>10, <1>12, <1>13

\* b_to_string_len counts what b_to_string writes.
LEMMA EncoderFits ==
    ASSUME Encodable(vals), NEW order \in Orders
    PROVE  /\ BToString(order) \in Seq(Chars) /\ BToStringLen \in Int
           /\ SameOrMore(Len(BToString(order)), BToStringLen)
           /\ NoIntMin => Len(BToString(order)) = BToStringLen
<1>1. PICK l : IsCount(l)
  BY CountIs
<1>2. PICK w : IsText(w, order)
  BY TextIs
<1> DEFINE T == {k \in Nat : \A i \in 1..Len(vals) : i <= k => Fits(w, l, i)}
<1>3. Len(vals) \in Nat /\ Len(vals) \in 1..Len(vals) /\ DOMAIN vals = 1..Len(vals)
  BY DEF Encodable
<1>4. 0 \in T
  BY <1>3
<1>5. ASSUME NEW k \in Nat, k \in T PROVE k + 1 \in T
  <2> SUFFICES ASSUME NEW i \in 1..Len(vals), i <= k + 1 PROVE Fits(w, l, i)
    OBVIOUS
  <2>1. \A j \in 1..(i - 1) : j \in 1..Len(vals) /\ j <= k
    BY <1>3
  <2>2. \A j \in 1..(i - 1) : Fits(w, l, j)
    BY <1>5, <2>1
  <2> QED
    BY <1>1, <1>2, <2>2, FitsNext
<1>6. Len(vals) \in T
  <2> HIDE DEF T
  <2> QED
    BY <1>3, <1>4, <1>5, SetInduction
<1>7. Fits(w, l, Len(vals))
  BY <1>3, <1>6
<1>8. /\ BToString(order) = w[Len(vals)] /\ BToStringLen = l[Len(vals)]
      /\ w[Len(vals)] \in Seq(Chars) /\ l[Len(vals)] \in Int
  BY <1>1, <1>2, <1>3 DEF IsCount, IsText
<1> QED
  BY <1>7, <1>8 DEF Fits

\* What the parser accepted can be written.
LEMMA OkIsEncodable ==
    ASSUME ParserInv, code = "ok", ~Unwritable
    PROVE  Encodable(vals)
<1>1. vals \in Seq(Parsed) /\ vals # <<>> /\ DOMAIN vals = 1..Len(vals)
  BY DEF ParserInv, ParserTypes, Inside
<1>2. ASSUME NEW i \in 1..Len(vals), Compound(vals[i]), NEW k \in 1..Len(vals[i].elems)
      PROVE  vals[i].elems[k] \in 1..(i - 1)
  BY <1>2 DEF ParserInv, Tiled, Fills
<1>3. ASSUME NEW i \in 1..Len(vals), vals[i].type = "str"
      PROVE  vals[i].num >= 0 /\ Len(vals[i].str) = vals[i].num
  <2>1. ~(vals[i].num < 0)
    BY <1>1, <1>3 DEF Unwritable
  <2>2. Measured(vals[i])
    BY DEF ParserInv, Numbers
  <2> QED
    BY <1>3, <2>1, <2>2 DEF Measured
<1> QED
  BY <1>1, <1>2, <1>3 DEF Encodable

\* bencode_to_string keeps the invariant.
LEMMA WriteKeeps ==
    ASSUME ParserInv, Write
    PROVE  ParserInv'
<1>1. CASE Unwritable
  <2>1. Answer("undef")
    BY <1>1 DEF Write
  <2> QED
    BY <2>1, AnswerKeeps
<1>2. CASE ~Unwritable
  <2>1. /\ outlen' = BToStringLen /\ text' = text /\ beyond' = beyond /\ pos' = pos
        /\ stack' = stack /\ vals' = vals
        /\ code' = IF Len(out') > outlen' + 1 THEN "overrun" ELSE "written"
    BY <1>2 DEF Write
  <2>2. PICK order \in Orders : out' = BToString(order)
    BY <1>2 DEF Write
  <2>3. Encodable(vals)
    BY <1>2, OkIsEncodable DEF Write
  <2>4. /\ out' \in Seq(Chars) /\ outlen' \in Int
        /\ SameOrMore(Len(out'), outlen') /\ (NoIntMin => Len(out') = outlen')
    BY <2>1, <2>2, <2>3, EncoderFits
  <2>5. PICK a \in Nat, b \in Int : a = Len(out') /\ b = outlen'
    BY <2>4
  <2>6. /\ code' = "overrun" => a > b + 1
        /\ code' = "written" => a <= b + 1
        /\ code' \in {"overrun", "written"}
    BY <2>1, <2>5
  <2>7. code' = "written" => Len(out') = outlen'
    BY <2>4, <2>5, <2>6 DEF SameOrMore
  <2>8. code' = "overrun" => ~NoIntMin
    BY <2>4, <2>5, <2>6
  <2>9. HugeNumber' = HugeNumber
    BY <2>1, HugeStays
  <2>10. ParserTypes'
    BY <2>1, <2>4, <2>6 DEF ParserInv, ParserTypes, TextOK
  <2>11. Tiled(vals)' /\ Waits(vals, stack, pos)'
    BY <2>1 DEF ParserInv, Tiled, Waits
  <2>12. Inside'
    BY <2>6 DEF Inside
  <2>13. Numbers'
    BY <2>1, <2>6, <2>7, <2>8, <2>9 DEF ParserInv, Numbers, Measured, NoIntMin
  <2> QED
    BY <2>10, <2>11, <2>12, <2>13 DEF ParserInv
<1> QED
  BY <1>1, <1>2

\* Nothing is read yet.
LEMMA NothingRead ==
    ASSUME TextOK, pos = 0, stack = <<>>, vals = <<>>, code = "run", out = <<>>, outlen = 0
    PROVE  ParserInv
<1>1. ParserTypes
  BY DEF ParserTypes
<1>2. Tiled(vals) /\ Waits(vals, stack, pos)
  BY DEF Tiled, Waits
<1>3. Inside /\ Numbers
  BY DEF Inside, Numbers
<1> QED
  BY <1>1, <1>2, <1>3 DEF ParserInv

\* So does reading again what it wrote.
LEMMA AgainKeeps ==
    ASSUME ParserInv, Again
    PROVE  ParserInv'
<1>1. out \in Seq(Chars) /\ Len(out) = outlen
  BY DEF Again, ParserInv, ParserTypes, Numbers
<1>2. TextOK'
  <2>1. text' \in Seq(Chars)
    BY <1>1, SubSeqProperties DEF Again
  <2> QED
    BY <2>1, BencodeAssumption DEF Again, TextOK
<1>3. /\ pos' = 0 /\ stack' = <<>> /\ vals' = <<>> /\ code' = "run" /\ out' = <<>> /\ outlen' = 0
  BY DEF Again
<1>4. ParserTypes'
  BY <1>2, <1>3 DEF ParserTypes
<1>5. Tiled(vals)' /\ Waits(vals, stack, pos)'
  BY <1>3 DEF Tiled, Waits
<1>6. Inside' /\ Numbers'
  BY <1>3 DEF Inside, Numbers
<1> QED
  BY <1>4, <1>5, <1>6 DEF ParserInv

-----------------------------------------------------------------------------
(* The theorems about Bencode.                                               *)

\* The parser and the encoder keep their state well formed (bencode.c:46-169,
\* 261-331): the values of every finished list and dictionary, and those of
\* every call in progress, lie next to each other; the parser goes on only
\* before the end of the text; a string has the length that was read.
THEOREM ParserInvariant == BencodeSpec => []ParserInv
<1>1. BencodeInit => ParserInv
  <2> SUFFICES ASSUME BencodeInit PROVE ParserInv
    OBVIOUS
  <2>1. TextOK
    BY BencodeAssumption DEF BencodeInit, TextOK
  <2> QED
    BY <2>1, NothingRead DEF BencodeInit
<1>2. ParserInv /\ [BencodeNext]_bencodeVars => ParserInv'
  <2> SUFFICES ASSUME ParserInv, [BencodeNext]_bencodeVars PROVE ParserInv'
    OBVIOUS
  <2>1. CASE Parse
    BY <2>1, ParseKeeps
  <2>2. CASE Write
    BY <2>2, WriteKeeps
  <2>3. CASE Again
    BY <2>3, AgainKeeps
  <2>4. CASE UNCHANGED bencodeVars
    <3>1. /\ text' = text /\ beyond' = beyond /\ pos' = pos /\ stack' = stack /\ vals' = vals
          /\ code' = code /\ out' = out /\ outlen' = outlen
      BY <2>4 DEF bencodeVars
    <3>2. HugeNumber' = HugeNumber
      BY <3>1, HugeStays
    <3>3. ParserTypes' /\ Inside'
      BY <3>1 DEF ParserInv, ParserTypes, TextOK, Inside
    <3>4. Tiled(vals)' /\ Waits(vals, stack, pos)'
      BY <3>1 DEF ParserInv, Tiled, Waits
    <3>5. Numbers'
      BY <3>1, <3>2 DEF ParserInv, Numbers, Measured
    <3> QED
      BY <3>3, <3>4, <3>5 DEF ParserInv
  <2> QED
    BY <2>1, <2>2, <2>3, <2>4 DEF BencodeNext
<1> QED
  BY <1>1, <1>2, PTL DEF BencodeSpec

\* SpansTile, for every text: the spans of bencode values, from which
\* torrent.c:46 takes what it hashes, tile the text without gap or overlap.
THEOREM SpansAreTiled == BencodeSpec => []SpansTile
<1>1. ParserInv => SpansTile
  <2> SUFFICES ASSUME ParserInv PROVE SpansTile
    OBVIOUS
  <2>1. DOMAIN vals = 1..Len(vals)
    BY DEF ParserInv, ParserTypes
  <2> DEFINE Starts(i, k) == StartOf(vals, vals[i].elems, vals[i].start + 1, k)
  <2>2. ASSUME NEW i \in 1..Len(vals), Compound(vals[i])
        PROVE  /\ \A k \in DOMAIN vals[i].elems : vals[vals[i].elems[k]].start = Starts(i, k)
               /\ vals[i].end = Starts(i, Len(vals[i].elems) + 1)
    <3>1. Fills(vals, vals[i].elems, vals[i].start + 1, vals[i].end, i - 1)
      BY <2>2 DEF ParserInv, Tiled
    <3>2. DOMAIN vals[i].elems = 1..Len(vals[i].elems)
      <4>1. vals[i] \in Parsed
        BY DEF ParserInv, ParserTypes
      <4>2. vals[i].elems \in Seq(Nat)
        BY <4>1 DEF Parsed
      <4> QED
        BY <4>2
    <3> QED
      BY <3>1, <3>2 DEF Fills
  <2>3. code = "ok" => \A i \in 1..Len(vals) :
            vals[i].end < Len(text) \/ (i = Len(vals) /\ vals[i].type \in {"int", "str"})
    <3> SUFFICES ASSUME code = "ok", NEW i \in 1..Len(vals)
                 PROVE  vals[i].end < Len(text) \/ (i = Len(vals) /\ vals[i].type \in {"int", "str"})
      OBVIOUS
    <3>1. vals[i] \in Parsed
      BY DEF ParserInv, ParserTypes
    <3> QED
      BY <3>1 DEF ParserInv, Inside, Compound, Parsed
  <2> QED
    BY <2>1, <2>2, <2>3 DEF SpansTile, Compound, StartOf
<1> QED
  BY <1>1, ParserInvariant, PTL

\* WidthBounds, for every text and every width of int: the parser crashes only
\* on digits for INT_MAX or more, bencode_to_string writes past its block
\* only if there is an INT_MIN, and otherwise writes as much as it counted.
THEOREM WidthIsBounded == BencodeSpec => []WidthBounds
<1>1. ParserInv => WidthBounds
  <2> SUFFICES ASSUME ParserInv PROVE WidthBounds
    OBVIOUS
  <2>1. DOMAIN vals = 1..Len(vals)
    BY DEF ParserInv, ParserTypes
  <2> QED
    BY <2>1 DEF ParserInv, Numbers, WidthBounds, HugeNumber, Huge, Digit, IsDigit
<1> QED
  BY <1>1, ParserInvariant, PTL

-----------------------------------------------------------------------------
(* The grammar is a well-founded recursion: each rule asks for shorter       *)
(* stretches of the text.                                                    *)

Spans == {"value", "items", "pairs"} \X (0..Len(text)) \X (-1..(Len(text) - 1))

ValueOf(g, i, j) ==
    \/ Int_(i, j) \/ Str_(i, j)
    \/ /\ i < j /\ At(j) = "e"
       /\ \/ At(i) = "l" /\ g[<<"items", i + 1, j - 1>>]
          \/ At(i) = "d" /\ g[<<"pairs", i + 1, j - 1>>]

ItemsOf(g, i, j) ==
    \/ i > j
    \/ \E k \in i..j : g[<<"value", i, k>>] /\ g[<<"items", k + 1, j>>]

PairsOf(g, i, j) ==
    \/ i > j
    \/ \E k \in i..j, m \in i..j :
           /\ k < m /\ Str_(i, k)
           /\ g[<<"value", k + 1, m>>] /\ g[<<"pairs", m + 1, j>>]

Grammar(g, s) ==
    CASE s[1] = "value" -> ValueOf(g, s[2], s[3])
      [] s[1] = "items" -> ItemsOf(g, s[2], s[3])
      [] s[1] = "pairs" -> PairsOf(g, s[2], s[3])

\* The grammar as a recursive definition.
LEMMA DerivesIs ==
    Derives = CHOOSE g : g = [s \in Spans |-> Grammar(g, s)]
BY DEF Derives, Spans, Grammar, ValueOf, ItemsOf, PairsOf

\* The stretches of the text.
LEMMA SpanFacts ==
    ASSUME TextOK, NEW s \in Spans
    PROVE  /\ s[1] \in {"value", "items", "pairs"}
           /\ s[2] \in 0..Len(text) /\ s[3] \in -1..(Len(text) - 1)
           /\ s = <<s[1], s[2], s[3]>> /\ s[2] \in Int /\ s[3] \in Int /\ Len(text) \in Nat
BY EofIs DEF Spans

\* Any two positions are one.
LEMMA SpanIs ==
    ASSUME NEW w \in {"value", "items", "pairs"}, NEW i \in 0..Len(text), NEW j \in -1..(Len(text) - 1)
    PROVE  <<w, i, j>> \in Spans
BY DEF Spans

SpanSize == [s \in Spans |-> 2 * ((s[3] - s[2]) + Len(text) + 1) + (IF s[1] = "value" THEN 0 ELSE 1)]

\* The size of a stretch by its ends.
LEMMA SizeIs ==
    ASSUME TextOK, NEW w \in {"value", "items", "pairs"},
           NEW i \in 0..Len(text), NEW j \in -1..(Len(text) - 1)
    PROVE  /\ SpanSize[<<w, i, j>>] = 2 * ((j - i) + Len(text) + 1) + (IF w = "value" THEN 0 ELSE 1)
           /\ <<w, i, j>> \in Spans
BY SpanIs DEF SpanSize

\* Sizes are numbers.
LEMMA SizeType ==
    ASSUME TextOK
    PROVE  SpanSize \in [Spans -> Nat]
<1> SUFFICES ASSUME NEW s \in Spans
             PROVE  2 * ((s[3] - s[2]) + Len(text) + 1) + (IF s[1] = "value" THEN 0 ELSE 1) \in Nat
  BY DEF SpanSize
<1>1. s[2] \in 0..Len(text) /\ s[3] \in -1..(Len(text) - 1) /\ Len(text) \in Nat
  BY SpanFacts
<1>2. PICK i \in 0..Len(text), j \in -1..(Len(text) - 1) : i = s[2] /\ j = s[3]
  BY <1>1
<1>3. (j - i) + Len(text) + 1 \in Nat
  BY <1>1
<1> QED
  BY <1>2, <1>3

\* Whether g and h derive the same smaller spans.
AgreeBelow(g, h, n) == \A s \in Spans : SpanSize[s] < n => g[s] = h[s]

\* A rule of the grammar depends on shorter stretches only.
LEMMA GrammarSame ==
    ASSUME TextOK, NEW s \in Spans, NEW g, NEW h, AgreeBelow(g, h, SpanSize[s])
    PROVE  Grammar(g, s) = Grammar(h, s)
<1>1. PICK n \in Nat : n = Len(text)
  BY EofIs
<1>2. PICK w \in {"value", "items", "pairs"}, i \in 0..n, j \in -1..(n - 1) : s = <<w, i, j>>
  BY <1>1, SpanFacts
<1>3. PICK z \in Nat : z = SpanSize[s]
  BY SizeType
<1>4. z = 2 * ((j - i) + n + 1) + (IF w = "value" THEN 0 ELSE 1)
  BY <1>1, <1>2, <1>3, SizeIs
<1>5. ASSUME NEW u \in {"value", "items", "pairs"}, NEW a \in 0..n, NEW b \in -1..(n - 1),
             2 * ((b - a) + n + 1) + (IF u = "value" THEN 0 ELSE 1) < z
      PROVE  g[<<u, a, b>>] = h[<<u, a, b>>]
  <2>1. <<u, a, b>> \in Spans /\ SpanSize[<<u, a, b>>] < z
    BY <1>1, <1>5, SizeIs
  <2> QED
    BY <1>3, <2>1 DEF AgreeBelow
<1>6. s[1] = w /\ s[2] = i /\ s[3] = j
  BY <1>2
<1>7. CASE w = "value"
  <2>1. ASSUME i < j
        PROVE  /\ g[<<"items", i + 1, j - 1>>] = h[<<"items", i + 1, j - 1>>]
               /\ g[<<"pairs", i + 1, j - 1>>] = h[<<"pairs", i + 1, j - 1>>]
    <3>1. PICK a \in 0..n, b \in -1..(n - 1) : a = i + 1 /\ b = j - 1
      BY <2>1
    <3>2. 2 * ((b - a) + n + 1) + 1 < z
      BY <1>4, <1>7, <3>1
    <3>3. g[<<"items", a, b>>] = h[<<"items", a, b>>] /\ g[<<"pairs", a, b>>] = h[<<"pairs", a, b>>]
      BY <1>5, <3>2
    <3> QED
      BY <3>1, <3>3
  <2>2. ValueOf(g, i, j) <=> ValueOf(h, i, j)
    BY <2>1, Zenon DEF ValueOf
  <2>3. Grammar(g, s) = ValueOf(g, i, j) /\ Grammar(h, s) = ValueOf(h, i, j)
    BY <1>6, <1>7 DEF Grammar
  <2>4. ValueOf(g, i, j) \in BOOLEAN /\ ValueOf(h, i, j) \in BOOLEAN
    BY DEF ValueOf
  <2> QED
    BY <2>2, <2>3, <2>4
<1>8. CASE w = "items"
  <2>1. ASSUME NEW k \in i..j
        PROVE  /\ g[<<"value", i, k>>] = h[<<"value", i, k>>]
               /\ g[<<"items", k + 1, j>>] = h[<<"items", k + 1, j>>]
    <3>1. PICK a \in 0..n, b \in -1..(n - 1) : a = k + 1 /\ b = k
      OBVIOUS
    <3>2. 2 * ((b - i) + n + 1) < z /\ 2 * ((j - a) + n + 1) + 1 < z
      BY <1>4, <1>8, <3>1
    <3>3. g[<<"value", i, b>>] = h[<<"value", i, b>>]
      BY <1>5, <3>2
    <3>4. g[<<"items", a, j>>] = h[<<"items", a, j>>]
      BY <1>5, <3>2
    <3> QED
      BY <3>1, <3>3, <3>4
  <2>2. ItemsOf(g, i, j) <=> ItemsOf(h, i, j)
    BY <2>1, Zenon DEF ItemsOf
  <2>3. Grammar(g, s) = ItemsOf(g, i, j) /\ Grammar(h, s) = ItemsOf(h, i, j)
    BY <1>6, <1>8 DEF Grammar
  <2>4. ItemsOf(g, i, j) \in BOOLEAN /\ ItemsOf(h, i, j) \in BOOLEAN
    BY DEF ItemsOf
  <2> QED
    BY <2>2, <2>3, <2>4
<1>9. CASE w = "pairs"
  <2>1. ASSUME NEW k \in i..j, NEW m \in i..j, k < m
        PROVE  /\ g[<<"value", k + 1, m>>] = h[<<"value", k + 1, m>>]
               /\ g[<<"pairs", m + 1, j>>] = h[<<"pairs", m + 1, j>>]
    <3>1. PICK a \in 0..n, b \in -1..(n - 1), c \in 0..n : a = k + 1 /\ b = m /\ c = m + 1
      OBVIOUS
    <3>2. 2 * ((b - a) + n + 1) < z /\ 2 * ((j - c) + n + 1) + 1 < z
      BY <1>4, <1>9, <3>1
    <3>3. g[<<"value", a, b>>] = h[<<"value", a, b>>]
      BY <1>5, <3>2
    <3>4. g[<<"pairs", c, j>>] = h[<<"pairs", c, j>>]
      BY <1>5, <3>2
    <3> QED
      BY <3>1, <3>3, <3>4
  <2>2. PairsOf(g, i, j) <=> PairsOf(h, i, j)
    BY <2>1, Zenon DEF PairsOf
  <2>3. Grammar(g, s) = PairsOf(g, i, j) /\ Grammar(h, s) = PairsOf(h, i, j)
    BY <1>6, <1>9 DEF Grammar
  <2>4. PairsOf(g, i, j) \in BOOLEAN /\ PairsOf(h, i, j) \in BOOLEAN
    BY DEF PairsOf
  <2> QED
    BY <2>2, <2>3, <2>4
<1> QED
  BY <1>2, <1>7, <1>8, <1>9

\* The grammar is well defined.
LEMMA DerivesEq ==
    ASSUME TextOK, NEW s \in Spans
    PROVE  Derives[s] = Grammar(Derives, s)
<1> DEFINE Def(g) == [x \in Spans |-> Grammar(g, x)]
           rec == [x \in Spans |-> [g \in [Spans -> BOOLEAN] |-> Grammar(g, x)]]
<1>1. ASSUME NEW x \in Spans, NEW g PROVE Grammar(g, x) \in BOOLEAN
  <2>1. x[1] \in {"value", "items", "pairs"}
    BY SpanFacts
  <2>2. /\ ValueOf(g, x[2], x[3]) \in BOOLEAN /\ ItemsOf(g, x[2], x[3]) \in BOOLEAN
        /\ PairsOf(g, x[2], x[3]) \in BOOLEAN
    BY DEF ValueOf, ItemsOf, PairsOf
  <2> QED
    BY <2>1, <2>2 DEF Grammar
<1>2. rec \in [Spans -> [[Spans -> BOOLEAN] -> BOOLEAN]]
  BY <1>1
<1>3. ASSUME NEW x \in Spans, NEW g \in [Spans -> BOOLEAN], NEW h \in [Spans -> BOOLEAN],
             \A y \in Spans : SpanSize[y] < SpanSize[x] => g[y] = h[y]
      PROVE  rec[x][g] = rec[x][h]
  <2>1. AgreeBelow(g, h, SpanSize[x])
    BY <1>3, Zenon DEF AgreeBelow
  <2>2. Grammar(g, x) = Grammar(h, x)
    BY <2>1, GrammarSame
  <2> QED
    BY <2>2
<1>4. PICK h : IsSolution(h, Spans, BOOLEAN, rec)
  <2> HIDE DEF rec
  <2>1. Descends(Spans, BOOLEAN, SpanSize, rec)
    BY <1>2, <1>3, SizeType DEF Descends
  <2>2. BOOLEAN # {}
    OBVIOUS
  <2> QED
    BY <2>1, <2>2, RecursionHasSolution, Zenon
<1>5. h \in [Spans -> BOOLEAN] /\ \A x \in Spans : h[x] = Grammar(h, x)
  <2>1. h \in [Spans -> BOOLEAN] /\ \A x \in Spans : h[x] = rec[x][h]
    <3> HIDE DEF rec
    <3> QED
      BY <1>4, Zenon DEF IsSolution
  <2> QED
    BY <2>1
<1>6. h = Def(h)
  BY <1>5
<1>7. Derives = CHOOSE g : g = Def(g)
  BY DerivesIs
<1>8. Derives = Def(Derives)
  <2> HIDE DEF Def
  <2> QED
    BY <1>6, <1>7, Zenon
<1> QED
  BY <1>8

-----------------------------------------------------------------------------
(* The first character of a value tells its kind, and where an integer or a  *)
(* string ends.                                                              *)

\* From i to j the text is a value, a list's items or a dictionary's pairs.
D(w, i, j) == Derives[<<w, i, j>>]

\* The three rules of the grammar.
LEMMA DerivedForms ==
    ASSUME TextOK, NEW i \in 0..Len(text), NEW j \in -1..(Len(text) - 1)
    PROVE  /\ D("value", i, j) = ValueOf(Derives, i, j)
           /\ D("items", i, j) = ItemsOf(Derives, i, j)
           /\ D("pairs", i, j) = PairsOf(Derives, i, j)
<1>1. ASSUME NEW w \in {"value", "items", "pairs"}
      PROVE  D(w, i, j) = Grammar(Derives, <<w, i, j>>)
  BY SpanIs, DerivesEq DEF D
<1>2. /\ D("value", i, j) = Grammar(Derives, <<"value", i, j>>)
      /\ D("items", i, j) = Grammar(Derives, <<"items", i, j>>)
      /\ D("pairs", i, j) = Grammar(Derives, <<"pairs", i, j>>)
  BY <1>1
<1> QED
  BY <1>2 DEF Grammar

\* The marks are no digits.
LEMMA NotDigits ==
    \A c \in {"i", "l", "d", "e", ":", "-"} : c \notin Digit
<1>1. DOMAIN DigitChar = 1..10
  BY DEF DigitChar
<1> SUFFICES ASSUME NEW c \in {"i", "l", "d", "e", ":", "-"}, NEW k \in 1..10, DigitChar[k] = c
             PROVE  FALSE
  BY <1>1 DEF Digit, ToSet
<1>2. k \in {1, 2, 3, 4, 5, 6, 7, 8, 9, 10}
  OBVIOUS
<1> QED
  BY <1>2 DEF DigitChar

\* The first character of a value tells which kind it is of.
LEMMA ValueForms ==
    ASSUME TextOK, NEW i \in Nat, NEW j \in 0..(Len(text) - 1), i <= Len(text), D("value", i, j)
    PROVE  /\ i < j
           /\ \/ At(i) = "i" /\ Int_(i, j)
              \/ At(i) \in Digit /\ Str_(i, j)
              \/ At(i) = "l" /\ At(j) = "e" /\ D("items", i + 1, j - 1)
              \/ At(i) = "d" /\ At(j) = "e" /\ D("pairs", i + 1, j - 1)
<1>1. Len(text) \in Nat /\ i \in 0..Len(text) /\ j \in -1..(Len(text) - 1)
  BY EofIs
<1>2. ValueOf(Derives, i, j)
  BY <1>1, DerivedForms
<1>3. CASE Int_(i, j)
  BY <1>3 DEF Int_
<1>4. CASE Str_(i, j)
  <2>1. PICK k \in (i + 1)..j : \A d \in i..(k - 1) : IsDigit(At(d))
    BY <1>4 DEF Str_
  <2>2. i < j /\ i \in i..(k - 1)
    BY <1>1, <2>1
  <2> QED
    BY <1>4, <2>1, <2>2 DEF IsDigit, Digit
<1>5. CASE ~Int_(i, j) /\ ~Str_(i, j)
  BY <1>2, <1>5 DEF ValueOf, D
<1> QED
  BY <1>3, <1>4, <1>5

\* A loop over digits ends at the first character that is none.
LEMMA DigitsEndAt ==
    ASSUME TextOK, NEW p \in Nat, NEW k \in Nat, p <= k, k < Len(text),
           \A r \in p..(k - 1) : At(r) \in Digit, At(k) \notin Digit
    PROVE  DigitsEnd(p) = k /\ ~RanOut(p, k)
<1>1. Len(text) \in Nat /\ p <= Len(text)
  BY EofIs
<1>2. PICK q \in Nat : q = DigitsEnd(p)
  BY <1>1, DigitsEndIs
<1>3. /\ q \in p..(Len(text) + 1)
      /\ \A r \in p..(q - 1) : At(r) \in Digit
      /\ (q > p /\ Eof(q)) \/ ~(At(q) \in Digit)
  BY <1>1, <1>2, DigitsEndIs
<1>4. ~(q > k)
  <2> SUFFICES ASSUME q > k PROVE FALSE
    OBVIOUS
  <2>1. k \in p..(q - 1)
    OBVIOUS
  <2> QED
    BY <1>3, <2>1
<1>5. ~(q < k)
  <2> SUFFICES ASSUME q < k PROVE FALSE
    OBVIOUS
  <2>1. q \in p..(k - 1) /\ ~(q >= Len(text))
    BY <1>1, <1>3
  <2>2. ~Eof(q)
    BY <2>1 DEF Eof
  <2> QED
    BY <1>3, <2>1, <2>2
<1>6. ~Eof(k)
  BY <1>1 DEF Eof
<1> QED
  BY <1>2, <1>4, <1>5, <1>6 DEF RanOut

\* No value of the text begins at p.
NoValueAt(p) == \A k \in 0..(Len(text) - 1) : ~D("value", p, k)

\* A value that begins at p ends at q.
OnlyValueAt(p, q) == \A k \in 0..(Len(text) - 1) : D("value", p, k) => k = q

\* An integer that the grammar finds is one that b_parse_int reads.
LEMMA IntFound ==
    ASSUME TextOK, pos \in Nat, ~Eof(pos), At(pos) = "i",
           NEW k \in 0..(Len(text) - 1), D("value", pos, k)
    PROVE  IntRead /\ IntEnd = k
<1>1. Len(text) \in Nat /\ pos < Len(text)
  BY EofIs
<1>2. pos < k /\ Int_(pos, k)
  BY <1>1, ValueForms, NotDigits
<1>3. PICK p \in Nat : p = IntFrom
  BY DEF IntFrom
<1>4. At(k) = "e" /\ \A r \in p..(k - 1) : At(r) \in Digit
  BY <1>2, <1>3 DEF Int_, IntFrom, IsDigit, Digit
<1>5. p <= k
  <2>1. CASE At(pos + 1) = "-"
    <3>1. pos + 1 # k
      BY <1>4, <2>1
    <3> QED
      BY <1>2, <1>3, <2>1, <3>1 DEF IntFrom
  <2>2. CASE At(pos + 1) # "-"
    BY <1>2, <1>3, <2>2 DEF IntFrom
  <2> QED
    BY <2>1, <2>2
<1>6. DigitsEnd(p) = k /\ ~RanOut(p, k)
  <2>1. At(k) \notin Digit
    BY <1>4, NotDigits
  <2> QED
    BY <1>1, <1>4, <1>5, <2>1, DigitsEndAt
<1>7. ~Eof(pos + 1)
  BY <1>1, <1>2, EofIs
<1> QED
  BY <1>3, <1>4, <1>6, <1>7 DEF IntRead, IntEnd

\* What b_parse_int reads is an integer of the grammar.
LEMMA IntIsValue ==
    ASSUME TextOK, pos \in Nat, ~Eof(pos), At(pos) = "i", IntRead
    PROVE  /\ IntEnd \in Nat /\ pos < IntEnd
           /\ IntEnd < Len(text) => D("value", pos, IntEnd)
           /\ IntEnd >= Len(text) /\ pos = 0 => text = <<"i", "-">>
<1>1. Len(text) \in Nat /\ pos + 1 < Len(text)
  BY EofIs DEF IntRead
<1>2. PICK p \in Nat : p = IntFrom /\ p <= Len(text) /\ pos < p
  BY <1>1 DEF IntFrom
<1>3. PICK q \in Nat : q = IntEnd
  BY <1>2, DigitsEndIs DEF IntEnd
<1>4. p <= q /\ (\A r \in p..(q - 1) : At(r) \in Digit) /\ At(q) = "e" /\ ~RanOut(p, q)
  BY <1>1, <1>2, <1>3, DigitsEndIs DEF IntEnd, IntRead
<1>5. ASSUME q < Len(text) PROVE D("value", pos, q)
  <2>1. Int_(pos, q)
    BY <1>2, <1>4 DEF Int_, IntFrom, IsDigit, Digit
  <2>2. ValueOf(Derives, pos, q)
    BY <2>1 DEF ValueOf
  <2>3. pos \in 0..Len(text) /\ q \in -1..(Len(text) - 1)
    BY <1>1, <1>5
  <2> QED
    BY <2>2, <2>3, DerivedForms
<1>6. ASSUME q >= Len(text), pos = 0 PROVE text = <<"i", "-">>
  <2>1. q = p
    BY <1>1, <1>4, <1>6 DEF RanOut, Eof
  <2>2. p = 2 /\ At(1) = "-" /\ Len(text) = 2
    BY <1>1, <1>2, <1>6, <2>1 DEF IntFrom
  <2>3. text[1] = "i" /\ text[2] = "-"
    BY <1>6, <2>2 DEF At, Eof
  <2> QED
    BY <2>2, <2>3 DEF TextOK
<1> QED
  BY <1>2, <1>3, <1>4, <1>5, <1>6

\* A string that the grammar finds is one that b_parse_string reads.
LEMMA StrFound ==
    ASSUME TextOK, pos \in Nat, ~Eof(pos), At(pos) \in Digit,
           NEW k \in 0..(Len(text) - 1), D("value", pos, k)
    PROVE  StrRead /\ StrEnd = k
<1>1. Len(text) \in Nat /\ pos < Len(text) /\ k \in Nat /\ k < Len(text)
  BY EofIs
<1>2. Str_(pos, k)
  BY <1>1, ValueForms, NotDigits
<1>3. PICK c \in (pos + 1)..k :
          /\ At(c) = ":" /\ \A r \in pos..(c - 1) : At(r) \in Digit
          /\ k = c + Max({0, Wrap(Plain(Digits(pos, c)))})
  BY <1>2 DEF Str_, IsDigit, Digit
<1>4. c \in Nat /\ pos + 1 <= c /\ pos < c /\ c < Len(text)
  BY <1>1
<1>5. DigitsEnd(pos + 1) = c /\ ~RanOut(pos + 1, c)
  <2>1. At(c) \notin Digit
    BY <1>3, NotDigits
  <2>2. \A r \in (pos + 1)..(c - 1) : At(r) \in Digit
    BY <1>3, <1>4
  <2>3. PICK p \in Nat : p = pos + 1
    OBVIOUS
  <2> QED
    BY <1>4, <2>1, <2>2, <2>3, DigitsEndAt
<1>6. PICK n \in Int : n = StrNum
  <2>1. StrNum \in IntMin..IntMax
    BY <1>3, <1>4, <1>5, ReadsModulo DEF StrNum, StrColon
  <2> QED
    BY <2>1, WidthFacts
<1>7. n = Wrap(Plain(Digits(pos, c)))
  BY <1>3, <1>4, <1>5, <1>6, ReadsModulo DEF StrNum, StrColon
<1>8. StrEnd = k /\ StrColon = c
  BY <1>3, <1>5, <1>6, <1>7 DEF StrEnd, StrColon
<1>9. n = IntMax => c + 1 <= k
  BY <1>3, <1>4, <1>7, MaxPair, WidthFacts
<1>10. ~Eof(k) /\ (n = IntMax => ~Eof(c + 1))
  BY <1>1, <1>4, <1>9, EofIs
<1> QED
  BY <1>3, <1>5, <1>6, <1>8, <1>10 DEF StrRead

\* What b_parse_string reads is a string of the grammar.
LEMMA StrIsValue ==
    ASSUME TextOK, pos \in Nat, ~Eof(pos), At(pos) \in Digit, StrRead, StrNum # IntMax
    PROVE  /\ StrEnd \in Nat /\ pos < StrEnd /\ Str_(pos, StrEnd)
           /\ StrEnd < Len(text) => D("value", pos, StrEnd)
           /\ StrEnd >= Len(text) /\ pos = 0 => text = <<"0">>
<1>1. Len(text) \in Nat /\ pos + 1 <= Len(text) /\ pos + 1 \in Nat
  BY EofIs
<1>2. PICK q \in Nat : q = StrColon
  BY <1>1, DigitsEndIs DEF StrColon
<1>3. pos + 1 <= q /\ (\A r \in (pos + 1)..(q - 1) : At(r) \in Digit) /\ ~RanOut(pos + 1, q)
  BY <1>1, <1>2, DigitsEndIs DEF StrColon, StrRead
<1>4. pos < q /\ \A r \in pos..(q - 1) : At(r) \in Digit
  <2> SUFFICES ASSUME NEW r \in pos..(q - 1) PROVE At(r) \in Digit
    BY <1>3
  <2>1. r = pos \/ r \in (pos + 1)..(q - 1)
    OBVIOUS
  <2> QED
    BY <1>3, <2>1
<1>5. PICK n \in Int : n = StrNum
  <2>1. StrNum \in IntMin..IntMax
    BY <1>2, <1>4, ReadsModulo DEF StrNum
  <2> QED
    BY <2>1, WidthFacts
<1>6. n = Wrap(Plain(Digits(pos, q))) /\ (q = pos + 1 => n = DigitOf(At(pos)))
  BY <1>2, <1>4, <1>5, ReadsModulo DEF StrNum
<1>7. PICK e \in Nat : e = StrEnd /\ e = q + (IF n > 0 THEN n ELSE 0) /\ e = q + Max({0, n})
  BY <1>2, <1>5, MaxPair DEF StrEnd
<1>8. pos < e /\ q <= e
  BY <1>4, <1>7
<1>9. Str_(pos, e)
  <2>1. q \in (pos + 1)..e
    BY <1>4, <1>8
  <2>2. At(q) = ":"
    BY <1>2 DEF StrRead
  <2>3. \A d \in pos..(q - 1) : IsDigit(At(d))
    BY <1>4 DEF IsDigit, Digit
  <2>4. e = q + Max({0, Wrap(Plain(Digits(pos, q)))})
    BY <1>6, <1>7
  <2> QED
    BY <2>1, <2>2, <2>3, <2>4 DEF Str_
<1>10. ASSUME e < Len(text) PROVE D("value", pos, e)
  <2>1. ValueOf(Derives, pos, e)
    BY <1>9 DEF ValueOf
  <2>2. pos \in 0..Len(text) /\ e \in -1..(Len(text) - 1)
    BY <1>1, <1>10
  <2> QED
    BY <2>1, <2>2, DerivedForms
<1>11. ASSUME e >= Len(text), pos = 0 PROVE text = <<"0">>
  <2>1. e = q
    BY <1>2, <1>5, <1>7, <1>8, <1>11 DEF StrRead, Eof
  <2>2. q = 1 /\ Len(text) = 1
    <3>1. ~(q > pos + 1 /\ q >= Len(text))
      BY <1>3 DEF RanOut, Eof
    <3>2. q >= Len(text) /\ pos + 1 <= q
      BY <1>3, <1>11, <2>1
    <3>3. q = 1
      BY <1>11, <3>1, <3>2
    <3>4. PICK t \in Nat : t = Len(text)
      BY <1>1
    <3>5. 0 + 1 <= t
      BY <1>1, <1>11, <3>4
    <3> QED
      BY <3>2, <3>3, <3>4, <3>5
  <2>3. n <= 0 /\ n = DigitOf(At(0))
    BY <1>6, <1>7, <1>11, <2>1, <2>2
  <2>4. n \in 0..9 /\ DigitChar[n + 1] = At(0)
    BY <1>11, <2>3, DigitFacts
  <2>5. n + 1 = 1
    BY <2>3, <2>4
  <2>6. text[1] = "0"
    BY <2>2, <2>4, <2>5 DEF At, Eof, DigitChar
  <2> QED
    BY <2>2, <2>6 DEF TextOK
<1> QED
  BY <1>7, <1>8, <1>9, <1>10, <1>11

-----------------------------------------------------------------------------
(* What a list or a dictionary has read, by the grammar.                     *)

\* A value that ends before the text does was read by the rules of the grammar.
IsValue(v) ==
    /\ v.start <= v.end
    /\ v.end < Len(text) =>
           /\ D("value", v.start, v.end)
           /\ v.type = "str" => Str_(v.start, v.end)

AllValues(vs) == \A i \in 1..Len(vs) : vs[i].end < Len(text) /\ IsValue(vs[i])

\* The k-th of the values elems lies before the next one.
Adjoins(vs, elems, from, k, a, b) ==
    /\ a = StartOf(vs, elems, from, k) /\ b + 1 = StartOf(vs, elems, from, k + 1)
    /\ a <= b /\ b < Len(text) /\ D("value", a, b)
    /\ vs[elems[k]].type = "str" => Str_(a, b)

\* Each value ends where the next one begins.
LEMMA Neighbours ==
    ASSUME NEW vs \in Seq(Parsed), AllValues(vs), NEW elems \in Seq(Nat), NEW from, NEW to,
           Fills(vs, elems, from, to, Len(vs)), NEW k \in 1..Len(elems)
    PROVE  \E a \in Nat, b \in Nat : Adjoins(vs, elems, from, k, a, b)
<1>1. elems[k] \in 1..Len(vs) /\ vs[elems[k]].start = StartOf(vs, elems, from, k)
  BY DEF Fills
<1>2. PICK u \in Parsed : u = vs[elems[k]]
  BY <1>1
<1>3. u.start \in Nat /\ u.end \in Nat
  BY DEF Parsed
<1>4. u.end < Len(text) /\ IsValue(u)
  BY <1>1, <1>2 DEF AllValues
<1>5. StartOf(vs, elems, from, k + 1) = u.end + 1
  <2>1. k + 1 # 1 /\ (k + 1) - 1 = k
    OBVIOUS
  <2> QED
    BY <1>2, <2>1 DEF StartOf
<1>6. Adjoins(vs, elems, from, k, u.start, u.end)
  BY <1>1, <1>2, <1>3, <1>4, <1>5 DEF IsValue, Adjoins
<1> QED
  BY <1>3, <1>6

\* Values next to each other are items, from the last one on.
LEMMA ItemsFill ==
    ASSUME TextOK, NEW vs \in Seq(Parsed), AllValues(vs), NEW elems \in Seq(Nat),
           NEW from, NEW to \in Nat, to < Len(text), Fills(vs, elems, from, to, Len(vs))
    PROVE  from <= to /\ D("items", from, to - 1)
<1>1. PICK l \in Nat : l = Len(elems)
  OBVIOUS
<1>2. PICK n \in Nat : n = Len(text)
  BY EofIs
<1> DEFINE St(k) == StartOf(vs, elems, from, k)
           S == {m \in Nat : m <= l => /\ St((l - m) + 1) \in Nat /\ St((l - m) + 1) <= to
                                       /\ D("items", St((l - m) + 1), to - 1)}
<1>3. 0 \in S
  <2>1. St((l - 0) + 1) = to
    BY <1>1 DEF Fills
  <2>2. to \in 0..Len(text) /\ to - 1 \in -1..(Len(text) - 1) /\ to > to - 1
    BY <1>2
  <2>3. D("items", to, to - 1)
    BY <2>2, DerivedForms DEF ItemsOf
  <2> HIDE DEF St
  <2> QED
    BY <2>1, <2>3
<1>4. ASSUME NEW m \in Nat, m \in S PROVE m + 1 \in S
  <2> SUFFICES ASSUME m + 1 <= l
               PROVE  /\ St((l - (m + 1)) + 1) \in Nat /\ St((l - (m + 1)) + 1) <= to
                      /\ D("items", St((l - (m + 1)) + 1), to - 1)
    OBVIOUS
  <2>1. PICK k \in 1..l : k = l - m /\ (l - (m + 1)) + 1 = k /\ (l - m) + 1 = k + 1
    OBVIOUS
  <2>2. St(k + 1) \in Nat /\ St(k + 1) <= to /\ D("items", St(k + 1), to - 1)
    BY <1>4, <2>1
  <2>3. PICK a \in Nat, b \in Nat :
            a = St(k) /\ b + 1 = St(k + 1) /\ a <= b /\ b < Len(text) /\ D("value", a, b)
    BY <1>1, Neighbours DEF Adjoins
  <2> HIDE DEF St
  <2>4. a \in 0..Len(text) /\ to - 1 \in -1..(Len(text) - 1) /\ b \in a..(to - 1) /\ a <= to
    BY <1>2, <2>2, <2>3
  <2>5. ItemsOf(Derives, a, to - 1)
    BY <2>2, <2>3, <2>4 DEF ItemsOf, D
  <2>6. D("items", a, to - 1)
    BY <2>4, <2>5, DerivedForms
  <2> QED
    BY <2>1, <2>3, <2>4, <2>6
<1>5. l \in S
  <2> HIDE DEF S
  <2> QED
    BY <1>3, <1>4, SetInduction
<1>6. St((l - l) + 1) = from
  <2>1. (l - l) + 1 = 1
    OBVIOUS
  <2> QED
    BY <2>1 DEF StartOf
<1> HIDE DEF St
<1> QED
  BY <1>5, <1>6

\* Two by two, with strings for keys, they are pairs.
LEMMA PairsFill ==
    ASSUME TextOK, NEW vs \in Seq(Parsed), AllValues(vs), NEW elems \in Seq(Nat),
           NEW h \in Nat, Len(elems) = 2 * h,
           \A k \in 1..h : vs[elems[2 * k - 1]].type = "str",
           NEW from, NEW to \in Nat, to < Len(text), Fills(vs, elems, from, to, Len(vs))
    PROVE  from <= to /\ D("pairs", from, to - 1)
<1>2. PICK n \in Nat : n = Len(text)
  BY EofIs
<1> DEFINE St(k) == StartOf(vs, elems, from, k)
           S == {m \in Nat : m <= h => /\ St(2 * (h - m) + 1) \in Nat /\ St(2 * (h - m) + 1) <= to
                                       /\ D("pairs", St(2 * (h - m) + 1), to - 1)}
<1>3. 0 \in S
  <2>1. St(2 * (h - 0) + 1) = to
    BY DEF Fills
  <2>2. to \in 0..Len(text) /\ to - 1 \in -1..(Len(text) - 1) /\ to > to - 1
    BY <1>2
  <2>3. D("pairs", to, to - 1)
    BY <2>2, DerivedForms DEF PairsOf
  <2> HIDE DEF St
  <2> QED
    BY <2>1, <2>3
<1>4. ASSUME NEW m \in Nat, m \in S PROVE m + 1 \in S
  <2> SUFFICES ASSUME m + 1 <= h
               PROVE  /\ St(2 * (h - (m + 1)) + 1) \in Nat /\ St(2 * (h - (m + 1)) + 1) <= to
                      /\ D("pairs", St(2 * (h - (m + 1)) + 1), to - 1)
    OBVIOUS
  <2>0. PICK g \in 1..h : g = h - m
    OBVIOUS
  <2>1. PICK k \in 1..Len(elems) :
            k = 2 * g - 1 /\ 2 * (h - (m + 1)) + 1 = k /\ 2 * (h - m) + 1 = (k + 1) + 1
            /\ k + 1 \in 1..Len(elems)
    BY <2>0
  <2>2. St((k + 1) + 1) \in Nat /\ St((k + 1) + 1) <= to /\ D("pairs", St((k + 1) + 1), to - 1)
    <3>1. m <= h
      OBVIOUS
    <3>2. PICK x : x = 2 * (h - m) + 1
      OBVIOUS
    <3>3. St(x) \in Nat /\ St(x) <= to /\ D("pairs", St(x), to - 1)
      <4> HIDE DEF St
      <4> QED
        BY <1>4, <3>1, <3>2
    <3>4. x = (k + 1) + 1
      BY <2>1, <3>2
    <3> QED
      BY <3>3, <3>4, Zenon
  <2>3. PICK a \in Nat, b \in Nat : Adjoins(vs, elems, from, k, a, b)
    BY Neighbours
  <2>4. PICK a2 \in Nat, b2 \in Nat : Adjoins(vs, elems, from, k + 1, a2, b2)
    <3>1. PICK k2 \in 1..Len(elems) : k2 = k + 1
      BY <2>1
    <3>2. \E a2 \in Nat, b2 \in Nat : Adjoins(vs, elems, from, k2, a2, b2)
      BY Neighbours
    <3> QED
      BY <3>1, <3>2
  <2>9. /\ a = St(k) /\ b + 1 = St(k + 1) /\ a <= b /\ b < Len(text)
        /\ vs[elems[k]].type = "str" => Str_(a, b)
    BY <2>3, Zenon DEF Adjoins
  <2>10. /\ a2 = St(k + 1) /\ b2 + 1 = St((k + 1) + 1) /\ a2 <= b2 /\ b2 < Len(text)
         /\ D("value", a2, b2)
    BY <2>4, Zenon DEF Adjoins
  <2>5. Str_(a, b)
    BY <2>0, <2>1, <2>9
  <2> HIDE DEF St
  <2>6. /\ a \in 0..Len(text) /\ to - 1 \in -1..(Len(text) - 1) /\ a2 = b + 1
        /\ b \in a..(to - 1) /\ b2 \in a..(to - 1) /\ b < b2 /\ a <= to
    <3>1. a2 = b + 1 /\ a <= b
      BY <2>9, <2>10, Zenon
    <3>2. a2 <= b2 /\ b2 + 1 <= to
      BY <2>2, <2>10
    <3> QED
      BY <1>2, <3>1, <3>2
  <2>7. PairsOf(Derives, a, to - 1)
    BY <2>2, <2>10, <2>5, <2>6 DEF PairsOf, D
  <2>8. D("pairs", a, to - 1)
    BY <2>6, <2>7, DerivedForms
  <2> QED
    BY <2>1, <2>6, <2>8, <2>9
<1>5. h \in S
  <2> HIDE DEF S
  <2> QED
    BY <1>3, <1>4, SetInduction
<1>6. St(2 * (h - h) + 1) = from
  <2>1. 2 * (h - h) + 1 = 1
    OBVIOUS
  <2> QED
    BY <2>1 DEF StartOf
<1> HIDE DEF St
<1> QED
  BY <1>5, <1>6

-----------------------------------------------------------------------------
(* What the calls in progress may still read: where each of them may end, by *)
(* the grammar.                                                              *)

OddDict(f) == f.type = "dict" /\ Len(f.elems) % 2 = 1

\* The value that b_parse_dict has read last, for a key, is a string.
KeyRead(vs, f) == vs[f.elems[Len(f.elems)]].type = "str"

\* By the grammar, the call f may end at e if it is at p.
EndsAt(vs, f, p, e) ==
    /\ p <= e /\ At(e) = "e"
    /\ \/ f.type = "list" /\ D("items", p, e - 1)
       \/ f.type = "dict" /\ ~OddDict(f) /\ D("pairs", p, e - 1)
       \/ /\ OddDict(f) /\ KeyRead(vs, f)
          /\ \E m \in p..(e - 1) : D("value", p, m) /\ D("pairs", m + 1, e - 1)

\* It may end at e if it gets a value from p to k next.
GoesOn(vs, f, p, k, e) ==
    /\ k < e /\ At(e) = "e"
    /\ \/ f.type = "list" /\ D("items", k + 1, e - 1)
       \/ OddDict(f) /\ KeyRead(vs, f) /\ D("pairs", k + 1, e - 1)
       \/ /\ f.type = "dict" /\ ~OddDict(f) /\ Str_(p, k)
          /\ \E m \in (k + 1)..(e - 1) : D("value", k + 1, m) /\ D("pairs", m + 1, e - 1)

\* The calls below the last one may end at e, one inside the other.
Below(vs, stk, e) ==
    \A d \in 1..(Len(stk) - 1) : GoesOn(vs, stk[d], stk[d + 1].start, e[d + 1], e[d])

EndsOf(stk, j) == {e \in [1..Len(stk) -> 0..(Len(text) - 1)] : e[1] = j}

\* The value that the text begins with may end at j if the parser is at p.
Viable(vs, stk, p, j) ==
    IF stk = <<>> THEN D("value", p, j)
    ELSE \E e \in EndsOf(stk, j) : Below(vs, stk, e) /\ EndsAt(vs, stk[Len(stk)], p, e[Len(stk)])

\* It may end at j if the calls stk get a value from p to k next.
Resumes(vs, stk, p, k, j) ==
    IF stk = <<>> THEN k = j
    ELSE \E e \in EndsOf(stk, j) : Below(vs, stk, e) /\ GoesOn(vs, stk[Len(stk)], p, k, e[Len(stk)])

\* What the calls in progress have read: their first character, and strings for keys.
Opened(stk) ==
    /\ stk # <<>> => stk[1].start = 0
    /\ \A d \in 1..Len(stk) : At(stk[d].start) = IF stk[d].type = "list" THEN "l" ELSE "d"

KeysOf(vs, f) ==
    f.type = "dict" => \A k \in 1..Len(f.elems) :
                           2 * k <= Len(f.elems) => vs[f.elems[2 * k - 1]].type = "str"

KeysRead(vs, stk) == \A d \in 1..Len(stk) : KeysOf(vs, stk[d])

\* No value that the grammar finds at the start of the text is lost.
Live == \A j \in 0..(Len(text) - 1) : D("value", 0, j) => Viable(vals, stack, pos, j)

GrammarInv ==
    /\ \A i \in 1..Len(vals) : IsValue(vals[i])
    /\ code = "run" => Opened(stack) /\ KeysRead(vals, stack) /\ (stack = <<>> => pos = 0) /\ Live
    /\ code \in {"eof", "bad"} => NoValueAt(0)
    /\ code = "ok" =>
           /\ vals[Len(vals)].start = 0
           /\ vals[Len(vals)].end >= Len(text) => text \in {<<"0">>, <<"i", "-">>}

\* A call that is not at its end gets a value next.
LEMMA NextValue ==
    ASSUME TextOK, NEW vs, NEW f \in Frame, NEW p \in Nat, p < Len(text),
           NEW e \in 0..(Len(text) - 1), EndsAt(vs, f, p, e), OddDict(f) \/ At(p) # "e"
    PROVE  \E k \in 0..(Len(text) - 1) : D("value", p, k) /\ GoesOn(vs, f, p, k, e)
<1>1. /\ Len(text) \in Nat /\ p \in 0..Len(text) /\ e - 1 \in -1..(Len(text) - 1)
      /\ e \in Nat /\ p <= e /\ At(e) = "e"
  BY EofIs DEF EndsAt
<1>2. CASE f.type = "list" /\ D("items", p, e - 1)
  <2>1. ~OddDict(f)
    BY <1>2 DEF OddDict
  <2>2. ~(p > e - 1)
    <3> SUFFICES ASSUME p > e - 1 PROVE FALSE
      OBVIOUS
    <3>1. p = e
      BY <1>1
    <3> QED
      BY <1>1, <2>1, <3>1
  <2>3. ItemsOf(Derives, p, e - 1)
    BY <1>1, <1>2, DerivedForms
  <2>4. PICK k \in p..(e - 1) : D("value", p, k) /\ D("items", k + 1, e - 1)
    BY <2>2, <2>3 DEF ItemsOf, D
  <2>5. k \in 0..(Len(text) - 1) /\ k < e
    BY <1>1
  <2>6. GoesOn(vs, f, p, k, e)
    BY <1>1, <1>2, <2>4, <2>5 DEF GoesOn
  <2> QED
    BY <2>4, <2>5, <2>6
<1>3. CASE f.type = "dict" /\ ~OddDict(f) /\ D("pairs", p, e - 1)
  <2>2. ~(p > e - 1)
    <3> SUFFICES ASSUME p > e - 1 PROVE FALSE
      OBVIOUS
    <3>1. p = e
      BY <1>1
    <3> QED
      BY <1>1, <1>3, <3>1
  <2>3. PairsOf(Derives, p, e - 1)
    BY <1>1, <1>3, DerivedForms
  <2>4. PICK k \in p..(e - 1), m \in p..(e - 1) :
            /\ k < m /\ Str_(p, k)
            /\ D("value", k + 1, m) /\ D("pairs", m + 1, e - 1)
    BY <2>2, <2>3 DEF PairsOf, D
  <2>5. /\ k \in 0..(Len(text) - 1) /\ k \in -1..(Len(text) - 1) /\ k < e
        /\ m \in (k + 1)..(e - 1)
    BY <1>1, <2>4
  <2>6. GoesOn(vs, f, p, k, e)
    BY <1>1, <1>3, <2>4, <2>5 DEF GoesOn
  <2>7. ValueOf(Derives, p, k)
    BY <2>4 DEF ValueOf
  <2>8. D("value", p, k)
    BY <1>1, <2>5, <2>7, DerivedForms
  <2> QED
    BY <2>5, <2>6, <2>8
<1>4. CASE /\ OddDict(f) /\ KeyRead(vs, f)
           /\ \E m \in p..(e - 1) : D("value", p, m) /\ D("pairs", m + 1, e - 1)
  <2>1. PICK m \in p..(e - 1) : D("value", p, m) /\ D("pairs", m + 1, e - 1)
    BY <1>4
  <2>2. m \in 0..(Len(text) - 1) /\ m < e
    BY <1>1
  <2>3. GoesOn(vs, f, p, m, e)
    BY <1>1, <1>4, <2>1, <2>2 DEF GoesOn
  <2> QED
    BY <2>1, <2>2, <2>3
<1> QED
  BY <1>2, <1>3, <1>4 DEF EndsAt

\* The same of all the calls in progress.
LEMMA CallResumes ==
    ASSUME ParserInv, code = "run", Calls, NEW j \in 0..(Len(text) - 1),
           Viable(vals, stack, pos, j)
    PROVE  \E k \in 0..(Len(text) - 1) : D("value", pos, k) /\ Resumes(vals, stack, pos, k, j)
<1>1. TextOK /\ pos \in Nat /\ stack \in Seq(Frame)
  BY DEF ParserInv, ParserTypes
<1>2. CASE stack = <<>>
  BY <1>2 DEF Viable, Resumes
<1>3. CASE stack # <<>>
  <2>1. PICK l \in Nat : l = Len(stack) /\ l # 0
    BY <1>1, <1>3
  <2>2. PICK f \in Frame : f = stack[l]
    BY <1>1, <2>1
  <2>3. PICK e \in EndsOf(stack, j) : Below(vals, stack, e) /\ EndsAt(vals, f, pos, e[l])
    BY <1>3, <2>1, <2>2 DEF Viable
  <2>4. PICK x \in 0..(Len(text) - 1) : x = e[l]
    BY <2>1 DEF EndsOf
  <2>5. OddDict(f) \/ At(pos) # "e"
    BY <1>3, <2>1, <2>2 DEF Calls, AfterKey, Top, OddDict
  <2>6. pos < Len(text)
    BY <1>3 DEF ParserInv, Inside
  <2>7. PICK k \in 0..(Len(text) - 1) : D("value", pos, k) /\ GoesOn(vals, f, pos, k, x)
    BY <1>1, <2>3, <2>4, <2>5, <2>6, NextValue
  <2>8. Resumes(vals, stack, pos, k, j)
    BY <1>3, <2>1, <2>2, <2>3, <2>4, <2>7 DEF Resumes
  <2> QED
    BY <2>7, <2>8
<1> QED
  BY <1>2, <1>3

\* Where no value begins, the text has none.
LEMMA NoneLeft ==
    ASSUME ParserInv, code = "run", Calls, Live, NoValueAt(pos)
    PROVE  NoValueAt(0)
<1> SUFFICES ASSUME NEW j \in 0..(Len(text) - 1), D("value", 0, j) PROVE FALSE
  BY DEF NoValueAt
<1>1. Viable(vals, stack, pos, j)
  BY DEF Live
<1> QED
  BY <1>1, CallResumes DEF NoValueAt

\* GrammarInv of the values, the calls and the answer that a step leaves.
Leaves(vs, stk, p, c) ==
    /\ \A i \in 1..Len(vs) : IsValue(vs[i])
    /\ c = "run" => /\ Opened(stk) /\ KeysRead(vs, stk) /\ (stk = <<>> => p = 0)
                    /\ \A j \in 0..(Len(text) - 1) : D("value", 0, j) => Viable(vs, stk, p, j)
    /\ c \in {"eof", "bad"} => NoValueAt(0)
    /\ c = "ok" => /\ vs[Len(vs)].start = 0
                   /\ vs[Len(vs)].end >= Len(text) => text \in {<<"0">>, <<"i", "-">>}

\* A step that keeps the text is judged by what it leaves.
LEMMA GrammarLeft ==
    ASSUME text' = text, beyond' = beyond, Leaves(vals', stack', pos', code')
    PROVE  GrammarInv'
<1>1. Derives' = Derives
  BY DEF Derives, Int_, Str_, At, Eof, Digits
<1>2. \A i \in 1..Len(vals') : IsValue(vals[i])'
  <2>1. \A i \in 1..Len(vals') : IsValue(vals'[i])
    BY Zenon DEF Leaves
  <2> QED
    BY <1>1, <2>1 DEF IsValue, D, Str_, At, Eof, Digits
<1>3. NoValueAt(0)' <=> NoValueAt(0)
  BY <1>1 DEF NoValueAt, D
<1>4. Opened(stack)' <=> Opened(stack')
  BY DEF Opened, At, Eof
<1>5. KeysRead(vals, stack)' <=> KeysRead(vals', stack')
  BY DEF KeysRead, KeysOf
<1>6. ASSUME NEW j PROVE Viable(vals, stack, pos, j)' <=> Viable(vals', stack', pos', j)
  BY <1>1 DEF Viable, EndsOf, Below, EndsAt, GoesOn, KeyRead, OddDict, D, Str_, At, Eof, Digits
<1>7. ASSUME NEW j PROVE D("value", 0, j)' <=> D("value", 0, j)
  BY <1>1 DEF D
<1>8. code' = "run" => Live'
  BY <1>6, <1>7 DEF Live, Leaves
<1> QED
  BY <1>2, <1>3, <1>4, <1>5, <1>8 DEF Leaves, GrammarInv

-----------------------------------------------------------------------------
(* A call returns.                                                           *)

\* A value that is read later changes nothing for a caller.
LEMMA GoesOnKept ==
    ASSUME NEW vs \in Seq(Parsed), NEW v \in Parsed, NEW f \in Frame, NEW from, NEW to,
           Fills(vs, f.elems, from, to, Len(vs)),
           NEW p, NEW k, NEW e, GoesOn(vs, f, p, k, e)
    PROVE  GoesOn(Append(vs, v), f, p, k, e)
<1>1. OddDict(f) /\ KeyRead(vs, f) => KeyRead(Append(vs, v), f)
  <2> SUFFICES ASSUME OddDict(f), KeyRead(vs, f) PROVE KeyRead(Append(vs, v), f)
    OBVIOUS
  <2>1. f.elems \in Seq(Nat)
    BY DEF Frame
  <2>2. PICK l \in Nat : l = Len(f.elems)
    BY <2>1
  <2>3. l \in 1..l
    <3>1. l % 2 = 1
      BY <2>2 DEF OddDict
    <3>2. 0 % 2 = 0
      OBVIOUS
    <3>3. l # 0
      BY <3>1, <3>2
    <3> QED
      BY <3>3
  <2>4. f.elems[l] \in 1..Len(vs)
    BY <2>2, <2>3 DEF Fills
  <2>5. PICK x \in 1..Len(vs) : x = f.elems[l]
    BY <2>4
  <2>6. Append(vs, v)[x] = vs[x]
    OBVIOUS
  <2> QED
    BY <2>2, <2>5, <2>6 DEF KeyRead
<1> QED
  BY <1>1, Zenon DEF GoesOn

\* The call that gets v may end where it might before.
LEMMA TopReads ==
    ASSUME TextOK, NEW vs \in Seq(Parsed), NEW v \in Parsed, NEW f \in Frame,
           NEW e \in 0..(Len(text) - 1), GoesOn(vs, f, v.start, v.end, e),
           Str_(v.start, v.end) => v.type = "str",
           NEW es, es = Append(f.elems, Len(vs) + 1),
           NEW g \in Frame, g.type = f.type, g.elems = es
    PROVE  EndsAt(Append(vs, v), g, v.end + 1, e)
<1>1. v.end \in Nat /\ v.end < e /\ At(e) = "e" /\ v.end + 1 <= e
  <2>1. v.end \in Nat
    BY DEF Parsed
  <2>2. v.end < e /\ At(e) = "e"
    BY DEF GoesOn
  <2>3. Len(text) \in Nat
    BY EofIs
  <2> QED
    BY <2>1, <2>2, <2>3
<1>2. PICK ws : ws = Append(vs, v)
  OBVIOUS
<1>3. PICK l \in Nat : l = Len(f.elems) /\ f.elems \in Seq(Nat)
  BY DEF Frame
<1>4. PICK n \in Nat : n = Len(vs) + 1
  OBVIOUS
<1>5. es \in Seq(Nat) /\ Len(es) = l + 1 /\ es[l + 1] = n /\ ws[n] = v
  BY <1>2, <1>3, <1>4
<1>6. f.type = "dict" => (OddDict(g) <=> ~OddDict(f))
  <2>1. (l + 1) % 2 = 1 <=> ~(l % 2 = 1)
    <3>1. (l % 2 = 1 \/ l % 2 = 0) /\ ((l + 1) % 2 = 1 <=> l % 2 = 0)
      BY Parity
    <3> QED
      BY <3>1
  <2> QED
    BY <1>3, <1>5, <2>1 DEF OddDict
<1>7. f.type = "dict" /\ Str_(v.start, v.end) => KeyRead(ws, g)
  BY <1>5 DEF KeyRead
<1>8. CASE f.type = "list" /\ D("items", v.end + 1, e - 1)
  BY <1>1, <1>2, <1>8 DEF EndsAt
<1>9. CASE OddDict(f) /\ KeyRead(vs, f) /\ D("pairs", v.end + 1, e - 1)
  <2>1. f.type = "dict"
    BY <1>9 DEF OddDict
  <2> QED
    BY <1>1, <1>2, <1>6, <1>9, <2>1 DEF EndsAt
<1>10. CASE /\ f.type = "dict" /\ ~OddDict(f) /\ Str_(v.start, v.end)
            /\ \E m \in (v.end + 1)..(e - 1) : D("value", v.end + 1, m) /\ D("pairs", m + 1, e - 1)
  BY <1>1, <1>2, <1>6, <1>7, <1>10 DEF EndsAt
<1> QED
  BY <1>8, <1>9, <1>10 DEF GoesOn

\* A caller that is owed a value goes on when it gets it.
LEMMA FinishResumes ==
    ASSUME ParserInv, code = "run", NEW v, NEW callers, Returnable(v, callers),
           Finish(v, v.end + 1, callers), Str_(v.start, v.end) => v.type = "str",
           NEW j \in 0..(Len(text) - 1), Resumes(vals, callers, v.start, v.end, j)
    PROVE  code' \notin {"eof", "bad"} /\ (code' = "run" => Viable(vals', stack', v.end + 1, j))
<1>1. TextOK /\ vals \in Seq(Parsed) /\ v \in Parsed /\ callers \in Seq(Frame) /\ Len(text) \in Nat
  BY EofIs DEF ParserInv, ParserTypes, Returnable
<1>2. CASE callers = <<>>
  BY <1>2 DEF Finish
<1>3. CASE callers # <<>>
  <2>1. PICK l \in Nat : l = Len(callers) /\ l # 0
    BY <1>1, <1>3
  <2>2. PICK f \in Frame : f = callers[l]
    BY <1>1, <2>1
  <2>3. PICK n \in Nat : n = Len(vals) + 1
    BY <1>1
  <2>4. PICK es : es = Append(f.elems, n)
    OBVIOUS
  <2>5. PICK g : g = [f EXCEPT !.elems = es]
    OBVIOUS
  <2>6. g \in Frame /\ g.type = f.type /\ g.elems = es /\ g.start = f.start
    <3>1. f.elems \in Seq(Nat)
      BY DEF Frame
    <3>2. es \in Seq(Nat)
      BY <2>3, <2>4, <3>1
    <3> QED
      BY <2>5, <3>2 DEF Frame
  <2>7. /\ vals' = Append(vals, v) /\ stack' = [callers EXCEPT ![l] = g]
        /\ code' \in IF Eof(v.end + 1) THEN {"eof"}
                     ELSE IF f.type = "dict" /\ Len(es) % 2 = 0
                     THEN PutKey(vals'[es[Len(es) - 1]])
                     ELSE {"run"}
    BY <1>3, <2>1, <2>2, <2>3, <2>4, <2>5 DEF Finish
  <2>8. /\ stack' \in Seq(Frame) /\ Len(stack') = l /\ stack'[l] = g
        /\ \A d \in 1..l : d # l => stack'[d] = callers[d]
    BY <1>1, <2>1, <2>6, <2>7, ExceptSeq
  <2>9. PICK e \in EndsOf(callers, j) :
            Below(vals, callers, e) /\ GoesOn(vals, f, v.start, v.end, e[l])
    BY <1>3, <2>1, <2>2 DEF Resumes
  <2>10. PICK x \in 0..(Len(text) - 1) : x = e[l]
    BY <2>1, <2>9 DEF EndsOf
  <2>11. ~Eof(v.end + 1)
    <3>1. v.end \in Nat /\ v.end < x
      BY <1>1, <2>9, <2>10 DEF GoesOn, Parsed
    <3> QED
      BY <1>1, <3>1 DEF Eof
  <2>12. code' \notin {"eof", "bad"}
    <3>1. CASE ~(f.type = "dict" /\ Len(es) % 2 = 0)
      BY <2>7, <2>11, <3>1
    <3>2. CASE f.type = "dict" /\ Len(es) % 2 = 0
      <4>1. PICK m \in Nat : m = Len(f.elems) /\ f.elems \in Seq(Nat)
        BY DEF Frame
      <4>2. Len(es) = m + 1 /\ \A k \in 1..m : es[k] = f.elems[k]
        BY <2>3, <2>4, <4>1
      <4>3. OddDict(f) /\ m \in 1..m /\ Len(es) - 1 = m
        <5>1. (m + 1) % 2 = 0
          BY <3>2, <4>2
        <5>2. m % 2 = 1
          BY <5>1, Parity
        <5>3. m # 0
          BY <5>2
        <5>4. OddDict(f)
          BY <3>2, <4>1, <5>2 DEF OddDict
        <5> QED
          BY <4>2, <5>3, <5>4
      <4>4. GoesOn(vals', f, v.start, v.end, x)
        <5>1. Fills(vals, f.elems, f.start + 1, v.start, Len(vals))
          BY <1>3, <2>1, <2>2, WaitsFront DEF Returnable
        <5> QED
          BY <1>1, <2>7, <2>9, <2>10, <5>1, GoesOnKept
      <4>5. vals'[es[Len(es) - 1]].type = "str"
        <5>1. KeyRead(vals', f)
          BY <3>2, <4>3, <4>4 DEF GoesOn
        <5> QED
          BY <4>1, <4>2, <4>3, <5>1 DEF KeyRead
      <4>6. code' \in PutKey(vals'[es[Len(es) - 1]])
        BY <2>7, <2>11, <3>2
      <4>7. PICK key : key = vals'[es[Len(es) - 1]]
        OBVIOUS
      <4>8. key.type = "str" /\ code' \in PutKey(key)
        BY <4>5, <4>6, <4>7
      <4> QED
        BY <4>8 DEF PutKey
    <3> QED
      BY <3>1, <3>2
  <2>13. Viable(vals', stack', v.end + 1, j)
    <3>1. EndsAt(vals', g, v.end + 1, x)
      BY <1>1, <2>3, <2>4, <2>6, <2>7, <2>9, <2>10, TopReads
    <3>2. ASSUME NEW d \in 1..(l - 1)
          PROVE  GoesOn(vals', stack'[d], stack'[d + 1].start, e[d + 1], e[d])
      <4>1. d \in 1..l /\ d # l /\ d + 1 \in 1..l
        OBVIOUS
      <4>2. stack'[d] = callers[d] /\ stack'[d + 1].start = callers[d + 1].start
        BY <2>2, <2>6, <2>8, <4>1
      <4>3. PICK h \in Frame : h = callers[d]
        BY <1>1, <2>1, <4>1
      <4>4. GoesOn(vals, h, callers[d + 1].start, e[d + 1], e[d])
        BY <2>1, <2>9, <4>3 DEF Below
      <4>5. Fills(vals, h.elems, h.start + 1, callers[d + 1].start, Len(vals))
        BY <2>1, <4>1, <4>3 DEF Returnable, Waits
      <4>6. GoesOn(vals', h, callers[d + 1].start, e[d + 1], e[d])
        BY <1>1, <2>7, <4>4, <4>5, GoesOnKept
      <4> QED
        BY <4>2, <4>3, <4>6
    <3>3. Below(vals', stack', e)
      BY <2>8, <3>2 DEF Below
    <3>4. e \in EndsOf(stack', j)
      BY <2>1, <2>8, <2>9 DEF EndsOf
    <3>5. stack' # <<>>
      BY <2>1, <2>8
    <3> QED
      BY <2>8, <2>10, <3>1, <3>3, <3>4, <3>5 DEF Viable
  <2> QED
    BY <2>12, <2>13
<1> QED
  BY <1>2, <1>3

\* Nor for its keys.
LEMMA KeysKept ==
    ASSUME NEW vs \in Seq(Parsed), NEW v \in Parsed, NEW f \in Frame, NEW from, NEW to,
           Fills(vs, f.elems, from, to, Len(vs)), KeysOf(vs, f)
    PROVE  KeysOf(Append(vs, v), f)
<1> SUFFICES ASSUME f.type = "dict", NEW k \in 1..Len(f.elems), 2 * k <= Len(f.elems)
             PROVE  Append(vs, v)[f.elems[2 * k - 1]].type = "str"
  BY DEF KeysOf
<1>1. f.elems \in Seq(Nat) /\ Len(f.elems) \in Nat
  BY DEF Frame
<1>2. PICK x \in 1..Len(f.elems) : x = 2 * k - 1
  BY <1>1
<1>3. PICK y \in 1..Len(vs) : y = f.elems[x]
  BY DEF Fills
<1>4. vs[y].type = "str"
  BY <1>2, <1>3 DEF KeysOf
<1>5. Append(vs, v)[y] = vs[y]
  OBVIOUS
<1> QED
  BY <1>2, <1>3, <1>4, <1>5

\* A dictionary that goes on has put a string.
LEMMA KeysNext ==
    ASSUME NEW vs \in Seq(Parsed), NEW v \in Parsed, NEW f \in Frame, NEW from, NEW to,
           Fills(vs, f.elems, from, to, Len(vs)), KeysOf(vs, f),
           NEW es, es = Append(f.elems, Len(vs) + 1),
           NEW g \in Frame, g.type = f.type, g.elems = es,
           f.type = "dict" /\ Len(es) % 2 = 0 => Append(vs, v)[es[Len(es) - 1]].type = "str"
    PROVE  KeysOf(Append(vs, v), g)
<1> SUFFICES ASSUME f.type = "dict", NEW k \in 1..Len(es), 2 * k <= Len(es)
             PROVE  Append(vs, v)[es[2 * k - 1]].type = "str"
  BY DEF KeysOf
<1>1. PICK m \in Nat : m = Len(f.elems) /\ f.elems \in Seq(Nat)
  BY DEF Frame
<1>2. Len(es) = m + 1 /\ \A i \in 1..m : es[i] = f.elems[i]
  BY <1>1
<1>3. k \in Nat /\ k >= 1
  BY <1>2
<1>4. CASE 2 * k <= m
  <2>1. PICK x \in 1..m : x = 2 * k - 1
    BY <1>3, <1>4
  <2>2. Append(vs, v)[f.elems[x]].type = "str"
    <3>1. KeysOf(Append(vs, v), f)
      BY KeysKept
    <3>2. k \in 1..m
      BY <1>3, <1>4
    <3> QED
      BY <1>1, <1>4, <2>1, <3>1, <3>2 DEF KeysOf
  <2> QED
    BY <1>2, <2>1, <2>2
<1>5. CASE ~(2 * k <= m)
  <2>1. 2 * k = m + 1
    BY <1>2, <1>3, <1>5
  <2>2. (2 * k) % 2 = 0
    <3>1. 0 = (2 * k) + (-k) * 2 /\ 0 \in 0..(2 - 1) /\ 2 * k \in Int /\ -k \in Int
      BY <1>3
    <3> QED
      BY <3>1, ModUnique
  <2>3. Len(es) % 2 = 0 /\ Len(es) - 1 = 2 * k - 1
    BY <1>2, <2>1, <2>2
  <2> QED
    BY <2>3
<1> QED
  BY <1>4, <1>5

\* Every value that the grammar finds may still be found if the callers get v.
Owed(v, callers) ==
    /\ Str_(v.start, v.end) => v.type = "str"
    /\ \A j \in 0..(Len(text) - 1) : D("value", 0, j) => Resumes(vals, callers, v.start, v.end, j)
    /\ callers = <<>> => v.start = 0 /\ (v.end >= Len(text) => text \in {<<"0">>, <<"i", "-">>})

\* The calls in progress after one has returned.
LEMMA FinishFrames ==
    ASSUME ParserInv, code = "run", NEW v, NEW callers, Returnable(v, callers),
           Opened(callers), KeysRead(vals, callers), callers # <<>>,
           Finish(v, v.end + 1, callers), code' = "run"
    PROVE  Opened(stack') /\ KeysRead(vals', stack') /\ stack' # <<>>
<1>1. vals \in Seq(Parsed) /\ v \in Parsed /\ callers \in Seq(Frame)
  BY DEF ParserInv, ParserTypes, Returnable
<1>2. PICK l \in Nat : l = Len(callers) /\ l # 0
  BY <1>1
<1>3. PICK f \in Frame : f = callers[l]
  BY <1>1, <1>2
<1>4. PICK n \in Nat : n = Len(vals) + 1
  BY <1>1
<1>5. PICK es : es = Append(f.elems, n)
  OBVIOUS
<1>6. PICK g : g = [f EXCEPT !.elems = es]
  OBVIOUS
<1>7. g \in Frame /\ g.type = f.type /\ g.elems = es /\ g.start = f.start
  <2>1. f.elems \in Seq(Nat)
    BY DEF Frame
  <2>2. es \in Seq(Nat)
    BY <1>4, <1>5, <2>1
  <2> QED
    BY <1>6, <2>2 DEF Frame
<1>8. /\ vals' = Append(vals, v) /\ stack' = [callers EXCEPT ![l] = g]
      /\ code' \in IF Eof(v.end + 1) THEN {"eof"}
                   ELSE IF f.type = "dict" /\ Len(es) % 2 = 0
                   THEN PutKey(vals'[es[Len(es) - 1]])
                   ELSE {"run"}
  BY <1>2, <1>3, <1>4, <1>5, <1>6 DEF Finish
<1>9. /\ stack' \in Seq(Frame) /\ Len(stack') = l /\ stack'[l] = g
      /\ \A d \in 1..l : d # l => stack'[d] = callers[d]
  BY <1>1, <1>2, <1>7, <1>8, ExceptSeq
<1>10. \A d \in 1..l : stack'[d].start = callers[d].start /\ stack'[d].type = callers[d].type
  BY <1>3, <1>7, <1>9
<1>11. Opened(stack')
  <2>1. 1 \in 1..l
    BY <1>2
  <2>2. stack'[1].start = 0
    BY <1>10, <2>1 DEF Opened
  <2> QED
    BY <1>2, <1>9, <1>10, <2>2 DEF Opened
<1>12. f.type = "dict" /\ Len(es) % 2 = 0 => vals'[es[Len(es) - 1]].type = "str"
  <2> SUFFICES ASSUME f.type = "dict", Len(es) % 2 = 0 PROVE vals'[es[Len(es) - 1]].type = "str"
    OBVIOUS
  <2>1. PICK key : key = vals'[es[Len(es) - 1]]
    OBVIOUS
  <2>2. code' \in PutKey(key)
    BY <1>8, <2>1
  <2>3. key.type = "str"
    BY <2>2 DEF PutKey
  <2> QED
    BY <2>1, <2>3
<1>13. ASSUME NEW d \in 1..l PROVE KeysOf(vals', stack'[d])
  <2>1. PICK h \in Frame : h = callers[d]
    BY <1>1, <1>2
  <2>2. PICK to : Fills(vals, h.elems, h.start + 1, to, Len(vals))
    BY <1>2, <2>1 DEF Returnable, Waits
  <2>3. KeysOf(vals, h)
    BY <1>2, <2>1 DEF KeysRead
  <2>4. CASE d = l
    <3>1. h = f
      BY <1>3, <2>1, <2>4
    <3>2. KeysOf(Append(vals, v), g)
      BY <1>1, <1>4, <1>5, <1>7, <1>8, <1>12, <2>2, <2>3, <3>1, KeysNext
    <3> QED
      BY <1>8, <1>9, <2>4, <3>2
  <2>5. CASE d # l
    <3>1. KeysOf(Append(vals, v), h)
      BY <1>1, <2>2, <2>3, KeysKept
    <3> QED
      BY <1>8, <1>9, <2>1, <2>5, <3>1
  <2> QED
    BY <2>4, <2>5
<1>14. stack' # <<>>
  BY <1>2, <1>9
<1> QED
  BY <1>9, <1>11, <1>13, <1>14 DEF KeysRead

\* A value is returned to its caller.
LEMMA FinishLeaves ==
    ASSUME ParserInv, GrammarInv, code = "run", NEW v, NEW callers, Returnable(v, callers),
           IsValue(v), Opened(callers), KeysRead(vals, callers), Owed(v, callers),
           Finish(v, v.end + 1, callers)
    PROVE  GrammarInv'
<1>1. /\ vals' = Append(vals, v) /\ pos' = v.end + 1 /\ text' = text /\ beyond' = beyond
  BY DEF Finish
<1>2. /\ code' \in {"run", "eof", "bad", "crash", "ok"}
      /\ code' = "ok" => callers = <<>>
      /\ code' = "run" => callers # <<>>
  BY FinishCodes
<1>3. PICK n \in Nat : n = Len(vals) /\ vals \in Seq(Parsed) /\ v \in Parsed
  BY DEF ParserInv, ParserTypes, Returnable
<1>4. Len(vals') = n + 1 /\ vals'[n + 1] = v /\ \A i \in 1..n : vals'[i] = vals[i]
  BY <1>1, <1>3
<1>5. ASSUME NEW i \in 1..Len(vals') PROVE IsValue(vals'[i])
  <2>1. i \in 1..n \/ i = n + 1
    BY <1>4
  <2>2. \A k \in 1..n : IsValue(vals[k])
    BY <1>3 DEF GrammarInv
  <2> QED
    BY <1>4, <2>1, <2>2
<1>6. ASSUME NEW j \in 0..(Len(text) - 1), D("value", 0, j)
      PROVE  code' \notin {"eof", "bad"} /\ (code' = "run" => Viable(vals', stack', v.end + 1, j))
  <2>1. Resumes(vals, callers, v.start, v.end, j)
    BY <1>6 DEF Owed
  <2>2. Str_(v.start, v.end) => v.type = "str"
    BY DEF Owed
  <2> QED
    BY <2>1, <2>2, FinishResumes
<1>7. code' \in {"eof", "bad"} => NoValueAt(0)
  BY <1>6 DEF NoValueAt
<1>8. code' = "run" => Opened(stack') /\ KeysRead(vals', stack') /\ stack' # <<>>
  BY <1>2, FinishFrames
<1>9. code' = "ok" =>
          /\ vals'[Len(vals')].start = 0
          /\ vals'[Len(vals')].end >= Len(text) => text \in {<<"0">>, <<"i", "-">>}
  BY <1>2, <1>4 DEF Owed
<1>10. Leaves(vals', stack', pos', code')
  BY <1>1, <1>5, <1>6, <1>7, <1>8, <1>9 DEF Leaves
<1> QED
  BY <1>1, <1>10, GrammarLeft

-----------------------------------------------------------------------------
(* The steps of the parser.                                                  *)

\* A string begins with a digit.
LEMMA StrStarts ==
    ASSUME NEW i \in Nat, NEW j \in Int, Str_(i, j)
    PROVE  At(i) \in Digit
<1>1. PICK k \in (i + 1)..j : \A d \in i..(k - 1) : IsDigit(At(d))
  BY DEF Str_
<1>2. i \in i..(k - 1)
  BY <1>1
<1> QED
  BY <1>1, <1>2 DEF IsDigit, Digit

\* An answer other than a value keeps GrammarInv if it is right to refuse.
LEMMA AnswerLeaves ==
    ASSUME GrammarInv, NEW c \in {"eof", "bad", "crash", "undef"}, Answer(c),
           c \in {"eof", "bad"} => NoValueAt(0)
    PROVE  GrammarInv'
<1>1. /\ code' = c /\ text' = text /\ beyond' = beyond /\ vals' = vals
  BY DEF Answer
<1>2. Leaves(vals', stack', pos', code')
  BY <1>1 DEF Leaves, GrammarInv
<1> QED
  BY <1>1, <1>2, GrammarLeft

\* An integer or a string was read.
LEMMA TokenLeaves ==
    ASSUME ParserInv, GrammarInv, code = "run", Calls, NEW v, Token(v),
           v.num < 0 /\ v.type = "str" => HugeNumber,
           IsValue(v), OnlyValueAt(pos, v.end), Str_(v.start, v.end) => v.type = "str",
           pos = 0 /\ v.end >= Len(text) => text \in {<<"0">>, <<"i", "-">>},
           Finish(v, v.end + 1, stack)
    PROVE  GrammarInv'
<1>1. Returnable(v, stack)
  BY TokenReturnable
<1>2. Opened(stack) /\ KeysRead(vals, stack) /\ (stack = <<>> => pos = 0) /\ Live
  BY DEF GrammarInv
<1>3. v.start = pos
  BY DEF Token
<1>4. ASSUME NEW j \in 0..(Len(text) - 1), D("value", 0, j)
      PROVE  Resumes(vals, stack, v.start, v.end, j)
  <2>1. Viable(vals, stack, pos, j)
    BY <1>2, <1>4 DEF Live
  <2>2. PICK k \in 0..(Len(text) - 1) : D("value", pos, k) /\ Resumes(vals, stack, pos, k, j)
    BY <2>1, CallResumes
  <2>3. k = v.end
    BY <2>2 DEF OnlyValueAt
  <2> QED
    BY <1>3, <2>2, <2>3
<1>5. Owed(v, stack)
  BY <1>2, <1>3, <1>4 DEF Owed
<1> QED
  BY <1>1, <1>2, <1>5, FinishLeaves

\* b_parse_int keeps the invariant.
LEMMA IntLeaves ==
    ASSUME ParserInv, GrammarInv, code = "run", Calls, ~Eof(pos), ParseInt
    PROVE  GrammarInv'
<1>1. TextOK /\ pos \in Nat /\ At(pos) = "i" /\ Live
  BY DEF ParserInv, ParserTypes, ParseInt, GrammarInv
<1>2. CASE ~IntRead /\ (Answer("eof") \/ Answer("bad"))
  <2>1. NoValueAt(pos)
    BY <1>1, <1>2, IntFound DEF NoValueAt
  <2>2. NoValueAt(0)
    BY <1>1, <2>1, NoneLeft
  <2> QED
    BY <1>2, <2>2, AnswerLeaves
<1>3. CASE /\ IntRead
           /\ \E v : Token(v) /\ v.type = "int" /\ v.end = IntEnd /\ Finish(v, v.end + 1, stack)
  <2>1. PICK v : Token(v) /\ v.type = "int" /\ v.end = IntEnd /\ Finish(v, v.end + 1, stack)
    BY <1>3
  <2>2. /\ v.end \in Nat /\ pos < v.end
        /\ v.end < Len(text) => D("value", pos, v.end)
        /\ v.end >= Len(text) /\ pos = 0 => text = <<"i", "-">>
    BY <1>1, <1>3, <2>1, IntIsValue
  <2>3. v.start = pos
    BY <2>1 DEF Token
  <2>4. IsValue(v)
    BY <1>1, <2>1, <2>2, <2>3 DEF IsValue
  <2>5. OnlyValueAt(pos, v.end)
    BY <1>1, <2>1, IntFound DEF OnlyValueAt
  <2>6. ~Str_(v.start, v.end)
    BY <1>1, <2>2, <2>3, StrStarts, NotDigits
  <2> QED
    BY <2>1, <2>2, <2>4, <2>5, <2>6, TokenLeaves
<1> QED
  BY <1>1, <1>2, <1>3, IntReturns

\* b_parse_string keeps the invariant.
LEMMA StrLeaves ==
    ASSUME ParserInv, GrammarInv, code = "run", Calls, ~Eof(pos), ParseString
    PROVE  GrammarInv'
<1>1. TextOK /\ pos \in Nat /\ At(pos) \in Digit /\ Live
  BY DEF ParserInv, ParserTypes, ParseString, GrammarInv, IsDigit, Digit
<1>2. CASE ~StrRead /\ (Answer("eof") \/ Answer("bad"))
  <2>1. NoValueAt(pos)
    BY <1>1, <1>2, StrFound DEF NoValueAt
  <2>2. NoValueAt(0)
    BY <1>1, <2>1, NoneLeft
  <2> QED
    BY <1>2, <2>2, AnswerLeaves
<1>3. CASE Answer("crash")
  BY <1>3, AnswerLeaves
<1>4. CASE /\ StrRead /\ StrNum # IntMax
           /\ \E v : /\ Token(v) /\ v.type = "str" /\ v.end = StrEnd /\ (v.num < 0 => HugeNumber)
                     /\ Finish(v, v.end + 1, stack)
  <2>1. PICK v : /\ Token(v) /\ v.type = "str" /\ v.end = StrEnd /\ (v.num < 0 => HugeNumber)
                 /\ Finish(v, v.end + 1, stack)
    BY <1>4
  <2>2. /\ v.end \in Nat /\ pos < v.end /\ Str_(pos, v.end)
        /\ v.end < Len(text) => D("value", pos, v.end)
        /\ v.end >= Len(text) /\ pos = 0 => text = <<"0">>
    BY <1>1, <1>4, <2>1, StrIsValue
  <2>3. v.start = pos
    BY <2>1 DEF Token
  <2>4. IsValue(v)
    BY <1>1, <2>1, <2>2, <2>3 DEF IsValue
  <2>5. OnlyValueAt(pos, v.end)
    BY <1>1, <2>1, StrFound DEF OnlyValueAt
  <2> QED
    BY <2>1, <2>2, <2>4, <2>5, TokenLeaves
<1> QED
  BY <1>1, <1>2, <1>3, <1>4, StringReturns

\* Where the text ends, or has none of the characters that begin a value.
LEMMA OtherLeaves ==
    ASSUME ParserInv, GrammarInv, code = "run", Calls, NEW c \in {"eof", "bad"}, Answer(c),
           \/ Eof(pos) \/ (Eof(pos + 1) /\ At(pos) \in {"l", "d"})
           \/ At(pos) \notin {"i", "l", "d"} /\ ~IsDigit(At(pos))
    PROVE  GrammarInv'
<1>1. TextOK /\ pos \in Nat /\ Len(text) \in Nat /\ Live
  BY EofIs DEF ParserInv, ParserTypes, GrammarInv
<1>2. pos <= Len(text)
  BY <1>1 DEF ParserInv, Inside, GrammarInv
<1>3. ASSUME NEW k \in 0..(Len(text) - 1), D("value", pos, k) PROVE FALSE
  <2>1. /\ pos < k
        /\ At(pos) \in {"i", "l", "d"} \/ At(pos) \in Digit
        /\ At(pos) \in {"l", "d"} \/ ~Eof(pos)
    BY <1>1, <1>2, <1>3, ValueForms DEF Eof
  <2>2. ~Eof(pos + 1) /\ ~Eof(pos)
    BY <1>1, <2>1 DEF Eof
  <2> QED
    BY <2>1, <2>2 DEF IsDigit, Digit
<1>4. NoValueAt(0)
  BY <1>1, <1>3, NoneLeft DEF NoValueAt
<1> QED
  BY <1>4, AnswerLeaves

\* b_parse_list and b_parse_dict begin.
LEMMA OpenLeaves ==
    ASSUME ParserInv, GrammarInv, code = "run", Calls, ~Eof(pos), Open
    PROVE  GrammarInv'
<1>1. /\ TextOK /\ pos \in Nat /\ stack \in Seq(Frame) /\ At(pos) \in {"l", "d"}
      /\ Opened(stack) /\ KeysRead(vals, stack) /\ Live /\ Len(text) \in Nat
  BY EofIs DEF ParserInv, ParserTypes, GrammarInv, Open
<1>2. CASE Eof(pos + 1)
  <2>1. Answer("eof")
    BY <1>2 DEF Open
  <2> QED
    BY <1>1, <1>2, <2>1, OtherLeaves
<1>3. CASE ~Eof(pos + 1)
  <2>1. PICK f : /\ f = [type |-> IF At(pos) = "l" THEN "list" ELSE "dict",
                         start |-> pos, elems |-> <<>>]
                 /\ stack' = Append(stack, f)
    BY <1>3 DEF Open
  <2>2. /\ pos' = pos + 1 /\ text' = text /\ beyond' = beyond /\ vals' = vals /\ code' = "run"
    BY <1>3 DEF Open
  <2>3. /\ f.start = pos /\ f.elems = <<>> /\ f.type \in {"list", "dict"}
        /\ f.type = "list" <=> At(pos) = "l"
    BY <2>1
  <2>4. PICK l \in Nat : l = Len(stack)
    BY <1>1
  <2>5. Len(stack') = l + 1 /\ stack'[l + 1] = f /\ \A d \in 1..l : stack'[d] = stack[d]
    BY <1>1, <2>1, <2>4
  <2>6. Opened(stack') /\ KeysRead(vals, stack') /\ stack' # <<>>
    <3>1. At(f.start) = IF f.type = "list" THEN "l" ELSE "d"
      BY <1>1, <2>3
    <3>2. KeysOf(vals, f)
      BY <2>3 DEF KeysOf
    <3>3. \A d \in 1..(l + 1) : d \in 1..l \/ d = l + 1
      OBVIOUS
    <3>6. stack'[1].start = 0
      <4>1. CASE l = 0
        <5>1. stack = <<>>
          BY <1>1, <2>4, <4>1, EmptySeq
        <5>2. pos = 0
          BY <5>1 DEF GrammarInv
        <5> QED
          BY <2>3, <2>5, <4>1, <5>2
      <4>2. CASE l # 0
        <5>1. 1 \in 1..l /\ stack # <<>>
          BY <2>4, <4>2
        <5> QED
          BY <1>1, <2>5, <5>1 DEF Opened
      <4> QED
        BY <4>1, <4>2
    <3>4. Opened(stack')
      BY <1>1, <2>4, <2>5, <3>1, <3>3, <3>6 DEF Opened
    <3>5. KeysRead(vals, stack')
      BY <1>1, <2>4, <2>5, <3>2, <3>3 DEF KeysRead
    <3> QED
      BY <2>5, <3>4, <3>5
  <2>7. ASSUME NEW j \in 0..(Len(text) - 1), D("value", 0, j)
        PROVE  Viable(vals, stack', pos + 1, j)
    <3>1. Viable(vals, stack, pos, j)
      BY <1>1, <2>7 DEF Live
    <3>2. PICK k \in 0..(Len(text) - 1) : D("value", pos, k) /\ Resumes(vals, stack, pos, k, j)
      BY <3>1, CallResumes
    <3>3. EndsAt(vals, f, pos + 1, k)
      <4>1. /\ pos < k /\ At(k) = "e"
            /\ \/ At(pos) = "l" /\ D("items", pos + 1, k - 1)
               \/ At(pos) = "d" /\ D("pairs", pos + 1, k - 1)
        <5>1. pos <= Len(text)
          BY <1>1 DEF Eof
        <5> QED
          BY <1>1, <3>2, <5>1, ValueForms, NotDigits
      <4>2. ~OddDict(f)
        <5>1. Len(f.elems) = 0 /\ 0 % 2 # 1
          BY <2>3
        <5> QED
          BY <5>1, Zenon DEF OddDict
      <4>3. pos + 1 <= k
        BY <1>1, <4>1
      <4> QED
        BY <2>3, <4>1, <4>2, <4>3 DEF EndsAt
    <3>4. PICK e \in EndsOf(stack', j) :
              /\ e[l + 1] = k
              /\ \A d \in 1..l : GoesOn(vals, stack[d], stack'[d + 1].start, e[d + 1], e[d])
      <4>1. CASE stack = <<>>
        <5>1. l = 0 /\ k = j
          BY <2>4, <3>2, <4>1 DEF Resumes
        <5>2. PICK e : e = [d \in 1..1 |-> k]
          OBVIOUS
        <5>3. e \in EndsOf(stack', j) /\ e[l + 1] = k
          BY <2>5, <5>1, <5>2 DEF EndsOf
        <5> QED
          BY <5>1, <5>3
      <4>2. CASE stack # <<>>
        <5>1. PICK e \in EndsOf(stack, j) :
                  Below(vals, stack, e) /\ GoesOn(vals, stack[l], pos, k, e[l])
          BY <2>4, <3>2, <4>2 DEF Resumes
        <5>2. l # 0 /\ e \in [1..l -> 0..(Len(text) - 1)] /\ e[1] = j
          BY <1>1, <2>4, <4>2, <5>1 DEF EndsOf
        <5>3. PICK h : h = [d \in 1..(l + 1) |-> IF d = l + 1 THEN k ELSE e[d]]
          OBVIOUS
        <5>4. h[l + 1] = k /\ \A d \in 1..l : h[d] = e[d]
          BY <5>3
        <5>5. h \in EndsOf(stack', j)
          <6>1. h \in [1..(l + 1) -> 0..(Len(text) - 1)]
            BY <5>2, <5>3
          <6>2. h[1] = j
            BY <5>2, <5>4
          <6> QED
            BY <2>5, <6>1, <6>2 DEF EndsOf
        <5>6. ASSUME NEW d \in 1..l
              PROVE  GoesOn(vals, stack[d], stack'[d + 1].start, h[d + 1], h[d])
          <6>1. CASE d = l
            BY <2>3, <2>5, <5>1, <5>4, <6>1
          <6>2. CASE d # l
            <7>1. d \in 1..(l - 1) /\ d + 1 \in 1..l
              BY <6>2
            <7>2. GoesOn(vals, stack[d], stack[d + 1].start, e[d + 1], e[d])
              BY <2>4, <5>1, <7>1 DEF Below
            <7> QED
              BY <2>5, <5>4, <7>1, <7>2
          <6> QED
            BY <6>1, <6>2
        <5> QED
          BY <5>4, <5>5, <5>6
      <4> QED
        BY <4>1, <4>2
    <3>5. Below(vals, stack', e)
      <4>1. ASSUME NEW d \in 1..((l + 1) - 1)
            PROVE  GoesOn(vals, stack'[d], stack'[d + 1].start, e[d + 1], e[d])
        <5>1. d \in 1..l
          OBVIOUS
        <5> QED
          BY <2>5, <3>4, <5>1
      <4> QED
        BY <2>5, <4>1 DEF Below
    <3> QED
      BY <2>5, <2>6, <3>3, <3>4, <3>5 DEF Viable
  <2>8. Leaves(vals', stack', pos', code')
    BY <2>2, <2>6, <2>7 DEF Leaves, GrammarInv
  <2> QED
    BY <2>2, <2>8, GrammarLeft
<1> QED
  BY <1>2, <1>3

\* A call that is at an 'e', and at no key's value, ends there.
LEMMA EndsHere ==
    ASSUME TextOK, NEW vs, NEW f \in Frame, ~OddDict(f), NEW p \in Nat, p < Len(text), At(p) = "e",
           NEW e \in 0..(Len(text) - 1), EndsAt(vs, f, p, e)
    PROVE  e = p
<1>1. Len(text) \in Nat /\ p <= e /\ p \in 0..Len(text) /\ e - 1 \in -1..(Len(text) - 1)
  BY EofIs DEF EndsAt
<1>2. SUFFICES p > e - 1
  BY <1>1
<1>3. At(p) \notin Digit
  BY NotDigits
<1>4. CASE D("items", p, e - 1)
  <2>1. ItemsOf(Derives, p, e - 1)
    BY <1>1, <1>4, DerivedForms
  <2>2. ASSUME NEW k \in p..(e - 1) PROVE ~D("value", p, k)
    <3>1. k \in 0..(Len(text) - 1) /\ p <= Len(text)
      BY <1>1
    <3> QED
      BY <1>3, <3>1, ValueForms
  <2> QED
    BY <2>1, <2>2 DEF ItemsOf, D
<1>5. CASE D("pairs", p, e - 1)
  <2>1. PairsOf(Derives, p, e - 1)
    BY <1>1, <1>5, DerivedForms
  <2>2. ASSUME NEW k \in p..(e - 1) PROVE ~Str_(p, k)
    <3>1. k \in Int
      BY <1>1
    <3> QED
      BY <1>3, <3>1, StrStarts
  <2> QED
    BY <2>1, <2>2 DEF PairsOf
<1> QED
  BY <1>4, <1>5 DEF EndsAt

\* What a list or dictionary has read is a value when its 'e' comes.
LEMMA ClosedIsValue ==
    ASSUME ParserInv, GrammarInv, code = "run", stack # <<>>, ~AfterKey, At(pos) = "e"
    PROVE  Top.start < pos /\ D("value", Top.start, pos)
<1>1. /\ TextOK /\ pos \in Nat /\ stack \in Seq(Frame) /\ vals \in Seq(Parsed) /\ pos < Len(text)
      /\ Len(text) \in Nat
  BY EofIs DEF ParserInv, ParserTypes, Inside
<1>2. PICK l \in Nat : l = Len(stack) /\ l \in 1..l
  BY <1>1
<1>3. PICK f \in Frame : f = Top /\ f = stack[l]
  BY <1>1, <1>2 DEF Top
<1>4. f.start \in Nat /\ f.elems \in Seq(Nat) /\ f.type \in {"list", "dict"}
  BY DEF Frame
<1>5. Fills(vals, f.elems, f.start + 1, pos, Len(vals))
  BY <1>1, <1>2, <1>3, WaitsFront DEF ParserInv
<1>6. AllValues(vals)
  BY DEF AllValues, GrammarInv, ParserInv, Inside
<1>7. At(f.start) = IF f.type = "list" THEN "l" ELSE "d"
  BY <1>2, <1>3 DEF GrammarInv, Opened
<1>8. ASSUME f.start < pos,
             \/ At(f.start) = "l" /\ D("items", f.start + 1, pos - 1)
             \/ At(f.start) = "d" /\ D("pairs", f.start + 1, pos - 1)
      PROVE  D("value", f.start, pos)
  <2>1. ValueOf(Derives, f.start, pos)
    BY <1>8 DEF ValueOf, D
  <2>2. f.start \in 0..Len(text) /\ pos \in -1..(Len(text) - 1)
    BY <1>1, <1>4, <1>8
  <2> QED
    BY <1>1, <2>1, <2>2, DerivedForms
<1>9. CASE f.type = "list"
  <2>1. PICK from : from = f.start + 1
    OBVIOUS
  <2>2. from <= pos /\ D("items", from, pos - 1)
    BY <1>1, <1>4, <1>5, <1>6, <2>1, ItemsFill
  <2>3. f.start < pos
    BY <1>1, <1>4, <2>1, <2>2
  <2> QED
    BY <1>3, <1>7, <1>8, <1>9, <2>1, <2>2, <2>3
<1>10. CASE f.type = "dict"
  <2>1. PICK from : from = f.start + 1
    OBVIOUS
  <2>2. PICK h \in Nat : Len(f.elems) = 2 * h
    <3>1. PICK m \in Nat : m = Len(f.elems)
      BY <1>4
    <3>2. m % 2 # 1
      BY <1>3, <1>10, <3>1 DEF AfterKey
    <3>3. m % 2 = 0
      BY <3>2, Parity
    <3> QED
      BY <3>1, <3>3, Parity
  <2>3. ASSUME NEW k \in 1..h PROVE vals[f.elems[2 * k - 1]].type = "str"
    <3>1. KeysOf(vals, f)
      BY <1>2, <1>3 DEF GrammarInv, KeysRead
    <3>2. k \in 1..Len(f.elems) /\ 2 * k <= Len(f.elems)
      BY <2>2
    <3> QED
      BY <1>10, <3>1, <3>2 DEF KeysOf
  <2>4. from <= pos /\ D("pairs", from, pos - 1)
    BY <1>1, <1>4, <1>5, <1>6, <2>1, <2>2, <2>3, PairsFill
  <2>5. f.start < pos
    BY <1>1, <1>4, <2>1, <2>4
  <2> QED
    BY <1>3, <1>7, <1>8, <1>10, <2>1, <2>4, <2>5
<1> QED
  BY <1>4, <1>9, <1>10

\* They have met their 'e'.
LEMMA CloseLeaves ==
    ASSUME ParserInv, GrammarInv, code = "run", ~Calls, Close
    PROVE  GrammarInv'
<1> DEFINE v == Value(Top.type, Top.start, pos, 0, <<>>, Top.elems)
<1>1. stack # <<>> /\ ~AfterKey /\ At(pos) = "e" /\ Finish(v, pos + 1, Front(stack))
  BY DEF Calls, Close
<1>2. /\ Top \in Frame /\ pos \in Nat /\ stack \in Seq(Frame) /\ pos < Len(text)
      /\ TextOK /\ Len(text) \in Nat
  BY <1>1, EofIs DEF ParserInv, ParserTypes, Inside, Top
<1>3. /\ Front(stack) \in Seq(Frame) /\ Waits(vals, Front(stack), Top.start)
      /\ Fills(vals, Top.elems, Top.start + 1, pos, Len(vals))
  BY <1>1, <1>2, WaitsFront DEF ParserInv, Top
<1>4. /\ v \in Parsed /\ v.start = Top.start /\ v.end = pos /\ v.elems = Top.elems
      /\ v.type = Top.type /\ v.type \in {"list", "dict"}
  <2>1. 0 \in IntMin..IntMax /\ <<>> \in Seq(Chars)
    BY WidthFacts
  <2> QED
    BY <1>2, <2>1 DEF Value, Parsed, Frame
<1> HIDE DEF v
<1>5. Returnable(v, Front(stack))
  BY <1>2, <1>3, <1>4 DEF Returnable, Measured
<1>6. IsValue(v)
  BY <1>1, <1>2, <1>4, ClosedIsValue DEF IsValue, Parsed
<1>7. PICK l \in Nat : l = Len(stack) /\ l \in 1..l /\ Top = stack[l]
  BY <1>1, <1>2 DEF Top
<1>8. PICK b : b = Front(stack)
  OBVIOUS
<1>9. Len(b) = l - 1 /\ \A d \in 1..(l - 1) : b[d] = stack[d]
  BY <1>1, <1>2, <1>7, <1>8 DEF Front
<1>14. b = <<>> => l = 1
  <2> SUFFICES ASSUME b = <<>> PROVE l = 1
    OBVIOUS
  <2>1. Len(<<>>) = 0
    OBVIOUS
  <2>2. l - 1 = 0
    BY <1>9, <2>1
  <2> QED
    BY <2>2
<1>10. Opened(b) /\ KeysRead(vals, b)
  <2>1. \A d \in 1..(l - 1) : d \in 1..l
    OBVIOUS
  <2>2. Opened(b)
    <3>1. b # <<>> => b[1] = stack[1]
      <4>1. b # <<>> => 1 \in 1..(l - 1)
        BY <1>3, <1>8, <1>9
      <4> QED
        BY <1>9, <4>1
    <3> QED
      BY <1>1, <1>7, <1>9, <2>1, <3>1 DEF GrammarInv, Opened
  <2>3. KeysRead(vals, b)
    BY <1>7, <1>9, <2>1 DEF GrammarInv, KeysRead
  <2> QED
    BY <2>2, <2>3
<1>11. ~Str_(v.start, v.end)
  <2>1. At(Top.start) \in {"l", "d"}
    BY <1>7 DEF GrammarInv, Opened
  <2>2. v.start \in Nat /\ v.end \in Int
    BY <1>2, <1>4 DEF Parsed
  <2> QED
    BY <1>4, <2>1, <2>2, StrStarts, NotDigits
<1>12. ASSUME NEW j \in 0..(Len(text) - 1), D("value", 0, j)
       PROVE  Resumes(vals, b, v.start, v.end, j)
  <2>1. Viable(vals, stack, pos, j)
    BY <1>12 DEF GrammarInv, Live
  <2>2. PICK e \in EndsOf(stack, j) : Below(vals, stack, e) /\ EndsAt(vals, Top, pos, e[l])
    BY <1>1, <1>7, <2>1 DEF Viable
  <2>3. e \in [1..l -> 0..(Len(text) - 1)] /\ e[1] = j
    BY <1>7, <2>2 DEF EndsOf
  <2>4. e[l] = pos
    <3>1. ~OddDict(Top)
      BY <1>1 DEF AfterKey, OddDict
    <3>2. PICK x \in 0..(Len(text) - 1) : x = e[l]
      BY <1>7, <2>3
    <3>3. PICK f \in Frame : f = Top
      BY <1>2
    <3> QED
      BY <1>1, <1>2, <2>2, <3>1, <3>2, <3>3, EndsHere
  <2>5. CASE b = <<>>
    <3>1. l = 1
      BY <1>14, <2>5
    <3>2. pos = j
      BY <2>3, <2>4, <3>1
    <3> QED
      BY <1>4, <2>5, <3>2 DEF Resumes
  <2>6. CASE b # <<>>
    <3>1. l - 1 \in 1..(l - 1)
      BY <1>3, <1>7, <1>8, <1>9, <2>6
    <3>2. PICK h : h = [d \in 1..(l - 1) |-> e[d]]
      OBVIOUS
    <3>3. h \in EndsOf(b, j)
      <4>1. h \in [1..(l - 1) -> 0..(Len(text) - 1)] /\ h[1] = j
        BY <2>3, <3>1, <3>2
      <4> QED
        BY <1>9, <4>1 DEF EndsOf
    <3>4. ASSUME NEW d \in 1..(l - 1)
          PROVE  GoesOn(vals, b[d], stack[d + 1].start, e[d + 1], h[d])
      BY <1>7, <1>9, <2>2, <3>2 DEF Below
    <3>5. GoesOn(vals, b[l - 1], v.start, v.end, h[l - 1])
      <4>1. (l - 1) + 1 = l
        OBVIOUS
      <4> QED
        BY <1>4, <1>7, <2>4, <3>1, <3>4, <4>1
    <3>6. ASSUME NEW d \in 1..((l - 1) - 1)
          PROVE  GoesOn(vals, b[d], b[d + 1].start, h[d + 1], h[d])
      <4>1. d \in 1..(l - 1) /\ d + 1 \in 1..(l - 1)
        OBVIOUS
      <4> QED
        BY <1>9, <3>2, <3>4, <4>1
    <3>7. Below(vals, b, h)
      BY <1>9, <3>6 DEF Below
    <3> QED
      BY <1>9, <2>6, <3>3, <3>5, <3>7 DEF Resumes
  <2> QED
    BY <2>5, <2>6
<1>13. Owed(v, b)
  <2>1. b = <<>> => v.start = 0
    <3>1. b = <<>> => l = 1
      BY <1>7, <1>14
    <3> QED
      BY <1>1, <1>4, <1>7, <3>1 DEF GrammarInv, Opened
  <2> QED
    BY <1>2, <1>4, <1>11, <1>12, <2>1 DEF Owed
<1> QED
  BY <1>1, <1>4, <1>5, <1>6, <1>8, <1>10, <1>13, FinishLeaves

\* Every step of the parser keeps the invariant.
LEMMA ParseLeaves ==
    ASSUME ParserInv, GrammarInv, Parse
    PROVE  GrammarInv'
<1>1. code = "run"
  BY DEF Parse
<1>2. CASE Calls /\ Eof(pos) /\ Answer("eof")
  BY <1>1, <1>2, OtherLeaves
<1>3. CASE Calls /\ ~Eof(pos) /\ (ParseInt \/ ParseString \/ Open \/ ParseOther)
  <2>1. CASE ParseOther
    BY <1>1, <1>3, <2>1, OtherLeaves DEF ParseOther
  <2> QED
    BY <1>1, <1>3, <2>1, IntLeaves, StrLeaves, OpenLeaves
<1>4. CASE ~Calls /\ Close
  BY <1>1, <1>4, CloseLeaves
<1> QED
  BY <1>2, <1>3, <1>4 DEF Parse

\* FollowsGrammar, for every text and every width of int: bencode_parse accepts
\* a text exactly if it begins with a value of the grammar, or is one of the two
\* that what lies beyond them completes; unless it crashes (WidthBounds).
THEOREM AcceptsLanguage == BencodeSpec => []FollowsGrammar
<1>1. BencodeInit => GrammarInv
  <2> SUFFICES ASSUME BencodeInit PROVE GrammarInv
    OBVIOUS
  <2>1. pos = 0 /\ stack = <<>> /\ vals = <<>> /\ code = "run"
    BY DEF BencodeInit
  <2>2. Opened(stack) /\ KeysRead(vals, stack) /\ Live
    BY <2>1 DEF Opened, KeysRead, Live, Viable
  <2> QED
    BY <2>1, <2>2 DEF GrammarInv
<1>2. ParserInv /\ GrammarInv /\ [BencodeNext]_bencodeVars => GrammarInv'
  <2> SUFFICES ASSUME ParserInv, GrammarInv, [BencodeNext]_bencodeVars PROVE GrammarInv'
    OBVIOUS
  <2>1. CASE Parse
    BY <2>1, ParseLeaves
  <2>2. CASE Write
    <3>1. /\ text' = text /\ beyond' = beyond /\ vals' = vals
          /\ code' \in {"undef", "overrun", "written"}
      BY <2>2 DEF Write, Answer
    <3>2. Leaves(vals', stack', pos', code')
      BY <3>1 DEF Leaves, GrammarInv
    <3> QED
      BY <3>1, <3>2, GrammarLeft
  <2>3. CASE Again
    <3>1. pos' = 0 /\ stack' = <<>> /\ vals' = <<>> /\ code' = "run"
      BY <2>3 DEF Again
    <3>2. Opened(stack)' /\ KeysRead(vals, stack)'
      BY <3>1 DEF Opened, KeysRead
    <3>3. Live'
      BY <3>1 DEF Live, Viable
    <3> QED
      BY <3>1, <3>2, <3>3 DEF GrammarInv
  <2>4. CASE UNCHANGED bencodeVars
    <3>1. /\ text' = text /\ beyond' = beyond /\ pos' = pos /\ stack' = stack /\ vals' = vals
          /\ code' = code
      BY <2>4 DEF bencodeVars
    <3>2. Leaves(vals', stack', pos', code')
      BY <3>1 DEF Leaves, GrammarInv, Live
    <3> QED
      BY <3>1, <3>2, GrammarLeft
  <2> QED
    BY <2>1, <2>2, <2>3, <2>4 DEF BencodeNext
<1>3. ParserInv /\ GrammarInv => FollowsGrammar
  <2> SUFFICES ASSUME ParserInv, GrammarInv PROVE FollowsGrammar
    OBVIOUS
  <2>1. code \in {"eof", "bad"} => \A j \in 0..(Len(text) - 1) : ~Derives[<<"value", 0, j>>]
    BY DEF GrammarInv, NoValueAt, D
  <2>2. ASSUME code = "ok"
        PROVE  IF vals[Len(vals)].end < Len(text)
               THEN Derives[<<"value", 0, vals[Len(vals)].end>>]
               ELSE text \in {<<"0">>, <<"i", "-">>}
    <3>1. vals # <<>> /\ vals \in Seq(Parsed) /\ Len(text) \in Nat
      BY <2>2, EofIs DEF ParserInv, ParserTypes, Inside
    <3>2. PICK n \in Nat : n = Len(vals) /\ n \in 1..n
      BY <3>1
    <3>3. PICK v \in Parsed : v = vals[n]
      BY <3>1, <3>2
    <3>4. IsValue(v) /\ v.start = 0 /\ (v.end >= Len(text) => text \in {<<"0">>, <<"i", "-">>})
      BY <2>2, <3>2, <3>3 DEF GrammarInv
    <3>5. v.end \in Nat
      BY DEF Parsed
    <3> QED
      BY <3>1, <3>2, <3>3, <3>4, <3>5 DEF IsValue, D
  <2> QED
    BY <2>1, <2>2 DEF FollowsGrammar
<1> QED
  BY <1>1, <1>2, <1>3, ParserInvariant, PTL DEF BencodeSpec

-----------------------------------------------------------------------------
(* What stays the same, and the files that the assumption admits.            *)

Fixed == doc \in Docs /\ opts \in Options

Info == [length : Nat \cup {None}, path : Nat \cup {None}]

LEMMA DocFacts ==
    ASSUME Fixed
    PROVE  /\ TierCount \in Nat
           /\ doc.tiers = None => TierCount = 0
           /\ doc.tiers # None => doc.tiers \in Seq(Seq(Urls)) /\ TierCount = Len(doc.tiers)
           /\ doc.announce \in Urls \cup {None}
           /\ doc.info # None =>
                  /\ doc.info.name # Unset
                  /\ doc.info.files # None => doc.info.files \in Seq(Info)
<1>1. /\ doc.tiers = None \/ doc.tiers \in Seq(Seq(Urls))
      /\ doc.announce \in Urls \cup {None}
      /\ doc.info # None =>
             /\ doc.info.name # Unset
             /\ doc.info.files = None \/ doc.info.files \in Seq(Info)
  BY StartupAssumption DEF Fixed, Info
<1>2. doc.tiers # None => Len(doc.tiers) \in Nat
  BY <1>1
<1> QED
  BY <1>1, <1>2 DEF TierCount

-----------------------------------------------------------------------------
(* The trackers.  Phase by phase: the slots filled so far, the number of     *)
(* them, the tracker_t made of them, and the threads started.                *)

Slot == Urls \cup {Unset, None}

TrackerRec == [url : Slot, started : BOOLEAN, stopped : BOOLEAN]

\* The first n slots hold the first URLs of the first n tiers, none empty.
Filled(n) ==
    /\ urls \in [1..(TierCount + 1) -> Slot]
    /\ \A i \in 1..n : doc.tiers[i] # <<>> /\ urls[i] = doc.tiers[i][1]

\* The number of trackers that the file names.
Count == IF doc.announce = None THEN TierCount ELSE TierCount + 1

UrlsReady ==
    /\ Filled(TierCount)
    /\ doc.announce # None => urls[TierCount + 1] = doc.announce
    /\ torrent.tracker_count = Count

\* The client's list holds the first n of them.
Listed(n) ==
    /\ trackers \in [1..n -> TrackerRec]
    /\ \A i \in 1..n : trackers[i].url = urls[i]

Reading == {"tiers", "info", "name", "files"}

Past == {"start", "loop", "stop"}

TrackInv ==
    /\ Fixed
    /\ pc \in Reading => doc.info # None
    /\ pc = "tiers" => idx \in 1..(TierCount + 1) /\ Filled(idx - 1)
    /\ pc \in {"info", "name", "files"} => UrlsReady
    /\ pc = "options" => torrent.tracker_count = Unset
    /\ pc = "print" => torrent.tracker_count = Unset \/ UrlsReady
    /\ pc = "init" => UrlsReady /\ idx \in 1..(Count + 1) /\ Listed(idx - 1)
    /\ pc \in Past => UrlsReady /\ Listed(Count)
    /\ pc \in Past => idx \in 1..(Count + 1)
    /\ pc = "start" => \A i \in 1..(idx - 1) : trackers[i].started
    /\ pc \in {"loop", "stop"} => \A i \in 1..Count : trackers[i].started
    /\ pc \notin {"init", "start", "loop", "stop", "exited", "undef"} => trackers = <<>>
    /\ {"tracker_count", "files", "file_name", "file_length", "mode"} \subseteq DOMAIN torrent

LEMMA TrackInit == Init => TrackInv
BY DEF Init, TrackInv, Fixed, Reading, Past

\* The steps up to the listing.
LEMMA TrackLoad ==
    ASSUME TrackInv, ParseOptions \/ LoadFails \/ LoadOther \/ Load
    PROVE  TrackInv'
<1> USE DEF TrackInv, Goto, Reading, Past
<1>1. Fixed' /\ TierCount' = TierCount /\ Count' = Count
  BY DEF Fixed, TierCount, Count, ParseOptions, LoadFails, LoadOther, Load
<1>2. CASE ParseOptions
  BY <1>1, <1>2 DEF ParseOptions, Init
<1>3. CASE LoadFails
  BY <1>1, <1>3 DEF LoadFails
<1>4. CASE LoadOther
  BY <1>1, <1>4 DEF LoadOther
<1>5. CASE Load
  <2>1. TierCount \in Nat
    BY DocFacts
  <2>2. Slots \in [1..(TierCount + 1) -> Slot]
    BY <2>1 DEF Slots, Slot
  <2>3. Filled(0)'
    BY <1>1, <1>5, <2>1, <2>2 DEF Load, Filled
  <2>4. idx' = 1 /\ pc' = "tiers" /\ doc'.info # None
    BY <1>5 DEF Load
  <2>5. Filled(idx - 1)'
    BY <2>3, <2>4
  <2> QED
    BY <1>1, <1>5, <2>1, <2>4, <2>5 DEF Load
<1> QED
  BY <1>2, <1>3, <1>4, <1>5

LEMMA TrackTiers ==
    ASSUME TrackInv, Tier \/ Announce
    PROVE  TrackInv'
<1> USE DEF TrackInv, Goto, Reading, Past
<1>1. Fixed' /\ TierCount' = TierCount /\ Count' = Count /\ doc' = doc
  BY DEF Fixed, TierCount, Count, Tier, Announce
<1>2. /\ TierCount \in Nat /\ idx \in 1..(TierCount + 1) /\ Filled(idx - 1)
      /\ TierCount > 0 => doc.tiers \in Seq(Seq(Urls)) /\ TierCount = Len(doc.tiers)
      /\ doc.announce \in Urls \cup {None}
  BY DocFacts DEF Tier, Announce
<1>3. CASE Tier
  <2>1. CASE doc.tiers[idx] = <<>>
    BY <1>1, <1>3, <2>1 DEF Tier
  <2>2. CASE doc.tiers[idx] # <<>>
    <3>1. /\ idx \in 1..TierCount
          /\ idx' = idx + 1 /\ pc' = "tiers" /\ UNCHANGED <<torrent, trackers>>
          /\ urls' = [urls EXCEPT ![idx] = doc.tiers[idx][1]]
      BY <1>2, <1>3, <2>2 DEF Tier, TierUrl
    <3>2. doc.tiers[idx] \in Seq(Urls)
      BY <1>2, <3>1
    <3>3. doc.tiers[idx][1] \in Urls
      BY <2>2, <3>2
    <3>4. urls' \in [1..(TierCount + 1) -> Slot]
      BY <1>2, <3>1, <3>3 DEF Filled, Slot
    <3>5. \A i \in 1..idx : doc.tiers[i] # <<>> /\ urls'[i] = doc.tiers[i][1]
      BY <1>2, <2>2, <3>1 DEF Filled
    <3>6. Filled(idx - 1)'
      BY <1>1, <3>1, <3>4, <3>5 DEF Filled
    <3> QED
      BY <1>1, <1>2, <1>3, <3>1, <3>6 DEF Tier
  <2> QED
    BY <2>1, <2>2
<1>4. CASE Announce
  <2>1. idx = TierCount + 1 /\ pc' = "info" /\ UNCHANGED trackers
    BY <1>2, <1>4 DEF Announce
  <2>2. urls' = IF doc.announce = None THEN urls ELSE [urls EXCEPT ![idx] = doc.announce]
    BY <1>4 DEF Announce
  <2>3. torrent' = [torrent EXCEPT !.tracker_count = IF doc.announce = None THEN idx - 1 ELSE idx]
    BY <1>4 DEF Announce
  <2>4. torrent'.tracker_count = Count /\ DOMAIN torrent' = DOMAIN torrent
    BY <1>2, <2>1, <2>3 DEF Count
  <2>5. Filled(TierCount)' /\ (doc.announce # None => urls'[TierCount + 1] = doc.announce)
    BY <1>1, <1>2, <2>1, <2>2 DEF Filled, Slot
  <2>6. UrlsReady'
    BY <1>1, <2>4, <2>5 DEF UrlsReady
  <2> QED
    BY <1>1, <1>4, <2>1, <2>4, <2>6 DEF Announce
<1> QED
  BY <1>3, <1>4

LEMMA TrackInfo ==
    ASSUME TrackInv, PieceLength \/ SingleFile \/ MultiFile \/ File \/ FilesDone
    PROVE  TrackInv'
<1> USE DEF TrackInv, Goto, Reading, Past
<1>1. Fixed' /\ TierCount' = TierCount /\ Count' = Count /\ doc' = doc /\ UNCHANGED <<urls, trackers>>
  BY DEF Fixed, TierCount, Count, PieceLength, SingleFile, MultiFile, File, FilesDone
<1>2. UrlsReady /\ doc.info # None
  BY DEF PieceLength, SingleFile, MultiFile, File, FilesDone
<1>3. /\ torrent'.tracker_count = torrent.tracker_count
      /\ DOMAIN torrent' = DOMAIN torrent
  BY DEF PieceLength, SingleFile, MultiFile, File, FilesDone
<1>4. UrlsReady'
  BY <1>1, <1>2, <1>3 DEF UrlsReady, Filled
<1>5. pc' \in {"undef", "name", "print", "files"} /\ pc \in Reading
  BY DEF PieceLength, SingleFile, MultiFile, File, FilesDone
<1> QED
  BY <1>1, <1>2, <1>3, <1>4, <1>5

\* One of the walks over the list, which leaves all but one flag alone.
LEMMA TrackWalk ==
    ASSUME TrackInv,
           NEW at \in {"start", "stop"}, NEW field \in {"started", "stopped"},
           NEW next \in {"loop", "exited"},
           Walk(at, field, next),
           at = "start" => field = "started" /\ next = "loop",
           at = "stop" => field = "stopped" /\ next = "exited"
    PROVE  TrackInv'
<1> USE DEF TrackInv, Goto, Reading, Past
<1>1. Fixed' /\ TierCount' = TierCount /\ Count' = Count /\ UNCHANGED <<doc, urls, torrent>>
  BY DEF Fixed, TierCount, Count, Walk
<1>2. UrlsReady /\ Listed(Count) /\ idx \in 1..(Count + 1) /\ pc = at
  BY DEF Walk
<1>3. Count \in Nat
  BY DocFacts DEF Count
<1>4. UrlsReady'
  BY <1>1, <1>2 DEF UrlsReady, Filled
<1>5. Len(trackers) = Count
  BY <1>2, <1>3, FunctionIsSeq DEF Listed
<1>6. CASE idx <= Len(trackers)
  <2>1. /\ idx \in 1..Count /\ idx' = idx + 1 /\ pc' = at
        /\ trackers' = [trackers EXCEPT ![idx][field] = TRUE]
    BY <1>2, <1>3, <1>5, <1>6 DEF Walk
  <2>2. trackers[idx] \in TrackerRec
    BY <1>2, <2>1 DEF Listed
  <2> DEFINE c == [trackers[idx] EXCEPT ![field] = TRUE]
  <2>3. c \in TrackerRec /\ c.url = trackers[idx].url
    BY <2>2 DEF TrackerRec
  <2>4. /\ at = "start" => c.started
        /\ at = "stop" => c.started = trackers[idx].started
    BY <2>2 DEF TrackerRec
  <2>5. trackers' = [trackers EXCEPT ![idx] = c]
    BY <2>1
  <2> HIDE DEF c
  <2>6. trackers' \in [1..Count -> TrackerRec]
    BY <1>2, <2>1, <2>3, <2>5 DEF Listed
  <2>7. \A i \in 1..Count : trackers'[i] = IF i = idx THEN c ELSE trackers[i]
    BY <1>2, <2>1, <2>5 DEF Listed
  <2>8. Listed(Count)'
    BY <1>1, <1>2, <2>3, <2>6, <2>7 DEF Listed
  <2>9. at = "start" => \A i \in 1..(idx' - 1) : trackers'[i].started
    <3> SUFFICES ASSUME at = "start", NEW i \in 1..(idx' - 1) PROVE trackers'[i].started
      OBVIOUS
    <3>1. i \in 1..Count /\ (i # idx => i \in 1..(idx - 1))
      BY <1>2, <1>3, <2>1
    <3>2. c.started /\ \A j \in 1..(idx - 1) : trackers[j].started
      BY <1>2, <2>4
    <3>3. CASE i = idx
      BY <2>7, <3>1, <3>2, <3>3, Zenon
    <3>4. CASE i # idx
      BY <2>7, <3>1, <3>2, <3>4, Zenon
    <3> QED
      BY <3>3, <3>4
  <2>10. at = "stop" => \A i \in 1..Count : trackers'[i].started
    BY <1>2, <2>4, <2>7
  <2> QED
    BY <1>1, <1>2, <1>3, <1>4, <2>1, <2>8, <2>9, <2>10
<1>7. CASE ~(idx <= Len(trackers))
  <2>1. /\ idx = Count + 1 /\ idx' = 1 /\ pc' = next /\ UNCHANGED trackers
    BY <1>2, <1>3, <1>5, <1>7 DEF Walk
  <2>2. Listed(Count)'
    BY <1>1, <1>2, <2>1 DEF Listed
  <2>3. at = "start" => \A i \in 1..Count : trackers'[i].started
    BY <1>2, <1>3, <2>1
  <2> QED
    BY <1>1, <1>2, <1>3, <1>4, <2>1, <2>2, <2>3
<1> QED
  BY <1>6, <1>7

LEMMA TrackClient ==
    ASSUME TrackInv, PrintTorrent \/ InitTracker \/ InitTrackersDone \/ LoopEnds
    PROVE  TrackInv'
<1> USE DEF TrackInv, Goto, Reading, Past
<1>1. Fixed' /\ TierCount' = TierCount /\ Count' = Count /\ UNCHANGED <<doc, urls, torrent>>
  BY DEF Fixed, TierCount, Count, PrintTorrent, InitTracker, InitTrackersDone, LoopEnds
<1>2. TierCount \in Nat /\ Count \in Nat
  BY DocFacts DEF Count
<1>3. UrlsReady => UrlsReady'
  BY <1>1 DEF UrlsReady, Filled
<1>4. CASE PrintTorrent
  <2>1. pc' \in {"undef", "init"} /\ idx' = 1 /\ trackers' = <<>>
    BY <1>4 DEF PrintTorrent
  <2>2. pc' = "init" => UrlsReady
    BY <1>4 DEF PrintTorrent, ListsUnset
  <2>3. Listed(0)'
    BY <2>1 DEF Listed
  <2>4. Listed(idx - 1)'
    BY <2>1, <2>3
  <2> QED
    BY <1>1, <1>2, <1>3, <2>1, <2>2, <2>4
<1>5. CASE InitTracker
  <2>1. UrlsReady /\ idx \in 1..Count /\ Listed(idx - 1) /\ idx' = idx + 1 /\ pc' = "init"
    BY <1>2, <1>5 DEF InitTracker, UrlsReady
  <2> DEFINE new == [url |-> urls[idx], started |-> FALSE, stopped |-> FALSE]
  <2>2. urls[idx] \in Slot
    BY <1>2, <2>1 DEF UrlsReady, Filled, Count
  <2>3. new \in TrackerRec /\ new.url = urls[idx]
    BY <2>2 DEF TrackerRec
  <2>4. trackers' = Append(trackers, new)
    BY <1>5 DEF InitTracker
  <2> HIDE DEF new
  <2>5. trackers \in Seq(TrackerRec) /\ Len(trackers) = idx - 1
    BY <2>1, FunctionIsSeq DEF Listed
  <2>6. /\ trackers' \in Seq(TrackerRec) /\ Len(trackers') = idx
        /\ \A i \in 1..idx : trackers'[i] = IF i = idx THEN new ELSE trackers[i]
    BY <2>1, <2>3, <2>4, <2>5
  <2>7. trackers' \in [1..idx -> TrackerRec]
    BY <2>6
  <2>8. \A i \in 1..idx : trackers'[i].url = urls[i]
    BY <2>1, <2>3, <2>6 DEF Listed
  <2>9. Listed(idx - 1)'
    BY <1>1, <2>1, <2>7, <2>8 DEF Listed
  <2> QED
    BY <1>1, <1>2, <1>3, <2>1, <2>9
<1>6. CASE InitTrackersDone
  <2>1. UrlsReady /\ idx = Count + 1 /\ Listed(Count)
    BY <1>2, <1>6 DEF InitTrackersDone, UrlsReady
  <2>2. idx' = 1 /\ pc' \in {"undef", "start"} /\ UNCHANGED trackers
    BY <1>6 DEF InitTrackersDone
  <2>3. Listed(Count)'
    BY <1>1, <2>1, <2>2 DEF Listed
  <2> QED
    BY <1>1, <1>2, <1>3, <2>1, <2>2, <2>3
<1>7. CASE LoopEnds
  <2>1. pc = "loop" /\ pc' = "stop" /\ UNCHANGED <<idx, trackers>>
    BY <1>7 DEF LoopEnds
  <2>2. Listed(Count)'
    BY <1>1, <2>1 DEF Listed
  <2> QED
    BY <1>1, <1>2, <1>3, <2>1, <2>2
<1> QED
  BY <1>4, <1>5, <1>6, <1>7

LEMMA TrackSame ==
    ASSUME TrackInv, UNCHANGED <<doc, opts, pc, urls, idx, torrent, trackers>>
    PROVE  TrackInv'
BY DEF TrackInv, Fixed, Filled, UrlsReady, Listed, TierCount, Count

LEMMA TrackNext == TrackInv /\ [Next]_vars => TrackInv'
<1> SUFFICES ASSUME TrackInv, [Next]_vars PROVE TrackInv'
  OBVIOUS
<1>1. CASE ParseOptions \/ LoadFails \/ LoadOther \/ Load
  BY <1>1, TrackLoad
<1>2. CASE Tier \/ Announce
  BY <1>2, TrackTiers
<1>3. CASE PieceLength \/ SingleFile \/ MultiFile \/ File \/ FilesDone
  BY <1>3, TrackInfo
<1>4. CASE PrintTorrent \/ InitTracker \/ InitTrackersDone \/ LoopEnds
  BY <1>4, TrackClient
<1>5. CASE StartTrackers
  BY <1>5, TrackWalk DEF StartTrackers
<1>6. CASE StopTrackers
  BY <1>6, TrackWalk DEF StopTrackers
<1>7. CASE Interrupt \/ UNCHANGED vars
  BY <1>7, TrackSame DEF Interrupt, vars
<1> QED
  BY <1>1, <1>2, <1>3, <1>4, <1>5, <1>6, <1>7 DEF Next, MainStep

\* The trackers that the file names, once the slots are filled.
LEMMA WantedIs ==
    ASSUME Fixed, UrlsReady
    PROVE  Wanted = [i \in 1..Count |-> urls[i]]
<1> DEFINE tierUrls == IF doc.tiers = None THEN <<>> ELSE [i \in DOMAIN doc.tiers |-> doc.tiers[i][1]]
           rest == IF doc.announce = None THEN <<>> ELSE <<doc.announce>>
           whole == [i \in 1..Count |-> urls[i]]
<1>1. TierCount \in Nat /\ Count \in Nat /\ Count = TierCount + (IF doc.announce = None THEN 0 ELSE 1)
  BY DocFacts DEF Count
<1>2. urls \in [1..(TierCount + 1) -> Slot]
  BY DEF UrlsReady, Filled
<1>3. tierUrls = [i \in 1..TierCount |-> urls[i]]
  <2>1. CASE doc.tiers = None
    BY <2>1, DocFacts
  <2>2. CASE doc.tiers # None
    <3>1. DOMAIN doc.tiers = 1..TierCount
      BY <2>2, DocFacts
    <3> QED
      BY <2>2, <3>1 DEF UrlsReady, Filled
  <2> QED
    BY <2>1, <2>2
<1>4. tierUrls \in [1..TierCount -> Slot]
  BY <1>1, <1>2, <1>3
<1>5. tierUrls \in Seq(Slot) /\ Len(tierUrls) = TierCount
  BY <1>1, <1>4, FunctionIsSeq
<1>6. /\ rest \in Seq(Slot) /\ Len(rest) = Count - TierCount
      /\ \A i \in 1..(Count - TierCount) : rest[i] = urls[TierCount + i]
  <2>1. CASE doc.announce = None
    BY <1>1, <2>1
  <2>2. CASE doc.announce # None
    <3>1. rest = <<doc.announce>> /\ Count - TierCount = 1
      BY <1>1, <2>2
    <3>2. doc.announce \in Slot /\ urls[TierCount + 1] = doc.announce
      BY <2>2, DocFacts DEF Slot, UrlsReady
    <3> QED
      BY <3>1, <3>2
  <2> QED
    BY <2>1, <2>2
<1>7. whole \in [1..Count -> Slot]
  BY <1>1, <1>2
<1>8. whole \in Seq(Slot) /\ Len(whole) = Count /\ \A i \in 1..Count : whole[i] = urls[i]
  BY <1>1, <1>7, FunctionIsSeq
<1>9. \A i \in 1..TierCount : tierUrls[i] = urls[i]
  BY <1>3
<1>10. Wanted = tierUrls \o rest
  BY DEF Wanted
<1> HIDE DEF tierUrls, rest, whole
<1>11. /\ tierUrls \o rest \in Seq(Slot) /\ Len(tierUrls \o rest) = Count
       /\ \A i \in 1..Count : (tierUrls \o rest)[i] = urls[i]
  <2>1. tierUrls \o rest \in Seq(Slot) /\ Len(tierUrls \o rest) = Count
    <3>1. tierUrls \in Seq(Slot) /\ rest \in Seq(Slot)
      BY <1>5, <1>6
    <3>2. tierUrls \o rest \in Seq(Slot) /\ Len(tierUrls \o rest) = Len(tierUrls) + Len(rest)
      BY <3>1, ConcatProperties, Zenon
    <3>3. TierCount + (Count - TierCount) = Count
      BY <1>1
    <3> QED
      BY <1>5, <1>6, <3>2, <3>3, Zenon
  <2>2. \A i \in 1..Count : (tierUrls \o rest)[i] =
            IF i <= TierCount THEN tierUrls[i] ELSE rest[i - TierCount]
    BY <1>1, <1>5, <1>6, ConcatProperties
  <2>3. ASSUME NEW i \in 1..Count PROVE (tierUrls \o rest)[i] = urls[i]
    <3>1. CASE i <= TierCount
      <4>1. i \in 1..TierCount
        BY <1>1, <3>1
      <4> QED
        BY <1>9, <2>2, <3>1, <4>1
    <3>2. CASE ~(i <= TierCount)
      <4>1. i - TierCount \in 1..(Count - TierCount) /\ TierCount + (i - TierCount) = i
        BY <1>1, <3>2
      <4>2. rest[i - TierCount] = urls[TierCount + (i - TierCount)]
        BY <1>6, <4>1, Zenon
      <4> QED
        BY <2>2, <3>2, <4>1, <4>2
    <3> QED
      BY <3>1, <3>2
  <2> QED
    BY <2>1, <2>3
<1>12. tierUrls \o rest = whole
  BY <1>8, <1>11, SeqEqual
<1> QED
  BY <1>10, <1>12 DEF whole

\* While main loops, exactly the trackers that the file names have a thread, in
\* the file's order, whatever is in the file (prepare_trackers, torrent.c:56-97,
\* client_init_trackers and client_start_trackers, client.c:19-47).
THEOREM StartsExactly == Spec => []StartsWanted
<1>1. TrackInv => StartsWanted
  <2> SUFFICES ASSUME TrackInv, pc \in {"loop", "stop"}
               PROVE  /\ [i \in DOMAIN trackers |-> trackers[i].url] = Wanted
                      /\ \A i \in DOMAIN trackers : trackers[i].started
    BY DEF StartsWanted
  <2>1. Fixed /\ UrlsReady /\ Listed(Count) /\ \A i \in 1..Count : trackers[i].started
    BY DEF TrackInv, Past
  <2>2. DOMAIN trackers = 1..Count
    BY <2>1 DEF Listed
  <2>3. [i \in DOMAIN trackers |-> trackers[i].url] = [i \in 1..Count |-> urls[i]]
    BY <2>1, <2>2 DEF Listed
  <2> QED
    BY <2>1, <2>2, <2>3, WantedIs
<1> QED
  BY <1>1, TrackInit, TrackNext, PTL DEF Spec

-----------------------------------------------------------------------------
(* A file with everything that the code looks for.  Needs TrackInv: the      *)
(* number of trackers is a number, and not zero.                             *)

Given == opts = <<"t">> /\ Complete

\* The entries of torrent_t's array of files that are assigned.
FilesUpTo(n) ==
    /\ torrent.mode = "multi" /\ torrent.file_name # Unset
    /\ DOMAIN torrent.files = 1..Len(doc.info.files)
    /\ \A i \in 1..n : torrent.files[i] # Unset

SafeInv ==
    Given =>
        /\ pc \notin {"undef", "aborted", "usage"}
        /\ pc = "files" => /\ doc.info.files # None
                           /\ idx \in 1..(Len(doc.info.files) + 1)
                           /\ FilesUpTo(idx - 1)
        /\ pc = "print" => ~ListsUnset

LEMMA SafeInit == Init => SafeInv
BY DEF Init, SafeInv

LEMMA SafeNext == TrackInv /\ SafeInv /\ [Next]_vars => SafeInv'
<1> SUFFICES ASSUME TrackInv, SafeInv, [Next]_vars, Given' PROVE SafeInv'
  BY DEF SafeInv
<1> USE DEF Goto
<1>1. UNCHANGED <<doc, opts>>
  BY DEF Next, MainStep, vars, Interrupt, ParseOptions, LoadFails, LoadOther, Load, Tier,
         Announce, PieceLength, SingleFile, MultiFile, File, FilesDone, PrintTorrent,
         InitTracker, InitTrackersDone, StartTrackers, LoopEnds, StopTrackers, Walk
<1>2. opts = <<"t">> /\ Complete
  BY <1>1 DEF Given, Complete, Wanted
<1>3. /\ doc.form = "dict" /\ doc.info # None /\ Wanted # <<>> /\ doc.info.piece_length # None
      /\ doc.tiers # None => \A i \in DOMAIN doc.tiers : doc.tiers[i] # <<>>
  BY <1>2 DEF Complete
<1>4. /\ pc \notin {"undef", "aborted", "usage"}
      /\ pc = "files" => /\ doc.info.files # None
                         /\ idx \in 1..(Len(doc.info.files) + 1)
                         /\ FilesUpTo(idx - 1)
      /\ pc = "print" => ~ListsUnset
  BY <1>2 DEF SafeInv, Given
<1>5. /\ TierCount \in Nat
      /\ doc.info.name # Unset
      /\ doc.tiers = None => TierCount = 0
      /\ doc.tiers # None => doc.tiers \in Seq(Seq(Urls)) /\ TierCount = Len(doc.tiers)
      /\ doc.info.files # None => doc.info.files \in Seq(Info)
  BY <1>3, DocFacts DEF TrackInv
<1>6. UrlsReady => torrent.tracker_count # Unset
  BY <1>5, StartupAssumption DEF UrlsReady, Count
<1>7. {"tracker_count", "files", "file_name", "mode"} \subseteq DOMAIN torrent
  BY DEF TrackInv
<1> SUFFICES /\ pc' \notin {"undef", "aborted", "usage"}
             /\ pc' = "files" => /\ doc.info.files # None
                                 /\ idx' \in 1..(Len(doc.info.files) + 1)
                                 /\ FilesUpTo(idx - 1)'
             /\ pc' = "print" => ~ListsUnset'
  BY <1>1 DEF SafeInv
<1>8. CASE ParseOptions
  BY <1>2, <1>8 DEF ParseOptions
<1>9. CASE LoadFails \/ LoadOther
  BY <1>3, <1>9 DEF LoadFails, LoadOther
<1>10. CASE Load \/ Announce \/ InitTracker \/ LoopEnds
  BY <1>10 DEF Load, Announce, InitTracker, LoopEnds
<1>11. CASE Tier
  <2>1. idx \in 1..TierCount
    BY <1>5, <1>11 DEF Tier, TrackInv
  <2>2. doc.tiers[idx] # <<>>
    BY <1>3, <1>5, <2>1
  <2> QED
    BY <1>11, <2>2 DEF Tier
<1>12. CASE PieceLength
  BY <1>3, <1>12 DEF PieceLength
<1>13. CASE SingleFile
  <2>1. UrlsReady /\ pc' = "print"
    BY <1>13 DEF SingleFile, TrackInv
  <2>2. /\ torrent'.mode = "single" /\ torrent'.file_name = doc.info.name
        /\ torrent'.tracker_count = torrent.tracker_count
    BY <1>7, <1>13 DEF SingleFile
  <2> QED
    BY <1>5, <1>6, <2>1, <2>2, StartupAssumption DEF ListsUnset
<1>14. CASE MultiFile
  <2>1. pc' = "files" /\ idx' = 1 /\ doc.info.files # None
    BY <1>14 DEF MultiFile
  <2>2. Len(doc.info.files) \in Nat /\ DOMAIN doc.info.files = 1..Len(doc.info.files)
    BY <1>5, <2>1
  <2>3. /\ torrent'.mode = "multi" /\ torrent'.file_name = doc.info.name
        /\ DOMAIN torrent'.files = 1..Len(doc.info.files)
    BY <1>7, <1>14, <2>2 DEF MultiFile
  <2> QED
    BY <1>1, <1>5, <2>1, <2>2, <2>3 DEF FilesUpTo
<1>15. CASE File
  <2> DEFINE f == doc.info.files[idx]
  <2>1. /\ doc.info.files # None /\ idx \in 1..Len(doc.info.files) /\ FilesUpTo(idx - 1)
        /\ Len(doc.info.files) \in Nat
    BY <1>4, <1>5, <1>15 DEF File
  <2>2. f \in Info /\ f.length # None /\ f.path \notin {None, 0}
    BY <1>2, <1>5, <2>1 DEF Complete
  <2>3. f.path # Unset
    BY <2>2, StartupAssumption DEF Info
  <2>4. /\ torrent' = [torrent EXCEPT !.files[idx] = f.path]
        /\ pc' = "files" /\ idx' = idx + 1
    BY <1>15, <2>2 DEF File
  <2> HIDE DEF f
  <2>5. /\ torrent'.mode = torrent.mode /\ torrent'.file_name = torrent.file_name
        /\ torrent'.files = [torrent.files EXCEPT ![idx] = f.path]
    BY <1>7, <2>4
  <2>6. /\ DOMAIN torrent'.files = 1..Len(doc.info.files)
        /\ \A i \in 1..idx : torrent'.files[i] # Unset
    BY <2>1, <2>3, <2>5 DEF FilesUpTo
  <2>7. FilesUpTo(idx - 1)'
    BY <1>1, <2>1, <2>4, <2>5, <2>6 DEF FilesUpTo
  <2> QED
    BY <2>1, <2>4, <2>7
<1>16. CASE FilesDone
  <2>1. UrlsReady /\ pc' = "print" /\ UNCHANGED torrent
    BY <1>16 DEF FilesDone, TrackInv
  <2>2. idx = Len(doc.info.files) + 1 /\ Len(doc.info.files) \in Nat /\ FilesUpTo(idx - 1)
    BY <1>4, <1>5, <1>16 DEF FilesDone
  <2>3. Unset \notin ToSet(torrent.files)
    BY <2>2 DEF FilesUpTo, ToSet
  <2> QED
    BY <1>6, <2>1, <2>2, <2>3, StartupAssumption DEF ListsUnset, FilesUpTo
<1>17. CASE PrintTorrent
  BY <1>4, <1>17 DEF PrintTorrent
<1>18. CASE InitTrackersDone
  <2>1. Fixed /\ UrlsReady /\ idx \in 1..(Count + 1) /\ idx > Count /\ Listed(idx - 1)
    BY <1>18 DEF InitTrackersDone, TrackInv, UrlsReady
  <2>2. Count \in Nat /\ Count # 0
    BY <1>3, <1>5, <2>1, WantedIs DEF Count
  <2>3. DOMAIN trackers = 1..Count
    BY <2>1, <2>2 DEF Listed
  <2>4. trackers # <<>>
    BY <2>2, <2>3
  <2> QED
    BY <1>18, <2>4 DEF InitTrackersDone
<1>19. CASE StartTrackers \/ StopTrackers
  BY <1>19 DEF StartTrackers, StopTrackers, Walk
<1>20. CASE Interrupt \/ UNCHANGED vars
  BY <1>4, <1>20 DEF Interrupt, vars, FilesUpTo, ListsUnset
<1> QED
  BY <1>8, <1>9, <1>10, <1>11, <1>12, <1>13, <1>14, <1>15, <1>16, <1>17, <1>18, <1>19, <1>20
     DEF Next, MainStep

\* Given a torrent file that has what the code looks for, main never uses
\* anything unassigned and never gives up, whatever optional field is missing,
\* however many tiers, URLs and files there are.
THEOREM CompleteSafe == Spec => []CompleteIsSafe
<1>1. SafeInv => CompleteIsSafe
  BY DEF SafeInv, CompleteIsSafe, Given
<1> QED
  BY <1>1, TrackInit, TrackNext, SafeInit, SafeNext, PTL DEF Spec
==============================================================================
