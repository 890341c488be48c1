------------------------------- MODULE Bencode -------------------------------
(* util/bencode.c: bencode_parse, whose recursive calls are the frames of    *)
(* `stack', and bencode_to_string.  Positions count from 0, as in C.  The    *)
(* text lies in a block that ends with it (read_file), so `beyond' is        *)
(* whatever the heap holds next to it.  int arithmetic wraps: the build does *)
(* not optimise.                                                             *)
EXTENDS Integers, Sequences, SequencesExt

CONSTANTS Chars,    \* what a char may hold
          Texts,    \* texts to parse, sequences of characters
          Beyond,   \* what may be found after a text
          IntMax    \* INT_MAX, scaled down

ASSUME BencodeAssumption ==
    /\ {"0", "1", "2", "3", "4", "5", "6", "7", "8", "9",
        "i", "l", "d", "e", ":", "-", "nul"} \subseteq Chars
    /\ Texts \subseteq Seq(Chars) /\ Beyond \subseteq Chars
    /\ IntMax \in Nat /\ IntMax > 9

VARIABLES text, beyond,
          pos,      \* *pos
          stack,    \* b_parse_list and b_parse_dict calls in progress
          vals,     \* finished values; elems refer to earlier ones
          code,     \* how far the caller is, or what it got
          out, outlen,  \* what bencode_to_string wrote, and returned
          first     \* the text written before, if this is its second reading

bencodeVars == <<text, beyond, pos, stack, vals, code, out, outlen, first>>

-----------------------------------------------------------------------------
(* Numbers.                                                                  *)

DigitChar == <<"0", "1", "2", "3", "4", "5", "6", "7", "8", "9">>

IsDigit(c) == c \in ToSet(DigitChar)

DigitOf(c) == CHOOSE n \in 0..9 : DigitChar[n + 1] = c

IntMin == -IntMax - 1

Wrap(n) == ((n - IntMin) % (2 * (IntMax + 1))) + IntMin

\* The number that the digits at p..q-1 add to n.
Accumulate(n, digits) ==
    FoldLeft(LAMBDA m, c : Wrap(m * 10 + DigitOf(c)), n, digits)

Decimal[n \in Nat] ==
    IF n < 10 THEN <<DigitChar[n + 1]>>
    ELSE Append(Decimal[n \div 10], DigitChar[(n % 10) + 1])

\* Mutant: the digits come out in the order of the divisions.
ItoaReversed(n) == IF n < 0 THEN <<"-">> \o Reverse(Decimal[-n]) ELSE Reverse(Decimal[n])

Itoa(n) == IF n < 0 THEN <<"-">> \o Decimal[-n] ELSE Decimal[n]

\* The loop of declen: it never runs for INT_MIN, whose negation is itself.
Divisions[n \in Int] == IF n <= 0 THEN 0 ELSE 1 + Divisions[n \div 10]

\* Mutant: no room for the sign.
DeclenNoSign(n) == IF n = 0 THEN 1 ELSE Divisions[IF n < 0 THEN Wrap(-n) ELSE n]

Declen(n) ==
    IF n = 0 THEN 1 ELSE IF n < 0 THEN 1 + Divisions[Wrap(-n)] ELSE Divisions[n]

-----------------------------------------------------------------------------
(* The parser.                                                               *)

\* Mutant: the last byte counts as beyond the text.
EofEarly(p) == p >= Len(text) - 1

Eof(p) == p >= Len(text)

At(p) == IF Eof(p) THEN beyond ELSE text[p + 1]

\* Where a loop over digits that starts at p ends.  Only after a digit does it
\* look for the end of the text: the first character may be the one beyond.
DigitsEnd(p) ==
    CHOOSE q \in p..(Len(text) + 1) :
        /\ \A r \in p..(q - 1) : IsDigit(At(r)) /\ (r > p => ~Eof(r))
        /\ (q > p /\ Eof(q)) \/ ~IsDigit(At(q))

Digits(p, q) == [k \in 1..(q - p) |-> At(p + k - 1)]

RanOut(p, q) == q > p /\ Eof(q)

\* Mutant: start is noted after the first byte is read.
ValueLateStart(type, start, end, num, str, elems) ==
    [type |-> type, start |-> start + 1, end |-> end, num |-> num, str |-> str, elems |-> elems]

Value(type, start, end, num, str, elems) ==
    [type |-> type, start |-> start, end |-> end, num |-> num, str |-> str, elems |-> elems]

Top == stack[Len(stack)]

\* In a dictionary, the next value belongs to a key already read.
AfterKey == stack # <<>> /\ Top.type = "dict" /\ Len(Top.elems) % 2 = 1

\* b_parse_any is called: by bencode_parse, or by a loop that is not at its 'e'.
Calls == stack = <<>> \/ AfterKey \/ At(pos) # "e"

\* Mutant: the code of a failed call is not looked at.
AnswerIgnored(c) == UNCHANGED bencodeVars

Answer(c) ==
    /\ code' = c
    /\ UNCHANGED <<text, beyond, pos, stack, vals, out, outlen, first>>

\* What b_parse_dict does once it has a value: the key's type is tested only
\* now, and hashtable_put reads the key.  A key of negative length has no
\* block (of length -1, an empty one).
PutKey(key) ==
    CASE key.type # "str" -> {"bad"}
      [] key.type = "str" /\ key.num < -1 -> {"crash"}
      [] key.type = "str" /\ key.num = -1 -> {"crash", "run"}
      [] OTHER -> {"run"}

\* A call returns 0 with value v and the position at p.  A list appends it, a
\* dictionary keeps it as a key or puts it; both go on only before the end.
Finish(v, p, callers) ==
    LET n   == Len(vals) + 1
        fin == Append(vals, v)
    IN  /\ vals' = fin
        /\ pos' = p
        /\ \/ /\ callers = <<>>
              /\ stack' = <<>>
              /\ code' = "ok"
           \/ /\ callers # <<>>
              /\ LET top   == callers[Len(callers)]
                     elems == Append(top.elems, n)
                 IN  /\ stack' = [callers EXCEPT ![Len(callers)].elems = elems]
                     /\ code' \in IF Eof(p) THEN {"eof"}
                                  ELSE IF top.type = "dict" /\ Len(elems) % 2 = 0
                                  THEN PutKey(fin[elems[Len(elems) - 1]])
                                  ELSE {"run"}
        /\ UNCHANGED <<text, beyond, out, outlen, first>>

\* b_parse_int: no digits are needed, and nothing is tested after a '-'.
ParseInt ==
    /\ At(pos) = "i"
    /\ LET neg == At(pos + 1) = "-"
           p   == IF neg THEN pos + 2 ELSE pos + 1
           q   == DigitsEnd(p)
           num == Accumulate(0, Digits(p, q))
       IN  IF Eof(pos + 1) \/ RanOut(p, q) THEN Answer("eof")
           ELSE IF At(q) # "e" THEN Answer("bad")
           ELSE Finish(Value("int", pos, q, IF neg THEN Wrap(-num) ELSE num, <<>>, <<>>),
                       q + 1, stack)

\* b_parse_string: n + 1 wraps for INT_MAX, calloc fails and the first character
\* is written through NULL; a negative n copies nothing.
ParseString ==
    /\ IsDigit(At(pos))
    /\ LET q   == DigitsEnd(pos + 1)
           n   == Accumulate(DigitOf(At(pos)), Digits(pos + 1, q))
           end == q + Max({0, n})
       IN  IF RanOut(pos + 1, q) THEN Answer("eof")
           ELSE IF At(q) # ":" THEN Answer("bad")
           ELSE IF n = IntMax THEN Answer(IF Eof(q + 1) THEN "eof" ELSE "crash")
           ELSE IF end > q /\ Eof(end) THEN Answer("eof")
           ELSE Finish(Value("str", pos, end, n, SubSeq(text, q + 2, end + 1), <<>>),
                       end + 1, stack)

\* The start of b_parse_list and b_parse_dict.
Open ==
    /\ At(pos) \in {"l", "d"}
    /\ IF Eof(pos + 1) THEN Answer("eof")
       ELSE /\ stack' = Append(stack, [type |-> IF At(pos) = "l" THEN "list" ELSE "dict",
                                       start |-> pos, elems |-> <<>>])
            /\ pos' = pos + 1
            /\ UNCHANGED <<text, beyond, vals, code, out, outlen, first>>

ParseOther ==
    /\ At(pos) \notin {"i", "l", "d"} /\ ~IsDigit(At(pos))
    /\ Answer("bad")

Close == Finish(Value(Top.type, Top.start, pos, 0, <<>>, Top.elems),
                pos + 1, Front(stack))

Parse ==
    /\ code = "run"
    /\ \/ Calls /\ Eof(pos) /\ Answer("eof")
       \/ Calls /\ ~Eof(pos) /\ (ParseInt \/ ParseString \/ Open \/ ParseOther)
       \/ ~Calls /\ Close

-----------------------------------------------------------------------------
(* The encoder.                                                              *)

IsDict(i) == vals[i].type = "dict"

Pairs(i) == 1..(Len(vals[i].elems) \div 2)

\* A key as the hash table and strlen see it: up to its first NUL.
CString(s) ==
    SubSeq(s, 1, CHOOSE n \in 0..Len(s) :
                     /\ n = Len(s) \/ s[n + 1] = "nul"
                     /\ \A k \in 1..n : s[k] # "nul")

Key(i, k) == CString(vals[vals[i].elems[2 * k - 1]].str)

\* b_to_string_len.
BToStringLen ==
    LET len[i \in DOMAIN vals] ==
            LET v == vals[i]
                Pair(k) == Declen(Len(Key(i, k))) + 1 + Len(Key(i, k)) + len[v.elems[2 * k]]
            IN  CASE v.type = "str" -> Declen(v.num) + 1 + v.num
                  [] v.type = "int" -> 1 + Declen(v.num) + 1
                  [] v.type = "list" -> 2 + SumFunction([k \in DOMAIN v.elems |-> len[v.elems[k]]])
                  [] v.type = "dict" -> 2 + SumFunction([k \in Pairs(i) |-> Pair(k)])
    IN  len[Len(vals)]

\* b_to_string.  qsort hands strcmp the addresses of the pointers, so the keys
\* come in any order.
BToString(order) ==
    LET str[i \in DOMAIN vals] ==
            LET v == vals[i]
                Pair(k) == Itoa(Len(Key(i, k))) \o <<":">> \o Key(i, k) \o str[v.elems[2 * k]]
            IN  CASE v.type = "str" -> Itoa(v.num) \o <<":">> \o v.str
                  [] v.type = "int" -> <<"i">> \o Itoa(v.num) \o <<"e">>
                  [] v.type = "list" ->
                        <<"l">> \o FlattenSeq([k \in DOMAIN v.elems |-> str[v.elems[k]]]) \o <<"e">>
                  [] v.type = "dict" ->
                        <<"d">> \o FlattenSeq([k \in DOMAIN order[i] |-> Pair(order[i][k])]) \o <<"e">>
    IN  str[Len(vals)]

Orders ==
    LET dicts == {i \in DOMAIN vals : IsDict(i)}
    IN  {f \in [dicts -> UNION {SetToSeqs(Pairs(i)) : i \in dicts}] :
            \A i \in dicts : f[i] \in SetToSeqs(Pairs(i))}

\* b_to_string walks unassigned slots of `keys' when a key was put twice, since
\* hashtable_size counts the puts, and memcpy fails on a negative length.
Unwritable ==
    \/ \E i \in DOMAIN vals : IsDict(i) /\ \E j, k \in Pairs(i) : j # k /\ Key(i, j) = Key(i, k)
    \/ \E i \in DOMAIN vals : vals[i].type = "str" /\ vals[i].num < 0

\* bencode_to_string: the block has room for the computed length and a NUL.
Write ==
    /\ code = "ok"
    /\ IF Unwritable THEN Answer("undef")
       ELSE /\ outlen' = BToStringLen
            /\ \E order \in Orders : out' = BToString(order)
            /\ code' = IF Len(out') > outlen' + 1 THEN "overrun" ELSE "written"
            /\ UNCHANGED <<text, beyond, pos, stack, vals, first>>

\* The caller parses what it was given.
Again ==
    /\ code = "written" /\ first = <<>>
    /\ text' = SubSeq(out, 1, outlen)
    /\ first' = out
    /\ beyond' = "nul"
    /\ pos' = 0 /\ stack' = <<>> /\ vals' = <<>>
    /\ code' = "run"
    /\ out' = <<>> /\ outlen' = 0

BencodeInit ==
    /\ text \in Texts /\ beyond \in Beyond
    /\ pos = 0 /\ stack = <<>> /\ vals = <<>>
    /\ code = "run"
    /\ out = <<>> /\ outlen = 0 /\ first = <<>>

BencodeNext == Parse \/ Write \/ Again

\* One thread, which does not stop before it has an answer.
BencodeSpec == BencodeInit /\ [][BencodeNext]_bencodeVars /\ WF_bencodeVars(Parse)
-----------------------------------------------------------------------------
(* Properties.                                                               *)

(* The language of the parser, as a grammar over the text: an integer may    *)
(* have no digits, a length counts modulo the width of int.                  *)
Int_(i, j) ==
    LET p == IF At(i + 1) = "-" THEN i + 2 ELSE i + 1
    IN  i < j /\ At(i) = "i" /\ At(j) = "e" /\ \A k \in p..(j - 1) : IsDigit(At(k))

\* The number itself, whatever the width of int.
Plain(digits) == FoldLeft(LAMBDA m, c : m * 10 + DigitOf(c), 0, digits)

Str_(i, j) ==
    \E k \in (i + 1)..j :
        /\ At(k) = ":"
        /\ \A d \in i..(k - 1) : IsDigit(At(d))
        /\ j = k + Max({0, Wrap(Plain(Digits(i, k)))})

Derives[s \in {"value", "items", "pairs"} \X (0..Len(text)) \X (-1..(Len(text) - 1))] ==
    LET i == s[2]
        j == s[3]
    IN  CASE s[1] = "value" ->
                \/ Int_(i, j) \/ Str_(i, j)
                \/ /\ i < j /\ At(j) = "e"
                   /\ \/ At(i) = "l" /\ Derives[<<"items", i + 1, j - 1>>]
                      \/ At(i) = "d" /\ Derives[<<"pairs", i + 1, j - 1>>]
          [] s[1] = "items" ->
                \/ i > j
                \/ \E k \in i..j : Derives[<<"value", i, k>>] /\ Derives[<<"items", k + 1, j>>]
          [] s[1] = "pairs" ->
                \/ i > j
                \/ \E k \in i..j, m \in i..j :
                       /\ k < m /\ Str_(i, k)
                       /\ Derives[<<"value", k + 1, m>>] /\ Derives[<<"pairs", m + 1, j>>]

\* bencode_parse accepts exactly the texts that begin with a value, except for
\* those that crash it, see WidthBounds.  Two texts it accepts by what lies
\* beyond them: a lone "0" and "i-" (bencode.c:58, 97).
FollowsGrammar ==
    /\ code = "ok" =>
           LET root == vals[Len(vals)]
           IN  IF root.end < Len(text) THEN Derives[<<"value", 0, root.end>>]
               ELSE text \in {<<"0">>, <<"i", "-">>}
    /\ code \in {"eof", "bad"} =>
           \A j \in 0..(Len(text) - 1) : ~Derives[<<"value", 0, j>>]

\* The children of a list or dictionary lie next to each other and fill it, and
\* all of an accepted text's inner values lie inside the text: torrent.c:46
\* hashes data[start..end] of one of them.
SpansTile ==
    /\ \A i \in DOMAIN vals :
           LET v == vals[i]
               Starts(k) == IF k = 1 THEN v.start + 1 ELSE vals[v.elems[k - 1]].end + 1
           IN  v.type \in {"list", "dict"} =>
                   /\ \A k \in DOMAIN v.elems : vals[v.elems[k]].start = Starts(k)
                   /\ v.end = Starts(Len(v.elems) + 1)
    /\ code = "ok" =>
           \A i \in DOMAIN vals :
               vals[i].end < Len(text) \/ (i = Len(vals) /\ vals[i].type \in {"int", "str"})

\* Only digits that stand for INT_MAX or more crash the parser, by the n + 1 of
\* bencode.c:70, and only INT_MIN makes the encoder write past its block
\* (bencode.c:184).
WidthBounds ==
    /\ code = "crash" =>
           \E i \in 0..(Len(text) - 2) : \E k \in (i + 1)..(Len(text) - 1) :
               /\ \A d \in i..k : IsDigit(At(d))
               /\ Plain(Digits(i, k + 1)) >= IntMax
    /\ code = "overrun" => \E i \in DOMAIN vals : vals[i].num = IntMin
    /\ code = "written" => Len(out) = outlen

\* What bencode_to_string writes is read back, entirely, as a value that it
\* writes in the same way, up to the order of keys.
ReadsBack ==
    first # <<>> =>
        /\ code \in {"run", "ok", "written"}
        /\ code = "ok" =>
               /\ vals[Len(vals)].end = Len(text) - 1
               /\ \E order \in Orders : BToString(order) = first

\* bencode_parse comes to an end for every text: it returns, or crashes.
ParseEnds == code = "run" ~> code # "run"
==============================================================================
