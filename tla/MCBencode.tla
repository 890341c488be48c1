------------------------------- MODULE MCBencode -------------------------------
(* Every text of up to four characters, a dictionary and a list around every *)
(* text of four, and longer texts, cut short at any character: two keys in   *)
(* both orders, a key twice, a NUL in a key, INT_MIN, lengths that wrap.     *)
EXTENDS Bencode

Short == {"i", "l", "d", "e", ":", "-", "0", "1", "2", "3"}

MCChars == Short \cup {"4", "5", "6", "7", "8", "9", "w", "x", "y", "nul"}

Around(before, inner, after) == {before \o t \o after : t \in inner}

Nested ==
    Around(<<"d", "1", ":", "0">>, BoundedSeq({"l", "i", "e", "1", ":"}, 4), <<"e">>)
        \cup Around(<<"l", "i", "1", "e">>, BoundedSeq({"d", "0", "e", "1", ":"}, 4), <<"e">>)

Long == {
    <<"d", "1", ":", "x", "i", "-", "1", "2", "e", "1", ":", "w", "l", "0", ":", "e", "e", "e">>,
    <<"d", "1", ":", "x", "d", "1", ":", "x", "l", "e", "e", "1", ":", "y", "0", ":", "e">>,
    <<"d", "1", ":", "x", "0", ":", "1", ":", "x", "l", "e", "e">>,
    <<"d", "2", ":", "x", "nul", "0", ":", "1", ":", "y", "i", "e", "e">>,
    <<"l", "i", "-", "3", "2", "e", "i", "3", "2", "e", "1", "0", ":",
      "0", "1", "2", "3", "4", "5", "6", "7", "8", "9", "e">>,
    <<"d", "i", "1", "e", "l", "e", "e">>,
    <<"l", "3", "1", ":", "x", "x", "e">>,
    <<"d", "4", "0", ":", "i", "1", "e", "e">>,
    <<"d", "6", "3", ":", "i", "1", "e", "e">>,
    <<"l", "4", "0", ":", "e">>}

MCTexts == BoundedSeq(Short, 4) \cup Nested \cup UNION {Prefixes(t) : t \in Long}
==============================================================================
