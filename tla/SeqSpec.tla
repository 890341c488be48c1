------------------------------- MODULE SeqSpec -------------------------------
(* What list.h promises of the contents of a list: each call changes the     *)
(* sequence once, with the value and at the place that it was asked for.     *)
(* The one exception is an insert that another call has overtaken.           *)
EXTENDS Integers, Sequences, SequencesExt

CONSTANTS Threads, Vals, Starts, NoIndex, NoVal, NoCall

VARIABLES
    contents,   \* the elements, in order
    call        \* the call a thread is in: kind, index, value, and whether
                \* another call has taken effect meanwhile

Request(kind, i, v) == [kind |-> kind, idx |-> i, val |-> v, raced |-> FALSE]

Requests ==
    {Request(kind, NoIndex, v) : kind \in {"append", "prepend"}, v \in Vals}
        \cup {Request("insert", i, v) : i \in 0..Len(contents), v \in Vals}
        \cup {Request("truncate", NoIndex, NoVal)}

Begin(t) ==
    /\ call[t] = NoCall
    /\ call'[t] \in Requests
    /\ call' = [call EXCEPT ![t] = call'[t]]
    /\ UNCHANGED contents

\* The call of t takes effect, and the others find the sequence changed.
Effect(t) ==
    call' = [u \in Threads |->
                 IF u = t \/ call[u] = NoCall THEN NoCall ELSE [call[u] EXCEPT !.raced = TRUE]]

\* The places for the element of a call: the end, the start, or its index and,
\* if the insert has been overtaken, also the end and before the last element.
Places(c) ==
    LET n == Len(contents) IN
    CASE c.kind = "append"  -> {n + 1}
      [] c.kind = "prepend" -> {1}
      [] c.kind = "insert"  -> {c.idx + 1} \cup (IF c.raced THEN {n, n + 1} ELSE {})
      [] OTHER              -> {}

Add(t) ==
    /\ call[t] # NoCall
    /\ Effect(t)
    /\ \E i \in Places(call[t]) \cap 1..(Len(contents) + 1) :
           contents' = InsertAt(contents, i, call[t].val)

Truncate(t) ==
    /\ call[t].kind = "truncate"
    /\ contents # <<>>
    /\ Effect(t)
    /\ contents' = Front(contents)

\* There is nothing to remove.
ReturnFalse(t) ==
    /\ call[t].kind = "truncate"
    /\ contents = <<>>
    /\ call' = [call EXCEPT ![t] = NoCall]
    /\ UNCHANGED contents

Init == contents \in Starts /\ call = [t \in Threads |-> NoCall]

Next ==
    \E t \in Threads :
        Begin(t) \/ Add(t) \/ Truncate(t) \/ ReturnFalse(t)

Spec == Init /\ [][Next]_<<contents, call>>
==============================================================================
