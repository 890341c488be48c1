--------------------------------- MODULE List ---------------------------------
(*****************************************************************************)
(* list.c at the level of its pointers, called by several threads: append,   *)
(* prepend, insert, truncate and get.  Each walks and relinks the nodes      *)
(* under the list's mutex, but list_insert and list_get look at the length   *)
(* before they take it.  Iteration is in module Swarm.                       *)
(*****************************************************************************)
EXTENDS Integers, Sequences, FiniteSets

CONSTANTS
    Threads, Vals,
    NoThread,     \* the mutex is free
    NoVal,        \* *data is left alone
    Truncating,   \* threads that call list_truncate
    Starts,       \* what the list may hold when the calls begin
    MaxAdded,     \* bound: elements the calls add
    MaxNodes      \* bound: nodes that are ever allocated

ASSUME ListAssumption ==
    /\ IsFiniteSet(Threads)
    /\ NoThread \notin Threads
    /\ NoVal \notin Vals
    /\ Truncating \subseteq Threads
    /\ Starts \subseteq Seq(Vals) /\ Starts # {}
    /\ MaxAdded \in Nat /\ MaxNodes \in Nat
    /\ \A s \in Starts : Len(s) + MaxAdded <= MaxNodes

VARIABLES
    head, tail, len,    \* the fields of list_t; 0 is the NULL pointer
    next, prev, val,    \* the nodes
    nodes,              \* nodes allocated so far: 1..nodes
    room,               \* elements that calls may still add
    freed,              \* nodes given back to free
    mutex,              \* list->mutex: the thread that holds it, or NoThread
    pc,                 \* the section of the mutex a thread is about to enter
    op,                 \* its arguments, and what happened before it: the
                        \* nodes allocated (born) and those freed (seen)
    res,                \* what the call that returned last has returned
    crashed             \* a null pointer has been followed

links == <<head, tail, len, next, prev, val, nodes, freed>>
vars  == <<links, room, mutex, pc, op, res, crashed>>

Null == 0

NodeIds == 1..MaxNodes

\* list_append and list_prepend have no index.
NoIndex == -1

NoOp == [idx |-> NoIndex, val |-> NoVal, born |-> 0, seen |-> 0]

\* The node that a pointer leads to, and Null beyond the end.
Follow(pointer, node) == IF node = Null THEN Null ELSE pointer[node]

\* The node k steps along the pointers from the first one.
Walk(first, pointer, k) ==
    LET node[i \in 0..k] == IF i = 0 THEN first ELSE Follow(pointer, node[i - 1]) IN node[k]

\* The node k steps from the head, and k steps back from the tail.
Ahead(k) == Walk(head, next, k)

Behind(k) == Walk(tail, prev, k)

-----------------------------------------------------------------------------
(* The calls, up to the lock.  list_append, list_prepend and list_truncate   *)
(* lock at once.                                                             *)

Adding == {"choose", "append", "prepend", "insert"}

\* A call that adds is made only while the bound leaves room for its element.
Reserve == room > 0 /\ room' = room - 1

Enter(t, section, i, v) ==
    /\ pc[t] = "idle"
    /\ pc' = [pc EXCEPT ![t] = section]
    /\ op' = [op EXCEPT ![t] =
                  [idx |-> i, val |-> v, born |-> nodes, seen |-> Cardinality(freed)]]
    /\ UNCHANGED <<links, mutex, res, crashed>>

CallAppend(t, v) == Reserve /\ Enter(t, "append", NoIndex, v)

CallPrepend(t, v) == Reserve /\ Enter(t, "prepend", NoIndex, v)

Refuse(t) ==
    /\ pc[t] = "idle"
    /\ res' = <<FALSE, NoVal>>
    /\ UNCHANGED <<links, room, mutex, pc, op, crashed>>

\* Mutant: one index too many passes.
WithinOneMore(i) == i \in 0..(len + 1)

\* The indices that list_insert takes.
Within(i) == i \in 0..len

CallInsert(t, i, v) ==
    \/ ~Within(i) /\ Refuse(t)
    \/ Within(i) /\ Reserve /\ Enter(t, "choose", i, v)

\* Mutant: the two calls of list_insert are swapped.
Swapped(i) == IF i = len THEN "prepend" ELSE IF i = 0 THEN "append" ELSE "insert"

Section(i) == IF i = len THEN "append" ELSE IF i = 0 THEN "prepend" ELSE "insert"

\* list_insert reads the length a second time to choose among its cases.
Choose(t) ==
    /\ pc[t] = "choose"
    /\ pc' = [pc EXCEPT ![t] = Section(op[t].idx)]
    /\ UNCHANGED <<links, room, mutex, op, res, crashed>>

CallGet(t, i) ==
    \/ i \notin 0..(len - 1) /\ Refuse(t)
    \/ i \in 0..(len - 1) /\ Enter(t, "get", i, NoVal) /\ UNCHANGED room

CallTruncate(t) == Enter(t, "truncate", NoIndex, NoVal) /\ UNCHANGED room

-----------------------------------------------------------------------------
(* The sections of the mutex, each one step.                                 *)

Leave(t, section, r) ==
    /\ mutex = NoThread
    /\ pc[t] = section
    /\ pc' = [pc EXCEPT ![t] = "idle"]
    /\ op' = [op EXCEPT ![t] = NoOp]
    /\ res' = r
    /\ UNCHANGED room

\* The mutex is unlocked again.
Return(t, section, r) == Leave(t, section, r) /\ UNCHANGED mutex

\* create_node: a new node n, its links set by the caller.
Create(t, n) ==
    /\ nodes' = n
    /\ val' = [val EXCEPT ![n] = op[t].val]
    /\ len' = len + 1
    /\ UNCHANGED freed

Done == <<TRUE, NoVal>>

\* Mutant: the second node does not point back to the first.
LinkOneWay(m, n) == next' = [next EXCEPT ![m] = n] /\ UNCHANGED prev

Link(m, n) == next' = [next EXCEPT ![m] = n] /\ prev' = [prev EXCEPT ![n] = m]

DoAppend(t) ==
    LET n == nodes + 1 IN
    /\ Return(t, "append", Done)
    /\ Create(t, n)
    /\ tail' = n
    /\ IF len = 0
       THEN head' = n /\ UNCHANGED <<next, prev>>
       ELSE Link(tail, n) /\ UNCHANGED head
    /\ UNCHANGED crashed

DoPrepend(t) ==
    LET n == nodes + 1 IN
    /\ Return(t, "prepend", Done)
    /\ Create(t, n)
    /\ head' = n
    /\ IF len = 0
       THEN tail' = n /\ UNCHANGED <<next, prev>>
       ELSE Link(n, head) /\ UNCHANGED tail
    /\ UNCHANGED crashed

\* Mutant: one step too many from the tail.
BackFar(i) == len - i

\* The steps from the tail to index i.
Back(i) == len - i - 1

\* The node that list_insert and list_get walk to: from the nearer end, and no
\* step at all from the tail when the index has fallen off the list.
NodeAt(i) ==
    IF i <= len \div 2 THEN Ahead(i)
    ELSE Behind(IF Back(i) > 0 THEN Back(i) ELSE 0)

\* The new node goes before the node found, between it and its predecessor.
InsertBefore(n, node) ==
    /\ next' = [next EXCEPT ![prev[node]] = n, ![n] = node]
    /\ prev' = [prev EXCEPT ![n] = prev[node], ![node] = n]

\* The index leads to no node, or to one that has none before it.
NoNode(t) ==
    LET node == NodeAt(op[t].idx)
    IN  \/ pc[t] \in {"insert", "get"} /\ node = Null
        \/ pc[t] = "insert" /\ node # Null /\ prev[node] = Null

DoInsert(t) ==
    LET n    == nodes + 1
        node == NodeAt(op[t].idx)
    IN  /\ Return(t, "insert", Done)
        /\ Create(t, n)
        /\ ~NoNode(t)
        /\ InsertBefore(n, node)
        /\ UNCHANGED <<head, tail, crashed>>

DoGet(t) ==
    /\ pc[t] = "get" /\ ~NoNode(t)
    /\ Return(t, "get", <<TRUE, val[NodeAt(op[t].idx)]>>)
    /\ UNCHANGED <<links, crashed>>

\* A null pointer is followed.
Crash(t) ==
    /\ mutex = NoThread
    /\ NoNode(t)
    /\ crashed' = TRUE
    /\ UNCHANGED <<links, room, mutex, pc, op, res>>

TooShort == len < 1

\* Mutant: the length goes down by two.
LessTwo == len - 2

Less == len - 1

DoTruncate(t) ==
    /\ Return(t, "truncate", Done)
    /\ ~TooShort
    /\ IF len = 1
       THEN head' = Null /\ tail' = Null /\ UNCHANGED next
       ELSE /\ tail' = prev[tail]
            /\ next' = [next EXCEPT ![prev[tail]] = Null]
            /\ UNCHANGED head
    /\ freed' = freed \cup {tail}
    /\ len' = Less
    /\ UNCHANGED <<prev, val, nodes, crashed>>

\* return false, and the mutex stays locked.
TruncateEmpty(t) ==
    /\ Leave(t, "truncate", <<FALSE, NoVal>>)
    /\ TooShort
    /\ mutex' = t
    /\ UNCHANGED <<links, crashed>>

-----------------------------------------------------------------------------

\* list_new, and as many calls of list_append by one thread.
Init ==
    /\ \E s \in Starts :
           LET n == Len(s) IN
           /\ head = (IF n = 0 THEN Null ELSE 1) /\ tail = n /\ len = n /\ nodes = n
           /\ next = [i \in NodeIds |-> IF i < n THEN i + 1 ELSE Null]
           /\ prev = [i \in NodeIds |-> IF i \in 2..n THEN i - 1 ELSE Null]
           /\ val = [i \in NodeIds |-> IF i <= n THEN s[i] ELSE NoVal]
    /\ freed = {}
    /\ room = MaxAdded
    /\ mutex = NoThread
    /\ pc = [t \in Threads |-> "idle"]
    /\ op = [t \in Threads |-> NoOp]
    /\ res = Done
    /\ crashed = FALSE

Call(t) ==
    \/ \E v \in Vals : CallAppend(t, v) \/ CallPrepend(t, v)
    \/ \E v \in Vals, i \in -1..(len + 1) : CallInsert(t, i, v)
    \/ \E i \in -1..len : CallGet(t, i)
    \/ t \in Truncating /\ CallTruncate(t)

\* The call under way goes on.
Proceed(t) ==
    \/ Choose(t)
    \/ DoAppend(t) \/ DoPrepend(t) \/ DoInsert(t) \/ DoGet(t) \/ Crash(t)
    \/ DoTruncate(t) \/ TruncateEmpty(t)

Next == ~crashed /\ \E t \in Threads : Call(t) \/ Proceed(t)

Spec == Init /\ [][Next]_vars

-----------------------------------------------------------------------------
(* Properties.                                                               *)

TypeOK ==
    /\ {head, tail} \subseteq 0..MaxNodes
    /\ len \in 0..MaxNodes /\ nodes \in 0..MaxNodes
    /\ next \in [NodeIds -> 0..MaxNodes] /\ prev \in [NodeIds -> 0..MaxNodes]
    /\ val \in [NodeIds -> Vals \cup {NoVal}]
    /\ freed \subseteq NodeIds
    /\ room \in 0..MaxAdded
    /\ mutex \in Threads \cup {NoThread}
    /\ pc \in [Threads -> {"idle", "choose", "append", "prepend", "insert", "get", "truncate"}]
    /\ op \in [Threads -> [idx : Int, val : Vals \cup {NoVal}, born : Nat, seen : Nat]]
    /\ res \in BOOLEAN \X (Vals \cup {NoVal})
    /\ crashed \in BOOLEAN

\* The nodes are a doubly linked list (list.c:35-141): len steps forward from
\* head and len steps back from tail meet the same nodes, none of them freed,
\* and both ends are closed.  No interleaving of the calls tears it.
Linked ==
    IF len = 0 THEN head = Null /\ tail = Null
    ELSE /\ \A i \in 0..(len - 1) :
                Ahead(i) = Behind(len - 1 - i) /\ Ahead(i) \in (1..nodes) \ freed
         /\ prev[head] = Null /\ next[tail] = Null

\* The elements, in order.
Contents == [i \in 1..len |-> val[Ahead(i - 1)]]

NoCall == [kind |-> "none", idx |-> NoIndex, val |-> NoVal, raced |-> FALSE]

\* What the caller of t has asked for; raced once another call has added or
\* removed an element meanwhile.
Asked(t) ==
    [kind  |-> IF op[t].idx # NoIndex THEN "insert" ELSE pc[t],
     idx   |-> op[t].idx,
     val   |-> op[t].val,
     raced |-> nodes > op[t].born \/ Cardinality(freed) > op[t].seen]

SS == INSTANCE SeqSpec WITH
          contents <- Contents,
          call     <- [t \in Threads |-> IF pc[t] \in {"idle", "get"} THEN NoCall ELSE Asked(t)]

\* Each call changes the sequence once and as list.h:33-43 says: append adds the
\* value it was given at the end, prepend at the start, insert at its index and
\* truncate takes the last element, whatever pointers they follow (list.c:35-141).
\* list.h makes no exception, and the code needs one: an insert during which
\* another call took effect may miss its index, by the stale length of list.c:85,
\* and then it is at the end or before the last.  No other call misses its place.
IsSequence == SS!Spec

\* A null pointer is followed only by a call during which another thread has
\* truncated the list (list.c:82, 85, 144 read the length without the mutex):
\* calls that only add may race as they like.
CrashNeedsTruncate == \A t \in Threads : NoNode(t) => Cardinality(freed) > op[t].seen

\* list_get hands out the element at its index, whichever end it walks from
\* (list.c:149-162), unless the list has shrunk to the index meanwhile.
GetsElement ==
    [][\A t \in Threads :
           pc[t] = "get" /\ pc'[t] = "idle" /\ op[t].idx < len =>
               res' = <<TRUE, Contents[op[t].idx + 1]>>]_vars
==============================================================================
