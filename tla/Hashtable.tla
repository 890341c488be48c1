------------------------------- MODULE Hashtable -------------------------------
(*****************************************************************************)
(* hashtable.c: an array of chains that doubles when size reaches three      *)
(* quarters of it.  Every operation but the iteration runs under the table's *)
(* mutex, and so is one step.  size is counted by call, not by entry: a put  *)
(* that overwrites adds one, a remove that finds nothing takes one off.      *)
(*****************************************************************************)
EXTENDS Integers, Sequences, SequencesExt

CONSTANTS
    Keys, Vals,
    NoVal,      \* *dst is left alone
    Hash,       \* ht->hash_func, converted to a signed int
    InitCap,    \* INIT_CAP
    MaxCap,     \* bound: capacity
    MaxDrift    \* bound: difference of size from the number of entries

ASSUME HashtableAssumption ==
    /\ Hash \in [Keys -> Int]
    /\ InitCap \in Nat \ {0}
    /\ MaxCap \in Nat /\ MaxDrift \in Nat /\ InitCap <= MaxCap

VARIABLES
    table,      \* ht->table: the chain of each index, from its first entry on
    cap,        \* ht->cap
    size,       \* ht->size
    res,        \* result of the last operation
    iter,       \* an iterator: its index and the chain from iter->next on
    visited     \* entries the iterator has yielded (history)

vars == <<table, cap, size, res, iter, visited>>

Entry == [key : Keys, val : Vals]

\* All the entries, index by index: the order of grow_table and of iteration.
Entries == FlattenSeq([i \in 1..cap |-> table[i - 1]])

\* hash % tablesize, truncated towards zero, and its sign dropped.
HashFunction(h, n) == (IF h < 0 THEN -h ELSE h) % n

Index(k, n) == HashFunction(Hash[k], n)

\* Position of the entry of key k in a chain, 0 if there is none.
Find(chain, k) == SelectInSeq(chain, LAMBDA e : e.key = k)

\* Nobody goes on with an iteration over a table that he has changed.
NoIter == [index |-> MaxCap + 1, rest |-> <<>>]

-----------------------------------------------------------------------------

Get(k) ==
    LET chain == table[Index(k, cap)]
        i     == Find(chain, k)
    IN  /\ res' = IF i # 0 THEN <<1, chain[i].val>> ELSE <<0, NoVal>>
        /\ UNCHANGED <<table, cap, size, iter, visited>>

\* Mutant: the entry is hashed with the old capacity.
HtInsertOldCap(t, e, n) == [t EXCEPT ![Index(e.key, cap)] = Append(@, e)]

\* An entry goes to the end of its chain in a table of n chains.
HtInsert(t, e, n) == [t EXCEPT ![Index(e.key, n)] = Append(@, e)]

\* Every entry moves, in order, to the new table.
GrowTable(n) ==
    LET moved[m \in 0..Len(Entries)] ==
            IF m = 0 THEN [j \in 0..(n - 1) |-> <<>>]
            ELSE HtInsert(moved[m - 1], Entries[m], n)
    IN  moved[Len(Entries)]

Full == 4 * size >= 3 * cap

Put(k, v) ==
    LET n     == IF Full THEN 2 * cap ELSE cap
        t     == IF Full THEN GrowTable(n) ELSE table
        chain == t[Index(k, n)]
        i     == Find(chain, k)
        e     == [key |-> k, val |-> v]
    IN  /\ n <= MaxCap
        /\ size - Len(Entries) < MaxDrift \/ i = 0
        /\ cap' = n
        /\ size' = size + 1
        /\ table' = [t EXCEPT ![Index(k, n)] =
               IF i = 0 THEN Append(chain, e) ELSE ReplaceAt(chain, i, e)]
        /\ res' = <<IF i = 0 THEN 0 ELSE 1, NoVal>>
        /\ iter' = NoIter /\ visited' = <<>>

\* Mutant: the first entry of the chain is unlinked, not the one found.
UnlinkFirst(chain, i) == Tail(chain)

Unlink(chain, i) == RemoveAt(chain, i)

\* hashtable_remove.
Delete(k) ==
    LET chain == table[Index(k, cap)]
        i     == Find(chain, k)
    IN  /\ Len(Entries) - size < MaxDrift \/ i # 0
        /\ size' = size - 1
        /\ IF i = 0
           THEN /\ res' = <<0, NoVal>>
                /\ UNCHANGED table
           ELSE /\ res' = <<1, chain[i].val>>
                /\ table' = [table EXCEPT ![Index(k, cap)] = Unlink(chain, i)]
        /\ iter' = NoIter /\ visited' = <<>>
        /\ UNCHANGED cap

-----------------------------------------------------------------------------
(* hashtable_iterator and hashtable_iter_next.  index is where the search    *)
(* for the next chain goes on.                                               *)

\* Mutant: the index is left at the chain that was found.
FoundStays(j) == [index |-> j, rest |-> table[j]]

Found(j) == [index |-> j + 1, rest |-> table[j]]

\* The first chain at or after index i that is not empty, and the index past it.
SearchFrom(i) ==
    LET S == {j \in i..(cap - 1) : table[j] # <<>>}
    IN  IF S = {} THEN [index |-> cap, rest |-> <<>>]
        ELSE Found(CHOOSE j \in S : \A l \in S : j <= l)

Iterator ==
    /\ iter' = SearchFrom(0)
    /\ visited' = <<>>
    /\ UNCHANGED <<table, cap, size, res>>

IterNext ==
    /\ iter.rest # <<>>
    /\ visited' = Append(visited, Head(iter.rest))
    /\ iter' = IF Tail(iter.rest) # <<>> THEN [iter EXCEPT !.rest = Tail(@)]
               ELSE SearchFrom(iter.index)
    /\ UNCHANGED <<table, cap, size, res>>

-----------------------------------------------------------------------------

Init ==
    /\ table = [i \in 0..(InitCap - 1) |-> <<>>]
    /\ cap = InitCap
    /\ size = 0
    /\ res = <<0, NoVal>>
    /\ iter = NoIter /\ visited = <<>>

Next ==
    \/ \E k \in Keys : Get(k) \/ Delete(k) \/ \E v \in Vals : Put(k, v)
    \/ Iterator \/ IterNext

Spec == Init /\ [][Next]_vars

-----------------------------------------------------------------------------
(* Properties.                                                               *)

\* A lookup can find every entry, and finds the only one of its key: growing
\* (hashtable.c:125-142) rehashes every entry, whatever the sign of its hash.
WellPlaced ==
    \A i \in 0..(cap - 1) :
        \A x \in DOMAIN table[i] :
            /\ Index(table[i][x].key, cap) = i
            /\ \A y \in DOMAIN table[i] : table[i][x].key = table[i][y].key => x = y

\* The map that the table stands for.
Mapping ==
    LET E == ToSet(Entries)
    IN  [k \in {e.key : e \in E} |-> (CHOOSE e \in E : e.key = k).val]

Dict == INSTANCE Dictionary WITH dict <- Mapping

\* The table behaves as the dictionary that hashtable.h describes, through
\* growth, collisions and a size that has drifted: same answers, same contents.
IsDictionary == Dict!Spec

\* An iteration yields the entries in order, none twice, and ends when it has
\* yielded them all (hashtable.c:246-280).
IterComplete ==
    iter.index <= cap =>
        IsPrefix(visited, Entries) /\ (iter.rest = <<>> => visited = Entries)
==============================================================================
