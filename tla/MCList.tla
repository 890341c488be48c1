-------------------------------- MODULE MCList --------------------------------
(* Instances of List for TLC.  The list is empty at first, or long enough    *)
(* for the walk from the tail to take a step once an element is added.       *)
EXTENDS List, TLC

CONSTANTS a, b

Lists == {<<>>, <<a, b, a, b>>}

Symmetry == Permutations(Threads)
==============================================================================
