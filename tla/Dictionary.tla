------------------------------ MODULE Dictionary ------------------------------
(* What hashtable.h promises of get, put and remove: a finite map from keys  *)
(* to values, each operation with the result its comment gives.              *)

CONSTANTS Keys, Vals, NoVal

VARIABLES
    dict,   \* the map
    res     \* result of the last operation: the number returned, and *dst

Get(k) ==
    /\ res' = IF k \in DOMAIN dict THEN <<1, dict[k]>> ELSE <<0, NoVal>>
    /\ UNCHANGED dict

Put(k, v) ==
    /\ res' = <<IF k \in DOMAIN dict THEN 1 ELSE 0, NoVal>>
    /\ dict' = [j \in DOMAIN dict \cup {k} |-> IF j = k THEN v ELSE dict[j]]

Remove(k) ==
    /\ res' = IF k \in DOMAIN dict THEN <<1, dict[k]>> ELSE <<0, NoVal>>
    /\ dict' = [j \in DOMAIN dict \ {k} |-> dict[j]]

Init == dict = [k \in {} |-> NoVal] /\ res = <<0, NoVal>>

Next == \E k \in Keys : Get(k) \/ Remove(k) \/ \E v \in Vals : Put(k, v)

Spec == Init /\ [][Next]_<<dict, res>>
==============================================================================
