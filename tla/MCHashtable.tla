----------------------------- MODULE MCHashtable -----------------------------
(* Instances of Hashtable for TLC: keys that collide at one capacity and     *)
(* part at the next, and hashes of both signs.                               *)
EXTENDS Hashtable

Hashes == [k1 |-> 1, k2 |-> -3, k3 |-> 5, k4 |-> 4]
==============================================================================
