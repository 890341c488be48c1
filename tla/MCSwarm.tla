------------------------------- MODULE MCSwarm -------------------------------
(* Instances of Swarm for TLC.  The peer threads are interchangeable, and so *)
(* are the tracker threads.                                                  *)
EXTENDS Swarm, TLC

Symmetry == Permutations(Workers) \cup Permutations(Finders)
==============================================================================
