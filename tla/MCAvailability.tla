---------------------------- MODULE MCAvailability ----------------------------
(* Instances of Availability for TLC.  The writers are interchangeable.  Two *)
(* bits to a byte are enough for two HAVEs to meet in one byte.              *)
EXTENDS Availability, TLC

Bitfield(size, bits) == [size |-> size, bits |-> bits]

\* No byte, one byte and two, with some bits of each.
MCBitfields == {Bitfield(0, {}), Bitfield(1, {}), Bitfield(2, {1, 2})}

Symmetry == Permutations(Writers)
==============================================================================
