------------------------- MODULE MCConnectionTable -------------------------
(* Instances of ConnectionTable for TLC.                                   *)
EXTENDS ConnectionTable

Symmetry == Permutations(Pointer) \cup Permutations(Descriptor)
=============================================================================
