--------------------------- MODULE MCApplication ---------------------------
(* Instances of Application for TLC.                                       *)
EXTENDS Application

LayerSymmetry == Permutations(Layer)
=============================================================================
