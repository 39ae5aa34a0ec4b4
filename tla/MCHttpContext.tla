--------------------------- MODULE MCHttpContext ---------------------------
(* Instances of HttpContext for TLC.                                       *)
EXTENDS HttpContext

Symmetry == Permutations(Http)
=============================================================================
