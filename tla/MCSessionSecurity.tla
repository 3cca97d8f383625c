------------------------- MODULE MCSessionSecurity -------------------------
(* SessionSecurity on small instances. *)
EXTENDS SessionSecurity, TLC

CONSTANTS s1, s2

Symmetry == Permutations(Sources)
=============================================================================
