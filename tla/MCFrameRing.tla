----------------------------- MODULE MCFrameRing -----------------------------
(* FrameRing on small instances.  Cameras are interchangeable, and so are    *)
(* producers.                                                                *)
EXTENDS FrameRing, TLC

CONSTANTS c1, c2, v1, p1, p2, none

Symmetry == Permutations(Cameras) \cup Permutations(Producers)
=============================================================================
