------------------------ MODULE MCSessionController ------------------------
(* SessionController on small instances. *)
EXTENDS SessionController

CONSTANTS c1, none
=============================================================================
