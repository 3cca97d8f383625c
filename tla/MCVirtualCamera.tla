--------------------------- MODULE MCVirtualCamera ---------------------------
(* VirtualCamera with small constants; VirtualCamera.cfg gives the values. *)
EXTENDS VirtualCamera
=============================================================================
