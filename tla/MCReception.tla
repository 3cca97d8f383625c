------------------------------ MODULE MCReception ------------------------------
(* Reception with small constants; Reception.cfg gives the values. *)
EXTENDS Reception, ControlMessages
=============================================================================
