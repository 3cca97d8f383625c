------------------------------ MODULE MCFrameSink ------------------------------
(* FrameSink with small constants; RingSink.cfg gives the values. *)
EXTENDS FrameSink
=============================================================================
