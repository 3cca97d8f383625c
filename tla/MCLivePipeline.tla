---------------------------- MODULE MCLivePipeline ----------------------------
(* LivePipeline, and the bytes its units come from, with small constants;     *)
(* LiveDecode.cfg gives the values.                                           *)
EXTENDS LivePipeline, MediaBytes
=============================================================================
