----------------------------- MODULE MCMp4Recorder -----------------------------
(* Mp4Recorder for TLC. *)
EXTENDS Mp4Recorder
=============================================================================
