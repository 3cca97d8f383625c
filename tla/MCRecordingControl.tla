--------------------------- MODULE MCRecordingControl ---------------------------
(* RecordingControl for TLC. *)
EXTENDS RecordingControl
=============================================================================
