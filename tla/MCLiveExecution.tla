-------------------------- MODULE MCLiveExecution --------------------------
(* Small instances of LiveExecution for TLC. *)
EXTENDS LiveExecution
=============================================================================
