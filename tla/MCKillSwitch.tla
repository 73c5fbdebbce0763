---------------------------- MODULE MCKillSwitch ----------------------------
(* A small instance of KillSwitch for TLC. *)
EXTENDS KillSwitch
=============================================================================
