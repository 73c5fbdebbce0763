----------------------------- MODULE MCDecision -----------------------------
(* Small instance of Decision for TLC. *)
EXTENDS Decision

MCListed == [t \in {"YES", "NO"} |-> {1, 3}]
=============================================================================
