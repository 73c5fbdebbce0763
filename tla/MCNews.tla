------------------------------- MODULE MCNews -------------------------------
(* Small instance of News for TLC. *)
EXTENDS News

CONSTANTS a, b, m

MCAbout == a :> {m} @@ b :> {m}
MCScores == {[direction |-> "NO", impact |-> 2, sentiment |-> -1]}
MCWords == a :> [good |-> 1, bad |-> 0] @@ b :> [good |-> 0, bad |-> 0]
=============================================================================
