----------------------------- MODULE MCRiskGate -----------------------------
(* Small instances of RiskGate for TLC: c1, c2 belong to one event, c1, c3  *)
(* to one category, c4 to none; both sides of c1 are traded.                *)
EXTENDS RiskGate, TLC

CONSTANTS c1, c2, c3, c4
MCConditions == {c1, c2, c3, c4}
MCTokens == {<<c1, "no">>} \cup (MCConditions \X {"yes"})
MCEventOf == (c1 :> "event") @@ (c2 :> "event") @@ (c3 :> None) @@ (c4 :> None)
MCCategoryOf ==
    (c1 :> "politics") @@ (c2 :> None) @@ (c3 :> "politics") @@ (c4 :> None)
=============================================================================
