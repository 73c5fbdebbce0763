---------------------------- MODULE MCPersistence ----------------------------
(* Small instances of Persistence for TLC: orders are called as main.py     *)
(* calls the policy.                                                        *)
EXTENDS Persistence

MCPolicyName == "poly_meridian"
MCLLMNames == {"fundamentals"}
=============================================================================
