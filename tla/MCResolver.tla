----------------------------- MODULE MCResolver -----------------------------
(* A small instance of Resolver for TLC. *)
EXTENDS Resolver
=============================================================================
