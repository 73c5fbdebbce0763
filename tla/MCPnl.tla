------------------------------- MODULE MCPnl -------------------------------
(* Small instances of Ledger and Pnl for TLC. *)
EXTENDS Pnl

(* Average costs of mixed positions stay within a few times the prices.     *)
MCAvgCosts == -12..12
=============================================================================
