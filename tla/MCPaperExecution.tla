-------------------------- MODULE MCPaperExecution --------------------------
(* Small instances of PaperExecution for TLC. *)
EXTENDS PaperExecution

CONSTANTS yes, no, exit, fok

(* The pipeline's orders are GTC, the exit monitor's are FAK.               *)
MCOrders == {yes, no, exit, fok}
MCType   == [o \in MCOrders |->
               CASE o = exit -> "FAK" [] o = fok -> "FOK" [] OTHER -> "GTC"]
MCLimit  == [o \in MCOrders |-> IF o = yes THEN 1 ELSE 2]
=============================================================================
