------------------------------ MODULE Executor ------------------------------
(***************************************************************************)
(* What an executor promises about the orders it returns                   *)
(* (execution/base.py: submit, cancel, reconcile), as the rest of the      *)
(* agent relies on it: the life of an order is one way, its filled size    *)
(* only grows and never beyond the size asked for, and nothing happens to  *)
(* an order any more once it is FILLED, CANCELLED or REJECTED.             *)
(***************************************************************************)
EXTENDS Naturals

CONSTANTS Orders, Size
VARIABLES status, filled

Final  == {"FILLED", "CANCELLED", "REJECTED"}
Status == {"NEW", "LIVE", "PARTIAL"} \cup Final

Init ==
    /\ status = [o \in Orders |-> "NEW"]
    /\ filled = [o \in Orders |-> 0]

(* Order o takes status s with f filled in all. *)
Becomes(o, s, f) ==
    /\ status[o] \notin Final
    /\ f >= filled[o]
    /\ \/ s = "LIVE"      /\ status[o] = "NEW" /\ f = 0
       \/ s = "REJECTED"  /\ status[o] = "NEW" /\ f = 0
       \/ s = "CANCELLED" /\ f = filled[o]
       \/ s = "PARTIAL"   /\ 0 < f /\ f < Size
       \/ s = "FILLED"    /\ f = Size

(* One call may move several orders (reconcile, cancel_all_open_orders).    *)
Next ==
    /\ status' \in [Orders -> Status] /\ filled' \in [Orders -> 0..Size]
    /\ \A o \in Orders :
          \/ status'[o] = status[o] /\ filled'[o] = filled[o]
          \/ Becomes(o, status'[o], filled'[o])

Spec == Init /\ [][Next]_<<status, filled>>
=============================================================================
