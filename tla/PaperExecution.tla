--------------------------- MODULE PaperExecution ---------------------------
(***************************************************************************)
(* PaperExecutor (execution/paper_executor.py) as the pipeline task, the   *)
(* exit monitor and the kill switch use it, and OrderRouter.route on top   *)
(* of it.  No call suspends while it holds the executor's lock, so each    *)
(* call is one step; route() of a pair is a step per leg and one more when *)
(* both are back.                                                          *)
(*                                                                         *)
(* Prices are levels counted from the best one for the order: level 1 is   *)
(* the lowest ask for a BUY, the highest bid for a SELL, and a higher      *)
(* level is a worse price.  The books change with the market feed alone (a *)
(* simulated fill takes nothing off them), so a step meets any book.       *)
(***************************************************************************)
EXTENDS Naturals

CONSTANTS
    Orders,
    Legs,        \* the two legs of an arbitrage pair, or {}
    Type,        \* OrderType of each order
    Limit,       \* level of each order's limit price
    Size,        \* size of every order
    Levels,      \* number of price levels
    MaxDepth     \* bound: most shares on a side of a book

ASSUME PaperAssumption ==
    /\ Legs \subseteq Orders /\ \A o \in Legs : \E p \in Legs : p # o
    /\ Type \in [Orders -> {"GTC", "FOK", "FAK"}]
    /\ Levels \in Nat \ {0} /\ Limit \in [Orders -> 1..Levels]
    /\ Size \in Nat \ {0} /\ MaxDepth \in Nat

VARIABLES
    status,      \* Order.status ("NEW": not submitted yet)
    filled,      \* Order.filled_size
    resting,     \* keys of _resting
    remaining,   \* _ResingOrder.remaining
    aged,        \* resting orders older than maker_timeout_sec
    route        \* the pair's route(): "posting", or what it ended in

vars == <<status, filled, resting, remaining, aged, route>>

OpenStatus     == {"LIVE", "PARTIAL"}
TerminalStatus == {"FILLED", "CANCELLED", "REJECTED"}

TypeOK ==
    /\ status \in [Orders -> {"NEW"} \cup OpenStatus \cup TerminalStatus]
    /\ filled \in [Orders -> 0..Size]
    /\ resting \subseteq Orders
    /\ remaining \in [Orders -> 0..Size]
    /\ aged \subseteq resting
    /\ route \in {"posting", "both", "unwound"}

Init ==
    /\ status = [o \in Orders |-> "NEW"]
    /\ filled = [o \in Orders |-> 0]
    /\ resting = {}
    /\ remaining = [o \in Orders |-> 0]
    /\ aged = {}
    /\ route = "posting"

-----------------------------------------------------------------------------
(* The side of a book an order trades against: book[l] is the number of     *)
(* shares at level l or better.                                             *)
Books == {book \in [0..Levels -> 0..MaxDepth] :
            book[0] = 0 /\ \A l, m \in 0..Levels : l <= m => book[l] <= book[m]}

Minimum(a, b) == IF a < b THEN a ELSE b

(* walk_book_for_fill: n shares are taken from the best level on.           *)
WalkFilled(book, n) == Minimum(n, book[Levels])

(* The limit price is at or beyond the best level.                          *)
CanCross(o, book) == book[Limit[o]] > 0

FillStatusLate(f) == IF f > Size THEN "FILLED" ELSE "PARTIAL"  \* mutant: off by one

(* _apply_fill: the status of an order of which f are filled in all.        *)
FillStatus(f) == IF f >= Size THEN "FILLED" ELSE "PARTIAL"

(* Order o is filled with what a walk for n shares finds.                   *)
ApplyFill(o, book, n) ==
    LET f == filled[o] + WalkFilled(book, n)
    IN  /\ filled' = [filled EXCEPT ![o] = f]
        /\ status' = [status EXCEPT ![o] = FillStatus(f)]

-----------------------------------------------------------------------------
(* submit() *)

(* A GTC order that crosses is filled at once, and the rest of it rests.    *)
PostMaker(o, book) ==
    \/ /\ CanCross(o, book) /\ ApplyFill(o, book, Size)
       /\ remaining' = [remaining EXCEPT ![o] = Size - WalkFilled(book, Size)]
       /\ resting' = IF remaining'[o] > 0 THEN resting \cup {o} ELSE resting
    \/ /\ ~CanCross(o, book)
       /\ status' = [status EXCEPT ![o] = "LIVE"]
       /\ remaining' = [remaining EXCEPT ![o] = Size]
       /\ resting' = resting \cup {o}
       /\ UNCHANGED filled

(* A FOK order is filled whole or not at all, a FAK order as far as the     *)
(* book goes: neither ever rests.                                           *)
FillTaker(o, book) ==
    /\ \/ /\ WalkFilled(book, Size) = 0
          /\ status' = [status EXCEPT ![o] = "REJECTED"]
          /\ UNCHANGED filled
       \/ /\ WalkFilled(book, Size) \in 1..(Size - 1) /\ Type[o] = "FOK"
          /\ status' = [status EXCEPT ![o] = "CANCELLED"]
          /\ UNCHANGED filled
       \/ /\ WalkFilled(book, Size) > 0
          /\ Type[o] = "FAK" \/ WalkFilled(book, Size) = Size
          /\ ApplyFill(o, book, Size)
    /\ UNCHANGED <<remaining, resting>>

(* No book is attached for the token, or a maker order has no price.        *)
Reject(o) ==
    /\ status' = [status EXCEPT ![o] = "REJECTED"]
    /\ UNCHANGED <<filled, remaining, resting>>

Submit(o) ==
    /\ status[o] = "NEW"
    /\ \/ \E book \in Books :
             IF Type[o] = "GTC" THEN PostMaker(o, book) ELSE FillTaker(o, book)
       \/ Reject(o)
    /\ UNCHANGED <<aged, route>>

-----------------------------------------------------------------------------
(* mutant: the orders are marked and stay on _resting.                      *)
CancelMarksOnly(S) ==
    /\ status' = [o \in Orders |->
          IF o \in S /\ status[o] \in OpenStatus THEN "CANCELLED" ELSE status[o]]
    /\ UNCHANGED <<resting, aged>>

(* cancel() and cancel_all_open_orders() mark every open order among S and  *)
(* take it off _resting.                                                    *)
CancelThese(S) ==
    LET open == {o \in S : status[o] \in OpenStatus}
    IN  /\ status' = [o \in Orders |-> IF o \in open THEN "CANCELLED" ELSE status[o]]
        /\ resting' = resting \ open /\ aged' = aged \ open

CancelAll == CancelThese(Orders) /\ UNCHANGED <<filled, remaining, route>>

(* route() has both legs back: if exactly one is rejected or cancelled by   *)
(* now, the other one is cancelled.                                         *)
LegFailed(o) == status[o] \in {"REJECTED", "CANCELLED"}
ToUnwindSwapped == {o \in Legs : LegFailed(o)}  \* mutant: the wrong leg
ToUnwind == IF \E o \in Legs : LegFailed(o) THEN {o \in Legs : ~LegFailed(o)} ELSE {}

RouteReturn ==
    /\ route = "posting" /\ Legs # {}
    /\ \A o \in Legs : status[o] # "NEW"
    /\ CancelThese(ToUnwind)
    /\ route' = IF \E o \in Legs : LegFailed(o) THEN "unwound" ELSE "both"
    /\ UNCHANGED <<filled, remaining>>

-----------------------------------------------------------------------------
(* reconcile(): an aged order is cancelled; another is filled if it crosses.*)
ExpiredNever(o) == FALSE  \* mutant: no maker timeout
Expired(o) == o \in aged
Crossing(o, book) == o \in resting /\ ~Expired(o) /\ CanCross(o, book)

Reconcile ==
    \E book \in [resting -> Books] :
        LET cross == {o \in resting : Crossing(o, book[o])}
            f == [o \in cross |-> filled[o] + WalkFilled(book[o], remaining[o])]
        IN  /\ status' = [o \in Orders |->
                  IF o \in cross THEN FillStatus(f[o])
                  ELSE IF o \in resting /\ Expired(o) THEN "CANCELLED" ELSE status[o]]
            /\ filled' = [o \in Orders |-> IF o \in cross THEN f[o] ELSE filled[o]]
            /\ remaining' = [o \in Orders |->
                  remaining[o] - IF o \in cross THEN WalkFilled(book[o], remaining[o]) ELSE 0]
            /\ resting' = {o \in resting : ~Expired(o) /\ remaining'[o] > 0}
            /\ aged' = aged \cap resting'
            /\ UNCHANGED route

(* maker_timeout_sec pass since the order was posted.                       *)
Age(o) ==
    /\ o \in resting /\ aged' = aged \cup {o}
    /\ UNCHANGED <<status, filled, resting, remaining, route>>

Next ==
    \/ \E o \in Orders : Submit(o) \/ Age(o)
    \/ RouteReturn \/ CancelAll \/ Reconcile

Spec == Init /\ [][Next]_vars

(* Time passes, and the pipeline loop reconciles after every pass over the  *)
(* markets.  A pass need not find a price that crosses, so fairness obliges *)
(* only a pass that meets an expired order to have an effect; nothing has   *)
(* to be submitted or swept.                                                *)
Timeout  == Reconcile /\ \E o \in resting : Expired(o)
FairSpec == Spec /\ WF_vars(Timeout) /\ \A o \in Orders : WF_vars(Age(o))

-----------------------------------------------------------------------------
(* Properties. *)

(* _resting holds exactly the open maker orders, each with what is left of  *)
(* it to fill: submit, cancel, the sweep, the router and reconcile() write  *)
(* the order and its entry one after the other.                             *)
RestingIsOpen ==
    \A o \in Orders :
        /\ o \in resting <=> Type[o] = "GTC" /\ status[o] \in OpenStatus
        /\ o \in resting => remaining[o] = Size - filled[o] /\ remaining[o] > 0

(* The paper executor keeps the contract: in particular a cancelled or      *)
(* expired order is never filled again, and no order is filled beyond its   *)
(* size.                                                                    *)
Contract == INSTANCE Executor WITH status <- status, filled <- filled
KeepsContract == Contract!Spec

(* A pair of which one leg failed is unwound: nothing of it stays open.     *)
PairIsUnwound ==
    route = "unwound" => \A o \in Legs : status[o] \in TerminalStatus

(* A maker order does not rest for ever, even if its price is never met.    *)
MakersEnd == \A o \in Orders : o \in resting ~> o \notin resting
=============================================================================
