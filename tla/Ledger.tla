------------------------------- MODULE Ledger -------------------------------
(***************************************************************************)
(* The books of the agent: Ledger.apply_fill and Ledger.mark               *)
(* (portfolio/ledger.py) with the figures pnl.py derives from them.  Every *)
(* fill of either executor goes through apply_fill, one at a time.         *)
(*                                                                         *)
(* Money is counted in units of 0.0001, the unit avg_cost is rounded to;   *)
(* quantities are whole shares.  The share of the buy fees a sale takes is *)
(* a Decimal quotient, precise to 28 digits, in the code, and is rounded   *)
(* down to the unit here.  A position may go short: no caller of           *)
(* apply_fill compares the quantity sold with the quantity held.           *)
(***************************************************************************)
EXTENDS Integers, FiniteSets

CONSTANTS
    Tokens,      \* outcome tokens traded
    Prices,      \* fill prices and mid prices
    Sizes,       \* quantities one fill may have
    Fees,        \* fees one fill may cost
    AvgCosts,    \* bound: average costs tracked
    MaxFills,    \* bound: fills applied
    StartingCash

ASSUME TokensAssumption == IsFiniteSet(Tokens)
ASSUME MoneyAssumption ==
    /\ Prices \subseteq Nat /\ Sizes \subseteq Nat \ {0} /\ Fees \subseteq Nat
    /\ AvgCosts \subseteq Int /\ 0 \in AvgCosts
    /\ MaxFills \in Nat /\ StartingCash \in Int

VARIABLES
    cash,        \* Ledger._cash
    qty,         \* PositionState.qty, per token (0: never held, or closed)
    avg,         \* PositionState.avg_cost
    realized,    \* PositionState.realized_pnl
    fees,        \* PositionState.fees_paid
    mark,        \* PositionState.last_mark
    (* Observations: what the books are compared with. *)
    flow,        \* sum of the notionals of the token's ledger entries
    slack,       \* twice the most that the roundings of avg_cost amount to
    sound,       \* the token was never oversold with fees pending, and never
                 \* bought back from short to exactly zero
    paid,        \* prices paid for the position since it was opened, if long
    fills        \* fills applied

position == <<qty, avg, realized, fees, mark>>
observed == <<flow, slack, sound, paid, fills>>
vars == <<cash, position, observed>>

Abs(n) == IF n < 0 THEN -n ELSE n
Maximum(a, b) == IF a < b THEN b ELSE a

TypeOK ==
    /\ cash \in Int
    /\ qty \in [Tokens -> Int] /\ avg \in [Tokens -> AvgCosts]
    /\ realized \in [Tokens -> Int] /\ fees \in [Tokens -> Nat]
    /\ mark \in [Tokens -> Nat]
    /\ flow \in [Tokens -> Int] /\ slack \in [Tokens -> Nat]
    /\ sound \in [Tokens -> BOOLEAN] /\ paid \in [Tokens -> SUBSET Prices]
    /\ fills \in 0..MaxFills

Init ==
    /\ cash = StartingCash
    /\ qty = [t \in Tokens |-> 0] /\ avg = [t \in Tokens |-> 0]
    /\ realized = [t \in Tokens |-> 0] /\ fees = [t \in Tokens |-> 0]
    /\ mark = [t \in Tokens |-> 0]
    /\ flow = [t \in Tokens |-> 0] /\ slack = [t \in Tokens |-> 0]
    /\ sound = [t \in Tokens |-> TRUE] /\ paid = [t \in Tokens |-> {}]
    /\ fills = 0

-----------------------------------------------------------------------------
(* a is n / d rounded to the unit, ties to even (Decimal.quantize).         *)
IsQuotient(a, n, d) ==
    /\ 2 * Abs(d * a - n) <= Abs(d)
    /\ 2 * Abs(d * a - n) = Abs(d) => a % 2 = 0

(* What every fill does, whatever its side: notional is the cash it brings. *)
Book(t, notional, price) ==
    /\ fills < MaxFills /\ fills' = fills + 1
    /\ cash' = cash + notional
    /\ flow' = [flow EXCEPT ![t] = @ + notional]
    /\ mark' = [mark EXCEPT ![t] = price]

(* mutant: the new price is weighted with the old quantity.                *)
BlendedCrosswise(a, old, q, p) == q * a + old * p

(* The total cost of old shares at cost a and q more at price p.            *)
Blended(a, old, q, p) == old * a + q * p

(* A BUY blends the average cost and pools its fee with those of the other  *)
(* purchases.                                                               *)
Buy(t, q, price, fee) ==
    LET held == qty[t] + q
    IN  /\ Book(t, -(q * price) - fee, price)
        /\ IF held # 0
             THEN \E a \in AvgCosts :
                    /\ IsQuotient(a, Blended(avg[t], qty[t], q, price), held)
                    /\ avg' = [avg EXCEPT ![t] = a]
             ELSE avg' = avg
        /\ qty' = [qty EXCEPT ![t] = held]
        /\ fees' = [fees EXCEPT ![t] = @ + fee]
        /\ slack' = [slack EXCEPT ![t] = @ + Abs(held)]
        /\ sound' = [sound EXCEPT ![t] = @ /\ held # 0]
        /\ paid' = [paid EXCEPT ![t] =
                      IF qty[t] = 0 THEN {price}
                      ELSE IF @ = {} THEN {} ELSE @ \cup {price}]
        /\ UNCHANGED realized

FeeShareIgnored(t, q) == 0  \* mutant: the gain is gross of the buy fees

(* The part of the pooled fees that goes with q of the shares held.         *)
FeeShare(t, q) == IF qty[t] > 0 THEN (fees[t] * q) \div qty[t] ELSE 0

(* What a sale leaves of the pooled fees.                                   *)
Left(pool, share) == Maximum(0, pool - share)

(* A SELL realizes the gain over the average cost, net of its own fee and   *)
(* of its share of the pool; the pool does not go below zero.               *)
Sell(t, q, price, fee) ==
    LET share == FeeShare(t, q)
    IN  /\ Book(t, q * price - fee, price)
        /\ realized' = [realized EXCEPT ![t] = @ + (price - avg[t]) * q - share - fee]
        /\ fees' = [fees EXCEPT ![t] = Left(@, share)]
        /\ qty' = [qty EXCEPT ![t] = @ - q]
        /\ sound' = [sound EXCEPT ![t] = @ /\ (0 < qty[t] /\ qty[t] < q => fees[t] = 0)]
        /\ paid' = [paid EXCEPT ![t] = IF qty[t] - q > 0 THEN @ ELSE {}]
        /\ UNCHANGED <<avg, slack>>

ApplyFill ==
    \E t \in Tokens, q \in Sizes, price \in Prices, fee \in Fees :
        Buy(t, q, price, fee) \/ Sell(t, q, price, fee)

(* mark_all refreshes the mark of an open position from its book.           *)
Mark ==
    \E t \in Tokens, mid \in Prices :
        /\ qty[t] # 0
        /\ mark' = [mark EXCEPT ![t] = mid]
        /\ UNCHANGED <<cash, qty, avg, realized, fees, observed>>

Next == ApplyFill \/ Mark

Spec == Init /\ [][Next]_vars

-----------------------------------------------------------------------------
(* Properties. *)

(* The two entries of every fill agree: for each token, the cash its        *)
(* entries moved is the realized profit less the cost of the shares still   *)
(* held and the buy fees not yet charged to a sale, up to the rounding of   *)
(* the average cost.                                                        *)
BooksBalance ==
    \A t \in Tokens :
        sound[t] => 2 * Abs(flow[t] + qty[t] * avg[t] + fees[t] - realized[t]) <= slack[t]

(* Once a token is sold off, its realized profit is the cash it brought,    *)
(* net of every fee of both legs, and no fee is left to charge to a later   *)
(* position in the same token.                                              *)
RoundTripIsNet ==
    \A t \in Tokens :
        sound[t] /\ qty[t] = 0
           => fees[t] = 0 /\ 2 * Abs(flow[t] - realized[t]) <= slack[t]

(* The average cost of a long position is between the lowest and the        *)
(* highest price paid since it was opened, whatever was held before: the    *)
(* exit thresholds compare it with the mark.                                *)
AvgIsWithinPaid ==
    \A t \in Tokens :
        paid[t] # {} => /\ qty[t] > 0
                        /\ \E low, high \in paid[t] : low <= avg[t] /\ avg[t] <= high
=============================================================================
