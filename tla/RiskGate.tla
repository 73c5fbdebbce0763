------------------------------ MODULE RiskGate ------------------------------
(***************************************************************************)
(* The risk gate: DefaultRiskPolicy.evaluate() and size() with the checks  *)
(* of risk/limits.py, as tick() calls them, over the positions the ledger  *)
(* has booked and the orders that are still on their way to becoming one.  *)
(*                                                                         *)
(* Exposures are in points of the NAV, as the limits are: the snapshot     *)
(* divides each position's value at its mark by the NAV.  A mark may move  *)
(* any of them (Mark).  The kill switch is KillSwitch's: the ticks here    *)
(* are those it lets through.  Positions are long; what a short does to    *)
(* the books is Ledger's.                                                  *)
(***************************************************************************)
EXTENDS Integers, FiniteSets, FiniteSetsExt

CONSTANTS
    Conditions,      \* markets
    Tokens,          \* those of their tokens that are traded: <<c, side>>
    EventOf,         \* their parent event, or None
    CategoryOf,      \* their category, or None
    None,
    Sizes,           \* size_pct a strategy may propose, in points
    Paired,          \* {FALSE}, or BOOLEAN if the arbitrage strategy is enabled
    MaxShare,        \* bound on what a mark makes of a position, in points
    MaxOrders, MaxMarks, MaxRestarts,    \* bounds
    MaxPosition, MaxCategory, MaxTotal,  \* RiskLimits, in points
    MaxOpen, MaxPerEvent, MaxPerCondition

ASSUME TokensAssumption == /\ Tokens \subseteq Conditions \X {"yes", "no"}
                           /\ IsFiniteSet(Tokens)
ASSUME MapsAssumption == /\ DOMAIN EventOf = Conditions
                         /\ DOMAIN CategoryOf = Conditions
ASSUME SizesAssumption == Sizes \subseteq Nat /\ Paired \subseteq BOOLEAN /\ None \notin Nat
ASSUME LimitsAssumption ==
    {MaxShare, MaxOrders, MaxMarks, MaxRestarts, MaxPosition, MaxCategory, MaxTotal,
     MaxOpen, MaxPerEvent, MaxPerCondition} \subseteq Nat

Partner(t) == <<t[1], IF t[2] = "yes" THEN "no" ELSE "yes">>

(* An AggregatedSignal to buy: paired if an arbitrage signal contributed;   *)
(* sound if it passes the checks that look at nothing but the signal and    *)
(* the book (direction, price, liquidity, price band, spread).              *)
Signals ==
    {s \in [token: Tokens, size: Sizes, sound: BOOLEAN, paired: Paired] :
        s.paired => Partner(s.token) \in Tokens}

VARIABLES
    owned, share,      \* positions: tokens with qty > 0, and their points
    resting,           \* points ordered and neither booked nor cancelled
    known,             \* conditions registered with the policy and pipeline
    reduced,           \* DefaultRiskPolicy._reduced_size_pct
    orders, marks, restarts,  \* how often so far (bounded)
    blind              \* observation: see Overlooks

books == <<owned, share, resting>>
policy == <<known, reduced>>
bounds == <<orders, marks, restarts>>
vars == <<books, policy, bounds, blind>>

TypeOK ==
    /\ owned \subseteq Tokens
    /\ share \in [Tokens -> Nat]
    /\ resting \in [Tokens -> Nat]
    /\ known \subseteq Conditions
    /\ reduced = [c \in Conditions |-> None]
    /\ blind \in BOOLEAN
    /\ orders \in 0..MaxOrders /\ marks \in 0..MaxMarks /\ restarts \in 0..MaxRestarts

Init ==
    /\ owned = {}
    /\ share = [t \in Tokens |-> 0]
    /\ resting = [t \in Tokens |-> 0]
    /\ known = {}
    /\ reduced = [c \in Conditions |-> None]
    /\ blind = FALSE
    /\ orders = 0 /\ marks = 0 /\ restarts = 0

-----------------------------------------------------------------------------
(* The limits.                                                              *)

Exposure(S) == MapThenSumSet(LAMBDA t : share[t], S)

(* Positions the maps of the policy can place.                              *)
Placed == {t \in owned : t[1] \in known}
SameCondition(c) == {t \in Placed : t[1] = c}
SameEvent(c) == {t \in Placed : EventOf[t[1]] = EventOf[c]}
SameCategory(c) == {t \in Placed : CategoryOf[t[1]] = CategoryOf[c]}

(* A bug: the open positions are counted with one too many allowed.         *)
BlockedLate(s) ==
    LET c == s.token[1] IN
    \/ ~s.sound
    \/ Cardinality(owned) > MaxOpen
    \/ Cardinality(SameCondition(c)) >= MaxPerCondition
    \/ EventOf[c] # None /\ Cardinality(SameEvent(c)) >= MaxPerEvent
    \/ 2 * s.size > 3 * MaxPosition

(* check_open_position_count, check_same_condition, check_same_event, and   *)
(* the hard half of the size cap; the daily loss check sees 0.0.            *)
Blocked(s) ==
    LET c == s.token[1] IN
    \/ ~s.sound
    \/ Cardinality(owned) >= MaxOpen
    \/ Cardinality(SameCondition(c)) >= MaxPerCondition
    \/ EventOf[c] # None /\ Cardinality(SameEvent(c)) >= MaxPerEvent
    \/ 2 * s.size > 3 * MaxPosition

(* A bug: the category is forgotten.                                        *)
FitsTotal(s, n) == Exposure(owned) + n <= MaxTotal

(* check_total_exposure and check_category_exposure let n points through.   *)
Fits(s, n) ==
    LET c == s.token[1] IN
    /\ Exposure(owned) + n <= MaxTotal
    /\ CategoryOf[c] # None => Exposure(SameCategory(c)) + n <= MaxCategory

(* reduce_size_if_breached: the most that fits, up to the cap.              *)
IsHeadroom(s, n) ==
    /\ n = 0 \/ Fits(s, n)
    /\ n = MaxPosition \/ ~Fits(s, n + 1)

(* What evaluate() reduces s to: its own size is too large or does not fit. *)
Reductions(s) ==
    {n \in 1..MaxPosition :
        /\ n < s.size
        /\ IF Fits(s, s.size) THEN n = MaxPosition ELSE IsHeadroom(s, n)}

(* The map evaluate() leaves for size(): unchanged (APPROVE), with a        *)
(* reduction (REDUCE); none is left if it rejects.                          *)
Evaluate(s) ==
    IF Blocked(s) THEN {}
    ELSE IF Fits(s, s.size) /\ s.size <= MaxPosition THEN {reduced}
    ELSE {[reduced EXCEPT ![s.token[1]] = n] : n \in Reductions(s)}

-----------------------------------------------------------------------------
(* Sizing.                                                                  *)

(* A bug: size() reads the reduction and leaves it there.                   *)
Kept(noted, c) == noted

Popped(noted, c) == [noted EXCEPT ![c] = None]

Least(m, n) == IF m <= n THEN m ELSE n

(* size(): the reduction if there is one, up to the cap, and half of that   *)
(* while fills are worse than predicted (drift, which the refresh task sets *)
(* at any time: update_slippage_drift); less than a point is nothing.       *)
Sized(s, noted, drift) ==
    LET note == noted[s.token[1]]
        pct == Least(IF note = None THEN s.size ELSE note, MaxPosition)
    IN  IF drift THEN pct \div 2 ELSE pct

-----------------------------------------------------------------------------
(* The pipeline.                                                            *)

(* A pass: the sampled markets are registered before they are ticked.       *)
Sample(S) ==
    /\ known' = known \cup S
    /\ UNCHANGED <<books, reduced, bounds, blind>>

(* What the gate does not see when it judges s: orders that rest, positions *)
(* its maps cannot place, and the other leg of a pair.                      *)
Overlooks(s) ==
    \/ s.paired
    \/ owned # Placed
    \/ \E t \in Tokens : resting[t] > 0

(* The router sends n points of s; the other leg of a pair has as many      *)
(* units, at its own price.                                                 *)
Order(s, n) ==
    /\ orders < MaxOrders /\ orders' = orders + 1
    /\ \E m \in 1..MaxPosition :
          resting' = [t \in Tokens |->
                        CASE t = s.token -> resting[t] + n
                          [] s.paired /\ t = Partner(s.token) -> resting[t] + m
                          [] OTHER -> resting[t]]

(* tick() with the aggregate s.  A rejected signal changes nothing.         *)
Tick(s) ==
    /\ s.token[1] \in known
    /\ \E noted \in Evaluate(s), drift \in BOOLEAN :
        LET n == Sized(s, noted, drift) IN
        /\ reduced' = Popped(noted, s.token[1])
        /\ IF n = 0
           THEN UNCHANGED <<resting, orders, blind>>
           ELSE Order(s, n) /\ blind' = (blind \/ Overlooks(s))
    /\ UNCHANGED <<owned, share, known, marks, restarts>>

-----------------------------------------------------------------------------
(* The books.                                                               *)

(* n points of an order are filled and booked.                              *)
Book(t, n) ==
    /\ n <= resting[t]
    /\ owned' = owned \cup {t}
    /\ share' = [share EXCEPT ![t] = @ + n]
    /\ resting' = [resting EXCEPT ![t] = @ - n]
    /\ UNCHANGED <<policy, bounds, blind>>

(* The rest of the orders for t is cancelled, expired or refused.           *)
Lapse(t) ==
    /\ resting[t] > 0
    /\ resting' = [resting EXCEPT ![t] = 0]
    /\ UNCHANGED <<owned, share, policy, bounds, blind>>

(* The exit monitor sells a position down to n points, or all of it.        *)
Exit(t, n) ==
    /\ t \in owned
    /\ share' = [share EXCEPT ![t] = n]
    /\ owned' = IF n = 0 THEN owned \ {t} ELSE owned
    /\ UNCHANGED <<resting, policy, bounds, blind>>

(* The price of t, or the NAV, moves: mark_all and the next snapshot.       *)
Mark(t, n) ==
    /\ marks < MaxMarks /\ marks' = marks + 1
    /\ t \in owned
    /\ share' = [share EXCEPT ![t] = n]
    /\ UNCHANGED <<owned, resting, policy, orders, restarts, blind>>

(* A new process: positions are restored, the policy's maps are empty and   *)
(* orders of the old one are not followed any more.                         *)
Restart ==
    /\ restarts < MaxRestarts /\ restarts' = restarts + 1
    /\ resting' = [t \in Tokens |-> 0]
    /\ known' = {}
    /\ reduced' = [c \in Conditions |-> None]
    /\ UNCHANGED <<owned, share, orders, marks, blind>>

Next ==
    \/ \E S \in SUBSET Conditions : Sample(S)
    \/ \E s \in Signals : Tick(s)
    \/ \E t \in Tokens :
          \/ \E n \in 1..resting[t] : Book(t, n)
          \/ Lapse(t)
          \/ \E n \in 0..share[t] : Exit(t, n)
          \/ \E n \in 0..MaxShare : Mark(t, n)
    \/ Restart

Spec == Init /\ [][Next]_vars

-----------------------------------------------------------------------------
(* Properties.                                                              *)

Open == owned \cup {t \in Tokens : resting[t] > 0}
Points(S) == Exposure(S) + MapThenSumSet(LAMBDA t : resting[t], S)

(* "Policy validates limits and may REDUCE the size, but NEVER inflates     *)
(* it" (risk/policy.py): an order is at most what the strategy asked for,   *)
(* whatever reductions earlier ticks made for the same market.              *)
NeverInflates ==
    [][orders' # orders => \A s \in Signals :
         resting'[s.token] > resting[s.token] + Least(s.size, MaxPosition) => ~Tick(s)]_vars

(* As long as no order was sent over something the gate does not see, and   *)
(* no price has moved, what is booked and what rests are together within    *)
(* the total and the category limit: after reductions, partial fills,       *)
(* exits, re-entries and restarts (risk/limits.py).                         *)
ExposureWithinLimits ==
    ~blind /\ marks = 0 =>
        /\ Points(Open) <= MaxTotal
        /\ \A c \in Conditions : CategoryOf[c] # None =>
              Points({t \in Open : CategoryOf[t[1]] = CategoryOf[c]}) <= MaxCategory

(* Under the same condition on the orders, prices moving or not: one side   *)
(* of a condition, MaxPerEvent positions of an event, MaxOpen in all.       *)
ConcentrationWithinLimits ==
    ~blind =>
        /\ Cardinality(Open) <= MaxOpen
        /\ \A c \in Conditions :
              /\ Cardinality({t \in Open : t[1] = c}) <= MaxPerCondition
              /\ EventOf[c] # None =>
                    Cardinality({t \in Open : EventOf[t[1]] = EventOf[c]}) <= MaxPerEvent

=============================================================================
