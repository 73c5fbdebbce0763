----------------------------- MODULE ExitMonitor -----------------------------
(***************************************************************************)
(* The life of a position: orders of the pipeline open it, ExitMonitor     *)
(* scans the ledger and sells, and the executor books the fills, at once   *)
(* (paper) or when the user channel reports them (live).                   *)
(*                                                                         *)
(* Quantities are in half lots, 0.005 shares: an exit is ordered in lots   *)
(* of 0.01, and half a lot is as far as that rounding goes.  Prices decide *)
(* only which trigger fires and are left open.  What an executor does to   *)
(* an order in between is LiveExecution's and PaperExecution's, the cost   *)
(* of a position Ledger's, the switch KillSwitch's.                        *)
(***************************************************************************)
EXTENDS Integers, Sequences

CONSTANTS
    Tokens,
    None,
    PolicyName,      \* what the risk policy, hence every order, is called
    LLMNames,        \* the names that start with "fundamentals"
    Modes,           \* a subset of {"paper", "live"}
    LLM,             \* {FALSE}, or BOOLEAN if the fundamentals strategy is on
    OrderSizes,      \* what the pipeline orders, in half lots
    Floor,           \* fewest half lots worth min_position_notional_usd
    CooldownScans,   \* scans that start within the cooldown
    MaxOrders, MaxToggles    \* bounds

ASSUME NoneAssumption == None \notin Tokens \cup {"intraday", "to_resolution"}
ASSUME ModesAssumption == Modes \subseteq {"paper", "live"}
ASSUME SizesAssumption ==
    /\ OrderSizes \subseteq Nat /\ LLM \subseteq BOOLEAN
    /\ {Floor, CooldownScans, MaxOrders, MaxToggles} \subseteq Nat
    /\ Floor > 1

VARIABLES
    mode,
    position,    \* Ledger._positions: quantity and horizon
    bids,        \* what rests of the pipeline's orders
    held,        \* live: what the account holds
    unbooked,    \* live: fills the user channel has not reported yet
    listing,     \* how Gamma lists the market: see Listings
    engaged,     \* the kill switch of the risk policy
    todo,        \* positions the running scan has still to look at: see Taken
    sale,        \* the exit it is waiting for
    cooling,     \* _cooldown_until, in scans
    orders, toggles,   \* how often so far (bounded)
    thesis       \* observation: only LLM signals made this position

books == <<position, held, unbooked>>
scan == <<todo, sale, cooling>>
world == <<mode, listing, engaged>>
bounds == <<orders, toggles>>
monitorVars == <<books, bids, scan, world, bounds, thesis>>

Horizons == {"intraday", "to_resolution"}
Positions == [qty: Int, horizon: Horizons \cup {None}]
NoPosition == [qty |-> 0, horizon |-> None]

(* More than six hours to the end, less, or resolved, or listed no more:    *)
(* Gamma is asked for active markets that are not closed, so whether it     *)
(* ever lists a resolved one is left open.                                  *)
Listings == {"far", "near", "closed", "gone"}

Triggers == {"profit_take", "stop_loss", "time_decay_close", "settlement"}
Sale == [token: Tokens, size: Nat, why: Triggers]

MonitorTypeOK ==
    /\ mode \in Modes
    /\ position \in [Tokens -> Positions]
    /\ bids \in [Tokens -> Nat]
    /\ held \in [Tokens -> Int]
    /\ unbooked \in Seq([token: Tokens, n: Int])
    /\ listing \in [Tokens -> Listings]
    /\ engaged \in BOOLEAN
    /\ todo \in [Tokens -> Listings \cup {None}]
    /\ sale \in Sale \cup {None}
    /\ cooling \in [Tokens -> 0..CooldownScans]
    /\ orders \in 0..MaxOrders /\ toggles \in 0..MaxToggles
    /\ thesis \in [Tokens -> BOOLEAN]

MonitorInit ==
    /\ mode \in Modes
    /\ position = [t \in Tokens |-> NoPosition]
    /\ bids = [t \in Tokens |-> 0]
    /\ held = [t \in Tokens |-> 0]
    /\ unbooked = <<>>
    /\ listing = [t \in Tokens |-> "far"]
    /\ engaged = FALSE
    /\ todo = [t \in Tokens |-> None] /\ sale = None
    /\ cooling = [t \in Tokens |-> 0]
    /\ orders = 0 /\ toggles = 0
    /\ thesis = [t \in Tokens |-> FALSE]

-----------------------------------------------------------------------------
(* The ledger.                                                              *)

(* _positions[t] as positions() and get_position() see it.                  *)
Open(t) == position[t].qty # 0

Horizon(name) == IF name \in LLMNames THEN "to_resolution" ELSE "intraday"

(* apply_fill: n half lots bought, or -n sold.  The horizon is that of the  *)
(* first purchase ever, and outlives the position.                          *)
ApplyFill(p, n) ==
    [qty |-> p.qty + n,
     horizon |-> IF n > 0 /\ p.horizon = None THEN Horizon(PolicyName) ELSE p.horizon]

(* The executor has filled n half lots for t and books them.                *)
Filled(t, n) ==
    IF mode = "paper"
    THEN /\ position' = [position EXCEPT ![t] = ApplyFill(@, n)]
         /\ UNCHANGED <<held, unbooked>>
    ELSE /\ held' = [held EXCEPT ![t] = @ + n]
         /\ unbooked' = Append(unbooked, [token |-> t, n |-> n])
         /\ UNCHANGED position

(* A bug: the latest report is booked first.                                *)
BookLatest ==
    /\ unbooked # <<>>
    /\ LET f == unbooked[Len(unbooked)] IN
       position' = [position EXCEPT ![f.token] = ApplyFill(@, f.n)]
    /\ unbooked' = SubSeq(unbooked, 1, Len(unbooked) - 1)
    /\ UNCHANGED <<held, bids, scan, world, bounds, thesis>>

(* The user channel reports a fill.                                         *)
Book ==
    /\ unbooked # <<>>
    /\ LET f == Head(unbooked) IN
       position' = [position EXCEPT ![f.token] = ApplyFill(@, f.n)]
    /\ unbooked' = Tail(unbooked)
    /\ UNCHANGED <<held, bids, scan, world, bounds, thesis>>

-----------------------------------------------------------------------------
(* The pipeline.                                                            *)

(* tick() orders n half lots of t.  It does not tick a market that ends     *)
(* within twelve hours.  One that is held already is no obstacle: it may be *)
(* the other leg of a pair.                                                 *)
Order(t, n, llm) ==
    /\ orders < MaxOrders /\ orders' = orders + 1
    /\ ~engaged /\ listing[t] = "far"
    /\ bids' = [bids EXCEPT ![t] = @ + n]
    /\ thesis' = [thesis EXCEPT ![t] = llm /\ (@ \/ (~Open(t) /\ bids[t] = 0))]
    /\ UNCHANGED <<books, scan, world, toggles>>

(* n half lots of the orders for t are filled, or the rest is taken away.   *)
FillBid(t, n) ==
    /\ bids' = [bids EXCEPT ![t] = @ - n]
    /\ Filled(t, n)
    /\ UNCHANGED <<scan, world, bounds, thesis>>

LapseBid(t) ==
    /\ bids[t] > 0
    /\ bids' = [bids EXCEPT ![t] = 0]
    /\ UNCHANGED <<books, scan, world, bounds, thesis>>

-----------------------------------------------------------------------------
(* The scan.                                                                *)

Size(q) == IF q < 0 THEN -q ELSE q

(* A bug: half a lot is rounded up.                                         *)
LotsUp(q) == q + (q % 2)

(* What Decimal.quantize(0.01) makes of q: half a lot goes to the even lot. *)
Lots(q) ==
    CASE q % 2 = 0 -> q
      [] q % 4 = 1 -> q - 1
      [] q % 4 = 3 -> q + 1

(* scan_once() takes the positions that are open when it starts, and how    *)
(* their markets are listed then; None is what it has done with.            *)
ScanIsOver == sale = None /\ \A t \in Tokens : todo[t] = None
Taken == [t \in Tokens |-> IF Open(t) THEN listing[t] ELSE None]

(* A bug: a cooldown, once set, is never over.                              *)
StartScanCooled ==
    /\ ScanIsOver /\ ~engaged
    /\ todo' = Taken
    /\ UNCHANGED <<books, bids, sale, cooling, world, bounds, thesis>>

(* It looks at the switch once, and which cooldowns are over by then is all *)
(* it knows of the time.                                                    *)
StartScan ==
    /\ ScanIsOver /\ ~engaged
    /\ todo' = Taken
    /\ \E c \in [Tokens -> 0..CooldownScans] :
          /\ \A t \in Tokens : c[t] < cooling[t] \/ c[t] = 0
          /\ cooling' = c
    /\ UNCHANGED <<books, bids, sale, world, bounds, thesis>>

Settles(t) == todo[t] = "closed"

(* _decide: the triggers that may fire for t, prices permitting.            *)
Decide(t) ==
    (IF position[t].horizon = "to_resolution" THEN {} ELSE {"profit_take", "stop_loss"})
      \cup (IF todo[t] = "near" THEN {"time_decay_close"} ELSE {})

(* Why t may be sold: settlement ignores the floor and the cooldown, for    *)
(* the rest the price has to be high enough for what is held.               *)
Reasons(t) ==
    CASE Settles(t) -> {"settlement"}
      [] ~Settles(t) /\ Size(position[t].qty) >= Floor /\ cooling[t] = 0 -> Decide(t)
      [] OTHER -> {}

(* No trigger, dust, on cooldown, or less than half a lot to settle.        *)
Skip(t) ==
    /\ todo[t] # None /\ sale = None
    /\ Settles(t) => Lots(Size(position[t].qty)) = 0
    /\ todo' = [todo EXCEPT ![t] = None]
    /\ UNCHANGED <<books, bids, sale, cooling, world, bounds, thesis>>

(* _emit_settlement and _emit_exit: the size is that of the position now.   *)
Emit(t, why) ==
    /\ todo[t] # None /\ sale = None
    /\ why \in Reasons(t)
    /\ LET n == Lots(Size(position[t].qty)) IN
       /\ n > 0
       /\ sale' = [token |-> t, size |-> n, why |-> why]
    /\ todo' = [todo EXCEPT ![t] = None]
    /\ UNCHANGED <<books, bids, cooling, world, bounds, thesis>>

(* The executor fills n of it and drops the rest (FAK).  The venue takes no *)
(* order for more than the account holds; the paper executor looks at the   *)
(* book only.                                                               *)
Sell(n) ==
    /\ sale # None
    /\ (n > 0 /\ mode = "live") => sale.size <= held[sale.token]
    /\ IF n = 0 THEN UNCHANGED books ELSE Filled(sale.token, -n)
    /\ cooling' = IF sale.why = "settlement" THEN cooling
                  ELSE [cooling EXCEPT ![sale.token] = CooldownScans]
    /\ sale' = None
    /\ UNCHANGED <<bids, todo, world, bounds, thesis>>

Sold == sale # None /\ \E n \in 0..sale.size : Sell(n)

-----------------------------------------------------------------------------
(* Gamma and the operator.                                                  *)

(* The next listing: an end may come, pass, or be put off.                  *)
List(t, l) ==
    /\ <<listing[t], l>> \in
          {<<"far", "near">>, <<"far", "closed">>, <<"far", "gone">>, <<"near", "far">>,
           <<"near", "closed">>, <<"near", "gone">>, <<"closed", "gone">>}
    /\ listing' = [listing EXCEPT ![t] = l]
    /\ UNCHANGED <<mode, engaged, books, bids, scan, bounds, thesis>>

Toggle ==
    /\ toggles < MaxToggles /\ toggles' = toggles + 1
    /\ engaged' = ~engaged
    /\ UNCHANGED <<mode, listing, books, bids, scan, orders, thesis>>

MonitorNext ==
    \/ Book
    \/ StartScan
    \/ Sold
    \/ Toggle
    \/ \E t \in Tokens :
          \/ \E n \in OrderSizes, llm \in LLM : Order(t, n, llm)
          \/ \E n \in 1..bids[t] : FillBid(t, n)
          \/ LapseBid(t)
          \/ Skip(t)
          \/ \E why \in Triggers : Emit(t, why)
          \/ \E l \in Listings : List(t, l)

=============================================================================
