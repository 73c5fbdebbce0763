---------------------------- MODULE LiveExecution ----------------------------
(***************************************************************************)
(* LiveExecutor (execution/live_executor.py) between three tasks of the    *)
(* agent and the venue:                                                    *)
(*   - the pipeline task submits orders and, after them, reconciles;       *)
(*   - the exit monitor task submits orders of its own;                    *)
(*   - the user-channel task applies the order and trade events the venue  *)
(*     pushes over a websocket (main._live_user_ws_loop);                  *)
(*   - the flatten task, spawned by the kill switch hook, sweeps the open  *)
(*     orders (cancel_all_open_orders).                                    *)
(* All run on one asyncio loop, so a step is the code between two awaits.  *)
(* Quantities are whole lots: the venue matches an order one lot at a      *)
(* time.  A trade is pushed when its lot is matched, and may be pushed     *)
(* again (another status of the same trade, a replay after a reconnect):   *)
(* the events are numbered in the order the venue pushes them, and <<o, p>>*)
(* is the p-th trade event of order o.                                     *)
(***************************************************************************)
EXTENDS Naturals, Sequences

CONSTANTS
    Orders,      \* orders the agent may submit
    ExitOrders,  \* those of them submitted by the exit monitor task
    Legs,        \* the two legs of an arbitrage pair, or {}
    Size,        \* lots asked for by each order
    MaxWire,     \* capacity of the queue of events from the venue
    Repeats,     \* bound: trades of one order pushed a second time
    Lossy,       \* may events and HTTP answers be lost
    None         \* "no order"

ASSUME OrdersAssumption ==
    /\ ExitOrders \subseteq Orders
    /\ Legs \subseteq Orders \ ExitOrders
    /\ \A o \in Legs : \E p \in Legs : p # o
    /\ Orders \cap {None, "gather", "cancelling", "settled"} = {}
ASSUME SizeAssumption == Size \in Nat \ {0}
ASSUME WireAssumption == MaxWire \in Nat /\ Repeats \in Nat /\ Lossy \in BOOLEAN

VARIABLES
    order,       \* Order.status as the agent sees it ("NEW": not created yet)
    filled,      \* Order.filled_size
    known,       \* o is a key of _venue_id
    submit,      \* where the coroutine that submits o stands
    cancelling,  \* order whose cancel() holds _lock across the venue call
    caller,      \* the task that called it
    answer,      \* what the venue did with that cancel so far
    router,      \* what route() does with the pair: leg to cancel, or stage
    sweep,       \* cancel_all_open_orders: what became of each swept order
    sweeping,    \* a flatten task is running
    fetched,     \* open orders as _fetch_open_orders saw them, or {None}
    wire,        \* events on the socket and in ClobUserChannel._queue
    held,        \* event looked up, waiting for _lock (at most one)
    booked,      \* times on_fill ran for each trade event
    venue,       \* the venue's own state of the order
    matched,     \* lots the venue has matched
    pushed       \* trade events the venue has pushed

agentVars  == <<order, filled, known, submit, booked>>
cancelVars == <<cancelling, caller, answer, router>>
sweepVars  == <<sweep, sweeping>>
wsVars     == <<wire, held>>
venueVars  == <<venue, matched, pushed>>
vars == <<agentVars, cancelVars, sweepVars, fetched, wsVars, venueVars>>

OpenStatus     == {"PENDING", "LIVE", "PARTIAL"}
TerminalStatus == {"FILLED", "CANCELLED", "REJECTED"}
OrderStatus    == OpenStatus \cup TerminalStatus
(* Per order: not swept, still to cancel, counted (cancel() returned True), *)
(* or left as it was (it returned False or raised).                        *)
SweepState     == {"out", "todo", "counted", "kept"}
MaxTrades      == Size + Repeats

(* kind "trade": the n-th trade event of the order.  Any other kind is an   *)
(* order_update with size_matched = n and that status word, "OTHER" being   *)
(* any word of the venue's that is not a status of the agent's ("MATCHED"). *)
Event == [order : Orders, kind : OrderStatus \cup {"OTHER", "trade"}, n : Nat]

AgentTypeOK ==
    /\ order \in [Orders -> OrderStatus \cup {"NEW"}]
    /\ filled \in [Orders -> Nat]
    /\ known \in [Orders -> BOOLEAN]
    /\ submit \in [Orders -> {"idle", "posting", "done"}]
    /\ booked \in [Orders -> [1..MaxTrades -> Nat]]

CallTypeOK ==
    /\ cancelling \in Orders \cup {None}
    /\ caller \in {"none", "sweep", "router"}
    /\ answer \in {"none", "ok", "refused"}
    /\ router \in Legs \cup {"gather", "cancelling", "settled"}
    /\ sweep \in [Orders -> SweepState]
    /\ sweeping \in BOOLEAN
    /\ fetched \in SUBSET (Orders \cup {None})

VenueTypeOK ==
    /\ wire \in Seq(Event)
    /\ held \in Event \cup {None}
    /\ venue \in [Orders -> {"none", "open", "closed"}]
    /\ matched \in [Orders -> Nat] /\ pushed \in [Orders -> Nat]

TypeOK == AgentTypeOK /\ CallTypeOK /\ VenueTypeOK

Init ==
    /\ order = [o \in Orders |-> "NEW"]
    /\ filled = [o \in Orders |-> 0]
    /\ known = [o \in Orders |-> FALSE]
    /\ submit = [o \in Orders |-> "idle"]
    /\ booked = [o \in Orders |-> [p \in 1..MaxTrades |-> 0]]
    /\ cancelling = None
    /\ caller = "none"
    /\ answer = "none"
    /\ router = "gather"
    /\ sweep = [o \in Orders |-> "out"]
    /\ sweeping = FALSE
    /\ fetched = {None}
    /\ wire = <<>>
    /\ held = None
    /\ venue = [o \in Orders |-> "none"]
    /\ matched = [o \in Orders |-> 0] /\ pushed = [o \in Orders |-> 0]

LockFree == cancelling = None

-----------------------------------------------------------------------------
(* The user channel.  An event is lost when the queue is full, or (Lossy)   *)
(* between two connections; nothing asks the venue to send it again.        *)

Put(q, e) == IF Len(q) < MaxWire THEN Append(q, e) ELSE q

Emit(e) == wire' = Put(wire, e) \/ (Lossy /\ wire' = wire)
Emit2(d, e) == wire' = Put(Put(wire, d), e) \/ (Lossy /\ wire' = wire)

Update(o, status, n) == [order |-> o, kind |-> status, n |-> n]
Trade(o, p) == [order |-> o, kind |-> "trade", n |-> p]

-----------------------------------------------------------------------------
(* The venue (external). *)

(* An order being posted reaches the book. *)
VenueAccept(o) ==
    /\ submit[o] = "posting" /\ venue[o] = "none"
    /\ venue' = [venue EXCEPT ![o] = "open"]
    /\ Emit(Update(o, "LIVE", 0))
    /\ UNCHANGED <<agentVars, cancelVars, sweepVars, fetched, held, matched, pushed>>

(* One more lot is matched; a trade and an order_update are pushed, in any  *)
(* order, the update in the agent's words or in the venue's own.            *)
VenueMatch(o) ==
    LET k == matched[o] + 1
        t == Trade(o, pushed[o] + 1)
    IN  /\ venue[o] = "open"
        /\ matched' = [matched EXCEPT ![o] = k]
        /\ pushed' = [pushed EXCEPT ![o] = @ + 1]
        /\ venue' = [venue EXCEPT ![o] = IF k = Size THEN "closed" ELSE "open"]
        /\ \E word \in {"OTHER", IF k = Size THEN "FILLED" ELSE "PARTIAL"} :
              Emit2(t, Update(o, word, k)) \/ Emit2(Update(o, word, k), t)
        /\ UNCHANGED <<agentVars, cancelVars, sweepVars, fetched, held>>

(* A trade of the order is pushed once more.  Nothing in the event tells it *)
(* from the first push: apply_user_ws_event reads no trade id or status.    *)
VenueRepeats(o) ==
    /\ matched[o] > 0 /\ pushed[o] < matched[o] + Repeats
    /\ pushed' = [pushed EXCEPT ![o] = @ + 1]
    /\ Emit(Trade(o, pushed[o] + 1))
    /\ UNCHANGED <<agentVars, cancelVars, sweepVars, fetched, held, venue, matched>>

(* The venue takes the order off its book: FOK/FAK remainder, GTD expiry.   *)
VenueKill(o) ==
    /\ venue[o] = "open"
    /\ venue' = [venue EXCEPT ![o] = "closed"]
    /\ Emit(Update(o, "CANCELLED", matched[o]))
    /\ UNCHANGED <<agentVars, cancelVars, sweepVars, fetched, held, matched, pushed>>

(* The venue executes the cancel request; the answer is on its way.         *)
VenueCancel ==
    /\ cancelling # None /\ answer = "none"
    /\ IF venue[cancelling] = "open"
         THEN /\ answer' = "ok"
              /\ venue' = [venue EXCEPT ![cancelling] = "closed"]
              /\ Emit(Update(cancelling, "CANCELLED", matched[cancelling]))
         ELSE answer' = "refused" /\ UNCHANGED <<venue, wire>>
    /\ UNCHANGED <<agentVars, cancelling, caller, router, sweepVars, fetched, held, matched, pushed>>

-----------------------------------------------------------------------------
(* submit() *)

(* The order is stored under the lock, then _post_order runs in a thread.   *)
(* The exit monitor submits one order at a time; the pipeline task does not *)
(* submit while it reconciles, and routes two legs concurrently.            *)
MaySubmit(o) ==
    IF o \in ExitOrders THEN \A x \in ExitOrders : submit[x] # "posting"
                        ELSE fetched = {None}

SubmitStart(o) ==
    /\ order[o] = "NEW" /\ LockFree /\ MaySubmit(o)
    /\ order' = [order EXCEPT ![o] = "PENDING"]
    /\ submit' = [submit EXCEPT ![o] = "posting"]
    /\ UNCHANGED <<filled, known, booked, cancelVars, sweepVars, fetched, wsVars, venueVars>>

(* The venue's answer carries an order id: the coroutine resumes, outside   *)
(* the lock, registers the id and writes LIVE whatever the status is now.   *)
SubmitReturns(o) ==
    /\ submit[o] = "posting" /\ venue[o] # "none"
    /\ submit' = [submit EXCEPT ![o] = "done"]
    /\ known' = [known EXCEPT ![o] = TRUE]
    /\ order' = [order EXCEPT ![o] = "LIVE"]
    /\ UNCHANGED <<filled, booked, cancelVars, sweepVars, fetched, wsVars, venueVars>>

(* The venue refused in the body of a normal answer: no id, still LIVE.     *)
SubmitReturnsNoId(o) ==
    /\ submit[o] = "posting" /\ venue[o] = "none"
    /\ submit' = [submit EXCEPT ![o] = "done"]
    /\ order' = [order EXCEPT ![o] = "LIVE"]
    /\ UNCHANGED <<filled, known, booked, cancelVars, sweepVars, fetched, wsVars, venueVars>>

(* mutant: the handler logs the failure and leaves the order as it was.    *)
SubmitSwallows(o) ==
    /\ submit[o] = "posting"
    /\ venue[o] = "none" \/ Lossy
    /\ submit' = [submit EXCEPT ![o] = "done"]
    /\ UNCHANGED <<order, filled, known, booked, cancelVars, sweepVars, fetched, wsVars, venueVars>>

(* _post_order raised: a refusal, or an answer lost after the acceptance.   *)
SubmitRaises(o) ==
    /\ submit[o] = "posting"
    /\ venue[o] = "none" \/ Lossy
    /\ submit' = [submit EXCEPT ![o] = "done"]
    /\ order' = [order EXCEPT ![o] = "REJECTED"]
    /\ UNCHANGED <<filled, known, booked, cancelVars, sweepVars, fetched, wsVars, venueVars>>

-----------------------------------------------------------------------------
(* cancel(), called by the flatten sweep and by the order router. *)

(* mutant: an order whose cancel failed stays on the list.                 *)
ResultRetries(o, by, result) ==
    sweep' = IF by = "sweep" /\ result # "kept" THEN [sweep EXCEPT ![o] = result] ELSE sweep

(* What the sweep makes of the result, if it is the sweep that called: each *)
(* True is counted, for an order that was only marked as well.              *)
Result(o, by, result) ==
    sweep' = IF by = "sweep" THEN [sweep EXCEPT ![o] = result] ELSE sweep

(* The order is a key of _venue_id.                                         *)
NeverHasVenueId(o) == FALSE  \* mutant: the id is looked up under the wrong key
HasVenueId(o) == known[o]

(* A terminal order is left alone, an order the venue has not named yet is  *)
(* only marked; for any other the lock is held while the venue is asked.    *)
CancelStart(o, by) ==
    /\ LockFree
    /\ \/ /\ order[o] \in TerminalStatus
          /\ Result(o, by, "kept")
          /\ UNCHANGED <<order, cancelling, caller>>
       \/ /\ order[o] \in OpenStatus /\ ~HasVenueId(o)
          /\ order' = [order EXCEPT ![o] = "CANCELLED"]
          /\ Result(o, by, "counted")
          /\ UNCHANGED <<cancelling, caller>>
       \/ /\ order[o] \in OpenStatus /\ HasVenueId(o)
          /\ cancelling' = o /\ caller' = by
          /\ UNCHANGED <<order, sweep>>
    /\ UNCHANGED <<filled, known, booked, answer, sweeping, fetched, wsVars, venueVars>>

(* mutant: the lock is given up only after a success.                      *)
CancelDoneIfAgreed(result) ==
    /\ result = "counted" /\ Result(cancelling, caller, result)
    /\ cancelling' = None /\ caller' = "none" /\ answer' = "none"
    /\ router' = IF caller = "router" THEN "settled" ELSE router
    /\ UNCHANGED <<filled, known, submit, booked, sweeping, fetched, wsVars, venueVars>>

(* The end of a cancel() that asked the venue: the lock is free again.      *)
CancelDone(result) ==
    /\ Result(cancelling, caller, result)
    /\ cancelling' = None /\ caller' = "none" /\ answer' = "none"
    /\ router' = IF caller = "router" THEN "settled" ELSE router
    /\ UNCHANGED <<filled, known, submit, booked, sweeping, fetched, wsVars, venueVars>>

(* The venue call returned: the order is marked only if the venue agreed.   *)
CancelResume ==
    \/ /\ answer = "ok"
       /\ order' = [order EXCEPT ![cancelling] = "CANCELLED"]
       /\ CancelDone("counted")
    \/ answer = "refused" /\ UNCHANGED order /\ CancelDone("kept")

(* The venue call raised, before or after the venue acted: nothing marked.  *)
CancelRaises ==
    cancelling # None /\ Lossy /\ UNCHANGED order /\ CancelDone("kept")

(* OrderRouter.route: both legs are back (gather); if exactly one of them   *)
(* failed, the other one is to be cancelled, once and best effort.          *)
LegFailed(o) == order[o] \in {"REJECTED", "CANCELLED"}

RouterGather ==
    /\ router = "gather" /\ Legs # {}
    /\ \A o \in Legs : submit[o] = "done"
    /\ \/ \E o \in Legs :
             /\ ~LegFailed(o) /\ router' = o
             /\ \A p \in Legs \ {o} : LegFailed(p)
       \/ /\ (\A o \in Legs : LegFailed(o)) \/ (\A o \in Legs : ~LegFailed(o))
          /\ router' = "settled"
    /\ UNCHANGED <<agentVars, cancelling, caller, answer, sweepVars, fetched, wsVars, venueVars>>

RouterUnwind ==
    /\ router \in Legs
    /\ CancelStart(router, "router")
    /\ router' = IF cancelling' = None THEN "settled" ELSE "cancelling"
    /\ UNCHANGED submit

-----------------------------------------------------------------------------
(* cancel_all_open_orders(), run by the kill switch hook. *)

SweepStart ==
    /\ ~sweeping /\ LockFree
    /\ sweeping' = TRUE
    /\ sweep' = [o \in Orders |-> IF order[o] \in OpenStatus THEN "todo" ELSE "out"]
    /\ UNCHANGED <<agentVars, cancelVars, fetched, wsVars, venueVars>>

SweepCancel(o) ==
    /\ sweeping /\ sweep[o] = "todo" /\ UNCHANGED <<submit, router>>
    /\ CancelStart(o, "sweep")

SweepEnd ==
    /\ sweeping /\ LockFree
    /\ \A o \in Orders : sweep[o] # "todo"
    /\ sweeping' = FALSE
    /\ UNCHANGED <<agentVars, cancelVars, sweep, fetched, wsVars, venueVars>>

-----------------------------------------------------------------------------
(* apply_user_ws_event() *)

(* The next event is taken off the queue and its order looked up, before    *)
(* the lock: an event of an order the venue has not named yet is dropped.   *)
WsReceive ==
    /\ wire # <<>> /\ held = None
    /\ held' = IF known[Head(wire).order] THEN Head(wire) ELSE None
    /\ wire' = Tail(wire)
    /\ UNCHANGED <<agentVars, cancelVars, sweepVars, fetched, venueVars>>

(* mutant: an order_update books the lots it reports, as a trade does.     *)
WsApplyUpdateAndBook ==
    /\ held # None /\ held.kind # "trade" /\ LockFree
    /\ order' = [order EXCEPT ![held.order] = IF held.kind = "OTHER" THEN @ ELSE held.kind]
    /\ filled' = [filled EXCEPT ![held.order] = held.n]
    /\ booked' = [booked EXCEPT ![held.order] =
                    [p \in 1..MaxTrades |-> @[p] + IF p <= held.n THEN 1 ELSE 0]]
    /\ held' = None
    /\ UNCHANGED <<known, submit, cancelVars, sweepVars, fetched, wire, venueVars>>

(* order_update: filled_size is overwritten, and the status if the word is  *)
(* one of the agent's.                                                      *)
Understood(word) == word \in OrderStatus \ {"PENDING"}

WsApplyUpdate ==
    /\ held # None /\ held.kind # "trade" /\ LockFree
    /\ order' = [order EXCEPT ![held.order] = IF Understood(held.kind) THEN held.kind ELSE @]
    /\ filled' = [filled EXCEPT ![held.order] = held.n]
    /\ held' = None
    /\ UNCHANGED <<known, submit, booked, cancelVars, sweepVars, fetched, wire, venueVars>>

(* trade: filled_size grows, the status follows it, on_fill books the lot,  *)
(* whatever the status was and however often the trade came.                *)
WsApplyTrade ==
    /\ held # None /\ held.kind = "trade" /\ LockFree
    /\ LET o == held.order
           f == filled[o] + 1
       IN  /\ filled' = [filled EXCEPT ![o] = f]
           /\ order' = [order EXCEPT ![o] = IF f >= Size THEN "FILLED" ELSE "PARTIAL"]
           /\ booked' = [booked EXCEPT ![o][held.n] = @ + 1]
    /\ held' = None
    /\ UNCHANGED <<known, submit, cancelVars, sweepVars, fetched, wire, venueVars>>

-----------------------------------------------------------------------------
(* reconcile(), run by the pipeline task after its submissions. *)

(* mutant: a task of its own reconciles, whatever the pipeline task does.  *)
ReconcileFetchAnyTime ==
    /\ fetched = {None}
    /\ fetched' \in {{o \in Orders : venue[o] = "open"}, {}}
    /\ UNCHANGED <<agentVars, cancelVars, sweepVars, wsVars, venueVars>>

(* The venue answers _fetch_open_orders; the lock is not held.  An answer   *)
(* of a shape the code does not know, or whose rows do not carry their id   *)
(* as "orderID", is a list of nothing.                                      *)
ReconcileFetch ==
    /\ fetched = {None}
    /\ \A o \in Orders \ ExitOrders : submit[o] # "posting"
    /\ (\E o \in Legs : submit[o] = "done") => router = "settled"
    /\ fetched' \in {{o \in Orders : venue[o] = "open"}, {}}
    /\ UNCHANGED <<agentVars, cancelVars, sweepVars, wsVars, venueVars>>

(* Every LIVE order the answer did not list is marked FILLED.               *)
MissingPartial(o) == known[o] /\ o \notin fetched /\ order[o] = "PARTIAL"  \* mutant
Missing(o) == known[o] /\ o \notin fetched /\ order[o] = "LIVE"

ReconcileApply ==
    /\ fetched # {None} /\ LockFree
    /\ order' = [o \in Orders |-> IF Missing(o) THEN "FILLED" ELSE order[o]]
    /\ fetched' = {None}
    /\ UNCHANGED <<filled, known, submit, booked, cancelVars, sweepVars, wsVars, venueVars>>

-----------------------------------------------------------------------------
SubmitAnswer(o) ==
    VenueAccept(o) \/ SubmitReturns(o) \/ SubmitReturnsNoId(o) \/ SubmitRaises(o)
CancelCall == VenueCancel \/ CancelResume \/ CancelRaises
Route == RouterGather \/ RouterUnwind
Flatten == (\E o \in Orders : SweepCancel(o)) \/ SweepEnd
UserChannel == WsReceive \/ WsApplyUpdate \/ WsApplyTrade
Reconcile == ReconcileFetch \/ ReconcileApply

Next ==
    \/ \E o \in Orders :
          \/ SubmitStart(o) \/ SubmitAnswer(o)
          \/ VenueMatch(o) \/ VenueRepeats(o) \/ VenueKill(o)
    \/ CancelCall \/ Route \/ SweepStart \/ Flatten \/ UserChannel \/ Reconcile

Spec == Init /\ [][Next]_vars

(* Every HTTP call ends, and the loop runs every task that can run; the     *)
(* lock is handed on in the order it was asked for, so a task that wants it *)
(* again and again gets it.  What the venue does with a resting order, and  *)
(* whether anything is submitted or swept, is not fair.                     *)
Fairness ==
    /\ \A o \in Orders : WF_vars(SubmitAnswer(o))
    /\ WF_vars(CancelCall)
    /\ SF_vars(Route) /\ SF_vars(Flatten) /\ SF_vars(UserChannel) /\ SF_vars(Reconcile)

FairSpec == Spec /\ Fairness

-----------------------------------------------------------------------------
(* Properties. *)

(* An order the venue has named and the agent calls CANCELLED is off the    *)
(* venue's book, although submit(), the sweep, the router and the user      *)
(* channel all write the status and submit() does so without the lock.      *)
KnownCancelIsReal ==
    \A o \in Orders : order[o] = "CANCELLED" /\ known[o] => venue[o] = "closed"

(* Every trade event is booked at most once, and only one the venue pushed: *)
(* neither reconcile() nor an order_update ever stands in for a trade, so   *)
(* the ledger exceeds the venue by no more than the trades pushed again.    *)
BookedAtMostOnce ==
    \A o \in Orders : \A p \in 1..MaxTrades :
        booked[o][p] <= (IF p <= pushed[o] THEN 1 ELSE 0)

(* An order of the pipeline task that reconcile() marks FILLED after an     *)
(* answer that lists open orders by their id is off the venue's book: the   *)
(* task does not submit between the fetch and the marking.                  *)
OwnUnlistedIsOffVenue ==
    [][ReconcileApply /\ fetched # {} =>
         \A o \in Orders \ ExitOrders :
            order[o] = "LIVE" /\ order'[o] = "FILLED" => venue[o] # "open"]_vars

(* A submission never stays PENDING: some outcome is recorded.              *)
SubmitResolves == \A o \in Orders : order[o] = "PENDING" ~> order[o] # "PENDING"

(* A flatten sweep ends, although it takes the lock once per order and      *)
(* shares it with the router, the user channel and reconcile().             *)
SweepEnds == sweeping ~> ~sweeping

(* The pipeline task gets through a pair: route() returns once both legs    *)
(* are answered, even if it must wait for the lock to cancel one of them.   *)
RouteEnds ==
    (Legs # {} /\ \A o \in Legs : submit[o] = "done") ~> router = "settled"

(* An order the venue closed does not stay LIVE in the agent's books, even  *)
(* if every event about it is lost: reconcile() notices.                    *)
ClosedIsNoticed ==
    \A o \in Orders :
        order[o] = "LIVE" /\ known[o] /\ venue[o] = "closed" ~> order[o] # "LIVE"

(* What the comments of the code say, and the code does not do.             *)

(* live_executor.py:174: the kill switch sweep "cancels every pending, live *)
(* or partial order at the venue".  Once the sweep and the submission are   *)
(* both over, an order the sweep counted would be off the venue's book.     *)
SweepCancelsPending ==
    \A o \in Orders :
        ~sweeping /\ submit[o] = "done" /\ sweep[o] = "counted" => venue[o] # "open"

(* live_executor.py:302: an order reconcile() marks FILLED "is no longer    *)
(* open on venue".                                                          *)
ReconciledIsOffVenue ==
    [][ReconcileApply => \A o \in Orders :
         order[o] = "LIVE" /\ order'[o] = "FILLED" => venue[o] # "open"]_vars
=============================================================================
