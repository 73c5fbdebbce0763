----------------------------- MODULE KillSwitch -----------------------------
(***************************************************************************)
(* The kill switch of the agent and everything that reads or writes it:    *)
(*   - the switch itself, in memory (risk/kill_switch.py), which the risk  *)
(*     policy consults before a decision and the exit monitor before a     *)
(*     scan;                                                               *)
(*   - the copy the broker shows (api/state.py), written by the refresh    *)
(*     task every five seconds and by the dashboard at any time;           *)
(*   - the hook on a change of the copy, which spawns a task that cancels  *)
(*     every open order (main._alert_kill_switch);                         *)
(*   - the pipeline, the exit monitor and the orders they have under way.  *)
(* A step is the code between two awaits.  Of an order only its place on   *)
(* the way to the venue is kept, as either executor moves it; why the      *)
(* venue may refuse a cancel is the subject of LiveExecution.              *)
(***************************************************************************)
EXTENDS Naturals, FiniteSets

CONSTANTS
    Orders,       \* orders the agent may submit
    Exits,        \* those of them submitted by the exit monitor
    Reasons,      \* KillReason: the triggers of observe_* and manual_engage
    NoReason,     \* None
    MaxClicks,    \* bound on what the operator does (dashboard, disengage)
    MaxReboots    \* bound on restarts

ASSUME OrdersAssumption == Exits \subseteq Orders
ASSUME ReasonsAssumption == NoReason \notin Reasons
ASSUME BoundsAssumption == MaxClicks \in Nat /\ MaxReboots \in Nat

VARIABLES
    engaged, reason,     \* KillSwitch._engaged, _reason
    shown,               \* Snapshot.kill_switch_engaged of the broker
    queued,              \* flatten tasks that have not started
    toCancel,            \* orders the started ones have still to cancel
    route,               \* legs of the decision OrderRouter.route works on
    scan,                \* positions the current scan has still to look at
    order,               \* how far each order has come
    clicks, reboots,     \* how often so far (bounded)
    committed,           \* observation: see Engage
    refused              \* observation: open orders a sweep failed to cancel

switchVars == <<engaged, reason, committed>>
sweepVars  == <<toCancel, refused>>
brokerVars == <<shown, queued>>
tradeVars  == <<sweepVars, route, scan, order>>
boundVars  == <<clicks, reboots>>
killSwitchVars == <<switchVars, brokerVars, tradeVars, boundVars>>

(* "leg": its task is created but has not run; "posting": submit() waits    *)
(* for the venue; "gone": refused, filled, cancelled, or left behind by a   *)
(* process that has ended, so that no later one knows of it.                *)
OrderState == {"none", "leg", "posting", "open", "gone"}

In(state) == {o \in Orders : order[o] = state}

(* Orders S are over; cancelling one of them would do nothing any more.     *)
Over(S) ==
    /\ order' = [o \in Orders |-> IF o \in S THEN "gone" ELSE order[o]]
    /\ toCancel' = toCancel \ S

SwitchTypeOK ==
    /\ engaged \in BOOLEAN
    /\ reason \in (IF engaged THEN Reasons ELSE {NoReason})
    /\ shown \in BOOLEAN /\ queued \in Nat
    /\ toCancel \subseteq In("posting") \cup In("open")
    /\ route \subseteq Orders \ Exits /\ scan \subseteq Exits
    /\ order \in [Orders -> OrderState]
    /\ clicks \in Nat /\ reboots \in Nat
    /\ committed \subseteq Orders /\ refused \subseteq Orders

SwitchInit ==
    /\ engaged = FALSE /\ reason = NoReason
    /\ shown = FALSE /\ queued = 0
    /\ toCancel = {} /\ route = {} /\ scan = {}
    /\ order = [o \in Orders |-> "none"]
    /\ clicks = 0 /\ reboots = 0
    /\ committed = {} /\ refused = {}

Click == clicks < MaxClicks /\ clicks' = clicks + 1

-----------------------------------------------------------------------------
(* The switch.                                                              *)

(* _engage: the first trigger wins.  committed is what was under way then:  *)
(* the legs whose tasks have not run yet, and the exits of the positions    *)
(* the scan has still to look at.                                           *)
Engage(r) ==
    IF engaged
    THEN UNCHANGED <<switchVars, refused>>
    ELSE /\ engaged' = TRUE /\ reason' = r
         /\ committed' = In("leg") \cup scan /\ refused' = {}

(* An observation that trips its threshold, or manual_engage.  One that     *)
(* does not changes nothing that is read elsewhere.  No task of the agent   *)
(* makes one but tick(), see GateAndRoute; callers are tests or operators. *)
Observe(r) ==
    /\ Engage(r)
    /\ UNCHANGED <<brokerVars, toCancel, route, scan, order, boundVars>>

(* An operator's step.                                                      *)
Disengage ==
    /\ engaged /\ Click
    /\ engaged' = FALSE /\ reason' = NoReason
    /\ committed' = {}
    /\ UNCHANGED <<brokerVars, tradeVars, reboots>>

-----------------------------------------------------------------------------
(* The broker's copy.                                                       *)

(* update_kill_switch: a change runs the hook, which spawns a flatten task  *)
(* when the copy becomes TRUE.                                              *)
ShowSwitch(e) ==
    /\ shown' = e
    /\ queued' = IF e /\ ~shown THEN queued + 1 ELSE queued

(* _broker_refresh_loop, one cycle.                                         *)
Refresh ==
    /\ ShowSwitch(engaged)
    /\ UNCHANGED <<switchVars, tradeVars, boundVars>>

(* POST /api/kill-switch/engage, and the first half of the in-process drill. *)
DashboardEngage ==
    /\ Click
    /\ ShowSwitch(TRUE)
    /\ UNCHANGED <<switchVars, tradeVars, reboots>>

(* POST /api/kill-switch/disengage, the drill's second half, reset-data.    *)
DashboardDisengage ==
    /\ Click
    /\ ShowSwitch(FALSE)
    /\ UNCHANGED <<switchVars, tradeVars, reboots>>

-----------------------------------------------------------------------------
(* Trading.                                                                 *)

(* What the router does with an approved decision: a single order is        *)
(* submitted at once, a pair as two tasks that run later.                   *)
Route(legs) ==
    /\ route' = legs
    /\ \/ /\ Cardinality(legs) = 1
          /\ order' = [o \in Orders |-> IF o \in legs THEN "posting" ELSE order[o]]
       \/ /\ Cardinality(legs) = 2
          /\ order' = [o \in Orders |-> IF o \in legs THEN "leg" ELSE order[o]]

(* tick() from the risk snapshot on: the gate, then the router, with no     *)
(* await in between.  observe_daily_pnl() comes first but is told of no     *)
(* loss: the snapshot has no start-of-day NAV, and daily_pnl_pct() is then  *)
(* 0.0.                                                                     *)
GateAndRoute(legs) ==
    /\ route = {}
    /\ legs \subseteq In("none") \ Exits
    /\ Cardinality(legs) \in 1..2
    /\ UNCHANGED switchVars
    /\ IF engaged THEN UNCHANGED <<route, order>> ELSE Route(legs)
    /\ UNCHANGED <<brokerVars, sweepVars, scan, boundVars>>

StartLeg(o) ==
    /\ order[o] = "leg"
    /\ order' = [order EXCEPT ![o] = "posting"]
    /\ UNCHANGED <<switchVars, brokerVars, sweepVars, route, scan, boundVars>>

(* The post of an order returns: it rests, or it was refused or filled.     *)
PostReturns(o) ==
    /\ order[o] = "posting"
    /\ \/ order' = [order EXCEPT ![o] = "open"] /\ UNCHANGED toCancel
       \/ Over({o})
    /\ UNCHANGED <<switchVars, brokerVars, refused, route, scan, boundVars>>

(* route() returns; if a leg has failed it has cancelled the other one.     *)
RouteReturn ==
    /\ route # {}
    /\ \A o \in route : order[o] \notin {"leg", "posting"}
    /\ \E unwound \in SUBSET route :
          /\ unwound # {} => \E o \in route \ unwound : order[o] = "gone"
          /\ Over(unwound)
    /\ route' = {}
    /\ UNCHANGED <<switchVars, brokerVars, refused, scan, boundVars>>

(* A bug: the scan looks at the copy of the broker.                         *)
ScanStartUnlessShown(listed, first) ==
    /\ scan = {} /\ In("posting") \cap Exits = {}
    /\ ~shown
    /\ listed \subseteq (In("none") \cap Exits) /\ first \in listed
    /\ scan' \in SUBSET (listed \ {first})
    /\ order' = [order EXCEPT ![first] = "posting"]
    /\ UNCHANGED <<switchVars, brokerVars, sweepVars, route, boundVars>>

(* scan_once up to its first suspension: it checks the switch, lists the    *)
(* positions, passes over the first of them and submits an exit.            *)
ScanStart(listed, first) ==
    /\ scan = {} /\ In("posting") \cap Exits = {}
    /\ ~engaged
    /\ listed \subseteq (In("none") \cap Exits) /\ first \in listed
    /\ scan' \in SUBSET (listed \ {first})
    /\ order' = [order EXCEPT ![first] = "posting"]
    /\ UNCHANGED <<switchVars, brokerVars, sweepVars, route, boundVars>>

(* The post of an exit has returned and the scan goes on: it passes over    *)
(* positions whose mark, as it is now, calls for nothing, and submits the   *)
(* exit of the next one (_decide).  It does not look at the switch again.   *)
ScanNext(e) ==
    /\ e \in scan /\ In("posting") \cap Exits = {}
    /\ scan' \in SUBSET (scan \ {e})
    /\ order' = [order EXCEPT ![e] = "posting"]
    /\ UNCHANGED <<switchVars, brokerVars, sweepVars, route, boundVars>>

(* Nothing else on the list calls for an exit.                              *)
ScanEnd ==
    /\ scan # {} /\ In("posting") \cap Exits = {}
    /\ scan' = {}
    /\ UNCHANGED <<switchVars, brokerVars, sweepVars, route, order, boundVars>>

-----------------------------------------------------------------------------
(* The flatten tasks.  Several may run; what they have left is one set.     *)

FlattenStart ==
    /\ queued > 0
    /\ queued' = queued - 1
    /\ toCancel' = toCancel \cup In("open") \cup In("posting")
    /\ UNCHANGED <<switchVars, shown, refused, route, scan, order, boundVars>>

(* A bug: an order that cannot be cancelled ends the sweep.                 *)
FlattenCancelOrAbort(o) ==
    /\ o \in toCancel
    /\ \/ order[o] = "open" /\ Over({o}) /\ UNCHANGED refused
       \/ order[o] = "open" /\ refused' = refused \cup {o} /\ toCancel' = {} /\ UNCHANGED order
       \/ order[o] = "posting" /\ toCancel' = toCancel \ {o} /\ UNCHANGED <<order, refused>>
    /\ UNCHANGED <<switchVars, brokerVars, route, scan, boundVars>>

(* cancel() of one order: it is off the venue's book, or (live) the venue   *)
(* refused or the call raised, and the sweep goes on to the next one.  An   *)
(* order whose post is under way is marked only: submit() sets it LIVE.     *)
FlattenCancel(o) ==
    /\ o \in toCancel
    /\ \/ order[o] = "open" /\ Over({o}) /\ UNCHANGED refused
       \/ /\ order[o] = "open" /\ refused' = refused \cup {o}
          /\ toCancel' = toCancel \ {o} /\ UNCHANGED order
       \/ order[o] = "posting" /\ toCancel' = toCancel \ {o} /\ UNCHANGED <<order, refused>>
    /\ UNCHANGED <<switchVars, brokerVars, route, scan, boundVars>>

-----------------------------------------------------------------------------
(* The world.                                                               *)

Fill(o) ==
    /\ order[o] = "open"
    /\ Over({o})
    /\ UNCHANGED <<switchVars, brokerVars, refused, route, scan, boundVars>>

(* SIGTERM or a crash, and a new process: nothing of the switch, the broker *)
(* or the executor survives.                                                *)
Reboot ==
    /\ reboots < MaxReboots /\ reboots' = reboots + 1
    /\ engaged' = FALSE /\ reason' = NoReason /\ committed' = {}
    /\ shown' = FALSE /\ queued' = 0 /\ toCancel' = {} /\ refused' = {}
    /\ route' = {} /\ scan' = {}
    /\ order' = [o \in Orders |-> IF order[o] = "none" THEN "none" ELSE "gone"]
    /\ UNCHANGED <<clicks>>

SwitchNext ==
    \/ \E r \in Reasons : Observe(r)
    \/ Disengage
    \/ Refresh
    \/ DashboardEngage
    \/ DashboardDisengage
    \/ \E legs \in SUBSET Orders : GateAndRoute(legs)
    \/ \E o \in Orders :
          \/ StartLeg(o)
          \/ PostReturns(o)
          \/ FlattenCancel(o)
          \/ Fill(o)
    \/ RouteReturn
    \/ \E listed \in SUBSET Exits : \E first \in listed : ScanStart(listed, first)
    \/ \E e \in Exits : ScanNext(e)
    \/ ScanEnd
    \/ FlattenStart
    \/ Reboot

SwitchSpec == SwitchInit /\ [][SwitchNext]_killSwitchVars

(* The refresh task wakes every five seconds and the loop runs the tasks it *)
(* has; nothing obliges anyone to trade, to observe or to click.            *)
FairSwitchSpec ==
    /\ SwitchSpec
    /\ WF_killSwitchVars(Refresh)
    /\ WF_killSwitchVars(FlattenStart)
    /\ WF_killSwitchVars(\E o \in Orders : FlattenCancel(o))

-----------------------------------------------------------------------------
(* Properties.                                                              *)

(* The reason of an engagement is its first trigger's, whatever fires while *)
(* the operator has not cleared it (KillSwitch._engage).                    *)
FirstReasonStays == [][engaged /\ engaged' => reason' = reason]_killSwitchVars

(* Whatever goes out while the switch is engaged was under way before: legs *)
(* of the pair the router had already split, exits of positions the scan    *)
(* had listed when it checked the switch, though their turn, and the        *)
(* decision, may come after the engagement.  The gate in evaluate() and the *)
(* check in scan_once() let nothing else through.                           *)
LateWasUnderWay ==
    [][\A o \in Orders :
         engaged /\ order[o] # "posting" /\ order'[o] = "posting"
            => o \in committed]_killSwitchVars

(* An order that is open when the switch engages, and the broker does not   *)
(* show it yet, is cancelled or filled, or its cancel was tried and failed: *)
(* by the hook and the flatten task, whatever is clicked on the dashboard   *)
(* meanwhile and whichever other order cannot be cancelled.                 *)
OpenOrdersClosed ==
    \A o \in Orders :
        (engaged /\ ~shown /\ order[o] = "open")
           ~> (~engaged \/ order[o] # "open" \/ o \in refused)

(* What the comments of the code say, and the code does not do.             *)

(* exit_monitor.py:103: "when engaged, the operator is in control;          *)
(* auto-exits would surprise them".                                         *)
EngagedMeansNoExit ==
    [][\A o \in Exits : engaged /\ order[o] # "posting" => order'[o] # "posting"]_killSwitchVars

(* web/components/app-shell.tsx:22: "Engage kill-switch? New orders will be *)
(* rejected."  While the switch is shown engaged, no tick sends an order.   *)
ShownMeansRejected == [][shown /\ route = {} => route' = {}]_killSwitchVars

(* "Disengagement is manual only" (kill_switch.py:11); "Reload from DB on   *)
(* agent restart" (kill_switch.py:44).                                      *)
DisengagedByHand == [][engaged /\ ~engaged' => Disengage]_killSwitchVars

=============================================================================
