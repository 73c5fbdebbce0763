------------------------------- MODULE Broker -------------------------------
(***************************************************************************)
(* The state broker (api/state.py), the stream that serves it              *)
(* (api/app.py), the tables its history comes back from (main.py) and the  *)
(* reducer of the dashboard that reads it (web/hooks/use-agent-state.ts).  *)
(*                                                                         *)
(* What the broker shows is a record of the kill switch and the feed of    *)
(* orders.  The feed of signals is pushed, stored and seeded the same way, *)
(* nothing pushes a cluster, and the remaining fields only travel inside a *)
(* snapshot, so none of them is kept.  An order is pushed once, when the   *)
(* pipeline or the exit monitor has submitted it.                          *)
(*                                                                         *)
(* The queue of a subscriber and the connection it is written to are one   *)
(* sequence: both keep the order.                                          *)
(***************************************************************************)
EXTENDS Naturals, Sequences, SequencesExt

CONSTANTS
    Clients,       \* open pages of the dashboard
    Orders,        \* orders that may be pushed
    None,          \* no snapshot yet, no request under way
    FeedMax,       \* length of last_orders (50)
    QueueMax,      \* queue of a subscriber (500)
    RecentMax,     \* recent events a new subscriber is sent (50)
    MaxChanges,    \* bound on changes of the switch, beats and wipes
    MaxBreaks      \* bound on broken streams and restarts

StateSet == [switch : BOOLEAN, feed : Seq(Orders)]

ASSUME NoneAssumption == None \notin StateSet
ASSUME BoundsAssumption ==
    /\ FeedMax \in Nat \ {0} /\ QueueMax \in Nat \ {0} /\ RecentMax \in Nat \ {0}
    /\ RecentMax <= QueueMax
    /\ MaxChanges \in Nat /\ MaxBreaks \in Nat

VARIABLES
    engaged,               \* KillSwitch.engaged of the risk policy
    shown,                 \* AgentStateBroker._snapshot
    recent,                \* _recent_events
    subs, queue,           \* _subscribers, and what each has still to read
    open,                  \* clients whose stream is connected
    view, fetch,           \* state.snapshot of a page, its GET /api/state
    pushed, saving, rows,  \* orders pushed, being inserted, in our_orders
    wiping,                \* reset-data has emptied the tables only
    changes, breaks        \* how often so far (bounded)

stateVars == <<shown, recent, subs, queue>>
pageVars   == <<open, view, fetch>>
tableVars  == <<pushed, saving, rows, wiping>>
boundVars  == <<changes, breaks>>
brokerVars == <<engaged, stateVars, pageVars, tableVars, boundVars>>

Take(s, n) == SubSeq(s, 1, IF Len(s) < n THEN Len(s) ELSE n)
Last50(s) == SubSeq(s, IF Len(s) > RecentMax THEN Len(s) - RecentMax + 1 ELSE 1, Len(s))

-----------------------------------------------------------------------------
(* What is shown, and the events that change it. *)

Shown(switch, feed) == [switch |-> switch, feed |-> feed]

(* asdict() does not copy the lists: shared says that the feed is still the *)
(* very list push_order() inserts into.                                     *)
SnapshotEvent   == [type |-> "snapshot", data |-> shown, shared |-> TRUE]
OrderEvent(o)   == [type |-> "order", order |-> o]
SwitchEvent(e)  == [type |-> "kill_switch", engaged |-> e]
Heartbeat       == [type |-> "heartbeat"]

WithOrder(feed, o) == Take(<<o>> \o feed, FeedMax)

(* A bug: the page takes a snapshot for a bootstrap and keeps what it has.  *)
ReduceIgnoring(s, e) ==
    IF s = None THEN (IF e.type = "snapshot" THEN e.data ELSE s)
    ELSE CASE e.type = "order"       -> [s EXCEPT !.feed = WithOrder(@, e.order)]
           [] e.type = "kill_switch" -> [s EXCEPT !.switch = e.engaged]
           [] OTHER                  -> s

(* reduce() of the page: before its first snapshot it ignores the rest.     *)
Reduce(s, e) ==
    IF e.type = "snapshot" THEN e.data
    ELSE IF s = None THEN None
    ELSE CASE e.type = "order"       -> [s EXCEPT !.feed = WithOrder(@, e.order)]
           [] e.type = "kill_switch" -> [s EXCEPT !.switch = e.engaged]
           [] OTHER                  -> s

-----------------------------------------------------------------------------

EventSet ==
    [type : {"snapshot"}, data : StateSet, shared : BOOLEAN]
    \cup [type : {"order"}, order : Orders]
    \cup [type : {"kill_switch"}, engaged : BOOLEAN] \cup {Heartbeat}

BrokerTypeOK ==
    /\ engaged \in BOOLEAN
    /\ shown \in StateSet
    /\ recent \in Seq(EventSet) /\ Len(recent) <= RecentMax
    /\ subs \subseteq open /\ open \subseteq Clients
    /\ queue \in [Clients -> Seq(EventSet)]
    /\ view \in [Clients -> StateSet \cup {None}]
    /\ fetch \in [Clients -> StateSet \cup {None}]
    /\ pushed \in Seq(Orders)
    /\ saving \subseteq ToSet(pushed) /\ rows \subseteq ToSet(pushed)
    /\ wiping \in BOOLEAN /\ changes \in Nat /\ breaks \in Nat

BrokerInit ==
    /\ engaged = FALSE
    /\ shown = Shown(FALSE, <<>>)
    /\ recent = <<>> /\ subs = {} /\ queue = [c \in Clients |-> <<>>]
    /\ open = {}
    /\ view = [c \in Clients |-> None] /\ fetch = [c \in Clients |-> None]
    /\ pushed = <<>> /\ saving = {} /\ rows = {} /\ wiping = FALSE
    /\ changes = 0 /\ breaks = 0

Change == changes < MaxChanges /\ changes' = changes + 1 /\ UNCHANGED breaks
Break  == breaks < MaxBreaks /\ breaks' = breaks + 1 /\ UNCHANGED changes

-----------------------------------------------------------------------------
(* The broker. *)

(* What becomes of events already queued when an order enters the feed.     *)
Aliased(events, o) ==
    [i \in DOMAIN events |->
       IF events[i].type = "snapshot" /\ events[i].shared
       THEN [events[i] EXCEPT !.data.feed = <<o>> \o @, !.shared = FALSE]
       ELSE events[i]]

(* The list is replaced: nothing queued shares it any more.                 *)
Unshared(events) ==
    [i \in DOMAIN events |->
       IF events[i].type = "snapshot" THEN [events[i] EXCEPT !.shared = FALSE] ELSE events[i]]

(* A bug: a full queue loses the event, and its subscriber stays.           *)
EnqueueLossy(past, queues, events) ==
    /\ recent' = Last50(past \o events)
    /\ queue' = [c \in Clients |->
                   IF c \in subs THEN Take(queues[c] \o events, QueueMax) ELSE queues[c]]
    /\ subs' = subs

(* _enqueue, for the events of one step: a subscriber whose queue is full   *)
(* is dropped, and not told.  past and queues are what they were before.    *)
EnqueueTo(past, queues, events) ==
    /\ recent' = Last50(past \o events)
    /\ queue' = [c \in Clients |->
                   IF c \in subs THEN Take(queues[c] \o events, QueueMax) ELSE queues[c]]
    /\ subs' = {c \in subs : Len(queues[c]) + Len(events) <= QueueMax}

Enqueue(events) == EnqueueTo(recent, queue, events)

(* update_kill_switch: an event for a change only.                          *)
SwitchEvents(e) == IF e # shown.switch THEN <<SwitchEvent(e)>> ELSE <<>>

UpdateKillSwitch(e) ==
    shown' = [shown EXCEPT !.switch = e] /\ Enqueue(SwitchEvents(e))

(* _broker_refresh_loop, one cycle: the switch, then the whole snapshot.    *)
Refresh ==
    LET now == [shown EXCEPT !.switch = engaged]
    IN  /\ shown' = now
        /\ Enqueue(Append(SwitchEvents(engaged), [SnapshotEvent EXCEPT !.data = now]))
        /\ UNCHANGED <<engaged, pageVars, tableVars, boundVars>>

(* A cycle that raises after it has updated the switch; one that raises     *)
(* before changes nothing.  Either is logged, and the next one starts anew. *)
RefreshRaises ==
    /\ UpdateKillSwitch(engaged)
    /\ UNCHANGED <<engaged, pageVars, tableVars, boundVars>>

(* push_order with its persistence hook, which spawns a task.               *)
PushOrder(o) ==
    /\ o \notin ToSet(pushed)
    /\ shown' = [shown EXCEPT !.feed = WithOrder(@, o)]
    /\ EnqueueTo(Aliased(recent, o), [c \in Clients |-> Aliased(queue[c], o)],
                 <<OrderEvent(o)>>)
    /\ pushed' = <<o>> \o pushed
    /\ saving' = saving \cup {o}
    /\ UNCHANGED <<engaged, pageVars, rows, wiping, boundVars>>

(* The loop of a stream: every open page has one, and each sends to all.    *)
Beat ==
    /\ open # {} /\ Change
    /\ Enqueue(<<Heartbeat>>)
    /\ UNCHANGED <<engaged, shown, pageVars, tableVars>>

(* A threshold is tripped, or the switch of the policy is cleared.          *)
PolicySwitch ==
    /\ Change /\ engaged' = ~engaged
    /\ UNCHANGED <<stateVars, pageVars, tableVars>>

(* POST /api/kill-switch/engage and disengage, and the in-process drill.    *)
DashboardSwitch(e) ==
    /\ Change /\ UpdateKillSwitch(e)
    /\ UNCHANGED <<engaged, pageVars, tableVars>>

-----------------------------------------------------------------------------
(* The tables. *)

(* The insert of a pushed order returns, or fails and is forgotten.         *)
SaveEnds(o) ==
    /\ o \in saving /\ saving' = saving \ {o}
    /\ rows' \in {rows, rows \cup {o}}
    /\ UNCHANGED <<engaged, stateVars, pageVars, pushed, wiping, boundVars>>

(* POST /api/admin/reset-data: the tables, and when the connection is given *)
(* back, what the broker shows.                                             *)
WipeTables ==
    /\ Change /\ ~wiping
    /\ rows' = {} /\ wiping' = TRUE
    /\ UNCHANGED <<engaged, stateVars, pageVars, pushed, saving>>

WipeShown ==
    /\ wiping /\ wiping' = FALSE
    /\ shown' = [shown EXCEPT !.switch = FALSE, !.feed = <<>>]
    /\ EnqueueTo(Unshared(recent), [c \in Clients |-> Unshared(queue[c])], SwitchEvents(FALSE))
    /\ UNCHANGED <<engaged, pageVars, pushed, saving, rows, boundVars>>

(* What fetch_recent_orders returns: the newest rows, FeedMax at most.      *)
AddRow(feed, o) == IF o \in rows /\ Len(feed) < FeedMax THEN Append(feed, o) ELSE feed
Seed == FoldLeft(AddRow, <<>>, pushed)

(* A new process: the broker starts from the rows and serves when that is   *)
(* done; every stream and request breaks, the pages keep what they show.    *)
Restart ==
    /\ Break
    /\ engaged' = FALSE
    /\ shown' = Shown(FALSE, Seed)
    /\ recent' = <<>> /\ subs' = {} /\ queue' = [c \in Clients |-> <<>>]
    /\ open' = {} /\ fetch' = [c \in Clients |-> None]
    /\ saving' = {} /\ wiping' = FALSE
    /\ UNCHANGED <<view, pushed, rows>>

-----------------------------------------------------------------------------
(* The pages. *)

(* A page is loaded and asks for the state; what it gets is this one, but   *)
(* it may get it late.                                                      *)
Bootstrap(c) ==
    /\ view[c] = None /\ fetch[c] = None /\ c \notin open
    /\ fetch' = [fetch EXCEPT ![c] = shown]
    /\ UNCHANGED <<engaged, stateVars, open, view, tableVars, boundVars>>

(* The answer replaces whatever the stream has brought meanwhile; or fails. *)
FetchEnds(c) ==
    /\ fetch[c] # None
    /\ fetch' = [fetch EXCEPT ![c] = None]
    /\ view' \in {view, [view EXCEPT ![c] = fetch[c]]}
    /\ UNCHANGED <<engaged, stateVars, open, tableVars, boundVars>>

(* GET /api/stream, the first time or once more: the subscriber is sent the *)
(* current snapshot, and then the recent events, all older than it.         *)
Connect(c) ==
    /\ c \notin open /\ open' = open \cup {c}
    /\ subs' = subs \cup {c}
    /\ view' = [view EXCEPT ![c] = shown]
    /\ queue' = [queue EXCEPT ![c] = Take(recent, QueueMax)]
    /\ UNCHANGED <<engaged, shown, recent, fetch, tableVars, boundVars>>

(* The stream sends an event, dropped or not, and the page reduces it.      *)
Read(c) ==
    /\ c \in open /\ queue[c] # <<>>
    /\ view' = [view EXCEPT ![c] = Reduce(@, Head(queue[c]))]
    /\ queue' = [queue EXCEPT ![c] = Tail(@)]
    /\ UNCHANGED <<engaged, shown, recent, subs, open, fetch, tableVars, boundVars>>

(* A stream breaks; unsubscribe() follows.  The browser connects again.     *)
Disconnect(c) ==
    /\ Break
    /\ c \in open /\ open' = open \ {c}
    /\ subs' = subs \ {c} /\ queue' = [queue EXCEPT ![c] = <<>>]
    /\ UNCHANGED <<engaged, shown, recent, view, fetch, tableVars>>

-----------------------------------------------------------------------------
BrokerNext ==
    \/ Refresh \/ RefreshRaises \/ Beat \/ PolicySwitch
    \/ \E o \in Orders : PushOrder(o) \/ SaveEnds(o)
    \/ \E e \in BOOLEAN : DashboardSwitch(e)
    \/ WipeTables \/ WipeShown \/ Restart
    \/ \E c \in Clients :
          Bootstrap(c) \/ FetchEnds(c) \/ Connect(c) \/ Read(c) \/ Disconnect(c)

BrokerSpec == BrokerInit /\ [][BrokerNext]_brokerVars

(* The refresh task wakes every five seconds, the handler of reset-data     *)
(* ends, a page reads its stream and hears of its request.                  *)
FairBrokerSpec ==
    /\ BrokerSpec
    /\ WF_brokerVars(Refresh) /\ WF_brokerVars(WipeShown)
    /\ \A c \in Clients : WF_brokerVars(Read(c)) /\ WF_brokerVars(FetchEnds(c))

-----------------------------------------------------------------------------
(* Properties. *)

(* The newest order of a feed; a wiped feed is not announced.               *)
SameNewest(s) == shown.feed = <<>> \/ (s.feed # <<>> /\ s.feed[1] = shown.feed[1])

(* Once there is a full refresh among the events a subscriber has still to  *)
(* read, they bring the page to the switch the broker shows and the newest  *)
(* order of its feed, although a new stream is sent its recent events after *)
(* a snapshot newer than all of them, a queued snapshot goes on sharing the *)
(* feed, and a late bootstrap undoes what was streamed (subscribe(),        *)
(* _enqueue(), event_gen(), reduce()).                                      *)
RefreshCatchesUp ==
    \A c \in subs :
        (\E i \in DOMAIN queue[c] : queue[c][i].type = "snapshot")
          => LET s == FoldLeft(Reduce, view[c], queue[c])
             IN  s.switch = shown.switch /\ SameNewest(s)

(* A page whose stream is still subscribed ends up showing what the broker  *)
(* shows, and the switch as the risk policy has it: replayed events, orders *)
(* that are in the feed twice, a late bootstrap, a failed cycle, a restart  *)
(* or reset-data are put right (emit_snapshot()).  A stream that was        *)
(* dropped for a full queue is not: nothing tells its page.                 *)
ViewConverges ==
    \A c \in Clients :
        <>[](c \in subs => view[c] = shown /\ shown.switch = engaged)
=============================================================================
