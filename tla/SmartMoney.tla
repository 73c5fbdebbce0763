----------------------------- MODULE SmartMoney -----------------------------
(***************************************************************************)
(* From the public trades of a market to a signal of the smart money       *)
(* strategy, by three tasks that share memory:                             *)
(*   - the poller reads the page of latest trades, drops those it has      *)
(*     seen, tallies the others per wallet and queues them                 *)
(*     (ingestion/polymarket_trades.py);                                   *)
(*   - the cluster builder turns queued purchases into flows and gives the *)
(*     strategy a snapshot of the recent ones                              *)
(*     (strategies/cluster_builder.py);                                    *)
(*   - the feed loop of main.py classifies the wallets by their tallies.   *)
(* The pipeline evaluates the strategy at any time                         *)
(* (strategies/smart_money.py).  One market; its trades come in the order  *)
(* of Tape, and the clock runs between them.                               *)
(***************************************************************************)
EXTENDS Naturals, Sequences, Functions, FiniteSetsExt

CONSTANTS
    Wallets,
    Tape,                  \* the trades of the market, in the order they are made
    NoSignal,              \* evaluate() answers None
    PageSize,              \* rows of a page
    TradeQueueSize,        \* slots of the queue
    SeenCap,               \* _seen_cap
    Decay, Window,         \* decay_sec (latency_decay_sec), window_sec
    MinUsd,                \* min_net_usd_per_wallet
    Volume, Count,         \* thresholds of tiers 1 and 2
    MinCluster,            \* tier1_min_cluster, tier2_min_cluster
    MaxTime                \* bound on the clock

(* A trade: the transaction, wallet, outcome token and side of a row, its   *)
(* notional, and whether the row is well formed, is skipped (no wallet or   *)
(* outcome), or holds a number that cannot be read.                         *)
Trade == [tx : Nat, wallet : Wallets, dir : {"YES", "NO"}, side : {"BUY", "SELL"},
          usd : Nat, row : {"ok", "skip", "raise"}]

ASSUME TapeAssumption == Tape \in Seq(Trade)
ASSUME TierAssumption ==
    /\ Volume \in [1 .. 2 -> Nat] /\ Volume[2] <= Volume[1]
    /\ Count \in [1 .. 2 -> Nat] /\ Count[2] <= Count[1]
    /\ MinCluster \in [1 .. 2 -> Nat \ {0}]
ASSUME SizeAssumption ==
    /\ PageSize \in Nat \ {0} /\ TradeQueueSize \in Nat \ {0} /\ SeenCap \in Nat
    /\ 2 * PageSize <= SeenCap
    /\ Decay \in Nat /\ Window \in Nat /\ Decay <= Window
    /\ MinUsd \in Nat /\ MaxTime \in Nat

VARIABLES
    now,       \* the clock
    madeAt,    \* when each trade so far was made
    seenTx,    \* _seen_tx
    stats,     \* _wallet_stats: trade_count, total_volume_usd
    tradeQueue,  \* _queue: trades, as their places on the tape
    flows,     \* _flows of the builder: trades and the tier noted with each
    cluster,   \* _cluster_state of the strategy
    tier,      \* the maps from wallets to tiers
    halved     \* observation: seen has been cut

feedVars == <<seenTx, stats, halved>>
tradesVars == <<now, madeAt, feedVars, tradeQueue, flows, cluster, tier>>

Made == DOMAIN madeAt
NoTier == 0

TradesInit ==
    /\ now = 0 /\ madeAt = <<>>
    /\ seenTx = {} /\ stats = [w \in Wallets |-> [n |-> 0, usd |-> 0]] /\ halved = FALSE
    /\ tradeQueue = <<>> /\ flows = {} /\ cluster = {}
    /\ tier = [w \in Wallets |-> NoTier]

(* Somebody trades.                                                         *)
MakeTrade ==
    /\ Len(madeAt) < Len(Tape)
    /\ madeAt' = Append(madeAt, now)
    /\ UNCHANGED <<now, feedVars, tradeQueue, flows, cluster, tier>>

Tick ==
    /\ now < MaxTime
    /\ now' = now + 1
    /\ UNCHANGED <<madeAt, feedVars, tradeQueue, flows, cluster, tier>>

-----------------------------------------------------------------------------
(* The poller.                                                              *)

(* The page: the latest trades, newest first.                               *)
Page == [j \in 1 .. Min({PageSize, Len(madeAt)}) |-> Len(madeAt) + 1 - j]

(* The tallies only matter up to the thresholds of tier 1.                  *)
Capped(x, top) == IF x < top THEN x ELSE top
Tally(st, t) ==
    [st EXCEPT ![t.wallet].n = Capped(@ + 1, Count[1]),
               ![t.wallet].usd = Capped(@ + t.usd, Volume[1])]

(* A bug: a row is remembered when it is queued, not when it is looked at.  *)
TakeRowLate(acc, i) ==
    IF acc.done \/ Tape[i].tx \in acc.seen THEN acc
    ELSE CASE Tape[i].row = "raise" -> [acc EXCEPT !.done = TRUE, !.raised = TRUE]
           [] Tape[i].row = "skip"  -> acc
           [] OTHER ->
              IF Len(acc.queue) < TradeQueueSize
              THEN [acc EXCEPT !.seen = @ \cup {Tape[i].tx},
                               !.stats = Tally(@, Tape[i]), !.queue = Append(@, i)]
              ELSE [acc EXCEPT !.stats = Tally(@, Tape[i]), !.done = TRUE]

(* One row of _dedupe_and_enqueue: marked seen first, then tallied, then    *)
(* queued; a full queue ends the page, and that trade is never queued.      *)
TakeRow(acc, i) ==
    IF acc.done \/ Tape[i].tx \in acc.seen THEN acc
    ELSE LET marked == [acc EXCEPT !.seen = @ \cup {Tape[i].tx}]
             tallied == [marked EXCEPT !.stats = Tally(@, Tape[i])]
         IN CASE Tape[i].row = "raise" -> [marked EXCEPT !.done = TRUE, !.raised = TRUE]
              [] Tape[i].row = "skip"  -> marked
              [] OTHER ->
                 IF Len(acc.queue) < TradeQueueSize
                 THEN [tallied EXCEPT !.queue = Append(@, i)]
                 ELSE [tallied EXCEPT !.done = TRUE]

(* _fetch answers and the page is worked off.  When more is remembered than *)
(* the cap, half of the cap is kept, an arbitrary part of the set.          *)
Poll ==
    LET after[j \in 0 .. Len(Page)] ==
            IF j = 0 THEN [seen |-> seenTx, stats |-> stats, queue |-> tradeQueue,
                           done |-> FALSE, raised |-> FALSE]
            ELSE TakeRow(after[j - 1], Page[j])
        cut(acc) == ~acc.raised /\ Cardinality(acc.seen) > SeenCap
        kept(acc) == {S \in SUBSET acc.seen : Cardinality(S) = (SeenCap + 1) \div 2}
    IN \E acc \in {after[Len(Page)]} :
       /\ Made # {}
       /\ seenTx' \in IF cut(acc) THEN kept(acc) ELSE {acc.seen}
       /\ stats' = acc.stats /\ tradeQueue' = acc.queue
       /\ halved' = (halved \/ cut(acc))
       /\ UNCHANGED <<now, madeAt, flows, cluster, tier>>

-----------------------------------------------------------------------------
(* The cluster builder and the classification.                              *)

Recent(F, age) == {f \in F : madeAt[f.trade] + age >= now}

TierOf(w) == IF tier[w] = NoTier THEN 3 ELSE tier[w]

(* _consume: a purchase becomes a flow, and the strategy gets the flows     *)
(* within the decay time, if there are any.  Sales end nothing.             *)
Consume ==
    /\ tradeQueue # <<>>
    /\ tradeQueue' = Tail(tradeQueue)
    /\ LET i == Head(tradeQueue)
           kept == Recent(flows \cup {[trade |-> i, tier |-> TierOf(Tape[i].wallet)]}, Window)
       IN IF Tape[i].side = "BUY" /\ Tape[i].usd > 0
          THEN /\ flows' = kept
               /\ cluster' = IF Recent(kept, Decay) = {} THEN cluster ELSE Recent(kept, Decay)
          ELSE UNCHANGED <<flows, cluster>>
    /\ UNCHANGED <<now, madeAt, feedVars, tier>>

(* The tiers of _smart_money_feed_loop: volume and number of trades.        *)
Class(w) ==
    CASE stats[w].usd >= Volume[1] /\ stats[w].n >= Count[1] -> 1
      [] stats[w].usd >= Volume[2] /\ stats[w].n >= Count[2] -> 2
      [] OTHER -> 3

(* A pass over the wallets tallied so far, into the map of the builder and  *)
(* that of the strategy.                                                    *)
Classify ==
    /\ tier' = [w \in Wallets |-> IF stats[w].n > 0 THEN Class(w) ELSE tier[w]]
    /\ UNCHANGED <<now, madeAt, feedVars, tradeQueue, flows, cluster>>

-----------------------------------------------------------------------------
(* The strategy.                                                            *)

(* _filter_eligible, and the tier of each flow: from the map of the         *)
(* strategy, else the one the builder noted.  (Nothing attaches drawdowns   *)
(* or hedgers.)                                                             *)
Eligible(dir) ==
    {f \in Recent(cluster, Decay) : Tape[f.trade].dir = dir /\ Tape[f.trade].usd >= MinUsd}
FlowTier(f) ==
    IF tier[Tape[f.trade].wallet] = NoTier THEN f.tier ELSE tier[Tape[f.trade].wallet]

(* A bug: every flow counts as a wallet of its own.                         *)
BackersByFlow(dir, k) == {f \in Eligible(dir) : FlowTier(f) = k}

(* _distinct_wallets                                                        *)
Backers(dir, k) == {Tape[f.trade].wallet : f \in {g \in Eligible(dir) : FlowTier(g) = k}}

Enough(dir, k) == Cardinality(Backers(dir, k)) >= MinCluster[k]

(* evaluate(): the signal the pipeline gets if it asks now and the book has *)
(* an ask.  _pick_best_cluster: tier 1 before tier 2, YES before NO.        *)
Signal ==
    IF \E k \in 1 .. 2, d \in {"YES", "NO"} : Enough(d, k)
    THEN LET k == IF \E d \in {"YES", "NO"} : Enough(d, 1) THEN 1 ELSE 2
             d == IF Enough("YES", k) THEN "YES" ELSE "NO"
         IN [dir |-> d, tier |-> k, size |-> Cardinality(Backers(d, k))]
    ELSE NoSignal

TradesNext == MakeTrade \/ Tick \/ Poll \/ Consume \/ Classify

(* The poller sleeps five seconds and asks again, and the API answers again *)
(* and again.                                                               *)
TradesSpec == TradesInit /\ [][TradesNext]_tradesVars
FairTradesSpec == TradesSpec /\ WF_tradesVars(Poll)

-----------------------------------------------------------------------------
(* Properties.                                                              *)

TradesTypeOK ==
    /\ now \in 0 .. MaxTime /\ madeAt \in Seq(0 .. MaxTime)
    /\ Len(madeAt) <= Len(Tape)
    /\ seenTx \subseteq {Tape[i].tx : i \in Made}
    /\ stats \in [Wallets -> [n : 0 .. Count[1], usd : 0 .. Volume[1]]]
    /\ tradeQueue \in Seq(Made)
    /\ flows \subseteq [trade : Made, tier : 1 .. 3]
    /\ cluster \subseteq [trade : Made, tier : 1 .. 3]
    /\ tier \in [Wallets -> 0 .. 3] /\ halved \in BOOLEAN

(* Purchases of the last Decay by wallet w on side dir, large enough.       *)
Bought(w, dir) ==
    \E i \in Made :
        /\ Tape[i].wallet = w /\ Tape[i].side = "BUY" /\ Tape[i].dir = dir
        /\ Tape[i].usd >= MinUsd /\ madeAt[i] + Decay >= now

(* A signal of tier k follows that many different wallets which bought this *)
(* side within the decay time and whose tallies are those of tier k or      *)
(* better, however long the trades waited in the page, the queue and the    *)
(* snapshot, and whatever was forgotten and read twice (evaluate).          *)
SignalIsBacked ==
    Signal # NoSignal =>
        LET k == Signal.tier
            following == {w \in Wallets : Bought(w, Signal.dir)
                             /\ stats[w].usd >= Volume[k] /\ stats[w].n >= Count[k]}
        IN Cardinality(following) >= MinCluster[k] /\ Signal.size <= Cardinality(following)

(* As long as the set of seen transactions has not been cut, no transaction *)
(* is tallied twice: not after a page that ended at a full queue or at an   *)
(* unreadable row, and not by the pages that overlap                        *)
(* (_dedupe_and_enqueue).                                                   *)
TalliedOnce ==
    ~halved => \A w \in Wallets :
        stats[w].n <=
            Cardinality({Tape[i].tx : i \in {j \in Made : Tape[j].wallet = w}} \cap seenTx)

(* A trade that stays on the page is looked at, although a full queue or an *)
(* unreadable row before it ends the pages early (_loop).                   *)
PageIsDrained ==
    \A i \in 1 .. Len(Tape) :
        i \in Range(Page) /\ Tape[i].tx \notin seenTx
            ~> Tape[i].tx \in seenTx \/ i \notin Range(Page)
=============================================================================
