# Poly Meridian: a verification project

Poly Meridian is an agent that trades prediction markets on Polymarket. It is a
single Python process with one asyncio loop; its tasks interleave at every
`await` and nowhere else. This directory holds TLA+ models of its trading core,
the TLC configurations that check them, and proofs checked by TLAPS.

All paths below are relative to `src/src/poly_meridian/`.

## 1. The system

```
 market feed ─► books ─┐                       ┌─ kill switch ◄─ refresh task ─► broker ─► API, dashboard
 trades, news ─► strategies ─► aggregator ─► risk policy ─► router ─► executor ─► fills ─► ledger ─► P&L
                                                exit monitor ───────────┘   ▲                │
                                                   venue user channel ──────┘         persistence ─► Postgres
```

| Component | State | Operations | Hard behaviour | What makes it correct |
|---|---|---|---|---|
| Live executor `execution/live_executor.py` | `_orders`, `_venue_id`, a lock; the client | `submit`, `cancel`, `cancel_all_open_orders`, `apply_user_ws_event`, `reconcile` | three tasks and the flatten task interleave around HTTP calls; `submit` writes without the lock; events are lost, early, repeated or dropped; answers are lost or say nothing | what it calls cancelled is off the book; a trade event is booked once; submissions and sweeps end; closed orders are noticed |
| Paper executor `execution/paper_executor.py` | `_orders`, `_resting`, attached books | the same, plus the maker timeout | an order and its resting entry are updated separately by five operations | resting entries are exactly the open maker orders; the contract of `execution/base.py`; makers end |
| Router `execution/order_router.py` | none | `route` | two legs posted concurrently, one may fail; unwinding waits for the executor's lock | a broken pair has nothing open; `route` returns |
| Ledger `portfolio/ledger.py` | cash, entries, positions | `apply_fill`, `mark`, `restore_positions` | rounding, pooled fees, top-ups, partial sales, shorts, re-entries | cash, cost, profit and fees agree; a round trip is net of its fees |
| P&L `portfolio/pnl.py` | none | NAV, P&L, exposure, daily roll-up | sums over open positions only | the NAV has an explanation; closed profit is reported |
| Exit monitor `execution/exit_monitor.py` | cooldowns | `scan_once` | suspends in every exit while positions change; settlement bypasses the cooldown | never sells more than is held; settles once |
| Kill switch `risk/kill_switch.py`, `api/state.py`, `main.py` | engagement, API window; the broker's copy | `observe_*`, `manual_engage`, `disengage`; `update_kill_switch`, its hook | two copies, a poll between them, a flatten task, restarts | engaged means nothing new is started and open orders are cancelled |
| Risk policy `risk/policy.py`, `risk/limits.py` | known markets, REDUCE map | `evaluate`, `size` | judges booked positions while orders rest or fills are under way | limits hold for what is booked plus what rests |
| Pipeline `pipeline.py` | counters, the parts above | `tick`, `on_fill` | state read before an awaited strategy or submit is used after it | one decision per tick, fills booked as they come |
| Persistence `storage/writers.py`, `main.py` | tables; `day_start_nav` | 30 s mirror, hooks, boot restore | a crash between any two writes; closed rows | a restart restores what was held |
| Strategies and aggregator `strategies/`, `features/` | copies of news rows and clusters | `evaluate`, `aggregate` | one tick reads the books before and after a language model answers | an order pays an ask its strategies saw; a pair costs less than a dollar |
| Broker, stream, dashboard `api/state.py`, `api/app.py`, `web/hooks/` | snapshot, recent events, subscribers; tables; the page | `push_*`, `update_kill_switch`, `emit_snapshot`, `subscribe`, reset-data, seeding | bounded queues, slow readers, replay after a newer snapshot, shared lists, a late first answer | a page ends up showing what the broker has, and the broker what the policy has |
| Market feed `ingestion/clob_ws.py`, `book.py` | books | messages, reconnection, resubscription, REST snapshot | stream and snapshot overtake each other; books outlive the connection | a book that missed nothing is that of the venue |
| Trade feed `ingestion/polymarket_trades.py`, `strategies/cluster_builder.py` | seen set, tallies, queue, flows, tiers | polling, consuming, classifying | overlapping pages, full queue, unreadable rows, forgotten ids, a stale cluster | each trade counts once; a signal has its wallets behind it |
| LLM resolver `fundamentals/llm_resolver.py` | cache, a lock per market, usage of the day | `resolve_async`, `get_usage` | callers queue for a lock; the clock runs; replies fail or cannot be parsed; a restart forgets the counter | bounded charges; one query per market; every call returns |
| News `ingestion/news_provider.py`, `sentiment/` | seen ids, queue, articles, signals, embeddings | poll, ingest, match, score, mark, hydrate | five tasks over three tables; failures and restarts between two writes | one voice per article; every article processed; no bet on old news |
| Calibration, promotion `fundamentals/calibration.py`, `promotion.py` | entries, drills | `record`, `restore`, `run_gate` | restart order | history survives; the gate needs every check |

Interaction. The pipeline task calls aggregator, risk policy and router in one
`tick`, then `reconcile` once per pass over the markets. The exit monitor is a
task of its own and calls `executor.submit` directly. The user-channel task
calls `apply_user_ws_event`. The kill switch hook spawns a flatten task. An
executor calls `pipeline.on_fill`, which calls `ledger.apply_fill`, before it
gives up its lock; `on_fill` never awaits, so booking a fill is one step. The
refresh and persistence tasks read the ledger.

## 2. What is modelled

### `LiveExecution` — the live executor, its tasks and the venue

One step is the code between two awaits. `submit`, `cancel` and the sweep are
split where they await the venue or the lock:

| Code | Actions |
|---|---|
| `submit` 107-150 | `SubmitStart` (order registered, post under way), then `SubmitReturns`, `SubmitReturnsNoId` (an answer without an id) or `SubmitRaises` |
| `cancel` 152-171 | `CancelStart` (checks under the lock, local mark if there is no venue id, else the lock is kept), `CancelResume`, `CancelRaises` |
| `cancel_all_open_orders` 173-192 | `SweepStart` (list of open orders), one `SweepCancel` per order, `SweepEnd` |
| `apply_user_ws_event` 194-279 | `WsReceive` (look-up before the lock), `WsApplyUpdate`, `WsApplyTrade` |
| `reconcile` 281-306 | `ReconcileFetch`, `ReconcileApply` |
| `OrderRouter.route` | `RouterGather`, `RouterUnwind` |
| the venue (external) | `VenueAccept`, `VenueMatch`, `VenueRepeats` (a trade is pushed again), `VenueKill`, `VenueCancel` |

`wire` is the socket together with `ClobUserChannel._queue`: events are dropped
when `MaxWire` of them wait (the code's `QueueFull`), and, if `Lossy`, at any
time (a reconnect). The venue may push a trade more than once, as another status
of it or replayed: `apply_user_ws_event` looks at no trade id and no status, so the
agent cannot tell, and books every trade event. The events of an order are numbered
as they are pushed (`pushed`). The answer to `reconcile` is the list of the orders
that rest, or nothing: `_fetch_open_orders` makes an empty list of an answer of
another shape, and `reconcile` reads ids under one name only. `venue`, `matched`,
`pushed` and `booked` are what the agent's books are compared with. The executor is modelled as it is once `start()` has given
it a client. As `main.run` stands it never calls `start()`, so a live `submit`
ends in `SubmitRaises`; the model is of the class and its other callers (tests
start it with a client). A failed fetch in `reconcile` changes nothing, and is
a stuttering step.

### `Ledger`, `Pnl` — the books

`Ledger` has one action per operation: `ApplyFill` (`Buy` or `Sell`, with the
bookkeeping common to both in `Book`) and `Mark`. Money is a whole number of
units of 0.0001, which `quantize` rounds to. `avg_cost` is *any* integer within
half a unit of the quotient, ties to even (`IsQuotient`), which is what
half-even rounding allows and determines. `flow`, `slack`, `sound` and `paid`
are observations: cash per token, twice the accumulated rounding, whether the
token was oversold with fees pending or bought back from short to exactly zero
(where the code drops a gain, and the identities below do not hold), and the
prices paid. The fee share of a sale, a Decimal quotient in the code, is rounded
down to the unit. `last_updated`, the entry tag and the LLM claim are left out.

`Pnl` adds the figures of `portfolio/pnl.py`, with the source's names.

### `PaperExecution`, `Executor` — the paper executor

A call of the paper executor never suspends with the lock held (`on_fill` does
not await), so each is one step: `Submit`, `CancelAll`, `Reconcile`; `Age` lets
`maker_timeout_sec` pass and `RouteReturn` is the end of `route()` for a pair.
Prices are levels from the best on, and a side of a book is the number of
shares at each level or better: a walk for `n` shares finds
`Minimum(n, book[Levels])`. Books change with the feed only, so a step meets any book;
a simulated fill does not take anything off them, in the code as in the model.
At which levels shares are taken, hence the VWAP, is left out. (It need not be
within the limit: a maker order that crosses walks the book for all that remains
of it, although `_apply_fill` says "Maker fills are at limit price".)

`Executor` is the abstract contract (`execution/base.py`): an order's life is
one way, its filled size only grows, never beyond its size, and nothing happens
to it once FILLED, CANCELLED or REJECTED. `PaperExecution` refines it
(`KeepsContract`). The live executor does not: an order_update can move an order
out of a terminal status, and `submit` overwrites a sweep's mark
(`SweepCancelsPending`, section 3).

### `KillSwitch` — the switch, the broker's copy, the flatten tasks

There are two switches. `engaged` and `reason` are the `KillSwitch` object the
risk policy and the exit monitor read; `shown` is the broker's copy, which the
refresh task overwrites every five seconds (`Refresh`) and the dashboard at any
time (`DashboardEngage`, `DashboardDisengage`). A change of the copy runs the
hook, which spawns a flatten task (`queued`); started, it lists the open orders
and cancels them one by one (`FlattenStart`, `FlattenCancel`). `GateAndRoute` is the
end of `tick()`, from the risk snapshot to the router, with no await in it;
`StartLeg` and `RouteReturn` are the router's tasks and their end; `ScanStart`,
`ScanNext` and `ScanEnd` are `scan_once`, which looks at the switch once, lists the
positions, and decides each of them when its turn comes, after the exits before it
have awaited; those it passes over leave the list with it. `Reboot` loses the switch, the copy and the executor's orders.

| Code | Actions |
|---|---|
| `observe_*`, `manual_engage` | `Observe(r)`: whichever trigger fires; the counting window of `observe_api_call` only decides when |
| `update_kill_switch` and its hook | `ShowSwitch` |
| `PaperExecutor`, `LiveExecutor` | `PostReturns`, `FlattenCancel`, `Fill`: an order is posted, rests, and ends |

Of an order only its place on the way is kept, in a form both executors fit.
`FlattenCancel` takes an open order off the book, or fails to: the venue refuses or
the call raises, the sweep goes on to the next order, and nothing tries again before
the next change of the copy (`refused` records it). An order whose post is under way
is only marked, and `submit` overwrites the mark. `committed` is an observation: what
was under way at the engagement and can still go out.

In the agent as it is wired nothing but `tick()` observes anything, and `tick()`
observes a daily P&L of 0.0 (its snapshot has no start-of-day NAV); the runbook's
`manual_engage` is run in another process. `Observe` therefore stands for the
class's callers in the tests and for whoever gets hold of the object, and what
follows holds for any of them.

### `RiskGate` — the gate between aggregator and router

`Tick(s)` is `tick()` from the aggregate on: `evaluate()`, `size()` and what the
router sends, with no await in between. Exposures are points of the NAV, as the
limits are. `Blocked` collects the checks that reject, `Fits` the two that
reduce, `IsHeadroom` is what they reduce to, and `Evaluate(s)` the maps
`evaluate()` may leave for `size()` (none: rejected), which takes its entry out
(`Popped`). The checks that look at the signal and the book alone (direction,
price, liquidity, price band, spread) are one field of the signal, `sound`.
`owned` and `share` are what the ledger has booked, `resting` what has been
ordered and is neither booked nor gone; `Book`, `Lapse`, `Exit`, `Mark` move
them as executor, exit monitor and marks do. `known` is what `register_market`
has been told since the process started, which `Restart` forgets.

The gate judges booked positions that its maps can place. `blind` becomes true
when an order goes out over something it does not see: an order that rests, a
restored position of a market not sampled since, the other leg of a pair. The
limits hold until then; after it not even "YES OR NO on a condition, never both"
(`risk/limits.py`) does, since an order that rests is no position yet.

### `ExitMonitor`, `Persistence` — a position's life, its row, a restart

`ExitMonitor` follows a position from the order that opens it to its exit, over
either executor. What an executor does to an order is the subject of the modules
above; here it comes down to what reaches the ledger. `mode` says when: in paper
mode a fill is booked in the same step, in live mode it changes what the account
holds (`held`) and waits in `unbooked` for the user channel (`Book`). Half lots,
0.005 shares, are the unit, because exits are ordered in lots of 0.01 and the
rounding (`Lots`, half-even as `Decimal.quantize`) is what can oversell. Prices
only decide which trigger fires, and are left open.

| Code | Actions |
|---|---|
| `tick` and what becomes of its orders | `Order`, `FillBid`, `LapseBid` |
| `scan_once` 95-181 | `StartScan` (switch, open positions, listing, cooldowns), then `Skip` or `Emit` per position |
| `_emit_exit`, `_emit_settlement` | `Emit` (the size is read now), `Sell` (what comes back from the executor, then the cooldown) |
| `_gamma_sync_loop` | `List`: an end comes within six hours, is put off, passes; a market resolves or is listed no more |
| `_portfolio_persist_loop` | `StartPass`, and `Write` or `FailWrite` per position |
| the restore in `run` | `Restart(S)`, where S are the tokens whose rows are restored |

`todo` keeps how each market was listed when the scan started, as `scan_once`
builds its look-ups once and awaits in every exit. `cooling` counts the scans
that start within the 30 s. `thesis` and `track` are observations: whether LLM
signals alone made a position, and what became of it since it was written.
`run` skips the restore without a database, swallows one that fails, and passes over
a row it cannot read, so `Restart` takes any set of tokens; the other rows stay in
the table, where a later restart may find them or a later purchase overwrite them.

Not in the model: a lost or repeated report of a fill (`LiveExecution` has them, and
with them no figure of the ledger can be trusted in live mode);
the price of a settlement, which the paper executor ignores (it fills at the
bids, or rejects without any); the calibration entry, which is recorded even if
the sale was refused; `claimed_*`, which `upsert_position` never overwrites, so a
reopened position keeps the old claim; cash after a restore. A live exit
rounded up beyond the balance is refused by the venue, and so is every later one:
`FlatBeforeSettlement` is therefore about paper only.

### `Resolver` — asking language models

One instance, any number of callers. `Ask` is `resolve_async` up to the lock
(cache, budget, place in the queue of the market), `Enter` what follows when the
lock is given, `Reply` and `Fail` the end of one attempt: `Fail` after a reply is
one that cannot be parsed, and the second failure gives up. `Accrue` charges the
counter for a model of the price table (`Priced`) and for no other. `Restart` is a
new process: counter, cache and locks start over. Of an estimate
only its tier is kept, and whether it calls for the second one. `now` inside a
call is the time it *asked* at, as in the code, so `Enter` and `Store` use
`asked`. `billed` is an observation: the charges of a day that some counter was told
of, on whichever day it booked them. What none is told of, a model missing from the
price table or a reply lost on its way, is charged by the API without a bound that
this code could keep. The cache does not look at news or flow, although the module's
docstring (line 21) has it re-query when they change.

### `SmartMoney` — from public trades to a cluster

`Poll` is one answer of the API worked off: per row `TakeRow` marks the transaction
seen, then tallies it, then queues it, in that order; a full queue ends the page,
an unreadable number ends it with an exception. `Consume` is the builder,
`Classify` the loop that gives wallets their tiers, `Signal` what the strategy
would answer now. The seen set is cut to an arbitrary half, since a Python set
has no order.

### `News` — from an article to a bet

Five tasks over `news_articles`, `news_signals` and `markets`: `EnqueueArticle` and
`Ingest`; `GammaSync`; `ProcessBegins`, `EmbedTitles`, `Match`, `ScorePair` and
`MarkProcessed`; `PassBegins`, `Hydrate` and `Evaluate`; `NewsRestart`, which only the
tables survive. Every database write and every call of a model may fail
(`Fault`). `mode` says whether the keys configure embeddings; the third way of
matching, in the database, cannot be reached as `main.py` wires the processor.
Rows are numbered in the order of their time, and the window of the strategy is
how many have left it (`aged`). The freshness limit of the aggregator is not in
the model: a sentiment signal is stamped when it is made, so the limit never binds.

### `MarketFeed`, `Decision` — books, and a tick that reads them

`MarketFeed` is one market: the venue's asks, the local ones, the messages on
their way, the REST snapshot on its way. Bids are handled as asks are and are
left out; so are sizes, which only decide whether a level is there. `Decision`
extends it with `tick()`: `TickBegins` runs the strategies that do not wait,
`TickDecides` is the answer of the language model and the aggregate, `TickEnds`
the router's return and the claim stamped on the position. Meanwhile the stream
goes on; what the pipeline loop itself does (`Subscribe`) cannot interleave with
a tick. `Arbitrage` and `Fundamentals` have their conditions on prices; the others,
`StatQuant` with its four rules on past prices among them, may like either side or
none (the modules `SmartMoney`, `News` and `Resolver` say when). Convictions and sizes are free. The files of
`config/strategies/` ship with `enabled: false`; the model is of what the strategies do when enabled.

`fundamentals` compares the probability of NO with a dollar less the ask of YES,
not with the ask of NO, which is why `PaysAnAsk` and `PairLocksProfit` are about
asks and an edge is no property.

### `Broker` — what an operator sees

The switch and the feed of orders stand for what is shown: signals are pushed,
stored and seeded like orders, nothing calls `push_cluster`, and the other fields
travel only in snapshots. A subscriber's queue and its connection are one
sequence. Two things make the model worth having. A queued snapshot event holds
the list of the broker (`asdict` does not copy what is in it), and `push_order`
inserts into that list before it replaces it, so the order also appears in
snapshots already queued (`Aliased`). And a new stream is sent the snapshot
first, then recent events that are older (`Connect`, then `Read`). `Bootstrap`
and `FetchEnds` are the page's own request, which may be answered last.
`WipeTables` and `WipeShown` are reset-data, between which an insert may still
land. A page whose queue was full is dropped from `subs` and keeps its connection:
nothing tells it, which is why `ViewConverges` is about pages still subscribed.
An order is pushed once, when it is submitted; the docstring of the writer
(`storage/writers.py` 345) has one push per transition, but none follows.

## 3. Runs

| Run | Question | Result |
|---|---|---|
| `live_liveness` | One order of the exit monitor, two lots, a trade pushed again, every loss: is a trade event booked once, do submissions resolve, is a closed order noticed? | holds |
| `live_pair` | Two legs of a pair, the router, sweeps, `reconcile` and the user channel want one lock and write one status, requests fail: is what is known and called CANCELLED off the book, and so what `reconcile` marks FILLED after a list by id? Do `route` and sweeps end? | holds |
| `ledger_books` | Every sequence of four fills and any marks on two tokens: do the books agree? | holds |
| `paper_pair` | A pair, a FAK exit and a FOK order, any books: virtual book, unwinding, contract, makers' end | holds |
| `kill_switch` | A pair or two single orders, scans of two positions, cancels that fail, one click, one restart: does only what was under way go out after an engagement, and does the engagement reach every open order? | holds |
| `risk_gate` | Three orders on four markets, reductions, fills, exits, a mark, a restart: are exposure and concentration within the limits as long as the gate saw everything, and is no proposal inflated? | holds |
| `positions` | One position, bought in parts, sold in lots, mirrored, two restarts that restore it or not, a toggle of the switch: is it ever oversold by more than the rounding, does a row that can be read bring back what was open, is paper flat before the market resolves? | holds |
| `resolver` | Two callers, one market, a midnight, an expiry, a restart of each day, an unpriced tier, failing queries: is what the counters are told of bounded, does one query at a time go out, does every call return? | holds |
| `smart_money` | Five trades, one of them unreadable, a queue of one and a cut of the seen set: is a transaction tallied once, has a signal its wallets, is the page read in the end? | holds |
| `news` | Two articles, either way of matching, one failure or restart anywhere: one row per article, market and round, every article processed, no bet on news out of its window? | holds |
| `decision` | A book that breaks and is replaced while a tick waits for a model: is a book that missed nothing the venue's, and do order, pair and claim fit what the strategies saw? | holds |
| `broker` | One page over replay, a full queue, a break, a restart, reset-data: does a queued refresh bring it up to date, and does it end up showing the truth? | holds |

Bounds. Two lots are enough for a partial fill, for a lot seen in both an
order_update and a trade, and for a cancel between two lots; one repeated trade is booked on top of them. `live_liveness` has
a queue of three, so that it overflows only behind a burst, and loses events at
any time; its order is one of the exit monitor because those are placed outside
the pipeline loop that reconciles. In `live_pair` one waiting event overflows the
queue at once. Two orders are enough for a pair, and for a sweep that
is between two cancels while the router waits; nothing in the executor relates more than two orders
except the sweep, whose iterations are independent. The theorems cover any mix of
orders. Four fills allow buying,
topping up, selling in part, selling off, opening again and going short; fill
sizes 1 and 3 and prices 2 and 5 make the average cost inexact. Two levels with
up to two shares each make a walk stop short, be exact, or leave shares over.
In `KillSwitch` a second order makes a pair, and a second exit one that is decided
after the engagement, when the first has awaited. One trigger is enough for what
depends on the switch; which one fired is `ReasonIsTheFirst`, for any number of them.
A click between two refreshes and a restart are what makes the two copies differ;
more of them repeat it.

In `RiskGate` the limits are scaled down so that each decides: two markets share
an event, two a category, the third order meets the cap on open positions, a
proposal of 3 is reduced to the cap of 2 or to what is left of a limit, and one
of 4 is more than one and a half times the cap and rejected.

In `Persistence` positions of different tokens share nothing but the order in
which a scan and a pass take them, and everything may happen to one while its
turn has not come, so one token stands for any. Four half lots bought in any
parts, and sold in any parts, make quantities that round up and down and a
position that closes and opens again; one restart shows what was written, a second
one what the first left in the table, and two
scans within the cooldown are what 10 s and 30 s give.

In `Resolver` the clock starts one step before midnight and an answer lives one
step, so a day ends while a query is out, and an answer expires between two
callers; a budget of one reply is passed by two callers together. One restart a day
doubles it. One market is enough: markets share the counter, which two callers pass
on one market as they would on two, and nothing else. The cheap tier is in the price
table and the expensive one is not. In
`SmartMoney` a page of two rows and five trades make pages that overlap, a
queue of one fills at once, and a cap of four is passed by the fifth transaction.
In `News` a batch, a queue and a memory of one make each of them a limit. In
`Decision` two price levels of a dollar of four make a pair that pays and one
that does not. In `Broker` a replay of two, a queue of three, a feed of two and two
orders make a replay that ends before the newest order, a full queue and a feed
that drops its oldest.

Every `cfg` sets `CHECK_DEADLOCK FALSE`: orders, fills and lots are bounded, so
each model stops when all are used up, as the agent idles without signals.

Fairness. Only what the agent itself has to do is fair: an HTTP call ends (the
client has timeouts), the loop runs every task that can run, and asyncio locks
are first come, first served. A step that needs the lock again and again is
therefore strongly fair, the others weakly. In the paper executor time passes
(`Age`) and `_pipeline_loop` reconciles after every pass; a pass is fair only
when it meets an expired order (`Timeout`), since nothing obliges a book to cross. The refresh task wakes every five seconds and a
spawned flatten task runs to its end, so `Refresh`, `FlattenStart` and
`FlattenCancel` are weakly fair; nobody has to trade, click or trigger. The exit monitor's task runs (`StartScan`, `Skip`, `Sold`). That an exit fires and finds
bids for all it sells is the market's doing: `FlatBeforeSettlement` assumes
strong fairness of `Exit` and `SellOut`, that is, prices at which the position
is worth the floor and a deep enough book come again and again, and shows that the
cooldown, the floor, the switch and restarts then do not keep the position. Nothing obliges the
venue to match or close an order, or anybody to submit, sweep or send events. A
caller of the resolver whose lock is free runs, and its request ends (`Step`); the
poller asks again and is answered (`Poll`); the news processor and the pipeline
loop keep running (`Process`, `Loop`), but no article and no listing is promised.
Articles are finite there: newest first, an endless inflow of more than a batch
per pass would leave old ones waiting, and `StoredIsProcessed` does not deny it.
In `Broker` the refresh task runs, reset-data ends, and an open page reads its
stream and hears of its request; nobody has to connect.

### What the documentation says and the code does not do

Each of these properties is stated in the words of a comment or of the dashboard,
at the end of its module. The code does not keep them, so none is in a `cfg`; put in
the place of the properties of the named one, TLC violates each within seconds.

| `cfg` | Property | What is said | What the code does |
|---|---|---|---|
| `LiveLiveness` | `SweepCancelsPending` | `live_executor.py` 174: a sweep "cancels every pending/live/partial order at the venue" | `submit` overwrites the mark with LIVE when its post returns (line 139) |
| `LiveLiveness` | `ReconciledIsOffVenue` | `live_executor.py` 302: "Order is no longer open on venue" | an answer of unexpected shape is an empty list (414), which marks every LIVE order FILLED; an order posted after the fetch is not on the list either |
| `KillSwitch` | `EngagedMeansNoExit` | `exit_monitor.py` 103: "when engaged, the operator is in control; auto-exits would surprise them" | the switch is looked at once per scan; the exits of the rest of the scan go out |
| `KillSwitch` | `ShownMeansRejected` | `web/components/app-shell.tsx` 22: "New orders will be rejected" | the button writes the broker's copy only (`api/state.py` 260) |
| `KillSwitch` | `DisengagedByHand` | `kill_switch.py` 11: "Disengagement is manual only", 44: "Reload from DB on agent restart" | the engagement is a field, false in a new process, and nothing reloads it |
| `Positions`, with `LLM = {TRUE}` | `HoldsToResolution` | `exit_monitor.py` 215: an LLM position is held, "we skip profit_take and stop_loss" | the order carries the name of the risk policy, so the horizon is that of any other (`ledger.py` 123) |
| `Positions` | `ClosedRowsGo` | `main.py` 1067: "Closed positions (qty=0) get deleted" | the pass lists open positions only, so the row of one that closed between two passes stays, and a restart opens it again |
| `Resolver` | `BudgetGuards` | `llm_resolver.py` 24: "When breached, every subsequent call returns None until UTC midnight resets" | a restart on the same day starts from zero |
| `Decision` | `LegsCostLessThanPayout` | `arbitrage.py` 5: buying both legs "is a risk-free profit at resolution" | the first leg gets the highest price of all signals, one of which is made after the wait for the model |

## 4. Proofs

| Theorem | Statement |
|---|---|
| `LiveExecutionProofs!TypeCorrect`, `CancelledIsReal`, `TradesAreBookedOnce`, `OwnUnlistedIsReal`, `NobodyIsLeftWaiting` | types; a known order called CANCELLED is closed at the venue; no trade event is booked twice, or booked and never pushed; what `reconcile` calls FILLED of its own task's orders, after a list by id, is off the book; who waits, an order for its post or the lock for its caller, waits for a call still under way |
| `LedgerProofs!TypeCorrect`, `BooksAlwaysBalance`, `RoundTripsAreNet`, `AvgCostIsWithinPaid`, `NavHasAnExplanation` | types; the balance of every token; net round trips; the average cost between the prices paid; the NAV explained by what was realized and what is not |
| `PaperExecutionProofs!TypeCorrect`, `RestingAreOpen`, `ImplementsContract`, `PairsAreUnwound` | types; the virtual book; refinement of `Executor`; unwinding |
| `RiskProofs!SwitchTypeCorrect`, `ReasonIsTheFirst`, `LateOrdersWereUnderWay` | types; the first reason stays; what goes out while engaged belongs to a pair or a scan under way before |
| `RiskProofs!TypeCorrect`, `NothingIsInflated`, `ConcentrationIsLimited`, `ExposureIsLimited` | types, with the reductions gone after each tick; an order is at most the proposal and the cap; counts and exposures are within the limits as long as the gate saw everything |
| `DecisionProofs!TypeCorrect`, `BooksAreReplayed`, `OrdersPayAnAsk`, `PairsLockProfit`, `ClaimsAreOfTheirToken` | types; a book that missed nothing becomes the venue's; an order pays an ask its strategies saw; a pair costs less than a dollar; a claim is about the outcome its position holds |
| `ResolverProofs!TypeCorrect`, `OneQueryAtATime`, `DailySpendIsBounded` | types; one query per market at a time, and none for what is cached; what the counters of a day are told of |
| `PersistenceProofs!TypeCorrect`, `PaperIsNeverShort`, `LiveIsNeverShort`, `WrittenPositionsSurvive` | types; paper is oversold by the rounding of one exit at most; the books of a live process show no short; a restart brings back what was written and can be read |
| `FeedProofs!TradesTypeCorrect`, `NothingTalliedTwice`, `SignalsAreBacked` | types; no transaction is tallied twice while the seen set is whole; a signal has its wallets behind it |
| `FeedProofs!NewsTypeCorrect`, `OneVoice` | types; one row per article and market, and one more per round that was cut short |
| `FeedProofs!BrokerTypeCorrect`, `RefreshesCatchUp` | types; a subscriber with a refresh to read is brought to the switch and the newest order that are shown |

They hold for every set of orders, every size, price and bound, under the
`ASSUME`s of the modules: sizes are positive, a leg has a partner,
an order is not the name of a stage of the router, prices and
fees are not negative, an order type is GTC, FOK or FAK; tokens are finitely many
where they are summed or counted, and so are the callers of the resolver, whose
first look at a market costs something; what one bound owes another in the code
is assumed of it (a page fits the seen set twice, 50 recent events fit a queue
of 500). TLC evaluates those assumptions in every run.

The library's induction rules take an operator as a parameter, which the provers
cannot instantiate. Where induction over data is needed it is done by hand: a set
of subsets of a finite set has a member none of whose parts with one element less
is in it (`SmallestSet`, from the well-foundedness of inclusion), and a set of
numbers has a least one (`LeastNumber`). From the first follow, for the folds of
the community modules, all that is needed of a sum: it exists, is a number, loses
a term when an element is taken out, and grows with its terms (`SumFirst`,
`SumWithout`, `SumMoves`, `SumsShrink`). From the second, induction up to a number
(`NoFirstFailure`), and so that a recursion along a sequence has a solution
(`RecursionExists`). `FoldLeft` of the community modules is by definition *some*
solution of an equation about sets of places; that there is one (`FoldExists`)
makes it the last value of the recursion, which is how a page of trades
(`TakeRow`), a batch of articles (`AddUnprocessed`), the feed after a restart
(`AddRow`) and what a page of the dashboard makes of its queue (`Reduce`) are
reasoned about.

*Live execution.* `KnownCancelIsReal` is not inductive. `CancelInv` adds three
things: an order has a venue id only once its submission is over, so `submit`
cannot overwrite its status any more (`KnownIsAnswered`); a cancel call under way
is about an order with a venue id, and a positive answer to it is already a fact
at the venue (`CallInv`); and so is every CANCELLED event in the queue or waiting
for the lock (`EventInv`). A closed order stays closed at the venue, so each
writer of the status (submit, cancel, the router, the sweep, the user channel,
reconcile) is one case of the proof. `BookedAtMostOnce` is about trade events: one that was pushed is in the
queue, waits for the lock, is booked or is lost, one of the four and once
(`Clean`, `TradeInv`), so the next one pushed, a new lot or a repetition, is one
nobody has heard of. `OwnUnlistedIsOffVenue` needs that no order of the pipeline's task is being
posted while the answer to `reconcile` is under way (`FetchInv`).
`NobodyIsLeftWaiting` is what one state can show of `SubmitResolves`, `SweepEnds`
and `RouteEnds`: an order is PENDING only while its post is under way
(`PendingIsPosted`: of the other writers of the status only a known order's can be
reached, and a known order is past its submission), and the lock held across a
cancel has its caller (`HolderIsThere`): the sweep, with that order still on its
list, or the router, which waits for that and nothing else. That the call comes
back is fairness, and stays with TLC.

*Ledger.* `BooksBalance` is `2|flow + qty * avg + fees - realized| <= slack`. A
purchase moves the sum by the rounding of `avg`, at most half a unit for each
share held; a sale leaves it unchanged, as long as the fee share is
not more than the pool, which holds for a sound position. The strengthening is
that a sound position that is flat has no fees pooled, which with the balance
gives `RoundTripIsNet`. `AvgIsWithinPaid` needs that
rounding is monotone and that a price is an integer: the rounded blend of two
numbers between two integers stays between them. `NavIsExplained` is the balance
of the tokens added up: cash is what it was and the sum of the flows
(`CashIsExplained`, an invariant of its own), the value of a position less its
gain is its cost, and token by token what stays unexplained is within `slack`.

*Paper execution.* The invariant is `TypeOK`, `RestingIsOpen` and
`FilledMatches`, which ties the filled size to the status; a step of the
contract follows from it. The one fact about books that is needed, a crossing
order finds at least one share and at most what it asks for, is a lemma, so
nothing is assumed of the depth or the number of levels.

*Kill switch.* `LateWasUnderWay` is about steps. Its invariant
(`PendingIsCommitted`) says that while the switch is engaged every leg whose task
has not run, and every position the scan has still to look at, is in `committed`: true
at the engagement by definition, and kept because `GateAndRoute` and `ScanStart`,
the only actions that add any, are closed by then.

*Risk gate.* `NeverInflates` needs that the map of reductions is empty between
ticks, which is part of `TypeOK`: then what `size()` finds there is what
`evaluate()` has just put there, a reduction below the proposal. The counts are
inductive: an order that leaves `blind` false goes out when nothing rests and every
position is placed (`SightedTick`), so it adds one token to the very sets the gate
has counted, and no other step adds to what is booked or rests (`OpenShrinks`).
The exposures need besides that a token that is no position has no points
(`OwnedHavePoints`) and that what `size()` makes of a signal still fits
(`SizedFits`): a reduction is the headroom, and less than what fits, fits.

*Persistence.* `PaperNeverShort` needs that an exit under way is covered
(`SaleIsCovered`): what it would leave of the position is at least -1, since
`Lots` is at most half a lot off and makes nothing of the half lot that may be
short already; until the executor answers only purchases touch the position, and
every row is a copy of a position. `PositionsSurvive` needs that no row is that of a
closed position and that what counts as kept has a row (`KeptHasRow`), whichever rows
a restart could read.
`LiveNeverShort` needs a witness: for each token a running balance over the reports
under way, from what the books show to what the account holds, that is not negative
at any point (`Runs`, `ReportsAreCovered`). It is not enough that both ends are not,
since the next report is booked alone. No sum is taken: a report at the end
extends the balance and a booked one shortens it.

*Decision.* `BookIsReplayed` compares the venue's book with the local one once all
messages on their way are applied. `Replayed` says it level by level: what decides
about a level is the last message about it. The invariant is that this message says
what the venue shows (`WordInv`) and that a book that missed nothing is right about
the levels nobody speaks of, and so is a snapshot nothing overtook (`SilentInv`);
no induction over the messages is needed. `PaysAnAsk` and `PairLocksProfit`
need that the signals a tick carries while the model is asked were made of the asks
it began with (`OrderInv`), and that the least of a set of prices is one of them. `ClaimIsOfToken` needs that the signals of an aggregate are all for
its token (`Unopposed`), also once it waits in the router, and that an order of
a tick is there only while it is routed.

*Resolver.* `OneQueryPerMarket` is about steps. `LockInv` says that who holds a
lock heads its queue, that who waits is in it, and that every caller asked in the
past; the head of a queue is one, so no two callers hold the lock of a market,
and an estimate that was stale when a caller asked is stale now. `ReturnKeeps`,
that the others keep their places when the head leaves, carries the weight.
`SpendIsBounded` says what the counters were told of. Its invariant (`SpendInv`) adds what
the callers past the budget check can still be charged for, summed along an
enumeration of the callers: a charge moves a caller's part from owed to billed, a
reset of the counter at midnight forgets at most one round of all callers, and a
call that passes the check adds its worst case to a counter below the budget.
A reply after midnight may be booked on the old counter, which is then reset: that,
and the calls past the check when the budget runs out, make the worst case count twice.
A restart forgets a process whose bill was below all that, and begins another (`Most`,
`Before`).

*Trade feed.* `TalliedOnce` is inductive row by row: a row counts one trade at most,
and only when its transaction was not in the seen set and then is, so the tally of
a wallet and the seen transactions of its trades grow together (`RowStep`). The
recursion along the page carries that over all rows that are taken, also when a full queue or an
unreadable one ends it. A cut of the set gives the claim up (`halved`).
`SignalIsBacked` needs that what was handed out stays earned: tallies never
shrink, so the tier of a wallet and the tier noted with a flow are justified from then
on (`TiersAreEarned`, `FlowsAreEarned`); the buyers a strategy counts are then
among the wallets it claims, and no more than they.

*News.* `OneVoicePerRound` says nothing of what comes next, so the invariant says it
for articles that are not processed: such an article has a row for a market per
unfinished round at most (`FreshAreSilent`), the pairs scored in the round under way
apart, which will be marked or counted. A second row of the same round is out of
the question because the articles of a batch differ and none is processed
(`BatchIsFresh`), which is what the recursion that makes the batch shows, and
because a pair leaves `hits` when it is scored.

*Broker.* `RefreshCatchesUp` is about a fold over a queue, and the queue changes
behind the reader's back. The invariant says no more than what the queue says
*last*: the last event about the switch, and the last about the feed, say what is
shown, in every queue and in what is kept for new streams (`BrokerInv`). A
suffix says the same last (`SuffixTells`), events added say it themselves or say
nothing (`LongerTells`), an order inserted into queued snapshots is announced
again after them (`AliasedTells`), and the feed that reset-data empties is the one
case in which nothing is claimed of it. A page that meets a snapshot has a view, and from there each
event overwrites what it speaks of, so at the end it shows what was said last
(`ReducedToLast`).

*Refinement.* `ImplementsContract` is about `Executor` instantiated with the
status and the filled size of the paper executor's orders (`INSTANCE Executor WITH
status <- status, filled <- filled`): the initial states are those of the contract, and
every step is one of it, or a stutter.

Only model-checked: liveness, which is out of the prover's reach (it rests on
fairness, hence on ENABLED): `SubmitResolves`, `SweepEnds`, `ClosedIsNoticed`,
`RouteEnds`, `MakersEnd`, `OpenOrdersClosed`, `FlatBeforeSettlement`, `ResolveEnds`,
`PageIsDrained`, `StoredIsProcessed`, `BetEnds` and `ViewConverges`. Every safety
property that a run checks, invariant or action property, has its theorem.

## 5. Not modelled

- Numbers nothing in the core depends on: fee schedules (a fee is any number),
  slippage prediction and its drift monitor, Kelly stakes beyond whether there is
  one, order-book, sentiment and time features, trade metrics.
- Text: prompts, parsing, keywords, embeddings. What they decide is free.
- The backtester: an offline replay, one task, over the paper executor and the
  ledger. The promotion gate: stored figures against thresholds, once, by hand.
- The calibration store: as wired no entry carries the name it looks for, and its
  restore finds no store (`main.py` 1692).
- Daily rows and ledger entries: written for display; the start-of-day NAV is
  taken on every pass until the first row of a day is written (`main.py` 1103).
- The on-chain provider and the database matcher, which nothing as wired starts.
- Rendering, operator scripts, configuration and deployment.

Seen while modelling, described above and not the subject of a run: `reconcile`
of the live executor, "the fallback path for missed events", marks an order
FILLED whose fills were missed and books nothing; a repeated trade event is booked
again; the LLM budget does not know of models missing from its price table; a settlement path that waits for
`closed` markets, which `GammaClient` never asks for; rows of markets that have
closed keep `active = TRUE`, since only listed markets are upserted; a maker
fill in the paper executor walks past its limit, and takes nothing off the book;
the snapshot the risk policy gets has no start-of-day NAV, so its daily P&L is
zero; `unwind` leaves the shares the good leg of a pair was filled with; the
sentiment strategy looks at the size of the average sentiment, not its sign, and
may bet against it; a context of the fundamentals keeps the price of the market
before it when a book has no ask (`strategies/fundamentals.py` 152); the report of
the LLM backtest puts the date of the last reset where the model belongs
(`backtest/llm_calibration.py` 254).

## 6. Plan

What could follow: the daily rows and the cash of a restored ledger in
`Persistence`; the calibration store, once something is wired to record in it.
