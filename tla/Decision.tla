------------------------------ MODULE Decision ------------------------------
(***************************************************************************)
(* A tick of the pipeline on one market (pipeline.py): the strategies read *)
(* the local books one after the other, the last of them waits for a       *)
(* language model meanwhile the books move, and the aggregator makes one   *)
(* order of what they said (strategies/aggregator.py).  What moves the     *)
(* strategies besides prices is left open here; News, SmartMoney and       *)
(* Resolver have it.  The risk policy, RiskGate, may turn an order down.   *)
(***************************************************************************)
EXTENDS MarketFeed, Integers

CONSTANTS
    One,            \* a dollar, in units of price
    MinGap,         \* what an arbitrage must leave after the fees
    MinEdge         \* min_edge of the fundamentals

ASSUME DecisionAssumption ==
    /\ Tokens = {"YES", "NO"} /\ One \in Nat /\ \A l \in Levels : l < One
    /\ MinGap \in Nat \ {0} /\ MinEdge \in Nat

VARIABLES
    tick,       \* the tick under way: its signals, the asks at its start
    order,      \* the order made of them
    held,       \* tokens the ledger has a position object of
    claim       \* the probability a position claims, and of which outcome

tickVars == <<tick, order, held, claim>>
vars == <<feedVars, tickVars>>

Quiet == [pc |-> "idle", signals |-> {}, start |-> None]

Init ==
    /\ FeedInit
    /\ tick = Quiet /\ order = None /\ held = {} /\ claim = [t \in Tokens |-> None]

(* The mid stands for its ask: bids are not kept.                           *)
Asked(t) == local[t] # {}
Ask(t) == Min(local[t])

(* A signal: who, which side, the ask it saw, its own probability of that   *)
(* side and the price it compares that with, and the ask of the other side  *)
(* if it wants both.                                                        *)
Signal(who, t, p, market, partner) ==
    [strategy |-> who, side |-> t, price |-> Ask(t), p |-> p, market |-> market,
     partner |-> partner]

(* A bug: a gap in either direction counts.                                 *)
ArbitrageEither(who) ==
    IF Asked("YES") /\ Asked("NO")
          /\ (Ask("YES") + Ask("NO") + MinGap <= One \/ Ask("YES") + Ask("NO") >= One + MinGap)
    THEN {Signal(who, "YES", One, Ask("YES"), Ask("NO"))} ELSE {}

(* ArbitrageStrategy.evaluate()                                             *)
Arbitrage(who) ==
    IF Asked("YES") /\ Asked("NO") /\ Ask("YES") + Ask("NO") + MinGap <= One
    THEN {Signal(who, "YES", One, Ask("YES"), Ask("NO"))} ELSE {}

(* A strategy that likes side t claims some more than its ask, and less     *)
(* than a dollar.                                                           *)
Likes(who, t) ==
    IF Asked(t) THEN {Signal(who, t, Min({Ask(t) + 1, One - 1}), Ask(t), None)} ELSE {}

(* What moves them is left open: either side, or none.  The sentiment       *)
(* strategy also gives up when it claims no more than the ask.              *)
Nobody == {{}}
Sentiment  == {{s \in Likes("sentiment", t) : s.p > s.market} : t \in Tokens} \cup Nobody
SmartMoney == {Likes("smart_money", t) : t \in Tokens} \cup Nobody
StatQuant  == {Likes("stat_quant", t) : t \in Tokens} \cup Nobody

-----------------------------------------------------------------------------
(* tick() up to the language model, without a pause.                        *)
TickBegins ==
    /\ tick.pc = "idle" /\ boot = {} /\ rest = None
    /\ \E arbitrage \in {Arbitrage("arbitrage"), {}},
          sentiment \in Sentiment, smart \in SmartMoney, stat \in StatQuant :
         tick' = [pc |-> "asking", signals |-> arbitrage \cup sentiment \cup smart \cup stat,
                  start |-> local]
    /\ UNCHANGED <<feedVars, order, held, claim>>

Distance(a, b) == IF a > b THEN a - b ELSE b - a

(* FundamentalsStrategy.evaluate() with an estimate of YES, on the books as *)
(* they are now.  The side is chosen by the ask of YES; what it compares    *)
(* the probability of NO with is a dollar less that ask, not the ask of NO. *)
Fundamentals(yes) ==
    IF ~Asked("YES") \/ Distance(yes, Ask("YES")) < MinEdge \/ yes = Ask("YES") THEN {}
    ELSE IF yes > Ask("YES") THEN {Signal("fundamentals", "YES", yes, Ask("YES"), None)}
    ELSE IF Asked("NO")
         THEN {Signal("fundamentals", "NO", One - yes, One - Ask("YES"), None)} ELSE {}

(* A bug: signals for both sides are not in each other's way.               *)
UnopposedOrNot(signals) == signals # {}

(* Two strategies that want opposite sides stop the order.                  *)
Unopposed(signals) == \E t \in Tokens : signals # {} /\ \A s \in signals : s.side = t

(* sized_kelly() gives a stake to those who claim more than the price; an   *)
(* arbitrage is sized by the depth of the books.                            *)
Staked(signals) == \E s \in signals : s.p > s.market

(* SignalAggregator.aggregate(): the side of the signals, the highest of    *)
(* their prices, and both legs if one of them is an arbitrage.              *)
Aggregate(signals) ==
    LET arbs == {s \in signals : s.partner # None}
    IN  [token |-> (CHOOSE s \in signals : TRUE).side,
         price |-> Max({s.price : s \in signals}),
         pair  |-> IF arbs = {} THEN None ELSE (CHOOSE s \in arbs : TRUE).partner,
         signals |-> signals]

(* The model answers, or not, and the tick goes on to the router: an order  *)
(* needs signals, no opposition, conviction, a stake and the risk policy.   *)
TickDecides ==
    /\ tick.pc = "asking"
    /\ \E estimate \in {Fundamentals(p) : p \in 0 .. One} \cup Nobody :
       LET signals == tick.signals \cup estimate
       IN  \/ /\ Unopposed(signals) /\ Staked(signals)
              /\ order' = Aggregate(signals)
              /\ tick' = [tick EXCEPT !.pc = "routing", !.signals = {}]
           \/ tick' = Quiet /\ UNCHANGED order
    /\ UNCHANGED <<feedVars, held, claim>>

(* The router returns; the order is filled by now or not.  A claim of the   *)
(* fundamentals goes to the position of its token, if there is one.         *)
TickEnds ==
    /\ tick.pc = "routing"
    /\ \E filled \in BOOLEAN :
         /\ held' = IF filled THEN held \cup {order.token} ELSE held
         /\ claim' = IF order.token \in held'
                     THEN [claim EXCEPT ![order.token] =
                             IF \E s \in order.signals : s.strategy = "fundamentals"
                             THEN (CHOOSE s \in order.signals : s.strategy = "fundamentals").side
                             ELSE @]
                     ELSE claim
    /\ tick' = Quiet /\ order' = None
    /\ UNCHANGED feedVars

Tick == TickBegins \/ TickDecides \/ TickEnds

Next ==
    \/ Stream /\ UNCHANGED tickVars
    \/ tick.pc = "idle" /\ Subscribe /\ UNCHANGED tickVars
    \/ Tick

Spec == Init /\ [][Next]_vars

-----------------------------------------------------------------------------
TypeOK ==
    /\ FeedTypeOK
    /\ tick.pc \in {"idle", "asking", "routing"}
    /\ held \subseteq Tokens /\ claim \in [Tokens -> Tokens \cup {None}]

(* The limit price of an order is the best ask its own token had when the   *)
(* tick began, or the one the fundamentals saw when the model had answered, *)
(* although it is the highest of the prices of several strategies           *)
(* (aggregator.py:191).                                                     *)
PaysAnAsk ==
    order # None =>
        \/ tick.start[order.token] # {} /\ order.price = Min(tick.start[order.token])
        \/ \E s \in order.signals : s.strategy = "fundamentals" /\ s.price = order.price

(* Both legs of a pair together cost less than the dollar one of them will  *)
(* pay, unless the ask of YES rose while the model was asked and the model  *)
(* wanted YES as well (aggregator.py:191-224).                              *)
PairLocksProfit ==
    order # None /\ order.pair # None =>
        \/ order.price + order.pair < One
        \/ order.price > Min(tick.start["YES"])

(* What the strategy says of a pair: "buying both legs is a risk-free       *)
(* profit at resolution" (arbitrage.py:5-6), so the limit prices of the two *)
(* legs stay below the dollar that one of them pays.                        *)
LegsCostLessThanPayout ==
    order # None /\ order.pair # None => order.price + order.pair < One

(* The probability a position claims, which is scored when the market       *)
(* settles, is one of its own outcome (pipeline.py:301-320).                *)
ClaimIsOfToken == \A t \in Tokens : claim[t] # None => claim[t] = t
=============================================================================
