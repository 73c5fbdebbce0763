------------------------------ MODULE Resolver ------------------------------
(***************************************************************************)
(* LLMResolver (fundamentals/llm_resolver.py): it asks a cheap model for a *)
(* probability, an expensive one when the cheap answer is far from the     *)
(* price, keeps the answer for a time, lets one caller at a time ask about *)
(* a market and stops at a daily budget.  One instance, any number of      *)
(* callers: the pipeline has one, the calibration backtest up to four on   *)
(* an instance of its own.  Of an estimate only what the control tells     *)
(* apart is kept: whether it warrants the second query, and which tier     *)
(* gave it.  A step is the code between two awaits.  Nothing of it is      *)
(* stored: a restart begins with an empty cache and a counter at zero.     *)
(***************************************************************************)
EXTENDS Naturals, Sequences, SequencesExt, FiniteSets

CONSTANTS
    Callers, Markets,
    None,
    TriageCost, DeepCost,  \* price of one reply of each model
    Priced,                \* tiers whose model is in _TOKEN_PRICE_USD
    Budget,                \* _budget_usd
    TTL,                   \* _cache_ttl, in steps of the clock
    DayLen, Start,         \* steps of a day, and when the agent starts
    MaxTime, MaxRestarts,  \* bounds on the clock, and on the restarts of a day
    MaxQuery               \* how long a caller can hold a lock: timeouts of the SDK

ASSUME CallersAssumption == IsFiniteSet(Callers) /\ Callers # {}
ASSUME CostAssumption ==
    /\ Priced \subseteq {"triage", "deep"}
    /\ TriageCost \in Nat \ {0} /\ DeepCost \in Nat /\ TriageCost <= DeepCost
    /\ Budget \in Nat
ASSUME TimeAssumption ==
    /\ TTL \in Nat \ {0} /\ DayLen \in Nat \ {0}
    /\ MaxTime \in Nat /\ MaxRestarts \in Nat /\ Start \in 0..MaxTime /\ MaxQuery \in Nat

VARIABLES
    now,           \* the clock
    cache,         \* _cache: the estimate of a market and when it expires
    lock,          \* _inflight: callers of a market, the head holds the lock
    call,          \* what each caller is doing
    usage,         \* LLMUsage: spend_usd_today, last_reset_date
    billed,        \* observation: charges of a day that a counter was told of
    restarts       \* restarts of a day (bounded)

vars == <<now, cache, lock, call, usage, billed, restarts>>

Day(t) == t \div DayLen
Days == Day(Start) .. Day(MaxTime)

Idle == [at |-> "idle"]
Busy == {c \in Callers : call[c].at # "idle"}
Holds(c) == call[c].at \in {"triage", "deep"}

(* A call under way: it waits for the lock, or for the reply of a tier.     *)
Call == [at : {"waiting", "triage", "deep"}, market : Markets, asked : Nat, since : Nat,
         priced : BOOLEAN, tries : {0, 1}]
Entry == [tier : {"triage", "deep"}, expires : Nat]

TypeOK ==
    /\ now \in Nat
    /\ cache \in [Markets -> Entry \cup {None}]
    /\ lock \in [Markets -> Seq(Callers)]
    /\ call \in [Callers -> Call \cup {Idle}]
    /\ usage \in [spent : Nat, day : Days] /\ billed \in [Days -> Nat]
    /\ restarts \in [Days -> Nat]

Init ==
    /\ now = Start
    /\ cache = [m \in Markets |-> None]
    /\ lock = [m \in Markets |-> <<>>]
    /\ call = [c \in Callers |-> Idle]
    /\ usage = [spent |-> 0, day |-> Day(Start)]
    /\ billed = [d \in Days |-> 0]
    /\ restarts = [d \in Days |-> 0]

Fresh(m, t) == cache[m] # None /\ cache[m].expires > t

(* A bug: the date of the last reset is not moved on.                       *)
ResetEver(u) == IF u.day = Day(now) THEN u ELSE [spent |-> 0, day |-> u.day]

(* maybe_reset_daily                                                        *)
Reset(u) == IF u.day = Day(now) THEN u ELSE [spent |-> 0, day |-> Day(now)]

(* resolve_async up to the lock: a cached answer, a budget that is used up, *)
(* or a place in the queue of the market.  priced: the context has a price. *)
Ask(c, m, priced) ==
    /\ c \notin Busy
    /\ IF Fresh(m, now)
       THEN UNCHANGED <<usage, call, lock>>
       ELSE /\ usage' = Reset(usage)
            /\ IF usage'.spent >= Budget
               THEN UNCHANGED <<call, lock>>
               ELSE /\ call' = [call EXCEPT ![c] =
                            [at |-> "waiting", market |-> m, asked |-> now, since |-> 0,
                             priced |-> priced, tries |-> 0]]
                    /\ lock' = [lock EXCEPT ![m] = Append(@, c)]
    /\ UNCHANGED <<now, cache, billed, restarts>>

(* The caller returns and the lock goes to the next one.                    *)
Return(c) ==
    /\ lock' = [lock EXCEPT ![call[c].market] = Tail(@)]
    /\ call' = [call EXCEPT ![c] = Idle]

(* A bug: the cache is not looked at again under the lock.                  *)
EnterUnchecked(c) ==
    /\ call[c].at = "waiting" /\ Head(lock[call[c].market]) = c
    /\ call' = [call EXCEPT ![c].at = "triage", ![c].since = now]
    /\ UNCHANGED <<now, cache, lock, usage, billed, restarts>>

(* The lock is free: another caller may have filled the cache, which is     *)
(* compared with the time this one asked at.                                *)
Enter(c) ==
    /\ call[c].at = "waiting" /\ Head(lock[call[c].market]) = c
    /\ IF Fresh(call[c].market, call[c].asked)
       THEN Return(c)
       ELSE /\ call' = [call EXCEPT ![c].at = "triage", ![c].since = now]
            /\ UNCHANGED lock
    /\ UNCHANGED <<now, cache, usage, billed, restarts>>

Cost(c) == IF call[c].at = "deep" THEN DeepCost ELSE TriageCost

(* _accrue_spend: a model that is not in the price table costs nothing.     *)
(* The counter is not reset here.                                           *)
Accrue(c) ==
    IF call[c].at \in Priced
    THEN /\ usage' = [usage EXCEPT !.spent = @ + Cost(c)]
         /\ billed' = [billed EXCEPT ![Day(now)] = @ + Cost(c)]
    ELSE UNCHANGED <<usage, billed>>

Store(c, tier) ==
    cache' = [cache EXCEPT ![call[c].market] =
        [tier |-> tier, expires |-> call[c].asked + TTL]]

(* _query returns an estimate.  big: it is far from the price and the model *)
(* is confident enough for the second tier.                                 *)
Reply(c, big) ==
    /\ Holds(c)
    /\ Accrue(c)
    /\ IF call[c].at = "triage" /\ big /\ call[c].priced
       THEN /\ call' = [call EXCEPT ![c].at = "deep", ![c].tries = 0]
            /\ UNCHANGED <<cache, lock>>
       ELSE Store(c, call[c].at) /\ Return(c)
    /\ UNCHANGED <<now, restarts>>

(* A bug: a query that failed for good keeps its lock.                      *)
GiveUpLocked(c) ==
    /\ call' = [call EXCEPT ![c] = Idle]
    /\ UNCHANGED <<cache, lock>>

(* Both attempts failed: no answer, or the answer of the first tier.        *)
GiveUp(c) ==
    /\ IF call[c].at = "deep" THEN Store(c, "triage") ELSE UNCHANGED cache
    /\ Return(c)

(* An attempt fails: there is no reply, be it charged or not, or it cannot  *)
(* be parsed.                                                               *)
Fail(c, replied) ==
    /\ Holds(c)
    /\ IF replied THEN Accrue(c) ELSE UNCHANGED <<usage, billed>>
    /\ IF call[c].tries = 0
       THEN call' = [call EXCEPT ![c].tries = 1] /\ UNCHANGED <<cache, lock>>
       ELSE GiveUp(c)
    /\ UNCHANGED <<now, restarts>>

(* get_usage, read by the refresh task of the broker.                       *)
GetUsage ==
    /\ usage' = Reset(usage)
    /\ UNCHANGED <<now, cache, lock, call, billed, restarts>>

(* Time passes, but no query outlasts its timeouts.                         *)
Tick ==
    /\ now < MaxTime
    /\ \A c \in Callers : Holds(c) => now - call[c].since < MaxQuery
    /\ now' = now + 1
    /\ UNCHANGED <<cache, lock, call, usage, billed, restarts>>

(* A new process: the counter, the cache and the locks start over.          *)
Restart ==
    /\ restarts[Day(now)] < MaxRestarts
    /\ restarts' = [restarts EXCEPT ![Day(now)] = @ + 1]
    /\ cache' = [m \in Markets |-> None]
    /\ lock' = [m \in Markets |-> <<>>]
    /\ call' = [c \in Callers |-> Idle]
    /\ usage' = [spent |-> 0, day |-> Day(now)]
    /\ UNCHANGED <<now, billed>>

Step(c) == Enter(c) \/ (\E b \in BOOLEAN : Reply(c, b) \/ Fail(c, b))

Next ==
    \/ \E c \in Callers, m \in Markets, b \in BOOLEAN : Ask(c, m, b)
    \/ \E c \in Callers : Step(c)
    \/ GetUsage
    \/ Tick
    \/ Restart

(* The event loop runs a caller whose lock is free, and the client of the   *)
(* SDK ends every request with a reply or an error.                         *)
Fairness == \A c \in Callers : WF_vars(Step(c))

Spec == Init /\ [][Next]_vars
FairSpec == Spec /\ Fairness

-----------------------------------------------------------------------------
(* Properties.                                                              *)

(* What one caller can be charged for once it has passed the budget check:  *)
(* two attempts on each tier.                                               *)
MaxResolve == 2 * TriageCost + 2 * DeepCost

(* What is still to come of a call.                                         *)
Pending(c) ==
    CASE call[c].at = "waiting" -> MaxResolve
      [] call[c].at = "triage"  -> (2 - call[c].tries) * TriageCost + 2 * DeepCost
      [] call[c].at = "deep"    -> (2 - call[c].tries) * DeepCost
      [] OTHER -> 0

(* The budget is looked at before the lock and before the replies are paid, *)
(* and a reply after midnight is booked on a counter that is about to be    *)
(* reset: still each process that runs on a day is told of charges below    *)
(* the budget and the calls under way, once at midnight and once when the   *)
(* budget runs out (resolve_async, _accrue_spend, maybe_reset_daily).  What *)
(* no counter is told of, unpriced models and lost replies, is not bounded. *)
SpendIsBounded ==
    \A d \in Days :
       billed[d] < (1 + restarts[d]) * (Budget + 2 * Cardinality(Callers) * MaxResolve)

(* A query is only started for a market about which nobody else is asking   *)
(* and whose answer is not in the cache, however many callers passed the    *)
(* first look at the cache together (resolve_async, the lock).              *)
OneQueryPerMarket ==
    [][\A c \in Callers :
         call[c].at = "waiting" /\ call'[c].at = "triage" =>
            /\ ~Fresh(call[c].market, now)
            /\ \A o \in Callers \ {c} : Holds(o) => call[o].market # call[c].market]_vars

(* Every call of resolve_async returns: no failure of a query, of either    *)
(* tier, leaves the market locked.                                          *)
ResolveEnds == \A c \in Callers : c \in Busy ~> c \notin Busy

(* "Budget guard -- Daily USD ceiling.  When breached, every subsequent     *)
(* call returns None until UTC midnight resets" (llm_resolver.py): no       *)
(* caller goes on to the API once the charges of the day reach the budget.  *)
BudgetGuards ==
    [][\A c \in Callers :
         call[c].at = "idle" /\ call'[c].at = "waiting" => billed[Day(now)] < Budget]_vars

=============================================================================
