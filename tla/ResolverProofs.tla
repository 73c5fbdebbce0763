--------------------------- MODULE ResolverProofs ---------------------------
(***************************************************************************)
(* Proofs about Resolver: whatever the number of callers and markets, two  *)
(* queries about one market never run together, none starts for an answer  *)
(* that is in the cache, and the bill of a day is bounded.                 *)
(***************************************************************************)
EXTENDS Resolver, FiniteSetTheorems, WellFoundedInduction, TLAPS

(* The part of TypeOK the lock needs.                                       *)
LockTypeOK ==
    /\ now \in Nat
    /\ cache \in [Markets -> Entry \cup {None}]
    /\ lock \in [Markets -> Seq(Callers)]
    /\ call \in [Callers -> Call \cup {Idle}]

Waits(c) == call[c].at = "waiting"

(* Who holds a lock heads its queue, and who waits for it is in it.  A      *)
(* caller asked in the past.                                                *)
LockInv ==
    /\ LockTypeOK
    /\ \A c \in Callers : Holds(c) =>
          lock[call[c].market] # <<>> /\ Head(lock[call[c].market]) = c
    /\ \A c \in Callers : Waits(c) =>
          \E i \in 1 .. Len(lock[call[c].market]) : lock[call[c].market][i] = c
    /\ \A c \in Callers : Waits(c) \/ Holds(c) => call[c].asked <= now

(* A caller that is not idle carries its market and its times.              *)
LEMMA BusyCall ==
    ASSUME LockTypeOK, NEW c \in Callers, Waits(c) \/ Holds(c)
    PROVE  call[c] \in Call
  BY DEF LockTypeOK, Waits, Holds, Idle

(* Every caller is idle and the lock is free.                               *)
LEMMA LockInvInit == Init => LockInv
<1> SUFFICES ASSUME Init PROVE LockInv
  OBVIOUS
<1>1. LockTypeOK
  BY TimeAssumption DEF Init, LockTypeOK, Idle
<1>2. \A c \in Callers : call[c].at = "idle"
  BY DEF Init, Idle
<1> QED
  BY <1>1, <1>2 DEF LockInv, Waits, Holds

(* When the head of a queue returns, the others keep their places.          *)
LEMMA ReturnKeeps ==
    ASSUME LockInv, NEW c \in Callers, Waits(c) \/ Holds(c),
           Head(lock[call[c].market]) = c, Return(c),
           now' = now, cache' \in [Markets -> Entry \cup {None}]
    PROVE  LockInv'
<1> DEFINE m == call[c].market
<1>1. call[c] \in Call /\ m \in Markets
  BY BusyCall DEF LockInv, Call
<1>2. lock[m] \in Seq(Callers) /\ lock[m] # <<>>
  BY <1>1 DEF LockInv, LockTypeOK
<1>3. Tail(lock[m]) \in Seq(Callers) /\ Len(Tail(lock[m])) = Len(lock[m]) - 1
      /\ \A i \in 1 .. Len(lock[m]) - 1 : Tail(lock[m])[i] = lock[m][i + 1]
  BY <1>2
<1>4. lock' = [lock EXCEPT ![m] = Tail(lock[m])] /\ call' = [call EXCEPT ![c] = Idle]
  BY DEF Return
<1>5. LockTypeOK'
  BY <1>1, <1>3, <1>4 DEF LockInv, LockTypeOK
<1>6. ~Waits(c)' /\ ~Holds(c)'
  BY <1>4 DEF LockInv, LockTypeOK, Waits, Holds, Idle
<1>7. ASSUME NEW o \in Callers, o # c PROVE call'[o] = call[o]
  BY <1>4, <1>7 DEF LockInv, LockTypeOK
<1>8. ASSUME NEW o \in Callers, o # c, Holds(o)
      PROVE  call[o].market \in Markets /\ call[o].market # m
  <2>1. call[o].market \in Markets
    BY <1>8, BusyCall DEF LockInv, Call
  <2> QED
    BY <1>8, <2>1 DEF LockInv
<1>9. ASSUME NEW o \in Callers, o # c, Waits(o)
      PROVE  \E i \in 1 .. Len(lock'[call[o].market]) : lock'[call[o].market][i] = o
  <2>1. call[o].market \in Markets
    BY <1>9, BusyCall DEF LockInv, Call
  <2>2. PICK i \in 1 .. Len(lock[call[o].market]) : lock[call[o].market][i] = o
    BY <1>9 DEF LockInv
  <2>3. CASE call[o].market # m
    BY <1>4, <2>1, <2>2, <2>3 DEF LockInv, LockTypeOK
  <2>4. CASE call[o].market = m
    <3>1. i # 1
      BY <1>9, <2>2, <2>4, <1>2
    <3>2. lock'[m] = Tail(lock[m])
      BY <1>1, <1>4 DEF LockInv, LockTypeOK
    <3>3. i - 1 \in 1 .. Len(lock[m]) - 1 /\ Tail(lock[m])[i - 1] = o
      BY <1>3, <2>2, <2>4, <3>1, <1>2
    <3> QED
      BY <1>3, <2>4, <3>2, <3>3
  <2> QED
    BY <2>3, <2>4
<1>10. ASSUME NEW o \in Callers, Holds(o)'
       PROVE  lock'[call'[o].market] # <<>> /\ Head(lock'[call'[o].market]) = o
  <2>1. o # c
    BY <1>6, <1>10
  <2>2. call'[o] = call[o] /\ Holds(o)
    BY <1>7, <1>10, <2>1 DEF Holds
  <2>3. lock'[call[o].market] = lock[call[o].market]
    BY <1>4, <1>8, <2>1, <2>2 DEF LockInv, LockTypeOK
  <2> QED
    BY <2>2, <2>3 DEF LockInv
<1>11. ASSUME NEW o \in Callers, Waits(o)'
       PROVE  \E i \in 1 .. Len(lock'[call'[o].market]) : lock'[call'[o].market][i] = o
  <2>1. o # c
    BY <1>6, <1>11
  <2>2. call'[o] = call[o] /\ Waits(o)
    BY <1>7, <1>11, <2>1 DEF Waits
  <2> QED
    BY <1>9, <2>1, <2>2
<1>12. ASSUME NEW o \in Callers, Waits(o)' \/ Holds(o)' PROVE call'[o].asked <= now'
  <2>1. o # c
    BY <1>6, <1>12
  <2>2. call'[o] = call[o]
    BY <1>7, <2>1
  <2> QED
    BY <1>12, <2>2 DEF LockInv, Waits, Holds
<1> QED
  BY <1>5, <1>10, <1>11, <1>12 DEF LockInv

(* When the head of a queue goes on to a query, or to the next attempt, its *)
(* market and the time it asked at stay, and so do all the others.          *)
LEMMA QueryKeeps ==
    ASSUME LockInv, NEW c \in Callers, Waits(c) \/ Holds(c),
           Head(lock[call[c].market]) = c,
           NEW new \in Call, new.at \in {"triage", "deep"},
           new.market = call[c].market, new.asked = call[c].asked,
           call' = [call EXCEPT ![c] = new], UNCHANGED <<now, lock, cache>>
    PROVE  LockInv'
<1>1. call'[c] = new /\ \A o \in Callers \ {c} : call'[o] = call[o]
  BY DEF LockInv, LockTypeOK
<1>2. LockTypeOK'
  BY DEF LockInv, LockTypeOK
<1>3. lock[call[c].market] # <<>>
  BY BusyCall DEF LockInv, LockTypeOK, Call
<1> QED
  BY <1>1, <1>2, <1>3 DEF LockInv, Waits, Holds

(* A new estimate has the type of one.                                      *)
LEMMA StoreTyped ==
    ASSUME LockInv, NEW c \in Callers, Holds(c), NEW tier \in {"triage", "deep"}, Store(c, tier)
    PROVE  cache' \in [Markets -> Entry \cup {None}]
<1>1. call[c].asked + TTL \in Nat /\ call[c].market \in Markets
  BY BusyCall, TimeAssumption DEF LockInv, Call
<1>2. [tier |-> tier, expires |-> call[c].asked + TTL] \in Entry
  BY <1>1 DEF Entry
<1> QED
  BY <1>1, <1>2 DEF Store, LockInv, LockTypeOK

(* What a caller does while it has the lock.                                *)
LEMMA StepKeeps ==
    ASSUME LockInv, NEW c \in Callers, Step(c)
    PROVE  LockInv'
<1>1. CASE Enter(c)
  <2>1. Waits(c) /\ Head(lock[call[c].market]) = c
    BY <1>1 DEF Enter, Waits
  <2>2. CASE Return(c) /\ UNCHANGED <<now, cache>>
    BY <2>1, <2>2, ReturnKeeps DEF LockInv, LockTypeOK
  <2>3. CASE /\ call' = [call EXCEPT ![c].at = "triage", ![c].since = now]
             /\ UNCHANGED <<now, lock, cache>>
    <3> DEFINE new == [call[c] EXCEPT !.at = "triage", !.since = now]
    <3>1. call[c] \in Call /\ now \in Nat
      BY <2>1, BusyCall DEF LockInv, LockTypeOK
    <3>2. new \in Call /\ new.at = "triage" /\ new.market = call[c].market
          /\ new.asked = call[c].asked
      BY <3>1 DEF Call
    <3>3. call' = [call EXCEPT ![c] = new]
      BY <2>3
    <3> QED
      BY <2>1, <2>3, <3>2, <3>3, QueryKeeps
  <2> QED
    BY <1>1, <2>2, <2>3 DEF Enter
<1>2. ASSUME NEW b \in BOOLEAN, Reply(c, b) PROVE LockInv'
  <2>1. Holds(c) /\ Head(lock[call[c].market]) = c /\ now' = now
    BY <1>2 DEF Reply, LockInv
  <2>2. CASE /\ call' = [call EXCEPT ![c].at = "deep", ![c].tries = 0]
             /\ UNCHANGED <<cache, lock>>
    <3> DEFINE new == [call[c] EXCEPT !.at = "deep", !.tries = 0]
    <3>1. call[c] \in Call
      BY <2>1, BusyCall DEF LockInv
    <3>2. new \in Call /\ new.at = "deep" /\ new.market = call[c].market
          /\ new.asked = call[c].asked
      BY <3>1 DEF Call
    <3>3. call' = [call EXCEPT ![c] = new]
      BY <2>2
    <3> QED
      BY <2>1, <2>2, <3>2, <3>3, QueryKeeps
  <2>3. CASE Store(c, call[c].at) /\ Return(c)
    <3>1. call[c].at \in {"triage", "deep"}
      BY <2>1 DEF Holds
    <3> QED
      BY <2>1, <2>3, <3>1, StoreTyped, ReturnKeeps
  <2> QED
    BY <1>2, <2>2, <2>3 DEF Reply
<1>3. ASSUME NEW b \in BOOLEAN, Fail(c, b) PROVE LockInv'
  <2>1. Holds(c) /\ Head(lock[call[c].market]) = c /\ now' = now
    BY <1>3 DEF Fail, LockInv
  <2>2. CASE call' = [call EXCEPT ![c].tries = 1] /\ UNCHANGED <<cache, lock>>
    <3> DEFINE new == [call[c] EXCEPT !.tries = 1]
    <3>1. call[c] \in Call /\ call[c].at \in {"triage", "deep"}
      BY <2>1, BusyCall DEF LockInv, Holds
    <3>2. new \in Call /\ new.at = call[c].at /\ new.market = call[c].market
          /\ new.asked = call[c].asked
      BY <3>1 DEF Call
    <3>3. call' = [call EXCEPT ![c] = new]
      BY <2>2
    <3> QED
      BY <2>1, <2>2, <3>1, <3>2, <3>3, QueryKeeps
  <2>3. CASE GiveUp(c)
    <3>1. cache' \in [Markets -> Entry \cup {None}]
      BY <2>1, <2>3, StoreTyped DEF GiveUp, LockInv, LockTypeOK
    <3> QED
      BY <2>1, <2>3, <3>1, ReturnKeeps DEF GiveUp
  <2> QED
    BY <1>3, <2>2, <2>3 DEF Fail
<1> QED
  BY <1>1, <1>2, <1>3 DEF Step

(* A caller that takes its place stands behind all the others.              *)
LEMMA AskKeeps ==
    ASSUME LockInv, NEW c \in Callers, NEW m \in Markets, NEW b \in BOOLEAN, Ask(c, m, b)
    PROVE  LockInv'
<1>1. CASE UNCHANGED <<call, lock>>
  BY <1>1 DEF Ask, LockInv, LockTypeOK, Waits, Holds
<1>2. CASE /\ call' = [call EXCEPT ![c] = [at |-> "waiting", market |-> m, asked |-> now,
                                           since |-> 0, priced |-> b, tries |-> 0]]
           /\ lock' = [lock EXCEPT ![m] = Append(@, c)]
  <2> DEFINE new == [at |-> "waiting", market |-> m, asked |-> now,
                     since |-> 0, priced |-> b, tries |-> 0]
  <2>1. new \in Call /\ new.at = "waiting" /\ new.market = m /\ new.asked = now
    BY DEF Call, LockInv, LockTypeOK
  <2> HIDE DEF new
  <2>2. call' = [call EXCEPT ![c] = new] /\ UNCHANGED <<now, cache>>
    BY <1>2 DEF new, Ask
  <2>3. lock[m] \in Seq(Callers)
    BY DEF LockInv, LockTypeOK
  <2>4. /\ Append(lock[m], c) \in Seq(Callers)
        /\ Len(Append(lock[m], c)) = Len(lock[m]) + 1
        /\ Append(lock[m], c)[Len(lock[m]) + 1] = c
        /\ \A i \in 1 .. Len(lock[m]) : Append(lock[m], c)[i] = lock[m][i]
        /\ lock[m] # <<>> => Head(Append(lock[m], c)) = Head(lock[m])
    BY <2>3
  <2>5. LockTypeOK'
    BY <1>2, <2>1, <2>2, <2>4 DEF LockInv, LockTypeOK
  <2>6. /\ call'[c] = new /\ \A o \in Callers \ {c} : call'[o] = call[o]
        /\ lock'[m] = Append(lock[m], c)
        /\ \A n \in Markets \ {m} : lock'[n] = lock[n]
    BY <1>2, <2>2 DEF LockInv, LockTypeOK
  <2>7. ASSUME NEW o \in Callers, o # c, Waits(o) \/ Holds(o) PROVE call[o].market \in Markets
    BY <2>7, BusyCall DEF LockInv, Call
  <2>8. ASSUME NEW o \in Callers, Holds(o)'
        PROVE  lock'[call'[o].market] # <<>> /\ Head(lock'[call'[o].market]) = o
    <3>1. o # c /\ call'[o] = call[o] /\ Holds(o)
      BY <2>1, <2>6, <2>8 DEF Holds
    <3>2. lock[call[o].market] # <<>> /\ Head(lock[call[o].market]) = o
      BY <3>1 DEF LockInv
    <3>3. CASE call[o].market = m
      BY <2>3, <2>4, <2>6, <3>1, <3>2, <3>3
    <3>4. CASE call[o].market # m
      BY <2>6, <2>7, <3>1, <3>2, <3>4
    <3> QED
      BY <3>3, <3>4
  <2>9. ASSUME NEW o \in Callers, Waits(o)'
        PROVE  \E i \in 1 .. Len(lock'[call'[o].market]) : lock'[call'[o].market][i] = o
    <3>1. CASE o = c
      <4>1. Len(lock[m]) + 1 \in 1 .. Len(lock'[m])
        BY <2>3, <2>4, <2>6
      <4> QED
        BY <2>1, <2>4, <2>6, <3>1, <4>1
    <3>2. CASE o # c
      <4>1. call'[o] = call[o] /\ Waits(o)
        BY <2>6, <2>9, <3>2 DEF Waits
      <4>2. PICK i \in 1 .. Len(lock[call[o].market]) : lock[call[o].market][i] = o
        BY <4>1 DEF LockInv
      <4>3. CASE call[o].market = m
        BY <2>3, <2>4, <2>6, <4>1, <4>2, <4>3
      <4>4. CASE call[o].market # m
        BY <2>6, <2>7, <3>2, <4>1, <4>2, <4>4
      <4> QED
        BY <4>3, <4>4
    <3> QED
      BY <3>1, <3>2
  <2>10. ASSUME NEW o \in Callers, Waits(o)' \/ Holds(o)' PROVE call'[o].asked <= now'
    <3>1. CASE o = c
      BY <2>1, <2>2, <2>6, <3>1 DEF LockInv, LockTypeOK
    <3>2. CASE o # c
      BY <2>2, <2>6, <2>10, <3>2 DEF LockInv, Waits, Holds
    <3> QED
      BY <3>1, <3>2
  <2> QED
    BY <2>5, <2>8, <2>9, <2>10 DEF LockInv
<1> QED
  BY <1>1, <1>2 DEF Ask

(* A new process has no callers, and no locks to keep.                      *)
LEMMA RestartKeepsLock ==
    ASSUME LockInv, Restart
    PROVE  LockInv'
<1>1. LockTypeOK' /\ \A c \in Callers : call'[c].at = "idle"
  BY DEF Restart, LockInv, LockTypeOK, Idle
<1> QED
  BY <1>1 DEF LockInv, Waits, Holds

(* Time passes, a caller asks, one that holds the lock goes on, and the     *)
(* process restarts: each keeps the discipline of the lock.                 *)
LEMMA LockInvNext == LockInv /\ [Next]_vars => LockInv'
<1> SUFFICES ASSUME LockInv, [Next]_vars PROVE LockInv'
  OBVIOUS
<1>1. CASE UNCHANGED <<now, cache, lock, call>>
  BY <1>1 DEF LockInv, LockTypeOK, Waits, Holds
<1>2. CASE Tick
  <2>1. now \in Nat /\ now' = now + 1 /\ UNCHANGED <<cache, lock, call>>
    BY <1>2 DEF Tick, LockInv, LockTypeOK
  <2>2. ASSUME NEW c \in Callers, Waits(c) \/ Holds(c) PROVE call[c].asked <= now + 1
    BY <2>1, <2>2, BusyCall DEF LockInv, Call
  <2> QED
    BY <2>1, <2>2 DEF LockInv, LockTypeOK, Waits, Holds
<1> QED
  BY <1>1, <1>2, AskKeeps, StepKeeps, RestartKeepsLock DEF Next, GetUsage, vars

(* An estimate that is stale for the time a caller asked at is stale now.   *)
LEMMA StaleStays ==
    ASSUME LockInv, NEW c \in Callers, Waits(c), ~Fresh(call[c].market, call[c].asked)
    PROVE  ~Fresh(call[c].market, now)
<1>1. call[c].market \in Markets /\ call[c].asked \in Nat /\ call[c].asked <= now
  BY BusyCall DEF LockInv, Call
<1>2. cache[call[c].market] # None => cache[call[c].market].expires \in Nat
  BY <1>1 DEF LockInv, LockTypeOK, Entry
<1> QED
  BY <1>1, <1>2 DEF Fresh, LockInv, LockTypeOK

(* Only Enter turns a wait into a query.                                    *)
LEMMA QueryStarts ==
    ASSUME LockInv, [Next]_vars, NEW c \in Callers, Waits(c), call'[c].at = "triage"
    PROVE  Enter(c) /\ ~Fresh(call[c].market, call[c].asked)
<1>1. Waits(c) /\ ~Holds(c) /\ c \in Busy /\ call'[c] # call[c]
  BY DEF Waits, Holds, Busy
<1>2. call \in [Callers -> Call \cup {Idle}] /\ call' \in [Callers -> Call \cup {Idle}]
  BY LockInvNext DEF LockInv, LockTypeOK
<1>3. ~ UNCHANGED call
  BY <1>1
<1>4. ASSUME NEW o \in Callers, NEW m \in Markets, NEW b \in BOOLEAN, Ask(o, m, b) PROVE FALSE
  <2>1. o # c
    BY <1>1, <1>4 DEF Ask
  <2>2. call'[c] = call[c]
    BY <1>2, <1>4, <2>1 DEF Ask
  <2> QED
    BY <1>1, <2>2
<1>5. PICK o \in Callers : Step(o)
  <2>1. ~Restart
    BY DEF Restart, Idle
  <2> QED
    BY <1>3, <1>4, <2>1 DEF Next, GetUsage, Tick, vars
<1>6. ASSUME NEW b \in BOOLEAN, Reply(o, b) \/ Fail(o, b) PROVE FALSE
  <2>1. o # c
    BY <1>1, <1>6 DEF Reply, Fail
  <2>2. call'[c] = call[c]
    BY <1>2, <1>6, <2>1 DEF Reply, Fail, GiveUp, Return
  <2> QED
    BY <1>1, <2>2
<1>7. Enter(o)
  BY <1>5, <1>6 DEF Step
<1>8. o = c
  BY <1>1, <1>2, <1>7 DEF Enter, Return
<1>9. ~Fresh(call[c].market, call[c].asked)
  <2> SUFFICES ASSUME Return(c) PROVE FALSE
    BY <1>7, <1>8 DEF Enter
  <2>1. call'[c] = Idle
    BY <1>2 DEF Return
  <2> QED
    BY <2>1 DEF Idle
<1> QED
  BY <1>7, <1>8, <1>9

(* A query is only started for a market about which nobody else is asking   *)
(* and whose answer is not in the cache, for any number of callers and      *)
(* markets and whatever fails (resolve_async, the lock).                    *)
THEOREM OneQueryAtATime == Spec => OneQueryPerMarket
<1>1. LockInv /\ [Next]_vars =>
        \A c \in Callers : call[c].at = "waiting" /\ call'[c].at = "triage" =>
          /\ ~Fresh(call[c].market, now)
          /\ \A o \in Callers \ {c} : Holds(o) => call[o].market # call[c].market
  <2> SUFFICES ASSUME LockInv, [Next]_vars, NEW c \in Callers, Waits(c), call'[c].at = "triage"
               PROVE  /\ ~Fresh(call[c].market, now)
                      /\ \A o \in Callers \ {c} : Holds(o) => call[o].market # call[c].market
    BY DEF Waits
  <2>1. Head(lock[call[c].market]) = c /\ ~Fresh(call[c].market, call[c].asked)
    BY QueryStarts DEF Enter
  <2> QED
    BY <2>1, StaleStays DEF LockInv
<1> QED
  BY <1>1, LockInvInit, LockInvNext, PTL DEF Spec, OneQueryPerMarket
-----------------------------------------------------------------------------
(* What is still to be paid: the callers one after the other.               *)

LEMMA LeastNumber ==
    ASSUME NEW S \in SUBSET Nat, S # {}
    PROVE  \E m \in S : \A x \in S : m <= x
<1> DEFINE T == {0..k : k \in S}
           R == StrictSubsetOrdering(Nat)
<1>1. IsWellFoundedOn(R, FiniteSubsetsOf(Nat))
  BY FS_StrictSubsetOrderingWellFounded
<1>2. T \subseteq FiniteSubsetsOf(Nat) /\ T # {}
  <2>1. ASSUME NEW k \in S PROVE 0..k \in FiniteSubsetsOf(Nat)
    <3>1. k \in Int /\ 0 \in Int /\ 0..k \subseteq Nat
      OBVIOUS
    <3>2. IsFiniteSet(0..k)
      BY <3>1, FS_Interval
    <3> QED
      BY <3>1, <3>2 DEF FiniteSubsetsOf
  <2> QED
    BY <2>1
<1>3. PICK x \in T : \A y \in T : ~ (<<y, x>> \in R)
  <2> HIDE DEF T, R
  <2> QED
    BY <1>1, <1>2, WFMin
<1>4. PICK m \in S : x = 0..m
  BY <1>3
<1>5. ASSUME NEW k \in S, k < m PROVE FALSE
  <2>1. 0..k \in T /\ 0..k \subseteq 0..m /\ 0..k # 0..m /\ 0..k \subseteq Nat /\ 0..m \subseteq Nat
    BY <1>5
  <2> QED
    BY <1>3, <1>4, <2>1 DEF StrictSubsetOrdering
<1> QED
  BY <1>5

(* A running total of n terms between 0 and m ends between 0 and n * m.     *)
LEMMA TotalIsBounded ==
    ASSUME NEW n \in Nat, NEW m \in Nat, NEW acc \in [0..n -> Int], acc[0] = 0,
           \A i \in 1..n : acc[i] - acc[i - 1] \in 0..m
    PROVE  0 <= acc[n] /\ acc[n] <= n * m
<1> DEFINE Bad == {i \in 0..n : ~ (0 <= acc[i] /\ acc[i] <= i * m)}
<1> SUFFICES ASSUME Bad # {} PROVE FALSE
  <2>1. n \in 0..n
    OBVIOUS
  <2> QED
    BY <2>1
<1>1. Bad \in SUBSET Nat
  OBVIOUS
<1>2. PICK i \in Bad : \A j \in Bad : i <= j
  <2> HIDE DEF Bad
  <2> QED
    BY <1>1, LeastNumber
<1>3. i \in 0..n /\ i # 0
  <2>1. 0 * m = 0
    OBVIOUS
  <2> QED
    BY <1>2, <2>1
<1>4. i - 1 \in 0..n /\ i - 1 \notin Bad /\ i \in 1..n
  BY <1>2, <1>3
<1>5. 0 <= acc[i - 1] /\ acc[i - 1] <= (i - 1) * m
  BY <1>4
<1>6. acc[i] \in Int /\ acc[i - 1] \in Int /\ acc[i] - acc[i - 1] \in 0..m
  BY <1>4
<1>7. i * m = (i - 1) * m + m /\ (i - 1) * m \in Int
  BY <1>3
<1>8. 0 <= acc[i] /\ acc[i] <= i * m
  <2> HIDE DEF Bad
  <2> QED
    BY <1>5, <1>6, <1>7
<1> QED
  BY <1>2, <1>8

N == Cardinality(Callers)

(* The callers in some order.                                               *)
Place == CHOOSE p : p \in Bijection(1..N, Callers)

(* The callers stand in N different places.                                 *)
LEMMA PlaceIsOneToOne ==
    /\ N \in Nat \ {0}
    /\ Place \in [1..N -> Callers]
    /\ \A i, j \in 1..N : i # j => Place[i] # Place[j]
    /\ \A c \in Callers : \E i \in 1..N : Place[i] = c
<1>1. N \in Nat /\ ExistsBijection(1..N, Callers)
  BY CallersAssumption, FS_CardinalityType DEF N
<1>2. N # 0
  BY CallersAssumption, FS_EmptySet DEF N
<1>3. Place \in Bijection(1..N, Callers)
  BY <1>1 DEF Place, ExistsBijection
<1> QED
  BY <1>1, <1>2, <1>3 DEF Bijection, Injection, Surjection, IsInjective

(* acc[i] is what the first i callers may still be charged for.             *)
IsTotal(acc) ==
    /\ acc \in [0..N -> Int] /\ acc[0] = 0
    /\ \A i \in 1..N : acc[i] = acc[i - 1] + Pending(Place[i])

(* When what one caller owes changes by d, so does the total.               *)
LEMMA TotalMoves ==
    ASSUME NEW acc, IsTotal(acc), NEW c \in Callers, NEW d \in Int,
           \A o \in Callers : Pending(o) \in Int,
           Pending(c)' = Pending(c) + d,
           \A o \in Callers \ {c} : Pending(o)' = Pending(o)
    PROVE  \E new : IsTotal(new)' /\ new[N] = acc[N] + d
<1>1. PICK k \in 1..N : Place[k] = c
  BY PlaceIsOneToOne
<1> DEFINE new == [i \in 0..N |-> IF i < k THEN acc[i] ELSE acc[i] + d]
<1>2. N \in Nat /\ acc \in [0..N -> Int] /\ acc[0] = 0 /\ 0 \in 0..N /\ N \in 0..N
  BY PlaceIsOneToOne DEF IsTotal
<1>3. new \in [0..N -> Int] /\ new[0] = 0 /\ new[N] = acc[N] + d
  <2> HIDE DEF N
  <2> QED
    BY <1>1, <1>2
<1>4. ASSUME NEW i \in 1..N
      PROVE  new[i] = new[i - 1] + Pending(Place[i])'
  <2>1. i \in 0..N /\ i - 1 \in 0..N /\ acc[i] \in Int /\ acc[i - 1] \in Int /\ i \in Int
        /\ k \in Int
    BY <1>2
  <2>2. acc[i] = acc[i - 1] + Pending(Place[i])
    BY DEF IsTotal
  <2>3. new[i] = (IF i < k THEN acc[i] ELSE acc[i] + d)
        /\ new[i - 1] = (IF i - 1 < k THEN acc[i - 1] ELSE acc[i - 1] + d)
    BY <2>1
  <2>4. Place[i] \in Callers
    BY PlaceIsOneToOne
  <2>5. PICK a \in Callers : a = Place[i]
    BY <2>4
  <2> HIDE DEF new
  <2>6. Pending(a) \in Int
    OBVIOUS
  <2>7. CASE i = k
    <3>1. a = c
      BY <1>1, <2>5, <2>7
    <3>2. Pending(a)' = Pending(a) + d
      BY <3>1
    <3>3. new[i] = new[i - 1] + Pending(a)'
      BY <2>1, <2>2, <2>3, <2>5, <2>6, <2>7, <3>2
    <3> QED
      BY <2>5, <3>3
  <2>8. CASE i # k
    <3>1. a # c
      BY <1>1, <2>5, <2>8, PlaceIsOneToOne
    <3>2. Pending(a)' = Pending(a)
      BY <3>1
    <3>3. new[i] = new[i - 1] + Pending(a)'
      BY <2>1, <2>2, <2>3, <2>5, <2>6, <2>8, <3>2
    <3> QED
      BY <2>5, <3>3
  <2> QED
    BY <2>7, <2>8
<1> HIDE DEF new
<1>5. IsTotal(new)'
  BY <1>3, <1>4 DEF IsTotal
<1> QED
  BY <1>3, <1>5

-----------------------------------------------------------------------------
(* The budget.                                                              *)

(* What all callers together can be charged for.                            *)
Worst == N * MaxResolve

(* What one process is charged in a day at most, and what those before the  *)
(* one that runs were.                                                      *)
Most == Budget + 2 * Worst
Before(d) == restarts[d] * Most

(* What was charged today, given what is still owed: if the counter is of   *)
(* today, it missed no more than what was under way when it was reset and   *)
(* what earlier processes were charged, and what it shows stays below the   *)
(* budget but for the calls under way; if it is not, all charges of today   *)
(* are for calls of another day.                                            *)
Today(owed) ==
    IF usage.day = Day(now)
    THEN /\ billed[Day(now)] <= usage.spent + Worst + Before(Day(now))
         /\ usage.spent + owed < Budget + Worst
    ELSE billed[Day(now)] + owed <= Worst + Before(Day(now))

SpendTypeOK ==
    /\ now \in Start..MaxTime
    /\ usage \in [spent : Nat, day : Days] /\ billed \in [Days -> Nat]
    /\ restarts \in [Days -> Nat]

SpendInv ==
    /\ SpendTypeOK
    /\ usage.day <= Day(now)
    /\ \A c \in Callers : /\ Waits(c) => call[c].tries = 0
                          /\ Budget = 0 => call[c].at = "idle"
    /\ \A d \in Days : /\ d < Day(now) => billed[d] < Most + Before(d)
                       /\ d > Day(now) => billed[d] = 0
    /\ \E acc : IsTotal(acc) /\ Today(acc[N])

(* Division with a remainder, as the provers need it.                       *)
LEMMA DivisionIs ==
    ASSUME NEW t \in Nat, NEW n \in Nat \ {0}
    PROVE  \E r \in 0..(n - 1) : t \div n \in Nat /\ t = n * (t \div n) + r
<1> DEFINE d == t \div n
<1>1. t = n * d + (t % n) /\ d \in Int /\ t % n \in 0..(n - 1)
  OBVIOUS
<1>2. d >= 0
  OBVIOUS
<1> QED
  BY <1>1, <1>2

(* The quotient of a larger number is no smaller.                           *)
LEMMA QuotientGrows ==
    ASSUME NEW n \in Nat \ {0}, NEW a \in Int, NEW b \in Int,
           NEW r \in 0..(n - 1), NEW s \in 0..(n - 1), n * a + r <= n * b + s
    PROVE  a <= b
<1> SUFFICES ASSUME a - (b + 1) \in Nat PROVE FALSE
  OBVIOUS
<1>1. PICK k \in Nat : k = a - (b + 1)
  OBVIOUS
<1>2. n * k \in Nat /\ n * b \in Int
  OBVIOUS
<1>3. a = b + 1 + k
  BY <1>1
<1>4. n * a = n * b + n + n * k
  BY <1>3
<1> QED
  BY <1>2, <1>4

(* The days follow the clock.                                               *)
LEMMA DayGrows ==
    ASSUME NEW t \in Nat, NEW u \in Nat, t <= u
    PROVE  Day(t) \in Nat /\ Day(t) <= Day(u)
<1>1. DayLen \in Nat \ {0}
  BY TimeAssumption
<1>2. PICK r \in 0..(DayLen - 1) : Day(t) \in Nat /\ t = DayLen * Day(t) + r
  BY <1>1, DivisionIs DEF Day
<1>3. PICK s \in 0..(DayLen - 1) : Day(u) \in Nat /\ u = DayLen * Day(u) + s
  BY <1>1, DivisionIs DEF Day
<1>4. Day(t) <= Day(u)
  <2>1. DayLen * Day(t) + r <= DayLen * Day(u) + s
    BY <1>2, <1>3
  <2>2. Day(t) \in Int /\ Day(u) \in Int
    BY <1>2, <1>3
  <2> QED
    BY <1>1, <2>1, <2>2, QuotientGrows, Zenon
<1> QED
  BY <1>2, <1>4

(* The day of every time of the model is one of its days.                   *)
LEMMA TodayIsADay ==
    ASSUME NEW t \in Start..MaxTime
    PROVE  t \in Nat /\ Day(t) \in Days /\ Day(t) \in Nat /\ Days \subseteq Nat
<1>1. Start \in Nat /\ MaxTime \in Nat /\ t \in Nat /\ Start <= t /\ t <= MaxTime
  BY TimeAssumption
<1>2. /\ Day(Start) \in Nat /\ Day(t) \in Nat /\ Day(MaxTime) \in Nat
      /\ Day(Start) <= Day(t) /\ Day(t) <= Day(MaxTime)
  BY <1>1, DayGrows
<1> QED
  BY <1>1, <1>2 DEF Days

(* The prices, the budget and the worst overshoot are natural numbers, and  *)
(* the overshoot is not 0.                                                  *)
LEMMA Costs ==
    /\ TriageCost \in Nat /\ DeepCost \in Nat /\ Budget \in Nat /\ MaxResolve \in Nat
    /\ MaxResolve = 2 * TriageCost + 2 * DeepCost
    /\ Worst \in Nat /\ Worst > 0
<1>1. /\ TriageCost \in Nat /\ TriageCost > 0 /\ DeepCost \in Nat /\ Budget \in Nat
  BY CostAssumption
<1>2. MaxResolve \in Nat /\ MaxResolve > 0
  BY <1>1 DEF MaxResolve
<1>3. N * MaxResolve \in Nat /\ N * MaxResolve > 0
  BY <1>2, PlaceIsOneToOne
<1> QED
  BY <1>1, <1>2, <1>3 DEF Worst, MaxResolve

(* What earlier processes were charged at most is a number, 0 on the first  *)
(* start of a day and more by what one is charged after each restart.       *)
LEMMA BeforeIs ==
    ASSUME restarts \in [Days -> Nat], NEW d \in Days
    PROVE  /\ Most \in Nat /\ Most > 0 /\ Before(d) \in Nat
           /\ (restarts[d] + 1) * Most = Before(d) + Most
<1>1. Most \in Nat /\ Most > 0 /\ restarts[d] \in Nat
  BY Costs DEF Most
<1>2. PICK r \in Nat, m \in Nat : r = restarts[d] /\ m = Most
  BY <1>1
<1>3. r * m \in Nat /\ (r + 1) * m = r * m + m
  OBVIOUS
<1> QED
  BY <1>1, <1>2, <1>3 DEF Before

(* What a caller owes, and that it owes nothing when it is idle.            *)
LEMMA PendingIs ==
    ASSUME LockTypeOK, NEW c \in Callers
    PROVE  /\ Pending(c) \in 0..MaxResolve
           /\ call[c].at = "idle" => Pending(c) = 0
           /\ Waits(c) => Pending(c) = MaxResolve
           /\ call[c].at = "triage" =>
                 Pending(c) = (2 - call[c].tries) * TriageCost + 2 * DeepCost
           /\ call[c].at = "deep" => Pending(c) = (2 - call[c].tries) * DeepCost
<1> USE Costs DEF Pending
<1>1. CASE call[c].at = "idle"
  BY <1>1 DEF Waits
<1>2. CASE call[c] \in Call
  <2>1. call[c].at \in {"waiting", "triage", "deep"} /\ call[c].tries \in {0, 1}
    BY <1>2 DEF Call
  <2>2. CASE call[c].tries = 0
    BY <2>1, <2>2 DEF Waits
  <2>3. CASE call[c].tries = 1
    BY <2>1, <2>3 DEF Waits
  <2> QED
    BY <2>1, <2>2, <2>3
<1> QED
  BY <1>1, <1>2 DEF LockTypeOK, Idle

(* What is owed is never more than the worst, and nothing if nobody asks.   *)
LEMMA OwedIsBounded ==
    ASSUME LockTypeOK, NEW acc, IsTotal(acc)
    PROVE  /\ acc[N] \in 0..Worst
           /\ (\A c \in Callers : call[c].at = "idle") => acc[N] = 0
<1>1. N \in Nat /\ acc \in [0..N -> Int] /\ acc[0] = 0 /\ acc[N] \in Int
  BY PlaceIsOneToOne DEF IsTotal
<1>2. ASSUME NEW m \in Nat, \A c \in Callers : Pending(c) \in 0..m
      PROVE  0 <= acc[N] /\ acc[N] <= N * m
  <2>1. \A i \in 1..N : acc[i] - acc[i - 1] \in 0..m
    <3> TAKE i \in 1..N
    <3>1. Place[i] \in Callers
      BY PlaceIsOneToOne
    <3>2. acc[i] = acc[i - 1] + Pending(Place[i]) /\ Pending(Place[i]) \in 0..m
      BY <1>2, <3>1 DEF IsTotal
    <3>3. acc[i - 1] \in Int
      BY <1>1
    <3> QED
      BY <3>2, <3>3
  <2> QED
    BY <1>1, <2>1, TotalIsBounded
<1>3. acc[N] \in 0..Worst
  <2>1. 0 <= acc[N] /\ acc[N] <= N * MaxResolve
    BY <1>2, Costs, PendingIs
  <2> QED
    BY <1>1, <2>1, Costs DEF Worst
<1>4. ASSUME \A c \in Callers : call[c].at = "idle"
      PROVE  acc[N] = 0
  <2>1. \A c \in Callers : Pending(c) \in 0..0
    BY <1>4, PendingIs
  <2>2. 0 <= acc[N] /\ acc[N] <= N * 0
    BY <1>2, <2>1
  <2> QED
    BY <1>1, <2>2
<1> QED
  BY <1>3, <1>4

(* A step of a caller that has been through the budget check: it is charged *)
(* no more than what it will owe less from then on.                         *)
LEMMA PayKeeps ==
    ASSUME LockInv, SpendInv, LockTypeOK',
           NEW c \in Callers, NEW cost \in Nat, call[c].at # "idle",
           Pending(c)' \in Nat, Pending(c)' + cost <= Pending(c),
           \A o \in Callers \ {c} : call'[o] = call[o],
           ~Waits(c)', now' = now, restarts' = restarts,
           usage' = [usage EXCEPT !.spent = @ + cost],
           billed' = [billed EXCEPT ![Day(now)] = @ + cost]
    PROVE  SpendInv'
<1> DEFINE today == Day(now)
           d == Pending(c)' - Pending(c)
<1>1. /\ usage \in [spent : Nat, day : Days] /\ billed \in [Days -> Nat]
      /\ now \in Start..MaxTime /\ today \in Days /\ Days \subseteq Nat
      /\ restarts \in [Days -> Nat] /\ Before(today) \in Nat /\ Before(today)' = Before(today)
  BY TodayIsADay, BeforeIs DEF SpendInv, SpendTypeOK, Before
<1>2. SpendTypeOK'
  <2>1. usage.spent + cost \in Nat
    BY <1>1
  <2>2. billed[today] + cost \in Nat
    BY <1>1
  <2> QED
    BY <1>1, <2>1, <2>2 DEF SpendTypeOK
<1>3. usage'.day = usage.day /\ usage'.spent = usage.spent + cost
      /\ billed'[today] = billed[today] + cost
      /\ \A e \in Days : e # today => billed'[e] = billed[e]
  BY <1>1
<1>4. Pending(c) \in Nat /\ Pending(c)' \in Nat
  BY PendingIs, Costs DEF LockInv
<1>5. PICK acc : IsTotal(acc) /\ Today(acc[N])
  BY DEF SpendInv
<1>6. \E new : IsTotal(new)' /\ new[N] = acc[N] + d
  <2>1. \A o \in Callers : Pending(o) \in Int
    BY PendingIs, Costs DEF LockInv
  <2>2. \A o \in Callers \ {c} : Pending(o)' = Pending(o)
    BY DEF Pending
  <2>3. PICK k \in Int : k = Pending(c)' - Pending(c)
    BY <1>4
  <2>4. Pending(c)' = Pending(c) + k
    BY <1>4, <2>3
  <2> QED
    BY <1>5, <2>1, <2>2, <2>3, <2>4, TotalMoves
<1>7. PICK new : IsTotal(new)' /\ new[N] = acc[N] + d
  BY <1>6
<1>8. acc[N] \in Nat /\ d \in Int /\ d + cost <= 0
  BY <1>4, <1>5, OwedIsBounded, Costs DEF LockInv
<1>9. Today(new[N])'
  <2>1. new[N] + cost <= acc[N] /\ new[N] \in Int
    BY <1>7, <1>8
  <2>2. PICK left \in Int : left = new[N]
    BY <2>1
  <2>3. usage.spent \in Nat /\ billed[today] \in Nat /\ Worst \in Nat /\ Budget \in Nat
    BY <1>1, Costs
  <2>4. Today(left)'
    BY <1>1, <1>3, <1>5, <1>8, <2>1, <2>2, <2>3 DEF Today
  <2> QED
    BY <2>2, <2>4
<1>10. \A e \in Days : /\ e < today => billed'[e] < Most + Before(e)'
                       /\ e > today => billed'[e] = 0
  BY <1>1, <1>3 DEF SpendInv, Before
<1>11. \A o \in Callers : /\ Waits(o)' => call'[o].tries = 0
                          /\ Budget = 0 => call'[o].at = "idle"
  <2> SUFFICES ASSUME NEW o \in Callers
               PROVE  /\ Waits(o)' => call'[o].tries = 0
                      /\ Budget = 0 => call'[o].at = "idle"
    OBVIOUS
  <2>1. CASE o = c
    BY <2>1 DEF SpendInv
  <2>2. CASE o # c
    BY <2>2 DEF SpendInv, Waits
  <2> QED
    BY <2>1, <2>2
<1> QED
  BY <1>2, <1>3, <1>7, <1>9, <1>10, <1>11 DEF SpendInv

(* A caller that is answered or fails moves what it may still cost into     *)
(* what is spent and billed, and no more.                                   *)
LEMMA CallerPays ==
    ASSUME LockInv, SpendInv, LockTypeOK', NEW c \in Callers, Step(c)
    PROVE  SpendInv'
<1>1. /\ TriageCost \in Nat /\ DeepCost \in Nat /\ MaxResolve \in Nat
      /\ MaxResolve = 2 * TriageCost + 2 * DeepCost
  BY Costs
<1>2. LockTypeOK /\ call \in [Callers -> Call \cup {Idle}] /\ call[c] \in Call
  <2>1. Waits(c) \/ Holds(c)
    BY DEF Step, Enter, Reply, Fail, Waits, Holds
  <2> QED
    BY <2>1, BusyCall DEF LockInv, LockTypeOK
<1>3. /\ call[c].tries \in {0, 1} /\ call[c].at \in {"waiting", "triage", "deep"}
      /\ now' = now /\ restarts' = restarts /\ \A o \in Callers \ {c} : call'[o] = call[o]
  BY <1>2 DEF Step, Enter, Reply, Fail, GiveUp, Return, Call
<1>4. /\ Waits(c) => Pending(c) = MaxResolve
      /\ call[c].at = "triage" =>
            Pending(c) = (2 - call[c].tries) * TriageCost + 2 * DeepCost
      /\ call[c].at = "deep" => Pending(c) = (2 - call[c].tries) * DeepCost
      /\ Pending(c) \in Nat /\ (2 - call[c].tries) \in {1, 2}
  BY <1>1, <1>2, <1>3, PendingIs
<1>5. /\ usage \in [spent : Nat, day : Days] /\ billed \in [Days -> Nat] /\ Day(now) \in Days
  BY TodayIsADay DEF SpendInv, SpendTypeOK
<1>6. Return(c) => call'[c] = Idle /\ Pending(c)' = 0 /\ ~Waits(c)'
  BY <1>2 DEF Return, Pending, Idle, Waits
<1>7. ASSUME NEW cost \in Nat, Pending(c)' \in Nat, Pending(c)' + cost <= Pending(c), ~Waits(c)',
             usage' = [usage EXCEPT !.spent = @ + cost],
             billed' = [billed EXCEPT ![Day(now)] = @ + cost]
      PROVE  SpendInv'
  BY <1>3, <1>7, PayKeeps
<1>8. ASSUME UNCHANGED <<usage, billed>>, Pending(c)' \in Nat, Pending(c)' <= Pending(c), ~Waits(c)'
      PROVE  SpendInv'
  <2>1. usage.spent + 0 = usage.spent /\ billed[Day(now)] + 0 = billed[Day(now)]
    BY <1>5
  <2>2. usage' = [usage EXCEPT !.spent = @ + 0]
    BY <1>5, <1>8, <2>1
  <2>3. billed' = [billed EXCEPT ![Day(now)] = @ + 0]
    BY <1>5, <1>8, <2>1
  <2>4. Pending(c)' + 0 <= Pending(c)
    BY <1>8
  <2> QED
    BY <1>7, <1>8, <2>2, <2>3, <2>4
<1>9. CASE Enter(c)
  <2>1. Waits(c) /\ UNCHANGED <<usage, billed>> /\ call[c].tries = 0
    BY <1>9 DEF Enter, Waits, SpendInv
  <2>2. CASE Return(c)
    BY <1>4, <1>6, <1>8, <2>1, <2>2
  <2>3. CASE call' = [call EXCEPT ![c].at = "triage", ![c].since = now]
    <3>1. call'[c].at = "triage" /\ call'[c].tries = 0
      BY <1>2, <2>1, <2>3 DEF Call
    <3>2. Pending(c)' = 2 * TriageCost + 2 * DeepCost /\ ~Waits(c)'
      BY <1>1, <3>1 DEF Pending, Waits
    <3> QED
      BY <1>1, <1>4, <1>8, <2>1, <3>2
  <2> QED
    BY <1>9, <2>2, <2>3 DEF Enter
<1>10. Cost(c) \in Nat /\ (call[c].at = "triage" => Cost(c) = TriageCost)
       /\ (call[c].at = "deep" => Cost(c) = DeepCost)
  BY <1>1 DEF Cost
<1>11. Holds(c) => Cost(c) <= Pending(c)
  BY <1>1, <1>3, <1>4, <1>10 DEF Holds
<1>12. ASSUME NEW b \in BOOLEAN, Reply(c, b) PROVE SpendInv'
  <2>1. /\ Holds(c)
        /\ \/ /\ usage' = [usage EXCEPT !.spent = @ + Cost(c)]
              /\ billed' = [billed EXCEPT ![Day(now)] = @ + Cost(c)]
           \/ UNCHANGED <<usage, billed>>
    BY <1>12 DEF Reply, Accrue
  <2>2. CASE Return(c)
    <3>1. Pending(c)' \in Nat /\ ~Waits(c)'
      BY <1>6, <2>2
    <3>2. Pending(c)' + Cost(c) <= Pending(c) /\ Pending(c)' <= Pending(c)
      BY <1>4, <1>6, <1>10, <1>11, <2>1, <2>2
    <3> QED
      BY <1>7, <1>8, <1>10, <2>1, <3>1, <3>2
  <2>3. CASE call[c].at = "triage" /\ call' = [call EXCEPT ![c].at = "deep", ![c].tries = 0]
    <3>1. call'[c].at = "deep" /\ call'[c].tries = 0
      BY <1>2, <2>3 DEF Call
    <3>2. Pending(c)' = 2 * DeepCost /\ ~Waits(c)'
      BY <1>1, <3>1 DEF Pending, Waits
    <3>3. Pending(c)' \in Nat /\ Pending(c)' + Cost(c) <= Pending(c)
      BY <1>1, <1>3, <1>4, <1>10, <2>3, <3>2
    <3>4. Pending(c)' <= Pending(c)
      BY <1>4, <1>10, <3>3
    <3> QED
      BY <1>7, <1>8, <1>10, <2>1, <3>2, <3>3, <3>4
  <2> QED
    BY <1>12, <2>2, <2>3 DEF Reply
<1>13. ASSUME NEW b \in BOOLEAN, Fail(c, b) PROVE SpendInv'
  <2>1. /\ Holds(c)
        /\ \/ /\ usage' = [usage EXCEPT !.spent = @ + Cost(c)]
              /\ billed' = [billed EXCEPT ![Day(now)] = @ + Cost(c)]
           \/ UNCHANGED <<usage, billed>>
    BY <1>13 DEF Fail, Accrue
  <2>2. Pending(c)' \in Nat /\ Pending(c)' + Cost(c) <= Pending(c) /\ ~Waits(c)'
    <3>1. CASE Return(c)
      BY <1>6, <1>10, <1>11, <2>1, <3>1
    <3>2. CASE call[c].tries = 0 /\ call' = [call EXCEPT ![c].tries = 1]
      <4>1. call'[c].at = call[c].at /\ call'[c].tries = 1
        BY <1>2, <3>2 DEF Call
      <4>2. CASE call[c].at = "triage"
        <5>1. Pending(c)' = TriageCost + 2 * DeepCost /\ ~Waits(c)'
          BY <1>1, <4>1, <4>2 DEF Pending, Waits
        <5>2. Pending(c) = 2 * TriageCost + 2 * DeepCost
          BY <1>1, <1>4, <3>2, <4>2
        <5> QED
          BY <1>1, <1>10, <4>2, <5>1, <5>2
      <4>3. CASE call[c].at = "deep"
        <5>1. Pending(c)' = DeepCost /\ ~Waits(c)'
          BY <1>1, <4>1, <4>3 DEF Pending, Waits
        <5>2. Pending(c) = 2 * DeepCost
          BY <1>1, <1>4, <3>2, <4>3
        <5> QED
          BY <1>1, <1>10, <4>3, <5>1, <5>2
      <4> QED
        BY <2>1, <4>2, <4>3 DEF Holds
    <3> QED
      BY <1>13, <1>3, <3>1, <3>2 DEF Fail, GiveUp
  <2>3. Pending(c)' <= Pending(c)
    BY <1>4, <1>10, <2>2
  <2> QED
    BY <1>7, <1>8, <1>10, <2>1, <2>2, <2>3
<1> QED
  BY <1>9, <1>12, <1>13 DEF Step

(* The counter is reset when its day is over: from then on it misses what   *)
(* was charged today already.                                               *)
LEMMA ResetKeeps ==
    ASSUME LockInv, SpendInv
    PROVE  LET u == Reset(usage) IN
           /\ u \in [spent : Nat, day : Days] /\ u.day = Day(now)
           /\ billed[Day(now)] <= u.spent + Worst + Before(Day(now))
           /\ \E acc : IsTotal(acc) /\ u.spent + acc[N] < Budget + Worst
<1>1. /\ usage \in [spent : Nat, day : Days] /\ billed \in [Days -> Nat]
      /\ Day(now) \in Days /\ Worst \in Nat /\ Worst > 0 /\ Budget \in Nat
      /\ billed[Day(now)] \in Nat /\ Before(Day(now)) \in Nat
  BY TodayIsADay, BeforeIs, Costs DEF SpendInv, SpendTypeOK
<1>2. PICK acc : IsTotal(acc) /\ Today(acc[N])
  BY DEF SpendInv
<1>3. acc[N] \in 0..Worst /\ (Budget = 0 => acc[N] = 0)
  BY <1>2, OwedIsBounded DEF LockInv, SpendInv
<1>4. CASE usage.day = Day(now)
  BY <1>1, <1>2, <1>4 DEF Today, Reset
<1>5. CASE usage.day # Day(now)
  <2>1. Reset(usage) = [spent |-> 0, day |-> Day(now)]
    BY <1>5 DEF Reset
  <2>2. billed[Day(now)] <= 0 + Worst + Before(Day(now)) /\ 0 + acc[N] < Budget + Worst
    BY <1>1, <1>2, <1>3, <1>5 DEF Today
  <2> QED
    BY <1>1, <1>2, <2>1, <2>2
<1> QED
  BY <1>4, <1>5

(* Looking at the usage starts a new day if there is one, and changes       *)
(* nothing else.                                                            *)
LEMMA UsageKeeps ==
    ASSUME LockInv, SpendInv, usage' = Reset(usage), UNCHANGED <<now, call, billed, restarts>>
    PROVE  SpendInv'
<1>1. /\ usage' \in [spent : Nat, day : Days] /\ usage'.day = Day(now)
      /\ billed[Day(now)] <= usage'.spent + Worst + Before(Day(now))
      /\ \E acc : IsTotal(acc) /\ usage'.spent + acc[N] < Budget + Worst
  BY ResetKeeps
<1>2. PICK acc : IsTotal(acc) /\ usage'.spent + acc[N] < Budget + Worst
  BY <1>1
<1>3. IsTotal(acc)' /\ Today(acc[N])'
  BY <1>1, <1>2 DEF IsTotal, Pending, Today, Before
<1>4. SpendTypeOK' /\ usage'.day <= Day(now)
  BY <1>1, TodayIsADay DEF SpendInv, SpendTypeOK
<1> QED
  BY <1>3, <1>4 DEF SpendInv, Waits, Before

(* A caller passes the check only if the budget is not spent, so what it    *)
(* may cost fits under the worst overshoot.                                 *)
LEMMA AskIsCovered ==
    ASSUME LockInv, SpendInv, LockTypeOK',
           NEW c \in Callers, NEW m \in Markets, NEW b \in BOOLEAN, Ask(c, m, b)
    PROVE  SpendInv'
<1>1. CASE UNCHANGED <<usage, call>>
  <2>1. PICK acc : IsTotal(acc) /\ Today(acc[N])
    BY DEF SpendInv
  <2>2. IsTotal(acc)' /\ Today(acc[N])'
    BY <1>1, <2>1 DEF Ask, IsTotal, Pending, Today, Before
  <2> QED
    BY <1>1, <2>2 DEF Ask, SpendInv, SpendTypeOK, Waits, Before
<1>2. CASE usage' = Reset(usage) /\ UNCHANGED call
  BY <1>2, UsageKeeps DEF Ask
<1>3. CASE /\ usage' = Reset(usage) /\ ~ (usage'.spent >= Budget)
           /\ call' = [call EXCEPT ![c] =
                 [at |-> "waiting", market |-> m, asked |-> now, since |-> 0,
                  priced |-> b, tries |-> 0]]
  <2>1. /\ usage' \in [spent : Nat, day : Days] /\ usage'.day = Day(now)
        /\ billed[Day(now)] <= usage'.spent + Worst + Before(Day(now))
    BY <1>3, ResetKeeps
  <2>2. PICK acc : IsTotal(acc)
    BY ResetKeeps
  <2>3. /\ call \in [Callers -> Call \cup {Idle}] /\ LockTypeOK /\ call[c].at = "idle"
        /\ UNCHANGED <<now, billed, restarts>>
    BY DEF LockInv, LockTypeOK, Ask, Busy
  <2>4. /\ call'[c].at = "waiting" /\ call'[c].tries = 0
        /\ \A o \in Callers \ {c} : call'[o] = call[o]
    BY <1>3, <2>3
  <2>5. Pending(c) = 0 /\ Pending(c)' = MaxResolve /\ MaxResolve \in Nat
        /\ \A o \in Callers : Pending(o) \in Int
    <3>1. Pending(c)' = MaxResolve
      BY <2>4 DEF Pending
    <3> QED
      BY <2>3, <3>1, PendingIs, Costs
  <2>6. PICK new : IsTotal(new)' /\ new[N] = acc[N] + MaxResolve
    <3>1. Pending(c)' = Pending(c) + MaxResolve
      BY <2>5
    <3>2. \A o \in Callers \ {c} : Pending(o)' = Pending(o)
      BY <2>4 DEF Pending
    <3> QED
      BY <2>2, <2>5, <3>1, <3>2, TotalMoves
  <2>7. new[N] \in 0..Worst
    <3>1. new \in [0..N -> Int] /\ new[0] = 0 /\ N \in Nat /\ new[N] \in Int
      BY <2>6, PlaceIsOneToOne DEF IsTotal
    <3>2. \A o \in Callers : Pending(o)' \in 0..MaxResolve
      <4> TAKE o \in Callers
      <4>1. CASE o = c
        BY <2>5, <4>1
      <4>2. CASE o # c
        <5>1. Pending(o)' = Pending(o)
          BY <2>4, <4>2 DEF Pending
        <5> QED
          BY <2>3, <5>1, PendingIs
      <4> QED
        BY <4>1, <4>2
    <3>3. \A i \in 1..N : new[i] - new[i - 1] \in 0..MaxResolve
      <4> TAKE i \in 1..N
      <4>1. PICK o \in Callers : Place[i] = o
        BY PlaceIsOneToOne
      <4>2. new[i] = new[i - 1] + Pending(o)' /\ Pending(o)' \in 0..MaxResolve
        BY <2>6, <3>2, <4>1 DEF IsTotal
      <4>3. new[i - 1] \in Int
        BY <3>1
      <4> QED
        BY <2>5, <4>2, <4>3
    <3>4. 0 <= new[N] /\ new[N] <= N * MaxResolve
      BY <2>5, <3>1, <3>3, TotalIsBounded
    <3> QED
      BY <3>1, <3>4, Costs DEF Worst
  <2>8. Today(new[N])'
    <3>1. PICK left \in 0..Worst : left = new[N]
      BY <2>7
    <3>2. usage'.spent \in Nat /\ Worst \in Nat /\ Budget \in Nat
      BY <2>1, Costs
    <3>3. usage'.spent + left < Budget + Worst
      BY <1>3, <3>2
    <3>4. Today(left)'
      BY <2>1, <2>3, <3>3 DEF Today, Before
    <3> QED
      BY <3>1, <3>4
  <2>9. SpendTypeOK' /\ usage'.day <= Day(now)
    BY <2>1, <2>3, TodayIsADay DEF SpendInv, SpendTypeOK
  <2>10. Budget # 0
    BY <1>3, <2>1, Costs
  <2>11. \A o \in Callers : Waits(o)' => call'[o].tries = 0
    BY <2>4 DEF SpendInv, Waits
  <2> QED
    BY <2>3, <2>6, <2>8, <2>9, <2>10, <2>11 DEF SpendInv, Before
<1> QED
  BY <1>1, <1>2, <1>3 DEF Ask

(* What the API charged today and is still owed is within the bound.        *)
LEMMA TodayIsBounded ==
    ASSUME LockInv, SpendInv
    PROVE  billed[Day(now)] < Most + Before(Day(now))
<1>1. PICK acc : IsTotal(acc) /\ Today(acc[N])
  BY DEF SpendInv
<1>2. acc[N] \in 0..Worst
  BY <1>1, OwedIsBounded DEF LockInv
<1>3. /\ billed[Day(now)] \in Nat /\ usage.spent \in Nat
      /\ Worst \in Nat /\ Worst > 0 /\ Budget \in Nat /\ Before(Day(now)) \in Nat
  BY TodayIsADay, BeforeIs, Costs DEF SpendInv, SpendTypeOK
<1> QED
  BY <1>1, <1>2, <1>3 DEF Today, Most

(* When a day ends, what was spent on it no longer counts.                  *)
LEMMA TickKeepsBudget ==
    ASSUME LockInv, SpendInv, Tick
    PROVE  SpendInv'
<1>1. /\ now \in Start..MaxTime /\ now' = now + 1 /\ now < MaxTime /\ now \in Nat
      /\ UNCHANGED <<call, usage, billed, restarts>> /\ MaxTime \in Nat /\ Start \in Nat
  BY TodayIsADay, TimeAssumption DEF Tick, SpendInv, SpendTypeOK
<1>2. now' \in Start..MaxTime /\ now' \in Nat /\ now <= now'
  BY <1>1
<1>3. PICK next \in Start..MaxTime : next = now'
  BY <1>2
<1>4. /\ Day(now) \in Nat /\ Day(next) \in Nat /\ Day(now) <= Day(next)
      /\ Day(next) \in Days /\ Days \subseteq Nat /\ Day(now)' = Day(next)
  BY <1>1, <1>2, <1>3, DayGrows, TodayIsADay DEF Day
<1>5. PICK acc : IsTotal(acc) /\ Today(acc[N])
  BY DEF SpendInv
<1>6. IsTotal(acc)' /\ acc[N] \in 0..Worst
  BY <1>1, <1>5, OwedIsBounded DEF LockInv, IsTotal, Pending
<1>7. Today(acc[N])'
  <2>1. CASE Day(next) = Day(now)
    BY <1>1, <1>4, <1>5, <2>1 DEF Today, Before
  <2>2. CASE Day(next) # Day(now)
    <3>1. usage.day \in Nat /\ usage.day <= Day(now) /\ usage.day # Day(next)
      <4>1. usage.day \in Days /\ usage.day <= Day(now)
        BY DEF SpendInv, SpendTypeOK
      <4>2. PICK d \in Nat : d = usage.day
        BY <1>4, <4>1
      <4>3. d <= Day(now) /\ d # Day(next)
        BY <1>4, <2>2, <4>1, <4>2
      <4> QED
        BY <4>1, <4>2, <4>3
    <3>2. billed[Day(next)] = 0
      BY <1>4, <2>2 DEF SpendInv
    <3>3. Before(Day(next))' \in Nat
      BY <1>1, <1>4, BeforeIs DEF SpendInv, SpendTypeOK, Before
    <3> QED
      BY <1>1, <1>4, <1>6, <3>1, <3>2, <3>3, Costs DEF Today
  <2> QED
    BY <2>1, <2>2
<1>8. usage'.day <= Day(next)
  <2>1. usage.day \in Nat /\ usage.day <= Day(now)
    BY <1>4 DEF SpendInv, SpendTypeOK
  <2> QED
    BY <1>1, <1>4, <2>1
<1>9. ASSUME NEW d \in Days
      PROVE  /\ d < Day(next) => billed[d] < Most + Before(d)
             /\ d > Day(next) => billed[d] = 0
  <2>1. CASE d = Day(now)
    BY <1>4, <2>1, TodayIsBounded
  <2>2. CASE d < Day(now)
    BY <1>4, <2>2 DEF SpendInv
  <2>3. CASE d > Day(now)
    <3>1. Most \in Nat /\ Most > 0 /\ Before(d) \in Nat
      BY BeforeIs DEF SpendInv, SpendTypeOK
    <3> QED
      BY <2>3, <3>1 DEF SpendInv
  <2> QED
    BY <1>4, <2>1, <2>2, <2>3
<1>10. SpendTypeOK'
  BY <1>1, <1>2 DEF SpendInv, SpendTypeOK
<1> QED
  BY <1>1, <1>4, <1>6, <1>7, <1>8, <1>9, <1>10 DEF SpendInv, Waits, Before

(* A new process owes nothing and has spent nothing; what those before it   *)
(* were charged grows by what the last one was.                             *)
LEMMA RestartKeepsBudget ==
    ASSUME LockInv, SpendInv, Restart
    PROVE  SpendInv'
<1>1. /\ now \in Start..MaxTime /\ Day(now) \in Days /\ Days \subseteq Nat
      /\ billed \in [Days -> Nat] /\ restarts \in [Days -> Nat]
  BY TodayIsADay DEF SpendInv, SpendTypeOK
<1>2. PICK today \in Days : today = Day(now)
  BY <1>1
<1>3. /\ UNCHANGED <<now, billed>> /\ Day(now)' = today
      /\ usage' = [spent |-> 0, day |-> today]
      /\ restarts' = [restarts EXCEPT ![today] = restarts[today] + 1]
      /\ \A c \in Callers : call'[c].at = "idle"
  BY <1>2 DEF Restart, Idle
<1>4. restarts[today] + 1 \in Nat /\ restarts'[today] = restarts[today] + 1
      /\ \A d \in Days \ {today} : restarts'[d] = restarts[d]
  BY <1>1, <1>3
<1>5. SpendTypeOK' /\ usage'.day <= Day(now)'
  <2>1. restarts' \in [Days -> Nat]
    BY <1>1, <1>3, <1>4
  <2> QED
    BY <1>1, <1>3, <2>1 DEF SpendTypeOK
<1>6. /\ Before(today) \in Nat /\ Most \in Nat
      /\ Before(today)' = Before(today) + Most
  <2>1. /\ Before(today) \in Nat /\ Most \in Nat
        /\ (restarts[today] + 1) * Most = Before(today) + Most
    BY <1>1, BeforeIs
  <2>2. Before(today)' = restarts'[today] * Most
    BY DEF Before
  <2> QED
    BY <1>4, <2>1, <2>2
<1>7. ASSUME NEW d \in Days, d # today PROVE Before(d)' = Before(d)
  BY <1>4, <1>7 DEF Before
<1> DEFINE acc == [i \in 0..N |-> 0]
<1>8. N \in Nat /\ \A i \in 1..N : i \in 0..N /\ i - 1 \in 0..N /\ Place[i] \in Callers
  BY PlaceIsOneToOne
<1>9. acc \in [0..N -> Int] /\ acc[0] = 0 /\ acc[N] = 0
      /\ \A i \in 1..N : acc[i] = 0 /\ acc[i - 1] = 0
  BY <1>8
<1> HIDE DEF acc
<1>10. IsTotal(acc)'
  <2>1. \A c \in Callers : Pending(c)' = 0
    BY <1>3 DEF Pending
  <2> QED
    BY <1>8, <1>9, <2>1 DEF IsTotal
<1>11. Today(acc[N])'
  <2>1. billed[today] < Most + Before(today) /\ billed[today] \in Nat
    BY <1>1, <1>2, TodayIsBounded
  <2>2. billed[today] <= 0 + Worst + Before(today)' /\ 0 + 0 < Budget + Worst
    BY <1>6, <2>1, Costs
  <2> QED
    BY <1>3, <1>9, <2>2 DEF Today, Before
<1>12. ASSUME NEW d \in Days
       PROVE  /\ d < today => billed'[d] < Most + Before(d)'
              /\ d > today => billed'[d] = 0
  BY <1>1, <1>2, <1>3, <1>7 DEF SpendInv
<1>13. \A c \in Callers : ~Waits(c)'
  BY <1>3 DEF Waits
<1> QED
  BY <1>3, <1>5, <1>10, <1>11, <1>12, <1>13 DEF SpendInv

(* Nothing is spent, billed or under way.                                   *)
LEMMA SpendInvInit == Init => SpendInv
<1> SUFFICES ASSUME Init PROVE SpendInv
  OBVIOUS
<1>1. /\ now = Start /\ Start \in Start..MaxTime /\ usage = [spent |-> 0, day |-> Day(Start)]
      /\ billed = [d \in Days |-> 0] /\ restarts = [d \in Days |-> 0]
      /\ \A c \in Callers : call[c].at = "idle"
  BY TimeAssumption DEF Init, Idle
<1>2. Day(Start) \in Days /\ Day(Start) \in Nat /\ Days \subseteq Nat
  BY <1>1, TodayIsADay
<1>3. /\ Worst \in Nat /\ Worst > 0 /\ Budget \in Nat /\ Most > 0 /\ Most \in Nat
      /\ \A d \in Days : Before(d) \in Nat
  <2>1. restarts \in [Days -> Nat]
    BY <1>1
  <2>2. \A d \in Days : Before(d) \in Nat /\ Most > 0 /\ Most \in Nat
    BY <2>1, BeforeIs
  <2> QED
    BY <1>2, <2>2, Costs
<1> DEFINE acc == [i \in 0..N |-> 0]
<1>4. \A c \in Callers : Pending(c) = 0
  BY <1>1 DEF Pending
<1>5. N \in Nat /\ \A i \in 1..N : i \in 0..N /\ i - 1 \in 0..N /\ Place[i] \in Callers
  BY PlaceIsOneToOne
<1>6. acc \in [0..N -> Int] /\ acc[0] = 0 /\ acc[N] = 0
      /\ \A i \in 1..N : acc[i] = 0 /\ acc[i - 1] = 0
  BY <1>5
<1> HIDE DEF acc
<1>7. IsTotal(acc) /\ Today(acc[N])
  BY <1>1, <1>2, <1>3, <1>4, <1>5, <1>6 DEF IsTotal, Today
<1>8. usage.day <= Day(now) /\ SpendTypeOK
  BY <1>1, <1>2 DEF SpendTypeOK
<1>9. \A d \in Days : billed[d] = 0 /\ 0 < Most + Before(d)
  BY <1>1, <1>3
<1>10. \A c \in Callers : ~Waits(c)
  BY <1>1 DEF Waits
<1> QED
  BY <1>1, <1>7, <1>8, <1>9, <1>10 DEF SpendInv

(* Every step keeps the account of the budget.                              *)
LEMMA SpendInvNext == LockInv /\ SpendInv /\ [Next]_vars => SpendInv'
<1> SUFFICES ASSUME LockInv, SpendInv, [Next]_vars PROVE SpendInv'
  OBVIOUS
<1>1. LockTypeOK'
  BY LockInvNext DEF LockInv
<1>2. CASE UNCHANGED vars
  <2>1. PICK acc : IsTotal(acc) /\ Today(acc[N])
    BY DEF SpendInv
  <2>2. IsTotal(acc)' /\ Today(acc[N])'
    BY <1>2, <2>1 DEF vars, IsTotal, Pending, Today, Before
  <2> QED
    BY <1>2, <2>2 DEF vars, SpendInv, SpendTypeOK, Waits, Before
<1>3. CASE GetUsage
  BY <1>3, UsageKeeps DEF GetUsage
<1>4. CASE Tick
  BY <1>4, TickKeepsBudget
<1> QED
  BY <1>1, <1>2, <1>3, <1>4, AskIsCovered, CallerPays, RestartKeepsBudget DEF Next

(* The variables have their types: no reply is booked on a day that does    *)
(* not exist, no estimate is stored that is none.                           *)
THEOREM TypeCorrect == Spec => []TypeOK
<1>1. LockInv /\ SpendInv => TypeOK
  BY DEF LockInv, LockTypeOK, SpendInv, SpendTypeOK, TypeOK
<1> QED
  BY <1>1, LockInvInit, LockInvNext, SpendInvInit, SpendInvNext, PTL DEF Spec

(* For any number of callers, any prices and any budget, each process of a  *)
(* day is told of charges below the budget and twice what all callers can   *)
(* be charged for once they are past the check (resolve_async,              *)
(* _accrue_spend, maybe_reset_daily).                                       *)
THEOREM DailySpendIsBounded == Spec => []SpendIsBounded
<1>1. LockInv /\ SpendInv => SpendIsBounded
  <2> SUFFICES ASSUME LockInv, SpendInv, NEW d \in Days
               PROVE  billed[d] < (1 + restarts[d])
                                    * (Budget + 2 * Cardinality(Callers) * MaxResolve)
    BY DEF SpendIsBounded
  <2>1. Budget + 2 * Cardinality(Callers) * MaxResolve = Most
    <3>1. N \in Nat /\ MaxResolve \in Nat
      BY PlaceIsOneToOne, Costs
    <3>2. (2 * N) * MaxResolve = 2 * (N * MaxResolve)
      BY <3>1
    <3> QED
      BY <3>2 DEF N, Worst, Most
  <2>2. d \in Nat /\ Day(now) \in Nat
    BY TodayIsADay DEF SpendInv, SpendTypeOK
  <2>3. /\ Most \in Nat /\ Most > 0 /\ Before(d) \in Nat
        /\ (restarts[d] + 1) * Most = Before(d) + Most /\ restarts[d] \in Nat
    BY BeforeIs DEF SpendInv, SpendTypeOK
  <2>4. billed[d] < Most + Before(d)
    <3>1. CASE d = Day(now)
      BY <3>1, TodayIsBounded
    <3>2. CASE d < Day(now)
      BY <3>2 DEF SpendInv
    <3>3. CASE d > Day(now)
      BY <2>3, <3>3 DEF SpendInv
    <3> QED
      BY <2>2, <3>1, <3>2, <3>3
  <2>5. 1 + restarts[d] = restarts[d] + 1 /\ billed[d] < Before(d) + Most
    BY <2>3, <2>4 DEF SpendInv, SpendTypeOK
  <2> QED
    BY <2>1, <2>3, <2>5
<1> QED
  BY <1>1, LockInvInit, LockInvNext, SpendInvInit, SpendInvNext, PTL DEF Spec
=============================================================================
