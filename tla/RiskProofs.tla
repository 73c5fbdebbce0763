--------------------------- MODULE RiskProofs ---------------------------
(***************************************************************************)
(* Proofs about the two places that can refuse to trade: RiskGate, for any *)
(* markets, limits and signals (its types, that it never inflates a        *)
(* proposal, and that exposure and concentration stay within the limits as *)
(* long as the gate saw everything), and KillSwitch, for any orders,       *)
(* reasons and bounds (in the last section).                               *)
(***************************************************************************)
EXTENDS RiskGate, KillSwitch, FiniteSetTheorems, WellFoundedInduction, TLAPS

(* Sizes, limits and bounds are natural numbers.                            *)
LEMMA BoundsAreNat ==
    /\ Sizes \subseteq Nat /\ MaxPosition \in Nat
    /\ MaxShare \in Nat /\ MaxOrders \in Nat /\ MaxMarks \in Nat /\ MaxRestarts \in Nat
BY SizesAssumption, LimitsAssumption

(* What evaluate() leaves in the map: for the market of s, nothing or a     *)
(* reduction below the proposal and the cap; for the others, nothing.       *)
LEMMA EvaluateReduces ==
    ASSUME TypeOK, NEW s \in Signals, NEW noted \in Evaluate(s)
    PROVE  /\ noted \in [Conditions -> Nat \cup {None}]
           /\ \A c \in Conditions : c # s.token[1] => noted[c] = None
           /\ noted[s.token[1]] # None =>
                 /\ noted[s.token[1]] \in 1..MaxPosition
                 /\ noted[s.token[1]] < s.size
<1> s.token \in Tokens /\ s.token[1] \in Conditions  BY TokensAssumption DEF Signals
<1>1. reduced = [c \in Conditions |-> None]  BY DEF TypeOK
<1>2. CASE noted = reduced  BY <1>1, <1>2
<1>3. CASE \E n \in Reductions(s) : noted = [reduced EXCEPT ![s.token[1]] = n]
  <2>1. PICK n \in Reductions(s) : noted = [reduced EXCEPT ![s.token[1]] = n]  BY <1>3
  <2>2. n \in 1..MaxPosition /\ n < s.size  BY DEF Reductions
  <2>3. n \in Nat /\ n # None  BY <2>2, BoundsAreNat, SizesAssumption
  <2> QED  BY <1>1, <2>1, <2>2, <2>3
<1>4. Evaluate(s) \subseteq {reduced} \cup {[reduced EXCEPT ![s.token[1]] = n] : n \in Reductions(s)}
  BY DEF Evaluate
<1> QED  BY <1>2, <1>3, <1>4

(* size() never gives more than was proposed, nor more than the cap.        *)
LEMMA SizedIsLess ==
    ASSUME TypeOK, NEW s \in Signals, NEW noted \in Evaluate(s), NEW drift \in BOOLEAN
    PROVE  /\ Sized(s, noted, drift) \in Nat
           /\ Sized(s, noted, drift) <= Least(s.size, MaxPosition)
<1> DEFINE note == noted[s.token[1]]
           asked == IF note = None THEN s.size ELSE note
           pct == Least(asked, MaxPosition)
<1>1. s.size \in Nat /\ MaxPosition \in Nat  BY BoundsAreNat DEF Signals
<1>2. note # None => note \in 1..MaxPosition /\ note < s.size  BY EvaluateReduces
<1>3. asked \in Nat /\ asked <= s.size  BY <1>1, <1>2
<1>4. pct \in Nat /\ pct <= Least(s.size, MaxPosition)  BY <1>1, <1>3 DEF Least
<1>5. Least(s.size, MaxPosition) \in Nat  BY <1>1 DEF Least
<1>6. Sized(s, noted, drift) = IF drift THEN pct \div 2 ELSE pct  BY DEF Sized
<1> HIDE DEF pct
<1>7. pct \div 2 \in Nat /\ pct \div 2 <= pct  BY <1>4
<1> QED  BY <1>4, <1>5, <1>6, <1>7

(* After size() the map is as it was: no reduction outlives its tick.       *)
LEMMA PoppedIsEmpty ==
    ASSUME TypeOK, NEW s \in Signals, NEW noted \in Evaluate(s)
    PROVE  Popped(noted, s.token[1]) = [c \in Conditions |-> None]
<1> s.token \in Tokens /\ s.token[1] \in Conditions  BY TokensAssumption DEF Signals
<1> QED  BY EvaluateReduces DEF Popped

-----------------------------------------------------------------------------
(* What the agent finds at its start has its types.                         *)
LEMMA InitTypeOK == Init => TypeOK
<1> SUFFICES ASSUME Init PROVE TypeOK  OBVIOUS
<1>1. 0 \in 0..MaxOrders /\ 0 \in 0..MaxMarks /\ 0 \in 0..MaxRestarts  BY BoundsAreNat
<1>2. share \in [Tokens -> Nat] /\ resting \in [Tokens -> Nat]  BY DEF Init
<1>3. owned \subseteq Tokens /\ known \subseteq Conditions /\ blind \in BOOLEAN  BY DEF Init
<1> QED  BY <1>1, <1>2, <1>3 DEF Init, TypeOK

(* A tick, with what evaluate() notes and the order it sizes, keeps the     *)
(* types.                                                                   *)
LEMMA TickTypeOK ==
    ASSUME TypeOK, NEW s \in Signals, Tick(s)
    PROVE  TypeOK'
<1>1. PICK noted \in Evaluate(s), drift \in BOOLEAN :
         /\ reduced' = Popped(noted, s.token[1])
         /\ IF Sized(s, noted, drift) = 0
            THEN UNCHANGED <<resting, orders, blind>>
            ELSE Order(s, Sized(s, noted, drift)) /\ blind' = (blind \/ Overlooks(s))
  BY DEF Tick
<1> DEFINE n == Sized(s, noted, drift)
<1>2. n \in Nat  BY SizedIsLess
<1>3. reduced' = [c \in Conditions |-> None]  BY <1>1, PoppedIsEmpty
<1> HIDE DEF n
<1>4. resting' \in [Tokens -> Nat] /\ orders' \in 0..MaxOrders /\ blind' \in BOOLEAN
  <2>1. CASE n = 0  BY <1>1, <2>1 DEF TypeOK, n
  <2>2. CASE n # 0
    <3>1. Order(s, n) /\ blind' = (blind \/ Overlooks(s))  BY <1>1, <2>2 DEF n
    <3>2. PICK m \in 1..MaxPosition :
             resting' = [t \in Tokens |->
                           CASE t = s.token -> resting[t] + n
                             [] s.paired /\ t = Partner(s.token) -> resting[t] + m
                             [] OTHER -> resting[t]]
      BY <3>1 DEF Order
    <3>3. \A t \in Tokens : resting[t] \in Nat  BY DEF TypeOK
    <3>4. m \in Nat  BY BoundsAreNat
    <3>5. resting' \in [Tokens -> Nat]  BY <1>2, <3>2, <3>3, <3>4
    <3>6. orders' \in 0..MaxOrders  BY <3>1, BoundsAreNat DEF Order, TypeOK
    <3>7. blind' \in BOOLEAN  BY <3>1
    <3> QED  BY <3>5, <3>6, <3>7
  <2> QED  BY <2>1, <2>2
<1>5. UNCHANGED <<owned, share, known, marks, restarts>>  BY DEF Tick
<1> QED  BY <1>3, <1>4, <1>5 DEF TypeOK

(* So does every step.                                                      *)
LEMMA NextTypeOK == TypeOK /\ [Next]_vars => TypeOK'
<1> SUFFICES ASSUME TypeOK, [Next]_vars PROVE TypeOK'  OBVIOUS
<1>1. ASSUME NEW S \in SUBSET Conditions, Sample(S) PROVE TypeOK'
  BY <1>1 DEF Sample, TypeOK, books, bounds
<1>2. ASSUME NEW s \in Signals, Tick(s) PROVE TypeOK'
  BY <1>2, TickTypeOK
<1>3. ASSUME NEW t \in Tokens, NEW n \in 1..resting[t], Book(t, n) PROVE TypeOK'
  <2>1. n \in Nat /\ n <= resting[t] /\ resting[t] \in Nat /\ share[t] \in Nat
    BY <1>3 DEF TypeOK
  <2>2. resting[t] - n \in Nat /\ share[t] + n \in Nat  BY <2>1
  <2> QED  BY <1>3, <2>2 DEF Book, TypeOK, policy, bounds
<1>4. ASSUME NEW t \in Tokens, Lapse(t) PROVE TypeOK'
  BY <1>4 DEF Lapse, TypeOK, policy, bounds
<1>5. ASSUME NEW t \in Tokens, NEW n \in 0..share[t], Exit(t, n) PROVE TypeOK'
  <2>1. n \in Nat  BY DEF TypeOK
  <2> QED  BY <1>5, <2>1 DEF Exit, TypeOK, policy, bounds
<1>6. ASSUME NEW t \in Tokens, NEW n \in 0..MaxShare, Mark(t, n) PROVE TypeOK'
  BY <1>6, BoundsAreNat DEF Mark, TypeOK, policy
<1>7. CASE Restart
  BY <1>7, BoundsAreNat DEF Restart, TypeOK
<1>8. CASE UNCHANGED vars
  BY <1>8 DEF TypeOK, vars, books, policy, bounds
<1> QED  BY <1>1, <1>2, <1>3, <1>4, <1>5, <1>6, <1>7, <1>8 DEF Next

(* The gate, the positions and the orders keep their types; in particular   *)
(* no reduction outlives the tick it was made for, whatever the limits, the *)
(* markets and the signals.                                                 *)
THEOREM TypeCorrect == Spec => []TypeOK
BY InitTypeOK, NextTypeOK, PTL DEF Spec

(* An order is never larger than the strategy proposed, nor than the cap on *)
(* a position, whatever was reduced before.                                 *)
THEOREM NothingIsInflated == Spec => NeverInflates
<1>1. ASSUME TypeOK, NEW s \in Signals, Tick(s)
      PROVE  ~(resting'[s.token] > resting[s.token] + Least(s.size, MaxPosition))
  <2>1. PICK noted \in Evaluate(s), drift \in BOOLEAN :
           IF Sized(s, noted, drift) = 0
           THEN UNCHANGED resting
           ELSE Order(s, Sized(s, noted, drift))
    BY <1>1 DEF Tick
  <2> DEFINE n == Sized(s, noted, drift)
  <2>2. s.token \in Tokens  BY DEF Signals
  <2>3. resting[s.token] \in Nat  BY <1>1, <2>2 DEF TypeOK
  <2>4. n \in Nat /\ n <= Least(s.size, MaxPosition)  BY <1>1, SizedIsLess
  <2>5. Least(s.size, MaxPosition) \in Nat  BY BoundsAreNat DEF Signals, Least
  <2> HIDE DEF n
  <2>6. resting'[s.token] = resting[s.token] + n
    <3>1. CASE n = 0  BY <2>1, <2>3, <3>1 DEF n
    <3>2. CASE n # 0
      <4>1. Order(s, n)  BY <2>1, <3>2 DEF n
      <4>2. PICK m \in 1..MaxPosition :
               resting' = [t \in Tokens |->
                             CASE t = s.token -> resting[t] + n
                               [] s.paired /\ t = Partner(s.token) -> resting[t] + m
                               [] OTHER -> resting[t]]
        BY <4>1 DEF Order
      <4>3. Partner(s.token) # s.token
        BY <2>2, TokensAssumption DEF Partner
      <4> QED  BY <2>2, <4>2, <4>3
    <3> QED  BY <3>1, <3>2
  <2> QED  BY <2>3, <2>4, <2>5, <2>6
<1>2. TypeOK =>
        [orders' # orders => \A s \in Signals :
           resting'[s.token] > resting[s.token] + Least(s.size, MaxPosition) => ~Tick(s)]_vars
  BY <1>1
<1> QED  BY <1>2, TypeCorrect, PTL DEF NeverInflates

-----------------------------------------------------------------------------
(* What an order is sent over.                                              *)

(* The limits on counts are numbers.                                        *)
LEMMA BoundsOfCounts ==
    MaxOpen \in Nat /\ MaxPerEvent \in Nat /\ MaxPerCondition \in Nat
BY LimitsAssumption

(* An order that is sent while the gate sees everything: nothing rests, the *)
(* maps place every position, and it is for n points of one token that the  *)
(* gate did not block.                                                      *)
LEMMA SightedTick ==
    ASSUME TypeOK, NEW s \in Signals, Tick(s), ~blind'
    PROVE  \/ UNCHANGED <<owned, share, resting, marks, blind>>
           \/ /\ ~blind /\ UNCHANGED <<owned, share, marks>>
              /\ owned = Placed
              /\ \A t \in Tokens : resting[t] = 0
              /\ ~ Blocked(s)
              /\ \E noted \in Evaluate(s), drift \in BOOLEAN :
                    /\ Sized(s, noted, drift) # 0
                    /\ resting' = [t \in Tokens |->
                                     IF t = s.token THEN Sized(s, noted, drift) ELSE 0]
<1>1. PICK noted \in Evaluate(s), drift \in BOOLEAN :
         IF Sized(s, noted, drift) = 0
         THEN UNCHANGED <<resting, orders, blind>>
         ELSE Order(s, Sized(s, noted, drift)) /\ blind' = (blind \/ Overlooks(s))
  BY DEF Tick
<1>2. UNCHANGED <<owned, share, marks>>
  BY DEF Tick
<1> DEFINE n == Sized(s, noted, drift)
<1>3. CASE n = 0
  BY <1>1, <1>2, <1>3
<1>4. CASE n # 0
  <2>1. Order(s, n) /\ blind' = (blind \/ Overlooks(s))
    BY <1>1, <1>4
  <2>2. ~ blind /\ ~ Overlooks(s)
    BY <2>1
  <2>3. /\ ~ s.paired /\ owned = Placed
        /\ \A t \in Tokens : ~ (resting[t] > 0)
    BY <2>2 DEF Overlooks
  <2>4. \A t \in Tokens : resting[t] = 0
    BY <2>3 DEF TypeOK
  <2>5. ~ Blocked(s)
    BY <1>1 DEF Evaluate
  <2>6. n \in Nat
    BY SizedIsLess
  <2> HIDE DEF n
  <2>7. resting' = [t \in Tokens |-> IF t = s.token THEN n ELSE 0]
    <3>1. PICK m \in 1..MaxPosition :
             resting' = [t \in Tokens |->
                           CASE t = s.token -> resting[t] + n
                             [] s.paired /\ t = Partner(s.token) -> resting[t] + m
                             [] OTHER -> resting[t]]
      BY <2>1 DEF Order
    <3>. QED BY <2>3, <2>4, <2>6, <3>1
  <2>. QED BY <1>1, <1>2, <1>4, <2>2, <2>3, <2>4, <2>5, <2>7 DEF n
<1>. QED BY <1>3, <1>4

(* No other step adds to what is booked or rests.                           *)
LEMMA OpenShrinks ==
    ASSUME TypeOK, [Next]_vars, \A s \in Signals : ~ Tick(s)
    PROVE  /\ Open' \subseteq Open /\ blind' = blind
           /\ marks' = 0 => marks = 0
<1>1. ASSUME NEW S \in SUBSET Conditions, Sample(S)
      PROVE  UNCHANGED <<owned, resting, blind, marks>>
  BY <1>1 DEF Sample, books, bounds
<1>2. ASSUME NEW t \in Tokens, NEW n \in 1..resting[t], Book(t, n)
      PROVE  Open' \subseteq Open /\ UNCHANGED <<blind, marks>>
  <2>1. resting[t] > 0
    BY DEF TypeOK
  <2>2. owned' = owned \cup {t} /\ \A u \in Tokens : u # t => resting'[u] = resting[u]
    BY <1>2 DEF Book, TypeOK
  <2>3. UNCHANGED <<blind, marks>>
    BY <1>2 DEF Book, bounds
  <2>. QED BY <2>1, <2>2, <2>3 DEF Open
<1>3. ASSUME NEW t \in Tokens, Lapse(t)
      PROVE  Open' \subseteq Open /\ UNCHANGED <<blind, marks>>
  <2>1. owned' = owned /\ \A u \in Tokens : u # t => resting'[u] = resting[u]
    BY <1>3 DEF Lapse, TypeOK
  <2>2. UNCHANGED <<blind, marks>>
    BY <1>3 DEF Lapse, bounds
  <2>. QED BY <1>3, <2>1, <2>2 DEF Open, Lapse
<1>4. ASSUME NEW t \in Tokens, NEW n \in 0..share[t], Exit(t, n)
      PROVE  Open' \subseteq Open /\ UNCHANGED <<blind, marks>>
  BY <1>4 DEF Exit, Open, bounds
<1>5. ASSUME NEW t \in Tokens, NEW n \in 0..MaxShare, Mark(t, n)
      PROVE  UNCHANGED <<owned, resting, blind>> /\ marks' = marks + 1
  BY <1>5 DEF Mark
<1>6. ASSUME Restart PROVE Open' \subseteq Open /\ UNCHANGED <<blind, marks>>
  BY <1>6 DEF Restart, Open
<1>7. CASE UNCHANGED vars
  BY <1>7 DEF vars, books, bounds, Open
<1>8. marks \in Nat
  BY BoundsAreNat DEF TypeOK
<1>. QED BY <1>1, <1>2, <1>3, <1>4, <1>5, <1>6, <1>7, <1>8 DEF Next, Open

-----------------------------------------------------------------------------
(* Counts.                                                                  *)

(* A part of a set of at most n elements has at most n elements.            *)
LEMMA FewerStill ==
    ASSUME NEW S, IsFiniteSet(S), NEW R, R \subseteq S, NEW n \in Nat,
           Cardinality(S) <= n
    PROVE  Cardinality(R) <= n
<1>1. Cardinality(S) \in Nat /\ Cardinality(R) \in Nat /\ Cardinality(R) <= Cardinality(S)
  BY FS_Subset, FS_CardinalityType
<1>. QED BY <1>1

(* If there are fewer than n, there is a place left for one more.           *)
LEMMA OneAdded ==
    ASSUME NEW S, IsFiniteSet(S), NEW x, NEW R, R \subseteq S \cup {x}, NEW n \in Nat,
           ~ (Cardinality(S) >= n)
    PROVE  Cardinality(R) <= n
<1>1. IsFiniteSet(S \cup {x}) /\ Cardinality(S) \in Nat
  BY FS_AddElement, FS_CardinalityType
<1>2. Cardinality(S \cup {x}) = IF x \in S THEN Cardinality(S) ELSE Cardinality(S) + 1
  BY FS_AddElement
<1>3. Cardinality(S \cup {x}) <= n
  BY <1>1, <1>2
<1>. QED BY <1>1, <1>3, FewerStill

(* The counts are inductive: an order adds one token to what the gate has   *)
(* just counted, and nothing else adds any.                                 *)
LEMMA ConcentrationStep ==
    TypeOK /\ ConcentrationWithinLimits /\ [Next]_vars => ConcentrationWithinLimits'
<1> SUFFICES ASSUME TypeOK, ConcentrationWithinLimits, [Next]_vars, ~ blind'
             PROVE  /\ Cardinality(Open') <= MaxOpen
                    /\ \A c \in Conditions :
                          /\ Cardinality({t \in Open' : t[1] = c}) <= MaxPerCondition
                          /\ EventOf[c] # None =>
                                Cardinality({t \in Open' : EventOf[t[1]] = EventOf[c]})
                                   <= MaxPerEvent
  BY DEF ConcentrationWithinLimits
<1>1. Open \subseteq Tokens /\ \A S \in SUBSET Tokens : IsFiniteSet(S)
  BY TokensAssumption, FS_Subset DEF Open, TypeOK
<1>2. ASSUME Open' \subseteq Open, ~ blind
      PROVE  /\ Cardinality(Open') <= MaxOpen
             /\ \A c \in Conditions :
                   /\ Cardinality({t \in Open' : t[1] = c}) <= MaxPerCondition
                   /\ EventOf[c] # None =>
                         Cardinality({t \in Open' : EventOf[t[1]] = EventOf[c]})
                            <= MaxPerEvent
  <2>1. Cardinality(Open') <= MaxOpen
    BY <1>1, <1>2, FewerStill, BoundsOfCounts DEF ConcentrationWithinLimits
  <2>2. ASSUME NEW c \in Conditions
        PROVE  Cardinality({t \in Open' : t[1] = c}) <= MaxPerCondition
    <3> DEFINE S == {t \in Open : t[1] = c}
               R == {t \in Open' : t[1] = c}
    <3>1. IsFiniteSet(S) /\ R \subseteq S
      BY <1>1, <1>2
    <3>2. Cardinality(S) <= MaxPerCondition
      BY <1>2 DEF ConcentrationWithinLimits
    <3> HIDE DEF S, R
    <3>3. Cardinality(R) <= MaxPerCondition
      BY <3>1, <3>2, FewerStill, BoundsOfCounts
    <3>. QED BY <3>3 DEF R
  <2>3. ASSUME NEW c \in Conditions, EventOf[c] # None
        PROVE  Cardinality({t \in Open' : EventOf[t[1]] = EventOf[c]}) <= MaxPerEvent
    <3> DEFINE S == {t \in Open : EventOf[t[1]] = EventOf[c]}
               R == {t \in Open' : EventOf[t[1]] = EventOf[c]}
    <3>1. IsFiniteSet(S) /\ R \subseteq S
      BY <1>1, <1>2
    <3>2. Cardinality(S) <= MaxPerEvent
      BY <1>2, <2>3 DEF ConcentrationWithinLimits
    <3> HIDE DEF S, R
    <3>3. Cardinality(R) <= MaxPerEvent
      BY <3>1, <3>2, FewerStill, BoundsOfCounts
    <3>. QED BY <3>3 DEF R
  <2>. QED BY <2>1, <2>2, <2>3
<1>3. ASSUME NEW s \in Signals, Tick(s)
      PROVE  /\ Cardinality(Open') <= MaxOpen
             /\ \A c \in Conditions :
                   /\ Cardinality({t \in Open' : t[1] = c}) <= MaxPerCondition
                   /\ EventOf[c] # None =>
                         Cardinality({t \in Open' : EventOf[t[1]] = EventOf[c]})
                            <= MaxPerEvent
  <2>1. CASE UNCHANGED <<owned, share, resting, marks, blind>>
    BY <1>2, <2>1 DEF Open
  <2>2. CASE /\ ~blind /\ UNCHANGED <<owned, share, marks>>
             /\ owned = Placed
             /\ \A t \in Tokens : resting[t] = 0
             /\ ~ Blocked(s)
             /\ \E noted \in Evaluate(s), drift \in BOOLEAN :
                   /\ Sized(s, noted, drift) # 0
                   /\ resting' = [t \in Tokens |->
                                    IF t = s.token THEN Sized(s, noted, drift) ELSE 0]
    <3> DEFINE x == s.token
               d == x[1]
    <3>1. Open = owned /\ Open = Placed
      BY <2>2 DEF Open
    <3>2. Open' \subseteq Open \cup {x}
      BY <2>2 DEF Open
    <3>3. /\ ~ (Cardinality(owned) >= MaxOpen)
          /\ ~ (Cardinality(SameCondition(d)) >= MaxPerCondition)
          /\ EventOf[d] # None => ~ (Cardinality(SameEvent(d)) >= MaxPerEvent)
      BY <2>2 DEF Blocked
    <3> HIDE DEF x, d
    <3>4. Cardinality(Open') <= MaxOpen
      BY <1>1, <3>1, <3>2, <3>3, OneAdded, BoundsOfCounts
    <3>5. ASSUME NEW c \in Conditions
          PROVE  Cardinality({t \in Open' : t[1] = c}) <= MaxPerCondition
      <4> DEFINE S == {t \in Open : t[1] = c}
                 R == {t \in Open' : t[1] = c}
      <4>1. IsFiniteSet(S) /\ Cardinality(S) <= MaxPerCondition
        BY <1>1, <2>2 DEF ConcentrationWithinLimits
      <4>2. CASE c = d
        <5>1. S = SameCondition(d) /\ R \subseteq S \cup {x}
          BY <3>1, <3>2, <4>2 DEF SameCondition
        <5> HIDE DEF S, R
        <5>2. Cardinality(R) <= MaxPerCondition
          BY <3>3, <4>1, <5>1, OneAdded, BoundsOfCounts
        <5>. QED BY <5>2 DEF R
      <4>3. CASE c # d
        <5>1. R \subseteq S
          BY <3>2, <4>3 DEF d
        <5> HIDE DEF S, R
        <5>2. Cardinality(R) <= MaxPerCondition
          BY <4>1, <5>1, FewerStill, BoundsOfCounts
        <5>. QED BY <5>2 DEF R
      <4>. QED BY <4>2, <4>3
    <3>6. ASSUME NEW c \in Conditions, EventOf[c] # None
          PROVE  Cardinality({t \in Open' : EventOf[t[1]] = EventOf[c]}) <= MaxPerEvent
      <4> DEFINE S == {t \in Open : EventOf[t[1]] = EventOf[c]}
                 R == {t \in Open' : EventOf[t[1]] = EventOf[c]}
      <4>1. IsFiniteSet(S) /\ Cardinality(S) <= MaxPerEvent
        BY <1>1, <2>2, <3>6 DEF ConcentrationWithinLimits
      <4>2. CASE EventOf[c] = EventOf[d]
        <5>1. S = SameEvent(d) /\ R \subseteq S \cup {x}
          BY <3>1, <3>2, <4>2 DEF SameEvent
        <5> HIDE DEF S, R
        <5>2. Cardinality(R) <= MaxPerEvent
          BY <3>3, <3>6, <4>1, <4>2, <5>1, OneAdded, BoundsOfCounts
        <5>. QED BY <5>2 DEF R
      <4>3. CASE EventOf[c] # EventOf[d]
        <5>1. R \subseteq S
          BY <3>2, <4>3 DEF d
        <5> HIDE DEF S, R
        <5>2. Cardinality(R) <= MaxPerEvent
          BY <4>1, <5>1, FewerStill, BoundsOfCounts
        <5>. QED BY <5>2 DEF R
      <4>. QED BY <4>2, <4>3
    <3>. QED BY <3>4, <3>5, <3>6
  <2>. QED BY <1>3, <2>1, <2>2, SightedTick
<1>4. CASE \A s \in Signals : ~ Tick(s)
  BY <1>2, <1>4, OpenShrinks
<1>. QED BY <1>3, <1>4

(* As long as no order was sent over something the gate does not see, what  *)
(* is booked and what rests are on MaxPerCondition sides of a condition,    *)
(* MaxPerEvent tokens of an event and MaxOpen in all, whatever the limits   *)
(* and the markets, through fills, exits, re-entries and restarts           *)
(* (risk/limits.py, risk/policy.py).                                        *)
THEOREM ConcentrationIsLimited == Spec => []ConcentrationWithinLimits
<1>1. Init => ConcentrationWithinLimits
  <2> SUFFICES ASSUME Init PROVE ConcentrationWithinLimits
    OBVIOUS
  <2>1. Open = {}
    BY DEF Init, Open
  <2>2. Cardinality({}) = 0
    BY FS_EmptySet
  <2>3. \A c : /\ {t \in Open : t[1] = c} = {}
               /\ {t \in Open : EventOf[t[1]] = EventOf[c]} = {}
    BY <2>1
  <2>. QED BY <2>1, <2>2, <2>3, BoundsOfCounts DEF ConcentrationWithinLimits
<1>. QED BY <1>1, ConcentrationStep, TypeCorrect, PTL DEF Spec

-----------------------------------------------------------------------------
(* Sums over finite sets (LedgerProofs has the same of SumFunctionOnSet).   *)

SumOf(f, S) == MapThenSumSet(LAMBDA t : f[t], S)

(* Induction on a finite set: of the subsets of S with a property, one has  *)
(* it although none with an element less does.                              *)
LEMMA SmallestSet ==
    ASSUME NEW S, IsFiniteSet(S), NEW B \in SUBSET SUBSET S, B # {}
    PROVE  \E m \in B : \A x \in m : m \ {x} \notin B
<1> DEFINE R == StrictSubsetOrdering(S)
<1>1. B \subseteq FiniteSubsetsOf(S)
  BY FS_Subset DEF FiniteSubsetsOf
<1>2. IsWellFoundedOn(R, FiniteSubsetsOf(S))
  BY FS_StrictSubsetOrderingWellFounded
<1>3. PICK m \in B : \A n \in B : ~ (<<n, m>> \in R)
  <2> HIDE DEF R
  <2>. QED BY <1>1, <1>2, WFMin
<1>4. \A x \in m : m \ {x} \notin B
  BY <1>3 DEF StrictSubsetOrdering
<1>. QED BY <1>4

One(s) == CHOOSE x \in s : TRUE

(* g[s] is the sum of f over s, for the subsets s in F.                     *)
Sums(f, F, g) ==
    g = [s \in F |-> IF s = {} THEN 0 ELSE f[One(s)] + g[s \ {One(s)}]]

(* Two solutions agree where both are defined.                              *)
LEMMA SumsAgree ==
    ASSUME NEW S, IsFiniteSet(S), NEW T \in SUBSET S, NEW f, NEW g, NEW h,
           Sums(f, SUBSET S, g), Sums(f, SUBSET T, h)
    PROVE  \A s \in SUBSET T : g[s] = h[s]
<1> DEFINE B == {s \in SUBSET T : g[s] # h[s]}
<1> SUFFICES ASSUME B # {} PROVE FALSE
  OBVIOUS
<1>1. B \in SUBSET SUBSET S
  OBVIOUS
<1>2. PICK m \in B : \A x \in m : m \ {x} \notin B
  <2> HIDE DEF B
  <2>. QED BY <1>1, SmallestSet
<1>3. /\ g[m] = IF m = {} THEN 0 ELSE f[One(m)] + g[m \ {One(m)}]
      /\ h[m] = IF m = {} THEN 0 ELSE f[One(m)] + h[m \ {One(m)}]
  BY <1>2 DEF Sums
<1>4. m # {} => One(m) \in m
  BY DEF One
<1>5. m # {} => g[m \ {One(m)}] = h[m \ {One(m)}]
  BY <1>2, <1>4
<1>. QED BY <1>2, <1>3, <1>5

(* The recursion of the sum has a solution: one for the subsets with n      *)
(* elements at most, for one n after the other.                             *)
LEMMA SumsExist ==
    ASSUME NEW S, IsFiniteSet(S), NEW f
    PROVE  \E g : Sums(f, SUBSET S, g)
<1> DEFINE F(n) == {s \in SUBSET S : Cardinality(s) <= n}
           B == {T \in SUBSET S : ~ \E g : Sums(f, F(Cardinality(T)), g)}
<1>1. ASSUME NEW s \in SUBSET S
      PROVE  /\ Cardinality(s) \in Nat /\ IsFiniteSet(s)
             /\ s = {} <=> Cardinality(s) = 0
             /\ \A x \in s : Cardinality(s \ {x}) = Cardinality(s) - 1
             /\ Cardinality(s) <= Cardinality(S)
  <2>1. IsFiniteSet(s)
    BY FS_Subset
  <2>. QED BY <2>1, FS_CardinalityType, FS_EmptySet, FS_RemoveElement, FS_Subset
<1>2. B = {}
  <2> SUFFICES ASSUME B # {} PROVE FALSE
    OBVIOUS
  <2>1. PICK m \in B : \A x \in m : m \ {x} \notin B
    <3>1. B \in SUBSET SUBSET S
      OBVIOUS
    <3> HIDE DEF B
    <3>. QED BY <3>1, SmallestSet
  <2> DEFINE n == Cardinality(m)
  <2>2. n \in Nat
    BY <1>1
  <2>3. CASE m = {}
    <3>1. F(n) = {{}}
      BY <1>1, <2>3
    <3> DEFINE g == [s \in {{}} |-> 0]
    <3>2. Sums(f, {{}}, g)
      BY DEF Sums
    <3>. QED BY <2>1, <3>1, <3>2
  <2>4. CASE m # {}
    <3>1. PICK x \in m : TRUE
      BY <2>4
    <3>2. Cardinality(m \ {x}) = n - 1 /\ m \ {x} \in SUBSET S
      BY <1>1, <3>1
    <3>3. PICK g : Sums(f, F(n - 1), g)
      BY <2>1, <3>1, <3>2
    <3> DEFINE h == [s \in F(n) |-> IF s = {} THEN 0 ELSE f[One(s)] + g[s \ {One(s)}]]
    <3>4. ASSUME NEW s \in F(n), s # {}
          PROVE  s \ {One(s)} \in F(n - 1) /\ s \ {One(s)} \in F(n)
      <4>1. One(s) \in s
        BY <3>4 DEF One
      <4>2. s \in SUBSET S /\ Cardinality(s) <= n /\ Cardinality(s) \in Nat
        BY <1>1
      <4>3. Cardinality(s \ {One(s)}) = Cardinality(s) - 1 /\ s \ {One(s)} \in SUBSET S
        BY <1>1, <4>1, <4>2
      <4>. QED BY <2>2, <4>2, <4>3
    <3>5. ASSUME NEW s \in F(n - 1)
          PROVE  s \in F(n) /\ h[s] = g[s]
      <4>1. s \in F(n)
        BY <1>1, <2>2
      <4>2. g[s] = IF s = {} THEN 0 ELSE f[One(s)] + g[s \ {One(s)}]
        <5> HIDE DEF F
        <5>. QED BY <3>3 DEF Sums
      <4>. QED BY <4>1, <4>2
    <3>6. Sums(f, F(n), h)
      <4>1. \A s \in F(n) : s # {} => h[s \ {One(s)}] = g[s \ {One(s)}]
        <5> HIDE DEF F, h
        <5>. QED BY <3>4, <3>5
      <4>2. h = [s \in F(n) |-> IF s = {} THEN 0 ELSE f[One(s)] + h[s \ {One(s)}]]
        <5> DEFINE k == [s \in F(n) |-> IF s = {} THEN 0 ELSE f[One(s)] + h[s \ {One(s)}]]
        <5>1. \A s \in F(n) : h[s] = k[s]
          <6> HIDE DEF F
          <6>. QED BY <4>1
        <5>. QED BY <5>1
      <4> HIDE DEF h, F
      <4>. QED BY <4>2 DEF Sums
    <3>. QED BY <2>1, <3>6
  <2>. QED BY <2>3, <2>4
<1>3. \E g : Sums(f, F(Cardinality(S)), g)
  BY <1>2
<1>4. F(Cardinality(S)) = SUBSET S
  BY <1>1
<1>. QED BY <1>3, <1>4

(* The fold of the library is that solution.                                *)
LEMMA SumIs ==
    ASSUME NEW S, IsFiniteSet(S), NEW f, NEW g, Sums(f, SUBSET S, g), NEW s \in SUBSET S
    PROVE  SumOf(f, s) = g[s]
<1>1. IsFiniteSet(s)
  BY FS_Subset
<1>2. PICK h : Sums(f, SUBSET s, h)
  BY <1>1, SumsExist
<1> DEFINE k == CHOOSE k : Sums(f, SUBSET s, k)
<1>3. Sums(f, SUBSET s, k)
  <2> HIDE DEF Sums
  <2>. QED BY <1>2
<1>4. SumOf(f, s) = k[s]
  BY DEF SumOf, MapThenSumSet, MapThenFoldSet, Sums, One
<1> HIDE DEF k
<1>5. s \in SUBSET s
  OBVIOUS
<1>. QED BY <1>3, <1>4, <1>5, SumsAgree

(* The sum over no element, and over the element that is chosen first.      *)
LEMMA SumFirst ==
    ASSUME NEW S, IsFiniteSet(S), NEW f
    PROVE  /\ S = {} => SumOf(f, S) = 0
           /\ S # {} => /\ One(S) \in S
                        /\ SumOf(f, S)
                             = f[One(S)] + SumOf(f, S \ {One(S)})
<1>1. PICK g : Sums(f, SUBSET S, g)
  BY SumsExist
<1>2. S \in SUBSET S /\ S \ {One(S)} \in SUBSET S
  OBVIOUS
<1>3. SumOf(f, S) = g[S]
      /\ SumOf(f, S \ {One(S)}) = g[S \ {One(S)}]
  BY <1>1, <1>2, SumIs
<1>4. g[S] = IF S = {} THEN 0 ELSE f[One(S)] + g[S \ {One(S)}]
  BY <1>1, <1>2 DEF Sums
<1>5. S # {} => One(S) \in S
  BY DEF One
<1>. QED BY <1>3, <1>4, <1>5

(* A sum of integers is one.                                                *)
LEMMA SumIsInt ==
    ASSUME NEW S, IsFiniteSet(S), NEW f, \A x \in S : f[x] \in Int
    PROVE  SumOf(f, S) \in Int
<1> DEFINE B == {s \in SUBSET S : SumOf(f, s) \notin Int}
<1>1. B = {}
  <2> SUFFICES ASSUME B # {} PROVE FALSE
    OBVIOUS
  <2>1. PICK m \in B : \A x \in m : m \ {x} \notin B
    <3>1. B \in SUBSET SUBSET S
      OBVIOUS
    <3> HIDE DEF B
    <3>. QED BY <3>1, SmallestSet
  <2>2. IsFiniteSet(m)
    BY FS_Subset
  <2>3. m # {}
    BY <2>1, <2>2, SumFirst
  <2>4. One(m) \in m
        /\ SumOf(f, m) = f[One(m)] + SumOf(f, m \ {One(m)})
    BY <2>2, <2>3, SumFirst
  <2>5. SumOf(f, m \ {One(m)}) \in Int /\ f[One(m)] \in Int
    BY <2>1, <2>4
  <2>. QED BY <2>1, <2>4, <2>5
<1>. QED BY <1>1

(* Any element may be taken out first.                                      *)
LEMMA SumWithout ==
    ASSUME NEW S, IsFiniteSet(S), NEW f, \A x \in S : f[x] \in Int, NEW x \in S
    PROVE  SumOf(f, S) = f[x] + SumOf(f, S \ {x})
<1> DEFINE Sum(s) == SumOf(f, s)
           B == {s \in SUBSET S : \E y \in s : Sum(s) # f[y] + Sum(s \ {y})}
<1>1. B = {}
  <2> SUFFICES ASSUME B # {} PROVE FALSE
    OBVIOUS
  <2>1. PICK m \in B : \A y \in m : m \ {y} \notin B
    <3>1. B \in SUBSET SUBSET S
      OBVIOUS
    <3> HIDE DEF B
    <3>. QED BY <3>1, SmallestSet
  <2>2. PICK y \in m : Sum(m) # f[y] + Sum(m \ {y})
    BY <2>1
  <2>3. \A s \in SUBSET S : IsFiniteSet(s) /\ Sum(s) \in Int
    BY FS_Subset, SumIsInt
  <2>4. One(m) \in m /\ Sum(m) = f[One(m)] + Sum(m \ {One(m)})
    BY <2>2, <2>3, SumFirst
  <2> DEFINE z == One(m)
  <2>5. y # z
    BY <2>2, <2>4
  <2> HIDE DEF z, Sum
  <2>6. z \in m /\ Sum(m) = f[z] + Sum(m \ {z}) /\ y \in m \ {z} /\ z \in m \ {y}
    BY <2>2, <2>4, <2>5 DEF z
  <2>7. Sum(m \ {z}) = f[y] + Sum((m \ {z}) \ {y})
    BY <2>1, <2>6
  <2>8. Sum(m \ {y}) = f[z] + Sum((m \ {y}) \ {z})
    BY <2>1, <2>6
  <2>9. (m \ {z}) \ {y} = (m \ {y}) \ {z} /\ (m \ {y}) \ {z} \in SUBSET S
    OBVIOUS
  <2>10. f[y] \in Int /\ f[z] \in Int /\ Sum((m \ {y}) \ {z}) \in Int
    BY <2>3, <2>6, <2>9
  <2>11. PICK r \in Int : r = Sum((m \ {y}) \ {z})
    BY <2>10
  <2>12. Sum(m \ {z}) = f[y] + r /\ Sum(m \ {y}) = f[z] + r
    BY <2>7, <2>8, <2>9, <2>11
  <2>13. f[z] + (f[y] + r) = f[y] + (f[z] + r)
    BY <2>10, <2>11
  <2>14. Sum(m) = f[y] + Sum(m \ {y})
    BY <2>6, <2>12, <2>13, Zenon
  <2>. QED BY <2>2, <2>14
<1>2. S \in SUBSET S /\ S \notin B
  BY <1>1
<1>. QED BY <1>2

(* A sum of natural numbers is one; a sum of zeros is zero.                 *)
LEMMA SumIsNat ==
    ASSUME NEW S, IsFiniteSet(S), NEW f, \A x \in S : f[x] \in Nat
    PROVE  /\ SumOf(f, S) \in Nat
           /\ (\A x \in S : f[x] = 0) => SumOf(f, S) = 0
<1> DEFINE Ok(s) == /\ SumOf(f, s) \in Nat
                    /\ (\A x \in s : f[x] = 0) => SumOf(f, s) = 0
           B == {s \in SUBSET S : ~ Ok(s)}
<1>1. B = {}
  <2> SUFFICES ASSUME B # {} PROVE FALSE
    OBVIOUS
  <2>1. PICK m \in B : \A x \in m : m \ {x} \notin B
    <3>1. B \in SUBSET SUBSET S
      OBVIOUS
    <3> HIDE DEF B
    <3>. QED BY <3>1, SmallestSet
  <2>2. IsFiniteSet(m) /\ ~ Ok(m)
    BY <2>1, FS_Subset
  <2>3. m # {}
    <3>1. m = {} => SumOf(f, m) = 0
      BY <2>2, SumFirst
    <3>. QED BY <2>2, <3>1
  <2>4. One(m) \in m /\ SumOf(f, m) = f[One(m)] + SumOf(f, m \ {One(m)})
    BY <2>2, <2>3, SumFirst
  <2>5. Ok(m \ {One(m)}) /\ f[One(m)] \in Nat
    BY <2>1, <2>4
  <2>. QED BY <2>2, <2>4, <2>5
<1>. QED BY <1>1

(* Two sums over part of a set, if nothing in it has gone up.               *)
LEMMA SumsShrink ==
    ASSUME NEW S, IsFiniteSet(S), NEW R, R \subseteq S, NEW f, NEW g, NEW h, NEW k,
           \A x \in S : f[x] \in Nat /\ g[x] \in Nat /\ h[x] \in Nat /\ k[x] \in Nat,
           \A x \in R : h[x] + k[x] <= f[x] + g[x]
    PROVE  SumOf(h, R) + SumOf(k, R) <= SumOf(f, S) + SumOf(g, S)
<1> DEFINE Ok(s) == SumOf(h, s \cap R) + SumOf(k, s \cap R) <= SumOf(f, s) + SumOf(g, s)
           B == {s \in SUBSET S : ~ Ok(s)}
<1>1. \A s \in SUBSET S : /\ IsFiniteSet(s) /\ IsFiniteSet(s \cap R)
                          /\ SumOf(f, s) \in Nat /\ SumOf(g, s) \in Nat
                          /\ SumOf(h, s \cap R) \in Nat /\ SumOf(k, s \cap R) \in Nat
  <2> TAKE s \in SUBSET S
  <2>1. IsFiniteSet(s) /\ IsFiniteSet(s \cap R)
    BY FS_Subset
  <2>. QED BY <2>1, SumIsNat
<1>2. B = {}
  <2> SUFFICES ASSUME B # {} PROVE FALSE
    OBVIOUS
  <2>1. PICK m \in B : \A x \in m : m \ {x} \notin B
    <3>1. B \in SUBSET SUBSET S
      OBVIOUS
    <3> HIDE DEF B
    <3>. QED BY <3>1, SmallestSet
  <2>2. CASE m = {}
    <3>1. \A q : SumOf(q, {}) = 0
      BY FS_EmptySet, SumFirst
    <3>. QED BY <2>1, <2>2, <3>1
  <2>3. CASE m # {}
    <3>1. PICK x \in m : TRUE
      BY <2>3
    <3> DEFINE r == m \ {x}
    <3>2. Ok(r) /\ r \in SUBSET S
      BY <2>1, <3>1
    <3>3. SumOf(f, m) = f[x] + SumOf(f, r) /\ SumOf(g, m) = g[x] + SumOf(g, r)
      <4>1. m \in SUBSET S
        OBVIOUS
      <4>2. IsFiniteSet(m)
        BY <4>1, FS_Subset
      <4>3. \A y \in m : f[y] \in Int /\ g[y] \in Int
        BY <4>1
      <4>. QED BY <4>2, <4>3, SumWithout
    <3>4. f[x] \in Nat /\ g[x] \in Nat /\ h[x] \in Nat /\ k[x] \in Nat
      BY <3>1
    <3> PICK a \in Nat, b \in Nat, c \in Nat, d \in Nat :
           /\ a = SumOf(f, r) /\ b = SumOf(g, r)
           /\ c = SumOf(h, r \cap R) /\ d = SumOf(k, r \cap R)
      BY <1>1, <3>2
    <3>7. c + d <= a + b
      BY <3>2
    <3>5. CASE x \in R
      <4>1. (m \cap R) \ {x} = r \cap R
        OBVIOUS
      <4>2. SumOf(h, m \cap R) = h[x] + SumOf(h, r \cap R)
            /\ SumOf(k, m \cap R) = k[x] + SumOf(k, r \cap R)
        <5>1. x \in m \cap R /\ IsFiniteSet(m \cap R)
          BY <1>1, <3>5
        <5>2. \A y \in m \cap R : h[y] \in Int /\ k[y] \in Int
          OBVIOUS
        <5>. QED BY <4>1, <5>1, <5>2, SumWithout
      <4>3. h[x] + k[x] <= f[x] + g[x]
        BY <3>5
      <4>4. Ok(m)
        <5>1. (h[x] + c) + (k[x] + d) <= (f[x] + a) + (g[x] + b)
          BY <3>4, <3>7, <4>3
        <5> HIDE DEF r
        <5>. QED BY <3>3, <4>2, <5>1
      <4>. QED BY <2>1, <4>4
    <3>6. CASE x \notin R
      <4>1. m \cap R = r \cap R
        BY <3>6
      <4>2. Ok(m)
        <5>1. c + d <= (f[x] + a) + (g[x] + b)
          BY <3>4, <3>7
        <5> HIDE DEF r
        <5>. QED BY <3>3, <4>1, <5>1
      <4>. QED BY <2>1, <4>2
    <3>. QED BY <3>5, <3>6
  <2>. QED BY <2>2, <2>3
<1>3. Ok(S) /\ S \cap R = R
  BY <1>2
<1>. QED BY <1>3

(* n more at x, and nothing that rests elsewhere.                           *)
LEMMA SumsGrow ==
    ASSUME NEW S, IsFiniteSet(S), NEW x, NEW f, NEW k, NEW n \in Nat,
           \A y \in S \cup {x} : f[y] \in Nat /\ k[y] = (IF y = x THEN n ELSE 0),
           x \in S \/ f[x] = 0
    PROVE  SumOf(f, S \cup {x}) + SumOf(k, S \cup {x}) = SumOf(f, S) + n
<1> DEFINE R == S \cup {x}
<1>1. IsFiniteSet(R) /\ IsFiniteSet(R \ {x})
  BY FS_AddElement, FS_Subset
<1>2. SumOf(f, R) = SumOf(f, S) /\ SumOf(f, S) \in Nat
  <2>1. CASE x \in S
    <3>1. R = S
      BY <2>1
    <3>. QED BY <3>1, SumIsNat
  <2>2. CASE x \notin S
    <3>1. R \ {x} = S /\ f[x] = 0
      BY <2>2
    <3>2. SumOf(f, R) = f[x] + SumOf(f, R \ {x})
      BY <1>1, SumWithout
    <3>3. SumOf(f, S) \in Nat
      BY SumIsNat
    <3> HIDE DEF R
    <3>4. SumOf(f, R) = 0 + SumOf(f, S)
      BY <3>1, <3>2
    <3>. QED BY <3>3, <3>4
  <2>. QED BY <2>1, <2>2
<1>3. SumOf(k, R \ {x}) = 0
  BY <1>1, SumIsNat
<1>4. SumOf(k, R) = k[x] + SumOf(k, R \ {x})
  BY <1>1, SumWithout
<1>5. k[x] = n
  OBVIOUS
<1>. QED BY <1>2, <1>3, <1>4, <1>5

-----------------------------------------------------------------------------
(* Exposures.                                                               *)

(* What is not a position has no points.                                    *)
OwnedHavePoints == \A t \in Tokens \ owned : share[t] = 0

(* The inductive invariant of the exposure limits.                          *)
ExposureInv == OwnedHavePoints /\ ExposureWithinLimits

(* The figures the limits are about, as sums.                               *)
LEMMA PointsAreSums ==
    \A S : /\ Points(S) = SumOf(share, S) + SumOf(resting, S)
           /\ Exposure(S) = SumOf(share, S)
BY DEF Points, Exposure, SumOf

(* The size of an order fits what is booked, if the gate judged it.         *)
LEMMA SizedFits ==
    ASSUME TypeOK, NEW s \in Signals, NEW noted \in Evaluate(s), NEW drift \in BOOLEAN
    PROVE  Fits(s, Sized(s, noted, drift))
<1> DEFINE n == Sized(s, noted, drift)
           c == s.token[1]
<1>1. \A S \in SUBSET Tokens : Exposure(S) \in Nat
  <2> TAKE S \in SUBSET Tokens
  <2>1. IsFiniteSet(S)
    BY TokensAssumption, FS_Subset
  <2>2. \A t \in S : share[t] \in Nat
    BY DEF TypeOK
  <2>3. SumOf(share, S) \in Nat
    BY <2>1, <2>2, SumIsNat
  <2>. QED BY <2>3, PointsAreSums
<1>2. Exposure(owned) \in Nat /\ Exposure(SameCategory(c)) \in Nat
  <2>1. owned \in SUBSET Tokens /\ SameCategory(c) \in SUBSET Tokens
    BY DEF TypeOK, SameCategory, Placed
  <2>. QED BY <1>1, <2>1
<1>3. ASSUME NEW i \in Nat, NEW j \in Nat, i <= j, Fits(s, j)
      PROVE  Fits(s, i)
  <2>1. MaxTotal \in Nat /\ MaxCategory \in Nat
    BY LimitsAssumption
  <2>2. PICK p \in Nat, q \in Nat : p = Exposure(owned) /\ q = Exposure(SameCategory(c))
    BY <1>2
  <2>3. p + j <= MaxTotal /\ (CategoryOf[c] # None => q + j <= MaxCategory)
    BY <1>3, <2>2 DEF Fits
  <2>4. p + i <= MaxTotal /\ (CategoryOf[c] # None => q + i <= MaxCategory)
    BY <1>3, <2>1, <2>3
  <2>. QED BY <2>2, <2>4 DEF Fits
<1>4. s.size \in Nat /\ n \in Nat /\ n <= Least(s.size, MaxPosition) /\ MaxPosition \in Nat
  BY SizedIsLess, BoundsAreNat DEF Signals
<1>5. n <= s.size
  <2> HIDE DEF n
  <2>. QED BY <1>4 DEF Least
<1>6. CASE Fits(s, s.size)
  <2> HIDE DEF n
  <2>1. Fits(s, n)
    BY <1>3, <1>4, <1>5, <1>6
  <2>. QED BY <2>1 DEF n
<1>7. CASE ~ Fits(s, s.size)
  <2>1. PICK m \in Reductions(s) : noted = [reduced EXCEPT ![c] = m]
    BY <1>7 DEF Evaluate
  <2>2. m \in 1..MaxPosition /\ m < s.size /\ IsHeadroom(s, m)
    BY <1>7 DEF Reductions
  <2>3. m \in Nat /\ m # 0 /\ m # None
    BY <1>4, <2>2, SizesAssumption
  <2>4. Fits(s, m)
    BY <2>2, <2>3 DEF IsHeadroom
  <2>5. noted[c] = m
    <3>1. c \in Conditions
      BY TokensAssumption DEF Signals
    <3>. QED BY <2>1, <3>1 DEF TypeOK
  <2>6. n <= m
    <3> DEFINE pct == Least(m, MaxPosition)
    <3>1. n = IF drift THEN pct \div 2 ELSE pct
      BY <2>3, <2>5 DEF Sized
    <3>2. pct \in Nat /\ pct <= m
      BY <1>4, <2>3 DEF Least
    <3> HIDE DEF n, pct
    <3>3. pct \div 2 \in Nat /\ pct \div 2 <= pct
      BY <3>2
    <3>. QED BY <2>3, <3>1, <3>2, <3>3
  <2> HIDE DEF n
  <2>7. Fits(s, n)
    BY <1>3, <1>4, <2>3, <2>4, <2>6
  <2>. QED BY <2>7 DEF n
<1>. QED BY <1>6, <1>7

(* No step but an order adds points to a token, as long as no price moves.  *)
LEMMA PointsShrink ==
    ASSUME TypeOK, OwnedHavePoints, [Next]_vars, \A s \in Signals : ~ Tick(s)
    PROVE  /\ OwnedHavePoints'
           /\ marks' = marks =>
                \A t \in Tokens : share'[t] + resting'[t] <= share[t] + resting[t]
<1>0. \A t \in Tokens : share[t] \in Nat /\ resting[t] \in Nat
  BY DEF TypeOK
<1>1. ASSUME NEW S \in SUBSET Conditions, Sample(S)
      PROVE  UNCHANGED <<owned, share, resting>>
  BY <1>1 DEF Sample, books
<1>2. ASSUME NEW t \in Tokens, NEW n \in 1..resting[t], Book(t, n)
      PROVE  /\ OwnedHavePoints'
             /\ \A u \in Tokens : share'[u] + resting'[u] <= share[u] + resting[u]
  <2>1. n \in Nat /\ share[t] \in Nat /\ resting[t] \in Nat
    BY <1>0
  <2>2. /\ owned' = owned \cup {t}
        /\ share'[t] = share[t] + n /\ resting'[t] = resting[t] - n
        /\ \A u \in Tokens : u # t => share'[u] = share[u] /\ resting'[u] = resting[u]
    BY <1>2 DEF Book, TypeOK
  <2>3. share'[t] + resting'[t] <= share[t] + resting[t]
    BY <2>1, <2>2
  <2>4. OwnedHavePoints'
    BY <2>2 DEF OwnedHavePoints
  <2>. QED BY <1>0, <2>2, <2>3, <2>4
<1>3. ASSUME NEW t \in Tokens, Lapse(t)
      PROVE  /\ OwnedHavePoints'
             /\ \A u \in Tokens : share'[u] + resting'[u] <= share[u] + resting[u]
  <2>1. /\ UNCHANGED <<owned, share>> /\ resting'[t] = 0
        /\ \A u \in Tokens : u # t => resting'[u] = resting[u]
    BY <1>3 DEF Lapse, TypeOK
  <2>. QED BY <1>0, <2>1 DEF OwnedHavePoints
<1>4. ASSUME NEW t \in Tokens, NEW n \in 0..share[t], Exit(t, n)
      PROVE  /\ OwnedHavePoints'
             /\ \A u \in Tokens : share'[u] + resting'[u] <= share[u] + resting[u]
  <2>1. /\ resting' = resting /\ share'[t] = n
        /\ \A u \in Tokens : u # t => share'[u] = share[u]
        /\ t \in owned /\ owned' = IF n = 0 THEN owned \ {t} ELSE owned
    BY <1>4 DEF Exit, TypeOK
  <2>2. n \in Nat /\ n <= share[t]
    BY <1>0
  <2>3. OwnedHavePoints'
    BY <2>1 DEF OwnedHavePoints
  <2>. QED BY <1>0, <2>1, <2>2, <2>3
<1>5. ASSUME NEW t \in Tokens, NEW n \in 0..MaxShare, Mark(t, n)
      PROVE  OwnedHavePoints' /\ marks' # marks
  <2>1. marks' = marks + 1 /\ marks \in Nat
    BY <1>5, BoundsAreNat DEF Mark, TypeOK
  <2>2. owned' = owned /\ t \in owned /\ \A u \in Tokens : u # t => share'[u] = share[u]
    BY <1>5 DEF Mark, TypeOK
  <2>. QED BY <2>1, <2>2 DEF OwnedHavePoints
<1>6. ASSUME Restart
      PROVE  /\ OwnedHavePoints'
             /\ \A u \in Tokens : share'[u] + resting'[u] <= share[u] + resting[u]
  <2>1. UNCHANGED <<owned, share>> /\ \A u \in Tokens : resting'[u] = 0
    BY <1>6 DEF Restart
  <2>. QED BY <1>0, <2>1 DEF OwnedHavePoints
<1>7. CASE UNCHANGED vars
  BY <1>0, <1>7 DEF vars, books, OwnedHavePoints
<1>. QED BY <1>0, <1>1, <1>2, <1>3, <1>4, <1>5, <1>6, <1>7 DEF Next, OwnedHavePoints

(* An order adds its points to what fits, and nothing else adds any.        *)
LEMMA ExposureStep == TypeOK /\ TypeOK' /\ ExposureInv /\ [Next]_vars => ExposureInv'
<1> SUFFICES ASSUME TypeOK, TypeOK', ExposureInv, [Next]_vars PROVE ExposureInv'
  OBVIOUS
<1> DEFINE Beside(c, S) == {t \in S : CategoryOf[t[1]] = CategoryOf[c]}
           Now(S) == SumOf(share, S) + SumOf(resting, S)
           Then(S) == SumOf(share', S) + SumOf(resting', S)
           Within == /\ Then(Open') <= MaxTotal
                     /\ \A c \in Conditions :
                           CategoryOf[c] # None => Then(Beside(c, Open')) <= MaxCategory
<1>1. Open \subseteq Tokens /\ Open' \subseteq Tokens /\ owned \subseteq Tokens
      /\ \A S \in SUBSET Tokens : IsFiniteSet(S)
  BY TokensAssumption, FS_Subset DEF Open, TypeOK
<1>2. \A t \in Tokens : /\ share[t] \in Nat /\ resting[t] \in Nat
                        /\ share'[t] \in Nat /\ resting'[t] \in Nat
  BY DEF TypeOK
<1>3. ~ blind /\ marks = 0 =>
         /\ Now(Open) <= MaxTotal
         /\ \A c \in Conditions : CategoryOf[c] # None => Now(Beside(c, Open)) <= MaxCategory
  BY PointsAreSums DEF ExposureInv, ExposureWithinLimits
<1>4. Within => ExposureWithinLimits'
  <2>1. Points(Open)' = Then(Open')
    BY DEF Points, Exposure, SumOf, MapThenSumSet, MapThenFoldSet
  <2>2. \A c : Points({t \in Open : CategoryOf[t[1]] = CategoryOf[c]})' = Then(Beside(c, Open'))
    BY DEF Points, Exposure, SumOf, MapThenSumSet, MapThenFoldSet
  <2>. QED BY <2>1, <2>2 DEF ExposureWithinLimits
<1>5. MaxTotal \in Nat /\ MaxCategory \in Nat
  BY LimitsAssumption
<1>6. ASSUME NEW S \in SUBSET Tokens, NEW R \in SUBSET S, NEW m \in Nat, Now(S) <= m,
             \A t \in R : share'[t] + resting'[t] <= share[t] + resting[t]
      PROVE  Then(R) <= m
  <2>1. IsFiniteSet(S) /\ IsFiniteSet(R)
    BY <1>1
  <2>2. Then(R) <= Now(S)
    BY <1>2, <1>6, <2>1, SumsShrink
  <2>3. /\ SumOf(share, S) \in Nat /\ SumOf(resting, S) \in Nat
        /\ SumOf(share', R) \in Nat /\ SumOf(resting', R) \in Nat
    BY <1>2, <2>1, SumIsNat
  <2>. QED BY <1>6, <2>2, <2>3
<1>7. ASSUME Open' \subseteq Open, ~ blind, marks = 0,
             \A t \in Tokens : share'[t] + resting'[t] <= share[t] + resting[t]
      PROVE  Within
  <2>1. Then(Open') <= MaxTotal
    BY <1>1, <1>3, <1>5, <1>6, <1>7
  <2>2. ASSUME NEW c \in Conditions, CategoryOf[c] # None
        PROVE  Then(Beside(c, Open')) <= MaxCategory
    <3>1. Beside(c, Open') \in SUBSET Beside(c, Open) /\ Beside(c, Open) \in SUBSET Tokens
      BY <1>1, <1>7
    <3>2. Now(Beside(c, Open)) <= MaxCategory
      BY <1>3, <1>7, <2>2
    <3> HIDE DEF Beside, Now, Then
    <3>. QED BY <1>5, <1>6, <1>7, <3>1, <3>2
  <2>. QED BY <2>1, <2>2
<1>8. ASSUME NEW s \in Signals, Tick(s), ~ blind', marks' = 0
      PROVE  Within
  <2>1. CASE UNCHANGED <<owned, share, resting, marks, blind>>
    BY <1>2, <1>7, <1>8, <2>1 DEF Open
  <2>2. CASE /\ ~blind /\ UNCHANGED <<owned, share, marks>>
             /\ owned = Placed
             /\ \A t \in Tokens : resting[t] = 0
             /\ ~ Blocked(s)
             /\ \E noted \in Evaluate(s), drift \in BOOLEAN :
                   /\ Sized(s, noted, drift) # 0
                   /\ resting' = [t \in Tokens |->
                                    IF t = s.token THEN Sized(s, noted, drift) ELSE 0]
    <3>1. PICK n \in Nat \ {0} :
             /\ Fits(s, n)
             /\ resting' = [t \in Tokens |-> IF t = s.token THEN n ELSE 0]
      BY <2>2, SizedIsLess, SizedFits
    <3> DEFINE x == s.token
               d == x[1]
    <3>2. x \in Tokens /\ d \in Conditions
      BY TokensAssumption DEF Signals
    <3>3. Open = owned /\ Open = Placed /\ Open' = owned \cup {x}
      BY <2>2, <3>1, <3>2 DEF Open
    <3>4. ASSUME NEW S \in SUBSET owned, x \in owned => x \in S
          PROVE  Then(S \cup {x}) = SumOf(share, S) + n
      <4>1. IsFiniteSet(S) /\ S \cup {x} \in SUBSET Tokens
        BY <1>1, <3>2
      <4>2. \A y \in S \cup {x} :
               share'[y] \in Nat /\ resting'[y] = (IF y = x THEN n ELSE 0)
        BY <1>2, <3>1, <4>1
      <4>3. x \in S \/ share'[x] = 0
        BY <2>2, <3>2, <3>4 DEF ExposureInv, OwnedHavePoints
      <4>4. share' = share
        BY <2>2
      <4> HIDE DEF x
      <4>5. Then(S \cup {x}) = SumOf(share', S) + n
        BY <4>1, <4>2, <4>3, SumsGrow
      <4>. QED BY <4>4, <4>5
    <3>5. /\ SumOf(share, owned) + n <= MaxTotal
          /\ CategoryOf[d] # None => SumOf(share, SameCategory(d)) + n <= MaxCategory
      BY <3>1, PointsAreSums DEF Fits
    <3>6. Then(Open') <= MaxTotal
      BY <3>3, <3>4, <3>5
    <3>7. ASSUME NEW c \in Conditions, CategoryOf[c] # None
          PROVE  Then(Beside(c, Open')) <= MaxCategory
      <4>1. CASE CategoryOf[c] = CategoryOf[d]
        <5>1. /\ Beside(c, Open') = SameCategory(d) \cup {x}
              /\ SameCategory(d) \in SUBSET owned
              /\ x \in owned => x \in SameCategory(d)
          BY <3>3, <4>1 DEF SameCategory
        <5>2. Then(SameCategory(d) \cup {x}) = SumOf(share, SameCategory(d)) + n
          BY <3>4, <5>1
        <5>. QED BY <3>5, <3>7, <4>1, <5>1, <5>2
      <4>2. CASE CategoryOf[c] # CategoryOf[d]
        <5>1. Beside(c, Open') = Beside(c, Open) /\ Beside(c, Open) \in SUBSET Tokens
              /\ x \notin Beside(c, Open)
          BY <1>1, <3>3, <4>2
        <5>2. \A t \in Beside(c, Open) : share'[t] + resting'[t] <= share[t] + resting[t]
          <6> TAKE t \in Beside(c, Open)
          <6>1. t \in Tokens /\ t # x
            BY <5>1
          <6>2. share'[t] = share[t] /\ resting'[t] = 0 /\ resting[t] = 0
            BY <2>2, <3>1, <6>1
          <6>. QED BY <1>2, <6>1, <6>2
        <5>3. Now(Beside(c, Open)) <= MaxCategory
          BY <1>3, <1>8, <2>2, <3>7
        <5> HIDE DEF Beside, Now, Then
        <5>4. Then(Beside(c, Open)) <= MaxCategory
          BY <1>5, <1>6, <5>1, <5>2, <5>3
        <5>. QED BY <5>1, <5>4
      <4>. QED BY <4>1, <4>2
    <3>. QED BY <3>6, <3>7
  <2>. QED BY <1>8, <2>1, <2>2, SightedTick
<1>9. ASSUME NEW s \in Signals, Tick(s) PROVE ExposureInv'
  <2>1. OwnedHavePoints'
    BY <1>9 DEF Tick, ExposureInv, OwnedHavePoints
  <2>2. ~ (~ blind' /\ marks' = 0) => ExposureWithinLimits'
    BY DEF ExposureWithinLimits
  <2> HIDE DEF Within
  <2>. QED BY <1>4, <1>8, <1>9, <2>1, <2>2 DEF ExposureInv
<1>10. CASE \A s \in Signals : ~ Tick(s)
  <2>1. OwnedHavePoints'
    BY <1>10, PointsShrink DEF ExposureInv
  <2>2. ASSUME ~ blind', marks' = 0 PROVE Within
    <3>1. Open' \subseteq Open /\ blind' = blind /\ marks = 0
      BY <1>10, <2>2, OpenShrinks
    <3>2. \A t \in Tokens : share'[t] + resting'[t] <= share[t] + resting[t]
      BY <1>10, <2>2, <3>1, PointsShrink DEF ExposureInv
    <3> HIDE DEF Within
    <3>. QED BY <1>7, <2>2, <3>1, <3>2
  <2>3. ~ (~ blind' /\ marks' = 0) => ExposureWithinLimits'
    BY DEF ExposureWithinLimits
  <2> HIDE DEF Within
  <2>. QED BY <1>4, <2>1, <2>2, <2>3 DEF ExposureInv
<1>. QED BY <1>9, <1>10

(* As long as no order was sent over something the gate does not see, and   *)
(* no price has moved, what is booked and what rests are together within    *)
(* the total limit and that of every category, whatever the limits, the     *)
(* sizes proposed and the markets, through reductions, partial fills,       *)
(* exits, re-entries and restarts (risk/limits.py, risk/policy.py).         *)
THEOREM ExposureIsLimited == Spec => []ExposureWithinLimits
<1>1. Init => ExposureInv
  <2> SUFFICES ASSUME Init PROVE ExposureInv
    OBVIOUS
  <2>1. Open = {} /\ OwnedHavePoints
    BY DEF Init, Open, OwnedHavePoints
  <2>2. SumOf(share, {}) = 0 /\ SumOf(resting, {}) = 0
    BY FS_EmptySet, SumFirst
  <2>3. Points({}) = 0
    BY <2>2, PointsAreSums
  <2>4. \A c : {t \in Open : CategoryOf[t[1]] = CategoryOf[c]} = {}
    BY <2>1
  <2>5. 0 <= MaxTotal /\ 0 <= MaxCategory
    BY LimitsAssumption
  <2>. QED BY <2>1, <2>3, <2>4, <2>5 DEF ExposureInv, ExposureWithinLimits
<1>2. ExposureInv => ExposureWithinLimits
  BY DEF ExposureInv
<1>. QED BY <1>1, <1>2, ExposureStep, TypeCorrect, PTL DEF Spec

-----------------------------------------------------------------------------
(* The kill switch: its types, its reason, and what still goes out late.    *)

(* While the switch is engaged, what can still go out unchecked (legs whose *)
(* tasks have not run, the rest of a scan) was under way when it engaged.   *)
(* This is what makes every late submission a committed one.                *)
PendingIsCommitted == engaged => In("leg") \cup scan \subseteq committed

SwitchInv == SwitchTypeOK /\ PendingIsCommitted

(* The switch is off and nothing is under way.                              *)
LEMMA SwitchInitInv == SwitchInit => SwitchInv
<1> SUFFICES ASSUME SwitchInit PROVE SwitchInv
    OBVIOUS
<1>1. /\ engaged = FALSE /\ reason = NoReason /\ shown = FALSE /\ committed = {}
      /\ refused = {} /\ queued = 0 /\ clicks = 0 /\ reboots = 0
      /\ toCancel = {} /\ route = {} /\ scan = {}
      /\ order \in [Orders -> OrderState]
    BY DEF SwitchInit, OrderState
<1>2. queued \in Nat /\ clicks \in Nat /\ reboots \in Nat
    BY <1>1
<1> QED  BY <1>1, <1>2, Zenon DEF SwitchInv, SwitchTypeOK, PendingIsCommitted

(* Ending orders keeps the types, whatever else a step does with them.      *)
LEMMA OverIsTyped ==
    ASSUME SwitchTypeOK, NEW S \in SUBSET Orders, Over(S)
    PROVE  /\ order' \in [Orders -> OrderState]
           /\ toCancel' \subseteq In("posting")' \cup In("open")'
           /\ In("leg")' \subseteq In("leg")
BY DEF SwitchTypeOK, Over, In, OrderState

(* Every step of the switch, of its hooks, of the broker and of the tasks   *)
(* that trade keeps the invariant.                                          *)
LEMMA SwitchNextInv == SwitchInv /\ [SwitchNext]_killSwitchVars => SwitchInv'
<1> SUFFICES ASSUME SwitchInv, [SwitchNext]_killSwitchVars PROVE SwitchInv'
    OBVIOUS
<1> USE OrdersAssumption, ReasonsAssumption, BoundsAssumption
<1>t. SwitchTypeOK /\ PendingIsCommitted
    BY DEF SwitchInv
<1>1. ASSUME NEW r \in Reasons, Observe(r) PROVE SwitchInv'
    BY <1>t, <1>1 DEF Observe, Engage, SwitchInv, SwitchTypeOK, PendingIsCommitted, In,
       switchVars, sweepVars, brokerVars, tradeVars, boundVars
<1>2. CASE Disengage
    <2>1. /\ engaged' = FALSE /\ reason' = NoReason /\ committed' = {}
          /\ UNCHANGED <<shown, queued, toCancel, refused, route, scan, order, reboots>>
          /\ clicks' \in Nat
        BY <1>t, <1>2 DEF Disengage, Click, SwitchTypeOK, sweepVars, brokerVars, tradeVars
    <2> QED  BY <1>t, <2>1, Zenon DEF SwitchInv, SwitchTypeOK, PendingIsCommitted, In
<1>3. CASE Refresh \/ DashboardEngage \/ DashboardDisengage
    <2>1. /\ UNCHANGED <<engaged, reason, committed, toCancel, refused, route, scan, order,
                         reboots>>
          /\ queued' \in Nat /\ clicks' \in Nat
        BY <1>t, <1>3 DEF Refresh, DashboardEngage, DashboardDisengage, ShowSwitch,
           Click, SwitchTypeOK, switchVars, sweepVars, tradeVars, boundVars
    <2>2. shown' \in BOOLEAN
        BY <1>t, <1>3, Zenon DEF Refresh, DashboardEngage, DashboardDisengage,
           ShowSwitch, SwitchTypeOK
    <2> QED  BY <1>t, <2>1, <2>2, Zenon DEF SwitchInv, SwitchTypeOK, PendingIsCommitted, In
<1>4. ASSUME NEW legs \in SUBSET Orders, GateAndRoute(legs) PROVE SwitchInv'
    <2>1. CASE engaged
        BY <1>t, <1>4, <2>1 DEF GateAndRoute, SwitchInv, SwitchTypeOK, PendingIsCommitted, In,
           switchVars, sweepVars, brokerVars, boundVars
    <2>2. CASE ~engaged
        <3>1. /\ route' = legs
              /\ order' \in [Orders -> OrderState]
              /\ \A o \in Orders : order'[o] # order[o] => order[o] = "none"
            BY <1>t, <1>4, <2>2 DEF GateAndRoute, Route, SwitchTypeOK, In, OrderState
        <3> QED  BY <1>t, <1>4, <2>2, <3>1 DEF GateAndRoute, SwitchInv, SwitchTypeOK,
                 PendingIsCommitted, In, switchVars, sweepVars, brokerVars, boundVars
    <2> QED  BY <2>1, <2>2
<1>5. ASSUME NEW o \in Orders, StartLeg(o) PROVE SwitchInv'
    BY <1>t, <1>5 DEF StartLeg, SwitchInv, SwitchTypeOK, PendingIsCommitted, In, OrderState,
       switchVars, sweepVars, brokerVars, boundVars
<1>6. ASSUME NEW o \in Orders, PostReturns(o) PROVE SwitchInv'
    <2>1. CASE Over({o})
        BY <1>t, <1>6, <2>1, OverIsTyped DEF PostReturns, SwitchInv, SwitchTypeOK,
           PendingIsCommitted, switchVars, sweepVars, brokerVars, boundVars
    <2>2. CASE ~Over({o})
        BY <1>t, <1>6, <2>2 DEF PostReturns, SwitchInv, SwitchTypeOK, PendingIsCommitted, In,
           OrderState, switchVars, brokerVars, boundVars
    <2> QED  BY <2>1, <2>2
<1>7. ASSUME NEW o \in Orders, FlattenCancel(o) PROVE SwitchInv'
    <2>1. CASE Over({o})
        BY <1>t, <1>7, <2>1, OverIsTyped DEF FlattenCancel, SwitchInv, SwitchTypeOK,
           PendingIsCommitted, switchVars, sweepVars, brokerVars, boundVars
    <2>2. CASE ~Over({o})
        BY <1>t, <1>7, <2>2 DEF FlattenCancel, SwitchInv, SwitchTypeOK, PendingIsCommitted, In,
           switchVars, sweepVars, brokerVars, boundVars
    <2> QED  BY <2>1, <2>2
<1>8. ASSUME NEW o \in Orders, Fill(o) PROVE SwitchInv'
    BY <1>t, <1>8, OverIsTyped DEF Fill, SwitchInv, SwitchTypeOK, PendingIsCommitted,
       switchVars, sweepVars, brokerVars, boundVars
<1>9. CASE RouteReturn
    <2>1. PICK unwound \in SUBSET route : Over(unwound)
        BY <1>9 DEF RouteReturn
    <2>2. unwound \in SUBSET Orders
        BY <1>t DEF SwitchTypeOK
    <2> QED  BY <1>t, <1>9, <2>1, <2>2, OverIsTyped DEF RouteReturn, SwitchInv, SwitchTypeOK,
             PendingIsCommitted, switchVars, sweepVars, brokerVars, boundVars
<1>10. ASSUME NEW listed \in SUBSET Exits, NEW first \in listed, ScanStart(listed, first)
       PROVE  SwitchInv'
    BY <1>t, <1>10 DEF ScanStart, SwitchInv, SwitchTypeOK, PendingIsCommitted, In, OrderState,
       switchVars, sweepVars, brokerVars, boundVars
<1>11. ASSUME NEW e \in Exits, ScanNext(e) PROVE SwitchInv'
    BY <1>t, <1>11 DEF ScanNext, SwitchInv, SwitchTypeOK, PendingIsCommitted, In, OrderState,
       switchVars, sweepVars, brokerVars, boundVars
<1>15. CASE ScanEnd
    BY <1>t, <1>15 DEF ScanEnd, SwitchInv, SwitchTypeOK, PendingIsCommitted, In,
       switchVars, sweepVars, brokerVars, boundVars
<1>12. CASE FlattenStart
    BY <1>t, <1>12 DEF FlattenStart, SwitchInv, SwitchTypeOK, PendingIsCommitted, In,
       switchVars, boundVars
<1>13. CASE Reboot
    <2>1. /\ engaged' = FALSE /\ reason' = NoReason /\ committed' = {}
          /\ shown' = FALSE /\ toCancel' = {} /\ refused' = {} /\ route' = {} /\ scan' = {}
          /\ order' \in [Orders -> OrderState]
          /\ queued' \in Nat /\ clicks' \in Nat /\ reboots' \in Nat
        BY <1>t, <1>13 DEF Reboot, SwitchTypeOK, OrderState
    <2> QED  BY <2>1, Zenon DEF SwitchInv, SwitchTypeOK, PendingIsCommitted
<1>14. CASE UNCHANGED killSwitchVars
    BY <1>t, <1>14 DEF killSwitchVars, switchVars, sweepVars, brokerVars, tradeVars, boundVars, SwitchInv,
       SwitchTypeOK, PendingIsCommitted, In
<1> QED  BY <1>1, <1>2, <1>3, <1>4, <1>5, <1>6, <1>7, <1>8, <1>9, <1>10, <1>11,
         <1>12, <1>13, <1>14, <1>15 DEF SwitchNext

(* So it holds in every state.                                              *)
LEMMA SwitchInvariance == SwitchSpec => []SwitchInv
BY SwitchInitInv, SwitchNextInv, PTL DEF SwitchSpec

(* The switch, the broker's copy and the orders keep their types; there is  *)
(* a reason exactly while the switch is engaged.                            *)
THEOREM SwitchTypeCorrect == SwitchSpec => []SwitchTypeOK
<1>1. SwitchInv => SwitchTypeOK
    BY DEF SwitchInv
<1> QED  BY <1>1, SwitchInvariance, PTL

(* The reason shown for an engagement is that of its first trigger.         *)
THEOREM ReasonIsTheFirst == SwitchSpec => FirstReasonStays
<1>1. [SwitchNext]_killSwitchVars => [engaged /\ engaged' => reason' = reason]_killSwitchVars
    BY DEF SwitchNext, Observe, Engage, Disengage, Refresh, DashboardEngage,
       DashboardDisengage, GateAndRoute, StartLeg, PostReturns, FlattenCancel, Fill,
       RouteReturn, ScanStart, ScanNext, ScanEnd, FlattenStart, Reboot, switchVars
<1> QED  BY <1>1, PTL DEF SwitchSpec, FirstReasonStays

(* Nothing goes out under an engaged switch but legs already split and the  *)
(* exits of positions a scan had listed before, however their marks move    *)
(* while the scan waits.                                                    *)
THEOREM LateOrdersWereUnderWay == SwitchSpec => LateWasUnderWay
<1> DEFINE Late == \A o \in Orders :
             engaged /\ order[o] # "posting" /\ order'[o] = "posting" => o \in committed
<1>1. ASSUME SwitchInv, SwitchNext PROVE Late
    <2> SUFFICES ASSUME NEW o \in Orders, engaged, order[o] # "posting",
                        order'[o] = "posting"
                 PROVE  o \in committed
        OBVIOUS
    <2>t. SwitchTypeOK /\ In("leg") \cup scan \subseteq committed
        BY <1>1 DEF SwitchInv, PendingIsCommitted
    <2>1. \A S \in SUBSET Orders : ~Over(S)
        BY <2>t DEF Over, SwitchTypeOK
    <2>2. route \in SUBSET Orders /\ \A p \in Orders : {p} \in SUBSET Orders
        BY <2>t DEF SwitchTypeOK
    <2>3. order' # order
        OBVIOUS
    <2>4. ASSUME NEW legs \in SUBSET Orders, GateAndRoute(legs) PROVE FALSE
        BY <2>3, <2>4 DEF GateAndRoute
    <2>5. ASSUME NEW p \in Orders, StartLeg(p) PROVE o \in committed
        BY <2>t, <2>5 DEF StartLeg, SwitchTypeOK, In
    <2>6. ASSUME NEW p \in Orders, PostReturns(p) PROVE FALSE
        BY <2>t, <2>1, <2>2, <2>6 DEF PostReturns, SwitchTypeOK
    <2>7. ASSUME NEW p \in Orders, FlattenCancel(p) \/ Fill(p) PROVE FALSE
        BY <2>1, <2>2, <2>3, <2>7 DEF FlattenCancel, Fill
    <2>8. CASE RouteReturn
        BY <2>1, <2>2, <2>8 DEF RouteReturn
    <2>9. ASSUME NEW e \in Exits, ScanNext(e) PROVE o \in committed
        BY <2>t, <2>9, OrdersAssumption DEF ScanNext, SwitchTypeOK
    <2>10. ~Reboot
        BY DEF Reboot
    <2> QED  BY <1>1, <2>3, <2>4, <2>5, <2>6, <2>7, <2>8, <2>9, <2>10
             DEF SwitchNext, Observe, Disengage, Refresh, DashboardEngage,
             DashboardDisengage, ScanStart, ScanEnd, FlattenStart, tradeVars
<1>2. SwitchInv /\ [SwitchNext]_killSwitchVars => [Late]_killSwitchVars
    BY <1>1
<1> QED  BY <1>2, SwitchInvariance, PTL DEF SwitchSpec, LateWasUnderWay
=============================================================================
