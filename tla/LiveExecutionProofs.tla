------------------------ MODULE LiveExecutionProofs ------------------------
(***************************************************************************)
(* Proofs about LiveExecution, for any set of orders, any size and any     *)
(* queue capacity: type correctness, that what the agent calls cancelled   *)
(* or reconciled is off the venue's book, and that the ledger books no     *)
(* trade event twice.                                                      *)
(***************************************************************************)
EXTENDS LiveExecution, TLAPS

(* An order has a venue id only once its submission is over, so submit()    *)
(* cannot overwrite its status any more.                                    *)
KnownIsAnswered ==
    \A o \in Orders :
        known[o] => submit[o] = "done" /\ venue[o] # "none" /\ order[o] # "NEW"

(* The cancel call under way is about an order with a venue id, and a       *)
(* positive answer is already a fact at the venue.                          *)
CallInv ==
    /\ cancelling # None => known[cancelling]
    /\ answer # "none" => cancelling # None
    /\ answer = "ok" => venue[cancelling] = "closed"

(* So is a CANCELLED event in the queue, or waiting for the lock.           *)
IsReal(e, v) == e.kind = "CANCELLED" => v[e.order] = "closed"

EventInv ==
    /\ \A i \in 1..Len(wire) : IsReal(wire[i], venue)
    /\ held # None => IsReal(held, venue) /\ known[held.order]

CancelInv == KnownIsAnswered /\ CallInv /\ EventInv /\ KnownCancelIsReal

(* The bounded queue takes an event or drops it. *)
LEMMA PutType ==
    ASSUME NEW q \in Seq(Event), NEW e \in Event
    PROVE  /\ Put(q, e) \in Seq(Event)
           /\ \A i \in 1..Len(Put(q, e)) :
                 (i \in 1..Len(q) /\ Put(q, e)[i] = q[i]) \/ Put(q, e)[i] = e
  BY DEF Put

(* An event about an order of the agent is an event. *)
LEMMA EventType ==
    ASSUME NEW o \in Orders, NEW n \in Nat
    PROVE  /\ Trade(o, n) \in Event
           /\ \A s \in OrderStatus \cup {"OTHER"} : Update(o, s, n) \in Event
  BY DEF Event, Trade, Update

(* Booking a lot keeps the books well typed, whatever its number.           *)
LEMMA BookType ==
    ASSUME NEW D, NEW E, NEW f \in [D -> [E -> Nat]], NEW d \in D, NEW e
    PROVE  [f EXCEPT ![d][e] = @ + 1] \in [D -> [E -> Nat]]
<1>1. CASE e \in E
  BY <1>1
<1>2. CASE e \notin E
  <2>1. [f[d] EXCEPT ![e] = @ + 1] = f[d]
    BY <1>2
  <2>. QED BY <2>1
<1>. QED BY <1>1, <1>2

(* Initially and in every reachable state the variables have their types.   *)
THEOREM TypeCorrect == Spec => []TypeOK
<1>1. Init => TypeOK
  <2> SUFFICES ASSUME Init PROVE TypeOK
    OBVIOUS
  <2>1. AgentTypeOK
    BY SizeAssumption DEF Init, AgentTypeOK
  <2>2. CallTypeOK
    BY DEF Init, CallTypeOK, SweepState
  <2>3. VenueTypeOK
    BY SizeAssumption DEF Init, VenueTypeOK
  <2>. QED BY <2>1, <2>2, <2>3 DEF TypeOK
<1>2. TypeOK /\ [Next]_vars => TypeOK'
  <2> SUFFICES ASSUME TypeOK, [Next]_vars PROVE TypeOK'
    OBVIOUS
  <2>0. AgentTypeOK /\ CallTypeOK /\ VenueTypeOK
    BY DEF TypeOK
  <2> USE <2>0 DEF agentVars, cancelVars, sweepVars, wsVars, venueVars
  <2>1. ASSUME NEW o \in Orders, VenueAccept(o) PROVE TypeOK'
    <3>1. AgentTypeOK' /\ CallTypeOK'
      BY <2>1 DEF VenueAccept, AgentTypeOK, CallTypeOK
    <3>2. Update(o, "LIVE", 0) \in Event
      BY EventType DEF OrderStatus, OpenStatus
    <3>3. VenueTypeOK'
      BY <2>1, <3>2, PutType DEF VenueAccept, Emit, VenueTypeOK
    <3>. QED BY <3>1, <3>3 DEF TypeOK
  <2>2. ASSUME NEW o \in Orders, VenueMatch(o) PROVE TypeOK'
    <3> DEFINE k == matched[o] + 1
               j == pushed[o] + 1
    <3>1. AgentTypeOK' /\ CallTypeOK'
      BY <2>2 DEF VenueMatch, AgentTypeOK, CallTypeOK
    <3>2. k \in Nat /\ j \in Nat
      BY DEF VenueTypeOK
    <3>3. /\ Trade(o, j) \in Event
          /\ \A w \in {"OTHER", "FILLED", "PARTIAL"} : Update(o, w, k) \in Event
      BY <3>2, EventType DEF OrderStatus, OpenStatus, TerminalStatus
    <3>p. PICK w \in {"OTHER", "FILLED", "PARTIAL"} :
             Emit2(Trade(o, j), Update(o, w, k)) \/ Emit2(Update(o, w, k), Trade(o, j))
      BY <2>2 DEF VenueMatch
    <3>4. wire' \in Seq(Event)
      <4> DEFINE t == Trade(o, j)
                 u == Update(o, w, k)
      <4>1. t \in Event /\ u \in Event /\ (Emit2(t, u) \/ Emit2(u, t))
        BY <3>3, <3>p
      <4>2. wire \in Seq(Event)
        BY DEF VenueTypeOK
      <4>. HIDE DEF t, u
      <4>3. Put(Put(wire, t), u) \in Seq(Event) /\ Put(Put(wire, u), t) \in Seq(Event)
        BY <4>1, <4>2, PutType
      <4>. QED BY <4>1, <4>2, <4>3 DEF Emit2
    <3>5. matched' \in [Orders -> Nat] /\ pushed' \in [Orders -> Nat]
      BY <2>2 DEF VenueMatch, VenueTypeOK
    <3>6. venue' \in [Orders -> {"none", "open", "closed"}] /\ held' = held
      BY <2>2 DEF VenueMatch, VenueTypeOK
    <3>. QED BY <3>1, <3>4, <3>5, <3>6 DEF TypeOK, VenueTypeOK
  <2>12. ASSUME NEW o \in Orders, VenueRepeats(o) PROVE TypeOK'
    <3>1. AgentTypeOK' /\ CallTypeOK'
      BY <2>12 DEF VenueRepeats, AgentTypeOK, CallTypeOK
    <3>2. Trade(o, pushed[o] + 1) \in Event
      BY EventType DEF VenueTypeOK
    <3>3. wire \in Seq(Event)
      BY DEF VenueTypeOK
    <3>4. wire' \in Seq(Event)
      BY <2>12, <3>2, <3>3, PutType DEF VenueRepeats, Emit
    <3>5. pushed' \in [Orders -> Nat] /\ UNCHANGED <<held, venue, matched>>
      BY <2>12 DEF VenueRepeats, VenueTypeOK
    <3>6. VenueTypeOK'
      BY <3>4, <3>5 DEF VenueTypeOK
    <3>. QED BY <3>1, <3>6 DEF TypeOK
  <2>3. ASSUME NEW o \in Orders, VenueKill(o) PROVE TypeOK'
    <3>1. AgentTypeOK' /\ CallTypeOK'
      BY <2>3 DEF VenueKill, AgentTypeOK, CallTypeOK
    <3>2. Update(o, "CANCELLED", matched[o]) \in Event
      BY EventType DEF OrderStatus, TerminalStatus, VenueTypeOK
    <3>3. VenueTypeOK'
      BY <2>3, <3>2, PutType DEF VenueKill, Emit, VenueTypeOK
    <3>. QED BY <3>1, <3>3 DEF TypeOK
  <2>4. CASE VenueCancel
    <3>1. AgentTypeOK' /\ CallTypeOK' /\ cancelling \in Orders
      BY <2>4 DEF VenueCancel, AgentTypeOK, CallTypeOK
    <3>2. Update(cancelling, "CANCELLED", matched[cancelling]) \in Event
      BY <3>1, EventType DEF OrderStatus, TerminalStatus, VenueTypeOK
    <3>3. VenueTypeOK'
      BY <2>4, <3>2, PutType DEF VenueCancel, Emit, VenueTypeOK
    <3>. QED BY <3>1, <3>3 DEF TypeOK
  <2>5. ASSUME NEW o \in Orders,
               SubmitStart(o) \/ SubmitReturns(o) \/ SubmitReturnsNoId(o) \/ SubmitRaises(o)
        PROVE  TypeOK'
    <3> USE <2>5 DEF SubmitStart, SubmitReturns, SubmitReturnsNoId, SubmitRaises, MaySubmit
    <3>1. AgentTypeOK'
      BY DEF AgentTypeOK, OrderStatus, OpenStatus, TerminalStatus
    <3>2. CallTypeOK' /\ VenueTypeOK'
      BY DEF CallTypeOK, VenueTypeOK
    <3>. QED BY <3>1, <3>2 DEF TypeOK
  <2>6. ASSUME CancelResume \/ CancelRaises \/ RouterUnwind \/ \E o \in Orders : SweepCancel(o)
        PROVE  TypeOK'
    <3> USE <2>6 DEF CancelResume, CancelRaises, CancelDone, RouterUnwind, SweepCancel,
                     CancelStart, Result
    <3>1. AgentTypeOK'
      BY DEF AgentTypeOK, CallTypeOK, OrderStatus, TerminalStatus
    <3>2. sweep' \in [Orders -> SweepState]
      BY DEF CallTypeOK, SweepState
    <3>3. router' \in Legs \cup {"gather", "cancelling", "settled"}
      BY DEF CallTypeOK
    <3>4. cancelling' \in Orders \cup {None} /\ caller' \in {"none", "sweep", "router"}
      BY OrdersAssumption DEF CallTypeOK
    <3>5. answer' \in {"none", "ok", "refused"} /\ UNCHANGED <<sweeping, fetched>>
      BY DEF CallTypeOK
    <3>6. CallTypeOK'
      BY <3>2, <3>3, <3>4, <3>5 DEF CallTypeOK
    <3>7. VenueTypeOK'
      BY DEF VenueTypeOK
    <3>. QED BY <3>1, <3>6, <3>7 DEF TypeOK
  <2>7. ASSUME RouterGather \/ SweepStart \/ SweepEnd \/ ReconcileFetch
        PROVE  TypeOK'
    <3> USE <2>7 DEF RouterGather, SweepStart, SweepEnd, ReconcileFetch
    <3>1. AgentTypeOK' /\ VenueTypeOK'
      BY DEF AgentTypeOK, VenueTypeOK
    <3>2. sweep' \in [Orders -> SweepState] /\ sweeping' \in BOOLEAN
      BY DEF CallTypeOK, SweepState
    <3>3. router' \in Legs \cup {"gather", "cancelling", "settled"}
      <4>1. CASE RouterGather
        BY <4>1
      <4>2. CASE SweepStart \/ SweepEnd \/ ReconcileFetch
        BY <4>2 DEF CallTypeOK
      <4>. QED BY <4>1, <4>2
    <3>6. UNCHANGED <<cancelling, caller, answer>>
      OBVIOUS
    <3>4. fetched' \in SUBSET (Orders \cup {None})
      BY DEF CallTypeOK
    <3>5. CallTypeOK'
      BY <3>2, <3>3, <3>4, <3>6 DEF CallTypeOK
    <3>. QED BY <3>1, <3>5 DEF TypeOK
  <2>8. CASE WsReceive
    <3>1. AgentTypeOK' /\ CallTypeOK'
      BY <2>8 DEF WsReceive, AgentTypeOK, CallTypeOK
    <3>2. Head(wire) \in Event /\ wire' \in Seq(Event)
      BY <2>8 DEF WsReceive, VenueTypeOK
    <3>3. VenueTypeOK'
      BY <2>8, <3>2 DEF WsReceive, VenueTypeOK
    <3>. QED BY <3>1, <3>3 DEF TypeOK
  <2>9. CASE WsApplyUpdate \/ WsApplyTrade
    <3>1. held \in Event /\ held.order \in Orders /\ held.n \in Nat
      BY <2>9 DEF WsApplyUpdate, WsApplyTrade, VenueTypeOK, Event
    <3>2. held.kind \in OrderStatus \cup {"OTHER", "trade"}
      BY <3>1 DEF Event
    <3> USE <2>9, <3>1, <3>2 DEF WsApplyUpdate, WsApplyTrade, AgentTypeOK
    <3>3. booked' \in [Orders -> [1..MaxTrades -> Nat]]
      <4>1. CASE WsApplyUpdate
        BY <4>1
      <4>2. CASE WsApplyTrade
        BY <4>2, BookType
      <4>. QED BY <4>1, <4>2
    <3>5. order' \in [Orders -> OrderStatus \cup {"NEW"}]
      BY DEF OrderStatus, OpenStatus, TerminalStatus, Understood
    <3>6. /\ filled' \in [Orders -> Nat]
          /\ UNCHANGED <<known, submit>>
      OBVIOUS
    <3>7. AgentTypeOK'
      BY <3>3, <3>5, <3>6
    <3>4. CallTypeOK' /\ VenueTypeOK'
      BY <2>9 DEF WsApplyUpdate, WsApplyTrade, CallTypeOK, VenueTypeOK
    <3>. QED BY <3>7, <3>4 DEF TypeOK
  <2>10. CASE ReconcileApply
    BY <2>10 DEF ReconcileApply, TypeOK, AgentTypeOK, CallTypeOK, VenueTypeOK,
                 OrderStatus, TerminalStatus
  <2>11. CASE UNCHANGED vars
    BY <2>11 DEF vars, TypeOK, AgentTypeOK, CallTypeOK, VenueTypeOK
  <2>. QED
    BY <2>1, <2>2, <2>3, <2>4, <2>5, <2>6, <2>7, <2>8, <2>9, <2>10, <2>11, <2>12
    DEF Next, SubmitAnswer, CancelCall, Route, Flatten, UserChannel, Reconcile
<1>. QED BY <1>1, <1>2, PTL DEF Spec

-----------------------------------------------------------------------------
(* The venue never reopens an order, and the agent never forgets an id.     *)
LEMMA ClosedStays ==
    ASSUME TypeOK, [Next]_vars
    PROVE  \A o \in Orders : /\ venue[o] = "closed" => venue'[o] = "closed"
                             /\ venue[o] # "none" => venue'[o] # "none"
                             /\ known[o] => known'[o]
<1> USE DEF agentVars, cancelVars, sweepVars, wsVars, venueVars, TypeOK, AgentTypeOK, VenueTypeOK
<1>1. ASSUME NEW o \in Orders,
             VenueAccept(o) \/ VenueMatch(o) \/ VenueRepeats(o) \/ VenueKill(o) \/ SubmitStart(o)
             \/ SubmitReturns(o) \/ SubmitReturnsNoId(o) \/ SubmitRaises(o) \/ SweepCancel(o)
      PROVE  \A p \in Orders : /\ venue[p] = "closed" => venue'[p] = "closed"
                               /\ venue[p] # "none" => venue'[p] # "none"
                               /\ known[p] => known'[p]
  BY <1>1 DEF VenueAccept, VenueMatch, VenueRepeats, VenueKill, SubmitStart, SubmitReturns,
              SubmitReturnsNoId, SubmitRaises, SweepCancel, CancelStart
<1>2. CASE VenueCancel \/ CancelResume \/ CancelRaises \/ RouterUnwind
  BY <1>2 DEF VenueCancel, CancelResume, CancelRaises, CancelDone, RouterUnwind, CancelStart
<1>3. CASE RouterGather \/ SweepStart \/ SweepEnd \/ UserChannel \/ Reconcile \/ UNCHANGED vars
  BY <1>3 DEF RouterGather, SweepStart, SweepEnd, UserChannel, WsReceive, WsApplyUpdate,
              WsApplyTrade, Reconcile, ReconcileFetch, ReconcileApply, vars
<1>. QED BY <1>1, <1>2, <1>3 DEF Next, SubmitAnswer, CancelCall, Route, Flatten

(* The old events stay real, and every event that joins the queue is real. *)
LEMMA WireStep ==
    ASSUME TypeOK, TypeOK', EventInv, [Next]_vars
    PROVE  \A i \in 1..Len(wire') : IsReal(wire'[i], venue')
<1> USE DEF agentVars, cancelVars, sweepVars, wsVars, venueVars
<1>1. wire \in Seq(Event) /\ wire' \in Seq(Event)
  BY DEF TypeOK, VenueTypeOK
<1>2. \A e \in Event : IsReal(e, venue) => IsReal(e, venue')
  BY ClosedStays DEF IsReal, Event
<1>3. \A i \in 1..Len(wire) : wire[i] \in Event /\ IsReal(wire[i], venue')
  BY <1>1, <1>2 DEF EventInv
<1>4. ASSUME NEW o \in Orders, NEW s \in OrderStatus, NEW n \in Nat,
             s = "CANCELLED" => venue'[o] = "closed"
      PROVE  Update(o, s, n) \in Event /\ IsReal(Update(o, s, n), venue')
  BY <1>4, EventType DEF Update, IsReal
<1>5. ASSUME NEW e \in Event, IsReal(e, venue'), Emit(e)
      PROVE  \A i \in 1..Len(wire') : IsReal(wire'[i], venue')
  BY <1>5, <1>1, <1>3, PutType DEF Emit
<1>6. ASSUME NEW o \in Orders, VenueAccept(o)
      PROVE  \A i \in 1..Len(wire') : IsReal(wire'[i], venue')
  BY <1>4, <1>5, <1>6 DEF VenueAccept, OrderStatus, OpenStatus
<1>7. ASSUME NEW o \in Orders, VenueMatch(o)
      PROVE  \A i \in 1..Len(wire') : IsReal(wire'[i], venue')
  <2> DEFINE k == matched[o] + 1
  <2> DEFINE j == pushed[o] + 1
  <2> DEFINE t == Trade(o, j)
  <2>1. k \in Nat /\ j \in Nat
    BY DEF TypeOK, VenueTypeOK
  <2>2. t \in Event /\ IsReal(t, venue')
    BY <2>1, EventType DEF Trade, IsReal
  <2>5. ASSUME NEW w \in {"OTHER", "FILLED", "PARTIAL"}
        PROVE  Update(o, w, k) \in Event /\ IsReal(Update(o, w, k), venue')
    BY <2>1, <1>4, EventType DEF OrderStatus, OpenStatus, TerminalStatus, Update, IsReal
  <2>3. ASSUME NEW d \in Event, NEW e \in Event, IsReal(d, venue'), IsReal(e, venue'), Emit2(d, e)
        PROVE  \A i \in 1..Len(wire') : IsReal(wire'[i], venue')
    <3>1. /\ Put(wire, d) \in Seq(Event)
          /\ \A i \in 1..Len(Put(wire, d)) : IsReal(Put(wire, d)[i], venue')
      BY <2>3, <1>1, <1>3, PutType
    <3>2. \A i \in 1..Len(Put(Put(wire, d), e)) : IsReal(Put(Put(wire, d), e)[i], venue')
      BY <3>1, <2>3, PutType
    <3>. QED BY <2>3, <3>2, <1>3 DEF Emit2
  <2>4. PICK w \in {"OTHER", "FILLED", "PARTIAL"} :
           Emit2(t, Update(o, w, k)) \/ Emit2(Update(o, w, k), t)
    BY <1>7 DEF VenueMatch
  <2>. HIDE DEF t, k, j
  <2>. QED BY <2>2, <2>3, <2>4, <2>5
<1>13. ASSUME NEW o \in Orders, VenueRepeats(o)
      PROVE  \A i \in 1..Len(wire') : IsReal(wire'[i], venue')
  <2>1. pushed[o] + 1 \in Nat
    BY DEF TypeOK, VenueTypeOK
  <2>2. Trade(o, pushed[o] + 1) \in Event /\ IsReal(Trade(o, pushed[o] + 1), venue')
    BY <2>1, EventType DEF Trade, IsReal
  <2>. QED BY <1>5, <1>13, <2>2 DEF VenueRepeats
<1>8. ASSUME NEW o \in Orders, VenueKill(o)
      PROVE  \A i \in 1..Len(wire') : IsReal(wire'[i], venue')
  <2>1. venue'[o] = "closed" /\ matched[o] \in Nat
    BY <1>8 DEF VenueKill, TypeOK, VenueTypeOK
  <2>. QED BY <1>4, <1>5, <1>8, <2>1 DEF VenueKill, OrderStatus, TerminalStatus
<1>9. CASE VenueCancel
  <2>1. cancelling \in Orders /\ matched[cancelling] \in Nat
    BY <1>9 DEF VenueCancel, TypeOK, CallTypeOK, VenueTypeOK
  <2>2. CASE venue[cancelling] = "open"
    <3>1. venue'[cancelling] = "closed"
      BY <1>9, <2>1, <2>2 DEF VenueCancel, TypeOK, VenueTypeOK
    <3>. QED BY <1>4, <1>5, <1>9, <2>1, <2>2, <3>1 DEF VenueCancel, OrderStatus, TerminalStatus
  <2>3. CASE venue[cancelling] # "open"
    BY <1>9, <1>3, <2>3 DEF VenueCancel
  <2>. QED BY <2>2, <2>3
<1>10. CASE WsReceive
  <2>1. \A i \in 1..Len(wire') : wire'[i] = wire[i + 1] /\ i + 1 \in 1..Len(wire)
    BY <1>10, <1>1 DEF WsReceive
  <2>. QED BY <2>1, <1>3
<1>11. CASE wire' = wire
  BY <1>11, <1>3
<1>12. \/ \E o \in Orders : VenueAccept(o) \/ VenueMatch(o) \/ VenueRepeats(o) \/ VenueKill(o)
       \/ VenueCancel \/ WsReceive \/ wire' = wire
  BY DEF Next, SubmitAnswer, SubmitStart, SubmitReturns, SubmitReturnsNoId, SubmitRaises,
         CancelCall, CancelResume, CancelRaises, CancelDone, Route, RouterGather, RouterUnwind,
         CancelStart, SweepStart, Flatten, SweepCancel, SweepEnd, UserChannel, WsApplyUpdate,
         WsApplyTrade, Reconcile, ReconcileFetch, ReconcileApply, vars
<1>. QED BY <1>6, <1>7, <1>8, <1>9, <1>10, <1>11, <1>12, <1>13

(* Each step keeps it: a status becomes CANCELLED only on an answer or an   *)
(* event of the venue, or before the venue has named the order.             *)
LEMMA CancelStep == TypeOK /\ TypeOK' /\ CancelInv /\ [Next]_vars => CancelInv'
<1> SUFFICES ASSUME TypeOK, TypeOK', CancelInv, [Next]_vars PROVE CancelInv'
  OBVIOUS
<1> USE DEF agentVars, cancelVars, sweepVars, wsVars, venueVars
<1>0. /\ KnownIsAnswered /\ CallInv /\ EventInv
      /\ KnownCancelIsReal
  BY DEF CancelInv
<1>c. \A o \in Orders : /\ venue[o] = "closed" => venue'[o] = "closed"
                        /\ venue[o] # "none" => venue'[o] # "none"
                        /\ known[o] => known'[o]
  BY ClosedStays
<1>w. \A i \in 1..Len(wire') : IsReal(wire'[i], venue')
  BY <1>0, WireStep
<1>1. ASSUME NEW o \in Orders,
             SubmitStart(o) \/ SubmitReturns(o) \/ SubmitReturnsNoId(o) \/ SubmitRaises(o)
      PROVE  CancelInv'
  <2> USE <1>1, <1>0 DEF SubmitStart, SubmitReturns, SubmitReturnsNoId, SubmitRaises,
                         TypeOK, AgentTypeOK
  <2>1. KnownIsAnswered'
    BY DEF KnownIsAnswered
  <2>2. CallInv'
    BY DEF CallInv, CallTypeOK
  <2>3. EventInv'
    BY <1>w DEF EventInv, VenueTypeOK, Event
  <2>4. KnownCancelIsReal'
    BY DEF KnownCancelIsReal, KnownIsAnswered
  <2>. QED BY <2>1, <2>2, <2>3, <2>4 DEF CancelInv
<1>2. ASSUME \/ \E o \in Orders : VenueAccept(o) \/ VenueMatch(o) \/ VenueRepeats(o) \/ VenueKill(o)
             \/ VenueCancel
      PROVE  CancelInv'
  <2> USE <1>2, <1>0 DEF VenueAccept, VenueMatch, VenueRepeats, VenueKill, VenueCancel
  <2>1. UNCHANGED <<order, known, submit, cancelling, sweep, held>>
    OBVIOUS
  <2>2. KnownIsAnswered' /\ KnownCancelIsReal'
    BY <2>1, <1>c DEF KnownIsAnswered, KnownCancelIsReal
  <2>3. CallInv'
    <3>1. CASE VenueCancel
      BY <3>1 DEF CallInv, TypeOK, CallTypeOK, VenueTypeOK
    <3>2. CASE answer' = answer
      BY <3>2, <2>1, <1>c DEF CallInv, TypeOK, CallTypeOK
    <3>. QED BY <3>1, <3>2
  <2>4. EventInv'
    BY <2>1, <1>w, <1>c DEF EventInv, IsReal, TypeOK, VenueTypeOK, Event
  <2>. QED BY <2>2, <2>3, <2>4 DEF CancelInv
<1>3. ASSUME CancelResume \/ CancelRaises \/ RouterUnwind \/ \E o \in Orders : SweepCancel(o)
      PROVE  CancelInv'
  <2> USE <1>3, <1>0 DEF CancelResume, CancelRaises, CancelDone, RouterUnwind, SweepCancel,
                         CancelStart, HasVenueId, Result, LockFree
  <2>1. UNCHANGED <<known, submit, venue, held, wire>>
    OBVIOUS
  <2>2. KnownIsAnswered' /\ EventInv'
    BY <2>1 DEF KnownIsAnswered, EventInv, TypeOK, AgentTypeOK
  <2>3. CallInv'
    BY <2>1 DEF CallInv
  <2>4. ASSUME NEW p \in Orders, order'[p] = "CANCELLED", known'[p]
        PROVE  venue'[p] = "closed"
    BY <2>1, <2>4 DEF KnownCancelIsReal, CallInv, TypeOK, AgentTypeOK, CallTypeOK
  <2>. QED BY <2>2, <2>3, <2>4 DEF CancelInv, KnownCancelIsReal
<1>4. ASSUME RouterGather \/ SweepStart \/ SweepEnd \/ ReconcileFetch \/ UNCHANGED vars
      PROVE  CancelInv'
  <2> USE <1>4, <1>0 DEF RouterGather, SweepStart, SweepEnd, ReconcileFetch, vars
  <2>1. UNCHANGED <<order, known, submit, cancelling, answer, venue, held, wire>>
    OBVIOUS
  <2>2. KnownIsAnswered' /\ EventInv' /\ CallInv' /\ KnownCancelIsReal'
    BY <2>1 DEF KnownIsAnswered, EventInv, CallInv, KnownCancelIsReal
  <2>. QED BY <2>2 DEF CancelInv
<1>5. CASE WsReceive
  <2>1. UNCHANGED <<order, known, submit, cancelling, answer, venue, sweep>>
    BY <1>5 DEF WsReceive
  <2>2. Head(wire) = wire[1] /\ 1 \in 1..Len(wire) /\ wire[1] \in Event
    BY <1>5 DEF WsReceive, TypeOK, VenueTypeOK
  <2>3. held' # None => IsReal(held', venue') /\ known'[held'.order]
    BY <1>5, <1>0, <2>1, <2>2 DEF WsReceive, EventInv
  <2>4. EventInv'
    BY <1>w, <2>3 DEF EventInv
  <2>5. KnownIsAnswered' /\ CallInv' /\ KnownCancelIsReal'
    BY <1>0, <2>1 DEF KnownIsAnswered, CallInv, KnownCancelIsReal
  <2>. QED BY <2>4, <2>5 DEF CancelInv
<1>6. CASE WsApplyUpdate \/ WsApplyTrade
  <2>1. UNCHANGED <<known, submit, cancelling, answer, venue, sweep, wire>> /\ held' = None
    BY <1>6 DEF WsApplyUpdate, WsApplyTrade
  <2>2. held \in Event /\ held.order \in Orders /\ IsReal(held, venue)
    BY <1>6, <1>0 DEF WsApplyUpdate, WsApplyTrade, EventInv, TypeOK, VenueTypeOK, Event
  <2>3. KnownCancelIsReal'
    BY <1>6, <1>0, <2>1, <2>2
    DEF WsApplyUpdate, WsApplyTrade, Understood, KnownCancelIsReal, IsReal, TypeOK, AgentTypeOK
  <2>4. CallInv' /\ EventInv'
    BY <1>0, <2>1 DEF CallInv, EventInv
  <2>5. held.kind \in OrderStatus \cup {"OTHER", "trade"}
    BY <2>2 DEF Event
  <2>6. KnownIsAnswered'
    BY <1>6, <1>0, <2>1, <2>2, <2>5
    DEF WsApplyUpdate, WsApplyTrade, Understood, KnownIsAnswered, TypeOK, AgentTypeOK,
        OrderStatus, OpenStatus, TerminalStatus
  <2>. QED BY <2>3, <2>4, <2>6 DEF CancelInv
<1>7. CASE ReconcileApply
  <2>1. UNCHANGED <<known, submit, cancelling, answer, venue, sweep, wire, held>>
    BY <1>7 DEF ReconcileApply
  <2>2. \A o \in Orders : order'[o] = order[o] \/ order'[o] = "FILLED"
    BY <1>7 DEF ReconcileApply
  <2>3. KnownIsAnswered' /\ CallInv' /\ EventInv' /\ KnownCancelIsReal'
    BY <1>0, <2>1, <2>2
    DEF KnownIsAnswered, CallInv, EventInv, KnownCancelIsReal
  <2>. QED BY <2>3 DEF CancelInv
<1>. QED
  BY <1>1, <1>2, <1>3, <1>4, <1>5, <1>6, <1>7
  DEF Next, SubmitAnswer, CancelCall, Route, Flatten, UserChannel, Reconcile

(* So it holds in every state.                                              *)
LEMMA CancelInvariant == Spec => []CancelInv
<1>1. Init => CancelInv
  BY DEF Init, CancelInv, KnownIsAnswered, CallInv, EventInv, KnownCancelIsReal
<1>2. TypeOK /\ TypeOK' /\ CancelInv /\ [Next]_vars => CancelInv'
  BY CancelStep
<1>. QED BY <1>1, <1>2, TypeCorrect, PTL DEF Spec

(* An order with a venue id that the agent calls CANCELLED is off the       *)
(* venue's book, whatever the number of orders and sweeps and whatever is   *)
(* lost on the way.                                                         *)
THEOREM CancelledIsReal == Spec => []KnownCancelIsReal
  BY CancelInvariant, PTL DEF CancelInv

-----------------------------------------------------------------------------
(* Booking.  A trade event is queued, waits for the lock, is booked or lost,*)
(* one of the four and once.                                                *)

(* Two entries are the same trade event.                                    *)
Same(d, e) == d.kind = "trade" /\ e.kind = "trade" /\ d.order = e.order /\ d.n = e.n

(* The trade event e was pushed (m) and has not been booked (b).            *)
Unbooked(e, m, b) == e.kind = "trade" => e.n \in 1..m[e.order] /\ b[e.order][e.n] = 0

(* The trade events of a queue are different ones, all of them unbooked.    *)
Clean(q, m, b) ==
    /\ \A i \in 1..Len(q) : Unbooked(q[i], m, b)
    /\ \A i, j \in 1..Len(q) : i # j => ~Same(q[i], q[j])

MatchedInv ==
    \A o \in Orders : /\ matched[o] <= Size
                      /\ venue[o] # "closed" => matched[o] < Size
                      /\ pushed[o] <= matched[o] + Repeats

TradeInv ==
    /\ Clean(wire, pushed, booked)
    /\ held # None => /\ Unbooked(held, pushed, booked)
                      /\ \A i \in 1..Len(wire) : ~Same(wire[i], held)
    /\ MatchedInv
    /\ BookedAtMostOnce

(* The numbers of trade events.                                             *)
LEMMA BoundType == MaxTrades \in Nat \ {0}
  BY SizeAssumption, WireAssumption DEF MaxTrades

(* A different event keeps the queue clean.                                 *)
LEMMA PutClean ==
    ASSUME NEW q \in Seq(Event), NEW e \in Event, NEW m, NEW b, Clean(q, m, b),
           Unbooked(e, m, b), \A i \in 1..Len(q) : ~Same(q[i], e)
    PROVE  Clean(Put(q, e), m, b)
<1>1. CASE Put(q, e) = q
  BY <1>1
<1>2. CASE Put(q, e) = Append(q, e)
  <2>1. /\ Len(q) \in Nat /\ Len(Append(q, e)) = Len(q) + 1 /\ Append(q, e)[Len(q) + 1] = e
        /\ \A i \in 1..Len(q) : Append(q, e)[i] = q[i]
    OBVIOUS
  <2>2. \A i \in 1..(Len(q) + 1) : i \in 1..Len(q) \/ i = Len(q) + 1
    BY <2>1
  <2>3. \A i \in 1..Len(q) : ~Same(e, q[i])
    BY DEF Same
  <2>4. \A i \in 1..(Len(q) + 1) : Unbooked(Append(q, e)[i], m, b)
    BY <2>1, <2>2 DEF Clean
  <2>5. \A i, j \in 1..(Len(q) + 1) : i # j => ~Same(Append(q, e)[i], Append(q, e)[j])
    BY <2>1, <2>2, <2>3 DEF Clean
  <2>. QED BY <1>2, <2>1, <2>4, <2>5 DEF Clean
<1>. QED BY <1>1, <1>2 DEF Put

(* The next trade event the venue pushes is one nobody has heard of, be it  *)
(* about a new lot or an old one.                                           *)
LEMMA PushIsNew ==
    ASSUME TypeOK, TradeInv, MatchedInv', NEW o \in Orders, NEW t \in Event, NEW u \in Event,
           t = Trade(o, pushed[o] + 1), u.kind # "trade", pushed[o] + 1 <= MaxTrades,
           wire' \in {wire, Put(wire, t), Put(Put(wire, t), u), Put(Put(wire, u), t)},
           pushed' = [pushed EXCEPT ![o] = @ + 1], UNCHANGED <<booked, held>>
    PROVE  TradeInv'
<1> DEFINE k == pushed[o] + 1
<1>1. /\ k \in 1..MaxTrades /\ pushed' = [pushed EXCEPT ![o] = k]
      /\ UNCHANGED <<booked, held>>
  BY BoundType DEF TypeOK, VenueTypeOK
<1>2. /\ wire \in Seq(Event) /\ pushed \in [Orders -> Nat]
      /\ booked \in [Orders -> [1..MaxTrades -> Nat]] /\ held \in Event \cup {None}
  BY DEF TypeOK, VenueTypeOK, AgentTypeOK
<1>3. ASSUME NEW e \in Event, Unbooked(e, pushed, booked)
      PROVE  Unbooked(e, pushed', booked) /\ (e.kind = "trade" => e.order # o \/ e.n # k)
  <2>1. e.order \in Orders /\ e.n \in Nat
    BY DEF Event
  <2>. QED BY <1>1, <1>2, <1>3, <2>1 DEF Unbooked
<1>4. Clean(wire, pushed', booked)
  <2>1. Clean(wire, pushed, booked)
    BY DEF TradeInv
  <2>2. \A i \in 1..Len(wire) : wire[i] \in Event /\ Unbooked(wire[i], pushed, booked)
    BY <1>2, <2>1 DEF Clean
  <2>3. \A i \in 1..Len(wire) : Unbooked(wire[i], pushed', booked)
    BY <1>3, <2>2
  <2>. QED BY <2>1, <2>3 DEF Clean
<1>5. booked[o][k] = 0
  <2>1. ~(k <= pushed[o])
    BY <1>2
  <2>2. booked[o] \in [1..MaxTrades -> Nat]
    BY <1>2
  <2>3. booked[o][k] \in Nat
    BY <1>1, <2>2
  <2>4. booked[o][k] <= 0
    BY <1>1, <2>1 DEF TradeInv, BookedAtMostOnce
  <2>. QED BY <2>3, <2>4
<1>9. t.kind = "trade" /\ t.order = o /\ t.n = k /\ u.kind # "trade"
  BY DEF Trade
<1> HIDE DEF k
<1>10. /\ Unbooked(t, pushed', booked) /\ Unbooked(u, pushed', booked)
       /\ \A e \in Event : ~Same(e, u) /\ (Unbooked(e, pushed, booked) => ~Same(e, t))
  <2>1. pushed'[o] = k /\ k \in 1..k
    BY <1>1, <1>2
  <2>. QED BY <1>3, <1>5, <1>9, <2>1 DEF Unbooked, Same
<1>11. \A i \in 1..Len(wire) : wire[i] \in Event /\ Unbooked(wire[i], pushed, booked)
  BY <1>2 DEF TradeInv, Clean
<1>12. /\ Put(wire, t) \in Seq(Event) /\ Clean(Put(wire, t), pushed', booked)
       /\ Put(wire, u) \in Seq(Event) /\ Clean(Put(wire, u), pushed', booked)
  BY <1>2, <1>4, <1>10, <1>11, PutClean, PutType
<1>13. Clean(Put(Put(wire, t), u), pushed', booked)
  <2>1. \A i \in 1..Len(Put(wire, t)) : ~Same(Put(wire, t)[i], u)
    BY <1>9 DEF Same
  <2>. QED BY <1>10, <1>12, <2>1, PutClean
<1>14. Clean(Put(Put(wire, u), t), pushed', booked)
  <2>1. \A i \in 1..Len(Put(wire, u)) : ~Same(Put(wire, u)[i], t)
    BY <1>2, <1>9, <1>10, <1>11, PutType DEF Same
  <2>. QED BY <1>10, <1>12, <2>1, PutClean
<1>15. Clean(wire', pushed', booked')
  BY <1>1, <1>4, <1>12, <1>13, <1>14
<1>16. ASSUME held' # None
       PROVE  Unbooked(held', pushed', booked') /\ \A i \in 1..Len(wire') : ~Same(wire'[i], held')
  <2>1. /\ held \in Event /\ Unbooked(held, pushed, booked)
        /\ \A i \in 1..Len(wire) : ~Same(wire[i], held)
    BY <1>1, <1>2, <1>16 DEF TradeInv
  <2>2. ~Same(t, held) /\ ~Same(u, held)
    BY <1>9, <1>10, <2>1 DEF Same
  <2>3. ASSUME NEW d \in {t, u}, NEW e \in {t, u}
        PROVE  /\ \A i \in 1..Len(Put(wire, d)) : ~Same(Put(wire, d)[i], held)
               /\ \A i \in 1..Len(Put(Put(wire, d), e)) : ~Same(Put(Put(wire, d), e)[i], held)
    <3>1. \A i \in 1..Len(Put(wire, d)) : ~Same(Put(wire, d)[i], held)
      <4>1. d \in Event /\ ~Same(d, held)
        BY <2>2
      <4>2. \A i \in 1..Len(wire) : ~Same(wire[i], held)
        BY <2>1
      <4>. QED BY <1>2, <4>1, <4>2, PutType
    <3>2. Put(wire, d) \in Seq(Event)
      BY <1>12
    <3>. QED BY <2>2, <3>1, <3>2, PutType
  <2>4. \A i \in 1..Len(wire') : ~Same(wire'[i], held)
    BY <2>1, <2>3
  <2>. QED BY <1>1, <1>3, <2>1, <2>4
<1>17. MatchedInv'
  OBVIOUS
<1>18. BookedAtMostOnce'
  <2>1. ASSUME NEW p \in Orders, NEW j \in 1..MaxTrades
        PROVE  booked'[p][j] <= (IF j <= pushed'[p] THEN 1 ELSE 0)
    <3>1. booked[p] \in [1..MaxTrades -> Nat]
      BY <1>2
    <3>2. booked[p][j] \in Nat /\ booked[p][j] <= (IF j <= pushed[p] THEN 1 ELSE 0)
      BY <3>1 DEF TradeInv, BookedAtMostOnce
    <3>3. j \in Nat /\ pushed[p] \in Nat /\ pushed'[p] \in Nat /\ pushed[p] <= pushed'[p]
      BY <1>1, <1>2, BoundType DEF k
    <3>4. booked'[p][j] = booked[p][j]
      BY <1>1
    <3>. QED BY <3>2, <3>3, <3>4
  <2>. QED BY <2>1 DEF BookedAtMostOnce
<1>. QED BY <1>15, <1>16, <1>17, <1>18 DEF TradeInv

(* A match pushes a trade and an update, in either order, or loses both.    *)
LEMMA MatchIsNew ==
    ASSUME TypeOK, TradeInv, NEW o \in Orders, VenueMatch(o)
    PROVE  TradeInv'
<1>1. /\ matched \in [Orders -> Nat] /\ pushed \in [Orders -> Nat]
      /\ venue \in [Orders -> {"none", "open", "closed"}] /\ MatchedInv
  BY DEF TypeOK, VenueTypeOK, TradeInv
<1> DEFINE k == matched[o] + 1
<1>2. /\ matched' = [matched EXCEPT ![o] = k] /\ venue[o] = "open"
      /\ venue' = [venue EXCEPT ![o] = IF k = Size THEN "closed" ELSE "open"]
      /\ pushed' = [pushed EXCEPT ![o] = @ + 1] /\ UNCHANGED <<booked, held>>
  BY DEF VenueMatch, agentVars
<1>3. k \in Nat /\ k <= Size /\ pushed[o] + 1 <= MaxTrades
  <2>1. Size \in Nat /\ Repeats \in Nat
    BY SizeAssumption, WireAssumption
  <2>2. /\ matched[o] \in Nat /\ pushed[o] \in Nat
        /\ matched[o] < Size /\ pushed[o] <= matched[o] + Repeats
    BY <1>1, <1>2, <2>1 DEF MatchedInv
  <2>. QED BY <2>1, <2>2 DEF MaxTrades
<1>4. MatchedInv'
  BY <1>1, <1>2, <1>3, SizeAssumption, WireAssumption DEF MatchedInv
<1>5. PICK w \in {"OTHER", "FILLED", "PARTIAL"} :
         \/ Emit2(Trade(o, pushed[o] + 1), Update(o, w, k))
         \/ Emit2(Update(o, w, k), Trade(o, pushed[o] + 1))
  BY DEF VenueMatch
<1>6. PICK t \in Event : t = Trade(o, pushed[o] + 1)
  BY <1>1, EventType
<1>7. PICK u \in Event : u = Update(o, w, k)
  BY <1>3, EventType DEF OrderStatus, OpenStatus, TerminalStatus
<1>8. u.kind # "trade" /\ (Emit2(t, u) \/ Emit2(u, t))
  BY <1>5, <1>6, <1>7 DEF Update
<1>. QED BY <1>2, <1>3, <1>4, <1>6, <1>8, PushIsNew DEF Emit2

(* A trade pushed again is one more event.                                  *)
LEMMA RepeatIsNew ==
    ASSUME TypeOK, TradeInv, NEW o \in Orders, VenueRepeats(o)
    PROVE  TradeInv'
<1>1. /\ matched \in [Orders -> Nat] /\ pushed \in [Orders -> Nat] /\ MatchedInv
  BY DEF TypeOK, VenueTypeOK, TradeInv
<1>2. /\ pushed' = [pushed EXCEPT ![o] = @ + 1] /\ pushed[o] < matched[o] + Repeats
      /\ UNCHANGED <<booked, held, matched, venue>>
  BY DEF VenueRepeats, agentVars
<1>3. pushed[o] + 1 <= MaxTrades /\ MatchedInv'
  <2>1. Size \in Nat /\ Repeats \in Nat
    BY SizeAssumption, WireAssumption
  <2>2. /\ matched[o] \in Nat /\ pushed[o] \in Nat /\ matched[o] <= Size
    BY <1>1, <2>1 DEF MatchedInv
  <2>3. pushed[o] + 1 <= MaxTrades
    BY <1>2, <2>1, <2>2 DEF MaxTrades
  <2>4. ASSUME NEW x \in Orders
        PROVE  /\ matched'[x] <= Size /\ (venue'[x] # "closed" => matched'[x] < Size)
               /\ pushed'[x] <= matched'[x] + Repeats
    <3>1. matched[x] \in Nat /\ pushed[x] \in Nat
      BY <1>1
    <3>2. pushed'[x] = IF x = o THEN pushed[x] + 1 ELSE pushed[x]
      BY <1>1, <1>2
    <3>3. matched[x] <= Size /\ (venue[x] # "closed" => matched[x] < Size)
          /\ pushed[x] <= matched[x] + Repeats
      BY <1>1, <2>1, <3>1 DEF MatchedInv
    <3>4. matched'[x] = matched[x] /\ venue'[x] = venue[x]
      BY <1>2
    <3>. QED BY <1>1, <1>2, <2>1, <3>1, <3>2, <3>3, <3>4
  <2>. QED BY <2>3, <2>4 DEF MatchedInv
<1>4. PICK t \in Event : t = Trade(o, pushed[o] + 1)
  BY <1>1, EventType
<1>5. PICK u \in Event : u = Update(o, "LIVE", 0)
  BY EventType DEF OrderStatus, OpenStatus
<1>6. u.kind # "trade" /\ Emit(t)
  BY <1>4, <1>5 DEF Update, VenueRepeats
<1>. QED BY <1>2, <1>3, <1>4, <1>6, PushIsNew DEF Emit

(* Whatever else the venue reports is not a trade.                          *)
LEMMA TellIsClean ==
    ASSUME TypeOK, TradeInv, NEW o \in Orders, NEW s \in OrderStatus, NEW n \in Nat,
           Emit(Update(o, s, n)), UNCHANGED <<pushed, matched, booked, held>>, MatchedInv'
    PROVE  TradeInv'
<1>1. wire \in Seq(Event)
  BY DEF TypeOK, VenueTypeOK
<1>2. PICK u \in Event : u = Update(o, s, n)
  BY EventType
<1>3. u.kind # "trade" /\ Emit(u)
  BY <1>2 DEF Update, OrderStatus, OpenStatus, TerminalStatus
<1>4. Clean(Put(wire, u), pushed, booked)
  BY <1>1, <1>3, PutClean DEF TradeInv, Unbooked, Same
<1>5. Clean(wire', pushed', booked')
  BY <1>3, <1>4 DEF Emit, TradeInv
<1>6. ASSUME held # None PROVE \A i \in 1..Len(wire') : ~Same(wire'[i], held)
  <2>1. \A i \in 1..Len(wire) : ~Same(wire[i], held)
    BY <1>6 DEF TradeInv
  <2>2. \A i \in 1..Len(Put(wire, u)) : ~Same(Put(wire, u)[i], held)
    BY <1>1, <1>3, <2>1, PutType DEF Same
  <2>. QED BY <1>3, <2>1, <2>2 DEF Emit
<1>. QED BY <1>5, <1>6 DEF TradeInv, BookedAtMostOnce

(* The first event leaves the queue for the lock.                           *)
LEMMA ReceiveIsClean == TypeOK /\ TradeInv /\ WsReceive => TradeInv'
<1> SUFFICES ASSUME TypeOK, TradeInv, WsReceive PROVE TradeInv'
  OBVIOUS
<1>1. /\ wire \in Seq(Event) /\ wire # <<>> /\ wire' = Tail(wire)
      /\ held' = Head(wire) \/ held' = None
      /\ UNCHANGED <<pushed, matched, booked, venue>>
  BY DEF WsReceive, TypeOK, VenueTypeOK, agentVars, venueVars
<1>2. /\ \A i \in 1..Len(wire') : wire'[i] = wire[i + 1] /\ i + 1 \in 1..Len(wire) /\ i + 1 # 1
      /\ Head(wire) = wire[1] /\ 1 \in 1..Len(wire)
  BY <1>1
<1>3. \A i, j \in 1..Len(wire') : i # j => i + 1 # j + 1
  BY <1>1
<1>4. Clean(wire', pushed', booked')
  BY <1>1, <1>2, <1>3 DEF TradeInv, Clean
<1>5. held' # None => /\ Unbooked(held', pushed', booked')
                     /\ \A i \in 1..Len(wire') : ~Same(wire'[i], held')
  BY <1>1, <1>2 DEF TradeInv, Clean
<1>. QED BY <1>1, <1>4, <1>5 DEF TradeInv, MatchedInv, BookedAtMostOnce

(* No more trade events than the bounds allow.                              *)
LEMMA PushedBound ==
    ASSUME TypeOK, TradeInv
    PROVE  \A o \in Orders : pushed[o] <= MaxTrades
<1>1. matched \in [Orders -> Nat] /\ pushed \in [Orders -> Nat] /\ MatchedInv
  BY DEF TypeOK, VenueTypeOK, TradeInv
<1>2. Size \in Nat /\ Repeats \in Nat
  BY SizeAssumption, WireAssumption
<1>3. ASSUME NEW o \in Orders PROVE pushed[o] <= MaxTrades
  <2>1. /\ matched[o] \in Nat /\ pushed[o] \in Nat
        /\ matched[o] <= Size /\ pushed[o] <= matched[o] + Repeats
    BY <1>1, <1>2 DEF MatchedInv
  <2>. QED BY <1>2, <2>1 DEF MaxTrades
<1>. QED BY <1>3

(* The event is booked, and no other entry is the same.                     *)
LEMMA ApplyIsClean == TypeOK /\ TradeInv /\ (WsApplyUpdate \/ WsApplyTrade) => TradeInv'
<1> SUFFICES ASSUME TypeOK, TradeInv, WsApplyUpdate \/ WsApplyTrade PROVE TradeInv'
  OBVIOUS
<1>0. /\ wire \in Seq(Event) /\ pushed \in [Orders -> Nat]
      /\ booked \in [Orders -> [1..MaxTrades -> Nat]] /\ held \in Event \cup {None}
  BY DEF TypeOK, VenueTypeOK, AgentTypeOK
<1>1. held' = None /\ held # None /\ UNCHANGED <<pushed, matched, venue, wire>>
  BY DEF WsApplyUpdate, WsApplyTrade, venueVars
<1>2. CASE WsApplyUpdate
  <2>1. booked' = booked
    BY <1>2 DEF WsApplyUpdate
  <2>. QED BY <1>1, <2>1 DEF TradeInv, MatchedInv, BookedAtMostOnce
<1>3. CASE WsApplyTrade
  <2>1. held.kind = "trade" /\ held.order \in Orders /\ held.n \in Nat
    BY <1>0, <1>1, <1>3 DEF WsApplyTrade, Event
  <2>2. PICK p \in Orders, k \in Nat :
             /\ p = held.order /\ k = held.n
             /\ booked' = [booked EXCEPT ![p][k] = @ + 1]
    BY <1>3, <2>1 DEF WsApplyTrade
  <2>3. k \in 1..pushed[p] /\ booked[p][k] = 0 /\ pushed[p] \in Nat /\ pushed[p] <= MaxTrades
    BY <1>0, <1>1, <2>1, <2>2, PushedBound DEF TradeInv, Unbooked
  <2>4. k \in 1..MaxTrades
    BY <2>2, <2>3, BoundType
  <2>5. p \in Orders /\ k \in 1..MaxTrades /\ k <= pushed[p] /\ booked[p][k] = 0
    BY <2>3, <2>4
  <2>a. \A e : e.kind = "trade" /\ e.order = p /\ e.n = k => Same(e, held)
    BY <2>1, <2>2 DEF Same
  <2>6. \A q \in Orders : \A j \in 1..MaxTrades :
          booked'[q][j] = IF q = p /\ j = k THEN 1 ELSE booked[q][j]
    <3>1. ASSUME NEW q \in Orders, NEW j \in 1..MaxTrades
          PROVE  booked'[q][j] = IF q = p /\ j = k THEN 1 ELSE booked[q][j]
      <4>1. booked[q] \in [1..MaxTrades -> Nat] /\ booked[p] \in [1..MaxTrades -> Nat]
        BY <1>0, <2>5
      <4>2. booked'[q] = IF q = p THEN [booked[p] EXCEPT ![k] = @ + 1] ELSE booked[q]
        BY <1>0, <2>2, <2>5
      <4>3. CASE q = p
        <5>1. PICK f \in [1..MaxTrades -> Nat] : f = booked[p]
          BY <4>1
        <5>2. booked'[q] = [f EXCEPT ![k] = f[k] + 1] /\ f[k] = 0
          BY <2>5, <4>2, <4>3, <5>1
        <5>3. booked'[q][j] = IF j = k THEN 1 ELSE f[j]
          <6>1. DOMAIN f = 1..MaxTrades /\ k \in 1..MaxTrades /\ j \in 1..MaxTrades
            BY <2>5, <5>1
          <6>2. [f EXCEPT ![k] = f[k] + 1][j] = IF j = k THEN f[k] + 1 ELSE f[j]
            BY <6>1
          <6>. QED BY <5>2, <6>2
        <5>. QED BY <4>3, <5>1, <5>3
      <4>4. CASE q # p
        BY <4>2, <4>4
      <4>. QED BY <4>3, <4>4
    <3>. QED BY <3>1
  <2>7. BookedAtMostOnce'
    BY <1>1, <2>5, <2>6 DEF TradeInv, BookedAtMostOnce
  <2>8. ASSUME NEW e \in Event, Unbooked(e, pushed, booked), ~Same(e, held)
        PROVE  Unbooked(e, pushed, booked')
    <3>1. SUFFICES ASSUME e.kind = "trade"
                   PROVE  e.n \in 1..pushed[e.order] /\ booked'[e.order][e.n] = 0
      BY DEF Unbooked
    <3>2. e.order \in Orders /\ e.n \in 1..pushed[e.order] /\ booked[e.order][e.n] = 0
      BY <2>8, <3>1 DEF Unbooked, Event
    <3>3. e.n \in 1..MaxTrades
      BY <1>0, <3>2, PushedBound, BoundType
    <3>4. ~(e.order = p /\ e.n = k)
      BY <2>a, <2>8, <3>1
    <3>. QED BY <2>6, <3>2, <3>3, <3>4
  <2>9. Clean(wire', pushed', booked')
    <3>1. \A i \in 1..Len(wire) : /\ wire[i] \in Event /\ Unbooked(wire[i], pushed, booked)
                                  /\ ~Same(wire[i], held)
      BY <1>0, <1>1 DEF TradeInv, Clean
    <3>. QED BY <1>1, <2>8, <3>1 DEF TradeInv, Clean
  <2>. QED BY <1>1, <2>7, <2>9 DEF TradeInv, MatchedInv
<1>. QED BY <1>2, <1>3

(* The venue numbers what it pushes, and the user channel books what it     *)
(* holds and forgets it: every step keeps the invariant on trades.          *)
LEMMA TradeStep == TypeOK /\ TradeInv /\ [Next]_vars => TradeInv'
<1> SUFFICES ASSUME TypeOK, TradeInv, [Next]_vars PROVE TradeInv'
  OBVIOUS
<1>0. matched \in [Orders -> Nat] /\ venue \in [Orders -> {"none", "open", "closed"}] /\ MatchedInv
  BY DEF TypeOK, VenueTypeOK, TradeInv
<1>1. ASSUME NEW o \in Orders, VenueAccept(o) PROVE TradeInv'
  <2>1. /\ Emit(Update(o, "LIVE", 0)) /\ UNCHANGED <<pushed, matched, booked, held>>
        /\ venue' = [venue EXCEPT ![o] = "open"] /\ "LIVE" \in OrderStatus
    BY <1>1 DEF VenueAccept, agentVars, OrderStatus, OpenStatus
  <2>2. MatchedInv'
    BY <1>0, <1>1, <2>1 DEF MatchedInv, VenueAccept
  <2>. QED BY <2>1, <2>2, TellIsClean
<1>2. ASSUME NEW o \in Orders, VenueKill(o) PROVE TradeInv'
  <2>1. /\ Emit(Update(o, "CANCELLED", matched[o])) /\ UNCHANGED <<pushed, matched, booked, held>>
        /\ venue' = [venue EXCEPT ![o] = "closed"] /\ "CANCELLED" \in OrderStatus
    BY <1>2 DEF VenueKill, agentVars, OrderStatus, TerminalStatus
  <2>2. MatchedInv' /\ matched[o] \in Nat
    BY <1>0, <2>1 DEF MatchedInv
  <2>. QED BY <2>1, <2>2, TellIsClean
<1>3. CASE VenueCancel
  <2>1. UNCHANGED <<pushed, matched, booked, held>> /\ cancelling \in Orders /\ "CANCELLED" \in OrderStatus
    BY <1>3 DEF VenueCancel, agentVars, TypeOK, CallTypeOK, OrderStatus, TerminalStatus
  <2>2. \/ /\ Emit(Update(cancelling, "CANCELLED", matched[cancelling]))
           /\ venue' = [venue EXCEPT ![cancelling] = "closed"]
        \/ UNCHANGED <<venue, wire>>
    BY <1>3 DEF VenueCancel
  <2>3. MatchedInv' /\ matched[cancelling] \in Nat
    BY <1>0, <2>1, <2>2 DEF MatchedInv
  <2>4. CASE Emit(Update(cancelling, "CANCELLED", matched[cancelling]))
    BY <2>1, <2>3, <2>4, TellIsClean
  <2>5. CASE UNCHANGED <<venue, wire>>
    BY <2>1, <2>3, <2>5 DEF TradeInv, BookedAtMostOnce
  <2>. QED BY <2>2, <2>4, <2>5
<1>4. CASE UNCHANGED <<wire, held, booked, pushed, matched, venue>>
  BY <1>4 DEF TradeInv, MatchedInv, BookedAtMostOnce
<1>5. \/ \E o \in Orders : VenueAccept(o) \/ VenueMatch(o) \/ VenueRepeats(o) \/ VenueKill(o)
      \/ VenueCancel \/ WsReceive \/ WsApplyUpdate \/ WsApplyTrade
      \/ UNCHANGED <<wire, held, booked, pushed, matched, venue>>
  BY DEF Next, SubmitAnswer, SubmitStart, SubmitReturns, SubmitReturnsNoId, SubmitRaises,
         CancelCall, CancelResume, CancelRaises, CancelDone, Route, RouterGather, RouterUnwind,
         CancelStart, SweepStart, Flatten, SweepCancel, SweepEnd, UserChannel, Reconcile,
         ReconcileFetch, ReconcileApply, vars, agentVars, cancelVars, sweepVars, wsVars, venueVars
<1>. QED BY <1>1, <1>2, <1>3, <1>4, <1>5, MatchIsNew, RepeatIsNew, ReceiveIsClean, ApplyIsClean

(* The ledger books a trade event at most once, and only one the venue      *)
(* pushed, however events and answers are lost, dropped, repeated or pushed *)
(* in another order, and whatever reconcile() and the updates say about the *)
(* order: with no trade pushed again it books no lot twice.                 *)
THEOREM TradesAreBookedOnce == Spec => []BookedAtMostOnce
<1>1. Init => TradeInv
  <2> SUFFICES ASSUME Init PROVE TradeInv
    OBVIOUS
  <2>1. MatchedInv /\ BookedAtMostOnce
    BY SizeAssumption, WireAssumption DEF Init, MatchedInv, BookedAtMostOnce
  <2>2. Clean(wire, pushed, booked) /\ held = None
    BY DEF Init, Clean
  <2>. QED BY <2>1, <2>2 DEF TradeInv
<1>2. TradeInv => BookedAtMostOnce
  BY DEF TradeInv
<1>. QED BY <1>1, <1>2, TradeStep, TypeCorrect, PTL DEF Spec

-----------------------------------------------------------------------------
(* Reconciliation.                                                          *)

(* While an answer that lists orders is under way no order of the pipeline  *)
(* task is being posted, so none it did not list can come onto the book.    *)
FetchInv ==
    fetched \notin {{None}, {}} =>
        \A o \in Orders \ ExitOrders :
            submit[o] # "posting" /\ (o \in fetched \/ venue[o] # "open")

(* The pipeline task does not submit between the fetch and the marking, and *)
(* the venue puts no order back on its book.                                *)
LEMMA FetchStep == TypeOK /\ FetchInv /\ [Next]_vars => FetchInv'
<1> SUFFICES ASSUME TypeOK, FetchInv, [Next]_vars PROVE FetchInv'
  OBVIOUS
<1> USE DEF agentVars, cancelVars, sweepVars, wsVars, venueVars
<1>0. /\ submit \in [Orders -> {"idle", "posting", "done"}]
      /\ venue \in [Orders -> {"none", "open", "closed"}]
  BY DEF TypeOK, AgentTypeOK, VenueTypeOK
<1>1. ASSUME NEW p \in Orders, SubmitStart(p) PROVE FetchInv'
  BY <1>0, <1>1 DEF SubmitStart, MaySubmit, FetchInv
<1>2. ASSUME NEW p \in Orders, VenueAccept(p) PROVE FetchInv'
  BY <1>0, <1>2 DEF VenueAccept, FetchInv
<1>3. ASSUME NEW p \in Orders, VenueMatch(p) \/ VenueRepeats(p) \/ VenueKill(p) PROVE FetchInv'
  <2>1. /\ UNCHANGED <<submit, fetched>>
        /\ \A o \in Orders : venue'[o] = "open" => venue[o] = "open"
    BY <1>0, <1>3 DEF VenueMatch, VenueRepeats, VenueKill
  <2>. QED BY <2>1 DEF FetchInv
<1>4. ASSUME NEW p \in Orders, SubmitReturns(p) \/ SubmitReturnsNoId(p) \/ SubmitRaises(p)
      PROVE  FetchInv'
  BY <1>0, <1>4 DEF SubmitReturns, SubmitReturnsNoId, SubmitRaises, FetchInv
<1>5. CASE VenueCancel
  <2>1. /\ UNCHANGED <<submit, fetched>>
        /\ \A o \in Orders : venue'[o] = "open" => venue[o] = "open"
    BY <1>0, <1>5 DEF VenueCancel
  <2>. QED BY <2>1 DEF FetchInv
<1>6. CASE ReconcileFetch
  <2>1. \A o \in Orders \ ExitOrders : submit[o] # "posting"
    BY <1>6 DEF ReconcileFetch
  <2>2. /\ fetched' = {} \/ fetched' = {o \in Orders : venue[o] = "open"}
        /\ UNCHANGED <<submit, venue>>
    BY <1>6 DEF ReconcileFetch
  <2>. QED BY <2>1, <2>2 DEF FetchInv
<1>7. CASE ReconcileApply
  BY <1>7 DEF ReconcileApply, FetchInv
<1>8. CASE UNCHANGED <<submit, fetched, venue>>
  BY <1>8 DEF FetchInv
<1>9. \/ \E o \in Orders : \/ SubmitStart(o) \/ VenueAccept(o) \/ VenueMatch(o)
                           \/ VenueRepeats(o) \/ VenueKill(o)
                           \/ SubmitReturns(o) \/ SubmitReturnsNoId(o) \/ SubmitRaises(o)
      \/ VenueCancel \/ ReconcileFetch \/ ReconcileApply \/ UNCHANGED <<submit, fetched, venue>>
  BY DEF Next, SubmitAnswer, CancelCall, CancelResume, CancelRaises, CancelDone, Route,
         RouterGather, RouterUnwind, CancelStart, SweepStart, Flatten, SweepCancel, SweepEnd,
         UserChannel, WsReceive, WsApplyUpdate, WsApplyTrade, Reconcile, vars
<1>. QED BY <1>1, <1>2, <1>3, <1>4, <1>5, <1>6, <1>7, <1>8, <1>9

(* What reconcile() calls FILLED of the orders of its own task, after an    *)
(* answer that lists open orders, is off the venue's book, although the     *)
(* venue was asked some steps earlier and without the lock.                 *)
THEOREM OwnUnlistedIsReal == Spec => OwnUnlistedIsOffVenue
<1>1. Init => FetchInv
  BY DEF Init, FetchInv
<1>2. FetchInv /\ ReconcileApply /\ fetched # {} =>
        \A o \in Orders \ ExitOrders :
            order[o] = "LIVE" /\ order'[o] = "FILLED" => venue[o] # "open"
  BY DEF FetchInv, ReconcileApply, Missing
<1>. QED BY <1>1, <1>2, FetchStep, TypeCorrect, PTL DEF Spec, OwnUnlistedIsOffVenue
-----------------------------------------------------------------------------
(* Nobody is left waiting: the part of SubmitResolves, RouteEnds and        *)
(* SweepEnds that one state can show.                                       *)

(* An order that waits for its outcome has its coroutine at the venue, and  *)
(* one that was never created has none.                                     *)
PendingIsPosted ==
    \A o \in Orders : /\ order[o] = "PENDING" => submit[o] = "posting"
                      /\ order[o] = "NEW" <=> submit[o] = "idle"

(* The lock held across the venue call has a caller that is still there:    *)
(* the sweep, with that order still on its list, or the router, and then    *)
(* the router waits for it.                                                 *)
HolderIsThere ==
    /\ cancelling = None <=> caller = "none"
    /\ caller = "sweep" => sweeping /\ sweep[cancelling] = "todo"
    /\ caller = "router" <=> router = "cancelling"

(* A step changes the status of an order only if it is one of its           *)
(* submission, or if the order is in the agent's books already.             *)
LEMMA PendingStep ==
    TypeOK /\ CancelInv /\ PendingIsPosted /\ [Next]_vars => PendingIsPosted'
<1> SUFFICES ASSUME TypeOK, CancelInv, PendingIsPosted, [Next]_vars PROVE PendingIsPosted'
  OBVIOUS
<1> USE DEF agentVars, cancelVars, sweepVars, wsVars, venueVars
<1>0. /\ submit \in [Orders -> {"idle", "posting", "done"}]
      /\ order \in [Orders -> OrderStatus \cup {"NEW"}]
      /\ KnownIsAnswered /\ CallInv /\ EventInv
  BY DEF TypeOK, AgentTypeOK, CancelInv
<1>1. ASSUME NEW o \in Orders,
             SubmitStart(o) \/ SubmitReturns(o) \/ SubmitReturnsNoId(o) \/ SubmitRaises(o)
      PROVE  PendingIsPosted'
  BY <1>0, <1>1 DEF SubmitStart, SubmitReturns, SubmitReturnsNoId, SubmitRaises, PendingIsPosted
<1>2. ASSUME NEW o \in Orders, NEW by, CancelStart(o, by), submit' = submit
      PROVE  PendingIsPosted'
  BY <1>0, <1>2 DEF CancelStart, OpenStatus, PendingIsPosted
<1>3. CASE CancelResume \/ CancelRaises
  <2>1. submit' = submit
    BY <1>3 DEF CancelResume, CancelRaises, CancelDone
  <2>2. CASE order' = order
    BY <2>1, <2>2 DEF PendingIsPosted
  <2>3. CASE answer = "ok" /\ order' = [order EXCEPT ![cancelling] = "CANCELLED"]
    <3>1. cancelling \in Orders /\ order[cancelling] # "NEW"
      BY <1>0, <2>3 DEF CallInv, KnownIsAnswered, TypeOK, CallTypeOK
    <3>. QED BY <1>0, <2>1, <2>3, <3>1 DEF PendingIsPosted
  <2>. QED BY <1>3, <2>2, <2>3 DEF CancelResume, CancelRaises
<1>4. CASE WsApplyUpdate \/ WsApplyTrade
  <2>1. /\ submit' = submit /\ held.order \in Orders /\ order[held.order] # "NEW"
    BY <1>0, <1>4 DEF WsApplyUpdate, WsApplyTrade, EventInv, KnownIsAnswered, TypeOK,
                      VenueTypeOK, Event
  <2>2. \E s \in (OrderStatus \ {"PENDING"}) \cup {order[held.order]} :
            order' = [order EXCEPT ![held.order] = s]
    BY <1>4 DEF WsApplyUpdate, WsApplyTrade, Understood, OrderStatus, OpenStatus, TerminalStatus
  <2>3. "NEW" \notin OrderStatus
    BY DEF OrderStatus, OpenStatus, TerminalStatus
  <2>. QED BY <1>0, <2>1, <2>2, <2>3 DEF PendingIsPosted
<1>5. CASE ReconcileApply
  BY <1>0, <1>5 DEF ReconcileApply, Missing, PendingIsPosted
<1>6. CASE UNCHANGED <<order, submit>>
  BY <1>6 DEF PendingIsPosted
<1>7. \/ \E o \in Orders : \/ SubmitStart(o) \/ SubmitReturns(o) \/ SubmitReturnsNoId(o)
                           \/ SubmitRaises(o) \/ SweepCancel(o)
      \/ RouterUnwind \/ CancelResume \/ CancelRaises \/ WsApplyUpdate \/ WsApplyTrade
      \/ ReconcileApply \/ UNCHANGED <<order, submit>>
  BY DEF Next, SubmitAnswer, VenueAccept, VenueMatch, VenueRepeats, VenueKill, CancelCall, VenueCancel, Route,
         RouterGather, SweepStart, Flatten, SweepEnd, UserChannel, WsReceive, Reconcile,
         ReconcileFetch, vars
<1>8. CASE RouterUnwind \/ \E o \in Orders : SweepCancel(o)
  <2>1. Legs \subseteq Orders
    BY OrdersAssumption
  <2>. QED BY <1>2, <1>8, <2>1 DEF RouterUnwind, SweepCancel
<1>. QED BY <1>1, <1>3, <1>4, <1>5, <1>6, <1>7, <1>8

(* The caller stays until its call returns: the sweep starts and ends only  *)
(* while the lock is free, and the router does nothing else meanwhile.      *)
LEMMA HolderStep == TypeOK /\ HolderIsThere /\ [Next]_vars => HolderIsThere'
<1> SUFFICES ASSUME TypeOK, HolderIsThere, [Next]_vars PROVE HolderIsThere'
  OBVIOUS
<1> USE DEF agentVars, cancelVars, sweepVars, wsVars, venueVars
<1>0. /\ sweep \in [Orders -> {"out", "todo", "kept", "counted"}]
      /\ cancelling \in Orders \cup {None} /\ caller \in {"none", "sweep", "router"}
      /\ router \in Legs \cup {"gather", "cancelling", "settled"}
  BY DEF TypeOK, CallTypeOK, SweepState
<1>1. ASSUME NEW o \in Orders, SweepCancel(o) PROVE HolderIsThere'
  BY <1>0, <1>1, OrdersAssumption DEF SweepCancel, CancelStart, LockFree, Result, HolderIsThere
<1>2. CASE RouterUnwind
  <2>1. router \in Orders /\ cancelling = None /\ caller = "none" /\ router # "cancelling"
    BY <1>2, OrdersAssumption DEF RouterUnwind, CancelStart, LockFree, HolderIsThere
  <2>. QED BY <1>2, <2>1, OrdersAssumption DEF RouterUnwind, CancelStart, HolderIsThere
<1>3. CASE CancelResume \/ CancelRaises
  <2>1. /\ cancelling' = None /\ caller' = "none"
        /\ router' = IF caller = "router" THEN "settled" ELSE router
    BY <1>3 DEF CancelResume, CancelRaises, CancelDone
  <2>. QED BY <2>1 DEF HolderIsThere
<1>4. CASE RouterGather
  <2>1. /\ UNCHANGED <<cancelling, caller, sweep, sweeping>> /\ router = "gather"
        /\ router' # "cancelling"
    BY <1>4, OrdersAssumption DEF RouterGather
  <2>. QED BY <2>1 DEF HolderIsThere
<1>5. CASE SweepStart \/ SweepEnd
  <2>1. UNCHANGED <<cancelling, caller, router>> /\ cancelling = None
    BY <1>5 DEF SweepStart, SweepEnd, LockFree
  <2>. QED BY <2>1 DEF HolderIsThere
<1>6. CASE UNCHANGED <<cancelling, caller, router, sweep, sweeping>>
  BY <1>6 DEF HolderIsThere
<1>7. \/ \E o \in Orders : SweepCancel(o)
      \/ RouterUnwind \/ CancelResume \/ CancelRaises \/ RouterGather \/ SweepStart \/ SweepEnd
      \/ UNCHANGED <<cancelling, caller, router, sweep, sweeping>>
  BY DEF Next, SubmitAnswer, SubmitStart, SubmitReturns, SubmitReturnsNoId, SubmitRaises,
         VenueAccept, VenueMatch, VenueRepeats, VenueKill, CancelCall, VenueCancel, Route, Flatten,
         UserChannel, WsReceive, WsApplyUpdate, WsApplyTrade, Reconcile, ReconcileFetch,
         ReconcileApply, vars
<1>. QED BY <1>1, <1>2, <1>3, <1>4, <1>5, <1>6, <1>7

(* No order is left PENDING and no lock is left held by a task that has     *)
(* gone: whatever is refused, lost or overtaken, the call an order or the   *)
(* lock waits for is still under way.                                       *)
THEOREM NobodyIsLeftWaiting == Spec => [](PendingIsPosted /\ HolderIsThere)
<1>1. Init => PendingIsPosted /\ HolderIsThere
  BY DEF Init, PendingIsPosted, HolderIsThere
<1>. QED BY <1>1, PendingStep, HolderStep, CancelInvariant, TypeCorrect, PTL DEF Spec
=============================================================================
