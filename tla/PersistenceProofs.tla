------------------------ MODULE PersistenceProofs ------------------------
(***************************************************************************)
(* What holds of Persistence for every set of tokens, every order size and *)
(* any number of orders, scans and restarts: its types, that paper         *)
(* positions are not oversold and the books of a live process never short, *)
(* and that a restart loses no position that was written.                  *)
(***************************************************************************)
EXTENDS Persistence, TLAPS

(* Rounding to lots is off by half a lot at most, and half a lot is none.   *)
LEMMA LotsAreClose ==
    ASSUME NEW q \in Nat
    PROVE  Lots(q) \in Nat /\ Lots(q) <= q + 1 /\ (q = 1 => Lots(q) = 0)
<1>1. q % 2 = 0 \/ q % 4 = 1 \/ q % 4 = 3
    BY SMT
<1>2. CASE q % 2 = 0
    BY <1>2, SMT DEF Lots
<1>3. CASE q % 4 = 1
    BY <1>3, SMT DEF Lots
<1>4. CASE q % 4 = 3
    BY <1>4, SMT DEF Lots
<1> QED  BY <1>1, <1>2, <1>3, <1>4

(* Size is the absolute value.                                              *)
LEMMA SizeIsNat ==
    ASSUME NEW q \in Int
    PROVE  Size(q) \in Nat /\ (q >= 0 => Size(q) = q) /\ (q < 0 => Size(q) = 0 - q)
BY DEF Size

(* A fill leaves a position, larger by the lots filled.                     *)
LEMMA FillKeepsPosition ==
    ASSUME NEW p \in Positions, NEW n \in Int
    PROVE  ApplyFill(p, n) \in Positions /\ ApplyFill(p, n).qty = p.qty + n
<1>1. Horizon(PolicyName) \in Horizons
    BY DEF Horizon, Horizons
<1> QED  BY <1>1 DEF ApplyFill, Positions

(* Booking n half lots for t changes the books of t alone.                  *)
LEMMA FilledKeeps ==
    ASSUME MonitorTypeOK, NEW t \in Tokens, NEW n \in Int, Filled(t, n)
    PROVE  /\ position' \in [Tokens -> Positions]
           /\ held' \in [Tokens -> Int]
           /\ unbooked' \in Seq([token: Tokens, n: Int])
           /\ mode = "paper" => /\ position'[t].qty = position[t].qty + n
                                /\ \A u \in Tokens \ {t} : position'[u] = position[u]
                                /\ unbooked' = unbooked
<1> DEFINE report == [token |-> t, n |-> n]
<1>1. report \in [token: Tokens, n: Int]
    OBVIOUS
<1>2. ApplyFill(position[t], n) \in Positions
      /\ ApplyFill(position[t], n).qty = position[t].qty + n
    BY FillKeepsPosition DEF MonitorTypeOK
<1>3. CASE mode = "paper"
    BY <1>2, <1>3 DEF Filled, MonitorTypeOK
<1>4. CASE mode # "paper"
    <2>1. /\ held' = [held EXCEPT ![t] = @ + n]
          /\ unbooked' = Append(unbooked, report)
          /\ position' = position
        BY <1>4 DEF Filled
    <2>2. Append(unbooked, report) \in Seq([token: Tokens, n: Int])
        BY <1>1 DEF MonitorTypeOK
    <2> QED  BY <1>4, <2>1, <2>2 DEF MonitorTypeOK
<1> QED  BY <1>3, <1>4

-----------------------------------------------------------------------------
(* Types.                                                                   *)

LEMMA BookKeepsTypes ==
    ASSUME MonitorTypeOK, Book
    PROVE  MonitorTypeOK'
<1> DEFINE R == [token: Tokens, n: Int]
           f == Head(unbooked)
<1>1. f \in R /\ Tail(unbooked) \in Seq(R)
    <2> HIDE DEF R
    <2>1. unbooked \in Seq(R) /\ unbooked # <<>>
        BY DEF Book, MonitorTypeOK, R
    <2> QED  BY <2>1
<1>2. f.token \in Tokens /\ f.n \in Int
    BY <1>1
<1>3. ApplyFill(position[f.token], f.n) \in Positions
    BY <1>2, FillKeepsPosition DEF MonitorTypeOK
<1>4. position' \in [Tokens -> Positions]
    BY <1>2, <1>3 DEF Book, MonitorTypeOK
<1>5. unbooked' \in Seq(R)
    BY <1>1 DEF Book
<1> QED  BY <1>4, <1>5 DEF Book, MonitorTypeOK, scan, world, bounds

(* A fill of a resting bid keeps the types.                                 *)
LEMMA FillBidKeepsTypes ==
    ASSUME MonitorTypeOK, NEW t \in Tokens, NEW n \in 1..bids[t], FillBid(t, n)
    PROVE  MonitorTypeOK'
<1>1. bids[t] \in Nat /\ n \in Int /\ bids[t] - n \in Nat
    BY DEF MonitorTypeOK
<1>2. /\ position' \in [Tokens -> Positions]
      /\ held' \in [Tokens -> Int]
      /\ unbooked' \in Seq([token: Tokens, n: Int])
    BY <1>1, FilledKeeps DEF FillBid
<1>3. bids' \in [Tokens -> Nat]
    BY <1>1 DEF FillBid, MonitorTypeOK
<1> QED  BY <1>2, <1>3 DEF FillBid, MonitorTypeOK, scan, world, bounds

(* So does the return of a sale,                                            *)
LEMMA SoldKeepsTypes ==
    ASSUME MonitorTypeOK, Sold
    PROVE  MonitorTypeOK'
<1>1. PICK n \in 0..sale.size : sale # None /\ Sell(n)
    BY DEF Sold
<1>2. sale.token \in Tokens /\ sale.size \in Nat /\ -n \in Int
    BY <1>1 DEF MonitorTypeOK, Sale
<1>3. /\ position' \in [Tokens -> Positions]
      /\ held' \in [Tokens -> Int]
      /\ unbooked' \in Seq([token: Tokens, n: Int])
    <2>1. CASE n = 0
        BY <1>1, <2>1 DEF Sell, MonitorTypeOK, books
    <2>2. CASE n # 0
        BY <1>1, <1>2, <2>2, FilledKeeps DEF Sell
    <2> QED  BY <2>1, <2>2
<1>4. cooling' \in [Tokens -> 0..CooldownScans]
    BY <1>1, <1>2, SizesAssumption DEF Sell, MonitorTypeOK
<1> QED  BY <1>1, <1>3, <1>4 DEF Sell, MonitorTypeOK, world, bounds

(* an exit signal,                                                          *)
LEMMA EmitKeepsTypes ==
    ASSUME MonitorTypeOK, NEW t \in Tokens, NEW why \in Triggers, Emit(t, why)
    PROVE  MonitorTypeOK'
<1>1. position[t].qty \in Int
    BY DEF MonitorTypeOK, Positions
<1>2. Lots(Size(position[t].qty)) \in Nat
    BY <1>1, SizeIsNat, LotsAreClose
<1>3. sale' \in Sale
    BY <1>2 DEF Emit, Sale
<1>4. todo' \in [Tokens -> Listings \cup {None}]
    BY DEF Emit, MonitorTypeOK
<1> QED  BY <1>3, <1>4 DEF Emit, MonitorTypeOK, books, world, bounds

(* and with them every step of the exit monitor.                            *)
LEMMA MonitorKeepsTypes ==
    ASSUME MonitorTypeOK, MonitorNext
    PROVE  MonitorTypeOK'
<1>1. CASE Book
    BY <1>1, BookKeepsTypes
<1>2. CASE StartScan
    BY <1>2 DEF StartScan, Taken, MonitorTypeOK, books, world, bounds
<1>3. CASE Sold
    BY <1>3, SoldKeepsTypes
<1>4. CASE Toggle
    BY <1>4, SizesAssumption DEF Toggle, MonitorTypeOK, books, scan
<1>5. ASSUME NEW t \in Tokens, NEW n \in OrderSizes, NEW llm \in LLM, Order(t, n, llm)
      PROVE  MonitorTypeOK'
    <2>1. bids' \in [Tokens -> Nat]
        BY <1>5, SizesAssumption DEF Order, MonitorTypeOK
    <2>2. orders' \in 0..MaxOrders
        BY <1>5, SizesAssumption DEF Order, MonitorTypeOK
    <2>3. thesis' \in [Tokens -> BOOLEAN]
        BY <1>5, SizesAssumption DEF Order, MonitorTypeOK
    <2> QED  BY <1>5, <2>1, <2>2, <2>3 DEF Order, MonitorTypeOK, books, scan, world
<1>6. ASSUME NEW t \in Tokens, NEW n \in 1..bids[t], FillBid(t, n)
      PROVE  MonitorTypeOK'
    BY <1>6, FillBidKeepsTypes
<1>7. ASSUME NEW t \in Tokens, LapseBid(t)
      PROVE  MonitorTypeOK'
    BY <1>7 DEF LapseBid, MonitorTypeOK, books, scan, world, bounds
<1>8. ASSUME NEW t \in Tokens, Skip(t)
      PROVE  MonitorTypeOK'
    BY <1>8 DEF Skip, MonitorTypeOK, books, world, bounds
<1>9. ASSUME NEW t \in Tokens, NEW why \in Triggers, Emit(t, why)
      PROVE  MonitorTypeOK'
    BY <1>9, EmitKeepsTypes
<1>10. ASSUME NEW t \in Tokens, NEW l \in Listings, List(t, l)
       PROVE  MonitorTypeOK'
    BY <1>10 DEF List, MonitorTypeOK, books, scan, bounds
<1> QED  BY <1>1, <1>2, <1>3, <1>4, <1>5, <1>6, <1>7, <1>8, <1>9, <1>10 DEF MonitorNext

(* The row of a position is dropped at zero and holds its quantity          *)
(* otherwise.                                                               *)
LEMMA UpsertKeeps ==
    ASSUME NEW row \in Positions \cup {None}, NEW p \in Positions
    PROVE  /\ Upsert(row, p) \in Positions \cup {None}
           /\ p.qty = 0 => Upsert(row, p) = None
           /\ p.qty # 0 => Upsert(row, p) \in Positions /\ Upsert(row, p).qty = p.qty
<1>1. CASE p.qty = 0
    BY <1>1 DEF Upsert
<1>2. CASE p.qty # 0 /\ (row = None \/ row.horizon = None)
    BY <1>2 DEF Upsert
<1>3. CASE p.qty # 0 /\ row # None /\ row.horizon # None
    <2>1. Upsert(row, p) = [p EXCEPT !.horizon = row.horizon]
        BY <1>3 DEF Upsert
    <2>2. row \in Positions
        BY <1>3
    <2> QED  BY <1>3, <2>1, <2>2 DEF Positions
<1> QED  BY <1>1, <1>2, <1>3

(* What a restart reads back from the rows has its types.                   *)
LEMMA RestartKeepsTypes ==
    ASSUME TypeOK, NEW S \in SUBSET Tokens, Restart(S)
    PROVE  TypeOK'
<1>1. NoPosition \in Positions
    BY DEF NoPosition, Positions
<1>2. position' \in [Tokens -> Positions]
    BY <1>1 DEF Restart, Restored, TypeOK
<1>3. cooling' \in [Tokens -> 0..CooldownScans]
    BY SizesAssumption DEF Restart
<1>4. restarts' \in 0..MaxRestarts
    BY RestartsAssumption DEF Restart, TypeOK
<1>5. thesis' \in [Tokens -> BOOLEAN]
    BY DEF Restart
<1>6. MonitorTypeOK'
    <2>1. /\ mode' \in Modes /\ held' \in [Tokens -> Int]
          /\ listing' \in [Tokens -> Listings]
          /\ orders' \in 0..MaxOrders /\ toggles' \in 0..MaxToggles
        BY DEF Restart, TypeOK, MonitorTypeOK, bounds
    <2>2. /\ bids' \in [Tokens -> Nat] /\ unbooked' \in Seq([token: Tokens, n: Int])
          /\ todo' \in [Tokens -> Listings \cup {None}] /\ sale' \in Sale \cup {None}
        BY DEF Restart
    <2>3. engaged' \in BOOLEAN
        BY DEF Restart
    <2> QED  BY <1>2, <1>3, <1>5, <2>1, <2>2, <2>3 DEF MonitorTypeOK
<1>7. track' \in [Tokens -> Tracks]
    BY DEF Restart, Tracks
<1> QED  BY <1>4, <1>6, <1>7 DEF Restart, TypeOK

(* The modes of the agent, its books and its table keep their types: in     *)
(* particular a row restores to a position, and rounding yields a size.     *)
THEOREM TypeCorrect == Spec => []TypeOK
<1>1. Init => TypeOK
    <2> SUFFICES ASSUME Init PROVE TypeOK
        OBVIOUS
    <2>1. position \in [Tokens -> Positions]
        BY DEF Init, MonitorInit, NoPosition, Positions
    <2>2. /\ bids \in [Tokens -> Nat] /\ held \in [Tokens -> Int]
          /\ unbooked \in Seq([token: Tokens, n: Int])
          /\ listing \in [Tokens -> Listings] /\ thesis \in [Tokens -> BOOLEAN]
        BY DEF Init, MonitorInit, Listings
    <2>3. /\ mode \in Modes /\ todo \in [Tokens -> Listings \cup {None}]
          /\ sale \in Sale \cup {None} /\ cooling \in [Tokens -> 0..CooldownScans]
          /\ orders \in 0..MaxOrders /\ toggles \in 0..MaxToggles
        BY SizesAssumption DEF Init, MonitorInit
    <2>4. /\ rows \in [Tokens -> Positions \cup {None}] /\ toWrite \subseteq Tokens
          /\ restarts \in 0..MaxRestarts /\ track \in [Tokens -> Tracks]
        BY RestartsAssumption DEF Init, Tracks
    <2>5. engaged \in BOOLEAN
        BY DEF Init, MonitorInit
    <2> QED  BY <2>1, <2>2, <2>3, <2>4, <2>5 DEF TypeOK, MonitorTypeOK
<1>2. TypeOK /\ [Next]_vars => TypeOK'
    <2> SUFFICES ASSUME TypeOK, [Next]_vars
                 PROVE  TypeOK'
        OBVIOUS
    <2>1. CASE Agent(MonitorNext)
        <3>1. MonitorTypeOK'
            BY <2>1, MonitorKeepsTypes DEF Agent, TypeOK
        <3>2. track' \in [Tokens -> Tracks]
            BY <2>1 DEF Agent, TypeOK, Tracks
        <3> QED  BY <2>1, <3>1, <3>2 DEF Agent, TypeOK
    <2>2. CASE StartPass
        <3>1. track' \in [Tokens -> Tracks]
            BY <2>2 DEF StartPass, TypeOK, Tracks
        <3>2. toWrite' \subseteq Tokens
            BY <2>2 DEF StartPass
        <3> QED  BY <2>2, <3>1, <3>2 DEF StartPass, TypeOK, MonitorTypeOK, monitorVars,
                    books, scan, world, bounds
    <2>3. ASSUME NEW t \in Tokens, Write(t)
          PROVE  TypeOK'
        <3>1. Upsert(rows[t], position[t]) \in Positions \cup {None}
            BY UpsertKeeps DEF TypeOK, MonitorTypeOK
        <3>2. rows' \in [Tokens -> Positions \cup {None}]
            BY <2>3, <3>1 DEF Write, TypeOK
        <3>3. track' \in [Tokens -> Tracks]
            BY <2>3 DEF Write, TypeOK, Tracks
        <3>4. toWrite' \subseteq Tokens
            BY <2>3 DEF Write, TypeOK
        <3> QED  BY <2>3, <3>2, <3>3, <3>4 DEF Write, TypeOK, MonitorTypeOK, monitorVars,
                    books, scan, world, bounds
    <2>4. ASSUME NEW t \in Tokens, FailWrite(t)
          PROVE  TypeOK'
        BY <2>4 DEF FailWrite, TypeOK, MonitorTypeOK, monitorVars, books, scan, world, bounds
    <2>5. ASSUME NEW S \in SUBSET Tokens, Restart(S)
          PROVE  TypeOK'
        BY <2>5, RestartKeepsTypes
    <2>6. CASE UNCHANGED vars
        BY <2>6 DEF vars, dbVars, TypeOK, MonitorTypeOK, monitorVars, books, scan, world, bounds
    <2> QED  BY <2>1, <2>2, <2>3, <2>4, <2>5, <2>6 DEF Next
<1> QED  BY <1>1, <1>2, PTL DEF Spec

-----------------------------------------------------------------------------
(* Paper positions are not oversold.                                        *)

(* A paper exit in flight leaves at least -1 of its position, which only    *)
(* purchases change before it is filled; rows are copies of positions.      *)
SaleIsCovered ==
    mode = "paper" =>
       /\ unbooked = <<>>
       /\ \A t \in Tokens : /\ position[t].qty >= -1
                            /\ rows[t] # None => rows[t].qty >= -1
       /\ sale # None => position[sale.token].qty - sale.size >= -1

(* A step of the agent that leaves the positions and the exit alone.        *)
LEMMA QuietKeepsCover ==
    ASSUME SaleIsCovered, UNCHANGED <<mode, unbooked, position, rows>>,
           sale' = sale \/ sale' = None
    PROVE  SaleIsCovered'
BY DEF SaleIsCovered

(* A bid that fills during a sale adds to the position, so the sale stays   *)
(* covered.                                                                 *)
LEMMA FillBidKeepsCover ==
    ASSUME TypeOK, SaleIsCovered, NEW t \in Tokens, NEW n \in 1..bids[t], FillBid(t, n),
           UNCHANGED rows
    PROVE  SaleIsCovered'
<1> SUFFICES ASSUME mode = "paper"
             PROVE  SaleIsCovered'
    BY DEF SaleIsCovered, FillBid, world
<1>1. bids[t] \in Nat /\ n \in Int /\ n > 0 /\ MonitorTypeOK
    BY DEF TypeOK, MonitorTypeOK
<1>2. /\ position'[t].qty = position[t].qty + n
      /\ \A u \in Tokens \ {t} : position'[u] = position[u]
      /\ unbooked' = unbooked
    BY <1>1, FilledKeeps DEF FillBid
<1>3. \A u \in Tokens : /\ position[u].qty \in Int
                        /\ position'[u].qty >= position[u].qty
    <2> TAKE u \in Tokens
    <2>1. position[u].qty \in Int
        BY <1>1 DEF MonitorTypeOK, Positions
    <2>2. CASE u = t
        BY <1>1, <1>2, <2>1, <2>2
    <2>3. CASE u # t
        BY <1>2, <2>1, <2>3
    <2> QED  BY <2>1, <2>2, <2>3
<1>4. sale' = sale /\ mode' = mode
    BY DEF FillBid, scan, world
<1>5. sale # None => position'[sale.token].qty - sale.size >= -1
    <2> SUFFICES ASSUME sale # None
                 PROVE  position'[sale.token].qty - sale.size >= -1
        OBVIOUS
    <2>1. sale.token \in Tokens /\ sale.size \in Nat
        BY <1>1 DEF MonitorTypeOK, Sale
    <2>2. position'[sale.token].qty \in Int
        BY <1>1, <2>1, <1>2, <1>3
    <2> QED  BY <1>3, <2>1, <2>2 DEF SaleIsCovered
<1>6. ASSUME NEW u \in Tokens
      PROVE  position'[u].qty >= -1
    BY <1>1, <1>2, <1>3 DEF SaleIsCovered
<1> QED  BY <1>2, <1>4, <1>5, <1>6 DEF SaleIsCovered

(* A sale that returns has taken no more than its size, and is over.        *)
LEMMA SoldKeepsCover ==
    ASSUME TypeOK, SaleIsCovered, Sold, UNCHANGED rows
    PROVE  SaleIsCovered'
<1> SUFFICES ASSUME mode = "paper"
             PROVE  SaleIsCovered'
    BY DEF SaleIsCovered, Sold, Sell, world
<1>1. PICK n \in 0..sale.size : sale # None /\ Sell(n)
    BY DEF Sold
<1>2. sale.token \in Tokens /\ sale.size \in Nat /\ MonitorTypeOK
    BY <1>1 DEF TypeOK, MonitorTypeOK, Sale
<1>3. /\ position[sale.token].qty \in Int
      /\ position[sale.token].qty - n >= -1
    BY <1>1, <1>2 DEF SaleIsCovered, MonitorTypeOK, Positions
<1>4. CASE n = 0
    BY <1>1, <1>4 DEF Sell, books, world, SaleIsCovered
<1>5. CASE n # 0
    <2>1. Filled(sale.token, -n) /\ -n \in Int
        BY <1>1, <1>2, <1>5 DEF Sell
    <2>2. /\ position'[sale.token].qty = position[sale.token].qty + (-n)
          /\ \A u \in Tokens \ {sale.token} : position'[u] = position[u]
          /\ unbooked' = unbooked
        BY <1>2, <2>1, FilledKeeps
    <2>3. position'[sale.token].qty >= -1
        BY <1>2, <1>3, <2>2
    <2>4. sale' = None /\ mode' = mode
        BY <1>1 DEF Sell, world
    <2> QED  BY <2>2, <2>3, <2>4 DEF SaleIsCovered
<1> QED  BY <1>4, <1>5

(* An exit is for what is held, rounded: half a lot too many at most.       *)
LEMMA EmitKeepsCover ==
    ASSUME TypeOK, SaleIsCovered, NEW t \in Tokens, NEW why \in Triggers, Emit(t, why),
           UNCHANGED rows
    PROVE  SaleIsCovered'
<1> SUFFICES ASSUME mode = "paper"
             PROVE  SaleIsCovered'
    BY DEF SaleIsCovered, Emit, world
<1> DEFINE q == position[t].qty
           n == Lots(Size(q))
<1>1. q \in Int /\ q >= -1
    BY DEF TypeOK, MonitorTypeOK, Positions, SaleIsCovered
<1>2. n > 0 /\ sale'.token = t /\ sale'.size = n
    BY DEF Emit
<1>3. CASE q = -1
    <2>1. Size(q) = 1
        BY <1>1, <1>3, SizeIsNat
    <2> QED  BY <1>2, <2>1, LotsAreClose
<1>4. CASE q >= 0
    <2>1. Size(q) = q /\ q \in Nat
        BY <1>1, <1>4, SizeIsNat
    <2>2. n \in Nat /\ n <= q + 1
        BY <2>1, LotsAreClose
    <2>3. q - n >= -1
        BY <1>1, <2>2
    <2>4. UNCHANGED <<position, unbooked, mode>>
        BY DEF Emit, books, world
    <2> QED  BY <1>2, <2>3, <2>4 DEF SaleIsCovered
<1> QED  BY <1>1, <1>3, <1>4

(* So no step of the exit monitor uncovers a sale.                          *)
LEMMA AgentKeepsCover ==
    ASSUME TypeOK, SaleIsCovered, MonitorNext, UNCHANGED rows
    PROVE  SaleIsCovered'
<1>1. CASE Book
    BY <1>1 DEF Book, SaleIsCovered, world
<1>2. CASE StartScan
    BY <1>2, QuietKeepsCover DEF StartScan, books, world
<1>3. CASE Sold
    BY <1>3, SoldKeepsCover
<1>4. CASE Toggle
    BY <1>4, QuietKeepsCover DEF Toggle, books, scan
<1>5. ASSUME NEW t \in Tokens, NEW n \in OrderSizes, NEW llm \in LLM, Order(t, n, llm)
      PROVE  SaleIsCovered'
    BY <1>5, QuietKeepsCover DEF Order, books, scan, world
<1>6. ASSUME NEW t \in Tokens, NEW n \in 1..bids[t], FillBid(t, n)
      PROVE  SaleIsCovered'
    BY <1>6, FillBidKeepsCover
<1>7. ASSUME NEW t \in Tokens, LapseBid(t) \/ Skip(t) \/ \E l \in Listings : List(t, l)
      PROVE  SaleIsCovered'
    BY <1>7, QuietKeepsCover DEF LapseBid, Skip, List, books, scan, world
<1>8. ASSUME NEW t \in Tokens, NEW why \in Triggers, Emit(t, why)
      PROVE  SaleIsCovered'
    BY <1>8, EmitKeepsCover
<1> QED  BY <1>1, <1>2, <1>3, <1>4, <1>5, <1>6, <1>7, <1>8 DEF MonitorNext

(* However the rows are written and restored in between, scans sell a paper *)
(* position down to -1 half lot at the lowest.                              *)
THEOREM PaperIsNeverShort == Spec => []PaperNeverShort
<1>1. Init => SaleIsCovered
    BY DEF Init, MonitorInit, NoPosition, SaleIsCovered
<1>2. TypeOK /\ SaleIsCovered /\ [Next]_vars => SaleIsCovered'
    <2> SUFFICES ASSUME TypeOK, SaleIsCovered, [Next]_vars
                 PROVE  SaleIsCovered'
        OBVIOUS
    <2>1. CASE Agent(MonitorNext)
        BY <2>1, AgentKeepsCover DEF Agent
    <2>2. ASSUME NEW t \in Tokens, Write(t)
          PROVE  SaleIsCovered'
        <3>1. /\ position[t].qty # 0 =>
                    Upsert(rows[t], position[t]).qty = position[t].qty
              /\ position[t].qty = 0 => Upsert(rows[t], position[t]) = None
            BY UpsertKeeps DEF TypeOK, MonitorTypeOK
        <3>2. rows' = [rows EXCEPT ![t] = Upsert(rows[t], position[t])]
            BY <2>2 DEF Write
        <3>3. UNCHANGED <<mode, unbooked, position, sale>>
            BY <2>2 DEF Write, monitorVars, books, scan, world
        <3> QED  BY <3>1, <3>2, <3>3 DEF SaleIsCovered, TypeOK
    <2>3. CASE StartPass \/ UNCHANGED vars \/ \E t \in Tokens : FailWrite(t)
        BY <2>3, QuietKeepsCover
           DEF StartPass, FailWrite, vars, dbVars, monitorVars, books, scan, world
    <2>4. ASSUME NEW S \in SUBSET Tokens, Restart(S)
          PROVE  SaleIsCovered'
        <3>1. UNCHANGED <<rows, mode>> /\ unbooked' = <<>> /\ sale' = None
            BY <2>4 DEF Restart
        <3>2. mode = "paper" => \A t \in Tokens : position'[t].qty >= -1
            BY <2>4 DEF Restart, Restored, NoPosition, SaleIsCovered
        <3> QED  BY <3>1, <3>2 DEF SaleIsCovered
    <2> QED  BY <2>1, <2>2, <2>3, <2>4 DEF Next
<1>3. SaleIsCovered => PaperNeverShort
    BY DEF SaleIsCovered, PaperNeverShort
<1> QED  BY <1>1, <1>2, <1>3, TypeCorrect, PTL DEF Spec

-----------------------------------------------------------------------------
(* The books of a live process show no short position.                      *)

Reports == [token: Tokens, n: Int]

(* What the report r adds to the holding of t.                              *)
Part(r, t) == IF r.token = t THEN r.n ELSE 0

(* Booking the reports of q one by one, t goes from a to b and is never     *)
(* negative on the way.                                                     *)
Runs(q, t, a, b) ==
    \E bal \in [0 .. Len(q) -> Nat] :
       /\ bal[0] = a /\ bal[Len(q)] = b
       /\ \A i \in 1 .. Len(q) : bal[i] = bal[i - 1] + Part(q[i], t)

(* The reports still to come lead from what the books show to what the      *)
(* venue holds without a short position in between: it is not enough that   *)
(* both ends are not short, for the next report is booked alone.            *)
ReportsAreCovered ==
    mode = "live" /\ restarts = 0 =>
       \A t \in Tokens : Runs(unbooked, t, position[t].qty, held[t])

(* A report adds a whole number to a token, 0 if it is another token's.     *)
LEMMA PartIsInt ==
    ASSUME NEW r \in Reports, NEW t \in Tokens
    PROVE  Part(r, t) \in Int
BY DEF Part, Reports

(* A run of reports that never goes below zero starts and ends there or     *)
(* above.                                                                   *)
LEMMA RunStays ==
    ASSUME NEW q \in Seq(Reports), NEW t \in Tokens, NEW a, NEW b, Runs(q, t, a, b)
    PROVE  a \in Nat /\ b \in Nat
<1>1. Len(q) \in Nat
    OBVIOUS
<1>2. 0 \in 0 .. Len(q) /\ Len(q) \in 0 .. Len(q)
    BY <1>1
<1> QED  BY <1>2 DEF Runs

(* A report that leaves something to hold goes to the end.                  *)
LEMMA RunAppended ==
    ASSUME NEW q \in Seq(Reports), NEW r \in Reports, NEW t \in Tokens, NEW a, NEW b,
           Runs(q, t, a, b), b + Part(r, t) \in Nat
    PROVE  Runs(Append(q, r), t, a, b + Part(r, t))
<1> DEFINE n == Len(q)
           s == Append(q, r)
           d == b + Part(r, t)
<1>1. n \in Nat /\ Len(s) = n + 1 /\ s[n + 1] = r /\ \A i \in 1 .. n : s[i] = q[i]
    OBVIOUS
<1>2. PICK bal \in [0 .. n -> Nat] :
         /\ bal[0] = a /\ bal[n] = b
         /\ \A i \in 1 .. n : bal[i] = bal[i - 1] + Part(q[i], t)
    BY DEF Runs
<1> DEFINE new == [i \in 0 .. n + 1 |-> IF i = n + 1 THEN d ELSE bal[i]]
<1>3. new \in [0 .. n + 1 -> Nat]
    <2> HIDE DEF d, n
    <2>1. \A i \in 0 .. n + 1 : i # n + 1 => i \in 0 .. n
        BY <1>1
    <2>2. d \in Nat
        BY DEF d
    <2> QED  BY <1>2, <2>1, <2>2
<1>4. /\ \A i \in 0 .. n : new[i] = bal[i]
      /\ new[n + 1] = d
    <2> HIDE DEF d, n
    <2> QED  BY <1>1
<1>5. 0 \in 0 .. n /\ n \in 0 .. n
    BY <1>1
<1>6. \A i \in 1 .. n + 1 : new[i] = new[i - 1] + Part(s[i], t)
    <2> SUFFICES ASSUME NEW i \in 1 .. n + 1
                 PROVE  new[i] = new[i - 1] + Part(s[i], t)
        OBVIOUS
    <2> HIDE DEF new, s, n
    <2>1. CASE i = n + 1
        <3>1. i - 1 = n
            BY <1>1, <2>1
        <3>2. new[i - 1] = b
            BY <1>2, <1>4, <1>5, <3>1
        <3> QED  BY <1>1, <1>4, <2>1, <3>2
    <2>2. CASE i # n + 1
        <3>1. i \in 1 .. n /\ i \in 0 .. n /\ i - 1 \in 0 .. n
            BY <1>1, <2>2
        <3> QED  BY <1>1, <1>2, <1>4, <3>1
    <2> QED  BY <2>1, <2>2
<1> HIDE DEF new, d, s, n
<1>7. new[0] = a /\ new[n + 1] = d
    BY <1>2, <1>4, <1>5
<1> QED  BY <1>1, <1>3, <1>6, <1>7 DEF Runs, d, s

(* The report at the head is booked.                                        *)
LEMMA RunBooked ==
    ASSUME NEW q \in Seq(Reports), q # <<>>, NEW t \in Tokens, NEW a, NEW b,
           Runs(q, t, a, b)
    PROVE  Runs(Tail(q), t, a + Part(Head(q), t), b)
<1> DEFINE n == Len(q)
           s == Tail(q)
<1>1. n \in Nat /\ n > 0 /\ Len(s) = n - 1 /\ Head(q) = q[1]
      /\ \A i \in 1 .. n - 1 : s[i] = q[i + 1]
    OBVIOUS
<1>2. PICK bal \in [0 .. n -> Nat] :
         /\ bal[0] = a /\ bal[n] = b
         /\ \A i \in 1 .. n : bal[i] = bal[i - 1] + Part(q[i], t)
    BY DEF Runs
<1> HIDE DEF n, s
<1> DEFINE new == [i \in 0 .. n - 1 |-> bal[i + 1]]
<1>3. new \in [0 .. n - 1 -> Nat]
    <2>1. \A i \in 0 .. n - 1 : i + 1 \in 0 .. n
        BY <1>1
    <2> QED  BY <1>2, <2>1
<1>4. \A i \in 0 .. n - 1 : new[i] = bal[i + 1]
    OBVIOUS
<1> HIDE DEF new
<1>5. 0 \in 0 .. n - 1 /\ n - 1 \in 0 .. n - 1 /\ 1 \in 1 .. n /\ (n - 1) + 1 = n
    BY <1>1
<1>6. new[0] = a + Part(q[1], t) /\ new[n - 1] = b
    BY <1>2, <1>4, <1>5
<1>7. \A i \in 1 .. n - 1 : new[i] = new[i - 1] + Part(s[i], t)
    <2> TAKE i \in 1 .. n - 1
    <2>1. i \in 0 .. n - 1 /\ i - 1 \in 0 .. n - 1 /\ i + 1 \in 1 .. n
          /\ (i - 1) + 1 = i /\ (i + 1) - 1 = i
        BY <1>1
    <2>2. bal[i + 1] = bal[i] + Part(q[i + 1], t)
        BY <1>2, <2>1
    <2> QED  BY <1>1, <1>4, <2>1, <2>2
<1> QED  BY <1>1, <1>3, <1>6, <1>7 DEF Runs, s

(* The venue fills d for u, and the account still holds enough.             *)
LEMMA FilledKeepsRuns ==
    ASSUME TypeOK, ReportsAreCovered, mode = "live", restarts = 0, UNCHANGED mode,
           NEW u \in Tokens, NEW d \in Int, held[u] + d \in Nat, Filled(u, d)
    PROVE  ReportsAreCovered'
<1> DEFINE r == [token |-> u, n |-> d]
<1>1. /\ held' = [held EXCEPT ![u] = @ + d]
      /\ unbooked' = Append(unbooked, r)
      /\ position' = position
    BY DEF Filled
<1>2. r \in Reports /\ unbooked \in Seq(Reports) /\ held \in [Tokens -> Int]
    BY DEF Reports, TypeOK, MonitorTypeOK
<1>3. r.token = u /\ r.n = d
    OBVIOUS
<1> HIDE DEF r
<1>4. ASSUME NEW t \in Tokens
      PROVE  Runs(unbooked', t, position'[t].qty, held'[t])
    <2>1. Runs(unbooked, t, position[t].qty, held[t])
        BY DEF ReportsAreCovered
    <2>2. held[t] \in Nat
        BY <1>2, <2>1, RunStays
    <2>3. held'[t] = held[t] + Part(r, t)
        BY <1>1, <1>2, <1>3 DEF Part
    <2>4. held[t] + Part(r, t) \in Nat
        BY <1>3, <2>2 DEF Part
    <2> QED  BY <1>1, <1>2, <2>1, <2>3, <2>4, RunAppended
<1> QED  BY <1>4 DEF ReportsAreCovered

(* Booking the first report moves it from the queue into the position, and  *)
(* the rest of the run is as it was.                                        *)
LEMMA BookKeepsRuns ==
    ASSUME TypeOK, ReportsAreCovered, mode = "live", restarts = 0, UNCHANGED mode, Book
    PROVE  ReportsAreCovered'
<1> DEFINE f == Head(unbooked)
<1>1. unbooked \in Seq(Reports) /\ unbooked # <<>>
    BY DEF Book, TypeOK, MonitorTypeOK, Reports
<1>2. f \in Reports
    BY <1>1
<1> HIDE DEF f
<1>3. f.token \in Tokens /\ f.n \in Int
    BY <1>2 DEF Reports
<1>4. /\ position' = [position EXCEPT ![f.token] = ApplyFill(@, f.n)]
      /\ unbooked' = Tail(unbooked)
      /\ held' = held
    BY DEF Book, f
<1>5. ASSUME NEW t \in Tokens
      PROVE  position'[t].qty = position[t].qty + Part(f, t)
    <2>1. position \in [Tokens -> Positions] /\ position[t].qty \in Int
        BY DEF TypeOK, MonitorTypeOK, Positions
    <2>2. CASE f.token = t
        BY <1>3, <1>4, <2>1, <2>2, FillKeepsPosition DEF Part
    <2>3. CASE f.token # t
        BY <1>3, <1>4, <2>1, <2>3 DEF Part
    <2> QED  BY <2>2, <2>3
<1>6. ASSUME NEW t \in Tokens
      PROVE  Runs(unbooked', t, position'[t].qty, held'[t])
    <2>1. Runs(unbooked, t, position[t].qty, held[t])
        BY DEF ReportsAreCovered
    <2>2. Runs(Tail(unbooked), t, position[t].qty + Part(f, t), held[t])
        BY <1>1, <2>1, RunBooked DEF f
    <2> QED  BY <1>4, <1>5, <2>2
<1> QED  BY <1>6 DEF ReportsAreCovered

(* So every step of the exit monitor keeps the runs, whatever it fills,     *)
(* sells or books.                                                          *)
LEMMA AgentKeepsRuns ==
    ASSUME TypeOK, ReportsAreCovered, MonitorNext, UNCHANGED restarts
    PROVE  ReportsAreCovered'
<1>1. mode' = mode
    BY DEF MonitorNext, Book, StartScan, Sold, Sell, Toggle, Order, FillBid, LapseBid, Skip,
           Emit, List, world
<1> SUFFICES ASSUME mode = "live", restarts = 0
             PROVE  ReportsAreCovered'
    BY <1>1 DEF ReportsAreCovered
<1>2. \A t \in Tokens : held[t] \in Nat
    BY RunStays DEF ReportsAreCovered, TypeOK, MonitorTypeOK, Reports
<1>3. CASE Book
    BY <1>1, <1>3, BookKeepsRuns
<1>4. ASSUME NEW t \in Tokens, NEW n \in 1..bids[t], FillBid(t, n)
      PROVE  ReportsAreCovered'
    <2>1. n \in Int /\ held[t] + n \in Nat /\ Filled(t, n)
        BY <1>2, <1>4 DEF FillBid, TypeOK, MonitorTypeOK
    <2> QED  BY <1>1, <2>1, FilledKeepsRuns
<1>5. CASE Sold
    <2>1. PICK n \in 0..sale.size : sale # None /\ Sell(n)
        BY <1>5 DEF Sold
    <2>2. sale.token \in Tokens /\ sale.size \in Nat
        BY <2>1 DEF TypeOK, MonitorTypeOK, Sale
    <2>3. CASE n = 0
        BY <2>1, <2>3 DEF Sell, books, world, ReportsAreCovered
    <2>4. CASE n # 0
        <3>1. sale.size <= held[sale.token] /\ Filled(sale.token, -n)
            BY <2>1, <2>2, <2>4 DEF Sell
        <3>2. -n \in Int /\ held[sale.token] + (-n) \in Nat
            BY <1>2, <2>2, <3>1
        <3> QED  BY <1>1, <2>2, <3>1, <3>2, FilledKeepsRuns
    <2> QED  BY <2>3, <2>4
<1>6. CASE UNCHANGED books
    BY <1>1, <1>6 DEF books, ReportsAreCovered
<1> QED
    BY <1>3, <1>4, <1>5, <1>6
       DEF MonitorNext, StartScan, Toggle, Order, LapseBid, Skip, Emit, List

(* However scans, purchases and reports interleave, and however long the    *)
(* reports take, the books of a live process that has not been restarted    *)
(* never show a short position.                                             *)
THEOREM LiveIsNeverShort == Spec => []LiveNeverShort
<1>1. Init => ReportsAreCovered
    <2> SUFFICES ASSUME Init, NEW t \in Tokens
                 PROVE  Runs(unbooked, t, position[t].qty, held[t])
        BY DEF ReportsAreCovered
    <2>1. unbooked = <<>> /\ position[t].qty = 0 /\ held[t] = 0
        BY DEF Init, MonitorInit, NoPosition
    <2> DEFINE bal == [i \in 0 .. 0 |-> 0]
    <2>2. bal \in [0 .. 0 -> Nat] /\ bal[0] = 0 /\ Len(<<>>) = 0
        OBVIOUS
    <2> HIDE DEF bal
    <2>3. \A i \in 1 .. 0 : bal[i] = bal[i - 1] + Part(<<>>[i], t)
        OBVIOUS
    <2> QED  BY <2>1, <2>2, <2>3 DEF Runs
<1>2. TypeOK /\ ReportsAreCovered /\ [Next]_vars => ReportsAreCovered'
    <2> SUFFICES ASSUME TypeOK, ReportsAreCovered, [Next]_vars
                 PROVE  ReportsAreCovered'
        OBVIOUS
    <2>1. CASE Agent(MonitorNext)
        BY <2>1, AgentKeepsRuns DEF Agent
    <2>2. CASE StartPass \/ UNCHANGED vars \/ \E t \in Tokens : Write(t) \/ FailWrite(t)
        BY <2>2 DEF StartPass, Write, FailWrite, vars, dbVars, monitorVars, books, world,
                    ReportsAreCovered
    <2>3. ASSUME NEW S \in SUBSET Tokens, Restart(S)
          PROVE  ReportsAreCovered'
        BY <2>3 DEF Restart, TypeOK, ReportsAreCovered
    <2> QED  BY <2>1, <2>2, <2>3 DEF Next
<1>3. TypeOK /\ ReportsAreCovered => LiveNeverShort
    <2> SUFFICES ASSUME TypeOK, ReportsAreCovered, mode = "live", restarts = 0,
                        NEW t \in Tokens
                 PROVE  position[t].qty >= 0
        BY DEF LiveNeverShort
    <2>1. unbooked \in Seq(Reports) /\ Runs(unbooked, t, position[t].qty, held[t])
        BY DEF ReportsAreCovered, TypeOK, MonitorTypeOK, Reports
    <2> QED  BY <2>1, RunStays
<1> QED  BY <1>1, <1>2, <1>3, TypeCorrect, PTL DEF Spec

-----------------------------------------------------------------------------
(* What was written comes back.                                             *)

(* No row is a closed position, what counts as kept has one, and the pass   *)
(* does not write it unless it is open.                                     *)
KeptHasRow ==
    \A t \in Tokens : /\ rows[t] # None => rows[t].qty # 0
                      /\ track[t] = "kept" => rows[t] # None
                      /\ track[t] = "kept" /\ t \in toWrite => Open(t)

(* No row holds a closed position, a token marked as kept has its row, and  *)
(* the running pass leaves the row of one that is not open alone.           *)
LEMMA KeptHasRowHolds == Spec => []KeptHasRow
<1>1. Init => KeptHasRow
    BY DEF Init, KeptHasRow
<1>2. TypeOK /\ KeptHasRow /\ [Next]_vars => KeptHasRow'
    <2> SUFFICES ASSUME TypeOK, KeptHasRow, [Next]_vars
                 PROVE  KeptHasRow'
        OBVIOUS
    <2>1. CASE Agent(MonitorNext)
        <3>1. rows' = rows /\ toWrite' = toWrite
            BY <2>1 DEF Agent
        <3>2. ASSUME NEW t \in Tokens, track'[t] = "kept"
              PROVE  track[t] = "kept" /\ (Open(t) <=> Open(t)')
            BY <2>1, <3>2 DEF Agent, Open
        <3> QED  BY <3>1, <3>2 DEF KeptHasRow
    <2>2. CASE StartPass
        <3>1. UNCHANGED <<rows, position>> /\ toWrite' = {t \in Tokens : Open(t)}
            BY <2>2 DEF StartPass, monitorVars, books
        <3>2. ASSUME NEW t \in Tokens, track'[t] = "kept"
              PROVE  track[t] = "kept"
            BY <2>2, <3>2 DEF StartPass
        <3> QED  BY <3>1, <3>2 DEF KeptHasRow, Open
    <2>3. ASSUME NEW t \in Tokens, Write(t)
          PROVE  KeptHasRow'
        <3> DEFINE row == Upsert(rows[t], position[t])
        <3>1. /\ position[t].qty # 0 => row \in Positions /\ row.qty = position[t].qty
              /\ position[t].qty = 0 => row = None
            BY UpsertKeeps DEF TypeOK, MonitorTypeOK
        <3> HIDE DEF row
        <3>2. /\ t \in toWrite
              /\ rows' = [rows EXCEPT ![t] = row]
              /\ toWrite' = toWrite \ {t}
              /\ track' = IF Open(t) THEN [track EXCEPT ![t] = "kept"] ELSE track
              /\ position' = position
            BY <2>3 DEF Write, row, monitorVars, books
        <3> SUFFICES ASSUME NEW u \in Tokens
                     PROVE  /\ rows'[u] # None => rows'[u].qty # 0
                            /\ track'[u] = "kept" => rows'[u] # None
                            /\ track'[u] = "kept" /\ u \in toWrite' => Open(u)'
            BY DEF KeptHasRow
        <3>3. CASE u = t
            <4>1. rows'[t] = row /\ t \notin toWrite'
                BY <3>2 DEF TypeOK
            <4>2. Open(t) => row # None /\ row.qty # 0
                BY <3>1, RowAssumption DEF Open
            <4>3. ~Open(t) => row = None /\ track[t] # "kept" /\ track' = track
                BY <3>1, <3>2 DEF Open, KeptHasRow
            <4> QED  BY <3>3, <4>1, <4>2, <4>3
        <3>4. CASE u # t
            BY <3>2, <3>4 DEF KeptHasRow, Open, TypeOK
        <3> QED  BY <3>3, <3>4
    <2>4. ASSUME NEW t \in Tokens, FailWrite(t)
          PROVE  KeptHasRow'
        BY <2>4 DEF FailWrite, monitorVars, books, KeptHasRow, Open
    <2>5. ASSUME NEW S \in SUBSET Tokens, Restart(S)
          PROVE  KeptHasRow'
        <3>1. rows' = rows /\ toWrite' = {}
            BY <2>5 DEF Restart
        <3>2. \A t \in Tokens : track'[t] = "kept" => rows[t] # None
            BY <2>5 DEF Restart
        <3> QED  BY <3>1, <3>2 DEF KeptHasRow
    <2>6. CASE UNCHANGED vars
        BY <2>6 DEF vars, dbVars, monitorVars, books, KeptHasRow, Open
    <2> QED  BY <2>1, <2>2, <2>3, <2>4, <2>5, <2>6 DEF Next
<1> QED  BY <1>1, <1>2, TypeCorrect, PTL DEF Spec

(* A position that was written and has been open since is open after the    *)
(* next restart that can read its row, whatever writes failed or were       *)
(* overtaken in between, and however many restarts could not read it.       *)
THEOREM WrittenPositionsSurvive == Spec => PositionsSurvive
<1>1. KeptHasRow =>
        [\A S \in SUBSET Tokens :
            Restart(S) => \A t \in S : track[t] = "kept" => position'[t].qty # 0]_vars
    <2> SUFFICES ASSUME KeptHasRow, NEW S \in SUBSET Tokens, Restart(S),
                        NEW t \in S, track[t] = "kept"
                 PROVE  position'[t].qty # 0
        OBVIOUS
    <2>1. position'[t] = Restored(rows[t])
        BY DEF Restart
    <2> QED  BY <2>1 DEF KeptHasRow, Restored
<1> QED  BY <1>1, KeptHasRowHolds, PTL DEF PositionsSurvive
=============================================================================
