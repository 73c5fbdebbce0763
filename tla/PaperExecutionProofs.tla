------------------------ MODULE PaperExecutionProofs ------------------------
(***************************************************************************)
(* Proofs about PaperExecution, for any set of orders, any size and any    *)
(* books: its types, the agreement of _resting with the orders, the        *)
(* unwinding of a pair, and the refinement of the executor's contract.     *)
(***************************************************************************)
EXTENDS PaperExecution, TLAPS

(* What each status says of the filled size.  Without it neither the bound  *)
(* on what is left of a resting order nor a step of the contract follows.   *)
FilledMatches ==
    \A o \in Orders :
        /\ status[o] \in {"NEW", "LIVE", "REJECTED"} => filled[o] = 0
        /\ status[o] = "PARTIAL" => filled[o] \in 1..(Size - 1)
        /\ status[o] = "FILLED" => filled[o] = Size

IInv == TypeOK /\ RestingIsOpen /\ FilledMatches

-----------------------------------------------------------------------------
(* A walk for n shares finds at most n.                                     *)
LEMMA WalkIsBounded ==
    ASSUME NEW book \in Books, NEW n \in 0..Size
    PROVE  WalkFilled(book, n) \in 0..n
<1>1. /\ Levels \in Nat \ {0} /\ Size \in Nat /\ MaxDepth \in Nat
      /\ book \in [0..Levels -> 0..MaxDepth]
      /\ \A l, m \in 0..Levels : l <= m => book[l] <= book[m]
    BY PaperAssumption DEF Books
<1>2. WalkFilled(book, n) \in 0..n
    BY <1>1 DEF WalkFilled, Minimum
<1> QED  BY <1>2

(* An order whose price crosses the book finds something on it.             *)
LEMMA CrossingFinds ==
    ASSUME NEW o \in Orders, NEW book \in Books, NEW n \in 1..Size, CanCross(o, book)
    PROVE  WalkFilled(book, n) \in 1..n
<1>1. /\ Levels \in Nat \ {0} /\ Limit[o] \in 1..Levels /\ Size \in Nat
      /\ book \in [0..Levels -> 0..MaxDepth] /\ MaxDepth \in Nat
      /\ \A l, m \in 0..Levels : l <= m => book[l] <= book[m]
    BY PaperAssumption DEF Books
<1>2. book[Limit[o]] <= book[Levels] /\ book[Limit[o]] \in Nat /\ book[Levels] \in Nat
    BY <1>1
<1> QED  BY <1>1, <1>2 DEF WalkFilled, Minimum, CanCross

-----------------------------------------------------------------------------
(* No order exists yet, so the invariant holds.                             *)
LEMMA InitIInv == Init => IInv
<1> SUFFICES ASSUME Init PROVE IInv
    OBVIOUS
<1>1. TypeOK
    BY PaperAssumption DEF Init, TypeOK
<1>2. RestingIsOpen
    BY DEF Init, RestingIsOpen, OpenStatus
<1>3. FilledMatches
    BY DEF Init, FilledMatches
<1> QED  BY <1>1, <1>2, <1>3 DEF IInv

(* Orders that are cancelled: those of S that are open.                     *)
LEMMA CancelKeeps ==
    ASSUME IInv, NEW S \in SUBSET Orders, CancelThese(S),
           UNCHANGED <<filled, remaining>>, route' \in {"posting", "both", "unwound"}
    PROVE  IInv' /\ Contract!Next
<1> DEFINE open == {o \in S : status[o] \in OpenStatus}
<1>1. /\ status' = [o \in Orders |-> IF o \in open THEN "CANCELLED" ELSE status[o]]
      /\ resting' = resting \ open /\ aged' = aged \ open
    BY DEF CancelThese
<1>2. TypeOK'
    BY <1>1 DEF IInv, TypeOK, OpenStatus, TerminalStatus
<1>3. RestingIsOpen'
    BY <1>1 DEF IInv, TypeOK, RestingIsOpen, OpenStatus
<1>4. FilledMatches'
    BY <1>1 DEF IInv, TypeOK, FilledMatches
<1>5. Contract!Next
    <2>1. status' \in [Orders -> Contract!Status] /\ filled' \in [Orders -> 0..Size]
        BY <1>2 DEF TypeOK, OpenStatus, TerminalStatus, Contract!Status, Contract!Final
    <2>2. ASSUME NEW o \in Orders
          PROVE  \/ status'[o] = status[o] /\ filled'[o] = filled[o]
                 \/ Contract!Becomes(o, status'[o], filled'[o])
        <3>1. CASE o \in open
            BY <1>1, <3>1 DEF Contract!Becomes, Contract!Final, OpenStatus, IInv, TypeOK
        <3>2. CASE o \notin open
            BY <1>1, <3>2 DEF IInv, TypeOK
        <3> QED  BY <3>1, <3>2
    <2> QED  BY <2>1, <2>2 DEF Contract!Next
<1> QED  BY <1>2, <1>3, <1>4, <1>5 DEF IInv
(* What the first fill of a new order leaves: some of it filled, all of it  *)
(* when nothing is left.                                                    *)
LEMMA FirstFill ==
    ASSUME IInv, NEW o \in Orders, status[o] = "NEW", NEW book \in Books,
           WalkFilled(book, Size) \in 1..Size, ApplyFill(o, book, Size)
    PROVE  LET f == WalkFilled(book, Size)
           IN  /\ filled' = [filled EXCEPT ![o] = f]
               /\ status' = [status EXCEPT ![o] = IF f = Size THEN "FILLED" ELSE "PARTIAL"]
<1>1. filled[o] = 0 /\ Size \in Nat /\ Size \in 0..Size
    BY PaperAssumption DEF IInv, FilledMatches
<1>2. filled[o] + WalkFilled(book, Size) = WalkFilled(book, Size)
    BY <1>1
<1>3. FillStatus(WalkFilled(book, Size))
          = IF WalkFilled(book, Size) = Size THEN "FILLED" ELSE "PARTIAL"
    BY <1>1 DEF FillStatus
<1> QED  BY <1>2, <1>3 DEF ApplyFill

(* A step that gives one new order o its outcome: status s, f filled, and,  *)
(* if it is an open maker order, the rest r of it resting.                  *)
LEMMA OutcomeKeeps ==
    ASSUME IInv, NEW o \in Orders, status[o] = "NEW",
           NEW s \in OpenStatus \cup TerminalStatus, NEW f \in 0..Size, NEW r \in 0..Size,
           s \in {"LIVE", "REJECTED", "CANCELLED"} => f = 0,
           s = "PARTIAL" => f \in 1..(Size - 1),
           s = "FILLED" => f = Size,
           Type[o] = "GTC" /\ s \in OpenStatus => r = Size - f /\ r > 0,
           status' = [status EXCEPT ![o] = s], filled' = [filled EXCEPT ![o] = f],
           remaining' = [remaining EXCEPT ![o] = r],
           resting' = IF Type[o] = "GTC" /\ s \in OpenStatus
                      THEN resting \cup {o} ELSE resting,
           UNCHANGED <<aged, route>>
    PROVE  IInv' /\ Contract!Next
<1>1. o \notin resting /\ filled[o] = 0 /\ Size \in Nat \ {0}
    BY PaperAssumption DEF IInv, RestingIsOpen, FilledMatches, OpenStatus
<1>2. TypeOK'
    BY <1>1 DEF IInv, TypeOK
<1>3. RestingIsOpen'
    <2> SUFFICES ASSUME NEW p \in Orders
                 PROVE  /\ p \in resting' <=> Type[p] = "GTC" /\ status'[p] \in OpenStatus
                        /\ p \in resting' => /\ remaining'[p] = Size - filled'[p]
                                             /\ remaining'[p] > 0
        BY DEF RestingIsOpen, OpenStatus
    <2>1. CASE p = o
        BY <1>1, <2>1 DEF IInv, TypeOK
    <2>2. CASE p # o
        BY <1>1, <2>2 DEF IInv, TypeOK, RestingIsOpen
    <2> QED  BY <2>1, <2>2
<1>4. FilledMatches'
    <2> SUFFICES ASSUME NEW p \in Orders
                 PROVE  /\ status'[p] \in {"NEW", "LIVE", "REJECTED"} => filled'[p] = 0
                        /\ status'[p] = "PARTIAL" => filled'[p] \in 1..(Size - 1)
                        /\ status'[p] = "FILLED" => filled'[p] = Size
        BY DEF FilledMatches
    <2>1. CASE p = o
        BY <2>1 DEF IInv, TypeOK, OpenStatus, TerminalStatus
    <2>2. CASE p # o
        BY <2>2 DEF IInv, TypeOK, FilledMatches
    <2> QED  BY <2>1, <2>2
<1>5. Contract!Next
    <2>1. status' \in [Orders -> Contract!Status] /\ filled' \in [Orders -> 0..Size]
        BY <1>2 DEF TypeOK, OpenStatus, TerminalStatus, Contract!Status, Contract!Final
    <2>2. Contract!Becomes(o, s, f)
        BY <1>1 DEF Contract!Becomes, Contract!Final, OpenStatus, TerminalStatus
    <2>3. status'[o] = s /\ filled'[o] = f
        BY DEF IInv, TypeOK
    <2>4. ASSUME NEW p \in Orders, p # o
          PROVE  status'[p] = status[p] /\ filled'[p] = filled[p]
        BY <2>4 DEF IInv, TypeOK
    <2> QED  BY <2>1, <2>2, <2>3, <2>4 DEF Contract!Next
<1> QED  BY <1>2, <1>3, <1>4, <1>5 DEF IInv

(* Submitting an order, with all the fills it gets at once, keeps the       *)
(* invariant and is a step of the contract.                                 *)
LEMMA SubmitKeeps ==
    ASSUME IInv, NEW o \in Orders, Submit(o)
    PROVE  IInv' /\ Contract!Next
<1>1. /\ status[o] = "NEW" /\ UNCHANGED <<aged, route>>
      /\ Size \in Nat \ {0} /\ Size \in 0..Size /\ Size \in 1..Size /\ 0 \in 0..Size
      /\ Type[o] \in {"GTC", "FOK", "FAK"}
      /\ filled[o] = 0 /\ remaining[o] \in 0..Size
      /\ filled = [filled EXCEPT ![o] = 0]
      /\ remaining = [remaining EXCEPT ![o] = remaining[o]]
    BY PaperAssumption DEF Submit, IInv, TypeOK, FilledMatches
<1>2. ASSUME NEW book \in Books, Type[o] = "GTC", PostMaker(o, book)
      PROVE  IInv' /\ Contract!Next
    <2>1. CASE CanCross(o, book) /\ ApplyFill(o, book, Size)
                 /\ remaining' = [remaining EXCEPT ![o] = Size - WalkFilled(book, Size)]
                 /\ resting' = IF remaining'[o] > 0 THEN resting \cup {o} ELSE resting
        <3> DEFINE f == WalkFilled(book, Size)
                   s == IF f = Size THEN "FILLED" ELSE "PARTIAL"
        <3>1. f \in 1..Size
            BY <1>1, <2>1, CrossingFinds
        <3>2. /\ filled' = [filled EXCEPT ![o] = f]
              /\ status' = [status EXCEPT ![o] = s]
            BY <1>1, <2>1, <3>1, FirstFill
        <3>3. remaining'[o] = Size - f
            BY <2>1 DEF IInv, TypeOK
        <3> HIDE DEF f
        <3>4. /\ Size - f \in 0..Size /\ f \in 0..Size
              /\ (Size - f > 0) <=> (s = "PARTIAL")
              /\ s = "PARTIAL" => f \in 1..(Size - 1)
              /\ s = "FILLED" => f = Size
              /\ s \in {"FILLED", "PARTIAL"}
            BY <1>1, <3>1
        <3>5. resting' = IF Size - f > 0 THEN resting \cup {o} ELSE resting
            BY <2>1, <3>3
        <3>6. remaining' = [remaining EXCEPT ![o] = Size - f]
            BY <2>1 DEF f
        <3> HIDE DEF s
        <3>7. s \in OpenStatus \cup TerminalStatus /\ (s \in OpenStatus <=> s = "PARTIAL")
            BY <3>4 DEF OpenStatus, TerminalStatus
        <3>8. resting' = IF Type[o] = "GTC" /\ s \in OpenStatus
                         THEN resting \cup {o} ELSE resting
            BY <1>2, <3>4, <3>5, <3>7
        <3> QED  BY <1>1, <1>2, <3>2, <3>4, <3>6, <3>7, <3>8, OutcomeKeeps
    <2>2. CASE /\ status' = [status EXCEPT ![o] = "LIVE"]
               /\ remaining' = [remaining EXCEPT ![o] = Size]
               /\ resting' = resting \cup {o}
               /\ UNCHANGED filled
        <3>1. "LIVE" \in OpenStatus \cup TerminalStatus /\ "LIVE" \in OpenStatus
            BY DEF OpenStatus
        <3>2. Size = Size - 0 /\ Size > 0
            BY <1>1
        <3> QED  BY <1>1, <1>2, <2>2, <3>1, <3>2, OutcomeKeeps
    <2> QED  BY <1>2, <2>1, <2>2 DEF PostMaker
<1>3. ASSUME NEW book \in Books, Type[o] # "GTC", FillTaker(o, book)
      PROVE  IInv' /\ Contract!Next
    <2>1. UNCHANGED <<remaining, resting>>
        BY <1>3 DEF FillTaker
    <2>2. ASSUME NEW s \in {"REJECTED", "CANCELLED"}, status' = [status EXCEPT ![o] = s],
                 UNCHANGED filled
          PROVE  IInv' /\ Contract!Next
        <3>1. s \in OpenStatus \cup TerminalStatus
            BY DEF TerminalStatus
        <3> QED  BY <1>1, <1>3, <2>1, <2>2, <3>1, OutcomeKeeps
    <2>3. CASE /\ WalkFilled(book, Size) > 0
               /\ Type[o] = "FAK" \/ WalkFilled(book, Size) = Size
               /\ ApplyFill(o, book, Size)
        <3> DEFINE f == WalkFilled(book, Size)
                   s == IF f = Size THEN "FILLED" ELSE "PARTIAL"
        <3>1. f \in 1..Size
            BY <1>1, <2>3, WalkIsBounded
        <3>2. /\ filled' = [filled EXCEPT ![o] = f]
              /\ status' = [status EXCEPT ![o] = s]
            BY <1>1, <2>3, <3>1, FirstFill
        <3> HIDE DEF f
        <3>3. /\ f \in 0..Size
              /\ s = "PARTIAL" => f \in 1..(Size - 1)
              /\ s = "FILLED" => f = Size
              /\ s \in {"FILLED", "PARTIAL"}
            BY <1>1, <3>1
        <3> HIDE DEF s
        <3>4. s \in OpenStatus \cup TerminalStatus
            BY <3>3 DEF OpenStatus, TerminalStatus
        <3> QED  BY <1>1, <1>3, <2>1, <3>2, <3>3, <3>4, OutcomeKeeps
    <2> QED  BY <1>3, <2>2, <2>3 DEF FillTaker
<1>4. ASSUME Reject(o)
      PROVE  IInv' /\ Contract!Next
    <2>1. /\ status' = [status EXCEPT ![o] = "REJECTED"]
          /\ UNCHANGED <<filled, remaining, resting>>
        BY <1>4 DEF Reject
    <2>2. "REJECTED" \in TerminalStatus /\ "REJECTED" \notin OpenStatus
        BY DEF OpenStatus, TerminalStatus
    <2> QED  BY <1>1, <2>1, <2>2, OutcomeKeeps
<1> QED  BY <1>2, <1>3, <1>4 DEF Submit
-----------------------------------------------------------------------------
(* What one pass of reconcile() does to order o: nothing, the timeout, or a *)
(* fill of what is left of it.                                              *)
LEMMA ReconcileKeeps ==
    ASSUME IInv, Reconcile
    PROVE  IInv' /\ Contract!Next
<1>1. PICK book \in [resting -> Books] :
        LET cross == {o \in resting : Crossing(o, book[o])}
            f == [o \in cross |-> filled[o] + WalkFilled(book[o], remaining[o])]
        IN  /\ status' = [o \in Orders |->
                  IF o \in cross THEN FillStatus(f[o])
                  ELSE IF o \in resting /\ Expired(o) THEN "CANCELLED" ELSE status[o]]
            /\ filled' = [o \in Orders |-> IF o \in cross THEN f[o] ELSE filled[o]]
            /\ remaining' = [o \in Orders |->
                  remaining[o] - IF o \in cross THEN WalkFilled(book[o], remaining[o]) ELSE 0]
            /\ resting' = {o \in resting : ~Expired(o) /\ remaining'[o] > 0}
            /\ aged' = aged \cap resting'
            /\ UNCHANGED route
    BY DEF Reconcile
<1> DEFINE cross == {o \in resting : Crossing(o, book[o])}
           n(o) == WalkFilled(book[o], remaining[o])
<1>2. ASSUME NEW o \in Orders
      PROVE  /\ Size \in Nat \ {0} /\ filled[o] \in 0..Size /\ remaining[o] \in 0..Size
             /\ status[o] \in {"NEW"} \cup OpenStatus \cup TerminalStatus
             /\ o \in resting => /\ Type[o] = "GTC" /\ status[o] \in OpenStatus
                                 /\ remaining[o] = Size - filled[o]
                                 /\ remaining[o] \in 1..Size /\ book[o] \in Books
             /\ o \notin resting => ~(Type[o] = "GTC" /\ status[o] \in OpenStatus)
             /\ status[o] \in {"NEW", "LIVE", "REJECTED"} => filled[o] = 0
             /\ status[o] = "PARTIAL" => filled[o] \in 1..(Size - 1)
             /\ status[o] = "FILLED" => filled[o] = Size
    BY PaperAssumption DEF IInv, TypeOK, RestingIsOpen, FilledMatches
<1>3. ASSUME NEW o \in Orders, o \in cross
      PROVE  /\ n(o) \in 1..remaining[o] /\ ~Expired(o)
             /\ status'[o] = FillStatus(filled[o] + n(o))
             /\ filled'[o] = filled[o] + n(o)
             /\ remaining'[o] = remaining[o] - n(o)
    <2>1. o \in resting /\ CanCross(o, book[o]) /\ ~Expired(o)
        BY <1>3 DEF Crossing
    <2>2. n(o) \in 1..remaining[o]
        BY <1>2, <2>1, CrossingFinds
    <2> QED  BY <1>1, <1>3, <2>1, <2>2
<1>4. ASSUME NEW o \in Orders, o \notin cross
      PROVE  /\ status'[o] = IF o \in resting /\ Expired(o) THEN "CANCELLED" ELSE status[o]
             /\ filled'[o] = filled[o]
             /\ remaining'[o] = remaining[o]
    BY <1>1, <1>2, <1>4
<1>5. ASSUME NEW o \in Orders
      PROVE  o \in resting' <=> o \in resting /\ ~Expired(o) /\ remaining'[o] > 0
    BY <1>1
<1>6. /\ DOMAIN status' = Orders /\ DOMAIN filled' = Orders
      /\ DOMAIN remaining' = Orders
      /\ status' = [o \in Orders |-> status'[o]] /\ filled' = [o \in Orders |-> filled'[o]]
      /\ remaining' = [o \in Orders |-> remaining'[o]]
      /\ resting' \subseteq resting /\ resting \subseteq Orders /\ aged' = aged \cap resting'
      /\ route' = route /\ route \in {"posting", "both", "unwound"}
    BY <1>1 DEF IInv, TypeOK
<1> HIDE DEF cross, n
(* Each order, one by one.                                                  *)
<1>7. ASSUME NEW o \in Orders
      PROVE  /\ status'[o] \in {"NEW"} \cup OpenStatus \cup TerminalStatus
             /\ filled'[o] \in 0..Size /\ remaining'[o] \in 0..Size
             /\ o \in resting' <=> Type[o] = "GTC" /\ status'[o] \in OpenStatus
             /\ o \in resting' => remaining'[o] = Size - filled'[o] /\ remaining'[o] > 0
             /\ status'[o] \in {"NEW", "LIVE", "REJECTED"} => filled'[o] = 0
             /\ status'[o] = "PARTIAL" => filled'[o] \in 1..(Size - 1)
             /\ status'[o] = "FILLED" => filled'[o] = Size
             /\ \/ status'[o] = status[o] /\ filled'[o] = filled[o]
                \/ Contract!Becomes(o, status'[o], filled'[o])
    <2>1. CASE o \in cross
        <3>1. /\ o \in resting /\ ~Expired(o) /\ n(o) \in 1..remaining[o]
              /\ filled'[o] = filled[o] + n(o) /\ remaining'[o] = remaining[o] - n(o)
              /\ status'[o] = FillStatus(filled[o] + n(o))
            BY <1>3, <2>1 DEF cross
        <3>2. /\ Size \in Nat \ {0} /\ filled[o] \in 0..Size /\ remaining[o] = Size - filled[o]
              /\ remaining[o] \in 1..Size
              /\ Type[o] = "GTC" /\ status[o] \in OpenStatus
            BY <1>2, <3>1
        <3>3. CASE n(o) = remaining[o]
            <4>1. filled'[o] = Size /\ remaining'[o] = 0
                BY <3>1, <3>2, <3>3
            <4>2. status'[o] = "FILLED"
                BY <3>1, <3>2, <4>1 DEF FillStatus
            <4>3. o \notin resting'
                BY <1>5, <4>1
            <4>4. filled'[o] \in 0..Size /\ remaining'[o] \in 0..Size /\ filled'[o] >= filled[o]
                BY <3>1, <3>2, <4>1
            <4>5. Contract!Becomes(o, status'[o], filled'[o])
                BY <3>2, <4>1, <4>2, <4>4 DEF OpenStatus, Contract!Becomes, Contract!Final
            <4>6. /\ status'[o] \in {"NEW"} \cup OpenStatus \cup TerminalStatus
                  /\ status'[o] \notin OpenStatus
                BY <4>2 DEF OpenStatus, TerminalStatus
            <4> QED  BY <3>1, <3>2, <4>1, <4>2, <4>3, <4>4, <4>5, <4>6
        <3>4. CASE n(o) # remaining[o]
            <4>1. /\ filled'[o] \in 1..(Size - 1) /\ remaining'[o] = Size - filled'[o]
                  /\ remaining'[o] \in 1..Size /\ filled'[o] >= filled[o]
                BY <3>1, <3>2, <3>4
            <4>2. status'[o] = "PARTIAL"
                BY <3>1, <3>2, <4>1 DEF FillStatus
            <4>3. o \in resting'
                BY <1>5, <3>1, <4>1
            <4>4. filled'[o] \in 0..Size /\ remaining'[o] \in 0..Size /\ filled'[o] >= filled[o]
                BY <3>1, <3>2, <4>1
            <4>5. Contract!Becomes(o, status'[o], filled'[o])
                BY <3>2, <4>1, <4>2, <4>4 DEF OpenStatus, Contract!Becomes, Contract!Final
            <4>6. /\ status'[o] \in {"NEW"} \cup OpenStatus \cup TerminalStatus
                  /\ status'[o] \in OpenStatus
                BY <4>2 DEF OpenStatus, TerminalStatus
            <4> QED  BY <3>1, <3>2, <4>1, <4>2, <4>3, <4>4, <4>5, <4>6
        <3> QED  BY <3>3, <3>4
    <2>2. CASE o \notin cross /\ o \in resting /\ Expired(o)
        <3>1. /\ status'[o] = "CANCELLED" /\ filled'[o] = filled[o]
              /\ remaining'[o] = remaining[o] /\ o \notin resting'
            BY <1>4, <1>5, <2>2
        <3> QED  BY <1>2, <2>2, <3>1
                 DEF OpenStatus, TerminalStatus, Contract!Becomes, Contract!Final
    <2>3. CASE o \notin cross /\ ~(o \in resting /\ Expired(o))
        <3>1. /\ status'[o] = status[o] /\ filled'[o] = filled[o]
              /\ remaining'[o] = remaining[o]
            BY <1>4, <2>3
        <3>2. o \in resting' <=> o \in resting
            BY <1>2, <1>5, <2>3, <3>1
        <3> QED  BY <1>2, <3>1, <3>2
    <2> QED  BY <2>1, <2>2, <2>3
<1>8. TypeOK'
    BY <1>6, <1>7 DEF TypeOK
<1>9. RestingIsOpen'
    BY <1>7 DEF RestingIsOpen, OpenStatus
<1>10. FilledMatches'
    BY <1>7 DEF FilledMatches
<1>11. Contract!Next
    <2>1. status' \in [Orders -> Contract!Status] /\ filled' \in [Orders -> 0..Size]
        BY <1>8 DEF TypeOK, OpenStatus, TerminalStatus, Contract!Status, Contract!Final
    <2> QED  BY <1>7, <2>1 DEF Contract!Next
<1> QED  BY <1>8, <1>9, <1>10, <1>11 DEF IInv

(* A resting order that grows old, and a step that changes nothing.         *)
LEMMA RestKeeps ==
    ASSUME IInv,
           UNCHANGED <<status, filled, resting, remaining, route>>,
           aged' = aged \/ \E o \in resting : aged' = aged \cup {o}
    PROVE  IInv'
<1>1. TypeOK'
    BY DEF IInv, TypeOK
<1> QED  BY <1>1 DEF IInv, RestingIsOpen, FilledMatches

(* Every step keeps the invariant, and is a step of the contract.           *)
LEMMA StepKeeps ==
    ASSUME IInv, [Next]_vars
    PROVE  IInv' /\ [Contract!Next]_<<status, filled>>
<1>1. ASSUME NEW o \in Orders, Submit(o)
      PROVE  IInv' /\ [Contract!Next]_<<status, filled>>
    BY <1>1, SubmitKeeps
<1>2. ASSUME NEW o \in Orders, Age(o)
      PROVE  IInv' /\ [Contract!Next]_<<status, filled>>
    BY <1>2, RestKeeps DEF Age
<1>3. ASSUME RouteReturn
      PROVE  IInv' /\ [Contract!Next]_<<status, filled>>
    <2>1. ToUnwind \in SUBSET Orders
        BY PaperAssumption DEF ToUnwind
    <2>2. /\ CancelThese(ToUnwind) /\ UNCHANGED <<filled, remaining>>
          /\ route' \in {"posting", "both", "unwound"}
        BY <1>3 DEF RouteReturn
    <2> QED  BY <2>1, <2>2, CancelKeeps
<1>4. ASSUME CancelAll
      PROVE  IInv' /\ [Contract!Next]_<<status, filled>>
    <2>1. Orders \in SUBSET Orders /\ route \in {"posting", "both", "unwound"}
        BY DEF IInv, TypeOK
    <2>2. CancelThese(Orders) /\ UNCHANGED <<filled, remaining, route>>
        BY <1>4 DEF CancelAll
    <2> QED  BY <2>1, <2>2, CancelKeeps
<1>5. ASSUME Reconcile
      PROVE  IInv' /\ [Contract!Next]_<<status, filled>>
    BY <1>5, ReconcileKeeps
<1>6. ASSUME UNCHANGED vars
      PROVE  IInv' /\ [Contract!Next]_<<status, filled>>
    BY <1>6, RestKeeps DEF vars
<1> QED  BY <1>1, <1>2, <1>3, <1>4, <1>5, <1>6 DEF Next

-----------------------------------------------------------------------------
(* The inductive invariant holds in every state.                            *)
THEOREM Invariance == Spec => []IInv
<1>1. IInv /\ [Next]_vars => IInv'
    BY StepKeeps
<1> QED  BY InitIInv, <1>1, PTL DEF Spec

(* The variables of the executor keep their types, so no order is filled    *)
(* beyond its size.                                                         *)
THEOREM TypeCorrect == Spec => []TypeOK
<1>1. IInv => TypeOK
    BY DEF IInv
<1> QED  BY Invariance, <1>1, PTL

(* _resting holds exactly the open maker orders, with what is left of each. *)
THEOREM RestingAreOpen == Spec => []RestingIsOpen
<1>1. IInv => RestingIsOpen
    BY DEF IInv
<1> QED  BY Invariance, <1>1, PTL

(* The paper executor implements the contract of execution/base.py.         *)
THEOREM ImplementsContract == Spec => KeepsContract
<1>1. Init => Contract!Init
    BY DEF Init, Contract!Init
<1>2. IInv /\ [Next]_vars => [Contract!Next]_<<status, filled>>
    BY StepKeeps
<1> QED  BY Invariance, <1>1, <1>2, PTL DEF Spec, KeepsContract, Contract!Spec

-----------------------------------------------------------------------------
(* A terminal order stays as it is: a consequence of the contract.          *)
LEMMA TerminalStays ==
    ASSUME IInv, [Next]_vars, NEW o \in Orders, status[o] \in TerminalStatus
    PROVE  status'[o] \in TerminalStatus
<1>1. [Contract!Next]_<<status, filled>>
    BY StepKeeps
<1> QED  BY <1>1 DEF Contract!Next, Contract!Becomes, Contract!Final, TerminalStatus

(* A pair that route() found broken has nothing open left, and never will.  *)
THEOREM PairsAreUnwound == Spec => []PairIsUnwound
<1>1. Init => PairIsUnwound
    BY DEF Init, PairIsUnwound
<1>2. IInv /\ PairIsUnwound /\ [Next]_vars => PairIsUnwound'
    <2> SUFFICES ASSUME IInv, PairIsUnwound, [Next]_vars, route' = "unwound",
                        NEW o \in Legs
                 PROVE  status'[o] \in TerminalStatus
        BY DEF PairIsUnwound, TerminalStatus
    <2>1. o \in Orders
        BY PaperAssumption
    <2>2. CASE route = "unwound"
        BY <2>1, <2>2, TerminalStays DEF PairIsUnwound
    <2>3. CASE route # "unwound"
        <3>1. RouteReturn
            BY <2>3 DEF Next, vars, Submit, Age, CancelAll, Reconcile
        <3>2. /\ \E p \in Legs : LegFailed(p)
              /\ status[o] \in OpenStatus \cup TerminalStatus
            BY <2>1, <3>1 DEF RouteReturn, IInv, TypeOK
        <3>3. o \in ToUnwind \/ LegFailed(o)
            BY <3>2 DEF ToUnwind
        <3> QED  BY <2>1, <3>1, <3>2, <3>3
                 DEF RouteReturn, CancelThese, LegFailed, OpenStatus, TerminalStatus, IInv, TypeOK
    <2> QED  BY <2>2, <2>3
<1> QED  BY Invariance, <1>1, <1>2, PTL DEF Spec
=============================================================================
