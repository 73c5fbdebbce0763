----------------------------- MODULE FeedProofs -----------------------------
(***************************************************************************)
(* Proofs about the three feeds: the trades of the wallets (SmartMoney),   *)
(* the articles of the news feeds (News) and what the dashboard is told    *)
(* (Broker).  Each has an inductive invariant of its own; what they share  *)
(* is induction up to a number, proved here from the well-foundedness of   *)
(* inclusion on finite sets, and with it what a fold over a sequence is:   *)
(* the last value of a recursion along it.                                 *)
(***************************************************************************)
EXTENDS SmartMoney, News, Broker, FiniteSetTheorems, WellFoundedInduction, TLAPS

-----------------------------------------------------------------------------
(* Induction and recursion up to a number.                                 *)

(* A set of numbers has a least one: of the intervals 0..k that end in it   *)
(* one contains no other.                                                   *)
LEMMA LeastNumber ==
    ASSUME NEW S \in SUBSET Nat, S # {}
    PROVE  \E m \in S : \A x \in S : m <= x
<1> DEFINE T == {0..k : k \in S}
           R == StrictSubsetOrdering(Nat)
<1>1. IsWellFoundedOn(R, FiniteSubsetsOf(Nat))
  BY FS_StrictSubsetOrderingWellFounded
<1>2. T \subseteq FiniteSubsetsOf(Nat) /\ T # {}
  <2>1. ASSUME NEW k \in S PROVE 0..k \in FiniteSubsetsOf(Nat)
    <3>1. k \in Int /\ 0 \in Int /\ 0..k \subseteq Nat
      OBVIOUS
    <3>2. IsFiniteSet(0..k)
      BY <3>1, FS_Interval
    <3>. QED BY <3>1, <3>2 DEF FiniteSubsetsOf
  <2>. QED BY <2>1
<1>3. PICK x \in T : \A y \in T : ~ (<<y, x>> \in R)
  <2> HIDE DEF T, R
  <2>. QED BY <1>1, <1>2, WFMin
<1>4. PICK m \in S : x = 0..m
  BY <1>3
<1>5. ASSUME NEW k \in S, k < m PROVE FALSE
  <2>1. 0..k \in T /\ 0..k \subseteq 0..m /\ 0..k # 0..m /\ 0..k \subseteq Nat /\ 0..m \subseteq Nat
    BY <1>5
  <2>. QED BY <1>3, <1>4, <2>1 DEF StrictSubsetOrdering
<1>. QED BY <1>5

(* Induction up to n: what holds at 0 and is handed on holds everywhere.    *)
LEMMA NoFirstFailure ==
    ASSUME NEW n \in Nat, NEW Fails \in SUBSET (0 .. n), 0 \notin Fails,
           \A i \in 1 .. n : i \in Fails => i - 1 \in Fails
    PROVE  Fails = {}
<1> SUFFICES ASSUME Fails # {} PROVE FALSE
  OBVIOUS
<1>1. PICK m \in Fails : \A x \in Fails : m <= x
  BY LeastNumber
<1>2. m \in 1 .. n /\ m - 1 \in Fails
  OBVIOUS
<1>. QED BY <1>1, <1>2

(* A recursion over the places of a sequence has a solution.                *)
StepsOf(A, n) == [A \X (1 .. n) -> A]
Recursion(r, n, base, g) == r[0] = base /\ \A i \in 1 .. n : r[i] = g[<<r[i - 1], i>>]

(* Step by step, a start and a step function determine such a sequence.     *)
LEMMA RecursionExists ==
    ASSUME NEW n \in Nat, NEW A, NEW base \in A, NEW g \in StepsOf(A, n)
    PROVE  \E r \in [0 .. n -> A] : Recursion(r, n, base, g)
<1> USE DEF StepsOf, Recursion
<1> DEFINE Solves(k, r) == r[0] = base /\ \A i \in 1 .. k : r[i] = g[<<r[i - 1], i>>]
           Fails == {k \in 0 .. n : ~ \E r \in [0 .. k -> A] : Solves(k, r)}
<1>1. 0 \notin Fails
  <2>1. Solves(0, [i \in 0 .. 0 |-> base]) /\ [i \in 0 .. 0 |-> base] \in [0 .. 0 -> A]
    OBVIOUS
  <2>. QED BY <2>1
<1>2. ASSUME NEW k \in 1 .. n, k \in Fails PROVE k - 1 \in Fails
  <2> SUFFICES ASSUME NEW r \in [0 .. k - 1 -> A], Solves(k - 1, r) PROVE FALSE
    OBVIOUS
  <2> DEFINE next == g[<<r[k - 1], k>>]
             q == [i \in 0 .. k |-> IF i = k THEN next ELSE r[i]]
  <2>1. k - 1 \in 0 .. k - 1 /\ r[k - 1] \in A /\ next \in A
    OBVIOUS
  <2>2. q \in [0 .. k -> A] /\ q[0] = base /\ q[k] = next /\ \A i \in 0 .. k - 1 : q[i] = r[i]
    BY <2>1
  <2>3. ASSUME NEW i \in 1 .. k PROVE q[i] = g[<<q[i - 1], i>>]
    <3> HIDE DEF q
    <3>1. CASE i = k
      BY <2>1, <2>2, <3>1
    <3>2. CASE i # k
      <4>1. i \in 1 .. k - 1 /\ i \in 0 .. k - 1 /\ i - 1 \in 0 .. k - 1
        BY <3>2
      <4>. QED BY <2>2, <4>1
    <3>. QED BY <3>1, <3>2
  <2> HIDE DEF q, next
  <2>4. Solves(k, q)
    BY <2>2, <2>3
  <2>. QED BY <1>2, <2>2, <2>4
<1>3. Fails = {}
  <2> HIDE DEF Fails
  <2>0. Fails \in SUBSET (0 .. n)
    BY DEF Fails
  <2>. QED BY <1>1, <1>2, <2>0, NoFirstFailure
<1>. QED BY <1>3

(* So has a fold over a set of places, which takes the last one last.       *)
FoldOf(h, n, base, g) ==
    h = [s \in SUBSET (1 .. n) |->
           IF s = {} THEN base ELSE g[<<h[s \ {Max(s)}], Max(s)>>]]

(* A non-empty set of places has a last one.                                *)
LEMMA LastPlace ==
    ASSUME NEW n \in Nat, NEW s \in SUBSET (1 .. n), s # {}
    PROVE  Max(s) \in s /\ \A x \in s : x <= Max(s)
<1> DEFINE D == {n - x : x \in s}
<1>1. D \in SUBSET Nat /\ D # {}
  <2>1. \A x \in s : n - x \in Nat
    OBVIOUS
  <2>. QED BY <2>1
<1>2. PICK d \in D : \A x \in D : d <= x
  <2> HIDE DEF D
  <2>. QED BY <1>1, LeastNumber
<1>3. PICK m \in s : d = n - m
  BY <1>2
<1>4. \A x \in s : x <= m
  BY <1>2, <1>3
<1>. QED BY <1>4 DEF Max

(* The last place of a set whose places are at most k, and which has k, is  *)
(* k.                                                                       *)
LEMMA LastOfInterval ==
    ASSUME NEW n \in Nat, NEW k \in 1 .. n, NEW s \in SUBSET (1 .. k), k \in s
    PROVE  Max(s) = k
<1>1. k \in Nat /\ s # {}
  OBVIOUS
<1>2. Max(s) \in s /\ k <= Max(s)
  BY <1>1, LastPlace
<1>3. \A m \in 1 .. k : k <= m => m = k
  OBVIOUS
<1>. QED BY <1>2, <1>3

(* What the first i places are without the last of them.                    *)
LEMMA IntervalBut ==
    ASSUME NEW n \in Nat, NEW i \in 1 .. n
    PROVE  /\ i \in 0 .. n /\ i - 1 \in 0 .. n /\ 1 .. i \in SUBSET (1 .. n)
           /\ 1 .. i # {} /\ (1 .. i) \ {i} = 1 .. i - 1 /\ i \in 1 .. i
<1>1. \A x : x \in (1 .. i) \ {i} <=> x \in 1 .. i - 1
  OBVIOUS
<1>2. i \in 1 .. i /\ i \in 0 .. n /\ i - 1 \in 0 .. n /\ 1 .. i \in SUBSET (1 .. n)
  OBVIOUS
<1>. QED BY <1>1, <1>2

(* The fold over all sets of places, by induction on the number of places.  *)
LEMMA FoldExists ==
    ASSUME NEW n \in Nat, NEW A, NEW base \in A, NEW g \in StepsOf(A, n)
    PROVE  \E h \in [SUBSET (1 .. n) -> A] : FoldOf(h, n, base, g)
<1> DEFINE Fails == {k \in 0 .. n : ~ \E h \in [SUBSET (1 .. k) -> A] : FoldOf(h, k, base, g)}
<1>1. 0 \notin Fails
  <2> DEFINE h == [s \in SUBSET (1 .. 0) |-> base]
  <2>1. \A s \in SUBSET (1 .. 0) : s = {}
    <3>1. 1 .. 0 = {}
      OBVIOUS
    <3>. QED BY <3>1
  <2>2. h \in [SUBSET (1 .. 0) -> A] /\ FoldOf(h, 0, base, g)
    BY <2>1 DEF FoldOf
  <2> HIDE DEF h
  <2>. QED BY <2>2
<1>2. ASSUME NEW k \in 1 .. n, k \in Fails PROVE k - 1 \in Fails
  <2>0. k - 1 \in 0 .. n
    OBVIOUS
  <2> SUFFICES ASSUME NEW h \in [SUBSET (1 .. k - 1) -> A], FoldOf(h, k - 1, base, g)
               PROVE FALSE
    BY <2>0
  <2> DEFINE q == [s \in SUBSET (1 .. k) |-> IF k \in s THEN g[<<h[s \ {k}], k>>] ELSE h[s]]
  <2>1. \A s \in SUBSET (1 .. k) : s \ {k} \in SUBSET (1 .. k - 1)
    OBVIOUS
  <2>2. \A a \in A : g[<<a, k>>] \in A
    BY DEF StepsOf
  <2>3. q \in [SUBSET (1 .. k) -> A]
    <3>1. ASSUME NEW s \in SUBSET (1 .. k) PROVE q[s] \in A
      <4>1. CASE k \in s
        BY <2>1, <2>2, <4>1
      <4>2. CASE k \notin s
        <5>1. s \in SUBSET (1 .. k - 1)
          BY <2>1, <4>2
        <5>. QED BY <4>2, <5>1
      <4>. QED BY <4>1, <4>2
    <3>. QED BY <3>1
  <2>4. \A s \in SUBSET (1 .. k) : k \notin s => q[s] = h[s]
    OBVIOUS
  <2>5. \A s \in SUBSET (1 .. k) : k \in s => q[s] = g[<<h[s \ {k}], k>>]
    OBVIOUS
  <2>6. ASSUME NEW s \in SUBSET (1 .. k - 1)
        PROVE  h[s] = IF s = {} THEN base ELSE g[<<h[s \ {Max(s)}], Max(s)>>]
    BY DEF FoldOf
  <2> HIDE DEF q
  <2>7. ASSUME NEW s \in SUBSET (1 .. k)
        PROVE  q[s] = IF s = {} THEN base ELSE g[<<q[s \ {Max(s)}], Max(s)>>]
    <3>1. CASE k \in s
      <4>1. Max(s) = k /\ s # {}
        BY <3>1, LastOfInterval
      <4>2. q[s \ {k}] = h[s \ {k}]
        BY <2>4
      <4>. QED BY <2>5, <3>1, <4>1, <4>2
    <3>2. CASE k \notin s
      <4>1. s \in SUBSET (1 .. k - 1) /\ q[s] = h[s]
        BY <2>1, <2>4, <3>2
      <4>2. q[s \ {Max(s)}] = h[s \ {Max(s)}]
        BY <2>4, <3>2
      <4>. QED BY <2>6, <4>1, <4>2
    <3>. QED BY <3>1, <3>2
  <2>8. FoldOf(q, k, base, g)
    BY <2>3, <2>7 DEF FoldOf
  <2>. QED BY <1>2, <2>3, <2>8
<1>3. Fails = {}
  <2>0. Fails \in SUBSET (0 .. n)
    OBVIOUS
  <2> HIDE DEF Fails
  <2>. QED BY <1>1, <1>2, <2>0, NoFirstFailure
<1>4. n \in 0 .. n
  OBVIOUS
<1>. QED BY <1>3, <1>4

(* A sequence over a set is one over any larger set.                        *)
LEMMA LargerSeq ==
    ASSUME NEW S, NEW T, S \subseteq T, NEW s \in Seq(S)
    PROVE  s \in Seq(T)
OBVIOUS

-----------------------------------------------------------------------------
(* SmartMoney: the page of trades, the tallies and the tiers.               *)

(* The tallies of w justify tier k.                                         *)
Justified(w, k) == stats[w].usd >= Volume[k] /\ stats[w].n >= Count[k]

(* A tier that was given is justified by the tallies, which never shrink.   *)
TiersAreEarned == \A w \in Wallets : tier[w] \in 1 .. 2 => Justified(w, tier[w])

(* Flows are purchases, and the tier noted with one was justified.          *)
FlowsAreEarned ==
    \A f \in flows \cup cluster :
        /\ Tape[f.trade].side = "BUY"
        /\ f.tier \in 1 .. 2 => Justified(Tape[f.trade].wallet, f.tier)

TradesInv == TradesTypeOK /\ TiersAreEarned /\ FlowsAreEarned /\ TalliedOnce

(* The transactions of wallet w among the trades so far.                    *)
TxsOf(w) == {Tape[i].tx : i \in {j \in Made : Tape[j].wallet = w}}
Txs == {Tape[i].tx : i \in Made}

Tallies == [Wallets -> [n : 0 .. Count[1], usd : 0 .. Volume[1]]]
Accs == [seen : SUBSET Txs, stats : Tallies, queue : Seq(Made), done : BOOLEAN,
         raised : BOOLEAN]
Once(acc) == \A w \in Wallets : acc.stats[w].n <= Cardinality(TxsOf(w) \cap acc.seen)
NoLess(st, other) ==
    \A w \in Wallets : st[w].n <= other[w].n /\ st[w].usd <= other[w].usd

(* What was made is a part of the tape, and every trade of it is one.       *)
LEMMA TapeIsTyped ==
    ASSUME TradesTypeOK
    PROVE  /\ Made = 1 .. Len(madeAt) /\ Len(madeAt) \in Nat /\ Len(Tape) \in Nat
           /\ \A i \in Made : Tape[i] \in Trade
           /\ \A i \in Made : i \in 1 .. Len(Tape)
           /\ \A w : IsFiniteSet(TxsOf(w)) /\ TxsOf(w) \subseteq Txs
<1>1. /\ Made = 1 .. Len(madeAt) /\ Len(madeAt) \in Nat /\ Len(Tape) \in Nat
      /\ \A i \in Made : i \in 1 .. Len(Tape)
  BY TapeAssumption DEF TradesTypeOK, Made
<1>2. \A i \in Made : Tape[i] \in Trade
  BY <1>1, TapeAssumption
<1>3. ASSUME NEW w PROVE IsFiniteSet(TxsOf(w)) /\ TxsOf(w) \subseteq Txs
  <2>1. IsFiniteSet(Made)
    BY <1>1, FS_Interval
  <2>2. IsFiniteSet({j \in Made : Tape[j].wallet = w})
    BY <2>1, FS_Subset
  <2> DEFINE Mine == {j \in Made : Tape[j].wallet = w}
             f == [i \in Mine |-> Tape[i].tx]
  <2>3. f \in Surjection(Mine, TxsOf(w))
    BY DEF TxsOf, Surjection
  <2>4. IsFiniteSet(TxsOf(w))
    <3> HIDE DEF f
    <3>. QED BY <2>2, <2>3, FS_Surjection
  <2>. QED BY <2>4 DEF TxsOf, Txs
<1>. QED BY <1>1, <1>2, <1>3

(* Capped counting adds one at most, and never takes anything away.         *)
LEMMA TallyGrows ==
    ASSUME NEW st \in Tallies, NEW t \in Trade
    PROVE  /\ Tally(st, t) \in Tallies /\ NoLess(st, Tally(st, t))
           /\ Tally(st, t)[t.wallet].n <= st[t.wallet].n + 1
           /\ \A w \in Wallets : w # t.wallet => Tally(st, t)[w] = st[w]
<1> DEFINE w == t.wallet
           r == [n |-> Capped(st[w].n + 1, Count[1]), usd |-> Capped(st[w].usd + t.usd, Volume[1])]
<1>1. w \in Wallets /\ t.usd \in Nat /\ Count[1] \in Nat /\ Volume[1] \in Nat
  BY TierAssumption DEF Trade
<1>2. st[w] \in [n : 0 .. Count[1], usd : 0 .. Volume[1]]
  BY <1>1 DEF Tallies
<1>3. /\ Capped(st[w].n + 1, Count[1]) \in 0 .. Count[1]
      /\ Capped(st[w].n + 1, Count[1]) >= st[w].n
      /\ Capped(st[w].n + 1, Count[1]) <= st[w].n + 1
  BY <1>1, <1>2 DEF Capped
<1>4. /\ Capped(st[w].usd + t.usd, Volume[1]) \in 0 .. Volume[1]
      /\ Capped(st[w].usd + t.usd, Volume[1]) >= st[w].usd
  BY <1>1, <1>2 DEF Capped
<1>5. Tally(st, t) = [st EXCEPT ![w] = r]
  <2>1. DOMAIN st = Wallets
    BY DEF Tallies
  <2>2. st[w] = [n |-> st[w].n, usd |-> st[w].usd]
    BY <1>2
  <2> DEFINE a == [st EXCEPT ![w].n = Capped(@ + 1, Count[1])]
             one == [n |-> Capped(st[w].n + 1, Count[1]), usd |-> st[w].usd]
  <2>3. a = [st EXCEPT ![w] = one]
    <3>1. a = [st EXCEPT ![w] = [st[w] EXCEPT !.n = Capped(st[w].n + 1, Count[1])]]
      BY <1>1, <2>1
    <3>2. [st[w] EXCEPT !.n = Capped(st[w].n + 1, Count[1])] = one
      BY <2>2
    <3>. QED BY <3>1, <3>2
  <2>4. Tally(st, t) = [a EXCEPT ![w] = [a[w] EXCEPT !.usd = Capped(a[w].usd + t.usd, Volume[1])]]
    BY <1>1, <2>1 DEF Tally
  <2>5. a[w] = [n |-> Capped(st[w].n + 1, Count[1]), usd |-> st[w].usd] /\ DOMAIN a = Wallets
        /\ \A x \in Wallets : x # w => a[x] = st[x]
    BY <1>1, <2>1, <2>3
  <2> HIDE DEF a
  <2>6. [a[w] EXCEPT !.usd = Capped(a[w].usd + t.usd, Volume[1])] = r
    BY <2>5
  <2>7. Tally(st, t) = [a EXCEPT ![w] = r]
    BY <2>4, <2>6
  <2> HIDE DEF r
  <2>. QED BY <1>1, <2>1, <2>5, <2>7
<1>6. r \in [n : 0 .. Count[1], usd : 0 .. Volume[1]]
  BY <1>3, <1>4
<1> HIDE DEF r
<1>7. /\ Tally(st, t) \in Tallies /\ Tally(st, t)[w] = r
      /\ \A x \in Wallets : x # w => Tally(st, t)[x] = st[x]
  BY <1>1, <1>5, <1>6 DEF Tallies
<1>8. r.n >= st[w].n /\ r.n <= st[w].n + 1 /\ r.usd >= st[w].usd
  BY <1>3, <1>4 DEF r
<1>9. \A x \in Wallets : st[x].n \in Nat /\ st[x].usd \in Nat
  BY <1>1 DEF Tallies
<1>. QED BY <1>1, <1>7, <1>8, <1>9 DEF NoLess

(* One row keeps the types, takes nothing from a tally and counts a         *)
(* transaction that was not seen.                                           *)
LEMMA RowStep ==
    ASSUME TradesTypeOK, NEW acc \in Accs, NEW i \in Made
    PROVE  /\ TakeRow(acc, i) \in Accs
           /\ NoLess(acc.stats, TakeRow(acc, i).stats)
           /\ Once(acc) => Once(TakeRow(acc, i))
<1> DEFINE next == TakeRow(acc, i)
           t == Tape[i]
<1>1. t \in Trade /\ t.tx \in Txs /\ t.wallet \in Wallets
  BY TapeIsTyped DEF Txs, Trade
<1>2. /\ acc.seen \in SUBSET Txs /\ acc.stats \in Tallies /\ acc.queue \in Seq(Made)
      /\ acc.done \in BOOLEAN /\ acc.raised \in BOOLEAN
      /\ acc = [seen |-> acc.seen, stats |-> acc.stats, queue |-> acc.queue,
                done |-> acc.done, raised |-> acc.raised]
  BY DEF Accs
<1>3. NoLess(acc.stats, acc.stats)
  <2>1. \A x \in Wallets : acc.stats[x].n \in Nat /\ acc.stats[x].usd \in Nat
    BY <1>2, TierAssumption DEF Tallies
  <2>. QED BY <2>1 DEF NoLess
<1>4. CASE acc.done \/ t.tx \in acc.seen
  BY <1>3, <1>4 DEF TakeRow
<1>5. CASE ~ (acc.done \/ t.tx \in acc.seen)
  <2> DEFINE more == acc.seen \cup {t.tx}
  <2>1. next.seen = more /\ more \in SUBSET Txs /\ next \in Accs
        /\ next.stats \in {acc.stats, Tally(acc.stats, t)}
    <3>1. Append(acc.queue, i) \in Seq(Made)
      BY <1>2
    <3>2. Tally(acc.stats, t) \in Tallies /\ more \in SUBSET Txs
      BY <1>1, <1>2, TallyGrows
    <3>3. \E st \in {acc.stats, Tally(acc.stats, t)}, q \in {acc.queue, Append(acc.queue, i)},
             d \in {acc.done, TRUE}, e \in {acc.raised, TRUE} :
             next = [seen |-> more, stats |-> st, queue |-> q, done |-> d, raised |-> e]
      BY <1>2, <1>5 DEF TakeRow
    <3> HIDE DEF next, more
    <3>4. PICK st \in {acc.stats, Tally(acc.stats, t)}, q \in {acc.queue, Append(acc.queue, i)},
               d \in {acc.done, TRUE}, e \in {acc.raised, TRUE} :
             next = [seen |-> more, stats |-> st, queue |-> q, done |-> d, raised |-> e]
      BY <3>3
    <3>5. st \in Tallies /\ q \in Seq(Made) /\ d \in BOOLEAN /\ e \in BOOLEAN
      BY <1>2, <3>1, <3>2
    <3>6. next \in Accs
      BY <3>2, <3>4, <3>5 DEF Accs
    <3>7. next.seen = more /\ next.stats = st
      BY <3>4
    <3>. QED BY <3>2, <3>6, <3>7
  <2>2. NoLess(acc.stats, next.stats)
    BY <1>1, <1>2, <1>3, <2>1, TallyGrows
  <2>3. ASSUME Once(acc), NEW w \in Wallets
        PROVE  next.stats[w].n <= Cardinality(TxsOf(w) \cap next.seen)
    <3> DEFINE before == TxsOf(w) \cap acc.seen
               after == TxsOf(w) \cap more
    <3>1. IsFiniteSet(after) /\ before \subseteq after /\ IsFiniteSet(before)
      BY TapeIsTyped, FS_Subset
    <3>2. Cardinality(before) \in Nat /\ Cardinality(after) \in Nat
          /\ Cardinality(before) <= Cardinality(after)
      BY <3>1, FS_Subset, FS_CardinalityType
    <3>3. acc.stats[w].n \in Nat /\ next.stats[w].n \in Nat
          /\ acc.stats[w].n <= Cardinality(before)
      BY <1>2, <2>1, <2>3, TierAssumption DEF Once, Accs, Tallies
    <3>4. CASE w = t.wallet
      <4>1. t.tx \in TxsOf(w) /\ t.tx \notin before /\ after = before \cup {t.tx}
        BY <1>5, <3>4 DEF TxsOf
      <4>2. Cardinality(after) = Cardinality(before) + 1
        BY <3>1, <4>1, FS_AddElement
      <4>3. next.stats[w].n <= acc.stats[w].n + 1
        BY <1>1, <1>2, <2>1, <3>3, <3>4, TallyGrows
      <4> HIDE DEF before, after, more, next
      <4>. QED BY <2>1, <3>2, <3>3, <4>2, <4>3 DEF after
    <3>5. CASE w # t.wallet
      <4>1. next.stats[w] = acc.stats[w]
        BY <1>1, <1>2, <2>1, <3>5, TallyGrows
      <4> HIDE DEF before, after, more, next
      <4>. QED BY <2>1, <3>2, <3>3, <4>1 DEF after
    <3>. QED BY <3>4, <3>5
  <2>. QED BY <2>1, <2>2, <2>3 DEF Once
<1>. QED BY <1>4, <1>5

(* Tallies that lose nothing in either of two steps lose nothing in both.   *)
LEMMA NoLessTrans ==
    ASSUME NEW x \in Tallies, NEW y \in Tallies, NEW z \in Tallies, NoLess(x, y), NoLess(y, z)
    PROVE  NoLess(x, z)
<1>1. \A s \in Tallies : \A w \in Wallets : s[w].n \in Nat /\ s[w].usd \in Nat
  BY TierAssumption DEF Tallies
<1>. QED BY <1>1 DEF NoLess

(* A page lists trades that were made.                                      *)
LEMMA PageIsTyped ==
    ASSUME TradesTypeOK
    PROVE  Page \in Seq(Made)
<1> DEFINE n == Len(madeAt)
           S == {PageSize, n}
<1>1. n \in Nat /\ PageSize \in Nat /\ Made = 1 .. n
  BY TapeIsTyped, SizeAssumption
<1>2. Min(S) \in Nat /\ Min(S) <= n
  <2>1. \E x \in S : \A y \in S : x <= y
    BY <1>1
  <2>2. Min(S) \in S /\ \A y \in S : Min(S) <= y
    <3> HIDE DEF S
    <3>. QED BY <2>1 DEF Min
  <2>. QED BY <1>1, <2>2
<1>3. Page = [j \in 1 .. Min(S) |-> n + 1 - j]
  BY DEF Page
<1> HIDE DEF S, n
<1>4. \A j \in 1 .. Min(S) : n + 1 - j \in Made
  BY <1>1, <1>2
<1>. QED BY <1>2, <1>3, <1>4

(* What the poller makes of a page: the rows were taken one after the other *)
(* from what it remembered, and a cut forgets only.                         *)
LEMMA PollStep ==
    ASSUME TradesTypeOK, Poll
    PROVE  \E acc \in Accs :
              /\ NoLess(stats, acc.stats) /\ stats' = acc.stats
              /\ TalliedOnce => halved \/ Once(acc)
              /\ seenTx' \in SUBSET acc.seen /\ halved' \in BOOLEAN
              /\ ~ halved' => ~ halved /\ seenTx' = acc.seen
              /\ tradeQueue' = acc.queue
<1> DEFINE n == Len(Page)
           start == [seen |-> seenTx, stats |-> stats, queue |-> tradeQueue,
                     done |-> FALSE, raised |-> FALSE]
           Body(f) == [j \in 0 .. n |-> IF j = 0 THEN start ELSE TakeRow(f[j - 1], Page[j])]
           after == CHOOSE f : f = Body(f)
<1>1. n \in Nat /\ \A j \in 1 .. n : Page[j] \in Made
  BY PageIsTyped
<1>2. start \in Accs /\ start.stats = stats /\ (TalliedOnce => halved \/ Once(start))
  BY DEF TradesTypeOK, Accs, Tallies, Txs, TalliedOnce, Once, TxsOf
<1> HIDE DEF start, n
<1>3. after \in [0 .. n -> Accs] /\ after = Body(after)
  <2> DEFINE g == [p \in Accs \X (1 .. n) |-> TakeRow(p[1], Page[p[2]])]
  <2>1. ASSUME NEW acc \in Accs, NEW j \in 1 .. n
        PROVE  TakeRow(acc, Page[j]) \in Accs /\ g[<<acc, j>>] = TakeRow(acc, Page[j])
    BY <1>1, RowStep
  <2>2. g \in [Accs \X (1 .. n) -> Accs]
    BY <2>1
  <2>3. PICK r \in [0 .. n -> Accs] : Recursion(r, n, start, g)
    <3>1. n \in Nat /\ start \in Accs
      BY <1>1, <1>2
    <3> HIDE DEF g
    <3>2. g \in StepsOf(Accs, n)
      BY <2>2 DEF StepsOf
    <3>. QED BY <3>1, <3>2, RecursionExists
  <2>4. ASSUME NEW j \in 0 .. n
        PROVE  r[j] = IF j = 0 THEN start ELSE TakeRow(r[j - 1], Page[j])
    <3>1. CASE j # 0
      <4>1. j \in 1 .. n /\ r[j - 1] \in Accs
        BY <1>1, <3>1
      <4> HIDE DEF g
      <4>. QED BY <2>1, <2>3, <3>1, <4>1 DEF Recursion
    <3>. QED BY <2>3, <3>1 DEF Recursion
  <2>5. r = Body(r)
    <3> HIDE DEF g
    <3>. QED BY <2>4
  <2>6. after = Body(after)
    <3> HIDE DEF Body
    <3>. QED BY <2>5
  <2>7. ASSUME NEW f, f = Body(f) PROVE f \in [0 .. n -> Accs]
    <3> DEFINE Fails == {j \in 0 .. n : f[j] \notin Accs}
    <3>1. \A j \in 0 .. n : f[j] = IF j = 0 THEN start ELSE TakeRow(f[j - 1], Page[j])
      BY <2>7
    <3>2. 0 \notin Fails
      BY <1>1, <1>2, <3>1
    <3>3. ASSUME NEW j \in 1 .. n, j \in Fails PROVE j - 1 \in Fails
      <4>1. j \in 0 .. n /\ j - 1 \in 0 .. n /\ j # 0
        BY <1>1
      <4>. QED BY <1>1, <3>1, <3>3, <4>1, RowStep
    <3>4. Fails = {}
      <4>0. Fails \in SUBSET (0 .. n)
        OBVIOUS
      <4> HIDE DEF Fails
      <4>. QED BY <1>1, <3>2, <3>3, <4>0, NoFirstFailure
    <3>. QED BY <2>7, <3>4
  <2>. QED BY <2>6, <2>7
<1>4. ASSUME NEW f, f = Body(f)
      PROVE  \A j \in 0 .. n : f[j] = IF j = 0 THEN start ELSE TakeRow(f[j - 1], Page[j])
  BY <1>4
<1>5. /\ \A j \in 1 .. n : after[j] = TakeRow(after[j - 1], Page[j])
      /\ after[0] = start
  <2> HIDE DEF after
  <2>1. \A j \in 0 .. n : after[j] = IF j = 0 THEN start ELSE TakeRow(after[j - 1], Page[j])
    BY <1>3, <1>4
  <2>. QED BY <1>1, <2>1
<1>6. /\ after[n] \in Accs
      /\ seenTx' \in SUBSET after[n].seen /\ halved' \in BOOLEAN
      /\ ~ halved' => ~ halved /\ seenTx' = after[n].seen
      /\ stats' = after[n].stats /\ tradeQueue' = after[n].queue
  <2>1. after[n] \in Accs
    BY <1>1, <1>3
  <2>. QED BY <2>1, SizeAssumption DEF Poll, TradesTypeOK, n, start, Accs
<1> HIDE DEF after
<1>7. \A j \in 0 .. n : NoLess(stats, after[j].stats)
                        /\ (TalliedOnce => halved \/ Once(after[j]))
  <2> DEFINE Good(j) == NoLess(stats, after[j].stats)
                        /\ (TalliedOnce => halved \/ Once(after[j]))
             Fails == {j \in 0 .. n : ~ Good(j)}
  <2>1. 0 \notin Fails
    <3>1. NoLess(stats, stats)
      BY TierAssumption DEF NoLess, TradesTypeOK
    <3>. QED BY <1>2, <1>5, <3>1
  <2>2. ASSUME NEW j \in 1 .. n, j \in Fails PROVE j - 1 \in Fails
    <3>1. j - 1 \in 0 .. n /\ j \in 0 .. n /\ Page[j] \in Made
      BY <1>1
    <3>2. after[j - 1] \in Accs /\ after[j] \in Accs /\ after[j] = TakeRow(after[j - 1], Page[j])
      BY <1>3, <1>5, <3>1
    <3>3. /\ NoLess(after[j - 1].stats, after[j].stats)
          /\ Once(after[j - 1]) => Once(after[j])
      BY <3>1, <3>2, RowStep
    <3>4. /\ stats \in Tallies /\ after[j].stats \in Tallies /\ after[j - 1].stats \in Tallies
      BY <3>2 DEF Accs, Tallies, TradesTypeOK
    <3>5. Good(j - 1) => Good(j)
      BY <3>3, <3>4, NoLessTrans
    <3>. QED BY <2>2, <3>1, <3>5
  <2>3. Fails = {}
    <3>0. Fails \in SUBSET (0 .. n)
      OBVIOUS
    <3> HIDE DEF Fails
    <3>. QED BY <1>1, <2>1, <2>2, <3>0, NoFirstFailure
  <2>. QED BY <2>3
<1>. QED BY <1>1, <1>6, <1>7

(* What a wallet has traded so far is finite.                               *)
LEMMA TxsAreFinite ==
    ASSUME NEW n \in Nat, NEW w
    PROVE  IsFiniteSet({Tape[i].tx : i \in {j \in 1 .. n : Tape[j].wallet = w}})
<1> DEFINE Mine == {j \in 1 .. n : Tape[j].wallet = w}
           S == {Tape[i].tx : i \in Mine}
           f == [i \in Mine |-> Tape[i].tx]
<1>1. IsFiniteSet(1 .. n) /\ Mine \subseteq 1 .. n
  BY FS_Interval
<1>2. IsFiniteSet(Mine)
  BY <1>1, FS_Subset
<1>3. f \in Surjection(Mine, S)
  BY DEF Surjection
<1>4. IsFiniteSet(S)
  <2> HIDE DEF f, S, Mine
  <2>. QED BY <1>2, <1>3, FS_Surjection
<1>. QED BY <1>4

(* At the start nothing is tallied, noted or queued.                        *)
LEMMA TradesInitInv == TradesInit => TradesInv
<1> SUFFICES ASSUME TradesInit PROVE TradesInv
  OBVIOUS
<1> USE DEF TradesInit
<1>1. Count[1] \in Nat /\ Volume[1] \in Nat /\ MaxTime \in Nat /\ Len(Tape) \in Nat
  BY TierAssumption, SizeAssumption, TapeAssumption
<1>2. TradesTypeOK
  <2>1. /\ madeAt \in Seq(0 .. MaxTime) /\ tradeQueue \in Seq(Made)
        /\ Len(madeAt) <= Len(Tape) /\ now \in 0 .. MaxTime
    BY <1>1
  <2>2. stats \in [Wallets -> [n : 0 .. Count[1], usd : 0 .. Volume[1]]]
    <3>1. 0 \in 0 .. Count[1] /\ 0 \in 0 .. Volume[1]
      BY <1>1
    <3>. QED BY <3>1
  <2>3. /\ seenTx \subseteq {Tape[i].tx : i \in Made} /\ halved \in BOOLEAN
        /\ tier \in [Wallets -> 0 .. 3]
        /\ flows \subseteq [trade : Made, tier : 1 .. 3]
        /\ cluster \subseteq [trade : Made, tier : 1 .. 3]
    <3>1. tier \in [Wallets -> 0 .. 3]
      BY DEF NoTier
    <3>2. seenTx = {} /\ flows = {} /\ cluster = {} /\ halved \in BOOLEAN
      OBVIOUS
    <3> HIDE DEF TradesInit
    <3>. QED BY <3>1, <3>2
  <2> HIDE DEF TradesInit
  <2>. QED BY <2>1, <2>2, <2>3 DEF TradesTypeOK
<1>3. TiersAreEarned /\ FlowsAreEarned
  BY DEF TiersAreEarned, FlowsAreEarned, NoTier
<1>4. TalliedOnce
  <2>1. ASSUME NEW w \in Wallets
        PROVE  stats[w].n <= Cardinality(
                  {Tape[i].tx : i \in {j \in Made : Tape[j].wallet = w}} \cap seenTx)
    <3>1. {Tape[i].tx : i \in {j \in Made : Tape[j].wallet = w}} \cap seenTx = {}
      OBVIOUS
    <3>. QED BY <3>1, FS_EmptySet
  <2>. QED BY <2>1 DEF TalliedOnce
<1>. QED BY <1>2, <1>3, <1>4 DEF TradesInv

(* A new trade adds a transaction to those its wallet has made, and nothing *)
(* to a tally.                                                              *)
LEMMA MakeTradeInv == ASSUME TradesInv, MakeTrade PROVE TradesInv'
<1> USE DEF MakeTrade, feedVars
<1>1. TradesTypeOK
  BY DEF TradesInv
<1>2. /\ Made = 1 .. Len(madeAt) /\ Len(madeAt) \in Nat /\ Len(Tape) \in Nat
      /\ now \in 0 .. MaxTime /\ madeAt \in Seq(0 .. MaxTime)
  BY <1>1, TapeIsTyped DEF TradesTypeOK
<1>3. /\ madeAt' \in Seq(0 .. MaxTime) /\ Len(madeAt') = Len(madeAt) + 1
      /\ Made' = 1 .. Len(madeAt) + 1 /\ Made \subseteq Made'
  BY <1>2 DEF Made
<1>4. TradesTypeOK'
  <2>1. Len(madeAt') <= Len(Tape)
    BY <1>2, <1>3
  <2>2. tradeQueue \in Seq(Made')
    <3>1. tradeQueue \in Seq(Made)
      BY <1>1 DEF TradesTypeOK
    <3> HIDE DEF MakeTrade
    <3>. QED BY <1>3, <3>1, LargerSeq
  <2>3. seenTx \subseteq {Tape[i].tx : i \in Made'}
    <3>1. seenTx \subseteq {Tape[i].tx : i \in Made}
      BY <1>1 DEF TradesTypeOK
    <3> HIDE DEF MakeTrade
    <3>. QED BY <1>3, <3>1, Zenon
  <2>. QED BY <1>1, <1>3, <2>1, <2>2, <2>3 DEF TradesTypeOK
<1>5. TiersAreEarned' /\ FlowsAreEarned'
  BY DEF TradesInv, TiersAreEarned, FlowsAreEarned, Justified
<1>6. ASSUME NEW w \in Wallets, ~ halved
      PROVE  stats[w].n <= Cardinality(
                {Tape[i].tx : i \in {j \in Made' : Tape[j].wallet = w}} \cap seenTx)
  <2> DEFINE before == {Tape[i].tx : i \in {j \in Made : Tape[j].wallet = w}} \cap seenTx
             all == {Tape[i].tx : i \in {j \in Made' : Tape[j].wallet = w}}
             after == all \cap seenTx
  <2>1. before \subseteq after /\ after \subseteq all
    BY <1>3
  <2>2. IsFiniteSet(all)
    <3>1. /\ Len(madeAt) + 1 \in Nat
          /\ all = {Tape[i].tx : i \in {j \in 1 .. Len(madeAt) + 1 : Tape[j].wallet = w}}
      BY <1>2, <1>3
    <3> HIDE DEF all
    <3>. QED BY <3>1, TxsAreFinite
  <2>3. stats[w].n <= Cardinality(before) /\ stats[w].n \in Nat
    <3>1. stats[w].n \in Nat
      BY <1>1, TierAssumption DEF TradesTypeOK
    <3>2. stats[w].n <= Cardinality(before)
      BY <1>6 DEF TradesInv, TalliedOnce
    <3>. QED BY <3>1, <3>2
  <2> HIDE DEF before, all, after
  <2>4. IsFiniteSet(after)
    BY <2>1, <2>2, FS_Subset
  <2>5. /\ Cardinality(before) <= Cardinality(after)
        /\ Cardinality(before) \in Nat /\ Cardinality(after) \in Nat
    BY <2>1, <2>4, FS_Subset, FS_CardinalityType
  <2>6. stats[w].n <= Cardinality(after)
    BY <2>3, <2>5
  <2>. QED BY <2>6 DEF after, all
<1>7. TalliedOnce'
  BY <1>6 DEF TalliedOnce
<1>. QED BY <1>4, <1>5, <1>7 DEF TradesInv

(* A page is taken row by row; if the seen set is cut, the count is not     *)
(* claimed any more.                                                        *)
LEMMA PollInv == ASSUME TradesInv, Poll PROVE TradesInv'
<1>1. TradesTypeOK /\ TalliedOnce
  BY DEF TradesInv
<1>2. UNCHANGED <<now, madeAt, flows, cluster, tier>> /\ Made' = Made
  BY DEF Poll, Made
<1>3. PICK acc \in Accs :
              /\ NoLess(stats, acc.stats) /\ stats' = acc.stats
              /\ TalliedOnce => halved \/ Once(acc)
              /\ seenTx' \in SUBSET acc.seen /\ halved' \in BOOLEAN
              /\ ~ halved' => ~ halved /\ seenTx' = acc.seen
              /\ tradeQueue' = acc.queue
  BY <1>1, PollStep
<1>4. /\ acc.seen \in SUBSET Txs /\ acc.stats \in Tallies /\ acc.queue \in Seq(Made)
  BY DEF Accs
<1>5. TradesTypeOK'
  <2>1. stats' \in [Wallets -> [n : 0 .. Count[1], usd : 0 .. Volume[1]]]
    BY <1>3, <1>4 DEF Tallies
  <2>2. seenTx' \subseteq {Tape[i].tx : i \in Made}
    BY <1>3, <1>4 DEF Txs
  <2>. QED BY <1>1, <1>2, <1>3, <1>4, <2>1, <2>2 DEF TradesTypeOK
<1>6. ASSUME NEW w \in Wallets, NEW k \in 1 .. 2, Justified(w, k) PROVE Justified(w, k)'
  <2>1. /\ stats[w].n \in Nat /\ stats[w].usd \in Nat
        /\ acc.stats[w].n \in Nat /\ acc.stats[w].usd \in Nat
        /\ Volume[k] \in Nat /\ Count[k] \in Nat
    BY <1>1, <1>4, TierAssumption DEF TradesTypeOK, Tallies
  <2>2. stats[w].n <= acc.stats[w].n /\ stats[w].usd <= acc.stats[w].usd
    BY <1>3 DEF NoLess
  <2>. QED BY <1>3, <1>6, <2>1, <2>2 DEF Justified
<1>7. TiersAreEarned'
  BY <1>2, <1>6 DEF TradesInv, TiersAreEarned
<1>8. FlowsAreEarned'
  <2>1. ASSUME NEW f \in flows \cup cluster PROVE Tape[f.trade].wallet \in Wallets
    BY <1>1, TapeIsTyped DEF TradesTypeOK, Trade
  <2>. QED BY <1>2, <1>6, <2>1 DEF TradesInv, FlowsAreEarned
<1>9. TalliedOnce'
  <2>1. ASSUME ~ halved', NEW w \in Wallets
        PROVE  stats'[w].n <= Cardinality(
                  {Tape[i].tx : i \in {j \in Made' : Tape[j].wallet = w}} \cap seenTx')
    <3>1. acc.stats[w].n <= Cardinality(TxsOf(w) \cap acc.seen)
      BY <1>1, <1>3, <2>1 DEF Once
    <3>. QED BY <1>2, <1>3, <2>1, <3>1 DEF TxsOf
  <2>. QED BY <2>1 DEF TalliedOnce
<1>. QED BY <1>5, <1>7, <1>8, <1>9 DEF TradesInv

(* The builder notes the tier its wallet has now, which the tallies         *)
(* justify.                                                                 *)
LEMMA ConsumeInv == ASSUME TradesInv, Consume PROVE TradesInv'
<1> DEFINE i == Head(tradeQueue)
           w == Tape[i].wallet
           new == [trade |-> i, tier |-> TierOf(w)]
<1>1. TradesTypeOK
  BY DEF TradesInv
<1>2. UNCHANGED <<now, madeAt, feedVars, tier>> /\ Made' = Made
  BY DEF Consume, Made
<1>3. i \in Made /\ tradeQueue' \in Seq(Made) /\ w \in Wallets
  BY <1>1, TapeIsTyped DEF TradesTypeOK, Consume, Trade
<1>4. tier[w] \in 0 .. 3 /\ TierOf(w) \in 1 .. 3 /\ (TierOf(w) # 3 => TierOf(w) = tier[w])
  BY <1>1, <1>3 DEF TradesTypeOK, TierOf, NoTier
<1>5. new \in [trade : Made, tier : 1 .. 3]
  BY <1>3, <1>4
<1>6. \/ flows' = flows /\ cluster' = cluster
      \/ /\ Tape[i].side = "BUY" /\ flows' \subseteq flows \cup {new}
         /\ cluster' \subseteq cluster \cup flows \cup {new}
  <2> DEFINE kept == Recent(flows \cup {new}, Window)
  <2>1. kept \subseteq flows \cup {new} /\ Recent(kept, Decay) \subseteq kept
    BY DEF Recent
  <2>2. CASE Tape[i].side = "BUY" /\ Tape[i].usd > 0
    <3>1. flows' = kept /\ (cluster' = cluster \/ cluster' = Recent(kept, Decay))
      BY <2>2 DEF Consume
    <3> HIDE DEF kept
    <3>. QED BY <2>1, <2>2, <3>1
  <2>3. CASE ~ (Tape[i].side = "BUY" /\ Tape[i].usd > 0)
    BY <2>3 DEF Consume
  <2>. QED BY <2>2, <2>3
<1> HIDE DEF new
<1>7. TradesTypeOK'
  <2>1. flows' \subseteq [trade : Made, tier : 1 .. 3] /\ cluster' \subseteq [trade : Made, tier : 1 .. 3]
    BY <1>1, <1>5, <1>6 DEF TradesTypeOK
  <2>. QED BY <1>1, <1>2, <1>3, <2>1 DEF TradesTypeOK, feedVars
<1>8. TiersAreEarned'
  BY <1>2 DEF TradesInv, TiersAreEarned, Justified, feedVars
<1>9. FlowsAreEarned'
  <2>1. ASSUME NEW f \in flows' \cup cluster'
        PROVE  /\ Tape[f.trade].side = "BUY"
               /\ f.tier \in 1 .. 2 => Justified(Tape[f.trade].wallet, f.tier)
    <3>1. CASE f \in flows \cup cluster
      BY <3>1 DEF TradesInv, FlowsAreEarned
    <3>2. CASE f \notin flows \cup cluster
      <4>1. f = new /\ Tape[i].side = "BUY"
        BY <1>6, <2>1, <3>2
      <4>2. f.trade = i /\ f.tier = TierOf(w)
        BY <4>1 DEF new
      <4>3. f.tier \in 1 .. 2 => Justified(w, f.tier)
        BY <1>3, <1>4, <4>2 DEF TradesInv, TiersAreEarned
      <4>. QED BY <4>1, <4>2, <4>3
    <3>. QED BY <3>1, <3>2
  <2>2. ASSUME NEW f, NEW k PROVE Justified(f, k)' <=> Justified(f, k)
    BY <1>2 DEF Justified, feedVars
  <2>. QED BY <2>1, <2>2 DEF FlowsAreEarned
<1>10. TalliedOnce'
  BY <1>2 DEF TradesInv, TalliedOnce, feedVars
<1>. QED BY <1>7, <1>8, <1>9, <1>10 DEF TradesInv

(* The loop gives out the tiers the tallies justify.                        *)
LEMMA ClassifyInv == ASSUME TradesInv, Classify PROVE TradesInv'
<1>1. TradesTypeOK
  BY DEF TradesInv
<1>2. UNCHANGED <<now, madeAt, feedVars, tradeQueue, flows, cluster>> /\ Made' = Made
  BY DEF Classify, Made
<1>3. ASSUME NEW w \in Wallets
      PROVE  Class(w) \in 1 .. 3 /\ (Class(w) \in 1 .. 2 => Justified(w, Class(w)))
  BY DEF Class, Justified
<1>4. tier' \in [Wallets -> 0 .. 3]
      /\ \A w \in Wallets : tier'[w] = Class(w) \/ tier'[w] = tier[w]
  BY <1>1, <1>3 DEF Classify, TradesTypeOK
<1>5. TradesTypeOK'
  BY <1>1, <1>2, <1>4 DEF TradesTypeOK, feedVars
<1>6. \A w, k : Justified(w, k)' <=> Justified(w, k)
  BY <1>2 DEF Justified, feedVars
<1>7. TiersAreEarned'
  BY <1>3, <1>4, <1>6 DEF TradesInv, TiersAreEarned
<1>8. FlowsAreEarned'
  BY <1>2, <1>6 DEF TradesInv, FlowsAreEarned
<1>9. TalliedOnce'
  BY <1>2 DEF TradesInv, TalliedOnce, feedVars
<1>. QED BY <1>5, <1>7, <1>8, <1>9 DEF TradesInv

(* Every step of the trade feed keeps the invariant.                        *)
LEMMA TradesNextInv == TradesInv /\ [TradesNext]_tradesVars => TradesInv'
<1> SUFFICES ASSUME TradesInv, [TradesNext]_tradesVars PROVE TradesInv'
  OBVIOUS
<1>1. CASE MakeTrade
  BY <1>1, MakeTradeInv
<1>2. CASE Tick \/ UNCHANGED tradesVars
  <2>1. /\ UNCHANGED <<madeAt, feedVars, tradeQueue, flows, cluster, tier>>
        /\ now' \in 0 .. MaxTime /\ Made' = Made
    BY <1>2, SizeAssumption DEF Tick, tradesVars, TradesInv, TradesTypeOK, Made
  <2>2. TradesTypeOK'
    BY <2>1 DEF TradesInv, TradesTypeOK, feedVars
  <2>3. TiersAreEarned' /\ FlowsAreEarned' /\ TalliedOnce'
    BY <2>1 DEF TradesInv, TiersAreEarned, FlowsAreEarned, TalliedOnce, Justified, feedVars
  <2>. QED BY <2>2, <2>3 DEF TradesInv
<1>3. CASE Poll
  BY <1>3, PollInv
<1>4. CASE Consume
  BY <1>4, ConsumeInv
<1>5. CASE Classify
  BY <1>5, ClassifyInv
<1>. QED BY <1>1, <1>2, <1>3, <1>4, <1>5 DEF TradesNext

(* Tiers that were given and the tiers noted with flows are justified by    *)
(* tallies that never shrink, and no tally counts a transaction twice       *)
(* (_dedupe_and_enqueue, classify_wallet, the cluster builder).             *)
THEOREM TradesInvariance == TradesSpec => []TradesInv
BY TradesInitInv, TradesNextInv, PTL DEF TradesSpec

(* Pages, tallies, flows and tiers always hold values of their types        *)
(* (polymarket_trades.py, cluster_builder.py).                              *)
THEOREM TradesTypeCorrect == TradesSpec => []TradesTypeOK
<1>1. TradesInv => TradesTypeOK
  BY DEF TradesInv
<1>. QED BY <1>1, TradesInvariance, PTL

(* As long as the seen set has not been cut, no transaction is tallied      *)
(* twice (_dedupe_and_enqueue).                                             *)
THEOREM NothingTalliedTwice == TradesSpec => []TalliedOnce
<1>1. TradesInv => TalliedOnce
  BY DEF TradesInv
<1>. QED BY <1>1, TradesInvariance, PTL

(* Every backer of a signal bought, and has the tallies of its tier.        *)
LEMMA SignalFromTallies == TradesInv => SignalIsBacked
<1> SUFFICES ASSUME TradesInv, Signal # NoSignal PROVE SignalIsBacked
  BY DEF SignalIsBacked
<1> DEFINE k == Signal.tier
           d == Signal.dir
           following == {w \in Wallets : Bought(w, d)
                             /\ stats[w].usd >= Volume[k] /\ stats[w].n >= Count[k]}
<1>1. TradesTypeOK
  BY DEF TradesInv
<1>2. /\ k \in 1 .. 2 /\ d \in {"YES", "NO"} /\ Enough(d, k)
      /\ Signal.size = Cardinality(Backers(d, k))
  <2>1. \E j \in 1 .. 2, e \in {"YES", "NO"} : Enough(e, j)
    BY DEF Signal
  <2> DEFINE j == IF \E e \in {"YES", "NO"} : Enough(e, 1) THEN 1 ELSE 2
             e == IF Enough("YES", j) THEN "YES" ELSE "NO"
  <2>2. j \in 1 .. 2 /\ e \in {"YES", "NO"} /\ Enough(e, j)
    BY <2>1
  <2>3. Signal = [dir |-> e, tier |-> j, size |-> Cardinality(Backers(e, j))]
    BY <2>1 DEF Signal
  <2> HIDE DEF e, j
  <2>. QED BY <2>2, <2>3
<1> HIDE DEF k, d
<1>3. ASSUME NEW w \in Backers(d, k) PROVE w \in following
  <2>1. PICK f \in Eligible(d) : FlowTier(f) = k /\ w = Tape[f.trade].wallet
    BY DEF Backers
  <2>2. /\ f \in cluster /\ madeAt[f.trade] + Decay >= now
        /\ Tape[f.trade].dir = d /\ Tape[f.trade].usd >= MinUsd
    BY DEF Eligible, Recent
  <2>3. f.trade \in Made /\ w \in Wallets /\ Tape[f.trade].side = "BUY"
    BY <1>1, <2>1, <2>2, TapeIsTyped DEF TradesTypeOK, Trade, TradesInv, FlowsAreEarned
  <2>4. Bought(w, d)
    BY <2>1, <2>2, <2>3 DEF Bought
  <2>5. Justified(w, k)
    BY <1>2, <2>1, <2>2, <2>3 DEF FlowTier, TradesInv, TiersAreEarned, FlowsAreEarned
  <2>. QED BY <2>3, <2>4, <2>5 DEF Justified
<1>4. IsFiniteSet(following)
  <2> DEFINE traders == {Tape[i].wallet : i \in Made}
             f == [i \in Made |-> Tape[i].wallet]
  <2>1. IsFiniteSet(Made)
    BY <1>1, TapeIsTyped, FS_Interval
  <2>2. f \in Surjection(Made, traders)
    BY DEF Surjection
  <2>3. IsFiniteSet(traders)
    <3> HIDE DEF f, traders
    <3>. QED BY <2>1, <2>2, FS_Surjection
  <2>4. following \subseteq traders
    BY DEF Bought
  <2> HIDE DEF following, traders
  <2>. QED BY <2>3, <2>4, FS_Subset
<1>5. /\ Cardinality(Backers(d, k)) <= Cardinality(following)
      /\ Cardinality(Backers(d, k)) \in Nat /\ Cardinality(following) \in Nat
  <2> HIDE DEF following
  <2>. QED BY <1>3, <1>4, FS_Subset, FS_CardinalityType
<1>6. Cardinality(following) >= MinCluster[k] /\ Signal.size <= Cardinality(following)
  <2> HIDE DEF following
  <2>1. Cardinality(Backers(d, k)) >= MinCluster[k] /\ MinCluster[k] \in Nat
    BY <1>2, TierAssumption DEF Enough
  <2>. QED BY <1>2, <1>5, <2>1
<1>. QED BY <1>6 DEF SignalIsBacked, k, d

(* A signal has the wallets behind it that it claims to follow (evaluate of *)
(* the smart money strategy).                                               *)
THEOREM SignalsAreBacked == TradesSpec => []SignalIsBacked
BY TradesInvariance, SignalFromTallies, PTL

-----------------------------------------------------------------------------
(* News: batches, rounds and rows.                                          *)

(* What the processor is handed, row by row.                                *)
LEMMA UnprocessedSteps ==
    ASSUME NewsTypeOK
    PROVE  \E r : /\ r[0] = <<>>
                  /\ \A i \in 1 .. Len(articles) :
                        r[i] = AddUnprocessed(r[i - 1], Reverse(articles)[i])
                  /\ Unprocessed = r[Len(articles)]
<1> DEFINE n == Len(articles)
           seq == Reverse(articles)
           A == Seq(Articles)
           Body(h) == [s \in SUBSET (1 .. n) |-> IF s = {} THEN <<>>
                         ELSE AddUnprocessed(h[s \ {Max(s)}], seq[Max(s)])]
           iter == CHOOSE h : h = Body(h)
           g == [p \in A \X (1 .. n) |-> AddUnprocessed(p[1], seq[p[2]])]
<1>1. n \in Nat /\ seq \in Seq(Articles) /\ DOMAIN seq = 1 .. n /\ <<>> \in A
  BY DEF NewsTypeOK, Reverse
<1>2. Unprocessed = iter[1 .. n]
  BY <1>1 DEF Unprocessed, FoldLeft, MapThenFoldSet
<1> HIDE DEF n, seq
<1>3. g \in StepsOf(A, n)
        /\ \A a \in A, i \in 1 .. n : g[<<a, i>>] = AddUnprocessed(a, seq[i])
  BY <1>1 DEF StepsOf, AddUnprocessed
<1>4. PICK h \in [SUBSET (1 .. n) -> A] : FoldOf(h, n, <<>>, g)
  <2> HIDE DEF A, g
  <2>. QED BY <1>1, <1>3, FoldExists
<1>5. h = Body(h)
  <2>1. ASSUME NEW s \in SUBSET (1 .. n)
        PROVE h[s] = IF s = {} THEN <<>> ELSE AddUnprocessed(h[s \ {Max(s)}], seq[Max(s)])
    <3>1. CASE s # {}
      <4>1. Max(s) \in 1 .. n /\ h[s \ {Max(s)}] \in A
        <5> HIDE DEF A
        <5>. QED BY <1>1, <3>1, LastPlace
      <4>2. h[s] = g[<<h[s \ {Max(s)}], Max(s)>>]
        BY <1>4, <3>1 DEF FoldOf
      <4> HIDE DEF A, g
      <4>. QED BY <1>3, <3>1, <4>1, <4>2
    <3>. QED BY <1>4, <3>1 DEF FoldOf
  <2>. QED BY <2>1
<1>6. iter = Body(iter)
  <2> HIDE DEF Body
  <2>. QED BY <1>5
<1>7. \A s \in SUBSET (1 .. n) :
        iter[s] = IF s = {} THEN <<>> ELSE AddUnprocessed(iter[s \ {Max(s)}], seq[Max(s)])
  <2>1. ASSUME NEW f, f = Body(f), NEW s \in SUBSET (1 .. n)
        PROVE f[s] = IF s = {} THEN <<>> ELSE AddUnprocessed(f[s \ {Max(s)}], seq[Max(s)])
    BY <2>1
  <2> HIDE DEF Body, iter
  <2>. QED BY <1>6, <2>1
<1> DEFINE r == [i \in 0 .. n |-> iter[1 .. i]]
<1> HIDE DEF iter
<1>8. r[0] = <<>> /\ r[n] = iter[1 .. n]
  <2>1. 1 .. 0 = {} /\ 0 \in 0 .. n /\ n \in 0 .. n
    BY <1>1
  <2>. QED BY <1>7, <2>1
<1>9. ASSUME NEW i \in 1 .. n PROVE r[i] = AddUnprocessed(r[i - 1], seq[i])
  <2>1. /\ i \in 0 .. n /\ i - 1 \in 0 .. n /\ 1 .. i \in SUBSET (1 .. n)
        /\ 1 .. i # {} /\ (1 .. i) \ {i} = 1 .. i - 1 /\ i \in 1 .. i
    BY <1>1, IntervalBut
  <2>2. Max(1 .. i) = i
    BY <1>1, <2>1, LastOfInterval
  <2>. QED BY <1>7, <2>1, <2>2
<1> HIDE DEF r
<1>. QED BY <1>2, <1>8, <1>9 DEF n, seq

(* The rows a strategy was given are rows of the table.                     *)
RowsAreKnown == \A m \in Markets : recentSignals[m] \subseteq DOMAIN signals

Injective(q) == \A i, j \in DOMAIN q : q[i] = q[j] => i = j

(* The batch of a pass has every article once, and none that is processed.  *)
Fresh(q, D) == Injective(q) /\ \A i \in DOMAIN q : q[i] \notin D
BatchIsFresh == Fresh(proc.todo, done) /\ (proc.pc # "idle" => proc.todo # <<>>)

(* An article has as many rows as unfinished rounds, or fewer, until it is  *)
(* processed, except for the pairs scored in the round that is under way.   *)
Silent(a, m) == Cardinality(RowsOf(a, m)) <= reruns[a]
UnderWay(a) == proc.pc = "score" /\ a = Head(proc.todo)
FreshAreSilent ==
    \A a \in Articles \ done, m \in Markets : (UnderWay(a) /\ m \notin proc.hits) \/ Silent(a, m)

NewsInv == NewsTypeOK /\ RowsAreKnown /\ Injective(articles) /\ BatchIsFresh
           /\ FreshAreSilent /\ OneVoicePerRound

ProcSet == [pc : {"idle", "embed", "match", "score"}, todo : Seq(Articles), hits : SUBSET Markets]

(* What is left of a batch is fresh, also when its first article is         *)
(* processed.                                                               *)
LEMMA TailIsFresh ==
    ASSUME NEW q \in Seq(Articles), q # <<>>, NEW D, Fresh(q, D)
    PROVE  /\ Fresh(Tail(q), D) /\ Fresh(Tail(q), D \cup {Head(q)})
           /\ Head(q) \in Articles /\ Head(q) \notin D /\ Tail(q) \in Seq(Articles)
<1>1. /\ Tail(q) \in Seq(Articles) /\ Head(q) = q[1] /\ 1 \in DOMAIN q
      /\ \A i \in DOMAIN Tail(q) : i + 1 \in DOMAIN q /\ Tail(q)[i] = q[i + 1] /\ i + 1 # 1
      /\ DOMAIN Tail(q) \subseteq Nat
  OBVIOUS
<1>2. \A i, j \in DOMAIN Tail(q) : Tail(q)[i] = Tail(q)[j] => i = j
  BY <1>1 DEF Fresh, Injective
<1>3. \A i \in DOMAIN Tail(q) : Tail(q)[i] \notin D \cup {Head(q)}
  BY <1>1 DEF Fresh, Injective
<1>. QED BY <1>1, <1>2, <1>3 DEF Fresh, Injective

(* A pass takes articles that are not processed, each once.                 *)
LEMMA UnprocessedIsFresh ==
    ASSUME NewsTypeOK, Injective(articles)
    PROVE  Unprocessed \in Seq(Articles) /\ Fresh(Unprocessed, done)
<1> DEFINE n == Len(articles)
           seq == Reverse(articles)
<1>1. PICK r : /\ r[0] = <<>>
               /\ \A i \in 1 .. n : r[i] = AddUnprocessed(r[i - 1], seq[i])
               /\ Unprocessed = r[n]
  BY UnprocessedSteps
<1>2. n \in Nat /\ \A i \in 1 .. n : seq[i] \in Articles
  BY DEF NewsTypeOK, Reverse
<1>3. \A i, j \in 1 .. n : seq[i] = seq[j] => i = j
  <2>1. \A i \in 1 .. n : seq[i] = articles[(n - i) + 1] /\ (n - i) + 1 \in DOMAIN articles
    BY DEF NewsTypeOK, Reverse
  <2>. QED BY <2>1 DEF Injective
<1> DEFINE Good(i) == /\ r[i] \in Seq(Articles) /\ Fresh(r[i], done)
                      /\ \A j \in DOMAIN r[i] : \E k \in 1 .. i : r[i][j] = seq[k]
           Fails == {i \in 0 .. n : ~ Good(i)}
<1> HIDE DEF n, seq
<1>4. 0 \notin Fails
  <2>1. <<>> \in Seq(Articles) /\ DOMAIN <<>> = {}
    OBVIOUS
  <2>2. Good(0)
    BY <1>1, <2>1 DEF Fresh, Injective
  <2>. QED BY <2>2
<1>5. ASSUME NEW i \in 1 .. n, i \in Fails PROVE i - 1 \in Fails
  <2>1. i - 1 \in 0 .. n /\ i \in 0 .. n /\ seq[i] \in Articles
    BY <1>2
  <2> DEFINE old == r[i - 1]
  <2> SUFFICES ASSUME Good(i - 1) PROVE Good(i)
    BY <1>5, <2>1
  <2>2. r[i] = AddUnprocessed(old, seq[i])
    BY <1>1
  <2>3. /\ old \in Seq(Articles) /\ Fresh(old, done)
        /\ \A j \in DOMAIN old : \E k \in 1 .. i - 1 : old[j] = seq[k]
    OBVIOUS
  <2> HIDE DEF old
  <2>4. CASE r[i] = old
    <3>1. 1 .. i - 1 \subseteq 1 .. i
      BY <2>1
    <3>. QED BY <2>3, <2>4, <3>1
  <2>5. CASE r[i] = Append(old, seq[i]) /\ seq[i] \notin done
    <3> DEFINE new == Append(old, seq[i])
    <3>1. /\ new \in Seq(Articles) /\ DOMAIN new = 1 .. Len(old) + 1
          /\ DOMAIN old = 1 .. Len(old) /\ Len(old) \in Nat
          /\ \A j \in DOMAIN old : new[j] = old[j]
          /\ new[Len(old) + 1] = seq[i]
      BY <2>1, <2>3
    <3>2. \A j \in DOMAIN old : old[j] # seq[i]
      <4>1. \A k \in 1 .. i - 1 : k \in 1 .. n /\ k # i
        BY <1>2
      <4>. QED BY <1>3, <2>3, <4>1
    <3> HIDE DEF new
    <3>3. \A j \in DOMAIN new : j \in DOMAIN old \/ j = Len(old) + 1
      BY <3>1
    <3>4. Injective(new)
      BY <2>3, <3>1, <3>2, <3>3 DEF Injective, Fresh
    <3>5. \A j \in DOMAIN new : new[j] \notin done
      BY <2>3, <2>5, <3>1, <3>3 DEF Fresh
    <3>6. \A j \in DOMAIN new : \E k \in 1 .. i : new[j] = seq[k]
      <4>1. 1 .. i - 1 \subseteq 1 .. i /\ i \in 1 .. i
        BY <2>1
      <4>. QED BY <2>3, <3>1, <3>3, <4>1
    <3>. QED BY <2>5, <3>1, <3>4, <3>5, <3>6 DEF new, Fresh
  <2>. QED BY <2>2, <2>4, <2>5 DEF AddUnprocessed
<1>6. Fails = {}
  <2>0. Fails \in SUBSET (0 .. n)
    OBVIOUS
  <2> HIDE DEF Fails
  <2>. QED BY <1>2, <1>4, <1>5, <2>0, NoFirstFailure
<1>7. Good(n)
  BY <1>2, <1>6
<1>. QED BY <1>1, <1>7

(* What the processor turns to next.                                        *)
LEMMA OnwardIsFresh ==
    ASSUME NewsTypeOK, BatchIsFresh, proc.pc # "idle"
    PROVE  /\ Onward \in ProcSet /\ Onward.pc \in {"idle", "match"}
           /\ Onward.pc # "idle" => Onward.todo # <<>>
           /\ Fresh(Onward.todo, done) /\ Fresh(Onward.todo, done \cup {Head(proc.todo)})
           /\ Head(proc.todo) \in Articles \ done
<1>1. proc.todo \in Seq(Articles) /\ proc.todo # <<>> /\ Fresh(proc.todo, done)
  BY DEF NewsTypeOK, BatchIsFresh
<1>2. /\ Fresh(Tail(proc.todo), done) /\ Fresh(Tail(proc.todo), done \cup {Head(proc.todo)})
      /\ Head(proc.todo) \in Articles /\ Head(proc.todo) \notin done
      /\ Tail(proc.todo) \in Seq(Articles)
  BY <1>1, TailIsFresh
<1>3. CASE Len(proc.todo) = 1
  <2>1. Onward = Resting /\ Resting \in ProcSet /\ Resting.pc = "idle" /\ Resting.todo = <<>>
    BY <1>3 DEF Onward, Resting, ProcSet
  <2>2. Fresh(<<>>, done) /\ Fresh(<<>>, done \cup {Head(proc.todo)})
    BY DEF Fresh, Injective
  <2>. QED BY <1>2, <2>1, <2>2
<1>4. CASE Len(proc.todo) # 1
  <2>1. Tail(proc.todo) # <<>>
    <3>1. Len(Tail(proc.todo)) = Len(proc.todo) - 1 /\ Len(proc.todo) \in Nat
      BY <1>1
    <3>2. Len(<<>>) = 0
      OBVIOUS
    <3>3. Len(Tail(proc.todo)) # 0
      BY <1>4, <3>1
    <3>. QED BY <3>2, <3>3, Zenon
  <2>2. Onward = [pc |-> "match", todo |-> Tail(proc.todo), hits |-> {}]
    BY <1>4 DEF Onward
  <2>3. Onward \in ProcSet
    BY <1>2, <2>2 DEF ProcSet
  <2>. QED BY <1>2, <2>1, <2>2, <2>3
<1>. QED BY <1>3, <1>4

(* The steps that touch neither the articles, the rows nor the processor.   *)
LEMMA QuietStep ==
    ASSUME NewsInv, NewsTypeOK', RowsAreKnown', UNCHANGED <<articles, done, signals, proc, reruns>>
    PROVE  NewsInv'
<1>1. Injective(articles)' /\ BatchIsFresh'
  BY DEF NewsInv, BatchIsFresh
<1>2. FreshAreSilent' /\ OneVoicePerRound'
  BY DEF NewsInv, FreshAreSilent, OneVoicePerRound, Silent, UnderWay, RowsOf
<1>. QED BY <1>1, <1>2 DEF NewsInv

(* A fault is counted within its bound.                                     *)
LEMMA FaultIsTyped ==
    ASSUME NewsTypeOK, Fault \/ UNCHANGED faults
    PROVE  faults' \in 0 .. MaxFaults
BY NewsAssumption DEF NewsTypeOK, Fault

(* At the start there is no article, no row and no round.                   *)
LEMMA NewsInitInv == NewsInit => NewsInv
<1> SUFFICES ASSUME NewsInit PROVE NewsInv
  OBVIOUS
<1> USE DEF NewsInit
<1>1. NewsTypeOK
  <2>1. proc \in ProcSet
    BY DEF Resting, ProcSet
  <2>2. loop \in [pc : {"idle", "hydrate", "tick"}, picked : SUBSET Markets, todo : SUBSET Markets]
    BY DEF Paused
  <2>3. /\ recentSignals \in [Markets -> SUBSET Nat] /\ bet \in [Markets -> Sides \cup {NoBet}]
        /\ reruns \in [Articles -> Nat] /\ faults \in 0 .. MaxFaults /\ aged \in 0 .. Len(signals)
    BY NewsAssumption
  <2>. QED BY <2>1, <2>2, <2>3 DEF NewsTypeOK, ProcSet
<1>2. RowsAreKnown /\ Injective(articles) /\ BatchIsFresh
  BY DEF RowsAreKnown, Injective, BatchIsFresh, Fresh, Resting
<1>3. \A a \in Articles, m \in Markets : Cardinality(RowsOf(a, m)) = 0 /\ reruns[a] = 0
  <2>1. \A a, m : RowsOf(a, m) = {}
    BY DEF RowsOf
  <2>. QED BY <2>1, FS_EmptySet
<1>4. FreshAreSilent /\ OneVoicePerRound
  BY <1>3 DEF FreshAreSilent, OneVoicePerRound, Silent
<1>. QED BY <1>1, <1>2, <1>4 DEF NewsInv

(* Polling touches only the queue and the ids that were seen.               *)
LEMMA EnqueueStep ==
    ASSUME NewsInv, NEW a \in Articles, EnqueueArticle(a)
    PROVE  NewsInv'
<1> USE DEF sourceVars, newsTables, marketVars, loopVars
<1>1. seenIds' \subseteq Articles
  BY DEF NewsInv, NewsTypeOK, EnqueueArticle, Remembered, kSubset
<1>2. articleQueue' \in Seq(Articles) /\ faults' \in 0 .. MaxFaults
  <2>1. articleQueue \in Seq(Articles)
        /\ (articleQueue' = Append(articleQueue, a) \/ articleQueue' = articleQueue)
    BY DEF NewsInv, NewsTypeOK, EnqueueArticle
  <2>2. Fault \/ UNCHANGED faults
    BY DEF EnqueueArticle
  <2>. QED BY <2>1, <2>2, FaultIsTyped DEF NewsInv
<1>3. UNCHANGED <<mode, newsTables, marketVars, proc, loopVars, reruns>>
  BY DEF EnqueueArticle
<1>4. NewsTypeOK' /\ RowsAreKnown'
  BY <1>1, <1>2, <1>3 DEF NewsInv, NewsTypeOK, RowsAreKnown
<1>. QED BY <1>3, <1>4, QuietStep

(* An article is stored once; its place in the table is new.                *)
LEMMA IngestStep ==
    ASSUME NewsInv, Ingest
    PROVE  NewsInv'
<1> USE DEF sourceVars, newsTables, marketVars, loopVars
<1>1. /\ UNCHANGED <<mode, seenIds, done, signals, aged, marketVars, proc, loopVars, reruns>>
      /\ articles' = Inserted(Head(articleQueue)) \/ articles' = articles
  BY DEF Ingest
<1>2. articleQueue' \in Seq(Articles) /\ Head(articleQueue) \in Articles
  BY DEF NewsInv, NewsTypeOK, Ingest
<1>3. faults' \in 0 .. MaxFaults
  BY FaultIsTyped DEF NewsInv, Ingest
<1>4. articles' \in Seq(Articles) /\ Injective(articles')
  <2> DEFINE x == Head(articleQueue)
             new == Append(articles, x)
  <2>1. articles \in Seq(Articles) /\ Injective(articles)
    BY DEF NewsInv, NewsTypeOK
  <2>2. CASE articles' = articles
    BY <2>1, <2>2
  <2>3. CASE articles' # articles
    <3>1. articles' = new /\ ~ Contains(articles, x)
      BY <1>1, <2>3 DEF Inserted
    <3>2. \A i \in DOMAIN articles : articles[i] # x
      BY <2>1, <3>1 DEF Contains
    <3> HIDE DEF x
    <3>3. /\ new \in Seq(Articles) /\ DOMAIN new = 1 .. Len(articles) + 1
          /\ DOMAIN articles = 1 .. Len(articles) /\ Len(articles) \in Nat
          /\ \A i \in DOMAIN articles : new[i] = articles[i]
          /\ new[Len(articles) + 1] = x
      BY <1>2, <2>1 DEF x
    <3> HIDE DEF new
    <3>4. \A i \in DOMAIN new : i \in DOMAIN articles \/ i = Len(articles) + 1
      BY <3>3
    <3>5. Injective(new)
      BY <2>1, <3>2, <3>3, <3>4 DEF Injective
    <3>. QED BY <3>1, <3>3, <3>5
  <2>. QED BY <2>2, <2>3
<1>5. NewsTypeOK' /\ RowsAreKnown'
  BY <1>1, <1>2, <1>3, <1>4 DEF NewsInv, NewsTypeOK, RowsAreKnown
<1>6. BatchIsFresh'
  BY <1>1 DEF NewsInv, BatchIsFresh
<1>7. FreshAreSilent' /\ OneVoicePerRound'
  BY <1>1 DEF NewsInv, FreshAreSilent, OneVoicePerRound, Silent, UnderWay, RowsOf
<1>. QED BY <1>4, <1>5, <1>6, <1>7 DEF NewsInv

(* Listing a market concerns no row.                                        *)
LEMMA GammaStep ==
    ASSUME NewsInv, NEW active \in SUBSET Markets, GammaSync(active)
    PROVE  NewsInv'
<1> USE DEF sourceVars, newsTables, marketVars, loopVars
<1>1. UNCHANGED <<mode, sourceVars, newsTables, proc, loopVars, reruns>>
  BY DEF GammaSync
<1>2. markets' \subseteq Markets /\ embedded' \subseteq Markets /\ sampled' \subseteq Markets
  BY DEF GammaSync, Upserted, Embedded, NewsInv, NewsTypeOK
<1>3. faults' \in 0 .. MaxFaults
  BY FaultIsTyped DEF NewsInv, GammaSync
<1>4. NewsTypeOK' /\ RowsAreKnown'
  BY <1>1, <1>2, <1>3 DEF NewsInv, NewsTypeOK, RowsAreKnown
<1>. QED BY <1>1, <1>4, QuietStep

(* A step of the processor that writes nothing.                             *)
LEMMA ProcStep ==
    ASSUME NewsInv, proc' \in ProcSet, faults' \in 0 .. MaxFaults,
           Fresh(proc'.todo, done), proc'.pc # "idle" => proc'.todo # <<>>,
           UNCHANGED <<mode, sourceVars, newsTables, marketVars, loopVars, reruns>>,
           \A a \in Articles \ done, m \in Markets :
              (proc'.pc = "score" /\ a = Head(proc'.todo) /\ m \notin proc'.hits) \/ Silent(a, m)
    PROVE  NewsInv'
<1> USE DEF sourceVars, newsTables, marketVars, loopVars
<1>1. NewsTypeOK' /\ RowsAreKnown'
  BY DEF NewsInv, NewsTypeOK, RowsAreKnown, ProcSet
<1>2. Injective(articles)' /\ BatchIsFresh'
  BY DEF NewsInv, BatchIsFresh
<1>3. \A a, m : Silent(a, m)' <=> Silent(a, m)
  BY DEF Silent, RowsOf
<1>4. FreshAreSilent'
  BY <1>3 DEF FreshAreSilent, UnderWay
<1>5. OneVoicePerRound'
  BY DEF NewsInv, OneVoicePerRound, RowsOf
<1>. QED BY <1>1, <1>2, <1>4, <1>5 DEF NewsInv

(* While no pair is scored, what is not processed has its rows.             *)
LEMMA AllSilent ==
    ASSUME NewsInv, proc.pc # "score"
    PROVE  \A a \in Articles \ done, m \in Markets : Silent(a, m)
BY DEF NewsInv, FreshAreSilent, UnderWay

(* A round begins with a fresh batch.                                       *)
LEMMA ProcessBeginsStep == ASSUME NewsInv, ProcessBegins PROVE NewsInv'
<1>1. /\ Unprocessed \in Seq(Articles) /\ Fresh(Unprocessed, done) /\ Unprocessed # <<>>
      /\ proc.pc = "idle"
  BY UnprocessedIsFresh DEF NewsInv, ProcessBegins
<1>2. PICK pc \in {"embed", "match"} : proc' = [pc |-> pc, todo |-> Unprocessed, hits |-> {}]
  BY DEF ProcessBegins, Resting
<1>3. proc' \in ProcSet /\ proc'.todo = Unprocessed /\ proc'.pc # "score"
  BY <1>1, <1>2 DEF ProcSet
<1>4. faults' \in 0 .. MaxFaults
  BY FaultIsTyped DEF NewsInv, ProcessBegins
<1>5. UNCHANGED <<mode, sourceVars, newsTables, marketVars, loopVars, reruns>>
  BY DEF ProcessBegins
<1>6. \A a \in Articles \ done, m \in Markets : Silent(a, m)
  BY <1>1, AllSilent
<1>. QED BY <1>1, <1>3, <1>4, <1>5, <1>6, ProcStep

(* Embedding the titles only moves the processor on.                        *)
LEMMA EmbedStep == ASSUME NewsInv, EmbedTitles PROVE NewsInv'
<1>1. proc \in ProcSet /\ Fresh(proc.todo, done) /\ proc.todo # <<>> /\ proc.pc = "embed"
  BY DEF NewsInv, NewsTypeOK, ProcSet, BatchIsFresh, EmbedTitles
<1>2. \/ proc' = [pc |-> "match", todo |-> proc.todo, hits |-> proc.hits]
      \/ proc' = Resting
  BY <1>1 DEF EmbedTitles, ProcSet
<1>3. /\ proc' \in ProcSet /\ Fresh(proc'.todo, done) /\ proc'.pc # "score"
      /\ proc'.pc # "idle" => proc'.todo # <<>>
  <2>1. CASE proc' = Resting
    <3>1. Resting \in ProcSet /\ Resting.todo = <<>> /\ Resting.pc = "idle"
      BY DEF Resting, ProcSet
    <3>2. Fresh(<<>>, done)
      BY DEF Fresh, Injective
    <3>. QED BY <2>1, <3>1, <3>2
  <2>2. CASE proc' # Resting
    BY <1>1, <1>2, <2>2 DEF ProcSet
  <2>. QED BY <2>1, <2>2
<1>4. faults' \in 0 .. MaxFaults
  BY FaultIsTyped DEF NewsInv, EmbedTitles
<1>5. UNCHANGED <<mode, sourceVars, newsTables, marketVars, loopVars, reruns>>
  BY DEF EmbedTitles
<1>6. \A a \in Articles \ done, m \in Markets : Silent(a, m)
  BY <1>1, AllSilent
<1>. QED BY <1>3, <1>4, <1>5, <1>6, ProcStep

(* Matching fixes the markets of the round: the article is not processed,   *)
(* and silent for all of them.                                              *)
LEMMA MatchStep == ASSUME NewsInv, Match PROVE NewsInv'
<1>1. proc \in ProcSet /\ Fresh(proc.todo, done) /\ proc.todo # <<>> /\ proc.pc = "match"
  BY DEF NewsInv, NewsTypeOK, ProcSet, BatchIsFresh, Match
<1>2. \/ \E hits \in SUBSET Markets :
           proc' = [pc |-> "score", todo |-> proc.todo, hits |-> hits]
      \/ proc' = Onward
  <2>1. \A a \in Articles : BestMatches(a) \subseteq SUBSET Markets
    BY NewsAssumption DEF BestMatches, Candidates, kSubset
  <2>2. Head(proc.todo) \in Articles
    BY <1>1 DEF ProcSet
  <2>3. ASSUME NEW S
        PROVE  [proc EXCEPT !.pc = "score", !.hits = S]
                    = [pc |-> "score", todo |-> proc.todo, hits |-> S]
    <3>1. proc = [pc |-> proc.pc, todo |-> proc.todo, hits |-> proc.hits]
      BY <1>1 DEF ProcSet
    <3>2. [proc EXCEPT !.pc = "score"] = [pc |-> "score", todo |-> proc.todo, hits |-> proc.hits]
      BY <3>1
    <3>3. [proc EXCEPT !.pc = "score", !.hits = S] = [[proc EXCEPT !.pc = "score"] EXCEPT !.hits = S]
      OBVIOUS
    <3>4. [[pc |-> "score", todo |-> proc.todo, hits |-> proc.hits] EXCEPT !.hits = S]
            = [pc |-> "score", todo |-> proc.todo, hits |-> S]
      OBVIOUS
    <3>. QED BY <3>2, <3>3, <3>4, Zenon
  <2>4. [proc EXCEPT !.pc = "score"] = [pc |-> "score", todo |-> proc.todo, hits |-> proc.hits]
        /\ proc.hits \in SUBSET Markets
    BY <1>1 DEF ProcSet
  <2>. QED BY <2>1, <2>2, <2>3, <2>4 DEF Match
<1>3. /\ proc' \in ProcSet /\ Fresh(proc'.todo, done)
      /\ proc'.pc # "idle" => proc'.todo # <<>>
  <2>1. CASE proc' = Onward
    BY <1>1, <2>1, OnwardIsFresh DEF NewsInv
  <2>2. CASE proc' # Onward
    BY <1>1, <1>2, <2>2 DEF ProcSet
  <2>. QED BY <2>1, <2>2
<1>4. faults' \in 0 .. MaxFaults
  BY FaultIsTyped DEF NewsInv, Match
<1>5. UNCHANGED <<mode, sourceVars, newsTables, marketVars, loopVars, reruns>>
  BY DEF Match
<1>6. \A a \in Articles \ done, m \in Markets : Silent(a, m)
  BY <1>1, AllSilent
<1>. QED BY <1>3, <1>4, <1>5, <1>6, ProcStep

RowSet == [article : Articles, market : Markets, direction : Sides, impact : Nat,
           sentiment : Int]

(* What a scorer answers and the processor stores is a row.                 *)
LEMMA ToldIsRow ==
    ASSUME NEW a \in Articles, NEW m \in Markets, NEW s \in Answers(a), Tells(s)
    PROVE  /\ SignalRow(a, m, s) \in RowSet
           /\ SignalRow(a, m, s).article = a /\ SignalRow(a, m, s).market = m
<1>1. s \in Score
  <2>1. Heuristic(a) \in Score
    <3> DEFINE good == Words[a].good
               bad == Words[a].bad
               sum == good + bad
    <3>1. good \in Nat /\ bad \in Nat /\ sum \in Nat
      BY NewsAssumption
    <3>2. Min({sum, 10}) \in Nat
      <4>1. \E x \in {sum, 10} : \A y \in {sum, 10} : x <= y
        BY <3>1
      <4>2. Min({sum, 10}) \in {sum, 10}
        <5> HIDE DEF sum
        <5>. QED BY <4>1 DEF Min
      <4>. QED BY <3>1, <4>2
    <3> HIDE DEF good, bad
    <3>3. PICK d \in Sides \cup {"NEUTRAL"}, i \in Nat, z \in Int :
             Heuristic(a) = [direction |-> d, impact |-> i, sentiment |-> z]
      <4>1. (IF sum = 0 THEN 1 ELSE Min({sum, 10})) \in Nat
        BY <3>2
      <4>2. (IF 5 * (good - bad) > sum THEN "YES"
             ELSE IF 5 * (bad - good) > sum THEN "NO" ELSE "NEUTRAL") \in Sides \cup {"NEUTRAL"}
        BY DEF Sides
      <4>3. (IF good > bad THEN 1 ELSE IF good < bad THEN -1 ELSE 0) \in Int
        OBVIOUS
      <4>. QED BY <4>1, <4>2, <4>3 DEF Heuristic, good, bad
    <3>. QED BY <3>3 DEF Score
  <2>. QED BY <2>1, NewsAssumption DEF Answers
<1>2. s.direction \in Sides /\ s.impact \in Nat /\ s.sentiment \in Int
  BY <1>1 DEF Score, Tells
<1>. QED BY <1>2 DEF SignalRow, RowSet

(* Scoring a pair adds its one row of this round, or none.                  *)
LEMMA ScoreStep ==
    ASSUME NewsInv, NEW m \in Markets, ScorePair(m)
    PROVE  NewsInv'
<1> USE DEF sourceVars, newsTables, marketVars, loopVars
<1> DEFINE x == Head(proc.todo)
<1>1. /\ proc \in ProcSet /\ Fresh(proc.todo, done) /\ proc.todo # <<>> /\ proc.pc = "score"
      /\ m \in proc.hits /\ x \in Articles \ done /\ signals \in Seq(RowSet)
  <2>1. /\ proc \in ProcSet /\ Fresh(proc.todo, done) /\ proc.todo # <<>> /\ proc.pc = "score"
        /\ m \in proc.hits /\ signals \in Seq(RowSet)
    BY DEF NewsInv, NewsTypeOK, ProcSet, BatchIsFresh, ScorePair, RowSet
  <2>. QED BY <2>1, OnwardIsFresh DEF NewsInv
<1>2. /\ proc' \in ProcSet /\ proc'.todo = proc.todo /\ proc'.pc = "score"
      /\ proc'.hits = proc.hits \ {m}
  <2>1. proc' = [pc |-> "score", todo |-> proc.todo, hits |-> proc.hits \ {m}]
    BY <1>1 DEF ScorePair, ProcSet
  <2>. QED BY <1>1, <2>1 DEF ProcSet
<1>3. UNCHANGED <<mode, sourceVars, articles, done, aged, marketVars, loopVars, reruns>>
  BY DEF ScorePair
<1>4. faults' \in 0 .. MaxFaults
  BY FaultIsTyped DEF NewsInv, ScorePair
<1>5. \/ signals' = signals
      \/ \E row \in RowSet : row.article = x /\ row.market = m /\ signals' = Append(signals, row)
  <2> HIDE DEF x
  <2>1. \A s \in Answers(x) : Tells(s) =>
           /\ SignalRow(x, m, s) \in RowSet
           /\ SignalRow(x, m, s).article = x /\ SignalRow(x, m, s).market = m
    BY <1>1, ToldIsRow
  <2>. QED BY <2>1 DEF ScorePair, x
<1>6. /\ signals' \in Seq(RowSet) /\ DOMAIN signals \subseteq DOMAIN signals'
      /\ Len(signals) <= Len(signals') /\ Len(signals) \in Nat /\ Len(signals') \in Nat
  BY <1>1, <1>5
<1>7. \A a, k : IsFiniteSet(RowsOf(a, k)) /\ Cardinality(RowsOf(a, k)) \in Nat
  <2>1. IsFiniteSet(DOMAIN signals)
    BY <1>1, <1>6, FS_Interval
  <2>. QED BY <2>1, FS_Subset, FS_CardinalityType DEF RowsOf
<1>8. \A a, k : RowsOf(a, k)' = RowsOf(a, k)
                \/ (a = x /\ k = m /\ RowsOf(a, k)' = RowsOf(a, k) \cup {Len(signals) + 1}
                    /\ Len(signals) + 1 \notin RowsOf(a, k))
  <2>1. CASE signals' = signals
    BY <2>1 DEF RowsOf
  <2>2. ASSUME NEW row \in RowSet, row.article = x, row.market = m,
               signals' = Append(signals, row)
        PROVE  \A a, k : RowsOf(a, k)' = RowsOf(a, k)
                \/ (a = x /\ k = m /\ RowsOf(a, k)' = RowsOf(a, k) \cup {Len(signals) + 1}
                    /\ Len(signals) + 1 \notin RowsOf(a, k))
    <3> DEFINE l == Len(signals) + 1
    <3>1. /\ DOMAIN signals' = DOMAIN signals \cup {l} /\ l \notin DOMAIN signals
          /\ signals'[l] = row /\ \A i \in DOMAIN signals : signals'[i] = signals[i]
      BY <1>1, <2>2
    <3> HIDE DEF l, x
    <3>2. ASSUME NEW a, NEW k
          PROVE  /\ l \notin RowsOf(a, k)
                 /\ RowsOf(a, k)' = IF a = x /\ k = m THEN RowsOf(a, k) \cup {l}
                                    ELSE RowsOf(a, k)
      BY <2>2, <3>1 DEF RowsOf
    <3>. QED BY <3>2 DEF l
  <2>. QED BY <1>5, <2>1, <2>2
<1> HIDE DEF x
<1>9. \A a, k : /\ Cardinality(RowsOf(a, k)') <= Cardinality(RowsOf(a, k)) + 1
                /\ Cardinality(RowsOf(a, k)') \in Nat
                /\ ~ (a = x /\ k = m) => RowsOf(a, k)' = RowsOf(a, k)
  <2>1. ASSUME NEW a, NEW k PROVE /\ Cardinality(RowsOf(a, k)') <= Cardinality(RowsOf(a, k)) + 1
              /\ Cardinality(RowsOf(a, k)') \in Nat
    <3>1. CASE RowsOf(a, k)' = RowsOf(a, k)
      BY <1>7, <3>1
    <3>2. CASE RowsOf(a, k)' # RowsOf(a, k)
      <4>1. Cardinality(RowsOf(a, k)') = Cardinality(RowsOf(a, k)) + 1
        BY <1>7, <1>8, <3>2, FS_AddElement
      <4>. QED BY <1>7, <4>1
    <3>. QED BY <3>1, <3>2
  <2>. QED BY <1>8, <2>1
<1>10. NewsTypeOK'
  <2>1. aged' \in 0 .. Len(signals')
    BY <1>3, <1>6 DEF NewsInv, NewsTypeOK
  <2>. QED BY <1>2, <1>3, <1>4, <1>6, <2>1 DEF NewsInv, NewsTypeOK, ProcSet, RowSet
<1>11. RowsAreKnown'
  BY <1>3, <1>6 DEF NewsInv, RowsAreKnown
<1>12. Injective(articles)' /\ BatchIsFresh'
  BY <1>1, <1>2, <1>3 DEF NewsInv, BatchIsFresh
<1>13. FreshAreSilent'
  <2>1. ASSUME NEW a \in Articles \ done, NEW k \in Markets,
               ~ (a = x /\ k \notin proc.hits \ {m})
        PROVE  Cardinality(RowsOf(a, k)') <= reruns[a]
    <3>1. ~ (a = x /\ k = m) /\ ~ (a = x /\ k \notin proc.hits)
      BY <1>1, <2>1
    <3>2. RowsOf(a, k)' = RowsOf(a, k)
      BY <1>9, <3>1
    <3>3. Silent(a, k)
      BY <3>1 DEF NewsInv, FreshAreSilent, UnderWay, x
    <3>. QED BY <3>2, <3>3 DEF Silent
  <2>2. x' = x
    BY <1>2 DEF x
  <2>. QED BY <1>2, <1>3, <2>1, <2>2 DEF FreshAreSilent, Silent, UnderWay, x
<1>14. OneVoicePerRound'
  <2>1. ASSUME NEW a \in Articles, NEW k \in Markets
        PROVE  Cardinality(RowsOf(a, k)') <= 1 + reruns[a]
    <3>1. reruns[a] \in Nat
      BY DEF NewsInv, NewsTypeOK
    <3>2. CASE a = x /\ k = m
      <4>1. Cardinality(RowsOf(a, k)) <= reruns[a]
        BY <1>1, <3>2 DEF NewsInv, FreshAreSilent, UnderWay, Silent
      <4>. QED BY <1>7, <1>9, <3>1, <4>1
    <3>3. CASE ~ (a = x /\ k = m)
      BY <1>9, <3>3 DEF NewsInv, OneVoicePerRound
    <3>. QED BY <3>2, <3>3
  <2>. QED BY <1>3, <2>1 DEF OneVoicePerRound
<1>. QED BY <1>10, <1>11, <1>12, <1>13, <1>14 DEF NewsInv

(* Marking ends the round of an article: its rows stay as they are.         *)
LEMMA MarkStep == ASSUME NewsInv, MarkProcessed PROVE NewsInv'
<1> USE DEF sourceVars, newsTables, marketVars, loopVars
<1> DEFINE x == Head(proc.todo)
<1>1. proc.pc = "score" /\ BatchIsFresh /\ NewsTypeOK /\ reruns \in [Articles -> Nat]
  BY DEF NewsInv, NewsTypeOK, MarkProcessed
<1>2. /\ Onward \in ProcSet /\ Onward.pc \in {"idle", "match"}
      /\ Onward.pc # "idle" => Onward.todo # <<>>
      /\ Fresh(Onward.todo, done) /\ Fresh(Onward.todo, done \cup {x})
      /\ x \in Articles \ done
  BY <1>1, OnwardIsFresh
<1>3. UNCHANGED <<mode, sourceVars, articles, signals, aged, marketVars, loopVars>>
      /\ proc' = Onward
  BY DEF MarkProcessed
<1>4. faults' \in 0 .. MaxFaults
  BY FaultIsTyped DEF NewsInv, MarkProcessed
<1>5. \/ done' = done \cup {x} /\ reruns' = reruns
      \/ done' = done /\ reruns' = [reruns EXCEPT ![x] = @ + 1]
  BY DEF MarkProcessed
<1> HIDE DEF x
<1>6. /\ reruns' \in [Articles -> Nat] /\ \A a \in Articles : reruns'[a] >= reruns[a]
      /\ x \notin done' => reruns'[x] = reruns[x] + 1
  BY <1>1, <1>2, <1>5
<1>7. NewsTypeOK' /\ RowsAreKnown'
  <2>1. done' \subseteq Articles
    BY <1>1, <1>2, <1>5 DEF NewsTypeOK
  <2>. QED BY <1>2, <1>3, <1>4, <1>6, <2>1 DEF NewsInv, NewsTypeOK, ProcSet, RowsAreKnown
<1>8. Injective(articles)' /\ BatchIsFresh'
  BY <1>2, <1>3, <1>5 DEF NewsInv, BatchIsFresh
<1>9. \A a, k : RowsOf(a, k)' = RowsOf(a, k) /\ Cardinality(RowsOf(a, k)) \in Nat
  <2>1. \A a, k : RowsOf(a, k)' = RowsOf(a, k) /\ RowsOf(a, k) \subseteq DOMAIN signals
    BY <1>3 DEF RowsOf
  <2>2. IsFiniteSet(DOMAIN signals)
    BY <1>1, FS_Interval DEF NewsTypeOK
  <2>. QED BY <2>1, <2>2, FS_Subset, FS_CardinalityType
<1>10. OneVoicePerRound'
  <2>1. ASSUME NEW a \in Articles, NEW k \in Markets
        PROVE  Cardinality(RowsOf(a, k)') <= 1 + reruns'[a]
    <3>1. /\ Cardinality(RowsOf(a, k)) <= 1 + reruns[a] /\ reruns'[a] >= reruns[a]
          /\ reruns[a] \in Nat /\ reruns'[a] \in Nat
          /\ Cardinality(RowsOf(a, k)) \in Nat /\ RowsOf(a, k)' = RowsOf(a, k)
      BY <1>1, <1>6, <1>9 DEF NewsInv, OneVoicePerRound
    <3>. QED BY <3>1
  <2>. QED BY <2>1 DEF OneVoicePerRound
<1>11. FreshAreSilent'
  <2>1. ASSUME NEW a \in Articles \ done', NEW k \in Markets
        PROVE  Cardinality(RowsOf(a, k)') <= reruns'[a]
    <3>1. /\ RowsOf(a, k)' = RowsOf(a, k) /\ Cardinality(RowsOf(a, k)) \in Nat
          /\ reruns[a] \in Nat /\ reruns'[a] \in Nat /\ reruns'[a] >= reruns[a]
      BY <1>1, <1>6, <1>9
    <3>2. CASE a = x
      <4>1. Cardinality(RowsOf(a, k)) <= 1 + reruns[a] /\ reruns'[a] = reruns[a] + 1
        BY <1>6, <2>1, <3>2 DEF NewsInv, OneVoicePerRound
      <4>. QED BY <3>1, <4>1
    <3>3. CASE a # x
      <4>1. a \in Articles \ done
        BY <1>5, <2>1
      <4>2. Silent(a, k)
        BY <3>3, <4>1 DEF NewsInv, FreshAreSilent, UnderWay, x
      <4>. QED BY <3>1, <4>2 DEF Silent
    <3>. QED BY <3>2, <3>3
  <2>. QED BY <2>1 DEF FreshAreSilent, Silent
<1>. QED BY <1>7, <1>8, <1>10, <1>11 DEF NewsInv

(* A step of the pipeline loop.                                             *)
LEMMA LoopStep ==
    ASSUME NewsInv, NEW m,
           PassBegins \/ HydrateFails \/ (m \in Markets /\ (Hydrate(m) \/ Evaluate(m)))
    PROVE  NewsInv'
<1> USE DEF sourceVars, newsTables, marketVars, loopVars
<1> DEFINE LoopSet == [pc : {"idle", "hydrate", "tick"}, picked : SUBSET Markets,
                       todo : SUBSET Markets]
<1>1. NewsTypeOK /\ RowsAreKnown /\ loop \in LoopSet /\ sampled \subseteq Markets
      /\ recentSignals \in [Markets -> SUBSET Nat] /\ bet \in [Markets -> Sides \cup {NoBet}]
  BY DEF NewsInv, NewsTypeOK
<1>2. UNCHANGED <<mode, sourceVars, newsTables, marketVars, proc, reruns>>
  BY DEF PassBegins, HydrateFails, Hydrate, Evaluate
<1>3. faults' \in 0 .. MaxFaults
  BY <1>1, FaultIsTyped DEF PassBegins, HydrateFails, Hydrate, Evaluate
<1>4. loop' \in LoopSet
  <2>1. \A pc \in {"idle", "hydrate", "tick"}, S \in SUBSET Markets :
          /\ [loop EXCEPT !.pc = pc, !.todo = S] \in LoopSet
          /\ [loop EXCEPT !.todo = S] \in LoopSet
          /\ [pc |-> pc, picked |-> S, todo |-> S] \in LoopSet
    <3>1. loop = [pc |-> loop.pc, picked |-> loop.picked, todo |-> loop.todo]
          /\ loop.pc \in {"idle", "hydrate", "tick"} /\ loop.picked \in SUBSET Markets
      BY <1>1
    <3>. QED BY <3>1
  <2>2. loop.picked \in SUBSET Markets /\ loop.todo \ {m} \in SUBSET Markets
        /\ {} \in SUBSET Markets /\ sampled \in SUBSET Markets
    BY <1>1
  <2>3. \/ loop' = [pc |-> "hydrate", picked |-> sampled, todo |-> sampled]
        \/ loop' = [pc |-> "idle", picked |-> {}, todo |-> {}]
        \/ loop' = [loop EXCEPT !.pc = "tick", !.todo = loop.picked]
        \/ loop' = [loop EXCEPT !.todo = loop.todo \ {m}]
    BY DEF PassBegins, HydrateFails, Hydrate, Evaluate, Paused
  <2> HIDE DEF LoopSet
  <2>. QED BY <2>1, <2>2, <2>3
<1>5. /\ recentSignals' \in [Markets -> SUBSET Nat]
      /\ \A k \in Markets : recentSignals'[k] \subseteq DOMAIN signals
  <2>1. \/ recentSignals' = recentSignals
        \/ recentSignals' = [recentSignals EXCEPT ![m] = InWindow(m)]
    BY DEF PassBegins, HydrateFails, Hydrate, Evaluate
  <2>2. InWindow(m) \subseteq DOMAIN signals /\ DOMAIN signals \subseteq Nat
    BY <1>1 DEF InWindow, NewsTypeOK
  <2>. QED BY <1>1, <2>1, <2>2 DEF RowsAreKnown
<1>6. bet' \in [Markets -> Sides \cup {NoBet}]
  <2>1. CASE m \in Markets /\ Evaluate(m)
    <3> DEFINE kept == recentSignals[m]
    <3>1. kept # {} => Winner(kept) \in Sides
      <4>1. kept \in SUBSET (1 .. Len(signals)) /\ Len(signals) \in Nat
        BY <1>1, <2>1 DEF RowsAreKnown, NewsTypeOK
      <4>2. kept # {} => Max(kept) \in 1 .. Len(signals)
        <5> HIDE DEF kept
        <5>. QED BY <4>1, LastPlace
      <4>3. \A i \in 1 .. Len(signals) : signals[i].direction \in Sides
        <5>1. signals \in Seq(RowSet)
          BY <1>1 DEF NewsTypeOK, RowSet
        <5>2. \A i \in 1 .. Len(signals) : signals[i] \in RowSet
          BY <5>1
        <5>. QED BY <5>2 DEF RowSet
      <4> HIDE DEF kept
      <4>. QED BY <4>2, <4>3 DEF Winner, Sides
    <3>2. bet' = [bet EXCEPT ![m] = NoBet]
          \/ (Convinced(kept) /\ bet' = [bet EXCEPT ![m] = Winner(kept)])
      BY <2>1 DEF Evaluate
    <3>3. Convinced(kept) => kept # {}
      BY DEF Convinced
    <3> HIDE DEF kept
    <3>. QED BY <1>1, <3>1, <3>2, <3>3
  <2>2. CASE ~ (m \in Markets /\ Evaluate(m))
    BY <1>1, <2>2 DEF PassBegins, HydrateFails, Hydrate
  <2>. QED BY <2>1, <2>2
<1>7. NewsTypeOK' /\ RowsAreKnown'
  BY <1>1, <1>2, <1>3, <1>4, <1>5, <1>6 DEF NewsTypeOK, RowsAreKnown
<1>. QED BY <1>2, <1>7, QuietStep

(* Time takes rows out of the window, not out of the table.                 *)
LEMMA AgeStep == ASSUME NewsInv, Age \/ UNCHANGED newsVars PROVE NewsInv'
<1> USE DEF sourceVars, newsTables, marketVars, loopVars
<1>1. UNCHANGED <<mode, sourceVars, articles, done, signals, marketVars, proc, loopVars,
                  reruns, faults>>
  BY DEF Age, newsVars
<1>2. aged' \in 0 .. Len(signals)
  BY DEF NewsInv, NewsTypeOK, Age, newsVars
<1>3. NewsTypeOK' /\ RowsAreKnown'
  BY <1>1, <1>2 DEF NewsInv, NewsTypeOK, RowsAreKnown
<1>. QED BY <1>1, <1>3, QuietStep

(* A restart ends the round under way, and counts it if scoring had begun.  *)
LEMMA NewsRestartStep == ASSUME NewsInv, NewsRestart PROVE NewsInv'
<1> USE DEF sourceVars, newsTables, marketVars, loopVars
<1> DEFINE x == Head(proc.todo)
<1>1. NewsTypeOK /\ BatchIsFresh /\ reruns \in [Articles -> Nat]
  BY DEF NewsInv, NewsTypeOK
<1>2. /\ UNCHANGED <<mode, newsTables, markets>> /\ proc' = Resting /\ loop' = Paused
      /\ seenIds' = {} /\ articleQueue' = <<>> /\ embedded' = {} /\ sampled' = {}
      /\ recentSignals' = [m \in Markets |-> {}] /\ bet' = [m \in Markets |-> NoBet]
  BY DEF NewsRestart
<1>3. faults' \in 0 .. MaxFaults
  BY <1>1, FaultIsTyped DEF NewsRestart
<1>4. \/ proc.pc = "score" /\ x \in Articles /\ reruns' = [reruns EXCEPT ![x] = @ + 1]
      \/ proc.pc # "score" /\ reruns' = reruns
  BY <1>1, OnwardIsFresh DEF NewsRestart
<1> HIDE DEF x
<1>5. /\ reruns' \in [Articles -> Nat] /\ \A a \in Articles : reruns'[a] >= reruns[a]
      /\ proc.pc = "score" => reruns'[x] = reruns[x] + 1
  BY <1>1, <1>4
<1>6. NewsTypeOK'
  <2>1. proc' \in ProcSet /\ loop' \in [pc : {"idle", "hydrate", "tick"},
                                       picked : SUBSET Markets, todo : SUBSET Markets]
    BY <1>2 DEF Resting, Paused, ProcSet
  <2>2. /\ seenIds' \subseteq Articles /\ articleQueue' \in Seq(Articles)
        /\ embedded' \subseteq Markets /\ sampled' \subseteq Markets
        /\ recentSignals' \in [Markets -> SUBSET Nat] /\ bet' \in [Markets -> Sides \cup {NoBet}]
    BY <1>2
  <2>3. UNCHANGED <<mode, articles, done, signals, aged, markets>>
    BY <1>2
  <2>. QED BY <1>1, <1>3, <1>5, <2>1, <2>2, <2>3 DEF NewsTypeOK, ProcSet
<1>7. RowsAreKnown' /\ Injective(articles)' /\ BatchIsFresh'
  BY <1>2 DEF NewsInv, RowsAreKnown, BatchIsFresh, Fresh, Injective, Resting
<1>8. \A a, k : RowsOf(a, k)' = RowsOf(a, k) /\ Cardinality(RowsOf(a, k)) \in Nat
  <2>1. \A a, k : RowsOf(a, k)' = RowsOf(a, k) /\ RowsOf(a, k) \subseteq DOMAIN signals
    BY <1>2 DEF RowsOf
  <2>2. IsFiniteSet(DOMAIN signals)
    BY <1>1, FS_Interval DEF NewsTypeOK
  <2>. QED BY <2>1, <2>2, FS_Subset, FS_CardinalityType
<1>9. OneVoicePerRound'
  <2>1. ASSUME NEW a \in Articles, NEW k \in Markets
        PROVE  Cardinality(RowsOf(a, k)') <= 1 + reruns'[a]
    <3>1. /\ Cardinality(RowsOf(a, k)) <= 1 + reruns[a] /\ reruns'[a] >= reruns[a]
          /\ reruns[a] \in Nat /\ reruns'[a] \in Nat
          /\ Cardinality(RowsOf(a, k)) \in Nat /\ RowsOf(a, k)' = RowsOf(a, k)
      BY <1>1, <1>5, <1>8 DEF NewsInv, OneVoicePerRound
    <3>. QED BY <3>1
  <2>. QED BY <2>1 DEF OneVoicePerRound
<1>10. FreshAreSilent'
  <2>1. ASSUME NEW a \in Articles \ done, NEW k \in Markets
        PROVE  Cardinality(RowsOf(a, k)') <= reruns'[a]
    <3>1. /\ RowsOf(a, k)' = RowsOf(a, k) /\ Cardinality(RowsOf(a, k)) \in Nat
          /\ reruns[a] \in Nat /\ reruns'[a] \in Nat /\ reruns'[a] >= reruns[a]
      BY <1>1, <1>5, <1>8
    <3>2. CASE UnderWay(a)
      <4>1. Cardinality(RowsOf(a, k)) <= 1 + reruns[a] /\ reruns'[a] = reruns[a] + 1
        BY <1>5, <3>2 DEF NewsInv, OneVoicePerRound, UnderWay, x
      <4>. QED BY <3>1, <4>1
    <3>3. CASE ~ UnderWay(a)
      <4>1. Silent(a, k)
        BY <3>3 DEF NewsInv, FreshAreSilent
      <4>. QED BY <3>1, <4>1 DEF Silent
    <3>. QED BY <3>2, <3>3
  <2>. QED BY <1>2, <2>1 DEF FreshAreSilent, Silent
<1>. QED BY <1>6, <1>7, <1>9, <1>10 DEF NewsInv

(* Every step of the news tasks keeps the invariant.                        *)
LEMMA NewsNextInv == NewsInv /\ [NewsNext]_newsVars => NewsInv'
<1> SUFFICES ASSUME NewsInv, [NewsNext]_newsVars PROVE NewsInv'
  OBVIOUS
<1>1. CASE \E a \in Articles : EnqueueArticle(a)
  BY <1>1, EnqueueStep
<1>2. CASE Ingest
  BY <1>2, IngestStep
<1>3. CASE \E active \in SUBSET Markets \ {{}} : GammaSync(active)
  BY <1>3, GammaStep
<1>4. CASE Process
  <2>1. \A m \in Markets : ScorePair(m) => NewsInv'
    BY ScoreStep
  <2>. QED BY <1>4, <2>1, ProcessBeginsStep, EmbedStep, MatchStep, MarkStep DEF Process
<1>5. CASE Loop
  <2>1. CASE PassBegins \/ HydrateFails
    BY <2>1, LoopStep
  <2>2. \A m \in Markets : Hydrate(m) \/ Evaluate(m) => NewsInv'
    BY LoopStep
  <2>. QED BY <1>5, <2>1, <2>2 DEF Loop
<1>6. CASE Age \/ UNCHANGED newsVars
  BY <1>6, AgeStep
<1>7. CASE NewsRestart
  BY <1>7, NewsRestartStep
<1>. QED BY <1>1, <1>2, <1>3, <1>4, <1>5, <1>6, <1>7 DEF NewsNext

(* Batches are fresh, and an article that is not processed has a row for a  *)
(* market per unfinished round at most, the pairs scored in this round      *)
(* apart (news_processor.py:133-203).                                       *)
THEOREM NewsInvariance == NewsSpec => []NewsInv
BY NewsInitInv, NewsNextInv, PTL DEF NewsSpec

(* Articles, rows, memory, processor, loop and bets always hold values of   *)
(* their types (news_provider.py, news_processor.py, the sentiment          *)
(* strategy).                                                               *)
THEOREM NewsTypeCorrect == NewsSpec => []NewsTypeOK
<1>1. NewsInv => NewsTypeOK
  BY DEF NewsInv
<1>. QED BY <1>1, NewsInvariance, PTL

(* An article has one row for a market at most, and one more for each round *)
(* over it that was cut short before the article was marked                 *)
(* (news_processor.py:160-199).                                             *)
THEOREM OneVoice == NewsSpec => []OneVoicePerRound
<1>1. NewsInv => OneVoicePerRound
  BY DEF NewsInv
<1>. QED BY <1>1, NewsInvariance, PTL

-----------------------------------------------------------------------------
(* Broker: what the events still to be read say.                            *)

(* The last event of q that tells one of a kind of things is number i.      *)
SwitchTypes == {"snapshot", "kill_switch"}
FeedTypes == {"snapshot", "order"}
LastOf(q, T, i) == q[i].type \in T /\ \A j \in DOMAIN q : j > i => q[j].type \notin T

SwitchOf(e) == IF e.type = "snapshot" THEN e.data.switch ELSE e.engaged
NewestIs(e, o) == IF e.type = "snapshot" THEN e.data.feed # <<>> /\ e.data.feed[1] = o
                  ELSE e.order = o

(* What the events of q say last is what the broker shows.                  *)
TellsSwitch(q, sw) == \A i \in DOMAIN q : LastOf(q, SwitchTypes, i) => SwitchOf(q[i]) = sw
TellsNewest(q, feed) ==
    feed = <<>> \/ \A i \in DOMAIN q : LastOf(q, FeedTypes, i) => NewestIs(q[i], feed[1])
UpToDate(q, s) == TellsSwitch(q, s.switch) /\ TellsNewest(q, s.feed)

BrokerInv == BrokerTypeOK /\ UpToDate(recent, shown) /\ \A c \in subs : UpToDate(queue[c], shown)

(* A snapshot among the events, with one field changed.                     *)
SnapshotSet == [type : {"snapshot"}, data : StateSet, shared : BOOLEAN]

(* With other data it is a snapshot of them.                                *)
LEMMA OtherData ==
    ASSUME NEW e \in SnapshotSet, NEW d \in StateSet
    PROVE  /\ [e EXCEPT !.data = d] \in SnapshotSet
           /\ [e EXCEPT !.data = d].type = "snapshot" /\ [e EXCEPT !.data = d].data = d
BY DEF SnapshotSet

(* With a list of its own it shows the same.                                *)
LEMMA SharedNoMore ==
    ASSUME NEW e \in SnapshotSet
    PROVE  /\ [e EXCEPT !.shared = FALSE] \in SnapshotSet
           /\ [e EXCEPT !.shared = FALSE].type = "snapshot"
           /\ [e EXCEPT !.shared = FALSE].data = e.data
BY DEF SnapshotSet

(* What an event is, by its type.                                           *)
LEMMA EventCases ==
    ASSUME NEW e \in EventSet
    PROVE  /\ e.type \in {"snapshot", "order", "kill_switch", "heartbeat"}
           /\ e.type = "snapshot" =>
                e \in SnapshotSet /\ e.data \in StateSet
           /\ e.type = "order" => e.order \in Orders
           /\ e.type = "kill_switch" => e.engaged \in BOOLEAN
<1>1. CASE e \in [type : {"snapshot"}, data : StateSet, shared : BOOLEAN]
  BY <1>1 DEF SnapshotSet
<1>2. CASE e \in [type : {"order"}, order : Orders]
  BY <1>2
<1>3. CASE e \in [type : {"kill_switch"}, engaged : BOOLEAN]
  BY <1>3
<1>4. CASE e = Heartbeat
  BY <1>4 DEF Heartbeat
<1>. QED BY <1>1, <1>2, <1>3, <1>4 DEF EventSet

(* The events the broker makes are events.                                  *)
LEMMA EventsAreTyped ==
    /\ SnapshotSet \subseteq EventSet
    /\ \A o \in Orders : OrderEvent(o) \in EventSet
    /\ \A e \in BOOLEAN : SwitchEvent(e) \in EventSet
    /\ Heartbeat \in EventSet
BY DEF EventSet, OrderEvent, SwitchEvent, SnapshotSet

(* What is said last is still said last when older events are gone.         *)
LEMMA SuffixTells ==
    ASSUME NEW p, NEW q, NEW n \in Nat, NEW d \in 0 .. n, NEW s,
           DOMAIN p = 1 .. n, DOMAIN q = 1 .. n - d, \A i \in 1 .. n - d : q[i] = p[i + d],
           UpToDate(p, s)
    PROVE  UpToDate(q, s)
<1>1. ASSUME NEW T, NEW i \in DOMAIN q, LastOf(q, T, i)
      PROVE  i + d \in DOMAIN p /\ LastOf(p, T, i + d) /\ q[i] = p[i + d]
  <2>1. i \in 1 .. n - d /\ i + d \in 1 .. n /\ q[i] = p[i + d]
    OBVIOUS
  <2>2. ASSUME NEW j \in DOMAIN p, j > i + d PROVE p[j].type \notin T
    <3>1. j - d \in 1 .. n - d /\ j - d > i /\ (j - d) + d = j
      BY <2>1, <2>2
    <3>2. q[j - d] = p[j] /\ q[j - d].type \notin T
      BY <1>1, <3>1 DEF LastOf
    <3>. QED BY <3>2
  <2>. QED BY <1>1, <2>1, <2>2 DEF LastOf
<1>2. TellsSwitch(q, s.switch)
  BY <1>1 DEF UpToDate, TellsSwitch
<1>3. TellsNewest(q, s.feed)
  BY <1>1 DEF UpToDate, TellsNewest
<1>. QED BY <1>2, <1>3 DEF UpToDate

(* New events speak last, where they speak.                                 *)
LEMMA LongerTells ==
    ASSUME NEW q \in Seq(EventSet), NEW ev \in Seq(EventSet), NEW s, NEW old,
           TellsSwitch(ev, s.switch),
           \/ \E i \in DOMAIN ev : ev[i].type \in SwitchTypes
           \/ TellsSwitch(q, old.switch) /\ s.switch = old.switch,
           TellsNewest(ev, s.feed),
           \/ s.feed = <<>>
           \/ \E i \in DOMAIN ev : ev[i].type \in FeedTypes
           \/ TellsNewest(q, old.feed) /\ s.feed = old.feed
    PROVE  UpToDate(q \o ev, s)
<1> DEFINE n == Len(q)
           m == Len(ev)
           w == q \o ev
<1>1. /\ n \in Nat /\ m \in Nat /\ DOMAIN w = 1 .. n + m
      /\ DOMAIN q = 1 .. n /\ DOMAIN ev = 1 .. m
      /\ \A i \in 1 .. n : w[i] = q[i]
      /\ \A i \in 1 .. m : w[i + n] = ev[i]
  OBVIOUS
<1> HIDE DEF n, m, w
<1>2. ASSUME NEW T, NEW i \in DOMAIN w, LastOf(w, T, i)
      PROVE  \/ i \in DOMAIN q /\ LastOf(q, T, i) /\ w[i] = q[i]
                /\ \A k \in DOMAIN ev : ev[k].type \notin T
             \/ i - n \in DOMAIN ev /\ LastOf(ev, T, i - n) /\ w[i] = ev[i - n]
  <2>1. CASE i <= n
    <3>1. i \in 1 .. n /\ w[i] = q[i]
      BY <1>1, <2>1
    <3>2. ASSUME NEW k \in DOMAIN ev PROVE ev[k].type \notin T
      <4>1. k + n \in DOMAIN w /\ k + n > i /\ w[k + n] = ev[k]
        BY <1>1, <3>1
      <4>. QED BY <1>2, <4>1 DEF LastOf
    <3>3. ASSUME NEW j \in DOMAIN q, j > i PROVE q[j].type \notin T
      <4>1. j \in DOMAIN w /\ w[j] = q[j]
        BY <1>1
      <4>. QED BY <1>2, <3>3, <4>1 DEF LastOf
    <3>. QED BY <1>1, <1>2, <3>1, <3>2, <3>3 DEF LastOf
  <2>2. CASE ~ (i <= n)
    <3>1. i - n \in 1 .. m /\ (i - n) + n = i /\ w[i] = ev[i - n]
      <4>1. i - n \in 1 .. m /\ (i - n) + n = i
        BY <1>1, <2>2
      <4>. QED BY <1>1, <4>1
    <3>2. ASSUME NEW j \in DOMAIN ev, j > i - n PROVE ev[j].type \notin T
      <4>1. j + n \in DOMAIN w /\ j + n > i /\ w[j + n] = ev[j]
        BY <1>1, <2>2, <3>2
      <4>. QED BY <1>2, <4>1 DEF LastOf
    <3>. QED BY <1>1, <1>2, <3>1, <3>2 DEF LastOf
  <2>. QED BY <2>1, <2>2
<1>3. TellsSwitch(w, s.switch)
  <2>1. ASSUME NEW i \in DOMAIN w, LastOf(w, SwitchTypes, i)
        PROVE  SwitchOf(w[i]) = s.switch
    BY <1>2, <2>1 DEF TellsSwitch
  <2>. QED BY <2>1 DEF TellsSwitch
<1>4. TellsNewest(w, s.feed)
  <2>1. ASSUME NEW i \in DOMAIN w, LastOf(w, FeedTypes, i), s.feed # <<>>
        PROVE  NewestIs(w[i], s.feed[1])
    BY <1>2, <2>1 DEF TellsNewest
  <2>. QED BY <2>1 DEF TellsNewest
<1>. QED BY <1>3, <1>4 DEF UpToDate, w

(* A longest prefix, and the last events.                                   *)
LEMMA TakeIsTyped ==
    ASSUME NEW S, NEW q \in Seq(S), NEW n \in Nat
    PROVE  /\ Take(q, n) \in Seq(S) /\ Len(Take(q, n)) <= n
           /\ Len(q) <= n => Take(q, n) = q
           /\ (q # <<>> /\ n # 0) => Take(q, n) # <<>> /\ Take(q, n)[1] = q[1]
<1>1. Len(q) \in Nat /\ DOMAIN q = 1 .. Len(q)
  OBVIOUS
<1>2. CASE Len(q) < n
  <2>1. Take(q, n) = SubSeq(q, 1, Len(q))
    BY <1>2 DEF Take
  <2>2. SubSeq(q, 1, Len(q)) = q
    OBVIOUS
  <2>. QED BY <1>1, <1>2, <2>1, <2>2
<1>3. CASE ~ (Len(q) < n)
  <2> DEFINE p == SubSeq(q, 1, n)
  <2>1. Take(q, n) = p
    BY <1>3 DEF Take
  <2>2. p \in Seq(S) /\ Len(p) = n /\ DOMAIN p = 1 .. n /\ \A i \in 1 .. n : p[i] = q[i]
    BY <1>1, <1>3
  <2>3. Len(q) <= n => p = q
    <3> SUFFICES ASSUME Len(q) <= n PROVE p = q
      OBVIOUS
    <3>1. n = Len(q)
      <4>1. \A a, b \in Nat : a <= b /\ ~ (a < b) => a = b
        OBVIOUS
      <4>. QED BY <1>1, <1>3, <4>1
    <3>2. SubSeq(q, 1, Len(q)) = q
      OBVIOUS
    <3>. QED BY <3>1, <3>2
  <2>4. (q # <<>> /\ n # 0) => p # <<>> /\ p[1] = q[1]
    <3> SUFFICES ASSUME n # 0 PROVE p # <<>> /\ p[1] = q[1]
      OBVIOUS
    <3>1. 1 \in 1 .. n
      OBVIOUS
    <3> HIDE DEF p
    <3>. QED BY <2>2, <3>1
  <2> HIDE DEF p
  <2>. QED BY <2>1, <2>2, <2>3, <2>4
<1>. QED BY <1>2, <1>3

(* The recent events that are kept say what all of them said.               *)
LEMMA RecentTells ==
    ASSUME NEW q \in Seq(EventSet), NEW s, UpToDate(q, s)
    PROVE  Last50(q) \in Seq(EventSet) /\ Len(Last50(q)) <= RecentMax /\ UpToDate(Last50(q), s)
<1> DEFINE n == Len(q)
           d == IF n > RecentMax THEN n - RecentMax ELSE 0
           p == SubSeq(q, d + 1, n)
<1>1. n \in Nat /\ RecentMax \in Nat /\ d \in 0 .. n /\ n - d <= RecentMax
  BY BoundsAssumption
<1>2. Last50(q) = p
  <2>1. d + 1 = IF n > RecentMax THEN n - RecentMax + 1 ELSE 1
    BY <1>1
  <2>. QED BY <2>1 DEF Last50
<1>3. DOMAIN q = 1 .. n
  OBVIOUS
<1> HIDE DEF d
<1>4. p \in Seq(EventSet) /\ Len(p) = n - d /\ DOMAIN p = 1 .. n - d
      /\ \A i \in 1 .. n - d : p[i] = q[i + d]
  BY <1>1
<1> HIDE DEF n, p
<1>5. UpToDate(p, s)
  BY <1>1, <1>3, <1>4, SuffixTells
<1>. QED BY <1>1, <1>2, <1>4, <1>5

(* A pushed order is the newest of the feed.                                *)
LEMMA NewOrderFirst ==
    ASSUME NEW feed \in Seq(Orders), NEW o \in Orders
    PROVE  /\ WithOrder(feed, o) \in Seq(Orders) /\ WithOrder(feed, o) # <<>>
           /\ WithOrder(feed, o)[1] = o
<1> DEFINE q == <<o>> \o feed
<1>1. q \in Seq(Orders) /\ q # <<>> /\ q[1] = o
  OBVIOUS
<1>2. FeedMax \in Nat /\ FeedMax # 0
  BY BoundsAssumption
<1> HIDE DEF q
<1>3. Take(q, FeedMax) \in Seq(Orders) /\ Take(q, FeedMax) # <<>> /\ Take(q, FeedMax)[1] = o
  BY <1>1, <1>2, TakeIsTyped
<1>. QED BY <1>3 DEF WithOrder, q

(* A page's view of a sequence of events.                                   *)
LEMMA ReduceIsTyped ==
    ASSUME NEW v \in StateSet \cup {None}, NEW e \in EventSet
    PROVE  /\ Reduce(v, e) \in StateSet \cup {None}
           /\ e.type = "snapshot" => Reduce(v, e) = e.data
           /\ v \in StateSet =>
                /\ e.type = "order" => Reduce(v, e) =
                     [switch |-> v.switch, feed |-> WithOrder(v.feed, e.order)]
                /\ e.type = "kill_switch" => Reduce(v, e) =
                     [switch |-> e.engaged, feed |-> v.feed]
                /\ e.type = "heartbeat" => Reduce(v, e) = v
<1>1. CASE e.type = "snapshot"
  BY <1>1, EventCases DEF Reduce
<1>2. CASE v = None /\ e.type # "snapshot"
  BY <1>2, NoneAssumption DEF Reduce
<1>3. CASE v \in StateSet /\ e.type # "snapshot"
  <2>1. /\ v # None /\ v = [switch |-> v.switch, feed |-> v.feed]
        /\ v.switch \in BOOLEAN /\ v.feed \in Seq(Orders)
    BY <1>3, NoneAssumption DEF StateSet
  <2>2. CASE e.type = "order"
    <3>1. e.order \in Orders /\ <<e.order>> \o v.feed \in Seq(Orders)
      BY <2>1, <2>2, EventCases
    <3>2. WithOrder(v.feed, e.order) \in Seq(Orders)
      BY <2>1, <3>1, NewOrderFirst
    <3>3. Reduce(v, e) = [switch |-> v.switch, feed |-> WithOrder(v.feed, e.order)]
      BY <1>3, <2>1, <2>2 DEF Reduce
    <3>. QED BY <2>1, <2>2, <3>2, <3>3 DEF StateSet
  <2>3. CASE e.type = "kill_switch"
    <3>1. Reduce(v, e) = [switch |-> e.engaged, feed |-> v.feed] /\ e.engaged \in BOOLEAN
      BY <1>3, <2>1, <2>3, EventCases DEF Reduce
    <3>. QED BY <2>1, <2>3, <3>1 DEF StateSet
  <2>4. CASE e.type = "heartbeat"
    BY <1>3, <2>1, <2>4 DEF Reduce
  <2>. QED BY <1>3, <2>2, <2>3, <2>4, EventCases
<1>. QED BY <1>1, <1>2, <1>3

(* What a page makes of a sequence of events, event by event.               *)
LEMMA ReduceSteps ==
    ASSUME NEW v \in StateSet \cup {None}, NEW q \in Seq(EventSet)
    PROVE  \E r : /\ r[0] = v
                  /\ \A i \in 1 .. Len(q) : r[i] = Reduce(r[i - 1], q[i])
                  /\ FoldLeft(Reduce, v, q) = r[Len(q)]
<1> DEFINE n == Len(q)
           A == StateSet \cup {None}
           Body(h) == [s \in SUBSET (1 .. n) |-> IF s = {} THEN v
                         ELSE Reduce(h[s \ {Max(s)}], q[Max(s)])]
           iter == CHOOSE h : h = Body(h)
           g == [p \in A \X (1 .. n) |-> Reduce(p[1], q[p[2]])]
<1>1. n \in Nat /\ DOMAIN q = 1 .. n /\ \A i \in 1 .. n : q[i] \in EventSet
  OBVIOUS
<1>2. FoldLeft(Reduce, v, q) = iter[1 .. n]
  BY <1>1 DEF FoldLeft, MapThenFoldSet
<1> HIDE DEF n
<1>3. g \in StepsOf(A, n)
        /\ \A a \in A, i \in 1 .. n : g[<<a, i>>] = Reduce(a, q[i])
  <2>1. \A a \in A, i \in 1 .. n : Reduce(a, q[i]) \in A
    BY <1>1, ReduceIsTyped
  <2> HIDE DEF A
  <2>. QED BY <2>1 DEF StepsOf
<1>4. PICK h \in [SUBSET (1 .. n) -> A] : FoldOf(h, n, v, g)
  <2>1. v \in A
    OBVIOUS
  <2> HIDE DEF A, g
  <2>. QED BY <1>1, <1>3, <2>1, FoldExists
<1>5. h = Body(h)
  <2>1. ASSUME NEW s \in SUBSET (1 .. n)
        PROVE h[s] = IF s = {} THEN v ELSE Reduce(h[s \ {Max(s)}], q[Max(s)])
    <3>1. CASE s # {}
      <4>1. Max(s) \in 1 .. n /\ h[s \ {Max(s)}] \in A
        <5> HIDE DEF A
        <5>. QED BY <1>1, <3>1, LastPlace
      <4>2. h[s] = g[<<h[s \ {Max(s)}], Max(s)>>]
        BY <1>4, <3>1 DEF FoldOf
      <4> HIDE DEF A, g
      <4>. QED BY <1>3, <3>1, <4>1, <4>2
    <3>. QED BY <1>4, <3>1 DEF FoldOf
  <2>. QED BY <2>1
<1>6. iter = Body(iter)
  <2> HIDE DEF Body
  <2>. QED BY <1>5
<1>7. \A s \in SUBSET (1 .. n) :
        iter[s] = IF s = {} THEN v ELSE Reduce(iter[s \ {Max(s)}], q[Max(s)])
  <2>1. ASSUME NEW f, f = Body(f), NEW s \in SUBSET (1 .. n)
        PROVE f[s] = IF s = {} THEN v ELSE Reduce(f[s \ {Max(s)}], q[Max(s)])
    BY <2>1
  <2> HIDE DEF Body, iter
  <2>. QED BY <1>6, <2>1
<1> DEFINE r == [i \in 0 .. n |-> iter[1 .. i]]
<1> HIDE DEF iter
<1>8. r[0] = v /\ r[n] = iter[1 .. n]
  <2>1. 1 .. 0 = {} /\ 0 \in 0 .. n /\ n \in 0 .. n
    BY <1>1
  <2>. QED BY <1>7, <2>1
<1>9. ASSUME NEW i \in 1 .. n PROVE r[i] = Reduce(r[i - 1], q[i])
  <2>1. /\ i \in 0 .. n /\ i - 1 \in 0 .. n /\ 1 .. i \in SUBSET (1 .. n)
        /\ 1 .. i # {} /\ (1 .. i) \ {i} = 1 .. i - 1 /\ i \in 1 .. i
    BY <1>1, IntervalBut
  <2>2. Max(1 .. i) = i
    BY <1>1, <2>1, LastOfInterval
  <2>. QED BY <1>7, <2>1, <2>2
<1> HIDE DEF r
<1>. QED BY <1>2, <1>8, <1>9 DEF n

(* Once a snapshot was reduced, the view is what was said last.             *)
LastUpTo(q, T, i, j) == j \in 1 .. i /\ q[j].type \in T /\ \A k \in j + 1 .. i : q[k].type \notin T

(* So a sequence with a snapshot in it that says last what is shown leads   *)
(* there.                                                                   *)
LEMMA ReducedToLast ==
    ASSUME NEW v \in StateSet \cup {None}, NEW q \in Seq(EventSet), NEW s \in StateSet,
           UpToDate(q, s), NEW l \in DOMAIN q, q[l].type = "snapshot"
    PROVE  /\ FoldLeft(Reduce, v, q).switch = s.switch
           /\ \/ s.feed = <<>>
              \/ /\ FoldLeft(Reduce, v, q).feed # <<>>
                 /\ FoldLeft(Reduce, v, q).feed[1] = s.feed[1]
<1> DEFINE n == Len(q)
<1>1. PICK r : /\ r[0] = v
               /\ \A i \in 1 .. n : r[i] = Reduce(r[i - 1], q[i])
               /\ FoldLeft(Reduce, v, q) = r[n]
  BY ReduceSteps
<1>2. n \in Nat /\ DOMAIN q = 1 .. n /\ \A i \in 1 .. n : q[i] \in EventSet
  OBVIOUS
<1> HIDE DEF n
<1> DEFINE A == StateSet \cup {None}
           Started(i) == \E j \in 1 .. i : q[j].type = "snapshot"
           Reached(i) ==
              /\ r[i] \in StateSet
              /\ \A j \in 1 .. i : LastUpTo(q, SwitchTypes, i, j) => r[i].switch = SwitchOf(q[j])
              /\ \A j \in 1 .. i : LastUpTo(q, FeedTypes, i, j) =>
                    \A o : NewestIs(q[j], o) => r[i].feed # <<>> /\ r[i].feed[1] = o
           Good(i) == r[i] \in A /\ (Started(i) => Reached(i))
           Fails == {i \in 0 .. n : ~ Good(i)}
<1>3. 0 \notin Fails
  <2>1. 1 .. 0 = {}
    OBVIOUS
  <2>. QED BY <1>1, <2>1
<1>4. ASSUME NEW i \in 1 .. n, i \in Fails PROVE i - 1 \in Fails
  <2>1. i - 1 \in 0 .. n /\ i \in 0 .. n /\ q[i] \in EventSet /\ i \in Nat /\ i \in 1 .. i
        /\ \A j \in 1 .. i : j = i \/ j \in 1 .. i - 1
    BY <1>2
  <2> SUFFICES ASSUME Good(i - 1) PROVE Good(i)
    BY <1>4, <2>1
  <2> DEFINE old == r[i - 1]
             new == r[i]
             e == q[i]
  <2>2. new = Reduce(old, e)
    BY <1>1
  <2>3. old \in A /\ (Started(i - 1) => Reached(i - 1))
    OBVIOUS
  <2> HIDE DEF Good
  <2>4. /\ new \in A
        /\ e.type = "snapshot" => new = e.data
        /\ old \in StateSet =>
                /\ e.type = "order" => new =
                     [switch |-> old.switch, feed |-> WithOrder(old.feed, e.order)]
                /\ e.type = "kill_switch" => new =
                     [switch |-> e.engaged, feed |-> old.feed]
                /\ e.type = "heartbeat" => new = old
    <3> HIDE DEF old, new, e
    <3>. QED BY <2>1, <2>2, <2>3, ReduceIsTyped DEF e
  <2>5. ASSUME NEW T, NEW j \in 1 .. i, LastUpTo(q, T, i, j)
        PROVE  \/ j = i
               \/ j \in 1 .. i - 1 /\ LastUpTo(q, T, i - 1, j) /\ e.type \notin T
    <3>1. CASE j # i
      <4>1. j \in 1 .. i - 1 /\ i \in j + 1 .. i /\ j + 1 .. i - 1 \subseteq j + 1 .. i
        BY <2>1, <3>1
      <4>. QED BY <2>5, <4>1 DEF LastUpTo
    <3>. QED BY <3>1
  <2>51. ASSUME NEW T, e.type \notin T, NEW j \in 1 .. i, LastUpTo(q, T, i, j)
        PROVE  j \in 1 .. i - 1 /\ LastUpTo(q, T, i - 1, j)
    BY <2>5, <2>51 DEF LastUpTo
  <2>6. ASSUME NEW T, e.type \in T, NEW j \in 1 .. i, LastUpTo(q, T, i, j)
        PROVE  j = i
    BY <2>5, <2>6
  <2>7. ASSUME Started(i), e.type # "snapshot"
        PROVE  /\ old \in StateSet
               /\ \A j \in 1 .. i - 1 :
                     LastUpTo(q, SwitchTypes, i - 1, j) => old.switch = SwitchOf(q[j])
               /\ \A j \in 1 .. i - 1 : LastUpTo(q, FeedTypes, i - 1, j) =>
                     \A o : NewestIs(q[j], o) => old.feed # <<>> /\ old.feed[1] = o
    BY <2>1, <2>3, <2>7
  <2> HIDE DEF old, new, e
  <2>8. CASE e.type = "snapshot"
    <3>1. new = e.data /\ e.data \in StateSet
      BY <2>1, <2>4, <2>8, EventCases DEF e
    <3>2. e.type \in SwitchTypes /\ e.type \in FeedTypes
      BY <2>8 DEF SwitchTypes, FeedTypes
    <3>3. SwitchOf(e) = e.data.switch
          /\ \A o : NewestIs(e, o) => e.data.feed # <<>> /\ e.data.feed[1] = o
      BY <2>8 DEF SwitchOf, NewestIs
    <3>4. Reached(i)
      BY <2>6, <3>1, <3>2, <3>3 DEF e, new
    <3>. QED BY <2>4, <3>4 DEF Good, new
  <2>9. CASE e.type = "order" /\ Started(i)
    <3>1. /\ old \in StateSet /\ e.order \in Orders
          /\ new = [switch |-> old.switch, feed |-> WithOrder(old.feed, e.order)]
          /\ old.feed \in Seq(Orders)
      BY <2>1, <2>4, <2>7, <2>9, EventCases DEF e, StateSet
    <3>2. e.type \in FeedTypes /\ e.type \notin SwitchTypes
      BY <2>9 DEF SwitchTypes, FeedTypes
    <3>3. WithOrder(old.feed, e.order) # <<>> /\ WithOrder(old.feed, e.order)[1] = e.order
          /\ WithOrder(old.feed, e.order) \in Seq(Orders)
      BY <3>1, NewOrderFirst
    <3>4. new \in StateSet /\ new.switch = old.switch /\ new.feed # <<>> /\ new.feed[1] = e.order
      BY <3>1, <3>3 DEF StateSet
    <3>5. \A o : NewestIs(e, o) => e.order = o
      BY <2>9 DEF NewestIs
    <3>6. Reached(i)
      <4>1. \A j \in 1 .. i : LastUpTo(q, SwitchTypes, i, j) => new.switch = SwitchOf(q[j])
        BY <2>7, <2>9, <2>51, <3>2, <3>4
      <4>2. \A j \in 1 .. i : LastUpTo(q, FeedTypes, i, j) =>
                \A o : NewestIs(q[j], o) => new.feed # <<>> /\ new.feed[1] = o
        BY <2>6, <3>2, <3>4, <3>5 DEF e
      <4>. QED BY <3>4, <4>1, <4>2 DEF new
    <3>. QED BY <2>4, <3>6 DEF Good, new
  <2>10. CASE e.type = "kill_switch" /\ Started(i)
    <3>1. /\ old \in StateSet /\ e.engaged \in BOOLEAN
          /\ new = [switch |-> e.engaged, feed |-> old.feed]
          /\ old.feed \in Seq(Orders)
      BY <2>1, <2>4, <2>7, <2>10, EventCases DEF e, StateSet
    <3>2. e.type \in SwitchTypes /\ e.type \notin FeedTypes /\ SwitchOf(e) = e.engaged
      BY <2>10 DEF SwitchTypes, FeedTypes, SwitchOf
    <3>3. new \in StateSet /\ new.switch = e.engaged /\ new.feed = old.feed
      BY <3>1 DEF StateSet
    <3>4. Reached(i)
      <4>1. \A j \in 1 .. i : LastUpTo(q, SwitchTypes, i, j) => new.switch = SwitchOf(q[j])
        BY <2>6, <3>2, <3>3 DEF e
      <4>2. \A j \in 1 .. i : LastUpTo(q, FeedTypes, i, j) =>
                \A o : NewestIs(q[j], o) => new.feed # <<>> /\ new.feed[1] = o
        BY <2>7, <2>10, <2>51, <3>2, <3>3
      <4>. QED BY <3>3, <4>1, <4>2 DEF new
    <3>. QED BY <2>4, <3>4 DEF Good, new
  <2>11. CASE e.type = "heartbeat" /\ Started(i)
    <3>1. old \in StateSet /\ new = old
      BY <2>4, <2>7, <2>11
    <3>2. e.type \notin SwitchTypes /\ e.type \notin FeedTypes
      BY <2>11 DEF SwitchTypes, FeedTypes
    <3>3. Reached(i)
      <4>1. \A j \in 1 .. i : LastUpTo(q, SwitchTypes, i, j) => new.switch = SwitchOf(q[j])
        BY <2>7, <2>11, <2>51, <3>1, <3>2
      <4>2. \A j \in 1 .. i : LastUpTo(q, FeedTypes, i, j) =>
                \A o : NewestIs(q[j], o) => new.feed # <<>> /\ new.feed[1] = o
        BY <2>7, <2>11, <2>51, <3>1, <3>2
      <4>. QED BY <3>1, <4>1, <4>2 DEF new
    <3>. QED BY <2>4, <3>3 DEF Good, new
  <2>12. CASE ~ Started(i)
    BY <2>4, <2>12 DEF Good, new
  <2>. QED BY <2>1, <2>8, <2>9, <2>10, <2>11, <2>12, EventCases DEF e
<1>5. Fails = {}
  <2>0. Fails \in SUBSET (0 .. n)
    OBVIOUS
  <2> HIDE DEF Fails
  <2>. QED BY <1>2, <1>3, <1>4, <2>0, NoFirstFailure
<1>6. Reached(n)
  <2>1. n \in 0 .. n /\ Started(n)
    BY <1>2
  <2>2. Good(n)
    BY <1>5, <2>1
  <2>. QED BY <2>1, <2>2
<1>7. ASSUME NEW T, q[l].type \in T
      PROVE  \E j \in 1 .. n : LastOf(q, T, j) /\ LastUpTo(q, T, n, j)
  <2> DEFINE S == {j \in 1 .. n : q[j].type \in T}
  <2>1. Max(S) \in S /\ \A x \in S : x <= Max(S)
    <3>1. S \in SUBSET (1 .. n) /\ S # {}
      BY <1>2, <1>7
    <3> HIDE DEF S
    <3>. QED BY <1>2, <3>1, LastPlace
  <2>2. PICK j \in S : \A x \in S : x <= j
    BY <2>1
  <2>3. \A k \in 1 .. n : k > j => q[k].type \notin T
    BY <1>2, <2>2
  <2>4. \A k \in j + 1 .. n : k \in 1 .. n /\ k > j
    BY <1>2, <2>2
  <2>. QED BY <1>2, <2>2, <2>3, <2>4 DEF LastOf, LastUpTo
<1>8. q[l].type \in SwitchTypes /\ q[l].type \in FeedTypes
  BY DEF SwitchTypes, FeedTypes
<1>9. r[n].switch = s.switch
  <2>1. PICK j \in 1 .. n : LastOf(q, SwitchTypes, j) /\ LastUpTo(q, SwitchTypes, n, j)
    BY <1>7, <1>8
  <2>. QED BY <1>2, <1>6, <2>1 DEF UpToDate, TellsSwitch
<1>10. ASSUME s.feed # <<>> PROVE r[n].feed # <<>> /\ r[n].feed[1] = s.feed[1]
  <2>1. PICK j \in 1 .. n : LastOf(q, FeedTypes, j) /\ LastUpTo(q, FeedTypes, n, j)
    BY <1>7, <1>8
  <2>2. NewestIs(q[j], s.feed[1])
    BY <1>2, <1>10, <2>1 DEF UpToDate, TellsNewest
  <2>. QED BY <1>6, <2>1, <2>2
<1>. QED BY <1>1, <1>9, <1>10

(* Sending events: what is kept, and who still gets them, is current if the *)
(* events are added to something that is.                                   *)
LEMMA EnqueueTells ==
    ASSUME BrokerTypeOK, NEW past \in Seq(EventSet), NEW queues \in [Clients -> Seq(EventSet)],
           NEW events \in Seq(EventSet), EnqueueTo(past, queues, events), NEW s,
           UpToDate(past \o events, s), \A c \in subs : UpToDate(queues[c] \o events, s)
    PROVE  /\ recent' \in Seq(EventSet) /\ Len(recent') <= RecentMax /\ UpToDate(recent', s)
           /\ queue' \in [Clients -> Seq(EventSet)] /\ subs' \subseteq subs
           /\ \A c \in subs' : UpToDate(queue'[c], s)
<1>1. past \o events \in Seq(EventSet) /\ \A c \in Clients : queues[c] \o events \in Seq(EventSet)
  OBVIOUS
<1>2. recent' = Last50(past \o events)
  BY DEF EnqueueTo
<1>3. QueueMax \in Nat /\ subs \subseteq Clients
  BY BoundsAssumption DEF BrokerTypeOK
<1>4. \A c \in Clients : Take(queues[c] \o events, QueueMax) \in Seq(EventSet)
  BY <1>1, <1>3, TakeIsTyped
<1>5. queue' \in [Clients -> Seq(EventSet)]
  BY <1>4 DEF EnqueueTo
<1>6. ASSUME NEW c \in subs' PROVE c \in subs /\ UpToDate(queue'[c], s)
  <2>1. c \in subs /\ c \in Clients /\ Len(queues[c]) + Len(events) <= QueueMax
    BY <1>3, <1>6 DEF EnqueueTo
  <2>2. Len(queues[c] \o events) = Len(queues[c]) + Len(events)
    BY <2>1
  <2>3. Take(queues[c] \o events, QueueMax) = queues[c] \o events
    BY <1>1, <1>3, <2>1, <2>2, TakeIsTyped
  <2>4. queue'[c] = queues[c] \o events
    BY <2>1, <2>3 DEF EnqueueTo
  <2>. QED BY <2>1, <2>4
<1>. QED BY <1>1, <1>2, <1>5, <1>6, RecentTells

(* The steps that send events.                                              *)
LEMMA SendingStep ==
    ASSUME BrokerTypeOK, NEW past \in Seq(EventSet), NEW queues \in [Clients -> Seq(EventSet)],
           NEW events \in Seq(EventSet), EnqueueTo(past, queues, events), shown' \in StateSet,
           UpToDate(past \o events, shown'), \A c \in subs : UpToDate(queues[c] \o events, shown'),
           UNCHANGED pageVars, engaged' \in BOOLEAN, pushed' \in Seq(Orders),
           saving' \subseteq ToSet(pushed'), rows' \subseteq ToSet(pushed'),
           wiping' \in BOOLEAN, changes' \in Nat, breaks' \in Nat
    PROVE  BrokerInv'
<1>1. /\ recent' \in Seq(EventSet) /\ Len(recent') <= RecentMax /\ UpToDate(recent', shown')
      /\ queue' \in [Clients -> Seq(EventSet)] /\ subs' \subseteq subs
      /\ \A c \in subs' : UpToDate(queue'[c], shown')
  BY EnqueueTells
<1>2. BrokerTypeOK'
  BY <1>1 DEF BrokerTypeOK, pageVars
<1>. QED BY <1>1, <1>2 DEF BrokerInv

(* The steps that send none, and leave what is shown alone.                 *)
LEMMA SilentStep ==
    ASSUME BrokerInv, BrokerTypeOK', UNCHANGED <<shown, recent, subs, queue>>
    PROVE  BrokerInv'
BY DEF BrokerInv

(* The events of a switch say it, and there is one if it has changed.       *)
LEMMA SwitchEventsTell ==
    ASSUME BrokerTypeOK, NEW e \in BOOLEAN
    PROVE  /\ SwitchEvents(e) \in Seq(EventSet)
           /\ \/ SwitchEvents(e) = <<>> /\ e = shown.switch
              \/ SwitchEvents(e) = <<SwitchEvent(e)>>
           /\ TellsSwitch(SwitchEvents(e), e) /\ \A feed : TellsNewest(SwitchEvents(e), feed)
           /\ e = shown.switch
              \/ \E i \in DOMAIN SwitchEvents(e) : SwitchEvents(e)[i].type \in SwitchTypes
<1>1. CASE e = shown.switch
  <2>1. SwitchEvents(e) = <<>>
    BY <1>1 DEF SwitchEvents
  <2>2. TellsSwitch(<<>>, e) /\ \A feed : TellsNewest(<<>>, feed)
    BY DEF TellsSwitch, TellsNewest
  <2>. QED BY <1>1, <2>1, <2>2
<1>2. CASE e # shown.switch
  <2> DEFINE q == <<SwitchEvent(e)>>
  <2>1. SwitchEvents(e) = q
    BY <1>2 DEF SwitchEvents
  <2>2. /\ q \in Seq(EventSet) /\ DOMAIN q = {1} /\ q[1].type = "kill_switch"
        /\ q[1].engaged = e
    BY EventsAreTyped DEF SwitchEvent
  <2> HIDE DEF q
  <2>3. TellsSwitch(q, e)
    BY <2>2 DEF TellsSwitch, SwitchOf
  <2>4. \A feed : TellsNewest(q, feed)
    BY <2>2 DEF TellsNewest, LastOf, FeedTypes
  <2>5. q[1].type \in SwitchTypes
    BY <2>2 DEF SwitchTypes
  <2>. QED BY <2>1, <2>2, <2>3, <2>4, <2>5 DEF q
<1>. QED BY <1>1, <1>2

(* What is shown, with one field changed.                                   *)
LEMMA ShownWith ==
    ASSUME NEW s \in StateSet
    PROVE  /\ \A e \in BOOLEAN : /\ [s EXCEPT !.switch = e] \in StateSet
                                /\ [s EXCEPT !.switch = e].switch = e
                                /\ [s EXCEPT !.switch = e].feed = s.feed
           /\ \A q \in Seq(Orders) : /\ [s EXCEPT !.feed = q] \in StateSet
                                     /\ [s EXCEPT !.feed = q].switch = s.switch
                                     /\ [s EXCEPT !.feed = q].feed = q
           /\ s.feed \in Seq(Orders) /\ s.switch \in BOOLEAN
BY DEF StateSet

(* The switch is shown and announced.                                       *)
LEMMA UpdateSwitchStep ==
    ASSUME BrokerInv, NEW e \in BOOLEAN, UpdateKillSwitch(e),
           UNCHANGED <<pageVars, tableVars, engaged>>, changes' \in Nat, breaks' \in Nat
    PROVE  BrokerInv'
<1>1. BrokerTypeOK /\ shown \in StateSet /\ recent \in Seq(EventSet)
      /\ queue \in [Clients -> Seq(EventSet)] /\ subs \subseteq Clients
  BY DEF BrokerInv, BrokerTypeOK
<1>2. shown' \in StateSet /\ shown'.switch = e /\ shown'.feed = shown.feed
  BY <1>1, ShownWith DEF UpdateKillSwitch
<1> DEFINE ev == SwitchEvents(e)
<1>3. /\ ev \in Seq(EventSet)
      /\ TellsSwitch(ev, e) /\ \A feed : TellsNewest(ev, feed)
      /\ e = shown.switch \/ \E i \in DOMAIN ev : ev[i].type \in SwitchTypes
  BY <1>1, SwitchEventsTell
<1>4. EnqueueTo(recent, queue, ev)
  BY DEF UpdateKillSwitch, Enqueue
<1> HIDE DEF ev
<1>5. ASSUME NEW q \in Seq(EventSet), UpToDate(q, shown)
      PROVE  UpToDate(q \o ev, shown')
  BY <1>2, <1>3, <1>5, LongerTells DEF UpToDate
<1>6. UpToDate(recent \o ev, shown') /\ \A c \in subs : UpToDate(queue[c] \o ev, shown')
  BY <1>1, <1>5 DEF BrokerInv
<1>7. /\ engaged' \in BOOLEAN /\ pushed' \in Seq(Orders) /\ wiping' \in BOOLEAN
      /\ saving' \subseteq ToSet(pushed') /\ rows' \subseteq ToSet(pushed')
  BY <1>1 DEF BrokerTypeOK, tableVars
<1>. QED BY <1>1, <1>2, <1>3, <1>4, <1>6, <1>7, SendingStep

(* A refresh announces the switch if it has changed, and then everything.   *)
LEMMA RefreshStep == ASSUME BrokerInv, Refresh PROVE BrokerInv'
<1> DEFINE fresh == [shown EXCEPT !.switch = engaged]
           snap == [SnapshotEvent EXCEPT !.data = fresh]
           ev == Append(SwitchEvents(engaged), snap)
<1>1. BrokerTypeOK /\ shown \in StateSet /\ recent \in Seq(EventSet) /\ engaged \in BOOLEAN
      /\ queue \in [Clients -> Seq(EventSet)] /\ subs \subseteq Clients
  BY DEF BrokerInv, BrokerTypeOK
<1>2. fresh \in StateSet /\ fresh.switch = engaged /\ fresh.feed = shown.feed
  BY <1>1, ShownWith
<1>3. shown' = fresh /\ EnqueueTo(recent, queue, ev)
  BY DEF Refresh, Enqueue
<1> HIDE DEF fresh
<1>4. SnapshotEvent \in SnapshotSet
  BY <1>1 DEF SnapshotEvent, SnapshotSet
<1>5. snap \in EventSet /\ snap.type = "snapshot" /\ snap.data = fresh
  BY <1>2, <1>4, OtherData, EventsAreTyped
<1> HIDE DEF snap
<1>6. PICK l \in Nat : /\ ev \in Seq(EventSet) /\ DOMAIN ev = 1 .. l /\ l \in DOMAIN ev
                       /\ ev[l] = snap
  <2>1. SwitchEvents(engaged) \in Seq(EventSet)
    BY <1>1, SwitchEventsTell
  <2>. QED BY <1>5, <2>1
<1> HIDE DEF ev
<1>7. "snapshot" \in SwitchTypes /\ "snapshot" \in FeedTypes
  BY DEF SwitchTypes, FeedTypes
<1>8. ASSUME NEW T, "snapshot" \in T, NEW i \in DOMAIN ev, LastOf(ev, T, i)
      PROVE  ev[i] = snap
  <2>1. ~ (l > i)
    BY <1>5, <1>6, <1>8 DEF LastOf
  <2>2. i = l
    BY <1>6, <2>1
  <2>. QED BY <1>6, <2>2
<1>9. TellsSwitch(ev, fresh.switch) /\ TellsNewest(ev, fresh.feed)
  <2>1. SwitchOf(snap) = fresh.switch /\ (fresh.feed # <<>> => NewestIs(snap, fresh.feed[1]))
    BY <1>5 DEF SwitchOf, NewestIs
  <2>2. TellsSwitch(ev, fresh.switch)
    BY <1>7, <1>8, <2>1 DEF TellsSwitch
  <2>3. TellsNewest(ev, fresh.feed)
    BY <1>7, <1>8, <2>1 DEF TellsNewest
  <2>. QED BY <2>2, <2>3
<1>10. ASSUME NEW q \in Seq(EventSet) PROVE UpToDate(q \o ev, fresh)
  BY <1>5, <1>6, <1>7, <1>9, LongerTells
<1>11. UpToDate(recent \o ev, shown') /\ \A c \in subs : UpToDate(queue[c] \o ev, shown')
  BY <1>1, <1>3, <1>10
<1>12. /\ UNCHANGED pageVars /\ engaged' \in BOOLEAN /\ pushed' \in Seq(Orders)
       /\ saving' \subseteq ToSet(pushed') /\ rows' \subseteq ToSet(pushed')
       /\ wiping' \in BOOLEAN /\ changes' \in Nat /\ breaks' \in Nat
  BY <1>1 DEF Refresh, BrokerTypeOK, tableVars, boundVars
<1>. QED BY <1>1, <1>2, <1>3, <1>6, <1>11, <1>12, SendingStep

(* A heartbeat says nothing of either.                                      *)
LEMMA BeatStep == ASSUME BrokerInv, Beat PROVE BrokerInv'
<1> DEFINE ev == <<Heartbeat>>
<1>1. BrokerTypeOK /\ shown \in StateSet /\ recent \in Seq(EventSet)
      /\ queue \in [Clients -> Seq(EventSet)] /\ subs \subseteq Clients
  BY DEF BrokerInv, BrokerTypeOK
<1>2. ev \in Seq(EventSet) /\ DOMAIN ev = {1} /\ ev[1].type = "heartbeat"
  BY EventsAreTyped DEF Heartbeat
<1>3. EnqueueTo(recent, queue, ev) /\ shown' = shown
  BY DEF Beat, Enqueue
<1> HIDE DEF ev
<1>4. TellsSwitch(ev, shown.switch) /\ TellsNewest(ev, shown.feed)
  BY <1>2 DEF TellsSwitch, TellsNewest, LastOf, SwitchTypes, FeedTypes
<1>5. ASSUME NEW q \in Seq(EventSet), UpToDate(q, shown)
      PROVE  UpToDate(q \o ev, shown)
  BY <1>2, <1>4, <1>5, LongerTells DEF UpToDate
<1>6. UpToDate(recent \o ev, shown') /\ \A c \in subs : UpToDate(queue[c] \o ev, shown')
  BY <1>1, <1>3, <1>5 DEF BrokerInv
<1>7. /\ UNCHANGED pageVars /\ engaged' \in BOOLEAN /\ pushed' \in Seq(Orders)
      /\ saving' \subseteq ToSet(pushed') /\ rows' \subseteq ToSet(pushed')
      /\ wiping' \in BOOLEAN /\ changes' \in Nat /\ breaks' \in Nat /\ shown' \in StateSet
  BY <1>1 DEF Beat, Change, BrokerTypeOK, tableVars
<1>. QED BY <1>1, <1>2, <1>3, <1>6, <1>7, SendingStep

(* Queued snapshots may show an order more: what they say of the switch     *)
(* stays.                                                                   *)
LEMMA SameSwitchTold ==
    ASSUME NEW q \in Seq(EventSet), NEW p \in Seq(EventSet), DOMAIN p = DOMAIN q,
           \A i \in DOMAIN q : p[i].type = q[i].type /\ SwitchOf(p[i]) = SwitchOf(q[i]),
           NEW sw, TellsSwitch(q, sw)
    PROVE  TellsSwitch(p, sw)
<1>1. \A i \in DOMAIN q : LastOf(p, SwitchTypes, i) => LastOf(q, SwitchTypes, i)
  BY DEF LastOf
<1>. QED BY <1>1 DEF TellsSwitch

(* Snapshots with an order more say the same of the switch.                 *)
LEMMA AliasedTells ==
    ASSUME NEW q \in Seq(EventSet), NEW o \in Orders
    PROVE  /\ Aliased(q, o) \in Seq(EventSet)
           /\ \A sw : TellsSwitch(q, sw) => TellsSwitch(Aliased(q, o), sw)
<1> DEFINE p == Aliased(q, o)
<1>1. ASSUME NEW i \in DOMAIN q
      PROVE  p[i] \in EventSet /\ p[i].type = q[i].type /\ SwitchOf(p[i]) = SwitchOf(q[i])
  <2> DEFINE e == q[i]
  <2>1. e \in EventSet
    OBVIOUS
  <2>2. CASE e.type = "snapshot" /\ e.shared
    <3>1. e \in SnapshotSet /\ e.data \in StateSet
      BY <2>1, <2>2, EventCases
    <3> DEFINE d == [e.data EXCEPT !.feed = <<o>> \o e.data.feed]
    <3>2. p[i] = [e EXCEPT !.data.feed = <<o>> \o @, !.shared = FALSE]
      BY <2>2 DEF Aliased
    <3> HIDE DEF e
    <3>3. d \in StateSet /\ d.switch = e.data.switch
      <4>1. e.data.feed \in Seq(Orders)
        BY <3>1, ShownWith
      <4>2. <<o>> \o e.data.feed \in Seq(Orders)
        BY <4>1
      <4>. QED BY <3>1, <4>2, ShownWith
    <3> DEFINE f == [e EXCEPT !.data = d]
    <3>4. p[i] = [f EXCEPT !.shared = FALSE]
      BY <3>1, <3>2 DEF SnapshotSet, StateSet
    <3> HIDE DEF d, p
    <3>5. f \in SnapshotSet /\ f.data = d
      BY <3>1, <3>3, OtherData
    <3> HIDE DEF f
    <3>6. p[i] \in SnapshotSet /\ p[i].type = "snapshot" /\ p[i].data = d
      BY <3>4, <3>5, SharedNoMore
    <3>. QED BY <2>2, <3>3, <3>6, EventsAreTyped DEF SwitchOf, e
  <2>3. CASE ~ (e.type = "snapshot" /\ e.shared)
    <3>1. p[i] = q[i]
      BY <2>3 DEF Aliased
    <3> HIDE DEF p, e
    <3>. QED BY <3>1
  <2>. QED BY <2>2, <2>3
<1>2. DOMAIN p = DOMAIN q /\ DOMAIN q = 1 .. Len(q) /\ Len(q) \in Nat
  BY DEF Aliased
<1>3. p = [i \in 1 .. Len(q) |-> p[i]]
  BY <1>2 DEF Aliased
<1> HIDE DEF p
<1>4. p \in Seq(EventSet)
  BY <1>1, <1>2, <1>3
<1>5. ASSUME NEW sw, TellsSwitch(q, sw) PROVE TellsSwitch(p, sw)
  BY <1>1, <1>2, <1>4, <1>5, SameSwitchTold
<1>. QED BY <1>4, <1>5 DEF p

(* So do those that share the feed no more.                                 *)
LEMMA UnsharedTells ==
    ASSUME NEW q \in Seq(EventSet)
    PROVE  /\ Unshared(q) \in Seq(EventSet)
           /\ \A sw : TellsSwitch(q, sw) => TellsSwitch(Unshared(q), sw)
<1> DEFINE p == Unshared(q)
<1>1. ASSUME NEW i \in DOMAIN q
      PROVE  p[i] \in EventSet /\ p[i].type = q[i].type /\ SwitchOf(p[i]) = SwitchOf(q[i])
  <2> DEFINE e == q[i]
  <2>1. e \in EventSet
    OBVIOUS
  <2>2. CASE e.type = "snapshot"
    <3>1. e \in SnapshotSet
      BY <2>1, <2>2, EventCases
    <3>2. p[i] = [e EXCEPT !.shared = FALSE]
      BY <2>2 DEF Unshared
    <3> HIDE DEF e, p
    <3>3. p[i] \in SnapshotSet /\ p[i].type = "snapshot" /\ p[i].data = e.data
      BY <3>1, <3>2, SharedNoMore
    <3>. QED BY <2>2, <3>3, EventsAreTyped DEF SwitchOf, e
  <2>3. CASE e.type # "snapshot"
    <3>1. p[i] = q[i]
      BY <2>3 DEF Unshared
    <3> HIDE DEF p, e
    <3>. QED BY <3>1
  <2>. QED BY <2>2, <2>3
<1>2. DOMAIN p = DOMAIN q /\ DOMAIN q = 1 .. Len(q) /\ Len(q) \in Nat
  BY DEF Unshared
<1>3. p = [i \in 1 .. Len(q) |-> p[i]]
  BY <1>2 DEF Unshared
<1> HIDE DEF p
<1>4. p \in Seq(EventSet)
  BY <1>1, <1>2, <1>3
<1>5. ASSUME NEW sw, TellsSwitch(q, sw) PROVE TellsSwitch(p, sw)
  BY <1>1, <1>2, <1>4, <1>5, SameSwitchTold
<1>. QED BY <1>4, <1>5 DEF p

(* A pushed order is the newest, and its event says so after all the        *)
(* others, also after the snapshots that show it already.                   *)
LEMMA PushOrderStep == ASSUME BrokerInv, NEW o \in Orders, PushOrder(o) PROVE BrokerInv'
<1> DEFINE ev == <<OrderEvent(o)>>
           past == Aliased(recent, o)
           queues == [c \in Clients |-> Aliased(queue[c], o)]
<1>1. BrokerTypeOK /\ shown \in StateSet /\ recent \in Seq(EventSet)
      /\ queue \in [Clients -> Seq(EventSet)] /\ subs \subseteq Clients
  BY DEF BrokerInv, BrokerTypeOK
<1>2. EnqueueTo(past, queues, ev) /\ shown' = [shown EXCEPT !.feed = WithOrder(@, o)]
  BY DEF PushOrder
<1>3. /\ shown' \in StateSet /\ shown'.switch = shown.switch
      /\ shown'.feed # <<>> /\ shown'.feed[1] = o
  <2>1. shown.feed \in Seq(Orders)
    BY <1>1, ShownWith
  <2>2. /\ WithOrder(shown.feed, o) \in Seq(Orders) /\ WithOrder(shown.feed, o) # <<>>
        /\ WithOrder(shown.feed, o)[1] = o
    BY <2>1, NewOrderFirst
  <2>. QED BY <1>1, <1>2, <2>2, ShownWith
<1>4. ev \in Seq(EventSet) /\ DOMAIN ev = {1} /\ ev[1].type = "order" /\ ev[1].order = o
  BY EventsAreTyped DEF OrderEvent
<1>5. past \in Seq(EventSet) /\ queues \in [Clients -> Seq(EventSet)]
      /\ \A c \in Clients : queues[c] = Aliased(queue[c], o)
  BY <1>1, AliasedTells
<1>6. TellsSwitch(past, shown.switch) /\ \A c \in subs : TellsSwitch(queues[c], shown.switch)
  BY <1>1, <1>5, AliasedTells DEF BrokerInv, UpToDate
<1> HIDE DEF ev, past, queues
<1>7. TellsSwitch(ev, shown'.switch)
  BY <1>4 DEF TellsSwitch, LastOf, SwitchTypes
<1>8. TellsNewest(ev, shown'.feed)
  BY <1>3, <1>4 DEF TellsNewest, NewestIs
<1>9. 1 \in DOMAIN ev /\ ev[1].type \in FeedTypes
  BY <1>4 DEF FeedTypes
<1>10. ASSUME NEW q \in Seq(EventSet), TellsSwitch(q, shown.switch)
       PROVE  UpToDate(q \o ev, shown')
  BY <1>3, <1>4, <1>7, <1>8, <1>9, <1>10, LongerTells
<1>11. UpToDate(past \o ev, shown') /\ \A c \in subs : UpToDate(queues[c] \o ev, shown')
  BY <1>1, <1>5, <1>6, <1>10
<1>12. /\ UNCHANGED pageVars /\ engaged' \in BOOLEAN /\ wiping' \in BOOLEAN
       /\ changes' \in Nat /\ breaks' \in Nat
  BY <1>1 DEF PushOrder, BrokerTypeOK, boundVars
<1>13. /\ pushed' \in Seq(Orders) /\ saving' \subseteq ToSet(pushed')
       /\ rows' \subseteq ToSet(pushed')
  <2>1. pushed \in Seq(Orders) /\ saving \subseteq ToSet(pushed) /\ rows \subseteq ToSet(pushed)
        /\ pushed' = <<o>> \o pushed /\ saving' = saving \cup {o} /\ rows' = rows
    BY <1>1 DEF PushOrder, BrokerTypeOK
  <2>2. ToSet(pushed) \cup {o} \subseteq ToSet(<<o>> \o pushed)
    <3> DEFINE q == <<o>> \o pushed
    <3>1. /\ DOMAIN q = 1 .. Len(pushed) + 1 /\ DOMAIN pushed = 1 .. Len(pushed)
          /\ Len(pushed) \in Nat
          /\ q[1] = o /\ \A i \in 1 .. Len(pushed) : q[i + 1] = pushed[i]
      BY <2>1
    <3> HIDE DEF q
    <3>2. ASSUME NEW x \in ToSet(pushed) \cup {o} PROVE \E i \in DOMAIN q : q[i] = x
      <4>1. CASE x = o
        BY <3>1, <4>1
      <4>2. CASE x \in ToSet(pushed)
        <5>1. PICK i \in 1 .. Len(pushed) : pushed[i] = x
          BY <3>1, <4>2 DEF ToSet
        <5>2. i + 1 \in DOMAIN q /\ q[i + 1] = x
          BY <3>1, <5>1
        <5>. QED BY <5>2
      <4>. QED BY <4>1, <4>2
    <3>. QED BY <3>2 DEF ToSet, q
  <2>. QED BY <2>1, <2>2
<1>. QED BY <1>1, <1>2, <1>3, <1>4, <1>5, <1>11, <1>12, <1>13, SendingStep

(* reset-data announces the switch; an empty feed is not announced.         *)
LEMMA WipeShownStep == ASSUME BrokerInv, WipeShown PROVE BrokerInv'
<1> DEFINE ev == SwitchEvents(FALSE)
           past == Unshared(recent)
           queues == [c \in Clients |-> Unshared(queue[c])]
<1>1. BrokerTypeOK /\ shown \in StateSet /\ recent \in Seq(EventSet) /\ FALSE \in BOOLEAN
      /\ queue \in [Clients -> Seq(EventSet)] /\ subs \subseteq Clients
  BY DEF BrokerInv, BrokerTypeOK
<1>2. EnqueueTo(past, queues, ev)
  BY DEF WipeShown
<1>3. shown' \in StateSet /\ shown'.switch = FALSE /\ shown'.feed = <<>>
  <2> DEFINE no == FALSE
             nil == <<>>
             f == [shown EXCEPT !.switch = no]
  <2>1. no \in BOOLEAN /\ nil \in Seq(Orders)
    OBVIOUS
  <2>2. shown' = [f EXCEPT !.feed = nil] /\ no = FALSE /\ nil = <<>>
    BY DEF WipeShown
  <2> HIDE DEF no, nil
  <2>3. f \in StateSet /\ f.switch = no
    BY <1>1, <2>1, ShownWith
  <2> HIDE DEF f
  <2>4. /\ [f EXCEPT !.feed = nil] \in StateSet
        /\ [f EXCEPT !.feed = nil].switch = f.switch /\ [f EXCEPT !.feed = nil].feed = nil
    BY <2>1, <2>3, ShownWith
  <2>. QED BY <2>2, <2>3, <2>4
<1>4. /\ ev \in Seq(EventSet)
      /\ TellsSwitch(ev, FALSE) /\ \A feed : TellsNewest(ev, feed)
      /\ FALSE = shown.switch \/ \E i \in DOMAIN ev : ev[i].type \in SwitchTypes
  <2> HIDE DEF ev
  <2>. QED BY <1>1, SwitchEventsTell DEF ev
<1>5. past \in Seq(EventSet) /\ queues \in [Clients -> Seq(EventSet)]
      /\ \A c \in Clients : queues[c] = Unshared(queue[c])
  BY <1>1, UnsharedTells
<1>6. TellsSwitch(past, shown.switch) /\ \A c \in subs : TellsSwitch(queues[c], shown.switch)
  BY <1>1, <1>5, UnsharedTells DEF BrokerInv, UpToDate
<1> HIDE DEF ev, past, queues
<1>7. ASSUME NEW q \in Seq(EventSet), TellsSwitch(q, shown.switch)
      PROVE  UpToDate(q \o ev, shown')
  <2>1. \/ \E i \in DOMAIN ev : ev[i].type \in SwitchTypes
        \/ TellsSwitch(q, shown.switch) /\ shown'.switch = shown.switch
    BY <1>3, <1>4, <1>7
  <2>2. TellsSwitch(ev, shown'.switch) /\ TellsNewest(ev, shown'.feed)
    BY <1>3, <1>4
  <2>. QED BY <1>3, <1>4, <1>7, <2>1, <2>2, LongerTells
<1>8. UpToDate(past \o ev, shown') /\ \A c \in subs : UpToDate(queues[c] \o ev, shown')
  BY <1>1, <1>5, <1>6, <1>7
<1>9. /\ UNCHANGED pageVars /\ engaged' \in BOOLEAN /\ pushed' \in Seq(Orders)
      /\ saving' \subseteq ToSet(pushed') /\ rows' \subseteq ToSet(pushed')
      /\ wiping' \in BOOLEAN /\ changes' \in Nat /\ breaks' \in Nat
  BY <1>1 DEF WipeShown, BrokerTypeOK, boundVars
<1>. QED BY <1>1, <1>2, <1>3, <1>4, <1>5, <1>8, <1>9, SendingStep

(* What a restart shows is made of the orders pushed before.                *)
LEMMA SeedSteps ==
    ASSUME BrokerTypeOK
    PROVE  \E r : /\ r[0] = <<>>
                  /\ \A i \in 1 .. Len(pushed) : r[i] = AddRow(r[i - 1], pushed[i])
                  /\ Seed = r[Len(pushed)]
<1> DEFINE n == Len(pushed)
           A == Seq(Orders)
           Body(h) == [s \in SUBSET (1 .. n) |-> IF s = {} THEN <<>>
                         ELSE AddRow(h[s \ {Max(s)}], pushed[Max(s)])]
           iter == CHOOSE h : h = Body(h)
           g == [p \in A \X (1 .. n) |-> AddRow(p[1], pushed[p[2]])]
<1>1. n \in Nat /\ DOMAIN pushed = 1 .. n /\ <<>> \in A /\ \A i \in 1 .. n : pushed[i] \in Orders
  BY DEF BrokerTypeOK
<1>2. Seed = iter[1 .. n]
  BY <1>1 DEF Seed, FoldLeft, MapThenFoldSet
<1> HIDE DEF n
<1>3. g \in StepsOf(A, n)
        /\ \A a \in A, i \in 1 .. n : g[<<a, i>>] = AddRow(a, pushed[i])
  BY <1>1 DEF StepsOf, AddRow
<1>4. PICK h \in [SUBSET (1 .. n) -> A] : FoldOf(h, n, <<>>, g)
  <2> HIDE DEF A, g
  <2>. QED BY <1>1, <1>3, FoldExists
<1>5. h = Body(h)
  <2>1. ASSUME NEW s \in SUBSET (1 .. n)
        PROVE h[s] = IF s = {} THEN <<>> ELSE AddRow(h[s \ {Max(s)}], pushed[Max(s)])
    <3>1. CASE s # {}
      <4>1. Max(s) \in 1 .. n /\ h[s \ {Max(s)}] \in A
        <5> HIDE DEF A
        <5>. QED BY <1>1, <3>1, LastPlace
      <4>2. h[s] = g[<<h[s \ {Max(s)}], Max(s)>>]
        BY <1>4, <3>1 DEF FoldOf
      <4> HIDE DEF A, g
      <4>. QED BY <1>3, <3>1, <4>1, <4>2
    <3>. QED BY <1>4, <3>1 DEF FoldOf
  <2>. QED BY <2>1
<1>6. iter = Body(iter)
  <2> HIDE DEF Body
  <2>. QED BY <1>5
<1>7. \A s \in SUBSET (1 .. n) :
        iter[s] = IF s = {} THEN <<>> ELSE AddRow(iter[s \ {Max(s)}], pushed[Max(s)])
  <2>1. ASSUME NEW f, f = Body(f), NEW s \in SUBSET (1 .. n)
        PROVE f[s] = IF s = {} THEN <<>> ELSE AddRow(f[s \ {Max(s)}], pushed[Max(s)])
    BY <2>1
  <2> HIDE DEF Body, iter
  <2>. QED BY <1>6, <2>1
<1> DEFINE r == [i \in 0 .. n |-> iter[1 .. i]]
<1> HIDE DEF iter
<1>8. r[0] = <<>> /\ r[n] = iter[1 .. n]
  <2>1. 1 .. 0 = {} /\ 0 \in 0 .. n /\ n \in 0 .. n
    BY <1>1
  <2>. QED BY <1>7, <2>1
<1>9. ASSUME NEW i \in 1 .. n PROVE r[i] = AddRow(r[i - 1], pushed[i])
  <2>1. /\ i \in 0 .. n /\ i - 1 \in 0 .. n /\ 1 .. i \in SUBSET (1 .. n)
        /\ 1 .. i # {} /\ (1 .. i) \ {i} = 1 .. i - 1 /\ i \in 1 .. i
    BY <1>1, IntervalBut
  <2>2. Max(1 .. i) = i
    BY <1>1, <2>1, LastOfInterval
  <2>. QED BY <1>7, <2>1, <2>2
<1> HIDE DEF r
<1>. QED BY <1>2, <1>8, <1>9 DEF n

(* The feed a restart begins with is made of orders.                        *)
LEMMA SeedIsTyped == ASSUME BrokerTypeOK PROVE Seed \in Seq(Orders)
<1> DEFINE n == Len(pushed)
<1>1. PICK r : /\ r[0] = <<>>
               /\ \A i \in 1 .. n : r[i] = AddRow(r[i - 1], pushed[i])
               /\ Seed = r[n]
  BY SeedSteps
<1>2. n \in Nat /\ \A i \in 1 .. n : pushed[i] \in Orders
  BY DEF BrokerTypeOK
<1> HIDE DEF n
<1> DEFINE Fails == {i \in 0 .. n : r[i] \notin Seq(Orders)}
<1>3. 0 \notin Fails
  <2>1. <<>> \in Seq(Orders)
    OBVIOUS
  <2>. QED BY <1>1, <2>1
<1>4. ASSUME NEW i \in 1 .. n, i \in Fails PROVE i - 1 \in Fails
  <2>1. i - 1 \in 0 .. n /\ r[i] = AddRow(r[i - 1], pushed[i]) /\ pushed[i] \in Orders
    BY <1>1, <1>2
  <2>2. r[i - 1] \in Seq(Orders) => r[i] \in Seq(Orders)
    BY <2>1 DEF AddRow
  <2>. QED BY <1>4, <2>1, <2>2
<1>5. Fails = {}
  <2>0. Fails \in SUBSET (0 .. n)
    OBVIOUS
  <2> HIDE DEF Fails
  <2>. QED BY <1>2, <1>3, <1>4, <2>0, NoFirstFailure
<1>6. n \in 0 .. n
  BY <1>2
<1>. QED BY <1>1, <1>5, <1>6

(* No events say nothing wrong.                                             *)
LEMMA NothingTold == ASSUME NEW s PROVE UpToDate(<<>>, s)
BY DEF UpToDate, TellsSwitch, TellsNewest

(* After a restart no events are kept, and nobody is subscribed.            *)
LEMMA RestartStep == ASSUME BrokerInv, Restart PROVE BrokerInv'
<1>1. BrokerTypeOK /\ Seed \in Seq(Orders)
  BY SeedIsTyped DEF BrokerInv
<1>2. shown' \in StateSet
  BY <1>1 DEF Restart, Shown, StateSet
<1>3. BrokerTypeOK'
  <2>1. /\ recent' \in Seq(EventSet) /\ Len(recent') <= RecentMax
        /\ queue' \in [Clients -> Seq(EventSet)] /\ fetch' \in [Clients -> StateSet \cup {None}]
    BY BoundsAssumption DEF Restart
  <2>2. /\ engaged' \in BOOLEAN /\ wiping' \in BOOLEAN
        /\ subs' \subseteq open' /\ open' \subseteq Clients
    BY DEF Restart
  <2>3. /\ view' \in [Clients -> StateSet \cup {None}] /\ pushed' \in Seq(Orders)
        /\ saving' \subseteq ToSet(pushed') /\ rows' \subseteq ToSet(pushed')
        /\ changes' \in Nat /\ breaks' \in Nat
    BY <1>1 DEF Restart, Break, BrokerTypeOK
  <2>. QED BY <1>2, <2>1, <2>2, <2>3 DEF BrokerTypeOK
<1>. QED BY <1>3, NothingTold DEF Restart, BrokerInv

(* The pages.                                                               *)
LEMMA ConnectStep == ASSUME BrokerInv, NEW c \in Clients, Connect(c) PROVE BrokerInv'
<1>1. BrokerTypeOK /\ shown \in StateSet /\ recent \in Seq(EventSet) /\ Len(recent) <= RecentMax
      /\ queue \in [Clients -> Seq(EventSet)] /\ subs \subseteq Clients
  BY DEF BrokerInv, BrokerTypeOK
<1>2. Take(recent, QueueMax) = recent
  <2>1. Len(recent) \in Nat /\ RecentMax \in Nat /\ QueueMax \in Nat /\ RecentMax <= QueueMax
    BY <1>1, BoundsAssumption
  <2>2. Len(recent) <= QueueMax
    BY <1>1, <2>1
  <2>. QED BY <1>1, <2>1, <2>2, TakeIsTyped
<1>3. queue' = [queue EXCEPT ![c] = recent] /\ subs' = subs \cup {c}
      /\ shown' = shown /\ recent' = recent
  BY <1>2 DEF Connect
<1>4. queue' \in [Clients -> Seq(EventSet)]
  BY <1>1, <1>3
<1>5. BrokerTypeOK'
  BY <1>1, <1>4 DEF Connect, BrokerTypeOK, tableVars, boundVars
<1>6. ASSUME NEW d \in subs' PROVE UpToDate(queue'[d], shown')
  <2>1. CASE d = c
    BY <1>1, <1>3, <2>1 DEF BrokerInv
  <2>2. CASE d # c
    BY <1>1, <1>3, <1>6, <2>2 DEF BrokerInv
  <2>. QED BY <2>1, <2>2
<1>. QED BY <1>3, <1>5, <1>6 DEF BrokerInv

(* What is left to read says the same last; the page has read an event.     *)
LEMMA ReadStep == ASSUME BrokerInv, NEW c \in Clients, Read(c) PROVE BrokerInv'
<1> DEFINE q == queue[c]
           p == Tail(q)
           n == Len(q)
<1>1. BrokerTypeOK /\ shown \in StateSet /\ view \in [Clients -> StateSet \cup {None}]
      /\ queue \in [Clients -> Seq(EventSet)] /\ subs \subseteq Clients
  BY DEF BrokerInv, BrokerTypeOK
<1>2. q \in Seq(EventSet) /\ q # <<>>
  BY <1>1 DEF Read
<1>3. queue' = [queue EXCEPT ![c] = p] /\ view' = [view EXCEPT ![c] = Reduce(view[c], Head(q))]
      /\ subs' = subs /\ shown' = shown /\ recent' = recent
  BY DEF Read
<1>4. view[c] \in StateSet \cup {None}
  BY <1>1
<1> HIDE DEF q
<1>5. /\ Head(q) \in EventSet /\ p \in Seq(EventSet) /\ n \in Nat /\ 1 \in 0 .. n
      /\ DOMAIN q = 1 .. n /\ DOMAIN p = 1 .. n - 1 /\ \A i \in 1 .. n - 1 : p[i] = q[i + 1]
  BY <1>2
<1> HIDE DEF p, n
<1>6. Reduce(view[c], Head(q)) \in StateSet \cup {None}
  BY <1>4, <1>5, ReduceIsTyped
<1>7. queue' \in [Clients -> Seq(EventSet)] /\ view' \in [Clients -> StateSet \cup {None}]
  BY <1>1, <1>3, <1>5, <1>6
<1>8. BrokerTypeOK'
  BY <1>1, <1>3, <1>7 DEF Read, BrokerTypeOK, tableVars, boundVars
<1>9. ASSUME NEW d \in subs' PROVE UpToDate(queue'[d], shown')
  <2>1. d \in Clients /\ UpToDate(queue[d], shown)
    BY <1>1, <1>3, <1>9 DEF BrokerInv
  <2>2. CASE d = c
    <3>1. UpToDate(q, shown)
      BY <2>1, <2>2 DEF q
    <3>2. UpToDate(p, shown)
      BY <1>5, <3>1, SuffixTells
    <3>. QED BY <1>1, <1>3, <2>2, <3>2
  <2>3. CASE d # c
    BY <1>1, <1>3, <2>1, <2>3
  <2>. QED BY <2>2, <2>3
<1>. QED BY <1>3, <1>8, <1>9 DEF BrokerInv

(* Who leaves is no subscriber any more.                                    *)
LEMMA DisconnectStep == ASSUME BrokerInv, NEW c \in Clients, Disconnect(c) PROVE BrokerInv'
<1>1. BrokerTypeOK /\ queue \in [Clients -> Seq(EventSet)] /\ subs \subseteq Clients
  BY DEF BrokerInv, BrokerTypeOK
<1>2. queue' \in [Clients -> Seq(EventSet)] /\ \A d \in subs' : d \in subs /\ queue'[d] = queue[d]
  BY <1>1 DEF Disconnect
<1>3. BrokerTypeOK'
  BY <1>1, <1>2 DEF Disconnect, Break, BrokerTypeOK, tableVars
<1>. QED BY <1>2, <1>3 DEF Disconnect, BrokerInv

(* The steps that concern neither what is shown nor the events.             *)
LEMMA SilentSteps ==
    ASSUME BrokerInv,
           \/ PolicySwitch \/ WipeTables \/ \E o \in Orders : SaveEnds(o)
           \/ \E c \in Clients : Bootstrap(c) \/ FetchEnds(c)
    PROVE  BrokerInv'
<1>1. BrokerTypeOK
  BY DEF BrokerInv
<1>2. CASE PolicySwitch
  <2>1. BrokerTypeOK'
    BY <1>1, <1>2 DEF PolicySwitch, Change, BrokerTypeOK, stateVars, pageVars, tableVars
  <2>. QED BY <1>2, <2>1, SilentStep DEF PolicySwitch, stateVars
<1>3. CASE WipeTables
  <2>1. BrokerTypeOK'
    BY <1>1, <1>3 DEF WipeTables, Change, BrokerTypeOK, stateVars, pageVars
  <2>. QED BY <1>3, <2>1, SilentStep DEF WipeTables, stateVars
<1>4. ASSUME NEW o \in Orders, SaveEnds(o) PROVE BrokerInv'
  <2>1. BrokerTypeOK'
    BY <1>1, <1>4 DEF SaveEnds, BrokerTypeOK, stateVars, pageVars, boundVars
  <2>. QED BY <1>4, <2>1, SilentStep DEF SaveEnds, stateVars
<1>5. ASSUME NEW c \in Clients, Bootstrap(c) PROVE BrokerInv'
  <2>1. BrokerTypeOK'
    BY <1>1, <1>5 DEF Bootstrap, BrokerTypeOK, stateVars, tableVars, boundVars
  <2>. QED BY <1>5, <2>1, SilentStep DEF Bootstrap, stateVars
<1>6. ASSUME NEW c \in Clients, FetchEnds(c) PROVE BrokerInv'
  <2>1. BrokerTypeOK'
    BY <1>1, <1>6 DEF FetchEnds, BrokerTypeOK, stateVars, tableVars, boundVars
  <2>. QED BY <1>6, <2>1, SilentStep DEF FetchEnds, stateVars
<1>. QED BY <1>2, <1>3, <1>4, <1>5, <1>6

(* At the start nothing is shown and nothing was sent.                      *)
LEMMA BrokerInitInv == ASSUME BrokerInit PROVE BrokerInv
<1>1. shown \in StateSet /\ Len(<<>>) <= RecentMax
  BY BoundsAssumption DEF BrokerInit, Shown, StateSet
<1>2. BrokerTypeOK
  <2>1. /\ recent \in Seq(EventSet) /\ Len(recent) <= RecentMax
        /\ queue \in [Clients -> Seq(EventSet)] /\ fetch \in [Clients -> StateSet \cup {None}]
        /\ view \in [Clients -> StateSet \cup {None}]
    BY BoundsAssumption DEF BrokerInit
  <2>2. /\ engaged \in BOOLEAN /\ wiping \in BOOLEAN
        /\ subs \subseteq open /\ open \subseteq Clients
    BY DEF BrokerInit
  <2>3. /\ pushed \in Seq(Orders) /\ changes \in Nat /\ breaks \in Nat
        /\ saving = {} /\ rows = {}
    BY DEF BrokerInit
  <2>. QED BY <1>1, <2>1, <2>2, <2>3 DEF BrokerTypeOK
<1>. QED BY <1>2, NothingTold DEF BrokerInit, BrokerInv

(* Every step of the broker, the tables and the pages keeps the invariant.  *)
LEMMA BrokerNextInv == ASSUME BrokerInv, [BrokerNext]_brokerVars PROVE BrokerInv'
<1>0. BrokerTypeOK
  BY DEF BrokerInv
<1>1. CASE Refresh
  BY <1>1, RefreshStep
<1>2. CASE RefreshRaises
  <2>1. engaged \in BOOLEAN /\ changes' \in Nat /\ breaks' \in Nat
    BY <1>0, <1>2 DEF RefreshRaises, BrokerTypeOK, boundVars
  <2>. QED BY <1>2, <2>1, UpdateSwitchStep DEF RefreshRaises
<1>3. CASE Beat
  BY <1>3, BeatStep
<1>4. ASSUME NEW o \in Orders, PushOrder(o) PROVE BrokerInv'
  BY <1>4, PushOrderStep
<1>5. ASSUME NEW e \in BOOLEAN, DashboardSwitch(e) PROVE BrokerInv'
  <2>1. changes' \in Nat /\ breaks' \in Nat
    BY <1>0, <1>5 DEF DashboardSwitch, Change, BrokerTypeOK
  <2>. QED BY <1>5, <2>1, UpdateSwitchStep DEF DashboardSwitch
<1>6. CASE WipeShown
  BY <1>6, WipeShownStep
<1>7. CASE Restart
  BY <1>7, RestartStep
<1>8. ASSUME NEW c \in Clients, Connect(c) \/ Read(c) \/ Disconnect(c) PROVE BrokerInv'
  BY <1>8, ConnectStep, ReadStep, DisconnectStep
<1>9. CASE \/ PolicySwitch \/ WipeTables \/ \E o \in Orders : SaveEnds(o)
           \/ \E c \in Clients : Bootstrap(c) \/ FetchEnds(c)
  BY <1>9, SilentSteps
<1>10. CASE UNCHANGED brokerVars
  <2>1. UNCHANGED <<shown, recent, subs, queue>>
    BY <1>10 DEF brokerVars, stateVars
  <2>2. BrokerTypeOK'
    BY <1>0, <1>10 DEF BrokerTypeOK, brokerVars, stateVars, pageVars, tableVars, boundVars
  <2>. QED BY <2>1, <2>2, SilentStep
<1>. QED BY <1>1, <1>2, <1>3, <1>4, <1>5, <1>6, <1>7, <1>8, <1>9, <1>10 DEF BrokerNext

(* The events kept for a new stream, and those a subscriber has still to    *)
(* read, say last of the switch and of the newest order what the broker     *)
(* shows (_enqueue(), subscribe(), push_order(), update_kill_switch()).     *)
THEOREM BrokerInvariance == BrokerSpec => []BrokerInv
<1>1. BrokerInit => BrokerInv
  BY BrokerInitInv
<1>2. BrokerInv /\ [BrokerNext]_brokerVars => BrokerInv'
  BY BrokerNextInv
<1>. QED BY <1>1, <1>2, PTL DEF BrokerSpec

(* The broker, the pages and the tables always hold values of their types,  *)
(* and no more recent events are kept than 50.                              *)
THEOREM BrokerTypeCorrect == BrokerSpec => []BrokerTypeOK
<1>1. BrokerInv => BrokerTypeOK
  BY DEF BrokerInv
<1>. QED BY <1>1, BrokerInvariance, PTL

(* A subscriber with a full refresh still to read is brought by what it has *)
(* still to read to the switch and to the newest order the broker shows     *)
(* (subscribe(), emit_snapshot(), reduce()).                                *)
THEOREM RefreshesCatchUp == BrokerSpec => []RefreshCatchesUp
<1>1. BrokerInv => RefreshCatchesUp
  <2> SUFFICES ASSUME BrokerInv, NEW c \in subs, NEW l \in DOMAIN queue[c],
                      queue[c][l].type = "snapshot"
               PROVE  /\ FoldLeft(Reduce, view[c], queue[c]).switch = shown.switch
                      /\ SameNewest(FoldLeft(Reduce, view[c], queue[c]))
    BY DEF RefreshCatchesUp
  <2>1. /\ shown \in StateSet /\ c \in Clients
        /\ view[c] \in StateSet \cup {None} /\ queue[c] \in Seq(EventSet)
        /\ UpToDate(queue[c], shown)
    BY DEF BrokerInv, BrokerTypeOK
  <2>. QED BY <2>1, ReducedToLast DEF SameNewest
<1>. QED BY <1>1, BrokerInvariance, PTL

=============================================================================
