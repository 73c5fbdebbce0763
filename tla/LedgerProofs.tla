---------------------------- MODULE LedgerProofs ----------------------------
(***************************************************************************)
(* Proofs about Ledger and Pnl, for any tokens, prices, quantities and     *)
(* fees, any number of fills and any order of them.                        *)
(***************************************************************************)
EXTENDS Pnl, FiniteSetTheorems, WellFoundedInduction, TLAPS

-----------------------------------------------------------------------------
(* Sums over finite sets.                                                   *)

(* Induction on a finite set: of the subsets of S with a property, one has  *)
(* it although none with an element less does.                              *)
LEMMA SmallestSet ==
    ASSUME NEW S, IsFiniteSet(S), NEW B \in SUBSET SUBSET S, B # {}
    PROVE  \E m \in B : \A x \in m : m \ {x} \notin B
<1> DEFINE R == StrictSubsetOrdering(S)
<1>1. B \subseteq FiniteSubsetsOf(S)
  BY FS_Subset DEF FiniteSubsetsOf
<1>2. IsWellFoundedOn(R, FiniteSubsetsOf(S))
  BY FS_StrictSubsetOrderingWellFounded
<1>3. PICK m \in B : \A n \in B : ~ (<<n, m>> \in R)
  <2> HIDE DEF R
  <2>. QED BY <1>1, <1>2, WFMin
<1>4. \A x \in m : m \ {x} \notin B
  BY <1>3 DEF StrictSubsetOrdering
<1>. QED BY <1>4

One(s) == CHOOSE x \in s : TRUE

(* g[s] is the sum of f over s, for the subsets s in F.                     *)
Sums(f, F, g) ==
    g = [s \in F |-> IF s = {} THEN 0 ELSE f[One(s)] + g[s \ {One(s)}]]

(* Two solutions agree where both are defined.                              *)
LEMMA SumsAgree ==
    ASSUME NEW S, IsFiniteSet(S), NEW T \in SUBSET S, NEW f, NEW g, NEW h,
           Sums(f, SUBSET S, g), Sums(f, SUBSET T, h)
    PROVE  \A s \in SUBSET T : g[s] = h[s]
<1> DEFINE B == {s \in SUBSET T : g[s] # h[s]}
<1> SUFFICES ASSUME B # {} PROVE FALSE
  OBVIOUS
<1>1. B \in SUBSET SUBSET S
  OBVIOUS
<1>2. PICK m \in B : \A x \in m : m \ {x} \notin B
  <2> HIDE DEF B
  <2>. QED BY <1>1, SmallestSet
<1>3. /\ g[m] = IF m = {} THEN 0 ELSE f[One(m)] + g[m \ {One(m)}]
      /\ h[m] = IF m = {} THEN 0 ELSE f[One(m)] + h[m \ {One(m)}]
  BY <1>2 DEF Sums
<1>4. m # {} => One(m) \in m
  BY DEF One
<1>5. m # {} => g[m \ {One(m)}] = h[m \ {One(m)}]
  BY <1>2, <1>4
<1>. QED BY <1>2, <1>3, <1>5

(* The recursion of the sum has a solution: one for the subsets with n      *)
(* elements at most, for one n after the other.                             *)
LEMMA SumsExist ==
    ASSUME NEW S, IsFiniteSet(S), NEW f
    PROVE  \E g : Sums(f, SUBSET S, g)
<1> DEFINE F(n) == {s \in SUBSET S : Cardinality(s) <= n}
           B == {T \in SUBSET S : ~ \E g : Sums(f, F(Cardinality(T)), g)}
<1>1. ASSUME NEW s \in SUBSET S
      PROVE  /\ Cardinality(s) \in Nat /\ IsFiniteSet(s)
             /\ s = {} <=> Cardinality(s) = 0
             /\ \A x \in s : Cardinality(s \ {x}) = Cardinality(s) - 1
             /\ Cardinality(s) <= Cardinality(S)
  <2>1. IsFiniteSet(s)
    BY FS_Subset
  <2>. QED BY <2>1, FS_CardinalityType, FS_EmptySet, FS_RemoveElement, FS_Subset
<1>2. B = {}
  <2> SUFFICES ASSUME B # {} PROVE FALSE
    OBVIOUS
  <2>1. PICK m \in B : \A x \in m : m \ {x} \notin B
    <3>1. B \in SUBSET SUBSET S
      OBVIOUS
    <3> HIDE DEF B
    <3>. QED BY <3>1, SmallestSet
  <2> DEFINE n == Cardinality(m)
  <2>2. n \in Nat
    BY <1>1
  <2>3. CASE m = {}
    <3>1. F(n) = {{}}
      BY <1>1, <2>3
    <3> DEFINE g == [s \in {{}} |-> 0]
    <3>2. Sums(f, {{}}, g)
      BY DEF Sums
    <3>. QED BY <2>1, <3>1, <3>2
  <2>4. CASE m # {}
    <3>1. PICK x \in m : TRUE
      BY <2>4
    <3>2. Cardinality(m \ {x}) = n - 1 /\ m \ {x} \in SUBSET S
      BY <1>1, <3>1
    <3>3. PICK g : Sums(f, F(n - 1), g)
      BY <2>1, <3>1, <3>2
    <3> DEFINE h == [s \in F(n) |-> IF s = {} THEN 0 ELSE f[One(s)] + g[s \ {One(s)}]]
    <3>4. ASSUME NEW s \in F(n), s # {}
          PROVE  s \ {One(s)} \in F(n - 1) /\ s \ {One(s)} \in F(n)
      <4>1. One(s) \in s
        BY <3>4 DEF One
      <4>2. s \in SUBSET S /\ Cardinality(s) <= n /\ Cardinality(s) \in Nat
        BY <1>1
      <4>3. Cardinality(s \ {One(s)}) = Cardinality(s) - 1 /\ s \ {One(s)} \in SUBSET S
        BY <1>1, <4>1, <4>2
      <4>. QED BY <2>2, <4>2, <4>3
    <3>5. ASSUME NEW s \in F(n - 1)
          PROVE  s \in F(n) /\ h[s] = g[s]
      <4>1. s \in F(n)
        BY <1>1, <2>2
      <4>2. g[s] = IF s = {} THEN 0 ELSE f[One(s)] + g[s \ {One(s)}]
        <5> HIDE DEF F
        <5>. QED BY <3>3 DEF Sums
      <4>. QED BY <4>1, <4>2
    <3>6. Sums(f, F(n), h)
      <4>1. \A s \in F(n) : s # {} => h[s \ {One(s)}] = g[s \ {One(s)}]
        <5> HIDE DEF F, h
        <5>. QED BY <3>4, <3>5
      <4>2. h = [s \in F(n) |-> IF s = {} THEN 0 ELSE f[One(s)] + h[s \ {One(s)}]]
        <5> DEFINE k == [s \in F(n) |-> IF s = {} THEN 0 ELSE f[One(s)] + h[s \ {One(s)}]]
        <5>1. \A s \in F(n) : h[s] = k[s]
          <6> HIDE DEF F
          <6>. QED BY <4>1
        <5>. QED BY <5>1
      <4> HIDE DEF h, F
      <4>. QED BY <4>2 DEF Sums
    <3>. QED BY <2>1, <3>6
  <2>. QED BY <2>3, <2>4
<1>3. \E g : Sums(f, F(Cardinality(S)), g)
  BY <1>2
<1>4. F(Cardinality(S)) = SUBSET S
  BY <1>1
<1>. QED BY <1>3, <1>4

(* The fold of the library is that solution.                                *)
LEMMA SumIs ==
    ASSUME NEW S, IsFiniteSet(S), NEW f, NEW g, Sums(f, SUBSET S, g), NEW s \in SUBSET S
    PROVE  SumFunctionOnSet(f, s) = g[s]
<1>1. IsFiniteSet(s)
  BY FS_Subset
<1>2. PICK h : Sums(f, SUBSET s, h)
  BY <1>1, SumsExist
<1> DEFINE k == CHOOSE k : Sums(f, SUBSET s, k)
<1>3. Sums(f, SUBSET s, k)
  <2> HIDE DEF Sums
  <2>. QED BY <1>2
<1>4. SumFunctionOnSet(f, s) = k[s]
  BY DEF SumFunctionOnSet, FoldFunctionOnSet, MapThenFoldSet, Sums, One
<1> HIDE DEF k
<1>5. s \in SUBSET s
  OBVIOUS
<1>. QED BY <1>3, <1>4, <1>5, SumsAgree

(* The sum over no element, and over the element that is chosen first.      *)
LEMMA SumFirst ==
    ASSUME NEW S, IsFiniteSet(S), NEW f
    PROVE  /\ S = {} => SumFunctionOnSet(f, S) = 0
           /\ S # {} => /\ One(S) \in S
                        /\ SumFunctionOnSet(f, S)
                             = f[One(S)] + SumFunctionOnSet(f, S \ {One(S)})
<1>1. PICK g : Sums(f, SUBSET S, g)
  BY SumsExist
<1>2. S \in SUBSET S /\ S \ {One(S)} \in SUBSET S
  OBVIOUS
<1>3. SumFunctionOnSet(f, S) = g[S]
      /\ SumFunctionOnSet(f, S \ {One(S)}) = g[S \ {One(S)}]
  BY <1>1, <1>2, SumIs
<1>4. g[S] = IF S = {} THEN 0 ELSE f[One(S)] + g[S \ {One(S)}]
  BY <1>1, <1>2 DEF Sums
<1>5. S # {} => One(S) \in S
  BY DEF One
<1>. QED BY <1>3, <1>4, <1>5

(* A sum of integers is one.                                                *)
LEMMA SumIsInt ==
    ASSUME NEW S, IsFiniteSet(S), NEW f, \A x \in S : f[x] \in Int
    PROVE  SumFunctionOnSet(f, S) \in Int
<1> DEFINE B == {s \in SUBSET S : SumFunctionOnSet(f, s) \notin Int}
<1>1. B = {}
  <2> SUFFICES ASSUME B # {} PROVE FALSE
    OBVIOUS
  <2>1. PICK m \in B : \A x \in m : m \ {x} \notin B
    <3>1. B \in SUBSET SUBSET S
      OBVIOUS
    <3> HIDE DEF B
    <3>. QED BY <3>1, SmallestSet
  <2>2. IsFiniteSet(m)
    BY FS_Subset
  <2>3. m # {}
    BY <2>1, <2>2, SumFirst
  <2>4. One(m) \in m
        /\ SumFunctionOnSet(f, m) = f[One(m)] + SumFunctionOnSet(f, m \ {One(m)})
    BY <2>2, <2>3, SumFirst
  <2>5. SumFunctionOnSet(f, m \ {One(m)}) \in Int /\ f[One(m)] \in Int
    BY <2>1, <2>4
  <2>. QED BY <2>1, <2>4, <2>5
<1>. QED BY <1>1

(* Any element may be taken out first.                                      *)
LEMMA SumWithout ==
    ASSUME NEW S, IsFiniteSet(S), NEW f, \A x \in S : f[x] \in Int, NEW x \in S
    PROVE  SumFunctionOnSet(f, S) = f[x] + SumFunctionOnSet(f, S \ {x})
<1> DEFINE Sum(s) == SumFunctionOnSet(f, s)
           B == {s \in SUBSET S : \E y \in s : Sum(s) # f[y] + Sum(s \ {y})}
<1>1. B = {}
  <2> SUFFICES ASSUME B # {} PROVE FALSE
    OBVIOUS
  <2>1. PICK m \in B : \A y \in m : m \ {y} \notin B
    <3>1. B \in SUBSET SUBSET S
      OBVIOUS
    <3> HIDE DEF B
    <3>. QED BY <3>1, SmallestSet
  <2>2. PICK y \in m : Sum(m) # f[y] + Sum(m \ {y})
    BY <2>1
  <2>3. \A s \in SUBSET S : IsFiniteSet(s) /\ Sum(s) \in Int
    BY FS_Subset, SumIsInt
  <2>4. One(m) \in m /\ Sum(m) = f[One(m)] + Sum(m \ {One(m)})
    BY <2>2, <2>3, SumFirst
  <2> DEFINE z == One(m)
  <2>5. y # z
    BY <2>2, <2>4
  <2> HIDE DEF z, Sum
  <2>6. z \in m /\ Sum(m) = f[z] + Sum(m \ {z}) /\ y \in m \ {z} /\ z \in m \ {y}
    BY <2>2, <2>4, <2>5 DEF z
  <2>7. Sum(m \ {z}) = f[y] + Sum((m \ {z}) \ {y})
    BY <2>1, <2>6
  <2>8. Sum(m \ {y}) = f[z] + Sum((m \ {y}) \ {z})
    BY <2>1, <2>6
  <2>9. (m \ {z}) \ {y} = (m \ {y}) \ {z} /\ (m \ {y}) \ {z} \in SUBSET S
    OBVIOUS
  <2>10. f[y] \in Int /\ f[z] \in Int /\ Sum((m \ {y}) \ {z}) \in Int
    BY <2>3, <2>6, <2>9
  <2>11. PICK r \in Int : r = Sum((m \ {y}) \ {z})
    BY <2>10
  <2>12. Sum(m \ {z}) = f[y] + r /\ Sum(m \ {y}) = f[z] + r
    BY <2>7, <2>8, <2>9, <2>11
  <2>13. f[z] + (f[y] + r) = f[y] + (f[z] + r)
    BY <2>10, <2>11
  <2>14. Sum(m) = f[y] + Sum(m \ {y})
    BY <2>6, <2>12, <2>13, Zenon
  <2>. QED BY <2>2, <2>14
<1>2. S \in SUBSET S /\ S \notin B
  BY <1>1
<1>. QED BY <1>2

(* What f is outside the set does not matter.                               *)
LEMMA SumAgrees ==
    ASSUME NEW S, IsFiniteSet(S), NEW f, NEW g, \A x \in S : f[x] = g[x]
    PROVE  SumFunctionOnSet(f, S) = SumFunctionOnSet(g, S)
<1> DEFINE B == {s \in SUBSET S : SumFunctionOnSet(f, s) # SumFunctionOnSet(g, s)}
<1>1. B = {}
  <2> SUFFICES ASSUME B # {} PROVE FALSE
    OBVIOUS
  <2>1. PICK m \in B : \A x \in m : m \ {x} \notin B
    <3>1. B \in SUBSET SUBSET S
      OBVIOUS
    <3> HIDE DEF B
    <3>. QED BY <3>1, SmallestSet
  <2>2. IsFiniteSet(m)
    BY FS_Subset
  <2>3. m # {}
    BY <2>1, <2>2, SumFirst
  <2>4. /\ One(m) \in m
        /\ SumFunctionOnSet(f, m) = f[One(m)] + SumFunctionOnSet(f, m \ {One(m)})
        /\ SumFunctionOnSet(g, m) = g[One(m)] + SumFunctionOnSet(g, m \ {One(m)})
    BY <2>2, <2>3, SumFirst
  <2>5. SumFunctionOnSet(f, m \ {One(m)}) = SumFunctionOnSet(g, m \ {One(m)})
        /\ f[One(m)] = g[One(m)]
    BY <2>1, <2>4
  <2>. QED BY <2>1, <2>4, <2>5
<1>. QED BY <1>1

(* When f changes by d at x, so does its sum.                               *)
LEMMA SumMoves ==
    ASSUME NEW S, IsFiniteSet(S), NEW f, NEW g, \A y \in S : f[y] \in Int,
           NEW x \in S, NEW d \in Int, g[x] = f[x] + d, \A y \in S \ {x} : g[y] = f[y]
    PROVE  SumFunctionOnSet(g, S) = SumFunctionOnSet(f, S) + d
<1> DEFINE rest == S \ {x}
<1>1. IsFiniteSet(rest) /\ \A y \in rest : f[y] \in Int
  BY FS_Subset
<1>2. SumFunctionOnSet(g, rest) = SumFunctionOnSet(f, rest)
      /\ SumFunctionOnSet(f, rest) \in Int
  BY <1>1, SumAgrees, SumIsInt
<1>3. \A y \in S : g[y] \in Int
  OBVIOUS
<1>4. SumFunctionOnSet(f, S) = f[x] + SumFunctionOnSet(f, rest)
      /\ SumFunctionOnSet(g, S) = g[x] + SumFunctionOnSet(g, rest)
  BY <1>3, SumWithout
<1>. QED BY <1>2, <1>4

-----------------------------------------------------------------------------
(* Arithmetic.                                                              *)

(* Multiplying by a natural number is monotonic. *)
LEMMA TimesMonotonic ==
    ASSUME NEW a \in Int, NEW b \in Int, NEW c \in Nat, a <= b
    PROVE  c * a <= c * b
<1>1. b - a \in Nat
  OBVIOUS
<1>2. c * (b - a) \in Nat
  BY <1>1
<1>3. c * (b - a) = c * b - c * a
  OBVIOUS
<1>. QED BY <1>2, <1>3

(* The share of the pooled fees that goes with q of h shares held.          *)
LEMMA ShareBounds ==
    ASSUME NEW f \in Nat, NEW h \in Nat \ {0}, NEW q \in Nat
    PROVE  /\ (f * q) \div h \in Nat
           /\ q <= h => (f * q) \div h <= f
           /\ q = h => (f * q) \div h = f
           /\ f = 0 => (f * q) \div h = 0
<1> DEFINE n == f * q
<1> DEFINE d == n \div h
<1>1. n \in Nat
  OBVIOUS
<1>2. n = h * d + (n % h) /\ d \in Int /\ n % h \in 0..(h - 1)
  BY <1>1
<1>3. d >= 0
  BY <1>1, <1>2
<1>4. ASSUME q <= h PROVE d <= f
  <2>1. n <= h * f
    BY <1>4, TimesMonotonic
  <2>2. SUFFICES ASSUME f + 1 <= d PROVE FALSE
    BY <1>2
  <2>3. h * (f + 1) <= h * d
    BY <2>2, <1>2, TimesMonotonic
  <2>4. h * (f + 1) = h * f + h
    OBVIOUS
  <2>. HIDE DEF n, d
  <2>. QED BY <2>1, <2>3, <2>4, <1>1, <1>2
<1>5. ASSUME q = h PROVE d = f
  <2>1. d <= f
    BY <1>4, <1>5
  <2>2. SUFFICES ASSUME d + 1 <= f PROVE FALSE
    BY <1>2, <2>1
  <2>3. h * (d + 1) <= h * f /\ h * (d + 1) = h * d + h
    BY <2>2, <1>2, TimesMonotonic
  <2>4. n = h * f
    BY <1>5
  <2>. HIDE DEF n, d
  <2>. QED BY <2>3, <2>4, <1>1, <1>2
<1>6. f = 0 => d = 0
  <2> SUFFICES ASSUME f = 0 PROVE d = 0
    OBVIOUS
  <2>1. n = 0
    OBVIOUS
  <2>. QED BY <2>1
<1>. QED BY <1>2, <1>3, <1>4, <1>5, <1>6

-----------------------------------------------------------------------------
(* One token's books, given as numbers: what its entries brought (f), the   *)
(* shares held (n) at average cost a, the pooled fees (x) and the realized  *)
(* profit (r).                                                              *)
Gap(f, n, a, x, r) == f + n * a + x - r

(* A BUY moves the gap by no more than its rounding.                        *)
LEMMA BuyGap ==
    ASSUME NEW f \in Int, NEW n \in Int, NEW a \in Int, NEW x \in Int, NEW r \in Int,
           NEW s \in Int, NEW q \in Int, NEW p \in Int, NEW fee \in Int, NEW b \in Int,
           IsQuotient(b, Blended(a, n, q, p), n + q),
           2 * Abs(Gap(f, n, a, x, r)) <= s
    PROVE  2 * Abs(Gap(f + (-(q * p) - fee), n + q, b, x + fee, r)) <= s + Abs(n + q)
<1> DEFINE e == (n + q) * b - Blended(a, n, q, p)
<1> DEFINE g == Gap(f, n, a, x, r)
<1>1. Gap(f + (-(q * p) - fee), n + q, b, x + fee, r) = g + e
  BY DEF Gap, Blended
<1>2. e \in Int /\ g \in Int
  BY DEF Gap, Blended
<1>3. 2 * Abs(e) <= Abs(n + q)
  BY DEF IsQuotient
<1>4. 2 * Abs(g) <= s
  OBVIOUS
<1>5. n + q \in Int
  OBVIOUS
<1>. HIDE DEF e, g
<1>. QED BY <1>1, <1>2, <1>3, <1>4, <1>5 DEF Abs

(* The numbers that a fill of a token works with. *)
LEMMA Numbers ==
    ASSUME TypeOK, NEW t \in Tokens, NEW q \in Sizes, NEW price \in Prices, NEW fee \in Fees
    PROVE  /\ flow[t] \in Int /\ qty[t] \in Int /\ avg[t] \in Int /\ fees[t] \in Nat
           /\ realized[t] \in Int /\ slack[t] \in Int
           /\ q \in Nat \ {0} /\ price \in Nat /\ fee \in Nat
<1>1. AvgCosts \subseteq Int /\ avg[t] \in AvgCosts
  BY MoneyAssumption DEF TypeOK
<1>2. q \in Nat \ {0} /\ price \in Nat /\ fee \in Nat
  BY MoneyAssumption
<1>3. /\ flow[t] \in Int /\ qty[t] \in Int /\ fees[t] \in Nat
      /\ realized[t] \in Int /\ slack[t] \in Nat
  BY DEF TypeOK
<1>4. slack[t] \in Int
  BY <1>3
<1>. QED BY <1>1, <1>2, <1>3, <1>4

(* The share of the fees a sale takes is a natural number, is all of them   *)
(* if it sells all the shares, and more than all of them only if it sells   *)
(* more shares than are held.                                               *)
LEMMA ShareOfSale ==
    ASSUME TypeOK, NEW t \in Tokens, NEW q \in Sizes
    PROVE  /\ FeeShare(t, q) \in Nat
           /\ (0 < qty[t] /\ qty[t] < q => fees[t] = 0) => FeeShare(t, q) <= fees[t]
           /\ q = qty[t] => FeeShare(t, q) = fees[t]
<1>1. q \in Nat /\ q > 0 /\ qty[t] \in Int /\ fees[t] \in Nat
  BY MoneyAssumption DEF TypeOK
<1>2. CASE qty[t] > 0
  <2>1. qty[t] \in Nat \ {0}
    BY <1>1, <1>2
  <2>. QED BY <1>1, <1>2, <2>1, ShareBounds DEF FeeShare
<1>3. CASE ~(qty[t] > 0)
  BY <1>1, <1>3 DEF FeeShare
<1>. QED BY <1>2, <1>3

(* A blended average cost stays between any bounds on the old average cost  *)
(* (if shares were held) and on the new price.                              *)
LEMMA BlendBounds ==
    ASSUME NEW a \in Int, NEW n \in Nat, NEW q \in Nat \ {0}, NEW p \in Int, NEW b \in Int,
           NEW lo \in Int, NEW hi \in Int, lo <= p, p <= hi,
           n = 0 \/ (lo <= a /\ a <= hi),
           IsQuotient(b, Blended(a, n, q, p), n + q)
    PROVE  lo <= b /\ b <= hi
<1> DEFINE h == n + q
<1> DEFINE v == n * a + q * p
<1>1. h \in Nat /\ h > 0 /\ v \in Int
  OBVIOUS
<1>2. 2 * Abs(h * b - v) <= h
  BY <1>1 DEF IsQuotient, Blended, Abs
<1>3. n * lo <= n * a /\ n * a <= n * hi
  <2>1. CASE n = 0
    BY <2>1
  <2>2. CASE n # 0
    BY <2>2, TimesMonotonic
  <2>. QED BY <2>1, <2>2
<1>4. q * lo <= q * p /\ q * p <= q * hi
  BY TimesMonotonic
<1>5. h * lo <= v /\ v <= h * hi
  <2>1. h * lo = n * lo + q * lo /\ h * hi = n * hi + q * hi
    OBVIOUS
  <2>. QED BY <2>1, <1>3, <1>4
<1>. HIDE DEF h, v
<1>6. lo <= b
  <2> SUFFICES ASSUME b <= lo - 1 PROVE FALSE
    OBVIOUS
  <2>1. h * b <= h * (lo - 1) /\ h * (lo - 1) = h * lo - h
    BY <1>1, TimesMonotonic
  <2>2. h * b \in Int
    BY <1>1
  <2>. QED BY <2>1, <2>2, <1>1, <1>2, <1>5 DEF Abs
<1>7. b <= hi
  <2> SUFFICES ASSUME hi + 1 <= b PROVE FALSE
    OBVIOUS
  <2>1. h * (hi + 1) <= h * b /\ h * (hi + 1) = h * hi + h
    BY <1>1, TimesMonotonic
  <2>2. h * b \in Int
    BY <1>1
  <2>. QED BY <2>1, <2>2, <1>1, <1>2, <1>5 DEF Abs
<1>. QED BY <1>6, <1>7

-----------------------------------------------------------------------------
(* The variables have their types in every reachable state. *)
THEOREM TypeCorrect == Spec => []TypeOK
<1>1. Init => TypeOK
  BY MoneyAssumption DEF Init, TypeOK
<1>2. TypeOK /\ [Next]_vars => TypeOK'
  <2> SUFFICES ASSUME TypeOK, [Next]_vars PROVE TypeOK'
    OBVIOUS
  <2> USE MoneyAssumption DEF position, observed
  <2>1. ASSUME NEW t \in Tokens, NEW q \in Sizes, NEW price \in Prices, NEW fee \in Fees,
               Buy(t, q, price, fee)
        PROVE  TypeOK'
    <3>0. /\ q \in Int /\ price \in Nat /\ fee \in Nat
          /\ q * price \in Int
          /\ Abs(qty[t] + q) \in Nat
      BY DEF TypeOK, Abs
    <3>1. cash' \in Int /\ flow' \in [Tokens -> Int] /\ mark' \in [Tokens -> Nat]
          /\ fills' \in 0..MaxFills
      BY <2>1, <3>0 DEF Buy, Book, TypeOK
    <3>2. avg' \in [Tokens -> AvgCosts]
      BY <2>1 DEF Buy, TypeOK
    <3>3. /\ qty' \in [Tokens -> Int] /\ fees' \in [Tokens -> Nat]
          /\ slack' \in [Tokens -> Nat] /\ realized' \in [Tokens -> Int]
      BY <2>1, <3>0 DEF Buy, TypeOK
    <3>4. sound' \in [Tokens -> BOOLEAN] /\ paid' \in [Tokens -> SUBSET Prices]
      BY <2>1 DEF Buy, TypeOK
    <3>. QED BY <3>1, <3>2, <3>3, <3>4 DEF TypeOK
  <2>2. ASSUME NEW t \in Tokens, NEW q \in Sizes, NEW price \in Prices, NEW fee \in Fees,
               Sell(t, q, price, fee)
        PROVE  TypeOK'
    <3>0. /\ q \in Int /\ price \in Nat /\ fee \in Nat
          /\ q * price \in Int /\ (price - avg[t]) * q \in Int
      BY Numbers
    <3>5. FeeShare(t, q) \in Nat
      BY ShareOfSale
    <3>1. cash' \in Int /\ flow' \in [Tokens -> Int] /\ mark' \in [Tokens -> Nat]
          /\ fills' \in 0..MaxFills
      BY <2>2, <3>0 DEF Sell, Book, TypeOK
    <3>2. /\ realized' \in [Tokens -> Int] /\ qty' \in [Tokens -> Int]
          /\ fees' \in [Tokens -> Nat]
      BY <2>2, <3>0, <3>5 DEF Sell, Left, Maximum, TypeOK
    <3>3. UNCHANGED <<avg, slack>>
      BY <2>2 DEF Sell
    <3>4. sound' \in [Tokens -> BOOLEAN] /\ paid' \in [Tokens -> SUBSET Prices]
      BY <2>2 DEF Sell, TypeOK
    <3>. QED BY <3>1, <3>2, <3>3, <3>4 DEF TypeOK
  <2>3. CASE Mark
    BY <2>3 DEF Mark, TypeOK
  <2>4. CASE UNCHANGED vars
    BY <2>4 DEF vars, TypeOK
  <2>. QED BY <2>1, <2>2, <2>3, <2>4 DEF Next, ApplyFill
<1>. QED BY <1>1, <1>2, PTL DEF Spec

-----------------------------------------------------------------------------
(* A sound token without shares has no fees pending: the invariant behind   *)
(* RoundTripIsNet.                                                          *)
NoStrayFees == \A t \in Tokens : sound[t] /\ qty[t] = 0 => fees[t] = 0

BooksInv == BooksBalance /\ NoStrayFees

(* A fill changes the two sides of the books of one token alike, up to the  *)
(* rounding added to its slack; a mark changes neither.                     *)
LEMMA BooksStep == TypeOK /\ BooksInv /\ [Next]_vars => BooksInv'
<1> SUFFICES ASSUME TypeOK, BooksInv, [Next]_vars PROVE BooksInv'
  OBVIOUS
<1> USE MoneyAssumption DEF position, observed
<1>1. ASSUME NEW t \in Tokens, NEW q \in Sizes, NEW price \in Prices, NEW fee \in Fees,
             Buy(t, q, price, fee)
      PROVE  BooksInv'
  <2>1. ASSUME NEW u \in Tokens, u # t
        PROVE  /\ flow'[u] = flow[u] /\ qty'[u] = qty[u] /\ avg'[u] = avg[u]
               /\ fees'[u] = fees[u] /\ realized'[u] = realized[u]
               /\ slack'[u] = slack[u] /\ sound'[u] = sound[u]
    BY <1>1, <2>1 DEF Buy, Book, TypeOK
  <2>2. /\ flow'[t] = flow[t] + (-(q * price) - fee)
        /\ qty'[t] = qty[t] + q /\ fees'[t] = fees[t] + fee /\ realized'[t] = realized[t]
        /\ slack'[t] = slack[t] + Abs(qty[t] + q)
        /\ sound'[t] = (sound[t] /\ qty[t] + q # 0)
    BY <1>1 DEF Buy, Book, TypeOK
  <2>3. ASSUME sound'[t]
        PROVE  2 * Abs(flow'[t] + qty'[t] * avg'[t] + fees'[t] - realized'[t]) <= slack'[t]
    <3>1. qty[t] + q # 0 /\ sound[t]
      BY <2>2, <2>3
    <3>2. IsQuotient(avg'[t], Blended(avg[t], qty[t], q, price), qty[t] + q) /\ avg'[t] \in Int
      BY <1>1, <3>1 DEF Buy, TypeOK
    <3>3. 2 * Abs(Gap(flow[t], qty[t], avg[t], fees[t], realized[t])) <= slack[t]
      BY <3>1 DEF BooksInv, BooksBalance, Gap
    <3>4. /\ flow[t] \in Int /\ qty[t] \in Int /\ avg[t] \in Int /\ fees[t] \in Int
          /\ realized[t] \in Int /\ slack[t] \in Int
          /\ q \in Int /\ price \in Int /\ fee \in Int
      BY Numbers
    <3>6. 2 * Abs(Gap(flow[t] + (-(q * price) - fee), qty[t] + q, avg'[t], fees[t] + fee,
                      realized[t])) <= slack[t] + Abs(qty[t] + q)
      BY <3>2, <3>3, <3>4, BuyGap
    <3>5. 2 * Abs(Gap(flow'[t], qty'[t], avg'[t], fees'[t], realized'[t]))
             <= slack[t] + Abs(qty[t] + q)
      BY <2>2, <3>6
    <3>. QED BY <2>2, <3>5 DEF Gap
  <2>4. BooksBalance'
    BY <2>1, <2>3 DEF BooksInv, BooksBalance
  <2>5. NoStrayFees'
    BY <2>1, <2>2 DEF BooksInv, NoStrayFees
  <2>. QED BY <2>4, <2>5 DEF BooksInv
<1>2. ASSUME NEW t \in Tokens, NEW q \in Sizes, NEW price \in Prices, NEW fee \in Fees,
             Sell(t, q, price, fee)
      PROVE  BooksInv'
  <2> DEFINE share == FeeShare(t, q)
  <2>0. /\ flow[t] \in Int /\ qty[t] \in Int /\ avg[t] \in Int /\ fees[t] \in Nat
        /\ realized[t] \in Int /\ slack[t] \in Int
        /\ q \in Nat /\ q > 0 /\ price \in Int /\ fee \in Int
    BY Numbers
  <2>1. ASSUME NEW u \in Tokens, u # t
        PROVE  /\ flow'[u] = flow[u] /\ qty'[u] = qty[u] /\ avg'[u] = avg[u]
               /\ fees'[u] = fees[u] /\ realized'[u] = realized[u]
               /\ slack'[u] = slack[u] /\ sound'[u] = sound[u]
    BY <1>2, <2>1 DEF Sell, Book, TypeOK
  <2>2. /\ flow'[t] = flow[t] + (q * price - fee)
        /\ qty'[t] = qty[t] - q /\ avg'[t] = avg[t] /\ slack'[t] = slack[t]
        /\ fees'[t] = Left(fees[t], share)
        /\ realized'[t] = realized[t] + (price - avg[t]) * q - share - fee
        /\ sound'[t] = (sound[t] /\ (0 < qty[t] /\ qty[t] < q => fees[t] = 0))
    BY <1>2 DEF Sell, Book, TypeOK
  <2>3. /\ share \in Nat
        /\ (0 < qty[t] /\ qty[t] < q => fees[t] = 0) => share <= fees[t]
        /\ q = qty[t] => share = fees[t]
    BY ShareOfSale
  <2>. HIDE DEF share
  <2>4. ASSUME sound'[t]
        PROVE  2 * Abs(flow'[t] + qty'[t] * avg'[t] + fees'[t] - realized'[t]) <= slack'[t]
    <3>1. sound[t] /\ share <= fees[t] /\ fees'[t] = fees[t] - share
      <4>1. sound[t] /\ share <= fees[t]
        BY <2>2, <2>3, <2>4
      <4>. QED BY <4>1, <2>0, <2>2, <2>3 DEF Left, Maximum
    <3>2. 2 * Abs(Gap(flow[t], qty[t], avg[t], fees[t], realized[t])) <= slack[t]
      BY <3>1 DEF BooksInv, BooksBalance, Gap
    \* A sale does not move the gap at all, whatever share of the fees it takes.
    <3>3. Gap(flow'[t], qty'[t], avg'[t], fees'[t], realized'[t])
            = Gap(flow[t], qty[t], avg[t], fees[t], realized[t])
      <4>1. share \in Int /\ fees[t] \in Int /\ q \in Int /\ price \in Int /\ fee \in Int
        BY <2>0, <2>3
      <4>2. flow[t] \in Int /\ qty[t] \in Int /\ avg[t] \in Int /\ realized[t] \in Int
        BY <2>0
      <4>3. /\ (price - avg[t]) * q = q * price - q * avg[t]
            /\ (qty[t] - q) * avg[t] = qty[t] * avg[t] - q * avg[t]
        BY <4>1, <4>2
      <4>. QED BY <2>2, <3>1, <4>1, <4>2, <4>3 DEF Gap
    <3>. QED BY <2>2, <3>2, <3>3 DEF Gap
  <2>5. BooksBalance'
    BY <2>1, <2>4 DEF BooksInv, BooksBalance
  <2>6. ASSUME sound'[t], qty'[t] = 0 PROVE fees'[t] = 0
    <3>1. q = qty[t]
      BY <2>0, <2>2, <2>6
    <3>. QED BY <2>0, <2>2, <2>3, <3>1 DEF Left, Maximum
  <2>7. NoStrayFees'
    BY <2>1, <2>6 DEF BooksInv, NoStrayFees
  <2>. QED BY <2>5, <2>7 DEF BooksInv
<1>3. CASE Mark \/ UNCHANGED vars
  <2>1. UNCHANGED <<flow, qty, avg, fees, realized, slack, sound>>
    BY <1>3 DEF Mark, vars
  <2>. QED BY <2>1 DEF BooksInv, BooksBalance, NoStrayFees
<1>. QED BY <1>1, <1>2, <1>3 DEF Next, ApplyFill

(* So the books balance in every state.                                     *)
LEMMA BooksInvariant == Spec => []BooksInv
<1>1. Init => BooksInv
  BY DEF Init, BooksInv, BooksBalance, NoStrayFees, Abs
<1>. QED BY <1>1, BooksStep, TypeCorrect, PTL DEF Spec

(* Whatever is bought and sold, a token's cash entries, realized profit,    *)
(* pending fees and cost of the shares held agree up to rounding.           *)
THEOREM BooksAlwaysBalance == Spec => []BooksBalance
  BY BooksInvariant, PTL DEF BooksInv

(* A round trip realizes the cash it brought, net of the fees of both legs. *)
THEOREM RoundTripsAreNet == Spec => []RoundTripIsNet
<1>1. TypeOK /\ BooksInv => RoundTripIsNet
  <2> SUFFICES ASSUME TypeOK, BooksInv, NEW t \in Tokens, sound[t], qty[t] = 0
               PROVE  fees[t] = 0 /\ 2 * Abs(flow[t] - realized[t]) <= slack[t]
    BY DEF RoundTripIsNet
  <2>0. avg[t] \in Int
    BY MoneyAssumption DEF TypeOK
  <2>1. fees[t] = 0 /\ qty[t] * avg[t] = 0
    BY <2>0 DEF BooksInv, NoStrayFees
  <2>2. flow[t] + qty[t] * avg[t] + fees[t] - realized[t] = flow[t] - realized[t]
    BY <2>1 DEF TypeOK
  <2>. QED BY <2>1, <2>2 DEF BooksInv, BooksBalance
<1>. QED BY <1>1, BooksInvariant, TypeCorrect, PTL

-----------------------------------------------------------------------------
(* The average price is a rounded mean of the average before and the price  *)
(* paid now, so it stays between the lowest and the highest price paid.     *)
LEMMA PaidStep == TypeOK /\ AvgIsWithinPaid /\ [Next]_vars => AvgIsWithinPaid'
<1> SUFFICES ASSUME TypeOK, AvgIsWithinPaid, [Next]_vars PROVE AvgIsWithinPaid'
  OBVIOUS
<1> USE MoneyAssumption DEF position, observed
<1>1. ASSUME NEW t \in Tokens, NEW q \in Sizes, NEW price \in Prices, NEW fee \in Fees,
             Buy(t, q, price, fee)
      PROVE  AvgIsWithinPaid'
  <2>0. /\ q \in Nat \ {0} /\ price \in Int /\ qty[t] \in Int /\ avg[t] \in Int
        /\ \A x \in paid[t] : x \in Int
    <3>1. q \in Nat \ {0} /\ price \in Int /\ qty[t] \in Int /\ avg[t] \in Int
      BY Numbers
    <3>. QED BY <3>1 DEF TypeOK
  <2>1. ASSUME NEW u \in Tokens, u # t
        PROVE  qty'[u] = qty[u] /\ avg'[u] = avg[u] /\ paid'[u] = paid[u]
    BY <1>1, <2>1 DEF Buy, TypeOK
  <2>2. /\ qty'[t] = qty[t] + q
        /\ paid'[t] = IF qty[t] = 0 THEN {price}
                      ELSE IF paid[t] = {} THEN {} ELSE paid[t] \cup {price}
    BY <1>1 DEF Buy, TypeOK
  <2>3. ASSUME paid'[t] # {}
        PROVE  qty'[t] > 0 /\ \E low, high \in paid'[t] : low <= avg'[t] /\ avg'[t] <= high
    <3>1. qty[t] \in Nat /\ price \in paid'[t]
      BY <2>0, <2>2, <2>3 DEF AvgIsWithinPaid
    <3>2. qty'[t] > 0 /\ qty[t] + q # 0
      BY <3>1, <2>0, <2>2
    <3>3. IsQuotient(avg'[t], Blended(avg[t], qty[t], q, price), qty[t] + q) /\ avg'[t] \in Int
      BY <1>1, <3>2 DEF Buy, TypeOK
    <3>4. PICK lo, hi \in paid'[t] :
             lo <= price /\ price <= hi /\ (qty[t] = 0 \/ (lo <= avg[t] /\ avg[t] <= hi))
      <4>1. CASE qty[t] = 0
        BY <4>1, <3>1, <2>0
      <4>2. CASE qty[t] # 0
        <5>1. paid[t] # {} /\ paid'[t] = paid[t] \cup {price}
          BY <4>2, <2>2, <2>3
        <5>2. PICK low, high \in paid[t] : low <= avg[t] /\ avg[t] <= high
          BY <5>1 DEF AvgIsWithinPaid
        <5> DEFINE lo == IF low <= price THEN low ELSE price
        <5> DEFINE hi == IF price <= high THEN high ELSE price
        <5>3. lo \in paid'[t] /\ hi \in paid'[t]
          BY <5>1, <3>1
        <5>4. lo <= price /\ price <= hi /\ lo <= avg[t] /\ avg[t] <= hi
          BY <5>2, <2>0
        <5>. QED BY <5>3, <5>4
      <4>. QED BY <4>1, <4>2
    <3>5. lo \in Int /\ hi \in Int
      BY <2>0, <2>2
    <3>6. lo <= avg'[t] /\ avg'[t] <= hi
      BY <2>0, <3>1, <3>3, <3>4, <3>5, BlendBounds
    <3>. QED BY <3>2, <3>6
  <2>. QED BY <2>1, <2>3 DEF AvgIsWithinPaid
<1>2. ASSUME NEW t \in Tokens, NEW q \in Sizes, NEW price \in Prices, NEW fee \in Fees,
             Sell(t, q, price, fee)
      PROVE  AvgIsWithinPaid'
  <2>1. /\ avg' = avg
        /\ \A u \in Tokens : u # t => qty'[u] = qty[u] /\ paid'[u] = paid[u]
        /\ qty'[t] = qty[t] - q
        /\ paid'[t] = IF qty[t] - q > 0 THEN paid[t] ELSE {}
    BY <1>2 DEF Sell, TypeOK
  <2>. QED BY <2>1 DEF AvgIsWithinPaid
<1>3. CASE Mark \/ UNCHANGED vars
  <2>1. UNCHANGED <<qty, avg, paid>>
    BY <1>3 DEF Mark, vars
  <2>. QED BY <2>1 DEF AvgIsWithinPaid
<1>. QED BY <1>1, <1>2, <1>3 DEF Next, ApplyFill

(* The average cost of a long position is within the prices paid for it.    *)
THEOREM AvgCostIsWithinPaid == Spec => []AvgIsWithinPaid
<1>1. Init => AvgIsWithinPaid
  BY DEF Init, AvgIsWithinPaid
<1>. QED BY <1>1, PaidStep, TypeCorrect, PTL DEF Spec
-----------------------------------------------------------------------------
(* The figures of Pnl.                                                      *)

(* The cash is what it was at first and what every token brought since.     *)
CashIsExplained == cash = StartingCash + SumFunctionOnSet(flow, Tokens)

(* What a fill adds to the cash it adds to the flow of one token.           *)
LEMMA CashStep == TypeOK /\ CashIsExplained /\ [Next]_vars => CashIsExplained'
<1> SUFFICES ASSUME TypeOK, CashIsExplained, [Next]_vars PROVE CashIsExplained'
  OBVIOUS
<1>1. ASSUME NEW t \in Tokens, NEW q \in Sizes, NEW price \in Prices, NEW fee \in Fees,
             Buy(t, q, price, fee) \/ Sell(t, q, price, fee)
      PROVE  CashIsExplained'
  <2>1. q \in Nat /\ price \in Nat /\ fee \in Nat
    BY MoneyAssumption
  <2>2. -(q * price) - fee \in Int /\ q * price - fee \in Int
    BY <2>1
  <2>3. PICK notional \in Int : cash' = cash + notional
                                /\ flow' = [flow EXCEPT ![t] = @ + notional]
    BY <1>1, <2>2 DEF Buy, Sell, Book
  <2>4. /\ \A u \in Tokens : flow[u] \in Int
        /\ flow'[t] = flow[t] + notional
        /\ \A u \in Tokens \ {t} : flow'[u] = flow[u]
    BY <2>3 DEF TypeOK
  <2>5. SumFunctionOnSet(flow', Tokens) = SumFunctionOnSet(flow, Tokens) + notional
    BY <2>4, TokensAssumption, SumMoves
  <2>6. SumFunctionOnSet(flow, Tokens) \in Int /\ StartingCash \in Int
    BY <2>4, TokensAssumption, MoneyAssumption, SumIsInt
  <2>. QED BY <2>3, <2>5, <2>6 DEF CashIsExplained
<1>2. CASE Mark \/ UNCHANGED vars
  BY <1>2 DEF Mark, observed, vars, CashIsExplained
<1>. QED BY <1>1, <1>2 DEF Next, ApplyFill

(* Nothing has moved at first.                                              *)
LEMMA CashInvariant == Spec => []CashIsExplained
<1>1. Init => CashIsExplained
  <2> SUFFICES ASSUME Init PROVE CashIsExplained
    OBVIOUS
  <2> DEFINE B == {s \in SUBSET Tokens : SumFunctionOnSet(flow, s) # 0}
  <2>1. B = {}
    <3> SUFFICES ASSUME B # {} PROVE FALSE
      OBVIOUS
    <3>1. PICK m \in B : \A x \in m : m \ {x} \notin B
      <4>1. B \in SUBSET SUBSET Tokens
        OBVIOUS
      <4> HIDE DEF B
      <4>. QED BY <4>1, TokensAssumption, SmallestSet
    <3>2. IsFiniteSet(m)
      BY TokensAssumption, FS_Subset
    <3>3. m # {}
      BY <3>1, <3>2, SumFirst
    <3>4. One(m) \in m
          /\ SumFunctionOnSet(flow, m) = flow[One(m)] + SumFunctionOnSet(flow, m \ {One(m)})
      BY <3>2, <3>3, SumFirst
    <3>5. flow[One(m)] = 0 /\ SumFunctionOnSet(flow, m \ {One(m)}) = 0
      BY <3>1, <3>4 DEF Init
    <3>. QED BY <3>1, <3>4, <3>5
  <2>2. SumFunctionOnSet(flow, Tokens) = 0
    BY <2>1
  <2>. QED BY <2>2, MoneyAssumption DEF Init, CashIsExplained
<1>. QED BY <1>1, CashStep, TypeCorrect, PTL DEF Spec

(* The value and the unrealized profit of each position.                    *)
Values == [t \in Positions |-> qty[t] * mark[t]]
Gains == [t \in Positions |-> qty[t] * (mark[t] - avg[t])]

(* What the tokens of s do not explain of their part of the NAV.            *)
Unexplained(s) ==
    SumFunctionOnSet(flow, s) + SumFunctionOnSet(Values, s \cap Positions)
      - SumFunctionOnSet(realized, s) - SumFunctionOnSet(Gains, s \cap Positions)
      + SumFunctionOnSet(fees, s)

(* Every figure of a token, and every sum of them, is a number.             *)
LEMMA FiguresAreInt ==
    ASSUME TypeOK
    PROVE  /\ \A t \in Tokens : /\ flow[t] \in Int /\ qty[t] \in Int /\ avg[t] \in Int
                                /\ mark[t] \in Int /\ fees[t] \in Int
                                /\ realized[t] \in Int /\ slack[t] \in Int
           /\ \A t \in Positions : Values[t] \in Int /\ Gains[t] \in Int
           /\ \A s \in SUBSET Tokens :
                /\ SumFunctionOnSet(flow, s) \in Int /\ SumFunctionOnSet(realized, s) \in Int
                /\ SumFunctionOnSet(fees, s) \in Int /\ SumFunctionOnSet(slack, s) \in Int
                /\ SumFunctionOnSet(Values, s \cap Positions) \in Int
                /\ SumFunctionOnSet(Gains, s \cap Positions) \in Int
<1>1. \A t \in Tokens : /\ flow[t] \in Int /\ qty[t] \in Int /\ avg[t] \in Int
                        /\ mark[t] \in Int /\ fees[t] \in Int
                        /\ realized[t] \in Int /\ slack[t] \in Int
  <2> TAKE t \in Tokens
  <2>1. /\ flow[t] \in Int /\ qty[t] \in Int /\ realized[t] \in Int
        /\ avg[t] \in AvgCosts
        /\ mark[t] \in Nat /\ fees[t] \in Nat /\ slack[t] \in Nat
    BY DEF TypeOK
  <2>2. avg[t] \in Int
    BY <2>1, MoneyAssumption
  <2>. QED BY <2>1, <2>2
<1>2. \A t \in Positions : Values[t] \in Int /\ Gains[t] \in Int
  BY <1>1 DEF Positions, Values, Gains
<1>3. ASSUME NEW s \in SUBSET Tokens
      PROVE  IsFiniteSet(s) /\ IsFiniteSet(s \cap Positions)
  BY TokensAssumption, FS_Subset
<1>. QED BY <1>1, <1>2, <1>3, SumIsInt

(* The value of a position is its cost and its gain.                        *)
LEMMA GainAndCost ==
    ASSUME NEW q \in Int, NEW m \in Int, NEW a \in Int
    PROVE  q * m - q * (m - a) = q * a
OBVIOUS

(* One token more: what it adds is what BooksBalance is about.              *)
LEMMA UnexplainedGrows ==
    ASSUME TypeOK, NEW s \in SUBSET Tokens, NEW t \in s
    PROVE  Unexplained(s) = Unexplained(s \ {t})
                              + (flow[t] + qty[t] * avg[t] + fees[t] - realized[t])
<1> DEFINE r == s \ {t}
<1>1. t \in Tokens /\ r \in SUBSET Tokens /\ IsFiniteSet(s) /\ IsFiniteSet(s \cap Positions)
  BY TokensAssumption, FS_Subset
<1>2. /\ SumFunctionOnSet(flow, s) = flow[t] + SumFunctionOnSet(flow, r)
      /\ SumFunctionOnSet(realized, s) = realized[t] + SumFunctionOnSet(realized, r)
      /\ SumFunctionOnSet(fees, s) = fees[t] + SumFunctionOnSet(fees, r)
  BY <1>1, FiguresAreInt, SumWithout
<1> DEFINE v == SumFunctionOnSet(Values, r \cap Positions)
           g == SumFunctionOnSet(Gains, r \cap Positions)
<1>3. /\ SumFunctionOnSet(Values, s \cap Positions) = v + qty[t] * mark[t]
      /\ SumFunctionOnSet(Gains, s \cap Positions) = g + qty[t] * (mark[t] - avg[t])
  <2>1. CASE t \in Positions
    <3>1. t \in s \cap Positions /\ (s \cap Positions) \ {t} = r \cap Positions
      BY <2>1
    <3>2. \A u \in s \cap Positions : Values[u] \in Int /\ Gains[u] \in Int
      BY FiguresAreInt
    <3>3. /\ SumFunctionOnSet(Values, s \cap Positions)
               = Values[t] + SumFunctionOnSet(Values, (s \cap Positions) \ {t})
          /\ SumFunctionOnSet(Gains, s \cap Positions)
               = Gains[t] + SumFunctionOnSet(Gains, (s \cap Positions) \ {t})
      BY <1>1, <3>1, <3>2, SumWithout
    <3>4. Values[t] = qty[t] * mark[t] /\ Gains[t] = qty[t] * (mark[t] - avg[t])
      BY <2>1 DEF Values, Gains
    <3>5. Values[t] \in Int /\ Gains[t] \in Int /\ v \in Int /\ g \in Int
      BY <1>1, <2>1, FiguresAreInt
    <3>6. /\ SumFunctionOnSet(Values, s \cap Positions) = Values[t] + v
          /\ SumFunctionOnSet(Gains, s \cap Positions) = Gains[t] + g
      BY <3>1, <3>3
    <3> HIDE DEF v, g
    <3>. QED BY <3>4, <3>5, <3>6
  <2>2. CASE t \notin Positions
    <3>1. s \cap Positions = r \cap Positions /\ qty[t] = 0
      BY <1>1, <2>2 DEF Positions
    <3>2. v \in Int /\ g \in Int /\ mark[t] \in Int /\ avg[t] \in Int
      BY <1>1, FiguresAreInt
    <3>3. qty[t] * mark[t] = 0 /\ qty[t] * (mark[t] - avg[t]) = 0
      BY <3>1, <3>2
    <3>4. SumFunctionOnSet(Values, s \cap Positions) = v
          /\ SumFunctionOnSet(Gains, s \cap Positions) = g
      BY <3>1
    <3> HIDE DEF v, g
    <3>. QED BY <3>2, <3>3, <3>4
  <2>. QED BY <2>1, <2>2
<1>4. qty[t] * mark[t] - qty[t] * (mark[t] - avg[t]) = qty[t] * avg[t]
  <2>1. qty[t] \in Int /\ mark[t] \in Int /\ avg[t] \in Int
    BY <1>1, FiguresAreInt
  <2>. QED BY <2>1, GainAndCost
<1>5. /\ flow[t] \in Int /\ realized[t] \in Int /\ fees[t] \in Int
      /\ qty[t] * mark[t] \in Int /\ qty[t] * (mark[t] - avg[t]) \in Int
      /\ qty[t] * avg[t] \in Int
      /\ SumFunctionOnSet(flow, r) \in Int /\ SumFunctionOnSet(realized, r) \in Int
      /\ SumFunctionOnSet(fees, r) \in Int /\ v \in Int /\ g \in Int
  <2>1. flow[t] \in Int /\ realized[t] \in Int /\ fees[t] \in Int
        /\ qty[t] \in Int /\ mark[t] \in Int /\ avg[t] \in Int
    BY <1>1, FiguresAreInt
  <2>2. /\ SumFunctionOnSet(flow, r) \in Int /\ SumFunctionOnSet(realized, r) \in Int
        /\ SumFunctionOnSet(fees, r) \in Int /\ v \in Int /\ g \in Int
    <3> HIDE DEF r
    <3>. QED BY <1>1, FiguresAreInt
  <2> HIDE DEF r, v, g
  <2>. QED BY <2>1, <2>2
<1>6. Unexplained(r) = SumFunctionOnSet(flow, r) + v - SumFunctionOnSet(realized, r) - g
                         + SumFunctionOnSet(fees, r)
  BY DEF Unexplained
<1>7. Unexplained(s) = (flow[t] + SumFunctionOnSet(flow, r)) + (v + qty[t] * mark[t])
                         - (realized[t] + SumFunctionOnSet(realized, r))
                         - (g + qty[t] * (mark[t] - avg[t]))
                         + (fees[t] + SumFunctionOnSet(fees, r))
  BY <1>2, <1>3 DEF Unexplained
<1> HIDE DEF r, v, g
<1>. QED BY <1>4, <1>5, <1>6, <1>7 DEF r

(* Rounding is all that any set of sound tokens leaves unexplained.         *)
LEMMA UnexplainedIsRounding ==
    ASSUME TypeOK, BooksInv, \A t \in Tokens : sound[t]
    PROVE  2 * Abs(Unexplained(Tokens)) <= SumFunctionOnSet(slack, Tokens)
<1> DEFINE B == {s \in SUBSET Tokens : ~ (2 * Abs(Unexplained(s)) <= SumFunctionOnSet(slack, s))}
<1>1. \A s \in SUBSET Tokens : Unexplained(s) \in Int
  <2> TAKE s \in SUBSET Tokens
  <2>. QED BY FiguresAreInt DEF Unexplained
<1>2. B = {}
  <2> SUFFICES ASSUME B # {} PROVE FALSE
    OBVIOUS
  <2>1. PICK m \in B : \A x \in m : m \ {x} \notin B
    <3>1. B \in SUBSET SUBSET Tokens
      OBVIOUS
    <3> HIDE DEF B
    <3>. QED BY <3>1, TokensAssumption, SmallestSet
  <2>2. CASE m = {}
    <3>1. \A f : SumFunctionOnSet(f, {}) = 0
      BY FS_EmptySet, SumFirst
    <3>2. Unexplained(m) = 0 /\ SumFunctionOnSet(slack, m) = 0
      BY <2>2, <3>1 DEF Unexplained
    <3>3. 2 * Abs(Unexplained(m)) <= SumFunctionOnSet(slack, m)
      BY <3>2 DEF Abs
    <3>. QED BY <2>1, <3>3
  <2>3. CASE m # {}
    <3>1. PICK t \in m : TRUE
      BY <2>3
    <3> DEFINE r == m \ {t}
               e == flow[t] + qty[t] * avg[t] + fees[t] - realized[t]
    <3>2. t \in Tokens /\ r \in SUBSET Tokens /\ IsFiniteSet(m)
      BY TokensAssumption, FS_Subset
    <3>3. 2 * Abs(Unexplained(r)) <= SumFunctionOnSet(slack, r)
      BY <2>1, <3>1, <3>2
    <3>4. Unexplained(m) = Unexplained(r) + e
      BY UnexplainedGrows
    <3>5. SumFunctionOnSet(slack, m) = slack[t] + SumFunctionOnSet(slack, r)
      BY <3>2, FiguresAreInt, SumWithout
    <3>6. 2 * Abs(e) <= slack[t] /\ e \in Int /\ slack[t] \in Int
      BY <3>2, FiguresAreInt DEF BooksInv, BooksBalance
    <3>7. Unexplained(r) \in Int /\ SumFunctionOnSet(slack, r) \in Int
      BY <1>1, <3>2, FiguresAreInt
    <3> HIDE DEF r, e
    <3>8. 2 * Abs(Unexplained(m)) <= SumFunctionOnSet(slack, m)
      BY <3>3, <3>4, <3>5, <3>6, <3>7 DEF Abs
    <3>. QED BY <2>1, <3>8
  <2>. QED BY <2>2, <2>3
<1>. QED BY <1>2

(* The NAV is the starting cash, what was realized and what is unrealized,  *)
(* less the pending fees, for any set of tokens (portfolio/pnl.py): what    *)
(* remains is the rounding of the average costs.                            *)
THEOREM NavHasAnExplanation == Spec => []NavIsExplained
<1>1. TypeOK /\ BooksInv /\ CashIsExplained => NavIsExplained
  <2> SUFFICES ASSUME TypeOK, BooksInv, CashIsExplained, \A t \in Tokens : sound[t]
               PROVE  2 * Abs(nav_usd - StartingCash - AllRealized - unrealized_pnl
                                + SumFunction(fees)) <= SumFunction(slack)
    BY DEF NavIsExplained
  <2>1. /\ DOMAIN realized = Tokens /\ DOMAIN fees = Tokens /\ DOMAIN slack = Tokens
        /\ DOMAIN Values = Positions /\ DOMAIN Gains = Positions
        /\ Tokens \cap Positions = Positions
    BY DEF TypeOK, Values, Gains, Positions
  <2>2. /\ nav_usd = cash + SumFunctionOnSet(Values, Positions)
        /\ unrealized_pnl = SumFunctionOnSet(Gains, Positions)
        /\ AllRealized = SumFunctionOnSet(realized, Tokens)
        /\ SumFunction(fees) = SumFunctionOnSet(fees, Tokens)
        /\ SumFunction(slack) = SumFunctionOnSet(slack, Tokens)
    BY <2>1 DEF nav_usd, unrealized_pnl, AllRealized, SumFunction, Values, Gains
  <2>3. /\ SumFunctionOnSet(flow, Tokens) \in Int /\ SumFunctionOnSet(realized, Tokens) \in Int
        /\ SumFunctionOnSet(fees, Tokens) \in Int /\ StartingCash \in Int
        /\ SumFunctionOnSet(Values, Positions) \in Int
        /\ SumFunctionOnSet(Gains, Positions) \in Int
    BY <2>1, FiguresAreInt, MoneyAssumption
  <2>4. nav_usd - StartingCash - AllRealized - unrealized_pnl + SumFunction(fees)
          = Unexplained(Tokens)
    <3>1. PICK f \in Int, v \in Int, r \in Int, g \in Int, e \in Int, c \in Int :
             /\ f = SumFunctionOnSet(flow, Tokens) /\ v = SumFunctionOnSet(Values, Positions)
             /\ r = SumFunctionOnSet(realized, Tokens) /\ g = SumFunctionOnSet(Gains, Positions)
             /\ e = SumFunctionOnSet(fees, Tokens) /\ c = StartingCash
      BY <2>3
    <3>2. nav_usd = (c + f) + v
      BY <2>2, <3>1 DEF CashIsExplained
    <3>3. unrealized_pnl = g /\ AllRealized = r /\ SumFunction(fees) = e
      BY <2>2, <3>1
    <3>4. Unexplained(Tokens) = f + v - r - g + e
      BY <2>1, <3>1 DEF Unexplained
    <3>5. ((c + f) + v) - c - r - g + e = f + v - r - g + e
      BY <3>1
    <3>. QED BY <3>1, <3>2, <3>3, <3>4, <3>5
  <2>. QED BY <2>2, <2>4, UnexplainedIsRounding
<1>. QED BY <1>1, TypeCorrect, BooksInvariant, CashInvariant, PTL
=============================================================================
