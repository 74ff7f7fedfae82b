----------------------- MODULE ProtectorRewardsProofs -----------------------
(***************************************************************************)
(* The lemmas that the proofs about the pool rest on.  First the           *)
(* arithmetic of PoolMath: the two roundings, the fee split, and sums over *)
(* finite sets counted in units, for which the theorems about cardinality  *)
(* take the place of an induction.  Then what each operation on the        *)
(* commission ledger does to the book: its type, the tokens it reserves,   *)
(* the caps of the buckets, the split between the current epoch and the    *)
(* ended ones, and what it leaves for the receipts to claim.               *)
(***************************************************************************)
EXTENDS ProtectorRewards, FiniteSetTheorems, TLAPS

\* Division by a positive number, in the form the provers can multiply out.
LEMMA QuotientBounds ==
  ASSUME NEW x \in Nat, NEW d \in Nat \ {0}
  PROVE  /\ x \div d \in Nat
         /\ d * (x \div d) <= x
         /\ x < d * (x \div d) + d
  OBVIOUS

LEMMA ProductType ==
  ASSUME NEW a \in Nat, NEW b \in Nat
  PROVE  a * b \in Nat
  OBVIOUS

\* Floors and ceilings of natural numbers are natural numbers.
LEMMA MulDivType ==
  ASSUME NEW a \in Nat, NEW b \in Nat, NEW d \in Nat \ {0}
  PROVE  /\ MulDiv(a, b, d) \in Nat
         /\ MulDivCeil(a, b, d) \in Nat
<1>1. a * b \in Nat
  BY ProductType
<1>2. a * b + d - 1 \in Nat
  BY <1>1
<1> QED
  BY <1>1, <1>2, QuotientBounds DEF MulDiv, MulDivCeil

\* A part of at most the whole takes at most the whole, rounded down or up.
LEMMA MulDivPart ==
  ASSUME NEW a \in Nat, NEW b \in Nat, NEW d \in Nat \ {0}, b <= d
  PROVE  /\ MulDiv(a, b, d) <= a
         /\ MulDivCeil(a, b, d) <= a
<1>1. /\ a * b \in Nat
      /\ a * b <= a * d
      /\ a * d \in Nat
  OBVIOUS
<1>2. MulDiv(a, b, d) <= a
  <2> DEFINE q == (a * b) \div d
  <2>1. q \in Nat /\ d * q <= a * b
    BY <1>1, QuotientBounds
  <2>2. d * q <= d * a
    BY <1>1, <2>1
  <2>3. q <= a
    BY <2>1, <2>2
  <2> QED
    BY <2>3 DEF MulDiv
<1>3. MulDivCeil(a, b, d) <= a
  <2> DEFINE q == (a * b + d - 1) \div d
  <2>1. q \in Nat /\ d * q <= a * b + d - 1
    BY <1>1, QuotientBounds
  <2>2. d * q < d * (a + 1)
    BY <1>1, <2>1
  <2>3. q <= a
    BY <2>1, <2>2
  <2> QED
    BY <2>3 DEF MulDivCeil
<1> QED
  BY <1>2, <1>3

\* The same with the factors swapped.
LEMMA MulDivShare ==
  ASSUME NEW a \in Nat, NEW b \in Nat, NEW d \in Nat \ {0}, a <= d
  PROVE  MulDiv(a, b, d) <= b
<1>1. a * b = b * a
  OBVIOUS
<1> QED
  BY <1>1, MulDivPart DEF MulDiv

\* Rounding up keeps a positive quantity positive.
LEMMA MulDivCeilPositive ==
  ASSUME NEW a \in Nat, NEW b \in Nat, NEW d \in Nat \ {0}
  PROVE  MulDivCeil(a, b, d) = 0 <=> a * b = 0
<1> DEFINE q == (a * b + d - 1) \div d
<1>1. a * b \in Nat
  BY ProductType
<1>2. q \in Nat /\ d * q <= a * b + d - 1 /\ a * b + d - 1 < d * q + d
  BY <1>1, QuotientBounds
<1>3. CASE q = 0
  BY <1>1, <1>2, <1>3 DEF MulDivCeil
<1>4. CASE q # 0
  <2>1. d * q >= d
    BY <1>2, <1>4
  <2> QED
    BY <1>1, <1>2, <1>4, <2>1 DEF MulDivCeil
<1> QED
  BY <1>3, <1>4

LEMMA ZeroProduct ==
  ASSUME NEW a \in Nat, NEW b \in Nat
  PROVE  a * b = 0 <=> a = 0 \/ b = 0
  OBVIOUS

-----------------------------------------------------------------------------
\* Fees after the cap are natural numbers that together respect the cap, and fees
\* within the cap are left alone.
LEMMA ScaleFeesCapped ==
  ASSUME NEW fees \in FeeSplit, NEW cap \in Nat
  PROVE  /\ ScaleFees(fees, cap) \in FeeSplit
         /\ TotalFees(ScaleFees(fees, cap)) <= cap
<1> DEFINE total == TotalFees(fees)
           c == MulDiv(fees.commission, cap, total)
           p == MulDiv(fees.pool, cap, total)
           t == MulDiv(fees.protocol, cap, total)
<1>1. /\ fees.commission \in Nat /\ fees.pool \in Nat /\ fees.protocol \in Nat
      /\ total = fees.commission + fees.pool + fees.protocol
      /\ total \in Nat
  BY DEF FeeSplit, TotalFees
<1>2. CASE total <= cap
  BY <1>1, <1>2 DEF ScaleFees
<1>3. CASE cap < total
  <2>1. total \in Nat \ {0}
    BY <1>1, <1>3
  <2>2. /\ c \in Nat /\ c <= fees.commission
        /\ p \in Nat /\ p <= fees.pool
        /\ t \in Nat /\ t <= fees.protocol
    BY <1>1, <1>3, <2>1, MulDivType, MulDivPart
  <2>3. c + p + t <= cap
    <3>1. /\ total * c <= fees.commission * cap
          /\ total * p <= fees.pool * cap
          /\ total * t <= fees.protocol * cap
      BY <1>1, <2>1, ProductType, QuotientBounds DEF MulDiv
    <3>2. fees.commission * cap + fees.pool * cap + fees.protocol * cap = total * cap
      BY <1>1
    <3>3. total * (c + p + t) = total * c + total * p + total * t
      BY <1>1, <2>2
    <3>4. total * (c + p + t) <= total * cap
      BY <1>1, <2>2, <3>1, <3>2, <3>3
    <3> QED
      BY <2>1, <2>2, <3>4
  <2> DEFINE rest0 == cap - (c + p + t)
             add0  == Least(rest0, fees.commission - c)
             rest1 == rest0 - add0
             add1  == Least(rest1, fees.pool - p)
             rest2 == rest1 - add1
             add2  == Least(rest2, fees.protocol - t)
  <2>4. rest0 \in Nat /\ add0 \in Nat /\ add0 <= rest0
    BY <1>1, <2>2, <2>3 DEF Least
  <2>5. rest1 \in Nat /\ add1 \in Nat /\ add1 <= rest1
    BY <1>1, <2>2, <2>4 DEF Least
  <2>6. rest2 \in Nat /\ add2 \in Nat /\ add2 <= rest2
    BY <1>1, <2>2, <2>5 DEF Least
  <2>7. ScaleFees(fees, cap) = [commission |-> c + add0, pool |-> p + add1, protocol |-> t + add2]
    BY <1>1, <1>3 DEF ScaleFees
  <2> HIDE DEF c, p, t, add0, add1, add2
  <2>8. (c + add0) + (p + add1) + (t + add2) <= cap
    BY <2>2, <2>4, <2>5, <2>6
  <2> QED
    BY <2>2, <2>4, <2>5, <2>6, <2>7, <2>8 DEF FeeSplit, TotalFees
<1> QED
  BY <1>1, <1>2, <1>3

-----------------------------------------------------------------------------
(* Counted sums *)

\* The units of all indices but one
OtherUnits(f, i) == UNION {{j} \X (1..f[j]) : j \in DOMAIN f \ {i}}

\* The units of one index are as many as its value.
LEMMA UnitsOfOne ==
  ASSUME NEW i, NEW n \in Nat
  PROVE  /\ IsFiniteSet({i} \X (1..n))
         /\ Cardinality({i} \X (1..n)) = n
<1>1. IsFiniteSet({i}) /\ Cardinality({i}) = 1
  BY FS_Singleton
<1>2. IsFiniteSet(1..n) /\ Cardinality(1..n) = n
  BY FS_Interval
<1>3. /\ IsFiniteSet({i} \X (1..n))
      /\ Cardinality({i} \X (1..n)) = Cardinality({i}) * Cardinality(1..n)
  BY ONLY <1>1, <1>2, FS_Product, Zenon
<1>4. 1 * n = n
  OBVIOUS
<1> QED
  BY <1>1, <1>2, <1>3, <1>4

\* Finitely many natural numbers have finitely many units.
LEMMA UnitsFinite ==
  ASSUME NEW D, IsFiniteSet(D), NEW f \in [D -> Nat]
  PROVE  IsFiniteSet(Units(f))
<1> DEFINE blocks == {{i} \X (1..f[i]) : i \in D}
           g == [i \in D |-> {i} \X (1..f[i])]
<1>1. g \in Surjection(D, blocks)
  BY DEF Surjection
<1>2. IsFiniteSet(blocks)
  BY <1>1, FS_Surjection
<1>3. ASSUME NEW b \in blocks PROVE IsFiniteSet(b)
  <2>1. PICK i \in D : b = {i} \X (1..f[i])
    OBVIOUS
  <2>2. f[i] \in Nat
    OBVIOUS
  <2> QED
    BY <2>1, <2>2, UnitsOfOne, Zenon
<1>4. IsFiniteSet(UNION blocks)
  BY <1>2, <1>3, FS_UNION
<1> QED
  BY <1>4 DEF Units

\* One index can be counted apart from the others.
LEMMA SumSplit ==
  ASSUME NEW D, IsFiniteSet(D), NEW f \in [D -> Nat], NEW i \in D
  PROVE  /\ IsFiniteSet(OtherUnits(f, i))
         /\ Cardinality(OtherUnits(f, i)) \in Nat
         /\ SumOf(f) = Cardinality(OtherUnits(f, i)) + f[i]
<1> DEFINE others == OtherUnits(f, i)
           own == {i} \X (1..f[i])
<1>1. Units(f) = others \cup own
  BY DEF Units, OtherUnits
<1>2. others \cap own = {}
  BY DEF OtherUnits
<1>3. IsFiniteSet(others)
  BY <1>1, UnitsFinite, FS_Subset
<1>4. IsFiniteSet(own) /\ Cardinality(own) = f[i]
  BY UnitsOfOne
<1>5. /\ Cardinality(others \cup own)
            = Cardinality(others) + Cardinality(own) - Cardinality(others \cap own)
      /\ Cardinality(others) \in Nat
      /\ Cardinality({}) = 0
  BY <1>3, <1>4, FS_Union, FS_CardinalityType, FS_EmptySet
<1>6. Cardinality(Units(f)) = Cardinality(others) + f[i]
  <2> HIDE DEF others, own
  <2>1. f[i] \in Nat
    OBVIOUS
  <2>2. Cardinality(Units(f)) = Cardinality(others) + Cardinality(own) - Cardinality({})
    BY <1>1, <1>2, <1>5
  <2> QED
    BY <1>4, <1>5, <2>1, <2>2
<1> QED
  BY <1>3, <1>5, <1>6 DEF SumOf

\* A sum over a finite set of indices is a natural number.
LEMMA SumType ==
  ASSUME NEW D, IsFiniteSet(D), NEW f \in [D -> Nat]
  PROVE  SumOf(f) \in Nat
BY UnitsFinite, FS_CardinalityType DEF SumOf

\* No summand exceeds the sum.
LEMMA SumBound ==
  ASSUME NEW D, IsFiniteSet(D), NEW f \in [D -> Nat], NEW i \in D
  PROVE  f[i] <= SumOf(f)
BY SumSplit

\* A sum of zeros is zero.
LEMMA SumZero ==
  ASSUME NEW D, IsFiniteSet(D), NEW f \in [D -> Nat], \A i \in D : f[i] = 0
  PROVE  SumOf(f) = 0
<1>1. Units(f) = {}
  BY DEF Units
<1> QED
  BY <1>1, FS_EmptySet DEF SumOf

\* Functions that differ at one index have sums that differ as their values there do.
LEMMA SumChange ==
  ASSUME NEW D, IsFiniteSet(D), NEW f \in [D -> Nat], NEW g \in [D -> Nat], NEW i \in D,
         \A j \in D \ {i} : g[j] = f[j]
  PROVE  SumOf(g) = SumOf(f) - f[i] + g[i]
<1>1. OtherUnits(g, i) = OtherUnits(f, i)
  BY DEF OtherUnits
<1>2. /\ Cardinality(OtherUnits(f, i)) \in Nat
      /\ SumOf(f) = Cardinality(OtherUnits(f, i)) + f[i]
      /\ SumOf(g) = Cardinality(OtherUnits(g, i)) + g[i]
  BY SumSplit
<1> QED
  BY <1>1, <1>2

\* A unit of a sum, taken apart.
LEMMA UnitParts ==
  ASSUME NEW D, NEW f \in [D -> Nat]
  PROVE  /\ \A u \in Units(f) : /\ u = <<u[1], u[2]>> /\ u[1] \in D
                                /\ u[2] \in Nat \ {0} /\ u[2] <= f[u[1]]
         /\ \A i \in D : \A n \in Nat \ {0} : n <= f[i] => <<i, n>> \in Units(f)
<1>1. ASSUME NEW u \in Units(f)
      PROVE  /\ u = <<u[1], u[2]>> /\ u[1] \in D
             /\ u[2] \in Nat \ {0} /\ u[2] <= f[u[1]]
  <2>1. PICK i \in D : u \in {i} \X (1..f[i])
    BY DEF Units
  <2>2. f[i] \in Nat
    OBVIOUS
  <2>3. u = <<i, u[2]>> /\ u[1] = i /\ u[2] \in 1..f[i]
    BY <2>1
  <2> QED
    BY <2>2, <2>3
<1>2. ASSUME NEW i \in D, NEW n \in Nat \ {0}, n <= f[i]
      PROVE  <<i, n>> \in Units(f)
  <2>1. <<i, n>> \in {i} \X (1..f[i])
    BY <1>2
  <2> QED
    BY <2>1 DEF Units
<1> QED
  BY <1>1, <1>2

\* A sum that is termwise at most another is at most the other.
LEMMA SumMonotone ==
  ASSUME NEW D, IsFiniteSet(D), NEW f \in [D -> Nat], NEW g \in [D -> Nat],
         \A i \in D : f[i] <= g[i]
  PROVE  SumOf(f) <= SumOf(g)
<1>1. Units(f) \subseteq Units(g)
  <2> SUFFICES ASSUME NEW u \in Units(f) PROVE u \in Units(g)
    OBVIOUS
  <2>1. u = <<u[1], u[2]>> /\ u[1] \in D /\ u[2] \in Nat \ {0} /\ u[2] <= f[u[1]]
    BY UnitParts
  <2>2. u[2] <= g[u[1]]
    BY <2>1
  <2> QED
    BY <2>1, <2>2, UnitParts
<1>2. IsFiniteSet(Units(g))
  BY UnitsFinite
<1> QED
  BY <1>1, <1>2, FS_Subset DEF SumOf

\* The sum of terms that are at most the sums of two others' terms
LEMMA SumOfSums ==
  ASSUME NEW D, IsFiniteSet(D), NEW f \in [D -> Nat], NEW g \in [D -> Nat],
         NEW h \in [D -> Nat], \A i \in D : h[i] <= f[i] + g[i]
  PROVE  SumOf(h) <= SumOf(f) + SumOf(g)
<1> DEFINE low == {u \in Units(h) : u[2] <= f[u[1]]}
           high == {u \in Units(h) : ~(u[2] <= f[u[1]])}
           shift == [u \in high |-> <<u[1], u[2] - f[u[1]]>>]
<1>1. /\ IsFiniteSet(Units(f)) /\ IsFiniteSet(Units(g)) /\ IsFiniteSet(Units(h))
      /\ Cardinality(Units(f)) \in Nat /\ Cardinality(Units(g)) \in Nat
  BY UnitsFinite, FS_CardinalityType
<1>2. low \subseteq Units(f)
  <2> SUFFICES ASSUME NEW u \in low PROVE u \in Units(f)
    OBVIOUS
  <2>1. u = <<u[1], u[2]>> /\ u[1] \in D /\ u[2] \in Nat \ {0} /\ u[2] <= f[u[1]]
    BY UnitParts
  <2> QED
    BY <2>1, UnitParts
<1>3. ASSUME NEW u \in high
      PROVE  /\ u = <<u[1], u[2]>> /\ u[2] \in Nat /\ f[u[1]] \in Nat
             /\ <<u[1], u[2] - f[u[1]]>> \in Units(g)
  <2>1. u = <<u[1], u[2]>> /\ u[1] \in D /\ u[2] \in Nat \ {0} /\ u[2] <= h[u[1]]
    BY UnitParts
  <2>2. f[u[1]] \in Nat /\ g[u[1]] \in Nat /\ h[u[1]] <= f[u[1]] + g[u[1]] /\ h[u[1]] \in Nat
    BY <2>1
  <2>3. u[2] - f[u[1]] \in Nat \ {0} /\ u[2] - f[u[1]] <= g[u[1]]
    BY <2>1, <2>2
  <2>4. <<u[1], u[2] - f[u[1]]>> \in Units(g)
    BY <2>1, <2>3, UnitParts
  <2> QED
    BY <2>1, <2>2, <2>4
<1>4. shift \in Injection(high, Units(g))
  <2>1. shift \in [high -> Units(g)]
    BY <1>3
  <2>2. ASSUME NEW a \in high, NEW b \in high, shift[a] = shift[b]
        PROVE  a = b
    <3>1. a[1] = b[1] /\ a[2] - f[a[1]] = b[2] - f[b[1]]
      BY <2>2
    <3>2. /\ a = <<a[1], a[2]>> /\ a[2] \in Nat /\ f[a[1]] \in Nat
          /\ b = <<b[1], b[2]>> /\ b[2] \in Nat
      BY <1>3
    <3>3. f[a[1]] = f[b[1]]
      BY <3>1
    <3> DEFINE base == f[a[1]]
    <3>4. base \in Nat /\ a[2] - base = b[2] - base
      BY <3>1, <3>2, <3>3
    <3> HIDE DEF base
    <3>5. a[2] = b[2]
      BY <3>2, <3>4
    <3> QED
      BY <3>1, <3>2, <3>5
  <2> QED
    BY <2>1, <2>2 DEF Injection, IsInjective
<1>5. IsFiniteSet(high) /\ Cardinality(high) <= Cardinality(Units(g))
  <2> HIDE DEF high, shift
  <2> QED
    BY <1>1, <1>4, FS_Injection
<1>6. IsFiniteSet(low) /\ Cardinality(low) <= Cardinality(Units(f))
  BY <1>1, <1>2, FS_Subset
<1>7. Units(h) = low \cup high /\ low \cap high = {}
  OBVIOUS
<1> HIDE DEF low, high
<1>8. /\ Cardinality(low \cup high)
           = Cardinality(low) + Cardinality(high) - Cardinality(low \cap high)
      /\ Cardinality({}) = 0
      /\ Cardinality(low) \in Nat /\ Cardinality(high) \in Nat
  BY <1>5, <1>6, FS_Union, FS_EmptySet, FS_CardinalityType
<1>9. Cardinality(Units(h)) = Cardinality(low) + Cardinality(high)
  <2>1. Cardinality(Units(h)) = Cardinality(low) + Cardinality(high) - Cardinality({})
    BY <1>7, <1>8
  <2> QED
    BY <1>8, <2>1
<1> QED
  BY <1>1, <1>5, <1>6, <1>8, <1>9 DEF SumOf

\* Terms at most c times another's sum to at most c times its sum.
LEMMA SumScaledAtMost ==
  ASSUME NEW D, IsFiniteSet(D), NEW c \in Nat, NEW f \in [D -> Nat], NEW h \in [D -> Nat],
         \A i \in D : h[i] <= c * f[i]
  PROVE  SumOf(h) <= c * SumOf(f)
<1> DEFINE place(u) == (u[2] - 1) \div c
           spread == [u \in Units(h) |-> <<u[2] - c * place(u), <<u[1], place(u) + 1>>>>]
<1>1. /\ IsFiniteSet(Units(f)) /\ IsFiniteSet(Units(h))
      /\ Cardinality(Units(f)) \in Nat /\ Cardinality(Units(h)) \in Nat
  BY UnitsFinite, FS_CardinalityType
<1>2. ASSUME NEW u \in Units(h)
      PROVE  /\ u = <<u[1], u[2]>> /\ u[2] \in Nat /\ place(u) \in Nat
             /\ u[2] - c * place(u) \in 1..c
             /\ <<u[1], place(u) + 1>> \in Units(f)
  <2>1. u = <<u[1], u[2]>> /\ u[1] \in D /\ u[2] \in Nat \ {0} /\ u[2] <= h[u[1]]
    BY UnitParts
  <2>2. /\ f[u[1]] \in Nat /\ h[u[1]] \in Nat /\ h[u[1]] <= c * f[u[1]]
        /\ u[2] <= c * f[u[1]]
    BY <2>1
  <2>3. c \in Nat \ {0}
    <3> SUFFICES ASSUME c = 0 PROVE FALSE
      OBVIOUS
    <3> QED
      BY <2>1, <2>2
  <2>4. u[2] - 1 \in Nat
    BY <2>1
  <2>5. /\ place(u) \in Nat
        /\ c * place(u) <= u[2] - 1
        /\ u[2] - 1 < c * place(u) + c
    BY <2>3, <2>4, QuotientBounds
  <2> HIDE DEF place
  <2>6. u[2] - c * place(u) \in 1..c
    <3>1. c * place(u) \in Nat
      BY <2>5
    <3> QED
      BY <2>1, <2>3, <2>5, <3>1
  <2>7. place(u) + 1 <= f[u[1]]
    <3>1. c * place(u) < c * f[u[1]]
      BY <2>1, <2>2, <2>5
    <3> QED
      BY <2>2, <2>3, <2>5, <3>1
  <2>8. <<u[1], place(u) + 1>> \in Units(f)
    BY <2>1, <2>5, <2>7, UnitParts
  <2> QED
    BY <2>1, <2>5, <2>6, <2>8
<1>3. spread \in Injection(Units(h), (1..c) \X Units(f))
  <2> HIDE DEF place
  <2>1. spread \in [Units(h) -> (1..c) \X Units(f)]
    BY <1>2
  <2>2. ASSUME NEW a \in Units(h), NEW b \in Units(h), spread[a] = spread[b]
        PROVE  a = b
    <3>1. /\ a[1] = b[1] /\ place(a) + 1 = place(b) + 1
          /\ a[2] - c * place(a) = b[2] - c * place(b)
      BY <2>2
    <3>2. /\ a = <<a[1], a[2]>> /\ a[2] \in Nat /\ place(a) \in Nat
          /\ b = <<b[1], b[2]>> /\ b[2] \in Nat /\ place(b) \in Nat
      BY <1>2
    <3>3. place(a) = place(b)
      BY <3>1, <3>2
    <3>4. c * place(a) \in Nat /\ a[2] - c * place(a) = b[2] - c * place(a)
      BY <3>1, <3>2, <3>3
    <3>5. a[2] = b[2]
      BY <3>2, <3>4
    <3> QED
      BY <3>1, <3>2, <3>5
  <2> QED
    BY <2>1, <2>2 DEF Injection, IsInjective
<1>4. /\ IsFiniteSet(1..c) /\ Cardinality(1..c) = c
      /\ IsFiniteSet((1..c) \X Units(f))
      /\ Cardinality((1..c) \X Units(f)) = Cardinality(1..c) * Cardinality(Units(f))
  <2>1. IsFiniteSet(1..c) /\ Cardinality(1..c) = c
    BY FS_Interval
  <2> QED
    BY ONLY <1>1, <2>1, FS_Product, Zenon
<1>5. Cardinality(Units(h)) <= Cardinality((1..c) \X Units(f))
  <2> HIDE DEF spread
  <2> QED
    BY ONLY <1>3, <1>4, FS_Injection, Zenon
<1> QED
  BY <1>4, <1>5 DEF SumOf

\* Terms at least c times another's sum to at least c times its sum.
LEMMA SumScaledAtLeast ==
  ASSUME NEW D, IsFiniteSet(D), NEW c \in Nat, NEW f \in [D -> Nat], NEW h \in [D -> Nat],
         \A i \in D : c * f[i] <= h[i]
  PROVE  c * SumOf(f) <= SumOf(h)
<1> DEFINE S == (1..c) \X Units(f)
           place(p) == c * (p[2][2] - 1) + p[1]
           pack == [p \in S |-> <<p[2][1], place(p)>>]
<1>1. /\ IsFiniteSet(Units(f)) /\ IsFiniteSet(Units(h))
      /\ Cardinality(Units(f)) \in Nat /\ Cardinality(Units(h)) \in Nat
  BY UnitsFinite, FS_CardinalityType
<1>2. ASSUME NEW p \in S
      PROVE  /\ p = <<p[1], p[2]>> /\ p[1] \in 1..c /\ p[2] \in Units(f)
             /\ p[2] = <<p[2][1], p[2][2]>>
             /\ p[2][2] - 1 \in Nat
             /\ <<p[2][1], place(p)>> \in Units(h)
  <2>1. p = <<p[1], p[2]>> /\ p[1] \in 1..c /\ p[2] \in Units(f)
    OBVIOUS
  <2> DEFINE i == p[2][1]
             k == p[2][2]
  <2>2. p[2] = <<i, k>> /\ i \in D /\ k \in Nat \ {0} /\ k <= f[i]
    BY <2>1, UnitParts
  <2> HIDE DEF i, k
  <2>3. f[i] \in Nat /\ h[i] \in Nat /\ c * f[i] <= h[i]
    BY <2>2
  <2>4. PICK j \in Nat : j = k - 1
    BY <2>2
  <2>5. c * j + c <= c * f[i]
    <3>1. j + 1 <= f[i]
      BY <2>2, <2>4
    <3>2. c * (j + 1) <= c * f[i]
      BY <2>3, <2>4, <3>1
    <3> QED
      BY <2>3, <2>4, <3>2
  <2>6. c * j + p[1] \in Nat \ {0} /\ c * j + p[1] <= h[i]
    BY <2>1, <2>3, <2>4, <2>5
  <2>7. <<i, c * j + p[1]>> \in Units(h)
    BY <2>2, <2>6, UnitParts
  <2> QED
    BY <2>1, <2>2, <2>4, <2>7 DEF i, k
<1>3. pack \in Injection(S, Units(h))
  <2>1. pack \in [S -> Units(h)]
    <3> HIDE DEF S, place
    <3> QED
      BY <1>2
  <2>2. ASSUME NEW a \in S, NEW b \in S, pack[a] = pack[b]
        PROVE  a = b
    <3>1. a[2][1] = b[2][1] /\ place(a) = place(b)
      <4> HIDE DEF S, place
      <4> QED
        BY <2>2
    <3>2. PICK j \in Nat : j = a[2][2] - 1
      BY <1>2
    <3>3. PICK l \in Nat : l = b[2][2] - 1
      BY <1>2
    <3>4. a[1] \in 1..c /\ b[1] \in 1..c
      BY <1>2
    <3>5. c * j + a[1] = c * l + b[1]
      BY <3>1, <3>2, <3>3
    <3>6. j = l
      <4>1. ASSUME NEW x \in Nat, NEW y \in Nat, NEW m \in 1..c, NEW n \in 1..c,
                   c * x + m = c * y + n
            PROVE  ~(x < y)
        <5> SUFFICES ASSUME x < y PROVE FALSE
          OBVIOUS
        <5>1. c * (x + 1) <= c * y
          OBVIOUS
        <5>2. c * x + c <= c * y
          BY <5>1
        <5> QED
          BY <4>1, <5>2
      <4>2. ~(j < l) /\ ~(l < j)
        BY <3>4, <3>5, <4>1
      <4> QED
        BY <4>2
    <3>7. a[1] = b[1]
      BY <3>4, <3>5, <3>6
    <3>8. a[2] = <<a[2][1], a[2][2]>> /\ b[2] = <<b[2][1], b[2][2]>>
          /\ a = <<a[1], a[2]>> /\ b = <<b[1], b[2]>>
      BY <1>2
    <3>9. a[2][2] = b[2][2]
      <4>1. a[2] \in Units(f) /\ b[2] \in Units(f)
        BY <1>2
      <4>2. a[2][2] \in Nat /\ b[2][2] \in Nat
        BY <4>1, UnitParts
      <4> QED
        BY <3>2, <3>3, <3>6, <4>2
    <3> QED
      BY <3>1, <3>7, <3>8, <3>9
  <2> QED
    BY <2>1, <2>2 DEF Injection, IsInjective
<1>4. /\ Cardinality(1..c) = c
      /\ Cardinality(S) = Cardinality(1..c) * Cardinality(Units(f))
  <2>1. IsFiniteSet(1..c) /\ Cardinality(1..c) = c
    BY FS_Interval
  <2> QED
    BY ONLY <1>1, <2>1, FS_Product, Zenon
<1>5. Cardinality(S) <= Cardinality(Units(h))
  <2> HIDE DEF S, pack
  <2> QED
    BY ONLY <1>1, <1>3, FS_Injection, Zenon
<1> QED
  BY <1>4, <1>5 DEF SumOf

-----------------------------------------------------------------------------
(* The commission ledger *)

USE RewardAssumption

LEMMA BookFields ==
  ASSUME NEW b \in Book
  PROVE  /\ b.commissions \in Nat /\ b.poolFee \in Nat /\ b.protocolFee \in Nat
         /\ b.current \in Nat /\ b.historical \in Nat /\ b.dust \in Nat /\ b.rps \in Nat
         /\ ReservedFees(b) \in Nat
BY DEF Book, ReservedFees

\* The accumulator step and the tokens it stands for are natural numbers.
LEMMA IncrementType ==
  ASSUME NEW amount \in Nat, NEW shares \in Nat, shares # 0
  PROVE  /\ Increment(amount, shares) \in Nat
         /\ Represented(Increment(amount, shares), shares) \in Nat
<1>1. Increment(amount, shares) \in Nat
  BY MulDivType DEF Increment
<1> QED
  BY <1>1, MulDivType DEF Represented

\* Distributing dust moves the accumulator and the dust, and nothing else.
LEMMA DistributeDustEffect ==
  ASSUME NEW b \in Book, NEW shares \in Nat, NEW tokens \in Nat
  PROVE  /\ DistributeDust(b, shares, tokens) \in Book
         /\ \A f \in {"commissions", "poolFee", "protocolFee", "current", "historical"} :
              DistributeDust(b, shares, tokens)[f] = b[f]
<1>1. CASE b.dust = 0 \/ shares = 0 \/ tokens = 0 \/ Increment(b.dust, shares) = 0
  BY <1>1 DEF DistributeDust
<1>2. CASE ~(b.dust = 0 \/ shares = 0 \/ tokens = 0 \/ Increment(b.dust, shares) = 0)
  <2> DEFINE inc == Increment(b.dust, shares)
             represented == Represented(inc, shares)
  <2>1. inc \in Nat /\ represented \in Nat
    BY <1>2, IncrementType, BookFields
  <2>2. DistributeDust(b, shares, tokens)
          = [b EXCEPT !.rps = @ + inc, !.dust = Monus(@, represented)]
    BY <1>2 DEF DistributeDust
  <2>3. b.rps + inc \in Nat /\ Monus(b.dust, represented) \in Nat
    BY <2>1, BookFields DEF Monus
  <2> HIDE DEF inc, represented
  <2> QED
    BY <2>2, <2>3 DEF Book
<1> QED
  BY <1>1, <1>2

\* A reward joins exactly one bucket, whole; it never breaks a cap it fits under.
LEMMA AccumulateRewardEffect ==
  ASSUME NEW b \in Book, NEW shares \in Nat, NEW tokens \in Nat, NEW reward \in Nat
  PROVE  LET a == AccumulateReward(b, shares, tokens, reward)
         IN  /\ a \in Book
             /\ ReservedFees(a) = ReservedFees(b) + reward
             /\ Partitioned(b) => Partitioned(a)
             /\ a.historical = b.historical
             /\ WithinBuckets(b) /\ RewardFits(b, shares, tokens, reward) => WithinBuckets(a)
<1> DEFINE a == AccumulateReward(b, shares, tokens, reward)
<1>0. /\ b.commissions \in Nat /\ b.poolFee \in Nat /\ b.protocolFee \in Nat
      /\ b.current \in Nat /\ b.historical \in Nat /\ b.dust \in Nat /\ b.rps \in Nat
  BY BookFields
<1>1. CASE reward = 0
  <2>1. a = b
    BY <1>1 DEF AccumulateReward
  <2> QED
    BY <1>0, <1>1, <2>1 DEF ReservedFees
<1>2. CASE reward # 0 /\ NoShareHolders(shares, tokens)
  <2>1. a = [b EXCEPT !.protocolFee = @ + reward]
    BY <1>2 DEF AccumulateReward
  <2>2. /\ a \in Book
        /\ a.protocolFee = b.protocolFee + reward
        /\ a.commissions = b.commissions /\ a.poolFee = b.poolFee
        /\ a.current = b.current /\ a.historical = b.historical
    BY <1>0, <2>1 DEF Book
  <2> HIDE DEF a
  <2>3. RewardFits(b, shares, tokens, reward) => b.protocolFee + reward <= MaxSafeAccumulation
    BY <1>0, <1>2 DEF RewardFits, ProtocolRoom, Monus
  <2>4. WithinBuckets(b) /\ RewardFits(b, shares, tokens, reward) => WithinBuckets(a)
    BY <2>2, <2>3 DEF WithinBuckets
  <2>5. ReservedFees(a) = ReservedFees(b) + reward /\ (Partitioned(b) => Partitioned(a))
    BY <1>0, <2>2 DEF ReservedFees, Partitioned
  <2> QED
    BY <2>2, <2>4, <2>5 DEF a
<1>3. CASE reward # 0 /\ ~NoShareHolders(shares, tokens)
  <2> DEFINE inc == Increment(b.dust + reward, shares)
             represented == Represented(inc, shares)
  <2>1. inc \in Nat /\ represented \in Nat
    BY <1>0, <1>3, IncrementType DEF NoShareHolders
  <2>2. a = [b EXCEPT !.rps = @ + inc, !.dust = Monus(b.dust + reward, represented),
                      !.commissions = @ + reward, !.current = @ + reward]
    BY <1>3 DEF AccumulateReward
  <2>3. /\ b.rps + inc \in Nat /\ Monus(b.dust + reward, represented) \in Nat
        /\ b.commissions + reward \in Nat /\ b.current + reward \in Nat
    BY <1>0, <2>1 DEF Monus
  <2> HIDE DEF inc, represented
  <2>4. /\ a \in Book
        /\ a.protocolFee = b.protocolFee
        /\ a.commissions = b.commissions + reward /\ a.poolFee = b.poolFee
        /\ a.current = b.current + reward /\ a.historical = b.historical
    BY <2>2, <2>3 DEF Book
  <2> HIDE DEF a
  <2>5. RewardFits(b, shares, tokens, reward) => b.commissions + reward <= MaxSafeAccumulation
    BY <1>3 DEF RewardFits
  <2>6. WithinBuckets(b) /\ RewardFits(b, shares, tokens, reward) => WithinBuckets(a)
    BY <2>4, <2>5 DEF WithinBuckets
  <2>7. ReservedFees(a) = ReservedFees(b) + reward /\ (Partitioned(b) => Partitioned(a))
    BY <1>0, <2>4 DEF ReservedFees, Partitioned
  <2> QED
    BY <2>4, <2>6, <2>7 DEF a
<1> QED
  BY <1>1, <1>2, <1>3

\* Redirected dust was already reserved, as a commission of the current epoch.
LEMMA RedirectDustEffect ==
  ASSUME NEW b \in Book
  PROVE  /\ RedirectDust(b) \in Book
         /\ ReservedFees(RedirectDust(b)) = ReservedFees(b)
         /\ Partitioned(b) => Partitioned(RedirectDust(b))
         /\ RedirectDust(b).historical = b.historical
         /\ WithinBuckets(b) /\ DustFits(b) => WithinBuckets(RedirectDust(b))
<1> DEFINE a == RedirectDust(b)
           moved == RedirectableDust(b)
<1>0. /\ b.commissions \in Nat /\ b.poolFee \in Nat /\ b.protocolFee \in Nat
      /\ b.current \in Nat /\ b.historical \in Nat /\ b.dust \in Nat /\ b.rps \in Nat
  BY BookFields
<1>1. moved \in Nat /\ moved <= b.commissions /\ moved <= b.current
  BY <1>0 DEF RedirectableDust, Least
<1>2. a = [b EXCEPT !.dust = 0, !.commissions = @ - moved, !.current = @ - moved,
                    !.protocolFee = @ + moved]
  BY DEF RedirectDust
<1>3. moved # 0 /\ DustFits(b) => b.protocolFee + moved <= MaxSafeAccumulation
  BY DEF DustFits
<1> DEFINE commissions == b.commissions - moved
           current == b.current - moved
           protocolFee == b.protocolFee + moved
<1>4. commissions \in Nat /\ current \in Nat /\ protocolFee \in Nat
  BY <1>0, <1>1
<1>5. a = [b EXCEPT !.dust = 0, !.commissions = commissions, !.current = current,
                    !.protocolFee = protocolFee]
  BY <1>2
<1> HIDE DEF moved, commissions, current, protocolFee
<1> HIDE DEF a
<1>6. a \in Book
  BY <1>4, <1>5 DEF Book
<1>7. /\ a.commissions = commissions /\ a.current = current
      /\ a.protocolFee = protocolFee
      /\ a.poolFee = b.poolFee /\ a.historical = b.historical
  BY <1>5 DEF Book
<1> USE DEF commissions, current, protocolFee
<1>8. /\ ReservedFees(a) = ReservedFees(b)
      /\ Partitioned(b) => Partitioned(a)
  BY <1>0, <1>1, <1>7 DEF ReservedFees, Partitioned
<1>9. WithinBuckets(b) /\ DustFits(b) => WithinBuckets(a)
  BY <1>0, <1>1, <1>3, <1>7 DEF WithinBuckets
<1> QED
  BY <1>7, <1>8, <1>9, <1>6 DEF a

\* Orphaned commissions leave the commissions whole, and what the protocol bucket
\* cannot take is reserved by nobody: nothing while all fees fit one bucket.
LEMMA OrphanEffect ==
  ASSUME NEW b \in Book, NEW amount \in Nat, amount <= b.commissions
  PROVE  LET a == Orphan(b, amount)
         IN  /\ a \in Book
             /\ ReservedFees(a) <= ReservedFees(b)
             /\ a.commissions = b.commissions - amount
             /\ a.current = b.current /\ a.historical = b.historical
             /\ WithinBuckets(b) => WithinBuckets(a)
             /\ ReservedFees(b) <= MaxSafeAccumulation => ReservedFees(a) = ReservedFees(b)
<1> DEFINE a == Orphan(b, amount)
           kept == Least(amount, ProtocolRoom(b))
<1>0. /\ b.commissions \in Nat /\ b.poolFee \in Nat /\ b.protocolFee \in Nat
      /\ b.current \in Nat /\ b.historical \in Nat /\ b.dust \in Nat /\ b.rps \in Nat
  BY BookFields
<1>1. kept \in Nat /\ kept <= amount
  BY <1>0 DEF Least, ProtocolRoom, Monus
<1>2. b.protocolFee <= MaxSafeAccumulation => b.protocolFee + kept <= MaxSafeAccumulation
  BY <1>0 DEF Least, ProtocolRoom, Monus
<1>3. a = [b EXCEPT !.commissions = @ - amount, !.protocolFee = @ + kept]
  BY DEF Orphan
<1>4. b.commissions - amount \in Nat /\ b.protocolFee + kept \in Nat
  BY <1>0, <1>1
<1> HIDE DEF kept
<1>5. /\ a \in Book
      /\ a.commissions = b.commissions - amount /\ a.protocolFee = b.protocolFee + kept
      /\ a.poolFee = b.poolFee /\ a.current = b.current /\ a.historical = b.historical
  BY <1>3, <1>4 DEF Book
<1> HIDE DEF a
<1>6. ReservedFees(a) <= ReservedFees(b)
  BY <1>0, <1>1, <1>5 DEF ReservedFees
<1>7. WithinBuckets(b) => WithinBuckets(a)
  BY <1>0, <1>1, <1>2, <1>5 DEF WithinBuckets
<1>8. ReservedFees(b) <= MaxSafeAccumulation => ReservedFees(a) = ReservedFees(b)
  <2>1. ReservedFees(b) <= MaxSafeAccumulation => kept = amount
    BY <1>0, RewardAssumption DEF kept, Least, ProtocolRoom, Monus, ReservedFees
  <2> QED
    BY <1>0, <1>5, <2>1 DEF ReservedFees
<1> QED
  BY <1>5, <1>6, <1>7, <1>8 DEF a

\* The commissions of an epoch whose shares are all burned leave it whole.
LEMMA RedirectOrphanedEffect ==
  ASSUME NEW b \in Book, NEW shares \in Nat
  PROVE  LET a == RedirectOrphaned(b, shares)
         IN  /\ a \in Book
             /\ ReservedFees(a) <= ReservedFees(b)
             /\ Partitioned(b) => Partitioned(a)
             /\ a.historical = b.historical
             /\ WithinBuckets(b) => WithinBuckets(a)
             /\ ReservedFees(b) <= MaxSafeAccumulation => ReservedFees(a) = ReservedFees(b)
<1> DEFINE a == RedirectOrphaned(b, shares)
           cleared == [b EXCEPT !.dust = 0, !.current = 0]
           amount == Least(b.current, b.commissions)
<1>0. /\ b.commissions \in Nat /\ b.poolFee \in Nat /\ b.protocolFee \in Nat
      /\ b.current \in Nat /\ b.historical \in Nat /\ b.dust \in Nat /\ b.rps \in Nat
  BY BookFields
<1>1. CASE shares # 0 \/ b.current = 0
  BY <1>0, <1>1 DEF RedirectOrphaned, ReservedFees
<1>2. CASE ~(shares # 0 \/ b.current = 0)
  <2>1. a = Orphan(cleared, amount)
    BY <1>2 DEF RedirectOrphaned
  <2>2. /\ cleared \in Book
        /\ cleared.commissions = b.commissions /\ cleared.poolFee = b.poolFee
        /\ cleared.protocolFee = b.protocolFee
        /\ cleared.current = 0 /\ cleared.historical = b.historical
    BY <1>0 DEF Book
  <2>3. /\ amount \in Nat /\ amount <= b.commissions
        /\ Partitioned(b) => amount = b.current
    BY <1>0 DEF Least, Partitioned
  <2> HIDE DEF cleared, amount
  <2>4. /\ a \in Book
        /\ ReservedFees(a) <= ReservedFees(cleared)
        /\ a.commissions = cleared.commissions - amount
        /\ a.current = cleared.current /\ a.historical = cleared.historical
        /\ WithinBuckets(cleared) => WithinBuckets(a)
        /\ ReservedFees(cleared) <= MaxSafeAccumulation
             => ReservedFees(a) = ReservedFees(cleared)
    BY <2>1, <2>2, <2>3, OrphanEffect
  <2>5. ReservedFees(cleared) = ReservedFees(b)
    BY <2>2 DEF ReservedFees
  <2>6. WithinBuckets(b) => WithinBuckets(cleared)
    BY <2>2 DEF WithinBuckets
  <2> HIDE DEF a
  <2>7. Partitioned(b) => Partitioned(a)
    BY <1>0, <2>2, <2>3, <2>4 DEF Partitioned
  <2> QED
    BY <2>2, <2>4, <2>5, <2>6, <2>7 DEF a
<1> QED
  BY <1>1, <1>2

\* What the divisions left in an ended epoch leaves the historical reserve whole.
LEMMA RedirectHistoricalEffect ==
  ASSUME NEW b \in Book, NEW reserve \in Nat, Partitioned(b), reserve <= b.historical
  PROVE  LET a == RedirectHistorical(b, reserve)
         IN  /\ a \in Book
             /\ ReservedFees(a) <= ReservedFees(b)
             /\ Partitioned(a)
             /\ a.historical = b.historical - reserve
             /\ WithinBuckets(b) => WithinBuckets(a)
             /\ ReservedFees(b) <= MaxSafeAccumulation => ReservedFees(a) = ReservedFees(b)
<1> DEFINE a == RedirectHistorical(b, reserve)
           reduced == [b EXCEPT !.historical = @ - reserve]
<1>0. /\ b.commissions \in Nat /\ b.poolFee \in Nat /\ b.protocolFee \in Nat
      /\ b.current \in Nat /\ b.historical \in Nat /\ b.dust \in Nat /\ b.rps \in Nat
  BY BookFields
<1>1. Least(reserve, Least(b.historical, b.commissions)) = reserve
  BY <1>0 DEF Least, Partitioned
<1>2. a = Orphan(reduced, reserve)
  BY <1>1 DEF RedirectHistorical
<1>3. /\ reduced \in Book
      /\ reduced.commissions = b.commissions /\ reduced.poolFee = b.poolFee
      /\ reduced.protocolFee = b.protocolFee
      /\ reduced.current = b.current /\ reduced.historical = b.historical - reserve
  BY <1>0 DEF Book
<1>4. reserve <= b.commissions
  BY <1>0 DEF Partitioned
<1> HIDE DEF reduced
<1>5. /\ a \in Book
      /\ ReservedFees(a) <= ReservedFees(reduced)
      /\ a.commissions = reduced.commissions - reserve
      /\ a.current = reduced.current /\ a.historical = reduced.historical
      /\ WithinBuckets(reduced) => WithinBuckets(a)
      /\ ReservedFees(reduced) <= MaxSafeAccumulation
           => ReservedFees(a) = ReservedFees(reduced)
  BY <1>2, <1>3, <1>4, OrphanEffect
<1>6. /\ ReservedFees(reduced) = ReservedFees(b)
      /\ WithinBuckets(b) => WithinBuckets(reduced)
  BY <1>3 DEF ReservedFees, WithinBuckets
<1> HIDE DEF a
<1>7. Partitioned(a)
  BY <1>0, <1>3, <1>5 DEF Partitioned
<1> QED
  BY <1>3, <1>5, <1>6, <1>7 DEF a

\* The end of an epoch moves its commissions to the historical reserve.
LEMMA ExpireBookEffect ==
  ASSUME NEW b \in Book
  PROVE  LET a == ExpireBook(b)
         IN  /\ a \in Book
             /\ ReservedFees(a) = ReservedFees(b)
             /\ Partitioned(b) => Partitioned(a)
             /\ a.historical = b.historical + b.current
             /\ a.rps = b.rps
             /\ WithinBuckets(b) => WithinBuckets(a)
<1> DEFINE a == ExpireBook(b)
<1>0. /\ b.commissions \in Nat /\ b.poolFee \in Nat /\ b.protocolFee \in Nat
      /\ b.current \in Nat /\ b.historical \in Nat /\ b.dust \in Nat /\ b.rps \in Nat
  BY BookFields
<1>1. b.historical + b.current \in Nat
  BY <1>0
<1>2. /\ a \in Book
      /\ a.commissions = b.commissions /\ a.poolFee = b.poolFee
      /\ a.protocolFee = b.protocolFee /\ a.rps = b.rps
      /\ a.current = 0 /\ a.historical = b.historical + b.current
  BY <1>1 DEF ExpireBook, Book
<1> HIDE DEF a
<1>3. ReservedFees(a) = ReservedFees(b) /\ (WithinBuckets(b) => WithinBuckets(a))
  BY <1>2 DEF ReservedFees, WithinBuckets
<1>4. Partitioned(b) => Partitioned(a)
  BY <1>0, <1>2 DEF Partitioned
<1> QED
  BY <1>2, <1>3, <1>4 DEF a

\* A commission is paid out of the reserve of the epoch that owes it.
LEMMA PayCommissionEffect ==
  ASSUME NEW b \in Book, NEW expired \in BOOLEAN, NEW paid \in Nat, paid <= b.commissions,
         paid <= IF expired THEN b.historical ELSE b.current
  PROVE  LET a == PayCommission(b, paid, expired)
         IN  /\ a \in Book
             /\ ReservedFees(a) = ReservedFees(b) - paid
             /\ Partitioned(b) => Partitioned(a)
             /\ a.historical = IF expired THEN b.historical - paid ELSE b.historical
             /\ WithinBuckets(b) => WithinBuckets(a)
<1> DEFINE a == PayCommission(b, paid, expired)
<1>0. /\ b.commissions \in Nat /\ b.poolFee \in Nat /\ b.protocolFee \in Nat
      /\ b.current \in Nat /\ b.historical \in Nat /\ b.dust \in Nat /\ b.rps \in Nat
  BY BookFields
<1> DEFINE historical == IF expired THEN b.historical - paid ELSE b.historical
           current == IF expired THEN b.current ELSE b.current - paid
<1>1. /\ b.commissions - paid \in Nat /\ historical \in Nat /\ current \in Nat
  BY <1>0
<1>2. a = [b EXCEPT !.commissions = @ - paid, !.historical = historical, !.current = current]
  <2>1. expired => Monus(b.historical, paid) = b.historical - paid
    BY <1>0 DEF Monus
  <2>2. ~expired => Monus(b.current, paid) = b.current - paid
    BY <1>0 DEF Monus
  <2> QED
    BY <2>1, <2>2 DEF PayCommission
<1> HIDE DEF historical, current
<1>3. /\ a \in Book
      /\ a.commissions = b.commissions - paid /\ a.poolFee = b.poolFee
      /\ a.protocolFee = b.protocolFee
      /\ a.historical = historical /\ a.current = current
  BY <1>1, <1>2 DEF Book
<1> USE DEF historical, current
<1> HIDE DEF a
<1>4. ReservedFees(a) = ReservedFees(b) - paid
  BY <1>0, <1>3 DEF ReservedFees
<1>5. WithinBuckets(b) => WithinBuckets(a)
  BY <1>0, <1>3 DEF WithinBuckets
<1>6. Partitioned(b) => Partitioned(a)
  BY <1>0, <1>3 DEF Partitioned
<1> QED
  BY <1>3, <1>4, <1>5, <1>6 DEF a

=============================================================================
