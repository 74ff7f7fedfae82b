------------------------------ MODULE PoolMath ------------------------------
(***************************************************************************)
(* The integer arithmetic of the pool: OpenZeppelin's Math.mulDiv with     *)
(* its two roundings, the clamped subtraction the contract writes as a     *)
(* conditional, and the proportional scaling of fees to a cap.  No module  *)
(* variable and no RECURSIVE operator: the proofs use this module.         *)
(***************************************************************************)
EXTENDS Integers, FiniteSets

\* Math.mulDiv(a, b, d): the product is exact (512 bits), the quotient floored.
MulDiv(a, b, d) == (a * b) \div d

\* Math.mulDiv(a, b, d, Math.Rounding.Ceil)
MulDivCeil(a, b, d) == (a * b + d - 1) \div d

Least(a, b) == IF a < b THEN a ELSE b

\* a > b ? a - b : 0
Monus(a, b) == IF a > b THEN a - b ELSE 0

(***************************************************************************)
(* The sum of a natural-valued function over a finite domain, counted: one *)
(* pair <<i, k>> for each unit of f[i].  Counting keeps the sum within     *)
(* reach of the theorems about cardinality, where a fold would not be.     *)
(***************************************************************************)
Units(f) == UNION {{i} \X (1..f[i]) : i \in DOMAIN f}
SumOf(f) == Cardinality(Units(f))

-----------------------------------------------------------------------------
\* The three fees taken from a shield position, in shielded tokens.
FeeSplit == [commission : Nat, pool : Nat, protocol : Nat]
NoFees == [commission |-> 0, pool |-> 0, protocol |-> 0]
TotalFees(fees) == fees.commission + fees.pool + fees.protocol

\* Variant that rounds each scaled fee up, as the unscaled fees are.
ScaleFeesRoundingUp(fees, cap) ==
  LET total == TotalFees(fees)
  IN  IF total <= cap THEN fees
      ELSE [commission |-> MulDivCeil(fees.commission, cap, total),
            pool       |-> MulDivCeil(fees.pool, cap, total),
            protocol   |-> MulDivCeil(fees.protocol, cap, total)]

(***************************************************************************)
(* Fees above the cap are scaled down in proportion; what the divisions    *)
(* leave is handed out again, commission first, never above the fee first  *)
(* asked for.                                                              *)
(***************************************************************************)
ScaleFees(fees, cap) ==
  LET total    == TotalFees(fees)
      commission == MulDiv(fees.commission, cap, total)
      pool       == MulDiv(fees.pool, cap, total)
      protocol   == MulDiv(fees.protocol, cap, total)
      rest0 == cap - (commission + pool + protocol)
      add0  == Least(rest0, fees.commission - commission)
      rest1 == rest0 - add0
      add1  == Least(rest1, fees.pool - pool)
      rest2 == rest1 - add1
      add2  == Least(rest2, fees.protocol - protocol)
  IN  IF total <= cap THEN fees
      ELSE [commission |-> commission + add0,
            pool       |-> pool + add1,
            protocol   |-> protocol + add2]
=============================================================================
