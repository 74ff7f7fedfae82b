------------------------ MODULE SplitRiskPoolProofs ------------------------
(***************************************************************************)
(* The accounting of SplitRiskPool, for every number of receipts, amount,  *)
(* price, rate and bound: AccountingInv is inductive, and TypeOK,          *)
(* ShieldTotalsExact, CustodyCovered, CollateralCovered, ReservesPartition *)
(* and BucketsBounded follow from it.                                      *)
(***************************************************************************)
EXTENDS SplitRiskPool, ProtectorRewardsProofs

\* The assumptions on the constants, one by one
LEMMA Constants ==
  /\ MaxShieldId \in Nat /\ MaxProtectorId \in Nat
  /\ ShieldedAmounts \subseteq Nat \ {0} /\ BackingAmounts \subseteq Nat \ {0}
  /\ ShieldedScale \in Nat \ {0} /\ BackingScale \in Nat \ {0}
  /\ ShareMultiplier \in Nat \ {0} /\ ShareDivisor \in Nat \ {0}
  /\ BasisPointScale \in Nat \ {0}
  /\ CollateralRatio \in Nat /\ CommissionRate \in Nat /\ PoolFeeRate \in Nat
BY PoolAssumption

LEMMA FiniteIndices ==
  IsFiniteSet(ShieldIds) /\ IsFiniteSet(ProtectorIds) /\ IsFiniteSet(Epochs)
BY Constants, FS_Interval DEF ShieldIds, ProtectorIds, Epochs

\* The answers of the oracle and the settings in force are typed.
LEMMA Environment ==
  ASSUME StatusInv
  PROVE  /\ shieldedQuote \in Quote /\ backingQuote \in Quote
         /\ shieldedQuote.price \in Nat /\ shieldedQuote.fee \in Nat
         /\ shieldedQuote.closed \in Nat /\ backingQuote.price \in Nat
         /\ config.protocolFee \in Nat /\ config.unlockDuration \in Nat
         /\ SettlementPrice \in Nat
<1>1. shieldedQuote \in Quote /\ backingQuote \in Quote /\ config \in Config
  BY PoolAssumption DEF StatusInv
<1> QED
  BY <1>1 DEF Quote, Config, SettlementPrice

-----------------------------------------------------------------------------
(* What does not change keeps its part of the invariant *)

LEMMA ShieldInvKept ==
  ASSUME ShieldInv, UNCHANGED <<shieldVars, shieldTotals>>
  PROVE  ShieldInv'
BY DEF ShieldInv, shieldVars, shieldTotals, ShieldTotalsExact, ShieldQuantity, CapsHaveValue

LEMMA ReceiptInvKept ==
  ASSUME ReceiptInv, UNCHANGED <<protectorVars, protectorShareEpoch, totalProtectorShares>>
  PROVE  ReceiptInv'
BY DEF ReceiptInv, protectorVars, SharesOf, LiveIn

LEMMA LedgerInvKept ==
  ASSUME LedgerInv, UNCHANGED <<book, epochBook>>
  PROVE  LedgerInv'
BY DEF LedgerInv, BucketsBounded, ReservesPartition

LEMMA BackingInvKept ==
  ASSUME BackingInv,
         UNCHANGED <<totalProtectorTokens, backingCash, epochBook, totalShieldCollateralAmount>>
  PROVE  BackingInv'
BY DEF BackingInv, backingCash, CollateralCovered

LEMMA CustodyInvKept ==
  ASSUME CustodyInv, UNCHANGED <<shieldedCash, totalShieldedTokens, book>>
  PROVE  CustodyInv'
BY DEF CustodyInv, shieldedCash, ShieldedCovered

LEMMA StatusInvKept ==
  ASSUME StatusInv, UNCHANGED <<statusVars, envVars, transferIntegrityBroken>>
  PROVE  StatusInv'
BY DEF StatusInv, statusVars, envVars

-----------------------------------------------------------------------------
(* Fees *)

LEMMA FeeAmountType ==
  ASSUME NEW yield \in Nat, NEW rate \in Nat, NEW price \in Nat \ {0}
  PROVE  FeeAmount(yield, rate, price) \in Nat
<1> DEFINE usd == MulDivCeil(yield, rate, BasisPointScale)
<1>1. usd \in Nat
  BY Constants, MulDivType
<1>2. MulDivCeil(usd, ShieldedScale, price) \in Nat
  BY <1>1, Constants, MulDivType
<1> QED
  BY <1>2 DEF FeeAmount

\* The fees due are typed and never exceed the position.
LEMMA FeesDueCapped ==
  ASSUME ShieldInv, StatusInv, NEW id \in ShieldIds, NEW price \in Nat \ {0}
  PROVE  /\ FeesDue(id, price) \in FeeSplit
         /\ TotalFees(FeesDue(id, price)) <= shieldPos[id].amount
<1> DEFINE amount == shieldPos[id].amount
           yield == Monus(MulDiv(amount, price, ShieldedScale), Baseline(id))
           asked == [commission |-> FeeAmount(yield, CommissionRate, price),
                     pool       |-> FeeAmount(yield, PoolFeeRate, price),
                     protocol   |-> FeeAmount(yield, config.protocolFee, price)]
<1>1. amount \in Nat /\ Baseline(id) \in Nat
  BY DEF ShieldInv, ShieldPosition, Baseline
<1>2. MulDiv(amount, price, ShieldedScale) \in Nat
  BY <1>1, Constants, MulDivType
<1>3. yield \in Nat
  BY <1>1, <1>2 DEF Monus
<1>4. asked \in FeeSplit
  <2> HIDE DEF yield
  <2>1. /\ FeeAmount(yield, CommissionRate, price) \in Nat
        /\ FeeAmount(yield, PoolFeeRate, price) \in Nat
        /\ FeeAmount(yield, config.protocolFee, price) \in Nat
    BY <1>3, Constants, Environment, FeeAmountType
  <2> QED
    BY <2>1 DEF FeeSplit
<1>5. FeesDue(id, price) = ScaleFees(asked, amount)
  BY DEF FeesDue
<1> HIDE DEF amount, asked
<1>6. /\ ScaleFees(asked, amount) \in FeeSplit
      /\ TotalFees(ScaleFees(asked, amount)) <= amount
  BY <1>1, <1>4, ScaleFeesCapped
<1> QED
  BY <1>5, <1>6 DEF amount

\* The pool fee and the protocol fee are reserved in full.
LEMMA BookWithFeesEffect ==
  ASSUME book \in Book, NEW fees \in FeeSplit
  PROVE  LET b == BookWithFees(fees)
         IN  /\ b \in Book
             /\ ReservedFees(b) = ReservedFees(book) + fees.pool + fees.protocol
             /\ Partitioned(book) => Partitioned(b)
             /\ b.historical = book.historical
             /\ b.commissions = book.commissions
<1> DEFINE b == BookWithFees(fees)
<1>1. /\ book.poolFee \in Nat /\ book.protocolFee \in Nat /\ book.commissions \in Nat
      /\ fees.pool \in Nat /\ fees.protocol \in Nat
  BY DEF FeeSplit, Book
<1>2. book.poolFee + fees.pool \in Nat /\ book.protocolFee + fees.protocol \in Nat
  BY <1>1
<1>3. /\ b \in Book
      /\ b.poolFee = book.poolFee + fees.pool
      /\ b.protocolFee = book.protocolFee + fees.protocol
      /\ b.commissions = book.commissions /\ b.historical = book.historical
      /\ b.current = book.current
  BY <1>2 DEF BookWithFees, Book
<1> HIDE DEF b
<1>4. ReservedFees(b) = ReservedFees(book) + fees.pool + fees.protocol
  BY <1>1, <1>3 DEF ReservedFees
<1>5. Partitioned(book) => Partitioned(b)
  BY <1>3 DEF Partitioned
<1> QED
  BY <1>3, <1>4, <1>5 DEF b

\* Settling fees moves tokens from the receipt to the buckets, one for one, within
\* the position and within the caps, whether the token still pays in full or not.
LEMMA SettleFeesEffect ==
  ASSUME ShieldInv, ReceiptInv, LedgerInv, StatusInv, totalProtectorTokens \in Nat,
         NEW id \in ShieldIds, NEW price \in Nat, CanSettleFees(id, price)
  PROVE  LET settled == SettleFees(id, price)
         IN  /\ settled.fees \in Nat /\ settled.fees <= shieldPos[id].amount
             /\ settled.baseline \in Nat
             /\ settled.book \in Book
             /\ ReservedFees(settled.book) = ReservedFees(book) + settled.fees
             /\ Partitioned(settled.book)
             /\ settled.book.historical = book.historical
             /\ WithinBuckets(settled.book)
<1> DEFINE settled == SettleFees(id, price)
           amount == shieldPos[id].amount
           fees == IF transferIntegrityBroken THEN NoFees ELSE FeesDue(id, price)
           shares == totalProtectorShares
           tokens == totalProtectorTokens
           charged == BookWithFees(fees)
           reward == fees.commission
           after == AccumulateReward(charged, shares, tokens, reward)
<1>1. amount \in Nat /\ Baseline(id) \in Nat /\ feeBaseline[id] \in Nat
  BY DEF ShieldInv, ShieldPosition, Baseline
<1>2. fees \in FeeSplit /\ TotalFees(fees) <= amount
  <2>1. CASE transferIntegrityBroken
    BY <1>1, <2>1 DEF NoFees, FeeSplit, TotalFees
  <2>2. CASE ~transferIntegrityBroken
    BY <2>2, FeesDueCapped DEF CanSettleFees
  <2> QED
    BY <2>1, <2>2
<1>3. /\ fees.commission \in Nat /\ fees.pool \in Nat /\ fees.protocol \in Nat
      /\ TotalFees(fees) \in Nat
      /\ TotalFees(fees) = fees.commission + fees.pool + fees.protocol
  BY <1>2 DEF FeeSplit, TotalFees
<1>4. book \in Book /\ Partitioned(book) /\ WithinBuckets(book) /\ ReservedFees(book) \in Nat
  BY BookFields DEF LedgerInv, ReservesPartition, BucketsBounded
<1>5. shares \in Nat /\ tokens \in Nat
  BY FiniteIndices, SumType DEF ReceiptInv, SharesOf, ProtectorPosition
<1>6. WithinBuckets(charged) /\ RewardFits(charged, shares, tokens, fees.commission)
  <2>1. CASE transferIntegrityBroken
    <3>1. fees = NoFees
      BY <2>1
    <3>2. charged.poolFee = book.poolFee /\ charged.protocolFee = book.protocolFee
          /\ charged.commissions = book.commissions
      BY <1>4, <3>1 DEF BookWithFees, NoFees, Book
    <3> HIDE DEF charged, fees
    <3> QED
      BY <1>4, <3>1, <3>2 DEF WithinBuckets, RewardFits, NoFees
  <2>2. CASE ~transferIntegrityBroken
    <3>1. charged.commissions = book.commissions
      BY <1>2, <1>4, BookWithFeesEffect
    <3> QED
      BY <1>4, <2>2, <3>1 DEF CanSettleFees, WithinBuckets
  <2> QED
    BY <2>1, <2>2
<1> HIDE DEF fees, shares, tokens
<1>7. /\ charged \in Book
      /\ ReservedFees(charged) = ReservedFees(book) + fees.pool + fees.protocol
      /\ Partitioned(charged) /\ charged.historical = book.historical
  BY <1>2, <1>4, BookWithFeesEffect
<1>8. /\ after \in Book
      /\ ReservedFees(after) = ReservedFees(charged) + reward
      /\ Partitioned(after) /\ after.historical = charged.historical
      /\ WithinBuckets(after)
  <2>1. reward \in Nat /\ WithinBuckets(charged) /\ RewardFits(charged, shares, tokens, reward)
    BY <1>3, <1>6
  <2> HIDE DEF charged, reward
  <2> QED
    BY <1>5, <1>7, <2>1, AccumulateRewardEffect
<1>9. settled.fees = TotalFees(fees) /\ settled.book = after
  BY DEF SettleFees, fees, shares, tokens
<1>10. settled.baseline \in Nat
  <2> DEFINE left == amount - TotalFees(fees)
             at == IF transferIntegrityBroken THEN shieldedQuote.fee ELSE price
             reached == MulDiv(left, at, ShieldedScale)
  <2>1. left \in Nat /\ at \in Nat
    BY <1>1, <1>2, <1>3, Environment
  <2>2. reached \in Nat
    BY <2>1, Constants, MulDivType
  <2>3. settled.baseline \in {feeBaseline[id], reached, Baseline(id)}
    BY DEF SettleFees, fees
  <2> QED
    BY <1>1, <2>2, <2>3
<1> HIDE DEF settled, after
<1>11. ReservedFees(after) = ReservedFees(book) + TotalFees(fees)
  BY <1>3, <1>4, <1>7, <1>8
<1> QED
  BY <1>2, <1>3, <1>7, <1>8, <1>9, <1>10, <1>11 DEF settled

-----------------------------------------------------------------------------
(* Claims *)

\* The reserve of one epoch is part of the historical reserve.
LEMMA ReserveBound ==
  ASSUME LedgerInv, NEW e \in Epochs
  PROVE  epochBook[e].reserve \in Nat /\ epochBook[e].reserve <= book.historical
<1> DEFINE f == [k \in Epochs |-> epochBook[k].reserve]
<1>1. f \in [Epochs -> Nat]
  BY DEF LedgerInv, EpochEntry
<1>2. f[e] <= SumOf(f)
  BY <1>1, FiniteIndices, SumBound
<1> QED
  BY <1>1, <1>2 DEF LedgerInv, ReservesPartition

\* What a receipt has earned, and what it may take, whatever book it is read from.
LEMMA EarnedType ==
  ASSUME ReceiptInv, epochBook \in [Epochs -> EpochEntry],
         NEW id \in ProtectorIds, NEW b \in Book
  PROVE  Earned(id, b) \in Nat
<1> DEFINE pos == protectorPos[id]
           rps == IF Expired(id) THEN epochBook[pos.epoch].finalRps ELSE b.rps
<1>1. pos.shares \in Nat /\ pos.debt + pos.claimed \in Nat /\ pos.epoch \in Epochs
  BY DEF ReceiptInv, ProtectorPosition
<1>2. rps \in Nat
  BY <1>1, BookFields DEF EpochEntry
<1>3. MulDiv(rps, pos.shares, RewardPrecision) \in Nat
  <2> HIDE DEF rps, pos
  <2> QED
    BY <1>1, <1>2, MulDivType, RewardAssumption
<1>4. Earned(id, b) = Monus(MulDiv(rps, pos.shares, RewardPrecision), pos.debt + pos.claimed)
  BY DEF Earned
<1> HIDE DEF rps, pos
<1> QED
  BY <1>1, <1>3, <1>4 DEF Monus

(***************************************************************************)
(* Settling a claim pays at most what is reserved; the ended epoch and the *)
(* historical reserve fall together, and the receipt keeps its shares.     *)
(***************************************************************************)
LEMMA ClaimEffect ==
  ASSUME ReceiptInv, LedgerInv, totalProtectorTokens \in Nat, NEW id \in protectorLive
  PROVE  LET claim == ClaimOutcome(id)
             pos == protectorPos[id]
             entry == epochBook[pos.epoch]
         IN  /\ claim.paid \in Nat
             /\ claim.book \in Book
             /\ ReservedFees(claim.book) <= ReservedFees(book) - claim.paid
             /\ ReservedFees(book) <= MaxSafeAccumulation
                  => ReservedFees(claim.book) = ReservedFees(book) - claim.paid
             /\ Partitioned(claim.book) /\ WithinBuckets(claim.book)
             /\ claim.entry \in EpochEntry
             /\ claim.entry.backing = entry.backing
             /\ claim.entry.backingShares = entry.backingShares
             /\ claim.book.historical - claim.entry.reserve = book.historical - entry.reserve
             /\ claim.pos \in ProtectorPosition
             /\ claim.pos.shares = pos.shares /\ claim.pos.epoch = pos.epoch
             /\ ~Expired(id) => claim.book.historical = book.historical
<1> DEFINE claim == ClaimOutcome(id)
           pos == protectorPos[id]
           entry == epochBook[pos.epoch]
           b == DistributeDust(book, totalProtectorShares, totalProtectorTokens)
           paid == Claimable(id, b)
           settles == Expired(id) /\ ~pos.settled
           last == settles /\ entry.shares # 0 /\ pos.shares >= entry.shares
           reserve == IF Expired(id) THEN entry.reserve - paid ELSE entry.reserve
           paidBook == PayCommission(b, paid, Expired(id))
           final == IF last THEN RedirectHistorical(paidBook, reserve) ELSE paidBook
           shares == IF settles THEN Monus(entry.shares, pos.shares) ELSE entry.shares
<1>1. id \in ProtectorIds /\ pos \in ProtectorPosition
  BY DEF ReceiptInv
<1>2. /\ pos.epoch \in Epochs /\ pos.shares \in Nat /\ pos.claimed \in Nat
      /\ entry \in EpochEntry
  BY <1>1 DEF ProtectorPosition, LedgerInv
<1>3. /\ entry.reserve \in Nat /\ entry.shares \in Nat /\ entry.backing \in Nat
      /\ entry.backingShares \in Nat /\ entry.finalRps \in Nat
      /\ entry.reserve <= book.historical
  BY <1>2, ReserveBound DEF EpochEntry
<1>4. /\ book \in Book /\ Partitioned(book) /\ WithinBuckets(book)
      /\ epochBook \in [Epochs -> EpochEntry]
  BY DEF LedgerInv, ReservesPartition, BucketsBounded
<1>5. totalProtectorShares \in Nat
  BY FiniteIndices, SumType DEF ReceiptInv, SharesOf, ProtectorPosition
<1>6. /\ b \in Book
      /\ b.commissions = book.commissions /\ b.poolFee = book.poolFee
      /\ b.protocolFee = book.protocolFee /\ b.current = book.current
      /\ b.historical = book.historical
  BY <1>4, <1>5, DistributeDustEffect
<1>7. /\ ReservedFees(b) = ReservedFees(book) /\ ReservedFees(b) \in Nat
      /\ Partitioned(b) /\ WithinBuckets(b)
      /\ b.commissions \in Nat /\ b.current \in Nat /\ b.historical \in Nat
  BY <1>4, <1>6, BookFields DEF ReservedFees, Partitioned, WithinBuckets
<1>8. Expired(id) \in BOOLEAN
  BY DEF Expired
<1>9. /\ paid \in Nat /\ paid <= b.commissions
      /\ IF Expired(id) THEN paid <= entry.reserve ELSE paid <= b.current
  <2> HIDE DEF b
  <2>1. Earned(id, b) \in Nat
    BY <1>1, <1>4, <1>6, EarnedType
  <2> QED
    BY <1>3, <1>7, <2>1 DEF Claimable, Least
<1> HIDE DEF b, paid
<1>10. paid <= IF Expired(id) THEN b.historical ELSE b.current
  BY <1>3, <1>6, <1>7, <1>9
<1>11. /\ paidBook \in Book
       /\ ReservedFees(paidBook) = ReservedFees(b) - paid
       /\ Partitioned(paidBook) /\ WithinBuckets(paidBook)
       /\ paidBook.historical = IF Expired(id) THEN b.historical - paid ELSE b.historical
  BY <1>6, <1>7, <1>8, <1>9, <1>10, PayCommissionEffect
<1> HIDE DEF paidBook
<1>12. reserve \in Nat /\ (last => reserve <= paidBook.historical)
  BY <1>3, <1>6, <1>7, <1>9, <1>11
<1>13. /\ final \in Book
       /\ ReservedFees(final) <= ReservedFees(paidBook)
       /\ ReservedFees(paidBook) <= MaxSafeAccumulation
            => ReservedFees(final) = ReservedFees(paidBook)
       /\ Partitioned(final) /\ WithinBuckets(final)
       /\ final.historical = IF last THEN paidBook.historical - reserve ELSE paidBook.historical
  <2>1. ReservedFees(paidBook) \in Nat
    BY <1>11, BookFields
  <2>2. CASE last
    <3> HIDE DEF reserve
    <3> QED
      BY <1>11, <1>12, <2>2, RedirectHistoricalEffect
  <2>3. CASE ~last
    BY <1>11, <2>1, <2>3
  <2> QED
    BY <2>2, <2>3
<1>14. shares \in Nat
  BY <1>2, <1>3 DEF Monus
<1>15. /\ claim.paid = paid /\ claim.book = final
       /\ claim.entry = [entry EXCEPT !.reserve = IF last THEN 0 ELSE reserve, !.shares = shares]
       /\ claim.pos = [pos EXCEPT !.claimed = @ + paid, !.settled = @ \/ settles]
  BY DEF ClaimOutcome, b, paid, paidBook
<1>16. /\ claim.entry \in EpochEntry
       /\ claim.entry.backing = entry.backing
       /\ claim.entry.backingShares = entry.backingShares
       /\ claim.entry.reserve = IF last THEN 0 ELSE reserve
  <2> DEFINE rest == IF last THEN 0 ELSE reserve
  <2>1. rest \in Nat
    BY <1>12
  <2>2. claim.entry = [entry EXCEPT !.reserve = rest, !.shares = shares]
    BY <1>15
  <2> HIDE DEF rest, shares, entry, claim
  <2>3. /\ claim.entry \in EpochEntry
        /\ claim.entry.backing = entry.backing
        /\ claim.entry.backingShares = entry.backingShares
        /\ claim.entry.reserve = rest
    BY <1>2, <1>14, <2>1, <2>2 DEF EpochEntry
  <2> QED
    BY <2>3 DEF rest
<1>17. /\ claim.pos \in ProtectorPosition
       /\ claim.pos.shares = pos.shares /\ claim.pos.epoch = pos.epoch
  <2> DEFINE claimed == pos.claimed + paid
             ended == pos.settled \/ settles
  <2>1. claimed \in Nat /\ ended \in BOOLEAN
    BY <1>1, <1>2, <1>9 DEF ProtectorPosition
  <2>2. claim.pos = [pos EXCEPT !.claimed = claimed, !.settled = ended]
    BY <1>15
  <2> HIDE DEF claimed, ended, pos, claim
  <2> QED
    BY <1>1, <2>1, <2>2 DEF ProtectorPosition
<1>18. claim.book.historical - claim.entry.reserve = book.historical - entry.reserve
  BY <1>3, <1>6, <1>7, <1>9, <1>11, <1>12, <1>13, <1>15, <1>16
<1>19. ~Expired(id) => claim.book.historical = book.historical
  BY <1>6, <1>11, <1>13, <1>15
<1> HIDE DEF claim, final
<1>20. /\ ReservedFees(claim.book) <= ReservedFees(book) - claim.paid
       /\ ReservedFees(book) <= MaxSafeAccumulation
            => ReservedFees(claim.book) = ReservedFees(book) - claim.paid
  <2>1. ReservedFees(final) \in Nat
    BY <1>13, BookFields
  <2> QED
    BY <1>7, <1>9, <1>11, <1>13, <1>15, <2>1, RewardAssumption
<1> QED
  BY <1>9, <1>13, <1>15, <1>16, <1>17, <1>18, <1>19, <1>20 DEF claim

-----------------------------------------------------------------------------
(* Sums over receipts *)

\* The sum of one field over the shield receipts, as a function of the positions
FieldSum(positions, field) == SumOf([k \in ShieldIds |-> positions[k][field]])

\* One shield receipt replaced: each total moves by what the receipt moved.
LEMMA ShieldSumChange ==
  ASSUME NEW p \in [ShieldIds -> ShieldPosition], NEW q \in [ShieldIds -> ShieldPosition],
         NEW i \in ShieldIds, \A j \in ShieldIds \ {i} : q[j] = p[j],
         NEW field \in {"amount", "valueAtDeposit", "collateralAmount"}
  PROVE  /\ FieldSum(p, field) \in Nat /\ p[i][field] \in Nat /\ q[i][field] \in Nat
         /\ p[i][field] <= FieldSum(p, field)
         /\ FieldSum(q, field) = FieldSum(p, field) - p[i][field] + q[i][field]
<1> DEFINE f == [k \in ShieldIds |-> p[k][field]]
           g == [k \in ShieldIds |-> q[k][field]]
<1>1. f \in [ShieldIds -> Nat] /\ g \in [ShieldIds -> Nat]
  BY DEF ShieldPosition
<1>2. \A j \in ShieldIds \ {i} : g[j] = f[j]
  OBVIOUS
<1>3. f[i] = p[i][field] /\ g[i] = q[i][field]
  OBVIOUS
<1> HIDE DEF f, g
<1>4. /\ SumOf(f) \in Nat /\ f[i] <= SumOf(f)
      /\ SumOf(g) = SumOf(f) - f[i] + g[i]
  BY <1>1, <1>2, FiniteIndices, SumType, SumBound, SumChange
<1>5. FieldSum(p, field) = SumOf(f) /\ FieldSum(q, field) = SumOf(g)
  BY DEF FieldSum, f, g
<1>6. p[i][field] \in Nat /\ q[i][field] \in Nat
  BY <1>1, <1>3
<1> QED
  BY <1>3, <1>4, <1>5, <1>6

\* The shares of the receipts of one epoch, as a function of the two maps they rest on
ShareAt(live, positions, e, i) ==
  IF i \in live /\ positions[i].epoch = e THEN positions[i].shares ELSE 0
SharesIn(live, positions, e) ==
  SumOf([i \in ProtectorIds |-> ShareAt(live, positions, e, i)])

\* One protector receipt replaced: the shares of an epoch move by what it moved.
LEMMA ShareSumChange ==
  ASSUME NEW p \in [ProtectorIds -> ProtectorPosition],
         NEW q \in [ProtectorIds -> ProtectorPosition],
         NEW lp, NEW lq, NEW e, NEW i \in ProtectorIds,
         \A j \in ProtectorIds \ {i} : ShareAt(lq, q, e, j) = ShareAt(lp, p, e, j)
  PROVE  /\ SharesIn(lp, p, e) \in Nat
         /\ ShareAt(lp, p, e, i) \in Nat /\ ShareAt(lq, q, e, i) \in Nat
         /\ ShareAt(lp, p, e, i) <= SharesIn(lp, p, e)
         /\ SharesIn(lq, q, e) = SharesIn(lp, p, e) - ShareAt(lp, p, e, i) + ShareAt(lq, q, e, i)
<1> DEFINE f == [k \in ProtectorIds |-> ShareAt(lp, p, e, k)]
           g == [k \in ProtectorIds |-> ShareAt(lq, q, e, k)]
<1>1. f \in [ProtectorIds -> Nat] /\ g \in [ProtectorIds -> Nat]
  BY DEF ProtectorPosition, ShareAt
<1>2. \A j \in ProtectorIds \ {i} : g[j] = f[j]
  OBVIOUS
<1>3. /\ f[i] = ShareAt(lp, p, e, i) /\ g[i] = ShareAt(lq, q, e, i)
      /\ SharesIn(lp, p, e) = SumOf(f) /\ SharesIn(lq, q, e) = SumOf(g)
  BY DEF SharesIn
<1> HIDE DEF f, g
<1>4. /\ SumOf(f) \in Nat /\ f[i] <= SumOf(f)
      /\ SumOf(g) = SumOf(f) - f[i] + g[i]
  BY <1>1, <1>2, FiniteIndices, SumType, SumBound, SumChange
<1> QED
  BY <1>1, <1>3, <1>4

\* The model's count of an epoch's shares is that sum.
LEMMA SharesOfLive ==
  ASSUME ReceiptInv
  PROVE  /\ SharesOf(LiveIn(protectorShareEpoch))
               = SharesIn(protectorLive, protectorPos, protectorShareEpoch)
         /\ totalProtectorShares = SharesIn(protectorLive, protectorPos, protectorShareEpoch)
<1>1. \A i \in ProtectorIds :
        i \in LiveIn(protectorShareEpoch)
          <=> i \in protectorLive /\ protectorPos[i].epoch = protectorShareEpoch
  BY DEF LiveIn
<1> QED
  BY <1>1 DEF SharesOf, SharesIn, ShareAt, ReceiptInv

-----------------------------------------------------------------------------
(* The shield side *)

\* The totals are natural numbers, and no receipt exceeds them.
LEMMA ShieldTotalsTyped ==
  ASSUME ShieldInv
  PROVE  /\ totalShieldedTokens \in Nat /\ totalValueAtDeposit \in Nat
         /\ totalShieldCollateralAmount \in Nat
         /\ \A i \in ShieldIds :
              /\ shieldPos[i].amount \in Nat /\ shieldPos[i].amount <= totalShieldedTokens
              /\ shieldPos[i].valueAtDeposit \in Nat
              /\ shieldPos[i].valueAtDeposit <= totalValueAtDeposit
              /\ shieldPos[i].collateralAmount \in Nat
              /\ shieldPos[i].collateralAmount <= totalShieldCollateralAmount
<1> DEFINE f(field) == [k \in ShieldIds |-> shieldPos[k][field]]
<1>1. /\ f("amount") \in [ShieldIds -> Nat] /\ f("valueAtDeposit") \in [ShieldIds -> Nat]
      /\ f("collateralAmount") \in [ShieldIds -> Nat]
  BY DEF ShieldInv, ShieldPosition
<1>2. /\ totalShieldedTokens = SumOf(f("amount"))
      /\ totalValueAtDeposit = SumOf(f("valueAtDeposit"))
      /\ totalShieldCollateralAmount = SumOf(f("collateralAmount"))
  BY DEF ShieldInv, ShieldTotalsExact, ShieldQuantity
<1>3. \A i \in ShieldIds : /\ f("amount")[i] = shieldPos[i].amount
                           /\ f("valueAtDeposit")[i] = shieldPos[i].valueAtDeposit
                           /\ f("collateralAmount")[i] = shieldPos[i].collateralAmount
  OBVIOUS
<1> HIDE DEF f
<1> QED
  BY <1>1, <1>2, <1>3, FiniteIndices, SumType, SumBound

\* Without deposit value no collateral is locked: the test that ends an epoch on dust
\* reads the value only.
LEMMA NoValueNoCap ==
  ASSUME ShieldInv, totalValueAtDeposit = 0
  PROVE  totalShieldCollateralAmount = 0
<1> DEFINE f == [k \in ShieldIds |-> shieldPos[k]["collateralAmount"]]
<1>1. \A i \in ShieldIds : shieldPos[i].valueAtDeposit = 0
  BY ShieldTotalsTyped
<1>2. f \in [ShieldIds -> Nat] /\ \A i \in ShieldIds : f[i] = 0
  BY <1>1 DEF ShieldInv, CapsHaveValue, ShieldPosition
<1>3. totalShieldCollateralAmount = SumOf(f)
  BY DEF ShieldInv, ShieldTotalsExact, ShieldQuantity
<1> HIDE DEF f
<1> QED
  BY <1>2, <1>3, FiniteIndices, SumZero

(***************************************************************************)
(* One receipt rewritten, the totals moved by the difference: the common   *)
(* part of a deposit, a fee claim and an exit.                             *)
(***************************************************************************)
LEMMA ShieldRewrite ==
  ASSUME ShieldInv, NEW i \in ShieldIds, NEW new \in ShieldPosition,
         NEW p \in [ShieldIds -> ShieldPosition],
         p = [shieldPos EXCEPT ![i] = new]
  PROVE  \A field \in {"amount", "valueAtDeposit", "collateralAmount"} :
           FieldSum(p, field) = ShieldQuantity(field) - shieldPos[i][field] + new[field]
<1>1. shieldPos \in [ShieldIds -> ShieldPosition]
  BY DEF ShieldInv
<1>2. p[i] = new /\ \A j \in ShieldIds \ {i} : p[j] = shieldPos[j]
  BY <1>1
<1> TAKE field \in {"amount", "valueAtDeposit", "collateralAmount"}
<1>3. ShieldQuantity(field) = FieldSum(shieldPos, field)
  BY DEF ShieldQuantity, FieldSum
<1>4. FieldSum(p, field) = FieldSum(shieldPos, field) - shieldPos[i][field] + p[i][field]
  BY ONLY <1>1, <1>2, ShieldSumChange, i \in ShieldIds, p \in [ShieldIds -> ShieldPosition],
     field \in {"amount", "valueAtDeposit", "collateralAmount"}, Zenon
<1> QED
  BY <1>2, <1>3, <1>4

LEMMA ShieldQuantities ==
  ASSUME ShieldInv
  PROVE  /\ ShieldQuantity("amount") = totalShieldedTokens
         /\ ShieldQuantity("valueAtDeposit") = totalValueAtDeposit
         /\ ShieldQuantity("collateralAmount") = totalShieldCollateralAmount
         /\ \A field \in {"amount", "valueAtDeposit", "collateralAmount"} :
              ShieldQuantity(field) \in Nat
<1>1. /\ ShieldQuantity("amount") = totalShieldedTokens
      /\ ShieldQuantity("valueAtDeposit") = totalValueAtDeposit
      /\ ShieldQuantity("collateralAmount") = totalShieldCollateralAmount
  BY DEF ShieldInv, ShieldTotalsExact
<1> QED
  BY <1>1, ShieldTotalsTyped

\* A burned receipt takes exactly its own part out of each total.
LEMMA BurnShieldKeepsShieldInv ==
  ASSUME ShieldInv, NEW id \in shieldLive, BurnShield(id), UNCHANGED nextShieldId,
         totalShieldedTokens' = totalShieldedTokens - shieldPos[id].amount,
         totalValueAtDeposit' = totalValueAtDeposit - shieldPos[id].valueAtDeposit,
         totalShieldCollateralAmount'
           = totalShieldCollateralAmount - shieldPos[id].collateralAmount
  PROVE  ShieldInv'
<1>1. id \in ShieldIds /\ NoShield \in ShieldPosition
  BY DEF ShieldInv, NoShield, ShieldPosition
<1>2. /\ shieldPos' = [shieldPos EXCEPT ![id] = NoShield]
      /\ shieldPos' \in [ShieldIds -> ShieldPosition]
  BY <1>1 DEF BurnShield, ShieldInv
<1>3. \A field \in {"amount", "valueAtDeposit", "collateralAmount"} :
        FieldSum(shieldPos', field)
          = ShieldQuantity(field) - shieldPos[id][field] + NoShield[field]
  BY <1>1, <1>2, ShieldRewrite
<1>4. /\ totalShieldedTokens' = ShieldQuantity("amount")'
      /\ totalValueAtDeposit' = ShieldQuantity("valueAtDeposit")'
      /\ totalShieldCollateralAmount' = ShieldQuantity("collateralAmount")'
  <2>1. \A field \in {"amount", "valueAtDeposit", "collateralAmount"} :
          ShieldQuantity(field)' = ShieldQuantity(field) - shieldPos[id][field] + 0
    BY <1>3 DEF ShieldQuantity, FieldSum, NoShield
  <2> QED
    BY <1>1, <2>1, ShieldQuantities, ShieldTotalsTyped
<1>5. \A i \in ShieldIds \ shieldLive' : shieldPos'[i] = NoShield
  BY <1>1, <1>2 DEF BurnShield, ShieldInv, ShieldTotalsExact
<1>6. CapsHaveValue'
  BY <1>1, <1>2 DEF ShieldInv, CapsHaveValue, NoShield
<1>7. /\ shieldLive' \subseteq ShieldIds /\ \A i \in shieldLive' : i < nextShieldId'
      /\ feeBaseline' \in [ShieldIds -> Nat] /\ lastClaim' \in [ShieldIds -> Nat]
      /\ nextShieldId' \in 1..(MaxShieldId + 1)
  BY DEF BurnShield, ShieldInv
<1> QED
  BY <1>2, <1>4, <1>5, <1>6, <1>7 DEF ShieldInv, ShieldTotalsExact

\* The book rewritten within one epoch
LEMMA LedgerRewritten ==
  ASSUME LedgerInv, UNCHANGED epochBook, book' \in Book, Partitioned(book'),
         WithinBuckets(book'), book'.historical = book.historical
  PROVE  LedgerInv'
BY DEF LedgerInv, BucketsBounded, ReservesPartition, Partitioned, WithinBuckets

\* Settling fees keeps the shielded tokens covered, by what has left the receipts.
LEMMA CustodyAfterFees ==
  ASSUME CustodyInv, book \in Book, NEW fees \in Nat, NEW paid \in Nat, NEW freed \in Nat,
         totalShieldedTokens \in Nat, freed <= totalShieldedTokens,
         book' \in Book, ReservedFees(book') = ReservedFees(book) + fees,
         freed = fees + paid, paid <= shieldedTokenBalance,
         totalShieldedTokens' = totalShieldedTokens - freed,
         shieldedTokenBalance' = shieldedTokenBalance - paid,
         heldShielded' = heldShielded - paid
  PROVE  CustodyInv'
<1>1. ReservedFees(book) \in Nat /\ ReservedFees(book)' = ReservedFees(book')
  BY BookFields DEF ReservedFees
<1>2. /\ shieldedTokenBalance \in Nat /\ heldShielded \in Nat
      /\ heldShielded >= shieldedTokenBalance
      /\ shieldedTokenBalance >= totalShieldedTokens + ReservedFees(book)
  BY DEF CustodyInv, ShieldedCovered
<1>3. /\ shieldedTokenBalance' \in Nat /\ heldShielded' \in Nat
      /\ heldShielded' >= shieldedTokenBalance'
  BY <1>2
<1>4. shieldedTokenBalance' >= totalShieldedTokens' + ReservedFees(book)'
  BY <1>1, <1>2
<1> QED
  BY <1>3, <1>4 DEF CustodyInv, ShieldedCovered

LEMMA StatusAfterPayout ==
  ASSUME StatusInv, NEW payout, MarkTransferIntegrity(payout), UNCHANGED <<statusVars, envVars>>
  PROVE  StatusInv'
<1>1. transferIntegrityBroken' \in BOOLEAN
  BY DEF MarkTransferIntegrity, StatusInv
<1> QED
  BY <1>1 DEF StatusInv, statusVars, envVars

LEMMA SameAssetExitKeepsInv ==
  ASSUME AccountingInv, NEW id \in ShieldIds, ShieldedWithdrawSameAsset(id)
  PROVE  AccountingInv'
<1> DEFINE pos == shieldPos[id]
           settled == SettleFees(id, SettlementPrice)
           payout == pos.amount - settled.fees
<1>1. /\ ShieldInv /\ ReceiptInv /\ LedgerInv /\ BackingInv /\ CustodyInv /\ StatusInv
      /\ totalProtectorTokens \in Nat
  BY DEF AccountingInv, BackingInv
<1>2. id \in shieldLive /\ CanSettleFees(id, SettlementPrice)
      /\ payout <= WithdrawableBalance(settled.book)
  BY DEF ShieldedWithdrawSameAsset, SameAssetExitAllowed
<1>3. /\ settled.fees \in Nat /\ settled.fees <= pos.amount /\ settled.book \in Book
      /\ ReservedFees(settled.book) = ReservedFees(book) + settled.fees
      /\ Partitioned(settled.book) /\ WithinBuckets(settled.book)
      /\ settled.book.historical = book.historical
  BY <1>1, <1>2, Environment, SettleFeesEffect
<1>4. /\ pos.amount \in Nat /\ pos.amount <= totalShieldedTokens /\ totalShieldedTokens \in Nat
      /\ pos.collateralAmount \in Nat /\ pos.collateralAmount <= totalShieldCollateralAmount
      /\ totalShieldCollateralAmount \in Nat
  BY <1>1, ShieldTotalsTyped
<1> HIDE DEF settled
<1>5. payout \in Nat /\ payout <= shieldedTokenBalance
  <2>1. ReservedFees(settled.book) \in Nat /\ shieldedTokenBalance \in Nat
    BY <1>1, <1>3, BookFields DEF CustodyInv
  <2> QED
    BY <1>2, <1>3, <1>4, <2>1 DEF WithdrawableBalance, Monus
<1>6. /\ BurnShield(id) /\ book' = settled.book
      /\ totalShieldedTokens' = totalShieldedTokens - pos.amount
      /\ totalValueAtDeposit' = totalValueAtDeposit - pos.valueAtDeposit
      /\ totalShieldCollateralAmount' = totalShieldCollateralAmount - pos.collateralAmount
      /\ shieldedTokenBalance' = shieldedTokenBalance - payout
      /\ heldShielded' = heldShielded - payout
      /\ MarkTransferIntegrity(payout)
      /\ UNCHANGED <<nextShieldId, protectorVars, epochVars, protectorTotals,
                     backingCash, statusVars, envVars>>
  BY DEF ShieldedWithdrawSameAsset, settled
<1>7. ShieldInv'
  BY <1>1, <1>2, <1>6, BurnShieldKeepsShieldInv
<1>8. ReceiptInv'
  BY <1>1, <1>6, ReceiptInvKept DEF epochVars, protectorTotals
<1>9. LedgerInv'
  BY <1>1, <1>3, <1>6, LedgerRewritten DEF epochVars
<1>10. BackingInv'
  BY <1>1, <1>4, <1>6 DEF BackingInv, CollateralCovered, epochVars, protectorTotals, backingCash
<1>11. CustodyInv'
  BY <1>1, <1>3, <1>4, <1>5, <1>6, CustodyAfterFees DEF LedgerInv
<1>12. StatusInv'
  BY <1>1, <1>6, StatusAfterPayout
<1> QED
  BY <1>7, <1>8, <1>9, <1>10, <1>11, <1>12 DEF AccountingInv

-----------------------------------------------------------------------------
(* The end of an epoch *)

\* The sum of one field over the epochs
EpochSum(entries, field) == SumOf([e \in Epochs |-> entries[e][field]])

LEMMA EpochSumChange ==
  ASSUME NEW p \in [Epochs -> EpochEntry], NEW q \in [Epochs -> EpochEntry], NEW i \in Epochs,
         \A j \in Epochs \ {i} : q[j] = p[j], NEW field \in {"reserve", "backing"}
  PROVE  /\ EpochSum(p, field) \in Nat /\ p[i][field] \in Nat /\ q[i][field] \in Nat
         /\ p[i][field] <= EpochSum(p, field)
         /\ EpochSum(q, field) = EpochSum(p, field) - p[i][field] + q[i][field]
<1> DEFINE f == [k \in Epochs |-> p[k][field]]
           g == [k \in Epochs |-> q[k][field]]
<1>1. f \in [Epochs -> Nat] /\ g \in [Epochs -> Nat]
  BY DEF EpochEntry
<1>2. \A j \in Epochs \ {i} : g[j] = f[j]
  OBVIOUS
<1>3. f[i] = p[i][field] /\ g[i] = q[i][field]
  OBVIOUS
<1> HIDE DEF f, g
<1>4. /\ SumOf(f) \in Nat /\ f[i] <= SumOf(f)
      /\ SumOf(g) = SumOf(f) - f[i] + g[i]
  BY <1>1, <1>2, FiniteIndices, SumType, SumBound, SumChange
<1>5. EpochSum(p, field) = SumOf(f) /\ EpochSum(q, field) = SumOf(g)
  BY DEF EpochSum, f, g
<1>6. p[i][field] \in Nat /\ q[i][field] \in Nat
  BY <1>1, <1>3
<1> QED
  BY <1>3, <1>4, <1>5, <1>6

\* One epoch rewritten: both sums move by what its entry moved.
LEMMA EpochRewrite ==
  ASSUME LedgerInv, NEW i \in Epochs, NEW new \in EpochEntry,
         epochBook' = [epochBook EXCEPT ![i] = new]
  PROVE  /\ epochBook' \in [Epochs -> EpochEntry]
         /\ EpochSum(epochBook, "reserve") = book.historical
         /\ EpochSum(epochBook, "backing") \in Nat
         /\ epochBook[i].reserve \in Nat /\ epochBook[i].backing \in Nat
         /\ epochBook[i].backing <= EpochSum(epochBook, "backing")
         /\ EpochSum(epochBook', "reserve") = book.historical - epochBook[i].reserve + new.reserve
         /\ EpochSum(epochBook', "backing")
              = EpochSum(epochBook, "backing") - epochBook[i].backing + new.backing
<1>1. epochBook \in [Epochs -> EpochEntry]
  BY DEF LedgerInv
<1>2. /\ epochBook' \in [Epochs -> EpochEntry] /\ epochBook'[i] = new
      /\ \A j \in Epochs \ {i} : epochBook'[j] = epochBook[j]
  BY <1>1
<1>3. EpochSum(epochBook, "reserve") = book.historical
  BY DEF LedgerInv, ReservesPartition, EpochSum
<1>4. ASSUME NEW field \in {"reserve", "backing"}
      PROVE  /\ EpochSum(epochBook, field) \in Nat
             /\ epochBook[i][field] \in Nat /\ epochBook[i][field] <= EpochSum(epochBook, field)
             /\ EpochSum(epochBook', field)
                  = EpochSum(epochBook, field) - epochBook[i][field] + epochBook'[i][field]
  BY ONLY <1>1, <1>2, EpochSumChange, i \in Epochs, field \in {"reserve", "backing"}, Zenon
<1> QED
  BY <1>2, <1>3, <1>4

LEMMA EpochSumTyped ==
  ASSUME LedgerInv
  PROVE  EpochSum(epochBook, "backing") \in Nat
<1> DEFINE f == [e \in Epochs |-> epochBook[e]["backing"]]
<1>1. f \in [Epochs -> Nat]
  BY DEF LedgerInv, EpochEntry
<1>2. EpochSum(epochBook, "backing") = SumOf(f)
  BY DEF EpochSum
<1> HIDE DEF f
<1> QED
  BY <1>1, <1>2, FiniteIndices, SumType

\* The epoch that ends takes the current reserve and the residue, whatever they are.
LEMMA ExpiredEpochTyped ==
  ASSUME LedgerInv, ReceiptInv, NEW b \in Book, NEW tokens \in Nat
  PROVE  /\ protectorShareEpoch \in Epochs
         /\ ExpiredEpoch(b, tokens) \in EpochEntry
         /\ ExpiredEpoch(b, tokens).reserve = epochBook[protectorShareEpoch].reserve + b.current
         /\ ExpiredEpoch(b, tokens).backing = epochBook[protectorShareEpoch].backing + tokens
<1> DEFINE entry == epochBook[protectorShareEpoch]
           shares == totalProtectorShares
           reserve == entry.reserve + b.current
           backing == entry.backing + tokens
           claims == IF tokens = 0 THEN entry.backingShares ELSE shares
           rps == b.rps
<1>1. protectorShareEpoch \in Epochs
  BY Constants DEF ReceiptInv, Epochs
<1>2. entry \in EpochEntry
  BY <1>1 DEF LedgerInv
<1>3. /\ entry.reserve \in Nat /\ entry.backing \in Nat /\ entry.backingShares \in Nat
      /\ shares \in Nat /\ b.current \in Nat /\ rps \in Nat
  BY <1>2, BookFields, FiniteIndices, SumType
     DEF EpochEntry, ReceiptInv, SharesOf, ProtectorPosition
<1>4. reserve \in Nat /\ backing \in Nat /\ claims \in Nat
  BY <1>3
<1>5. ExpiredEpoch(b, tokens)
        = [entry EXCEPT !.finalRps = rps, !.shares = shares, !.reserve = reserve,
                        !.backing = backing, !.backingShares = claims]
  BY DEF ExpiredEpoch
<1> HIDE DEF entry, shares, reserve, backing, claims, rps
<1>6. /\ ExpiredEpoch(b, tokens) \in EpochEntry
      /\ ExpiredEpoch(b, tokens).reserve = reserve
      /\ ExpiredEpoch(b, tokens).backing = backing
  BY <1>2, <1>3, <1>4, <1>5 DEF EpochEntry
<1> QED
  BY <1>1, <1>6 DEF entry, reserve, backing

\* The receipts once an epoch has ended and nobody has joined the next one
LEMMA ReceiptInvAfterEpoch ==
  ASSUME ReceiptInv, totalProtectorShares # 0, UNCHANGED protectorVars,
         protectorShareEpoch' = protectorShareEpoch + 1, totalProtectorShares' = 0
  PROVE  ReceiptInv'
<1> DEFINE e == protectorShareEpoch + 1
           f == [i \in ProtectorIds |-> IF i \in LiveIn(e) THEN protectorPos[i].shares ELSE 0]
<1>1. \A i \in ProtectorIds : i \notin LiveIn(e)
  BY DEF ReceiptInv, LiveIn, ProtectorPosition, Epochs
<1>2. f \in [ProtectorIds -> Nat] /\ \A i \in ProtectorIds : f[i] = 0
  BY <1>1
<1>3. SumOf(f) = 0
  BY <1>2, FiniteIndices, SumZero
<1>4. (SharesOf(LiveIn(protectorShareEpoch)))' = 0
  BY <1>3 DEF SharesOf, LiveIn, protectorVars
<1>5. \A i \in protectorLive : protectorPos[i].epoch <= protectorShareEpoch + 1
  BY DEF ReceiptInv, ProtectorPosition, Epochs
<1> QED
  BY <1>4, <1>5 DEF ReceiptInv, protectorVars

-----------------------------------------------------------------------------
(* The other shield operations *)

LEMMA SharesTyped ==
  ASSUME ReceiptInv
  PROVE  totalProtectorShares \in Nat
BY FiniteIndices, SumType DEF ReceiptInv, SharesOf, ProtectorPosition

LEMMA ActivationKeepsInv ==
  ASSUME AccountingInv, NEW id \in ShieldIds, ShieldedWithdrawCrossAsset(id)
  PROVE  AccountingInv'
<1> DEFINE pos == shieldPos[id]
           settled == SettleFees(id, shieldedQuote.fee)
           forfeited == pos.amount - settled.fees
           rewarded == AccumulateReward(settled.book, totalProtectorShares,
                                        totalProtectorTokens, forfeited)
           payout == ActivationPayout(id)
           tokens == totalProtectorTokens - payout
           expires == Expires(FALSE, tokens)
<1>1. /\ ShieldInv /\ ReceiptInv /\ LedgerInv /\ BackingInv /\ CustodyInv /\ StatusInv
      /\ totalProtectorTokens \in Nat /\ totalProtectorShares \in Nat
  BY SharesTyped DEF AccountingInv, BackingInv
<1>2. /\ id \in shieldLive /\ CanSettleFees(id, shieldedQuote.fee)
      /\ RewardFits(settled.book, totalProtectorShares, totalProtectorTokens, forfeited)
      /\ backingQuote.price # 0 /\ payout <= totalBackingTokenBalance
  BY DEF ShieldedWithdrawCrossAsset, ActivationAllowed
<1>3. /\ settled.fees \in Nat /\ settled.fees <= pos.amount /\ settled.book \in Book
      /\ ReservedFees(settled.book) = ReservedFees(book) + settled.fees
      /\ Partitioned(settled.book) /\ WithinBuckets(settled.book)
      /\ settled.book.historical = book.historical
  BY <1>1, <1>2, Environment, SettleFeesEffect
<1>4. /\ pos.amount \in Nat /\ pos.amount <= totalShieldedTokens /\ totalShieldedTokens \in Nat
      /\ pos.valueAtDeposit \in Nat
      /\ pos.collateralAmount \in Nat /\ pos.collateralAmount <= totalShieldCollateralAmount
      /\ totalShieldCollateralAmount \in Nat
  BY <1>1, ShieldTotalsTyped
<1>5. payout \in Nat /\ payout <= pos.collateralAmount
  <2>1. MulDiv(pos.valueAtDeposit, BackingScale, backingQuote.price) \in Nat
    BY <1>1, <1>2, <1>4, Constants, Environment, MulDivType
  <2> QED
    BY <1>4, <2>1 DEF ActivationPayout, BackingFromUsd, Least
<1>6. /\ forfeited \in Nat /\ rewarded \in Book
      /\ ReservedFees(rewarded) = ReservedFees(book) + pos.amount
      /\ Partitioned(rewarded) /\ WithinBuckets(rewarded)
      /\ rewarded.historical = book.historical
  <2>1. forfeited \in Nat /\ ReservedFees(book) \in Nat
    BY <1>1, <1>3, <1>4, BookFields DEF LedgerInv
  <2> HIDE DEF settled, forfeited
  <2>2. /\ rewarded \in Book
        /\ ReservedFees(rewarded) = ReservedFees(settled.book) + forfeited
        /\ Partitioned(rewarded) /\ WithinBuckets(rewarded)
        /\ rewarded.historical = settled.book.historical
    <3> DEFINE charged == settled.book
    <3>1. /\ charged \in Book /\ Partitioned(charged) /\ WithinBuckets(charged)
          /\ RewardFits(charged, totalProtectorShares, totalProtectorTokens, forfeited)
      BY <1>2, <1>3
    <3> HIDE DEF charged
    <3>2. LET a == AccumulateReward(charged, totalProtectorShares, totalProtectorTokens, forfeited)
          IN  /\ a \in Book
              /\ ReservedFees(a) = ReservedFees(charged) + forfeited
              /\ Partitioned(a) /\ WithinBuckets(a)
              /\ a.historical = charged.historical
      BY <1>1, <2>1, <3>1, AccumulateRewardEffect
    <3> QED
      BY <3>2 DEF charged
  <2>3. settled.fees + forfeited = pos.amount
    BY <1>3, <1>4 DEF forfeited
  <2> QED
    BY <1>3, <2>1, <2>2, <2>3
<1> HIDE DEF settled, rewarded, payout
<1>7. /\ BurnShield(id)
      /\ totalShieldedTokens' = totalShieldedTokens - pos.amount
      /\ totalValueAtDeposit' = totalValueAtDeposit - pos.valueAtDeposit
      /\ totalShieldCollateralAmount' = totalShieldCollateralAmount - pos.collateralAmount
      /\ totalProtectorTokens' = tokens
      /\ totalBackingTokenBalance' = totalBackingTokenBalance - payout
      /\ heldBacking' = heldBacking - payout
      /\ IF expires
         THEN /\ book' = ExpireBook(rewarded)
              /\ epochBook' = [epochBook EXCEPT ![protectorShareEpoch] =
                                 ExpiredEpoch(rewarded, 0)]
              /\ protectorShareEpoch' = protectorShareEpoch + 1
              /\ totalProtectorShares' = 0
         ELSE /\ book' = rewarded
              /\ UNCHANGED <<epochVars, totalProtectorShares>>
      /\ UNCHANGED <<nextShieldId, protectorVars, shieldedCash, statusVars,
                     transferIntegrityBroken, envVars>>
  BY DEF ShieldedWithdrawCrossAsset, settled, rewarded, payout
<1>8. ShieldInv'
  BY <1>1, <1>2, <1>7, BurnShieldKeepsShieldInv
<1>9. /\ tokens \in Nat
      /\ totalShieldCollateralAmount - pos.collateralAmount <= tokens
  BY <1>1, <1>4, <1>5 DEF BackingInv, CollateralCovered
<1>10. /\ ReceiptInv' /\ LedgerInv'
       /\ EpochSum(epochBook', "backing") = EpochSum(epochBook, "backing")
       /\ ReservedFees(book') = ReservedFees(rewarded) /\ book' \in Book
  <2>1. CASE expires
    <3>1. totalProtectorShares # 0
      BY <2>1 DEF Expires
    <3>2. /\ protectorShareEpoch \in Epochs
          /\ ExpiredEpoch(rewarded, 0) \in EpochEntry
          /\ ExpiredEpoch(rewarded, 0).reserve
               = epochBook[protectorShareEpoch].reserve + rewarded.current
          /\ ExpiredEpoch(rewarded, 0).backing = epochBook[protectorShareEpoch].backing + 0
      BY <1>1, <1>6, ExpiredEpochTyped
    <3>3. /\ ExpireBook(rewarded) \in Book /\ Partitioned(ExpireBook(rewarded))
          /\ WithinBuckets(ExpireBook(rewarded))
          /\ ExpireBook(rewarded).historical = rewarded.historical + rewarded.current
          /\ ReservedFees(ExpireBook(rewarded)) = ReservedFees(rewarded)
          /\ rewarded.current \in Nat /\ rewarded.historical \in Nat
      BY <1>6, ExpireBookEffect, BookFields
    <3> DEFINE ended == ExpiredEpoch(rewarded, 0)
    <3>4. epochBook' = [epochBook EXCEPT ![protectorShareEpoch] = ended]
      BY <1>7, <2>1
    <3> HIDE DEF ended
    <3>5. /\ epochBook' \in [Epochs -> EpochEntry]
          /\ EpochSum(epochBook, "backing") \in Nat
          /\ epochBook[protectorShareEpoch].reserve \in Nat
          /\ epochBook[protectorShareEpoch].backing \in Nat
          /\ EpochSum(epochBook', "reserve")
               = book.historical - epochBook[protectorShareEpoch].reserve + ended.reserve
          /\ EpochSum(epochBook', "backing")
               = EpochSum(epochBook, "backing") - epochBook[protectorShareEpoch].backing
                 + ended.backing
      BY <1>1, <3>2, <3>4, EpochRewrite DEF ended
    <3>6. /\ EpochSum(epochBook', "backing") = EpochSum(epochBook, "backing")
          /\ EpochSum(epochBook', "reserve") = book'.historical
      BY <1>6, <1>7, <2>1, <3>2, <3>3, <3>5 DEF ended
    <3>7. LedgerInv'
      BY <1>7, <2>1, <3>3, <3>5, <3>6
         DEF LedgerInv, BucketsBounded, ReservesPartition, EpochSum, Partitioned, WithinBuckets
    <3>8. ReceiptInv'
      BY <1>1, <1>7, <2>1, <3>1, ReceiptInvAfterEpoch
    <3> QED
      BY <1>7, <2>1, <3>3, <3>6, <3>7, <3>8
  <2>2. CASE ~expires
    <3>1. book' = rewarded /\ UNCHANGED <<epochBook, protectorShareEpoch, totalProtectorShares>>
      BY <1>7, <2>2 DEF epochVars
    <3>2. ReceiptInv'
      BY <1>1, <1>7, <3>1, ReceiptInvKept
    <3>3. LedgerInv'
      BY <1>1, <1>6, <3>1, LedgerRewritten
    <3> QED
      BY <1>6, <3>1, <3>2, <3>3
  <2> QED
    BY <2>1, <2>2
<1>11. BackingInv'
  <2>1. EpochSum(epochBook, "backing") = SumOf([e \in Epochs |-> epochBook[e].backing])
        /\ EpochSum(epochBook', "backing") = SumOf([e \in Epochs |-> epochBook'[e].backing])
    BY DEF EpochSum
  <2>2. EpochSum(epochBook, "backing") \in Nat
    BY <1>1, EpochSumTyped
  <2>3. /\ totalBackingTokenBalance' \in Nat /\ heldBacking' \in Nat
        /\ heldBacking' >= totalBackingTokenBalance'
    BY <1>1, <1>2, <1>5, <1>7 DEF BackingInv
  <2>4. totalBackingTokenBalance' = totalProtectorTokens' + EpochSum(epochBook', "backing")
    BY <1>1, <1>5, <1>7, <1>10, <2>1, <2>2 DEF BackingInv
  <2>5. totalProtectorTokens' \in Nat /\ CollateralCovered'
    BY <1>7, <1>9 DEF CollateralCovered
  <2> QED
    BY <2>1, <2>3, <2>4, <2>5 DEF BackingInv
<1>12. CustodyInv'
  <2>1. ReservedFees(book') = ReservedFees(book)' /\ ReservedFees(book) \in Nat
    BY <1>1, BookFields DEF ReservedFees, LedgerInv
  <2> QED
    BY <1>1, <1>4, <1>6, <1>7, <1>10, <2>1 DEF CustodyInv, ShieldedCovered, shieldedCash
<1>13. StatusInv'
  BY <1>1, <1>7, StatusInvKept
<1> QED
  BY <1>8, <1>10, <1>11, <1>12, <1>13 DEF AccountingInv

\* A fee claim shrinks one receipt by what the buckets gain.
LEMMA ClaimRewardsKeepsInv ==
  ASSUME AccountingInv, NEW id \in ShieldIds, ClaimRewards(id)
  PROVE  AccountingInv'
<1> DEFINE pos == shieldPos[id]
           settled == SettleFees(id, SettlementPrice)
           left == pos.amount - settled.fees
           new == [pos EXCEPT !.amount = left]
<1>1. /\ ShieldInv /\ ReceiptInv /\ LedgerInv /\ BackingInv /\ CustodyInv /\ StatusInv
      /\ totalProtectorTokens \in Nat
  BY DEF AccountingInv, BackingInv
<1>2. /\ id \in shieldLive /\ CanSettleFees(id, SettlementPrice)
      /\ lastClaim' = [lastClaim EXCEPT ![id] = now]
      /\ shieldPos' = [shieldPos EXCEPT ![id].amount = @ - settled.fees]
      /\ feeBaseline' = [feeBaseline EXCEPT ![id] = settled.baseline]
      /\ totalShieldedTokens' = totalShieldedTokens - settled.fees
      /\ book' = settled.book
      /\ UNCHANGED <<shieldLive, nextShieldId, protectorVars, epochVars,
                     totalValueAtDeposit, totalShieldCollateralAmount, protectorTotals,
                     shieldedCash, backingCash, statusVars, transferIntegrityBroken, envVars>>
  BY DEF ClaimRewards
<1>3. /\ settled.fees \in Nat /\ settled.fees <= pos.amount /\ settled.book \in Book
      /\ settled.baseline \in Nat
      /\ ReservedFees(settled.book) = ReservedFees(book) + settled.fees
      /\ Partitioned(settled.book) /\ WithinBuckets(settled.book)
      /\ settled.book.historical = book.historical
  BY <1>1, <1>2, Environment, SettleFeesEffect
<1>4. /\ pos.amount \in Nat /\ pos.amount <= totalShieldedTokens /\ totalShieldedTokens \in Nat
      /\ pos \in ShieldPosition
  BY <1>1, ShieldTotalsTyped DEF ShieldInv
<1> HIDE DEF settled
<1>5. left \in Nat /\ left = pos.amount - settled.fees
  BY <1>3, <1>4
<1>6. /\ new \in ShieldPosition /\ new.amount = left
      /\ new.valueAtDeposit = pos.valueAtDeposit /\ new.collateralAmount = pos.collateralAmount
  <2> HIDE DEF left, pos
  <2> QED
    BY <1>4, <1>5 DEF ShieldPosition
<1>7. /\ shieldPos' = [shieldPos EXCEPT ![id] = new]
      /\ shieldPos' \in [ShieldIds -> ShieldPosition]
  BY <1>1, <1>2, <1>6 DEF ShieldInv
<1>8. ShieldInv'
  <2> HIDE DEF new
  <2>1. \A field \in {"amount", "valueAtDeposit", "collateralAmount"} :
          FieldSum(shieldPos', field) = ShieldQuantity(field) - shieldPos[id][field] + new[field]
    BY <1>1, <1>6, <1>7, ShieldRewrite
  <2>2. /\ totalShieldedTokens' = FieldSum(shieldPos', "amount")
        /\ totalValueAtDeposit' = FieldSum(shieldPos', "valueAtDeposit")
        /\ totalShieldCollateralAmount' = FieldSum(shieldPos', "collateralAmount")
    BY <1>1, <1>2, <1>3, <1>4, <1>5, <1>6, <2>1, ShieldQuantities, ShieldTotalsTyped
  <2>3. /\ totalShieldedTokens' = ShieldQuantity("amount")'
        /\ totalValueAtDeposit' = ShieldQuantity("valueAtDeposit")'
        /\ totalShieldCollateralAmount' = ShieldQuantity("collateralAmount")'
    BY <2>2 DEF FieldSum, ShieldQuantity
  <2>4. \A i \in ShieldIds \ shieldLive' : shieldPos'[i] = NoShield
    BY <1>1, <1>2, <1>7 DEF ShieldInv, ShieldTotalsExact
  <2>5. CapsHaveValue'
    BY <1>1, <1>6, <1>7 DEF ShieldInv, CapsHaveValue
  <2>6. now \in Nat
    BY <1>1 DEF StatusInv
  <2> QED
    BY <1>1, <1>2, <1>3, <1>7, <2>3, <2>4, <2>5, <2>6 DEF ShieldInv, ShieldTotalsExact
<1>9. ReceiptInv'
  BY <1>1, <1>2, ReceiptInvKept DEF epochVars, protectorTotals
<1>10. LedgerInv'
  BY <1>1, <1>2, <1>3, LedgerRewritten DEF epochVars
<1>11. BackingInv'
  BY <1>1, <1>2, BackingInvKept DEF epochVars, protectorTotals
<1>12. CustodyInv'
  <2>1. /\ shieldedTokenBalance \in Nat /\ heldShielded \in Nat
        /\ shieldedTokenBalance' = shieldedTokenBalance - 0 /\ heldShielded' = heldShielded - 0
    BY <1>1, <1>2 DEF CustodyInv, shieldedCash
  <2> QED
    BY <1>1, <1>2, <1>3, <1>4, <2>1, CustodyAfterFees DEF LedgerInv
<1>13. StatusInv'
  BY <1>1, <1>2, StatusInvKept
<1> QED
  BY <1>8, <1>9, <1>10, <1>11, <1>12, <1>13 DEF AccountingInv

\* The remainder of a partial withdrawal keeps at most the value and the cap it came
\* from, and a cap only with a value.
LEMMA RemainderTyped ==
  ASSUME NEW pos \in ShieldPosition, NEW remaining \in Nat, NEW left \in Nat \ {0},
         remaining <= left, pos.valueAtDeposit = 0 => pos.collateralAmount = 0
  PROVE  LET new == Remainder(pos, remaining, left)
         IN  /\ new \in ShieldPosition
             /\ new.amount = remaining
             /\ new.valueAtDeposit <= pos.valueAtDeposit
             /\ new.collateralAmount <= pos.collateralAmount
             /\ new.valueAtDeposit = 0 => new.collateralAmount = 0
<1> DEFINE value == MulDivCeil(pos.valueAtDeposit, remaining, left)
           cap == MulDivCeil(pos.collateralAmount, remaining, left)
<1>1. pos.valueAtDeposit \in Nat /\ pos.collateralAmount \in Nat /\ pos.depositTime \in Nat
  BY DEF ShieldPosition
<1>2. /\ value \in Nat /\ value <= pos.valueAtDeposit
      /\ cap \in Nat /\ cap <= pos.collateralAmount
  BY <1>1, MulDivType, MulDivPart
<1>3. value = 0 => cap = 0
  <2>1. value = 0 => pos.valueAtDeposit * remaining = 0
    BY <1>1, MulDivCeilPositive
  <2>2. pos.collateralAmount * remaining = 0 => cap = 0
    BY <1>1, MulDivCeilPositive
  <2> QED
    BY <1>1, <2>1, <2>2, ZeroProduct
<1> HIDE DEF value, cap
<1>4. Remainder(pos, remaining, left)
        = [amount |-> remaining, valueAtDeposit |-> value, collateralAmount |-> cap,
           depositTime |-> pos.depositTime]
  BY DEF Remainder, value, cap
<1> QED
  BY <1>1, <1>2, <1>3, <1>4 DEF ShieldPosition

(***************************************************************************)
(* A receipt replaced by a fresh one: the totals lose the one and gain the *)
(* other, since the fresh id held nothing.                                 *)
(***************************************************************************)
LEMMA ShieldReplace ==
  ASSUME ShieldInv, NEW id \in shieldLive, NEW new \in ShieldPosition,
         nextShieldId <= MaxShieldId,
         shieldPos' = [shieldPos EXCEPT ![id] = NoShield, ![nextShieldId] = new]
  PROVE  /\ id \in ShieldIds /\ nextShieldId \in ShieldIds /\ id # nextShieldId
         /\ shieldPos' \in [ShieldIds -> ShieldPosition]
         /\ \A field \in {"amount", "valueAtDeposit", "collateralAmount"} :
              ShieldQuantity(field)' = ShieldQuantity(field) - shieldPos[id][field] + new[field]
<1> DEFINE p == [shieldPos EXCEPT ![id] = NoShield]
           q == [p EXCEPT ![nextShieldId] = new]
<1>1. /\ id \in ShieldIds /\ nextShieldId \in ShieldIds /\ id # nextShieldId
      /\ nextShieldId \notin shieldLive /\ NoShield \in ShieldPosition
      /\ shieldPos \in [ShieldIds -> ShieldPosition]
  <2>1. /\ MaxShieldId \in Nat /\ nextShieldId \in 1..(MaxShieldId + 1)
        /\ shieldLive \subseteq 1..MaxShieldId /\ \A i \in shieldLive : i < nextShieldId
        /\ shieldPos \in [ShieldIds -> ShieldPosition]
    BY Constants DEF ShieldInv, ShieldIds
  <2>2. NoShield \in ShieldPosition
    BY DEF NoShield, ShieldPosition
  <2>3. nextShieldId \in 1..MaxShieldId /\ id \in 1..MaxShieldId /\ id < nextShieldId
    BY <2>1
  <2>4. nextShieldId \notin shieldLive
    BY <2>1, <2>3
  <2> QED
    BY <2>1, <2>2, <2>3, <2>4 DEF ShieldIds
<1>2. /\ p \in [ShieldIds -> ShieldPosition] /\ q \in [ShieldIds -> ShieldPosition]
      /\ shieldPos' = q /\ p[nextShieldId] = NoShield
      /\ \A j \in ShieldIds \ {id} : p[j] = shieldPos[j]
      /\ \A j \in ShieldIds \ {nextShieldId} : q[j] = p[j]
      /\ p[id] = NoShield /\ q[nextShieldId] = new
  BY <1>1 DEF ShieldInv, ShieldTotalsExact
<1> HIDE DEF p, q
<1>3. ASSUME NEW field \in {"amount", "valueAtDeposit", "collateralAmount"}
      PROVE  ShieldQuantity(field)' = ShieldQuantity(field) - shieldPos[id][field] + new[field]
  <2>1. /\ FieldSum(shieldPos, field) \in Nat /\ shieldPos[id][field] \in Nat
        /\ FieldSum(p, field) = FieldSum(shieldPos, field) - shieldPos[id][field] + p[id][field]
    BY ONLY <1>1, <1>2, <1>3, ShieldSumChange, Zenon
  <2>2. /\ FieldSum(p, field) \in Nat /\ q[nextShieldId][field] \in Nat
        /\ FieldSum(q, field)
             = FieldSum(p, field) - p[nextShieldId][field] + q[nextShieldId][field]
    BY ONLY <1>1, <1>2, <1>3, ShieldSumChange, Zenon
  <2>3. NoShield[field] = 0
    BY <1>3 DEF NoShield
  <2>4. ShieldQuantity(field) = FieldSum(shieldPos, field)
        /\ ShieldQuantity(field)' = FieldSum(q, field)
    BY <1>2 DEF ShieldQuantity, FieldSum
  <2> QED
    BY <1>2, <2>1, <2>2, <2>3, <2>4
<1> QED
  BY <1>1, <1>2, <1>3

LEMMA PartialWithdrawKeepsInv ==
  ASSUME AccountingInv, NEW id \in ShieldIds, NEW amount \in Nat,
         PartialWithdrawShielded(id, amount)
  PROVE  AccountingInv'
<1> DEFINE pos == shieldPos[id]
           settled == SettleFees(id, SettlementPrice)
           left == pos.amount - settled.fees
           remaining == left - amount
           new == Remainder(pos, remaining, left)
           freed == amount + settled.fees
           mark == MulDiv(settled.baseline, remaining, left)
<1>1. /\ ShieldInv /\ ReceiptInv /\ LedgerInv /\ BackingInv /\ CustodyInv /\ StatusInv
      /\ totalProtectorTokens \in Nat
  BY DEF AccountingInv, BackingInv
<1>2. /\ id \in shieldLive /\ nextShieldId <= MaxShieldId
      /\ amount # 0 /\ CanSettleFees(id, SettlementPrice)
      /\ pos.amount >= amount + settled.fees
      /\ amount <= WithdrawableBalance(settled.book)
  BY DEF PartialWithdrawShielded
<1>3. /\ settled.fees \in Nat /\ settled.fees <= pos.amount /\ settled.book \in Book
      /\ settled.baseline \in Nat
      /\ ReservedFees(settled.book) = ReservedFees(book) + settled.fees
      /\ Partitioned(settled.book) /\ WithinBuckets(settled.book)
      /\ settled.book.historical = book.historical
  BY <1>1, <1>2, Environment, SettleFeesEffect
<1>4. /\ pos.amount \in Nat /\ pos.amount <= totalShieldedTokens /\ totalShieldedTokens \in Nat
      /\ pos.valueAtDeposit \in Nat /\ pos.valueAtDeposit <= totalValueAtDeposit
      /\ totalValueAtDeposit \in Nat
      /\ pos.collateralAmount \in Nat /\ pos.collateralAmount <= totalShieldCollateralAmount
      /\ totalShieldCollateralAmount \in Nat
      /\ pos \in ShieldPosition /\ (pos.valueAtDeposit = 0 => pos.collateralAmount = 0)
  BY <1>1, ShieldTotalsTyped DEF ShieldInv, CapsHaveValue
<1>5. /\ shieldLive' = (shieldLive \ {id}) \cup {nextShieldId}
      /\ shieldPos' = [shieldPos EXCEPT ![id] = NoShield, ![nextShieldId] = new]
      /\ feeBaseline' = [feeBaseline EXCEPT ![id] = 0, ![nextShieldId] = mark]
      /\ lastClaim' = [lastClaim EXCEPT ![id] = 0, ![nextShieldId] = lastClaim[id]]
      /\ nextShieldId' = nextShieldId + 1
      /\ totalShieldedTokens' = totalShieldedTokens - freed
      /\ totalValueAtDeposit' = totalValueAtDeposit - pos.valueAtDeposit + new.valueAtDeposit
      /\ totalShieldCollateralAmount' =
           totalShieldCollateralAmount - pos.collateralAmount + new.collateralAmount
      /\ shieldedTokenBalance' = shieldedTokenBalance - amount
      /\ heldShielded' = heldShielded - amount
      /\ MarkTransferIntegrity(amount) /\ book' = settled.book
      /\ UNCHANGED <<protectorVars, epochVars, protectorTotals, backingCash,
                     statusVars, envVars>>
  BY DEF PartialWithdrawShielded
<1> HIDE DEF settled, new, mark
<1>6. /\ left \in Nat \ {0} /\ remaining \in Nat /\ remaining <= left
      /\ freed \in Nat /\ freed <= pos.amount /\ remaining = pos.amount - freed
  BY <1>2, <1>3, <1>4
<1>7. /\ new \in ShieldPosition /\ new.amount = remaining
      /\ new.valueAtDeposit \in Nat /\ new.valueAtDeposit <= pos.valueAtDeposit
      /\ new.collateralAmount \in Nat /\ new.collateralAmount <= pos.collateralAmount
      /\ (new.valueAtDeposit = 0 => new.collateralAmount = 0)
      /\ mark \in Nat
  <2> HIDE DEF left, remaining, pos
  <2>1. /\ new \in ShieldPosition /\ new.amount = remaining
        /\ new.valueAtDeposit <= pos.valueAtDeposit
        /\ new.collateralAmount <= pos.collateralAmount
        /\ (new.valueAtDeposit = 0 => new.collateralAmount = 0)
    BY <1>4, <1>6, RemainderTyped DEF new
  <2>2. mark \in Nat
    BY <1>3, <1>6, MulDivType DEF mark
  <2> QED
    BY <2>1, <2>2 DEF ShieldPosition
<1> HIDE DEF left, remaining, freed
<1>8. /\ nextShieldId \in ShieldIds /\ id # nextShieldId
      /\ shieldPos' \in [ShieldIds -> ShieldPosition]
      /\ \A field \in {"amount", "valueAtDeposit", "collateralAmount"} :
           ShieldQuantity(field)' = ShieldQuantity(field) - pos[field] + new[field]
  BY <1>1, <1>2, <1>5, <1>7, ShieldReplace
<1>9. ShieldInv'
  <2>1. /\ totalShieldedTokens' = ShieldQuantity("amount")'
        /\ totalValueAtDeposit' = ShieldQuantity("valueAtDeposit")'
        /\ totalShieldCollateralAmount' = ShieldQuantity("collateralAmount")'
    BY <1>1, <1>4, <1>5, <1>6, <1>7, <1>8, ShieldQuantities
  <2>2. \A i \in ShieldIds \ shieldLive' : shieldPos'[i] = NoShield
    BY <1>1, <1>2, <1>5, <1>8 DEF ShieldInv, ShieldTotalsExact
  <2>3. CapsHaveValue'
    BY <1>1, <1>5, <1>7, <1>8 DEF ShieldInv, CapsHaveValue, NoShield
  <2>4. /\ nextShieldId' \in 1..(MaxShieldId + 1)
        /\ shieldLive' \subseteq ShieldIds /\ \A i \in shieldLive' : i < nextShieldId'
    <3>1. MaxShieldId \in Nat /\ nextShieldId \in 1..MaxShieldId
      BY <1>8, Constants DEF ShieldIds
    <3>2. shieldLive \subseteq 1..MaxShieldId /\ \A i \in shieldLive : i < nextShieldId
      BY <1>1 DEF ShieldInv, ShieldIds
    <3> QED
      BY <1>5, <1>8, <3>1, <3>2 DEF ShieldIds
  <2>5. feeBaseline' \in [ShieldIds -> Nat] /\ lastClaim' \in [ShieldIds -> Nat]
    BY <1>1, <1>5, <1>7 DEF ShieldInv
  <2> QED
    BY <1>8, <2>1, <2>2, <2>3, <2>4, <2>5 DEF ShieldInv, ShieldTotalsExact
<1>10. ReceiptInv'
  BY <1>1, <1>5, ReceiptInvKept DEF epochVars, protectorTotals
<1>11. LedgerInv'
  BY <1>1, <1>3, <1>5, LedgerRewritten DEF epochVars
<1>12. BackingInv'
  BY <1>1, <1>4, <1>5, <1>7
     DEF BackingInv, CollateralCovered, epochVars, protectorTotals, backingCash
<1>13. CustodyInv'
  <2>1. /\ ReservedFees(settled.book) \in Nat /\ shieldedTokenBalance \in Nat
        /\ heldShielded \in Nat
    BY <1>1, <1>3, BookFields DEF CustodyInv
  <2>2. amount <= shieldedTokenBalance
    BY <1>2, <2>1 DEF WithdrawableBalance, Monus
  <2> QED
    BY <1>1, <1>3, <1>4, <1>5, <1>6, <2>2, CustodyAfterFees DEF LedgerInv, freed
<1>14. StatusInv'
  BY <1>1, <1>5, StatusAfterPayout
<1> QED
  BY <1>9, <1>10, <1>11, <1>12, <1>13, <1>14 DEF AccountingInv

(***************************************************************************)
(* A deposit adds a fresh receipt; the capacity check keeps the caps below *)
(* the backing.                                                            *)
(***************************************************************************)
LEMMA DepositShieldedKeepsInv ==
  ASSUME AccountingInv, NEW received \in Nat, DepositShieldedAsset(received)
  PROVE  AccountingInv'
<1> DEFINE value == ShieldedValue(received)
           collateral == ShieldCollateral(value)
           new == [amount |-> received, valueAtDeposit |-> value,
                   collateralAmount |-> collateral, depositTime |-> now]
           id == nextShieldId
           mark == MulDiv(received, shieldedQuote.fee, ShieldedScale)
<1>1. /\ ShieldInv /\ ReceiptInv /\ LedgerInv /\ BackingInv /\ CustodyInv /\ StatusInv
      /\ totalProtectorTokens \in Nat
  BY DEF AccountingInv, BackingInv
<1>2. /\ nextShieldId <= MaxShieldId /\ WithinTvl(value) /\ WithinCapacity(value, collateral)
      /\ shieldLive' = shieldLive \cup {nextShieldId}
      /\ shieldPos' = [shieldPos EXCEPT ![id] = new]
      /\ feeBaseline' = [feeBaseline EXCEPT ![id] = mark]
      /\ nextShieldId' = nextShieldId + 1
      /\ totalShieldedTokens' = totalShieldedTokens + received
      /\ totalValueAtDeposit' = totalValueAtDeposit + value
      /\ totalShieldCollateralAmount' = totalShieldCollateralAmount + collateral
      /\ shieldedTokenBalance' = shieldedTokenBalance + received
      /\ heldShielded' = heldShielded + received
      /\ UNCHANGED <<lastClaim, protectorVars, epochVars, protectorTotals, book,
                     backingCash, statusVars, transferIntegrityBroken, envVars>>
  BY DEF DepositShieldedAsset
<1>3. /\ backingQuote.price \in Nat \ {0} /\ shieldedQuote.price \in Nat
      /\ shieldedQuote.fee \in Nat /\ now \in Nat
  BY <1>1, <1>2, Environment DEF WithinTvl, StatusInv
<1>4. /\ value \in Nat /\ value # 0 /\ collateral \in Nat /\ mark \in Nat
  <2>1. MulDiv(received, shieldedQuote.price, ShieldedScale) \in Nat /\ mark \in Nat
    BY <1>3, Constants, MulDivType
  <2>2. value \in Nat /\ value # 0
    BY <1>2, <2>1 DEF ShieldedValue, WithinTvl
  <2> HIDE DEF value
  <2>3. MulDivCeil(value, CollateralRatio, BasisPointScale) \in Nat
    BY <2>2, Constants, MulDivType
  <2> DEFINE required == MulDivCeil(value, CollateralRatio, BasisPointScale)
  <2> HIDE DEF required
  <2>4. MulDiv(required, BackingScale, backingQuote.price) \in Nat
    BY <1>3, <2>3, Constants, MulDivType DEF required
  <2> QED
    BY <2>1, <2>2, <2>4 DEF ShieldCollateral, RequiredCollateralUsd, BackingFromUsd, required
<1> HIDE DEF value, collateral, mark
<1>5. /\ id \in ShieldIds /\ MaxShieldId \in Nat /\ id \in 1..MaxShieldId
      /\ id \notin shieldLive
  <2>1. MaxShieldId \in Nat /\ nextShieldId \in 1..(MaxShieldId + 1)
        /\ \A i \in shieldLive : i < nextShieldId
    BY <1>1, Constants DEF ShieldInv
  <2> QED
    BY <1>2, <2>1 DEF ShieldIds
<1>6. /\ new \in ShieldPosition /\ new.amount = received /\ new.valueAtDeposit = value
      /\ new.collateralAmount = collateral
      /\ shieldPos' \in [ShieldIds -> ShieldPosition]
      /\ shieldPos[id] = NoShield
  BY <1>1, <1>2, <1>3, <1>4, <1>5 DEF ShieldPosition, ShieldInv, ShieldTotalsExact
<1>7. ShieldInv'
  <2> HIDE DEF new, id
  <2>1. \A field \in {"amount", "valueAtDeposit", "collateralAmount"} :
          FieldSum(shieldPos', field) = ShieldQuantity(field) - shieldPos[id][field] + new[field]
    BY <1>1, <1>2, <1>5, <1>6, ShieldRewrite
  <2>2. \A field \in {"amount", "valueAtDeposit", "collateralAmount"} :
          ShieldQuantity(field)' = ShieldQuantity(field) - 0 + new[field]
    BY <1>6, <2>1 DEF ShieldQuantity, FieldSum, NoShield
  <2>3. /\ totalShieldedTokens' = ShieldQuantity("amount")'
        /\ totalValueAtDeposit' = ShieldQuantity("valueAtDeposit")'
        /\ totalShieldCollateralAmount' = ShieldQuantity("collateralAmount")'
    BY <1>1, <1>2, <1>4, <1>6, <2>2, ShieldQuantities, ShieldTotalsTyped
  <2>4. \A i \in ShieldIds \ shieldLive' : shieldPos'[i] = NoShield
    BY <1>1, <1>2, <1>5 DEF ShieldInv, ShieldTotalsExact, id
  <2>5. CapsHaveValue'
    BY <1>1, <1>2, <1>4, <1>6 DEF ShieldInv, CapsHaveValue
  <2>6. /\ shieldLive' \subseteq ShieldIds /\ nextShieldId' \in 1..(MaxShieldId + 1)
        /\ \A i \in shieldLive' : i < nextShieldId'
    <3>1. shieldLive \subseteq 1..MaxShieldId /\ \A i \in shieldLive : i < nextShieldId
      BY <1>1 DEF ShieldInv, ShieldIds
    <3> QED
      BY <1>2, <1>5, <3>1 DEF ShieldIds, id
  <2>7. feeBaseline' \in [ShieldIds -> Nat] /\ lastClaim' \in [ShieldIds -> Nat]
    BY <1>1, <1>2, <1>4 DEF ShieldInv
  <2> QED
    BY <1>6, <2>3, <2>4, <2>5, <2>6, <2>7 DEF ShieldInv, ShieldTotalsExact
<1>8. ReceiptInv'
  BY <1>1, <1>2, ReceiptInvKept DEF epochVars, protectorTotals
<1>9. LedgerInv'
  BY <1>1, <1>2, LedgerInvKept DEF epochVars
<1>10. BackingInv'
  BY <1>1, <1>2
     DEF BackingInv, CollateralCovered, WithinCapacity, epochVars, protectorTotals, backingCash
<1>11. CustodyInv'
  <2>1. ReservedFees(book) \in Nat /\ totalShieldedTokens \in Nat
    BY <1>1, ShieldTotalsTyped, BookFields DEF LedgerInv
  <2>2. ReservedFees(book)' = ReservedFees(book)
    BY <1>2
  <2> QED
    BY <1>1, <1>2, <2>1, <2>2 DEF CustodyInv, ShieldedCovered
<1>12. StatusInv'
  BY <1>1, <1>2, StatusInvKept
<1> QED
  BY <1>7, <1>8, <1>9, <1>10, <1>11, <1>12 DEF AccountingInv

-----------------------------------------------------------------------------
(* The protector side *)

LEMMA SharesOfLiveNext ==
  (SharesOf(LiveIn(protectorShareEpoch)))'
    = SharesIn(protectorLive', protectorPos', protectorShareEpoch')
<1>1. \A i \in ProtectorIds :
        i \in LiveIn(protectorShareEpoch)'
          <=> i \in protectorLive' /\ protectorPos'[i].epoch = protectorShareEpoch'
  BY DEF LiveIn
<1> QED
  BY <1>1 DEF SharesOf, SharesIn, ShareAt

\* One receipt replaced within an epoch: the share total follows it.
LEMMA ReceiptRewrite ==
  ASSUME ReceiptInv, NEW id \in ProtectorIds, NEW new \in ProtectorPosition,
         protectorPos' = [protectorPos EXCEPT ![id] = new],
         \A j \in ProtectorIds \ {id} : j \in protectorLive' <=> j \in protectorLive,
         protectorShareEpoch' = protectorShareEpoch
  PROVE  LET of == IF id \in protectorLive THEN ActiveShares(id) ELSE 0
             kept == IF id \in protectorLive' /\ new.epoch = protectorShareEpoch
                     THEN new.shares ELSE 0
         IN  /\ protectorPos' \in [ProtectorIds -> ProtectorPosition]
             /\ of \in Nat /\ of <= totalProtectorShares /\ kept \in Nat
             /\ (SharesOf(LiveIn(protectorShareEpoch)))' = totalProtectorShares - of + kept
<1> DEFINE e == protectorShareEpoch
<1>1. /\ protectorPos \in [ProtectorIds -> ProtectorPosition]
      /\ protectorPos' \in [ProtectorIds -> ProtectorPosition]
      /\ protectorPos'[id] = new
      /\ \A j \in ProtectorIds \ {id} :
           protectorPos'[j] = protectorPos[j] /\ (j \in protectorLive' <=> j \in protectorLive)
  BY DEF ReceiptInv
<1> DEFINE q == protectorPos'
           lq == protectorLive'
<1>2. /\ SharesIn(protectorLive, protectorPos, e) \in Nat
      /\ ShareAt(protectorLive, protectorPos, e, id) \in Nat /\ ShareAt(lq, q, e, id) \in Nat
      /\ ShareAt(protectorLive, protectorPos, e, id) <= SharesIn(protectorLive, protectorPos, e)
      /\ SharesIn(lq, q, e)
           = SharesIn(protectorLive, protectorPos, e) - ShareAt(protectorLive, protectorPos, e, id)
             + ShareAt(lq, q, e, id)
  <2>1. \A j \in ProtectorIds \ {id} :
          ShareAt(lq, q, e, j) = ShareAt(protectorLive, protectorPos, e, j)
    BY <1>1 DEF ShareAt
  <2>2. q \in [ProtectorIds -> ProtectorPosition]
    BY <1>1
  <2> HIDE DEF e, q, lq
  <2> QED
    BY <1>1, <2>1, <2>2, ShareSumChange
<1>3. /\ totalProtectorShares = SharesIn(protectorLive, protectorPos, e)
      /\ (SharesOf(LiveIn(protectorShareEpoch)))' = SharesIn(protectorLive', protectorPos', e)
  BY SharesOfLive, SharesOfLiveNext
<1> QED
  BY <1>1, <1>2, <1>3 DEF ActiveShares, ShareAt

\* A receipt that keeps its shares and its epoch, among the same receipts
LEMMA ReceiptKept ==
  ASSUME ReceiptInv, NEW id \in protectorLive, NEW new \in ProtectorPosition,
         new.shares = protectorPos[id].shares, new.epoch = protectorPos[id].epoch,
         protectorPos' = [protectorPos EXCEPT ![id] = new],
         UNCHANGED <<protectorLive, nextProtectorId, protectorShareEpoch, totalProtectorShares>>
  PROVE  ReceiptInv'
<1>1. id \in ProtectorIds /\ totalProtectorShares \in Nat
  BY SharesTyped DEF ReceiptInv
<1>2. /\ protectorPos' \in [ProtectorIds -> ProtectorPosition]
      /\ ActiveShares(id) \in Nat
      /\ (SharesOf(LiveIn(protectorShareEpoch)))' = totalProtectorShares - ActiveShares(id)
           + (IF new.epoch = protectorShareEpoch THEN new.shares ELSE 0)
  BY <1>1, ReceiptRewrite
<1>3. (IF new.epoch = protectorShareEpoch THEN new.shares ELSE 0) = ActiveShares(id)
  BY DEF ActiveShares
<1>4. totalProtectorShares' = (SharesOf(LiveIn(protectorShareEpoch)))'
  BY <1>1, <1>2, <1>3
<1>5. \A j \in protectorLive' : j < nextProtectorId' /\ protectorPos'[j].epoch <= protectorShareEpoch'
  BY DEF ReceiptInv
<1> QED
  BY <1>2, <1>4, <1>5 DEF ReceiptInv

\* Nobody holds shares of an epoch to come.
LEMMA NoSharesAhead ==
  ASSUME ReceiptInv
  PROVE  SharesIn(protectorLive, protectorPos, protectorShareEpoch + 1) = 0
<1> DEFINE e == protectorShareEpoch + 1
           f == [i \in ProtectorIds |-> ShareAt(protectorLive, protectorPos, e, i)]
<1>1. \A i \in ProtectorIds : ShareAt(protectorLive, protectorPos, e, i) = 0
  BY DEF ReceiptInv, ProtectorPosition, Epochs, ShareAt
<1>2. f \in [ProtectorIds -> Nat] /\ \A i \in ProtectorIds : f[i] = 0
  BY <1>1
<1>3. SharesIn(protectorLive, protectorPos, e) = SumOf(f)
  BY DEF SharesIn
<1> HIDE DEF f
<1> QED
  BY <1>2, <1>3, FiniteIndices, SumZero

\* The shares of a deposit are a natural number.
LEMMA SharesForTyped ==
  ASSUME NEW amount \in Nat, NEW tokens \in Nat, NEW shares \in Nat
  PROVE  SharesFor(amount, tokens, shares) \in Nat
<1>1. CASE NoShareHolders(shares, tokens)
  <2>1. amount * ShareMultiplier \in Nat
    BY Constants, ProductType
  <2>2. (amount * ShareMultiplier) \div ShareDivisor \in Nat
    BY <2>1, Constants, QuotientBounds
  <2> QED
    BY <1>1, <2>2 DEF SharesFor, ToShares
<1>2. CASE ~NoShareHolders(shares, tokens)
  <2>1. tokens \in Nat \ {0}
    BY <1>2 DEF NoShareHolders
  <2>2. MulDiv(amount, shares, tokens) \in Nat
    BY <2>1, MulDivType
  <2> QED
    BY <1>2, <2>2 DEF SharesFor
<1> QED
  BY <1>1, <1>2

\* The backing invariant from the sum over the epochs
LEMMA BackingBooked ==
  ASSUME BackingInv
  PROVE  /\ totalProtectorTokens \in Nat /\ totalBackingTokenBalance \in Nat
         /\ heldBacking \in Nat /\ heldBacking >= totalBackingTokenBalance
         /\ totalBackingTokenBalance = totalProtectorTokens + EpochSum(epochBook, "backing")
         /\ totalShieldCollateralAmount <= totalProtectorTokens
BY DEF BackingInv, CollateralCovered, EpochSum

LEMMA BackingBookedNext ==
  ASSUME totalProtectorTokens' \in Nat, totalBackingTokenBalance' \in Nat,
         heldBacking' \in Nat, heldBacking' >= totalBackingTokenBalance',
         totalBackingTokenBalance' = totalProtectorTokens' + EpochSum(epochBook', "backing"),
         totalShieldCollateralAmount' <= totalProtectorTokens'
  PROVE  BackingInv'
BY DEF BackingInv, CollateralCovered, EpochSum

\* The ledger from the sum over the epochs
LEMMA LedgerBookedNext ==
  ASSUME book' \in Book, epochBook' \in [Epochs -> EpochEntry], WithinBuckets(book'),
         Partitioned(book'), book'.historical = EpochSum(epochBook', "reserve")
  PROVE  LedgerInv'
BY DEF LedgerInv, BucketsBounded, ReservesPartition, EpochSum, Partitioned, WithinBuckets

\* Custody from the reserved fees of the book that a step leaves
LEMMA CustodyNext ==
  ASSUME shieldedTokenBalance' \in Nat, heldShielded' \in Nat,
         heldShielded' >= shieldedTokenBalance',
         shieldedTokenBalance' >= totalShieldedTokens' + ReservedFees(book')
  PROVE  CustodyInv'
BY DEF CustodyInv, ShieldedCovered, ReservedFees

(***************************************************************************)
(* A backing deposit, which may first end an epoch that has no backing     *)
(* left or, with nothing protected, only dust: the dust stays booked on    *)
(* the ended epoch, and the caps it no longer covers are all zero.         *)
(***************************************************************************)
LEMMA DepositBackingKeepsInv ==
  ASSUME AccountingInv, NEW received \in Nat, DepositBackingAsset(received)
  PROVE  AccountingInv'
<1> DEFINE expires == Expires(TRUE, totalProtectorTokens)
           tokens0 == IF expires THEN 0 ELSE totalProtectorTokens
           shares0 == IF expires THEN 0 ELSE totalProtectorShares
           epoch == IF expires THEN protectorShareEpoch + 1 ELSE protectorShareEpoch
           book0 == IF expires THEN ExpireBook(book) ELSE book
           minted == SharesFor(received, tokens0, shares0)
           debt == RewardDebt(book.rps, minted)
           new == [NoProtector EXCEPT !.shares = minted, !.epoch = epoch, !.debt = debt]
           id == nextProtectorId
           ended == ExpiredEpoch(book, totalProtectorTokens)
<1>0. /\ expires => /\ tokens0 = 0 /\ shares0 = 0 /\ epoch = protectorShareEpoch + 1
                    /\ book0 = ExpireBook(book) /\ totalProtectorShares # 0
                    /\ totalProtectorTokens = 0 \/ totalValueAtDeposit = 0
      /\ ~expires => /\ tokens0 = totalProtectorTokens /\ shares0 = totalProtectorShares
                     /\ epoch = protectorShareEpoch /\ book0 = book
  BY DEF Expires
<1>1. /\ ShieldInv /\ ReceiptInv /\ LedgerInv /\ BackingInv /\ CustodyInv /\ StatusInv
      /\ totalProtectorTokens \in Nat /\ totalProtectorShares \in Nat
      /\ book \in Book /\ WithinBuckets(book) /\ Partitioned(book)
  BY SharesTyped DEF AccountingInv, BackingInv, LedgerInv, BucketsBounded, ReservesPartition
<1>2. /\ id <= MaxProtectorId /\ DustFits(book0)
      /\ book' = RedirectDust(book0)
      /\ epochBook' = IF expires
                      THEN [epochBook EXCEPT ![protectorShareEpoch] = ended]
                      ELSE epochBook
      /\ protectorShareEpoch' = epoch
      /\ totalProtectorTokens' = tokens0 + received
      /\ totalProtectorShares' = shares0 + minted
      /\ totalBackingTokenBalance' = totalBackingTokenBalance + received
      /\ heldBacking' = heldBacking + received
      /\ protectorLive' = protectorLive \cup {id}
      /\ protectorPos' = [protectorPos EXCEPT ![id] = new]
      /\ nextProtectorId' = id + 1
      /\ UNCHANGED <<shieldVars, shieldTotals, shieldedCash, statusVars,
                     transferIntegrityBroken, envVars>>
  BY DEF DepositBackingAsset
<1>3. tokens0 \in Nat /\ shares0 \in Nat /\ minted \in Nat
  BY <1>1, SharesForTyped
<1>4. debt \in Nat
  <2>1. book.rps \in Nat
    BY <1>1, BookFields
  <2> HIDE DEF minted
  <2> QED
    BY <1>3, <2>1, RewardAssumption, MulDivType DEF RewardDebt
<1> HIDE DEF minted, debt, ended, expires, tokens0, shares0, epoch, book0
<1>5. /\ MaxProtectorId \in Nat /\ id \in 1..MaxProtectorId /\ id \in ProtectorIds
      /\ id \notin protectorLive /\ \A j \in protectorLive : j < id
      /\ protectorLive \subseteq ProtectorIds
      /\ \A j \in protectorLive : protectorPos[j].epoch <= protectorShareEpoch
      /\ protectorPos \in [ProtectorIds -> ProtectorPosition]
      /\ protectorShareEpoch \in Nat /\ protectorShareEpoch < id
      /\ (expires => protectorShareEpoch + 1 < id)
  <2>1. /\ MaxProtectorId \in Nat /\ id \in 1..(MaxProtectorId + 1)
        /\ \A j \in protectorLive : j < id
    BY <1>1, Constants DEF ReceiptInv
  <2>2. id \in 1..MaxProtectorId /\ id \notin protectorLive
    BY <1>2, <2>1
  <2> QED
    BY <1>0, <1>1, <2>1, <2>2 DEF ReceiptInv, ProtectorIds
<1>6. epoch \in Nat /\ epoch < id /\ epoch \in Epochs /\ protectorShareEpoch <= epoch
  BY <1>0, <1>5 DEF Epochs
<1>7. /\ new \in ProtectorPosition /\ new.epoch = epoch /\ new.shares = minted
  BY <1>3, <1>4, <1>6 DEF NoProtector, ProtectorPosition
<1> HIDE DEF new
<1>8. /\ book0 \in Book /\ Partitioned(book0) /\ WithinBuckets(book0)
      /\ ReservedFees(book0) = ReservedFees(book)
      /\ book0.historical = IF expires THEN book.historical + book.current ELSE book.historical
  BY <1>0, <1>1, ExpireBookEffect
<1>9. /\ book' \in Book /\ Partitioned(book') /\ WithinBuckets(book')
      /\ ReservedFees(book') = ReservedFees(book)
      /\ book'.historical = book0.historical
  BY <1>2, <1>8, RedirectDustEffect
<1>10. /\ epochBook' \in [Epochs -> EpochEntry]
       /\ EpochSum(epochBook', "reserve") = book'.historical
       /\ EpochSum(epochBook', "backing")
            = EpochSum(epochBook, "backing") + totalProtectorTokens - tokens0
  <2>1. EpochSum(epochBook, "backing") \in Nat
    BY <1>1, EpochSumTyped
  <2>2. CASE expires
    <3>1. /\ protectorShareEpoch \in Epochs /\ ended \in EpochEntry
          /\ ended.reserve = epochBook[protectorShareEpoch].reserve + book.current
          /\ ended.backing = epochBook[protectorShareEpoch].backing + totalProtectorTokens
      BY <1>1, ExpiredEpochTyped DEF ended
    <3>2. /\ epochBook' \in [Epochs -> EpochEntry]
          /\ epochBook[protectorShareEpoch].reserve \in Nat
          /\ epochBook[protectorShareEpoch].backing \in Nat
          /\ EpochSum(epochBook', "reserve")
               = book.historical - epochBook[protectorShareEpoch].reserve + ended.reserve
          /\ EpochSum(epochBook', "backing")
               = EpochSum(epochBook, "backing") - epochBook[protectorShareEpoch].backing
                 + ended.backing
      BY <1>1, <1>2, <2>2, <3>1, EpochRewrite
    <3>3. book.current \in Nat /\ book.historical \in Nat
      BY <1>1, BookFields
    <3> QED
      BY <1>0, <1>1, <1>8, <1>9, <2>1, <2>2, <3>1, <3>2, <3>3
  <2>3. CASE ~expires
    <3>1. epochBook' = epochBook
      BY <1>2, <2>3
    <3>2. EpochSum(epochBook, "reserve") = book.historical
          /\ epochBook \in [Epochs -> EpochEntry]
      BY <1>1 DEF LedgerInv, ReservesPartition, EpochSum
    <3> QED
      BY <1>0, <1>1, <1>8, <1>9, <2>1, <2>3, <3>1, <3>2
  <2> QED
    BY <2>2, <2>3
<1>11. LedgerInv'
  BY <1>9, <1>10, LedgerBookedNext
<1>12. totalProtectorShares' = (SharesOf(LiveIn(protectorShareEpoch)))'
  <2>1. /\ SharesIn(protectorLive, protectorPos, epoch) = shares0
        /\ ShareAt(protectorLive, protectorPos, epoch, id) = 0
    BY <1>0, <1>1, <1>5, SharesOfLive, NoSharesAhead DEF ShareAt
  <2> DEFINE q == protectorPos'
             lq == protectorLive'
  <2>2. /\ q \in [ProtectorIds -> ProtectorPosition]
        /\ ShareAt(lq, q, epoch, id) = minted
        /\ \A j \in ProtectorIds \ {id} :
             ShareAt(lq, q, epoch, j) = ShareAt(protectorLive, protectorPos, epoch, j)
    BY <1>2, <1>5, <1>7 DEF ShareAt
  <2> HIDE DEF q, lq, id
  <2>3. /\ SharesIn(protectorLive, protectorPos, epoch) \in Nat
        /\ SharesIn(lq, q, epoch) = SharesIn(protectorLive, protectorPos, epoch)
             - ShareAt(protectorLive, protectorPos, epoch, id) + ShareAt(lq, q, epoch, id)
    BY <1>5, <2>2, ShareSumChange
  <2>4. (SharesOf(LiveIn(protectorShareEpoch)))' = SharesIn(lq, q, epoch)
    BY <1>2, SharesOfLiveNext DEF q, lq
  <2> QED
    BY <1>2, <1>3, <2>1, <2>2, <2>3, <2>4
<1>13. ReceiptInv'
  <2>1. protectorLive' \subseteq ProtectorIds /\ protectorPos' \in [ProtectorIds -> ProtectorPosition]
    BY <1>2, <1>5, <1>7
  <2>2. \A j \in protectorLive' : j < nextProtectorId' /\ protectorPos'[j].epoch <= epoch
    <3> TAKE j \in protectorLive'
    <3>1. CASE j = id
      BY <1>2, <1>5, <1>6, <1>7, <3>1
    <3>2. CASE j # id
      <4>1. j \in protectorLive /\ protectorPos'[j] = protectorPos[j]
        BY <1>2, <3>2
      <4>2. j \in 1..MaxProtectorId /\ protectorPos[j].epoch \in Nat
        BY <1>5, <4>1 DEF ProtectorIds, ProtectorPosition, Epochs
      <4> QED
        BY <1>2, <1>5, <1>6, <4>1, <4>2
    <3> QED
      BY <3>1, <3>2
  <2>3. nextProtectorId' \in 1..(MaxProtectorId + 1) /\ epoch + 1 < nextProtectorId'
    BY <1>2, <1>5, <1>6
  <2> QED
    BY <1>2, <1>6, <1>12, <2>1, <2>2, <2>3 DEF ReceiptInv
<1>14. BackingInv'
  <2>1. /\ EpochSum(epochBook, "backing") \in Nat
        /\ totalBackingTokenBalance \in Nat /\ heldBacking \in Nat
        /\ heldBacking >= totalBackingTokenBalance
        /\ totalBackingTokenBalance = totalProtectorTokens + EpochSum(epochBook, "backing")
        /\ totalShieldCollateralAmount <= totalProtectorTokens
        /\ totalShieldCollateralAmount \in Nat
    BY <1>1, EpochSumTyped, BackingBooked, ShieldTotalsTyped
  <2>2. totalShieldCollateralAmount <= tokens0
    <3>1. CASE expires
      BY <1>0, <1>1, <2>1, <3>1, NoValueNoCap
    <3>2. CASE ~expires
      BY <1>0, <2>1, <3>2
    <3> QED
      BY <3>1, <3>2
  <2>3. /\ totalProtectorTokens' \in Nat /\ totalBackingTokenBalance' \in Nat
        /\ heldBacking' \in Nat /\ heldBacking' >= totalBackingTokenBalance'
        /\ totalShieldCollateralAmount' = totalShieldCollateralAmount
        /\ totalShieldCollateralAmount' <= totalProtectorTokens'
    BY <1>2, <1>3, <2>1, <2>2 DEF shieldTotals
  <2>4. totalBackingTokenBalance' = totalProtectorTokens' + EpochSum(epochBook', "backing")
    BY <1>1, <1>2, <1>3, <1>10, <2>1
  <2> QED
    BY <2>3, <2>4, BackingBookedNext
<1>15. CustodyInv'
  BY <1>1, <1>2, <1>9, CustodyNext DEF CustodyInv, ShieldedCovered, shieldedCash, shieldTotals
<1>16. StatusInv' /\ ShieldInv'
  BY <1>1, <1>2, StatusInvKept, ShieldInvKept
<1> QED
  BY <1>11, <1>13, <1>14, <1>15, <1>16 DEF AccountingInv

\* A receipt whose unlock request changes keeps its shares.
LEMMA UnlockKeepsInv ==
  ASSUME AccountingInv, NEW id \in protectorLive, NEW time \in Nat,
         protectorPos' = [protectorPos EXCEPT ![id].unlockRequestTime = time],
         UNCHANGED <<shieldVars, protectorLive, nextProtectorId, epochVars, shieldTotals,
                     protectorTotals, book, shieldedCash, backingCash, statusVars,
                     transferIntegrityBroken, envVars>>
  PROVE  AccountingInv'
<1> DEFINE pos == protectorPos[id]
           new == [pos EXCEPT !.unlockRequestTime = time]
<1>1. ShieldInv /\ ReceiptInv /\ LedgerInv /\ BackingInv /\ CustodyInv /\ StatusInv
  BY DEF AccountingInv
<1>2. /\ id \in ProtectorIds /\ pos \in ProtectorPosition
      /\ protectorPos' = [protectorPos EXCEPT ![id] = new]
  BY <1>1 DEF ReceiptInv
<1>3. new \in ProtectorPosition /\ new.shares = pos.shares /\ new.epoch = pos.epoch
  <2> HIDE DEF pos
  <2> QED
    BY <1>2 DEF ProtectorPosition
<1> HIDE DEF new
<1>4. ReceiptInv'
  BY <1>1, <1>2, <1>3, ReceiptKept DEF epochVars, protectorTotals
<1>5. ShieldInv' /\ LedgerInv' /\ BackingInv' /\ CustodyInv' /\ StatusInv'
  BY <1>1, ShieldInvKept, LedgerInvKept, BackingInvKept, CustodyInvKept, StatusInvKept
     DEF epochVars, protectorTotals, shieldTotals
<1> QED
  BY <1>4, <1>5 DEF AccountingInv

LEMMA StartUnlockKeepsInv ==
  ASSUME AccountingInv, NEW id \in ProtectorIds, StartUnlockProcess(id)
  PROVE  AccountingInv'
<1>1. now + config.unlockDuration \in Nat
  BY Environment DEF AccountingInv, StatusInv
<1> QED
  BY <1>1, UnlockKeepsInv DEF StartUnlockProcess

LEMMA CancelUnlockKeepsInv ==
  ASSUME AccountingInv, NEW id \in ProtectorIds, CancelUnlockProcess(id)
  PROVE  AccountingInv'
BY UnlockKeepsInv DEF CancelUnlockProcess

(***************************************************************************)
(* A settled claim, wherever its tokens go: what the buckets lose is at    *)
(* least what the tracked balance loses.                                   *)
(***************************************************************************)
LEMMA ClaimKeepsInv ==
  ASSUME AccountingInv, NEW id \in protectorLive, ApplyClaim(id, ClaimOutcome(id)),
         heldShielded' \in {heldShielded, heldShielded - ClaimOutcome(id).paid}
  PROVE  AccountingInv'
<1> DEFINE claim == ClaimOutcome(id)
           pos == protectorPos[id]
           entry == epochBook[pos.epoch]
           newEntry == claim.entry
           newPos == claim.pos
           newBook == claim.book
           paid == claim.paid
<1>1. /\ ShieldInv /\ ReceiptInv /\ LedgerInv /\ BackingInv /\ CustodyInv /\ StatusInv
      /\ totalProtectorTokens \in Nat
  BY DEF AccountingInv, BackingInv
<1>2. /\ paid \in Nat /\ newBook \in Book
      /\ ReservedFees(newBook) <= ReservedFees(book) - paid
      /\ Partitioned(newBook) /\ WithinBuckets(newBook)
      /\ newEntry \in EpochEntry /\ newEntry.backing = entry.backing
      /\ newBook.historical - newEntry.reserve = book.historical - entry.reserve
      /\ newPos \in ProtectorPosition /\ newPos.shares = pos.shares /\ newPos.epoch = pos.epoch
  BY <1>1, ClaimEffect
<1>3. /\ book' = newBook
      /\ protectorPos' = [protectorPos EXCEPT ![id] = newPos]
      /\ epochBook' = [epochBook EXCEPT ![pos.epoch] = newEntry]
      /\ shieldedTokenBalance' = shieldedTokenBalance - paid
      /\ UNCHANGED <<shieldVars, protectorLive, nextProtectorId, protectorShareEpoch,
                     shieldTotals, protectorTotals, backingCash, statusVars,
                     transferIntegrityBroken, envVars>>
      /\ heldShielded' \in {heldShielded, heldShielded - paid}
  BY DEF ApplyClaim
<1>4. id \in ProtectorIds /\ pos.epoch \in Epochs
  BY <1>1 DEF ReceiptInv, ProtectorPosition
<1> HIDE DEF claim, newEntry, newPos, newBook, paid
<1>5. ReceiptInv'
  BY <1>1, <1>2, <1>3, <1>4, ReceiptKept DEF protectorTotals
<1>6. /\ epochBook' \in [Epochs -> EpochEntry]
      /\ EpochSum(epochBook', "reserve") = book'.historical
      /\ EpochSum(epochBook', "backing") = EpochSum(epochBook, "backing")
  <2>1. /\ epochBook' \in [Epochs -> EpochEntry]
        /\ EpochSum(epochBook, "backing") \in Nat
        /\ entry.reserve \in Nat /\ entry.backing \in Nat
        /\ EpochSum(epochBook', "reserve") = book.historical - entry.reserve + newEntry.reserve
        /\ EpochSum(epochBook', "backing")
             = EpochSum(epochBook, "backing") - entry.backing + newEntry.backing
    BY <1>1, <1>2, <1>3, <1>4, EpochRewrite
  <2>2. newEntry.reserve \in Nat /\ newBook.historical \in Nat /\ book.historical \in Nat
    BY <1>1, <1>2, BookFields DEF LedgerInv, EpochEntry
  <2> QED
    BY <1>2, <1>3, <2>1, <2>2
<1>7. LedgerInv'
  BY <1>2, <1>3, <1>6, LedgerBookedNext
<1>8. BackingInv'
  BY <1>1, <1>3, <1>6, BackingBooked, BackingBookedNext
     DEF protectorTotals, backingCash, shieldTotals
<1>9. CustodyInv'
  <2>1. /\ ReservedFees(book) \in Nat /\ ReservedFees(newBook) \in Nat
        /\ totalShieldedTokens \in Nat
    BY <1>1, <1>2, BookFields, ShieldTotalsTyped DEF LedgerInv
  <2>2. /\ shieldedTokenBalance \in Nat /\ heldShielded \in Nat
        /\ heldShielded >= shieldedTokenBalance
        /\ shieldedTokenBalance >= totalShieldedTokens + ReservedFees(book)
    BY <1>1 DEF CustodyInv, ShieldedCovered
  <2>3. totalShieldedTokens' = totalShieldedTokens
    BY <1>3 DEF shieldTotals
  <2> QED
    BY <1>2, <1>3, <2>1, <2>2, <2>3, CustodyNext
<1>10. ShieldInv' /\ StatusInv'
  BY <1>1, <1>3, ShieldInvKept, StatusInvKept
<1> QED
  BY <1>5, <1>7, <1>8, <1>9, <1>10 DEF AccountingInv

LEMMA CommissionStepsKeepInv ==
  ASSUME AccountingInv, NEW id \in ProtectorIds,
         \/ ClaimCommission(id) \/ ForfeitCommission(id)
         \/ SettleExpiredProtectorPosition(id) \/ EscrowExpiredProtectorCommission(id)
  PROVE  AccountingInv'
<1>1. /\ id \in protectorLive /\ ApplyClaim(id, ClaimOutcome(id))
      /\ heldShielded' \in {heldShielded, heldShielded - ClaimOutcome(id).paid}
  BY DEF ClaimCommission, ForfeitCommission, SettleExpiredProtectorPosition,
         EscrowExpiredProtectorCommission
<1> QED
  BY <1>1, ClaimKeepsInv

\* A claim of residual backing takes at most what the epoch holds.
LEMMA BackingEntryAfterTyped ==
  ASSUME NEW entry \in EpochEntry, NEW shares \in Nat
  PROVE  LET after == BackingEntryAfter(entry, shares)
         IN  /\ after \in EpochEntry
             /\ after.reserve = entry.reserve
             /\ after.backing <= entry.backing
<1>1. entry.backing \in Nat /\ entry.backingShares \in Nat
  BY DEF EpochEntry
<1>2. CASE shares >= entry.backingShares
  <2>1. BackingEntryAfter(entry, shares) = [entry EXCEPT !.backing = 0, !.backingShares = 0]
    BY <1>2 DEF BackingEntryAfter
  <2>2. LET after == [entry EXCEPT !.backing = 0, !.backingShares = 0]
        IN  /\ after \in EpochEntry
            /\ after.reserve = entry.reserve
            /\ after.backing = 0
    BY DEF EpochEntry
  <2> QED
    BY <1>1, <2>1, <2>2
<1>3. CASE ~(shares >= entry.backingShares)
  <2> DEFINE taken == MulDiv(shares, entry.backing, entry.backingShares)
             backing == entry.backing - taken
             claims == entry.backingShares - shares
  <2>1. entry.backingShares \in Nat \ {0} /\ shares <= entry.backingShares
    BY <1>1, <1>3
  <2>2. taken \in Nat /\ taken <= entry.backing
    BY <1>1, <2>1, MulDivType, MulDivShare
  <2>3. BackingEntryAfter(entry, shares)
          = [entry EXCEPT !.backing = backing, !.backingShares = claims]
    BY <1>3 DEF BackingEntryAfter
  <2> HIDE DEF taken
  <2>4. backing \in Nat /\ backing <= entry.backing /\ claims \in Nat
    BY <1>1, <2>1, <2>2
  <2> HIDE DEF backing, claims
  <2>5. LET after == [entry EXCEPT !.backing = backing, !.backingShares = claims]
        IN  /\ after \in EpochEntry
            /\ after.reserve = entry.reserve
            /\ after.backing = backing
    BY <2>4 DEF EpochEntry
  <2> QED
    BY <2>3, <2>4, <2>5
<1> QED
  BY <1>2, <1>3

(***************************************************************************)
(* The receipt of an ended epoch takes its commission and its part of the  *)
(* residue, and is burned: the current shares do not notice.               *)
(***************************************************************************)
LEMMA ExpiredBackingKeepsInv ==
  ASSUME AccountingInv, NEW id \in ProtectorIds, ClaimExpiredBacking(id)
  PROVE  AccountingInv'
<1> DEFINE pos == protectorPos[id]
           claim == ClaimOutcome(id)
           entry == epochBook[pos.epoch]
           claimed == claim.entry
           newEntry == BackingEntryAfter(claimed, pos.shares)
           newPos == [NoProtector EXCEPT !.settled = claim.pos.settled, !.backingSettled = TRUE]
           newBook == claim.book
           paid == claim.paid
           amount == claimed.backing - newEntry.backing
<1>1. /\ ShieldInv /\ ReceiptInv /\ LedgerInv /\ BackingInv /\ CustodyInv /\ StatusInv
      /\ totalProtectorTokens \in Nat /\ totalProtectorShares \in Nat
  BY SharesTyped DEF AccountingInv, BackingInv
<1>2. /\ id \in protectorLive /\ Expired(id)
      /\ book' = newBook
      /\ epochBook' = [epochBook EXCEPT ![pos.epoch] = newEntry]
      /\ protectorLive' = protectorLive \ {id}
      /\ protectorPos' = [protectorPos EXCEPT ![id] = newPos]
      /\ shieldedTokenBalance' = shieldedTokenBalance - paid
      /\ heldShielded' = heldShielded - paid
      /\ totalBackingTokenBalance' = totalBackingTokenBalance - amount
      /\ heldBacking' = heldBacking - amount
      /\ UNCHANGED <<shieldVars, nextProtectorId, protectorShareEpoch, shieldTotals,
                     protectorTotals, statusVars, transferIntegrityBroken, envVars>>
  BY DEF ClaimExpiredBacking
<1>3. /\ paid \in Nat /\ newBook \in Book
      /\ ReservedFees(newBook) <= ReservedFees(book) - paid
      /\ Partitioned(newBook) /\ WithinBuckets(newBook)
      /\ claimed \in EpochEntry /\ claimed.backing = entry.backing
      /\ newBook.historical - claimed.reserve = book.historical - entry.reserve
      /\ claim.pos \in ProtectorPosition
  BY <1>1, <1>2, ClaimEffect
<1>4. /\ pos.epoch \in Epochs /\ pos.shares \in Nat /\ pos.epoch < protectorShareEpoch
      /\ ActiveShares(id) = 0 /\ protectorShareEpoch \in Nat
  BY <1>1, <1>2 DEF ReceiptInv, ProtectorPosition, Expired, ActiveShares, Epochs
<1>5. newPos \in ProtectorPosition
  <2>1. claim.pos.settled \in BOOLEAN /\ 0 \in Epochs
    BY <1>3, Constants DEF ProtectorPosition, Epochs
  <2> HIDE DEF claim
  <2> QED
    BY <2>1 DEF NoProtector, ProtectorPosition
<1> HIDE DEF claim, claimed, newBook, paid, newPos
<1>6. /\ newEntry \in EpochEntry /\ newEntry.reserve = claimed.reserve
      /\ newEntry.backing <= entry.backing
      /\ newEntry.backing \in Nat /\ newEntry.reserve \in Nat /\ amount \in Nat
  <2>1. /\ newEntry \in EpochEntry /\ newEntry.reserve = claimed.reserve
        /\ newEntry.backing <= claimed.backing
    BY <1>3, <1>4, BackingEntryAfterTyped
  <2> HIDE DEF newEntry, pos, entry
  <2>2. newEntry.backing \in Nat /\ newEntry.reserve \in Nat /\ claimed.backing \in Nat
    BY <1>3, <2>1 DEF EpochEntry
  <2> QED
    BY <1>3, <2>1, <2>2
<1> HIDE DEF newEntry
<1>7. ReceiptInv'
  <2>1. \A j \in ProtectorIds \ {id} : j \in protectorLive' <=> j \in protectorLive
    BY <1>2
  <2>2. /\ protectorPos' \in [ProtectorIds -> ProtectorPosition]
        /\ (SharesOf(LiveIn(protectorShareEpoch)))' = totalProtectorShares - 0 + 0
    BY <1>1, <1>2, <1>4, <1>5, <2>1, ReceiptRewrite
  <2>3. totalProtectorShares' = (SharesOf(LiveIn(protectorShareEpoch)))'
    BY <1>1, <1>2, <2>2 DEF protectorTotals
  <2>4. /\ protectorLive' \subseteq ProtectorIds
        /\ \A j \in protectorLive' :
             j < nextProtectorId' /\ protectorPos'[j].epoch <= protectorShareEpoch'
    BY <1>1, <1>2 DEF ReceiptInv
  <2> QED
    BY <1>1, <1>2, <2>2, <2>3, <2>4 DEF ReceiptInv, protectorTotals
<1>8. /\ epochBook' \in [Epochs -> EpochEntry]
      /\ EpochSum(epochBook', "reserve") = book'.historical
      /\ EpochSum(epochBook, "backing") \in Nat
      /\ EpochSum(epochBook', "backing") = EpochSum(epochBook, "backing") - amount
      /\ amount <= EpochSum(epochBook, "backing")
  <2>1. /\ epochBook' \in [Epochs -> EpochEntry]
        /\ EpochSum(epochBook, "backing") \in Nat
        /\ entry.reserve \in Nat /\ entry.backing \in Nat
        /\ entry.backing <= EpochSum(epochBook, "backing")
        /\ EpochSum(epochBook', "reserve") = book.historical - entry.reserve + newEntry.reserve
        /\ EpochSum(epochBook', "backing")
             = EpochSum(epochBook, "backing") - entry.backing + newEntry.backing
    BY <1>1, <1>2, <1>4, <1>6, EpochRewrite
  <2>2. newBook.historical \in Nat /\ book.historical \in Nat
    BY <1>1, <1>3, BookFields DEF LedgerInv
  <2> HIDE DEF entry
  <2>3. EpochSum(epochBook', "reserve") = book'.historical
    BY <1>2, <1>3, <1>6, <2>1, <2>2
  <2> QED
    BY <1>3, <1>6, <2>1, <2>3
<1>9. LedgerInv'
  BY <1>2, <1>3, <1>8, LedgerBookedNext
<1>10. BackingInv'
  <2>1. /\ totalBackingTokenBalance' \in Nat /\ heldBacking' \in Nat
        /\ heldBacking' >= totalBackingTokenBalance'
        /\ totalBackingTokenBalance' = totalProtectorTokens + EpochSum(epochBook', "backing")
    BY <1>1, <1>2, <1>6, <1>8, BackingBooked
  <2> QED
    BY <1>1, <1>2, <2>1, BackingBooked, BackingBookedNext DEF protectorTotals, shieldTotals
<1>11. CustodyInv'
  <2>1. /\ ReservedFees(book) \in Nat /\ ReservedFees(newBook) \in Nat
        /\ totalShieldedTokens \in Nat
    BY <1>1, <1>3, BookFields, ShieldTotalsTyped DEF LedgerInv
  <2>2. /\ shieldedTokenBalance \in Nat /\ heldShielded \in Nat
        /\ heldShielded >= shieldedTokenBalance
        /\ shieldedTokenBalance >= totalShieldedTokens + ReservedFees(book)
    BY <1>1 DEF CustodyInv, ShieldedCovered
  <2>3. totalShieldedTokens' = totalShieldedTokens
    BY <1>2 DEF shieldTotals
  <2> QED
    BY <1>2, <1>3, <2>1, <2>2, <2>3, CustodyNext
<1>12. ShieldInv' /\ StatusInv'
  BY <1>1, <1>2, ShieldInvKept, StatusInvKept
<1> QED
  BY <1>7, <1>9, <1>10, <1>11, <1>12 DEF AccountingInv

\* What a receipt owns in the current epoch is typed and part of the whole.
LEMMA ActiveAmountTyped ==
  ASSUME ReceiptInv, totalProtectorTokens \in Nat, NEW id \in ProtectorIds
  PROVE  /\ ActiveShares(id) \in Nat
         /\ ActiveAmount(id) \in Nat
         /\ id \in protectorLive => /\ ActiveShares(id) <= totalProtectorShares
                                   /\ ActiveAmount(id) <= totalProtectorTokens
         /\ ActiveAmount(id) # 0 => ActiveShares(id) # 0 /\ totalProtectorTokens # 0
<1> DEFINE shares == ActiveShares(id)
<1>1. shares \in Nat /\ totalProtectorShares \in Nat
  BY SharesTyped DEF ReceiptInv, ProtectorPosition, ActiveShares
<1>2. id \in protectorLive => shares <= totalProtectorShares
  <2> SUFFICES ASSUME id \in protectorLive PROVE shares <= totalProtectorShares
    OBVIOUS
  <2>1. protectorPos \in [ProtectorIds -> ProtectorPosition]
    BY DEF ReceiptInv
  <2> DEFINE e == protectorShareEpoch
  <2>2. /\ shares = ShareAt(protectorLive, protectorPos, e, id)
        /\ totalProtectorShares = SharesIn(protectorLive, protectorPos, e)
    BY SharesOfLive DEF ActiveShares, ShareAt
  <2> HIDE DEF shares, e
  <2> QED
    BY <2>1, <2>2, ShareSumChange
<1> HIDE DEF shares
<1>3. CASE shares = 0 \/ totalProtectorTokens = 0 \/ totalProtectorShares = 0
  BY <1>1, <1>2, <1>3 DEF ActiveAmount, AssetsOf, shares
<1>4. CASE ~(shares = 0 \/ totalProtectorTokens = 0 \/ totalProtectorShares = 0)
  <2>1. ActiveAmount(id) = MulDiv(shares, totalProtectorTokens, totalProtectorShares)
    BY <1>4 DEF ActiveAmount, AssetsOf, shares
  <2>2. totalProtectorShares \in Nat \ {0}
    BY <1>1, <1>4
  <2>3. ActiveAmount(id) \in Nat
    BY <1>1, <2>1, <2>2, MulDivType
  <2>4. id \in protectorLive => ActiveAmount(id) <= totalProtectorTokens
    BY <1>1, <1>2, <2>1, <2>2, MulDivShare
  <2> QED
    BY <1>1, <1>2, <1>4, <2>3, <2>4 DEF shares
<1> QED
  BY <1>3, <1>4

(***************************************************************************)
(* A withdrawal burns at most the receipt's shares, and takes backing only *)
(* above what the shield receipts lock.                                    *)
(***************************************************************************)
LEMMA WithdrawalBounds ==
  ASSUME ShieldInv, ReceiptInv, BackingInv, NEW id \in ProtectorIds, NEW amount \in Nat,
         ProtectorExitAllowed(id, amount)
  PROVE  /\ ActiveShares(id) \in Nat \ {0} /\ ActiveShares(id) <= totalProtectorShares
         /\ SharesToBurn(id, amount) \in Nat /\ SharesToBurn(id, amount) <= ActiveShares(id)
         /\ amount <= totalProtectorTokens
         /\ totalShieldCollateralAmount <= totalProtectorTokens - amount
<1>1. /\ id \in protectorLive
      /\ IF amount = 0 THEN DustExitAvailable(id)
         ELSE amount <= ActiveAmount(id) /\ amount <= AvailableForWithdrawal(id)
  BY DEF ProtectorExitAllowed
<1>2. /\ totalProtectorTokens \in Nat /\ totalProtectorShares \in Nat
      /\ totalShieldCollateralAmount \in Nat
      /\ totalShieldCollateralAmount <= totalProtectorTokens
  BY SharesTyped, ShieldTotalsTyped, BackingBooked
<1>3. /\ ActiveShares(id) \in Nat /\ ActiveAmount(id) \in Nat
      /\ ActiveShares(id) <= totalProtectorShares
      /\ ActiveAmount(id) <= totalProtectorTokens
      /\ ActiveAmount(id) # 0 => ActiveShares(id) # 0 /\ totalProtectorTokens # 0
  BY <1>1, <1>2, ActiveAmountTyped
<1>4. ActiveShares(id) # 0 /\ totalProtectorTokens # 0 /\ amount <= totalProtectorTokens
  BY <1>1, <1>2, <1>3 DEF DustExitAvailable
<1>5. SharesToBurn(id, amount) \in Nat /\ SharesToBurn(id, amount) <= ActiveShares(id)
  <2>1. MulDivCeil(amount, totalProtectorShares, totalProtectorTokens) \in Nat
    BY <1>2, <1>4, MulDivType
  <2> QED
    BY <1>3, <2>1 DEF SharesToBurn, Least
<1>6. totalShieldCollateralAmount <= totalProtectorTokens - amount
  <2>1. CASE amount = 0
    BY <1>2, <2>1
  <2>2. CASE amount # 0
    <3>1. CASE ~ShieldedLiabilities
      BY <1>2, <1>4, <3>1 DEF ShieldedLiabilities
    <3>2. CASE ShieldedLiabilities
      BY <1>1, <1>2, <1>3, <2>2, <3>2 DEF AvailableForWithdrawal, Least, Monus
    <3> QED
      BY <3>1, <3>2
  <2> QED
    BY <2>1, <2>2
<1> QED
  BY <1>3, <1>4, <1>5, <1>6

LEMMA ProtectorWithdrawKeepsInv ==
  ASSUME AccountingInv, NEW id \in ProtectorIds, NEW amount \in Nat, ProtectorWithdraw(id, amount)
  PROVE  AccountingInv'
<1> DEFINE pos == protectorPos[id]
           burned == SharesToBurn(id, amount)
           newShares == ActiveShares(id) - burned
           newTotal == totalProtectorShares - burned
           claim == ClaimOutcome(id)
           claimBook == claim.book
           paid == claim.paid
           rest == RedirectDust(claimBook)
           newBook == RedirectOrphaned(rest, newTotal)
           new == IF newShares = 0 THEN NoProtector
                  ELSE ProtectorRemainder(pos, newShares, claimBook.rps)
<1>1. /\ ShieldInv /\ ReceiptInv /\ LedgerInv /\ BackingInv /\ CustodyInv /\ StatusInv
      /\ totalProtectorTokens \in Nat /\ totalProtectorShares \in Nat
  BY SharesTyped DEF AccountingInv, BackingInv
<1>2. /\ id \in protectorLive /\ ProtectorExitAllowed(id, amount) /\ DustFits(claimBook)
      /\ book' = newBook
      /\ protectorLive' = IF newShares = 0 THEN protectorLive \ {id} ELSE protectorLive
      /\ protectorPos' = [protectorPos EXCEPT ![id] = new]
      /\ totalProtectorTokens' = totalProtectorTokens - amount
      /\ totalProtectorShares' = newTotal
      /\ totalBackingTokenBalance' = totalBackingTokenBalance - amount
      /\ heldBacking' = heldBacking - amount
      /\ shieldedTokenBalance' = shieldedTokenBalance - paid
      /\ heldShielded' = heldShielded - paid
      /\ UNCHANGED <<shieldVars, nextProtectorId, epochVars, shieldTotals,
                     statusVars, transferIntegrityBroken, envVars>>
  BY DEF ProtectorWithdraw, ProtectorExitAllowed
<1>3. /\ ActiveShares(id) \in Nat \ {0} /\ ActiveShares(id) <= totalProtectorShares
      /\ burned \in Nat /\ burned <= ActiveShares(id)
      /\ amount <= totalProtectorTokens
      /\ totalShieldCollateralAmount <= totalProtectorTokens - amount
  BY <1>1, <1>2, WithdrawalBounds
<1>4. /\ pos \in ProtectorPosition /\ pos.epoch = protectorShareEpoch /\ ~Expired(id)
      /\ protectorShareEpoch \in Epochs /\ protectorShareEpoch \in Nat
  BY <1>1, <1>3 DEF ReceiptInv, ActiveShares, Expired, ProtectorPosition, Epochs
<1>5. /\ paid \in Nat /\ claimBook \in Book
      /\ ReservedFees(claimBook) <= ReservedFees(book) - paid
      /\ Partitioned(claimBook) /\ WithinBuckets(claimBook)
      /\ claimBook.historical = book.historical
      /\ claimBook.rps \in Nat
  BY <1>1, <1>2, <1>4, ClaimEffect, BookFields
<1> HIDE DEF claim, claimBook, paid, burned
<1>6. newShares \in Nat /\ newTotal \in Nat /\ newTotal = totalProtectorShares - ActiveShares(id) + newShares
  BY <1>1, <1>3
<1> HIDE DEF newShares, newTotal
<1>7. /\ newBook \in Book /\ ReservedFees(newBook) <= ReservedFees(book) - paid
      /\ Partitioned(newBook) /\ WithinBuckets(newBook)
      /\ newBook.historical = book.historical
  <2>1. /\ rest \in Book /\ ReservedFees(rest) = ReservedFees(claimBook)
        /\ Partitioned(rest) /\ WithinBuckets(rest)
        /\ rest.historical = claimBook.historical
    BY <1>2, <1>5, RedirectDustEffect
  <2> HIDE DEF rest
  <2>2. /\ newBook \in Book /\ ReservedFees(newBook) <= ReservedFees(rest)
        /\ Partitioned(newBook) /\ WithinBuckets(newBook)
        /\ newBook.historical = rest.historical
    BY <1>6, <2>1, RedirectOrphanedEffect
  <2> HIDE DEF newBook
  <2>3. /\ ReservedFees(newBook) \in Nat /\ ReservedFees(rest) \in Nat
        /\ ReservedFees(claimBook) \in Nat /\ ReservedFees(book) \in Nat
    BY <1>1, <1>5, <2>1, <2>2, BookFields DEF LedgerInv
  <2> QED
    BY <1>5, <2>1, <2>2, <2>3
<1> HIDE DEF newBook
<1>8. new \in ProtectorPosition /\ (newShares # 0 => new.epoch = protectorShareEpoch
                                    /\ new.shares = newShares)
  <2>1. CASE newShares = 0
    <3>1. 0 \in Epochs
      BY Constants DEF Epochs
    <3> QED
      BY <2>1, <3>1 DEF NoProtector, ProtectorPosition
  <2>2. CASE newShares # 0
    <3> DEFINE debt == RewardDebt(claimBook.rps, newShares)
    <3>1. debt \in Nat
      BY <1>5, <1>6, RewardAssumption, MulDivType DEF RewardDebt
    <3>2. new = [pos EXCEPT !.shares = newShares, !.epoch = protectorShareEpoch,
                            !.debt = debt, !.claimed = 0, !.unlockRequestTime = 0]
      BY <2>2 DEF ProtectorRemainder
    <3> HIDE DEF debt, new, pos
    <3> QED
      BY <1>4, <1>6, <3>1, <3>2 DEF ProtectorPosition
  <2> QED
    BY <2>1, <2>2
<1> HIDE DEF new
<1>9. ReceiptInv'
  <2>1. /\ protectorShareEpoch' = protectorShareEpoch /\ nextProtectorId' = nextProtectorId
        /\ \A j \in ProtectorIds \ {id} : j \in protectorLive' <=> j \in protectorLive
    BY <1>2 DEF epochVars
  <2>2. LET kept == IF id \in protectorLive' /\ new.epoch = protectorShareEpoch
                    THEN new.shares ELSE 0
        IN  /\ protectorPos' \in [ProtectorIds -> ProtectorPosition]
            /\ (SharesOf(LiveIn(protectorShareEpoch)))'
                 = totalProtectorShares - ActiveShares(id) + kept
    BY <1>1, <1>2, <1>8, <2>1, ReceiptRewrite
  <2>3. (IF id \in protectorLive' /\ new.epoch = protectorShareEpoch THEN new.shares ELSE 0)
          = newShares
    BY <1>2, <1>6, <1>8
  <2>4. totalProtectorShares' = (SharesOf(LiveIn(protectorShareEpoch)))'
    BY <1>2, <1>6, <2>2, <2>3
  <2>5. /\ protectorLive' \subseteq ProtectorIds
        /\ \A j \in protectorLive' :
             j < nextProtectorId' /\ protectorPos'[j].epoch <= protectorShareEpoch'
    <3>1. \A j \in protectorLive' : j \in protectorLive
      BY <1>2
    <3>2. /\ protectorLive \subseteq ProtectorIds
          /\ protectorPos \in [ProtectorIds -> ProtectorPosition]
          /\ \A j \in protectorLive :
               j < nextProtectorId /\ protectorPos[j].epoch <= protectorShareEpoch
      BY <1>1 DEF ReceiptInv
    <3>3. id \in protectorLive' => newShares # 0
      BY <1>2
    <3>4. \A j \in protectorLive' : protectorPos'[j] = IF j = id THEN new ELSE protectorPos[j]
      BY <1>2, <3>1, <3>2
    <3> QED
      BY <1>4, <1>8, <2>1, <3>1, <3>2, <3>3, <3>4
  <2>6. /\ protectorShareEpoch < nextProtectorId /\ protectorShareEpoch + 1 < nextProtectorId
        /\ nextProtectorId \in 1..(MaxProtectorId + 1)
    BY <1>1, <1>3 DEF ReceiptInv
  <2> QED
    BY <1>4, <2>1, <2>2, <2>4, <2>5, <2>6 DEF ReceiptInv
<1>10. LedgerInv'
  BY <1>1, <1>2, <1>7, LedgerRewritten DEF epochVars
<1>11. BackingInv'
  <2>1. EpochSum(epochBook', "backing") = EpochSum(epochBook, "backing")
        /\ EpochSum(epochBook, "backing") \in Nat
    BY <1>1, <1>2, EpochSumTyped DEF epochVars
  <2>2. totalShieldCollateralAmount' = totalShieldCollateralAmount
    BY <1>2 DEF shieldTotals
  <2>3. /\ totalProtectorTokens' \in Nat /\ totalBackingTokenBalance' \in Nat
        /\ heldBacking' \in Nat /\ heldBacking' >= totalBackingTokenBalance'
        /\ totalBackingTokenBalance' = totalProtectorTokens' + EpochSum(epochBook', "backing")
    BY <1>1, <1>2, <1>3, <2>1, BackingBooked
  <2> QED
    BY <1>2, <1>3, <2>2, <2>3, BackingBookedNext
<1>12. CustodyInv'
  <2>1. /\ ReservedFees(book) \in Nat /\ ReservedFees(newBook) \in Nat
        /\ totalShieldedTokens \in Nat
    BY <1>1, <1>7, BookFields, ShieldTotalsTyped DEF LedgerInv
  <2>2. /\ shieldedTokenBalance \in Nat /\ heldShielded \in Nat
        /\ heldShielded >= shieldedTokenBalance
        /\ shieldedTokenBalance >= totalShieldedTokens + ReservedFees(book)
    BY <1>1 DEF CustodyInv, ShieldedCovered
  <2>3. totalShieldedTokens' = totalShieldedTokens
    BY <1>2 DEF shieldTotals
  <2> QED
    BY <1>2, <1>5, <1>7, <2>1, <2>2, <2>3, CustodyNext
<1>13. ShieldInv' /\ StatusInv'
  BY <1>1, <1>2, ShieldInvKept, StatusInvKept
<1> QED
  BY <1>9, <1>10, <1>11, <1>12, <1>13 DEF AccountingInv

-----------------------------------------------------------------------------
(* Fee payments, governance, retirement, the environment *)

\* A bucket is emptied and its tokens leave.
LEMMA PayFeeKeepsInv ==
  ASSUME AccountingInv, PayPoolFee \/ PayProtocolFee
  PROVE  AccountingInv'
<1> DEFINE paid == heldShielded - heldShielded'
<1>1. /\ ShieldInv /\ ReceiptInv /\ LedgerInv /\ BackingInv /\ CustodyInv /\ StatusInv
      /\ book \in Book /\ Partitioned(book) /\ WithinBuckets(book)
  BY DEF AccountingInv, LedgerInv, ReservesPartition, BucketsBounded
<1>2. /\ book.commissions \in Nat /\ book.poolFee \in Nat /\ book.protocolFee \in Nat
      /\ ReservedFees(book) = book.poolFee + book.protocolFee + book.commissions
  BY <1>1, BookFields DEF ReservedFees
<1>3. /\ shieldedTokenBalance \in Nat /\ heldShielded \in Nat /\ totalShieldedTokens \in Nat
      /\ heldShielded >= shieldedTokenBalance
      /\ shieldedTokenBalance >= totalShieldedTokens + ReservedFees(book)
  BY <1>1, ShieldTotalsTyped DEF CustodyInv, ShieldedCovered
<1>4. UNCHANGED <<shieldVars, protectorVars, epochVars, shieldTotals, protectorTotals,
                  backingCash, statusVars, transferIntegrityBroken, envVars>>
  BY DEF PayPoolFee, PayProtocolFee, PayFee
<1>5. \E fee \in {book.poolFee, book.protocolFee} :
        /\ shieldedTokenBalance' = shieldedTokenBalance - fee
        /\ heldShielded' = heldShielded - fee
        /\ book' \in Book /\ ReservedFees(book') = ReservedFees(book) - fee
        /\ Partitioned(book') /\ WithinBuckets(book')
        /\ book'.historical = book.historical
  <2>1. CASE PayPoolFee
    <3>1. book' = [book EXCEPT !.poolFee = 0]
          /\ shieldedTokenBalance' = shieldedTokenBalance - book.poolFee
          /\ heldShielded' = heldShielded - book.poolFee
      BY <2>1 DEF PayPoolFee, PayFee
    <3>2. /\ book' \in Book /\ book'.poolFee = 0 /\ book'.protocolFee = book.protocolFee
          /\ book'.commissions = book.commissions /\ book'.current = book.current
          /\ book'.historical = book.historical
      BY <1>1, <3>1 DEF Book
    <3> QED
      BY <1>1, <1>2, <3>1, <3>2, RewardAssumption DEF ReservedFees, Partitioned, WithinBuckets
  <2>2. CASE PayProtocolFee
    <3>1. book' = [book EXCEPT !.protocolFee = 0]
          /\ shieldedTokenBalance' = shieldedTokenBalance - book.protocolFee
          /\ heldShielded' = heldShielded - book.protocolFee
      BY <2>2 DEF PayProtocolFee, PayFee
    <3>2. /\ book' \in Book /\ book'.poolFee = book.poolFee /\ book'.protocolFee = 0
          /\ book'.commissions = book.commissions /\ book'.current = book.current
          /\ book'.historical = book.historical
      BY <1>1, <3>1 DEF Book
    <3> QED
      BY <1>1, <1>2, <3>1, <3>2, RewardAssumption DEF ReservedFees, Partitioned, WithinBuckets
  <2> QED
    BY <2>1, <2>2
<1>6. PICK fee \in {book.poolFee, book.protocolFee} :
        /\ shieldedTokenBalance' = shieldedTokenBalance - fee
        /\ heldShielded' = heldShielded - fee
        /\ book' \in Book /\ ReservedFees(book') = ReservedFees(book) - fee
        /\ Partitioned(book') /\ WithinBuckets(book')
        /\ book'.historical = book.historical
  BY <1>5
<1>7. fee \in Nat /\ fee <= ReservedFees(book) /\ totalShieldedTokens' = totalShieldedTokens
  BY <1>2, <1>4 DEF shieldTotals
<1>8. CustodyInv'
  BY <1>2, <1>3, <1>6, <1>7, CustodyNext
<1>9. LedgerInv'
  BY <1>1, <1>4, <1>6, LedgerRewritten DEF epochVars
<1>10. ShieldInv' /\ ReceiptInv' /\ BackingInv' /\ StatusInv'
  BY <1>1, <1>4, ShieldInvKept, ReceiptInvKept, BackingInvKept, StatusInvKept
     DEF epochVars, protectorTotals, shieldTotals
<1> QED
  BY <1>8, <1>9, <1>10 DEF AccountingInv

\* Switches, settings, quotes and the clock move no token.
LEMMA StatusStepsKeepInv ==
  ASSUME AccountingInv,
         \/ Pause \/ Unpause \/ (\E new \in Configs : UpdatePoolConfig(new))
         \/ ResetShieldedTokenTransferIntegrity \/ OracleUpdate \/ Tick
  PROVE  AccountingInv'
<1>1. ShieldInv /\ ReceiptInv /\ LedgerInv /\ BackingInv /\ CustodyInv /\ StatusInv
  BY DEF AccountingInv
<1>2. UNCHANGED <<shieldVars, protectorVars, epochVars, shieldTotals, protectorTotals, book,
                  shieldedCash, backingCash>>
  BY DEF Pause, Unpause, UpdatePoolConfig, ResetShieldedTokenTransferIntegrity, OracleUpdate,
         Tick, OnlyStatusChanges, PoolUnchanged, shieldedCash, backingCash
<1>3. StatusInv'
  <2>1. CASE Pause \/ Unpause
    BY <1>1, <2>1 DEF Pause, Unpause, OnlyStatusChanges, StatusInv, envVars
  <2>2. CASE \E new \in Configs : UpdatePoolConfig(new)
    BY <1>1, <2>2 DEF UpdatePoolConfig, OnlyStatusChanges, StatusInv, envVars
  <2>3. CASE ResetShieldedTokenTransferIntegrity
    BY <1>1, <2>3 DEF ResetShieldedTokenTransferIntegrity, OnlyStatusChanges, StatusInv,
       envVars, statusVars
  <2>4. CASE OracleUpdate \/ Tick
    BY <1>1, <2>4 DEF OracleUpdate, Tick, PoolUnchanged, StatusInv, statusVars
  <2> QED
    BY <2>1, <2>2, <2>3, <2>4
<1>4. ShieldInv' /\ ReceiptInv' /\ LedgerInv' /\ BackingInv' /\ CustodyInv'
  BY <1>1, <1>2, ShieldInvKept, ReceiptInvKept, LedgerInvKept, BackingInvKept, CustodyInvKept
     DEF epochVars, protectorTotals, shieldTotals
<1> QED
  BY <1>3, <1>4 DEF AccountingInv

\* A sweep takes what is not tracked; the dust sweep also what no share owns.
LEMMA RetirementKeepsInv ==
  ASSUME AccountingInv, RetireEmptyPool \/ RetireDustPool \/ RetireProtectorOnlyPool
  PROVE  AccountingInv'
<1>1. ShieldInv /\ ReceiptInv /\ LedgerInv /\ BackingInv /\ CustodyInv /\ StatusInv
  BY DEF AccountingInv
<1>2. /\ Sweepable
      /\ poolActive' \in BOOLEAN /\ paused' \in BOOLEAN
      /\ heldShielded' = 0
      /\ UNCHANGED <<shieldVars, protectorVars, epochVars, shieldTotals, totalProtectorShares,
                     book, shieldedTokenBalance, config, transferIntegrityBroken, envVars>>
  BY <1>1 DEF RetireEmptyPool, RetireDustPool, RetireProtectorOnlyPool, protectorTotals, StatusInv
<1>3. /\ shieldedTokenBalance = 0 /\ totalShieldCollateralAmount = 0
      /\ totalBackingTokenBalance = totalProtectorTokens
  BY <1>2 DEF Sweepable, ShieldedLiabilities
<1>4. /\ EpochSum(epochBook, "backing") = 0 /\ EpochSum(epochBook', "backing") = 0
      /\ totalProtectorTokens \in Nat /\ totalBackingTokenBalance \in Nat
  BY <1>1, <1>2, <1>3, BackingBooked, EpochSumTyped DEF epochVars
<1>5. BackingInv'
  <2>1. totalShieldCollateralAmount' = 0
    BY <1>2, <1>3 DEF shieldTotals
  <2>2. /\ totalProtectorTokens' \in Nat
        /\ totalBackingTokenBalance' = totalProtectorTokens'
        /\ heldBacking' \in Nat /\ heldBacking' >= totalBackingTokenBalance'
    BY <1>3, <1>4 DEF RetireEmptyPool, RetireDustPool, RetireProtectorOnlyPool, protectorTotals
  <2> QED
    BY <1>4, <2>1, <2>2, BackingBookedNext
<1>6. CustodyInv'
  BY <1>1, <1>2, <1>3 DEF CustodyInv, ShieldedCovered, shieldTotals
<1>7. StatusInv'
  BY <1>1, <1>2 DEF StatusInv, envVars
<1>8. ShieldInv' /\ ReceiptInv' /\ LedgerInv'
  BY <1>1, <1>2, ShieldInvKept, ReceiptInvKept, LedgerInvKept DEF epochVars
<1> QED
  BY <1>5, <1>6, <1>7, <1>8 DEF AccountingInv

LEMMA DonationKeepsInv ==
  ASSUME AccountingInv, Donate
  PROVE  AccountingInv'
<1>1. ShieldInv /\ ReceiptInv /\ LedgerInv /\ BackingInv /\ CustodyInv /\ StatusInv
  BY DEF AccountingInv
<1>2. /\ UNCHANGED <<shieldVars, protectorVars, epochVars, shieldTotals, protectorTotals, book,
                     shieldedTokenBalance, totalBackingTokenBalance, statusVars,
                     transferIntegrityBroken, envVars>>
      /\ heldShielded' \in {heldShielded, heldShielded + 1}
      /\ heldBacking' \in {heldBacking, heldBacking + 1}
  BY DEF Donate, PoolUnchanged
<1>3. CustodyInv'
  BY <1>1, <1>2 DEF CustodyInv, ShieldedCovered, shieldTotals
<1>4. BackingInv'
  BY <1>1, <1>2 DEF BackingInv, CollateralCovered, shieldTotals, protectorTotals, epochVars
<1>5. ShieldInv' /\ ReceiptInv' /\ LedgerInv' /\ StatusInv'
  BY <1>1, <1>2, ShieldInvKept, ReceiptInvKept, LedgerInvKept, StatusInvKept
     DEF epochVars, protectorTotals
<1> QED
  BY <1>3, <1>4, <1>5 DEF AccountingInv

-----------------------------------------------------------------------------
(* The invariant holds in every behaviour *)

LEMMA InitInv ==
  ASSUME Init
  PROVE  AccountingInv
<1>1. /\ NoShield \in ShieldPosition /\ NoEpoch \in EpochEntry /\ EmptyBook \in Book
      /\ NoProtector \in ProtectorPosition
  BY Constants DEF NoShield, ShieldPosition, NoEpoch, EpochEntry, EmptyBook, Book,
     NoProtector, ProtectorPosition, Epochs
<1>2. ShieldInv
  <2>1. ASSUME NEW field \in {"amount", "valueAtDeposit", "collateralAmount"}
        PROVE  ShieldQuantity(field) = 0
    <3> DEFINE f == [i \in ShieldIds |-> shieldPos[i][field]]
    <3>1. f \in [ShieldIds -> Nat] /\ \A i \in ShieldIds : f[i] = 0
      BY <2>1 DEF Init, NoShield
    <3>2. ShieldQuantity(field) = SumOf(f)
      BY DEF ShieldQuantity
    <3> HIDE DEF f
    <3> QED
      BY <3>1, <3>2, FiniteIndices, SumZero
  <2>2. ShieldTotalsExact
    BY <2>1 DEF Init, ShieldTotalsExact
  <2>3. CapsHaveValue
    BY DEF Init, CapsHaveValue, NoShield
  <2>4. nextShieldId \in 1..(MaxShieldId + 1)
    BY Constants DEF Init
  <2> QED
    BY <1>1, <2>2, <2>3, <2>4 DEF Init, ShieldInv
<1>3. ReceiptInv
  <2> DEFINE g == [i \in ProtectorIds |->
                     IF i \in LiveIn(protectorShareEpoch) THEN protectorPos[i].shares ELSE 0]
  <2>1. g \in [ProtectorIds -> Nat] /\ \A i \in ProtectorIds : g[i] = 0
    BY DEF Init, LiveIn
  <2>2. SharesOf(LiveIn(protectorShareEpoch)) = SumOf(g)
    BY DEF SharesOf
  <2> HIDE DEF g
  <2>3. SumOf(g) = 0
    BY <2>1, FiniteIndices, SumZero
  <2>4. nextProtectorId \in 1..(MaxProtectorId + 1)
    BY Constants DEF Init
  <2> QED
    BY <1>1, <2>2, <2>3, <2>4 DEF Init, ReceiptInv
<1>4. LedgerInv /\ EpochSum(epochBook, "backing") = 0
  <2>1. ASSUME NEW field \in {"reserve", "backing"}
        PROVE  EpochSum(epochBook, field) = 0
    <3> DEFINE h == [e \in Epochs |-> epochBook[e][field]]
    <3>1. h \in [Epochs -> Nat] /\ \A e \in Epochs : h[e] = 0
      BY <2>1 DEF Init, NoEpoch
    <3>2. EpochSum(epochBook, field) = SumOf(h)
      BY DEF EpochSum
    <3> HIDE DEF h
    <3> QED
      BY <3>1, <3>2, FiniteIndices, SumZero
  <2>2. BucketsBounded
    BY RewardAssumption DEF Init, BucketsBounded, WithinBuckets, EmptyBook
  <2>3. ReservesPartition
    <3>1. EpochSum(epochBook, "reserve") = 0
      BY <2>1
    <3> QED
      BY <3>1 DEF Init, ReservesPartition, Partitioned, EmptyBook, EpochSum
  <2> QED
    BY <1>1, <2>1, <2>2, <2>3 DEF Init, LedgerInv
<1>5. BackingInv
  BY <1>4 DEF Init, BackingInv, CollateralCovered, EpochSum
<1>6. CustodyInv
  BY DEF Init, CustodyInv, ShieldedCovered, ReservedFees, EmptyBook
<1>7. StatusInv
  BY PoolAssumption DEF Init, StatusInv
<1> QED
  BY <1>2, <1>3, <1>4, <1>5, <1>6, <1>7 DEF AccountingInv

\* The amounts that the calls are made with are natural numbers.
LEMMA WithdrawalAmountTyped ==
  ASSUME AccountingInv, NEW id \in ProtectorIds
  PROVE  PositionAmount(id) \in Nat /\ AvailableForWithdrawal(id) \in Nat
<1>1. /\ ReceiptInv /\ totalProtectorTokens \in Nat /\ totalShieldCollateralAmount \in Nat
      /\ epochBook \in [Epochs -> EpochEntry]
  BY ShieldTotalsTyped DEF AccountingInv, BackingInv, LedgerInv
<1>2. ActiveAmount(id) \in Nat
  BY <1>1, ActiveAmountTyped
<1>3. ExpiredBackingClaim(id) \in Nat
  <2> DEFINE shares == protectorPos[id].shares
             entry == epochBook[protectorPos[id].epoch]
  <2>1. shares \in Nat /\ entry.backing \in Nat /\ entry.backingShares \in Nat
    BY <1>1 DEF ReceiptInv, ProtectorPosition, EpochEntry
  <2>2. entry.backingShares # 0 => MulDiv(shares, entry.backing, entry.backingShares) \in Nat
    <3> HIDE DEF shares, entry
    <3> QED
      BY <2>1, MulDivType
  <2>3. ExpiredBackingClaim(id)
          \in {0, entry.backing} \cup {m \in {MulDiv(shares, entry.backing, entry.backingShares)} :
                                        entry.backingShares # 0}
    BY DEF ExpiredBackingClaim
  <2> QED
    BY <2>1, <2>2, <2>3
<1>4. AvailableForWithdrawal(id) \in Nat
  BY <1>1, <1>2 DEF AvailableForWithdrawal, Least, Monus
<1> QED
  BY <1>2, <1>3, <1>4 DEF PositionAmount

\* Every step of the pool, of its users and of its environment keeps the invariant.
LEMMA NextInv ==
  ASSUME AccountingInv, [Next]_vars
  PROVE  AccountingInv'
<1>1. ASSUME NEW amount \in ShieldedAmounts, DepositShieldedAsset(amount)
      PROVE  AccountingInv'
  BY <1>1, Constants, DepositShieldedKeepsInv
<1>2. ASSUME NEW id \in ShieldIds,
             \/ ShieldedWithdrawSameAsset(id) \/ ShieldedWithdrawCrossAsset(id) \/ ClaimRewards(id)
      PROVE  AccountingInv'
  BY <1>2, SameAssetExitKeepsInv, ActivationKeepsInv, ClaimRewardsKeepsInv
<1>3. ASSUME NEW id \in ShieldIds, NEW amount \in ShieldedAmounts,
             PartialWithdrawShielded(id, amount)
      PROVE  AccountingInv'
  BY <1>3, Constants, PartialWithdrawKeepsInv
<1>4. ASSUME NEW amount \in BackingAmounts, DepositBackingAsset(amount)
      PROVE  AccountingInv'
  BY <1>4, Constants, DepositBackingKeepsInv
<1>5. ASSUME NEW id \in ProtectorIds, StartUnlockProcess(id) \/ CancelUnlockProcess(id)
      PROVE  AccountingInv'
  BY <1>5, StartUnlockKeepsInv, CancelUnlockKeepsInv
<1>6. ASSUME NEW id \in ProtectorIds,
             NEW amount \in BackingAmounts \cup {0, PositionAmount(id), AvailableForWithdrawal(id)},
             ProtectorWithdraw(id, amount)
      PROVE  AccountingInv'
  <2>1. amount \in Nat
    BY <1>6, Constants, WithdrawalAmountTyped
  <2> QED
    BY <1>6, <2>1, ProtectorWithdrawKeepsInv
<1>7. ASSUME NEW id \in ProtectorIds,
             \/ ClaimCommission(id) \/ ForfeitCommission(id)
             \/ SettleExpiredProtectorPosition(id) \/ EscrowExpiredProtectorCommission(id)
      PROVE  AccountingInv'
  BY <1>7, CommissionStepsKeepInv
<1>8. ASSUME NEW id \in ProtectorIds,
             ClaimExpiredProtectorBacking(id) \/ SettleExpiredProtectorBacking(id)
      PROVE  AccountingInv'
  BY <1>8, ExpiredBackingKeepsInv DEF ClaimExpiredProtectorBacking, SettleExpiredProtectorBacking
<1>9. CASE GovernanceNext
  BY <1>9, PayFeeKeepsInv, StatusStepsKeepInv, RetirementKeepsInv DEF GovernanceNext
<1>10. CASE EnvironmentNext
  BY <1>10, StatusStepsKeepInv, DonationKeepsInv DEF EnvironmentNext
<1>11. CASE UNCHANGED vars
  <2>1. UNCHANGED <<shieldVars, protectorVars, epochVars, shieldTotals, protectorTotals, book,
                    shieldedCash, backingCash, statusVars, transferIntegrityBroken, envVars>>
    BY <1>11 DEF vars
  <2> QED
    BY <2>1, ShieldInvKept, ReceiptInvKept, LedgerInvKept, BackingInvKept, CustodyInvKept,
       StatusInvKept DEF AccountingInv, epochVars, protectorTotals, shieldTotals
<1>12. CASE ShieldNext
  BY <1>1, <1>2, <1>3, <1>12 DEF ShieldNext
<1>13. CASE ProtectorNext
  BY <1>4, <1>5, <1>6, <1>7, <1>8, <1>13 DEF ProtectorNext
<1> QED
  BY <1>9, <1>10, <1>11, <1>12, <1>13 DEF Next

\* The accounting invariant holds in every reachable state of the pool, whatever the
\* number of receipts, the amounts, the prices, the rates and the order of the calls.
THEOREM Accounting == Spec => []AccountingInv
<1>1. Init => AccountingInv
  BY InitInv
<1>2. AccountingInv /\ [Next]_vars => AccountingInv'
  BY NextInv
<1> QED
  BY <1>1, <1>2, PTL DEF Spec

-----------------------------------------------------------------------------
\* No variable leaves its type: in particular none of the subtractions of
\* SplitRiskPool.sol underflows.
THEOREM TypeCorrect == Spec => []TypeOK
<1>1. AccountingInv => TypeOK
  <2> SUFFICES ASSUME AccountingInv PROVE TypeOK
    OBVIOUS
  <2>1. ShieldInv /\ ReceiptInv /\ LedgerInv /\ BackingInv /\ CustodyInv /\ StatusInv
    BY DEF AccountingInv
  <2>2. /\ totalShieldedTokens \in Nat /\ totalValueAtDeposit \in Nat
        /\ totalShieldCollateralAmount \in Nat /\ totalProtectorShares \in Nat
    BY <2>1, ShieldTotalsTyped, SharesTyped
  <2>3. protectorShareEpoch \in Epochs
    BY <2>1, Constants DEF ReceiptInv, Epochs
  <2> QED
    BY <2>1, <2>2, <2>3
       DEF TypeOK, ShieldInv, ReceiptInv, LedgerInv, BackingInv, CustodyInv, StatusInv
<1> QED
  BY <1>1, Accounting, PTL

\* The totals that price capacity and lock collateral (totalShieldedTokens,
\* totalValueAtDeposit, totalShieldCollateralAmount) are the sums over the receipts
\* still out, and a burned receipt leaves nothing behind.
THEOREM TotalsExact == Spec => []ShieldTotalsExact
<1>1. AccountingInv => ShieldTotalsExact
  BY DEF AccountingInv, ShieldInv
<1> QED
  BY <1>1, Accounting, PTL

\* The token contracts hold what the pool tracks; the shielded tokens cover every
\* shield receipt and every fee bucket, the backing tokens every active share and
\* every ended epoch.
THEOREM Custody == Spec => []CustodyCovered
<1>1. AccountingInv => CustodyCovered
  BY DEF AccountingInv, BackingInv, CustodyInv, CustodyCovered, BalancesCovered
<1> QED
  BY <1>1, Accounting, PTL

\* Whatever leaves the pool, the caps of the shield receipts stay backed: the check
\* of getAvailableForWithdrawal, the capacity check and the end of an epoch together.
THEOREM Collateral == Spec => []CollateralCovered
<1>1. AccountingInv => CollateralCovered
  BY DEF AccountingInv, BackingInv
<1> QED
  BY <1>1, Accounting, PTL

\* The commissions are the current epoch's reserve and the reserves of the ended
\* epochs, without gap or overlap.
THEOREM Reserves == Spec => []ReservesPartition
<1>1. AccountingInv => ReservesPartition
  BY DEF AccountingInv, LedgerInv
<1> QED
  BY <1>1, Accounting, PTL

\* No fee bucket outgrows MAX_SAFE_ACCUMULATION.
THEOREM Buckets == Spec => []BucketsBounded
<1>1. AccountingInv => BucketsBounded
  BY DEF AccountingInv, LedgerInv
<1> QED
  BY <1>1, Accounting, PTL

=============================================================================
