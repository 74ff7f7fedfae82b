-------------------------- MODULE PoolClaimsProofs --------------------------
(***************************************************************************)
(* Proofs about what the pool of SplitRiskPool.tla owes, for every value   *)
(* of its constants: what a step may never do to a receipt, the books of   *)
(* the ended epochs, the commission that is funded and claimable, and the  *)
(* share of the backing that is each protector's, and the ways out that    *)
(* stay open.  The proofs rest on the accounting of SplitRiskPoolProofs    *)
(* (AccountingInv) and on a second inductive invariant, BooksInv, below.   *)
(***************************************************************************)
EXTENDS SplitRiskPoolProofs

-----------------------------------------------------------------------------
(* What a step does to the receipts *)

\* Protector receipts change in five kinds of step only.
LEMMA ProtectorReceiptSteps ==
  ASSUME AccountingInv, [Next]_vars
  PROVE  \/ UNCHANGED <<protectorLive, protectorPos>>
         \/ \E amount \in BackingAmounts : DepositBackingAsset(amount)
         \/ \E id \in protectorLive, time \in Nat :
              /\ protectorPos' = [protectorPos EXCEPT ![id].unlockRequestTime = time]
              /\ UNCHANGED protectorLive
         \/ \E id \in ProtectorIds, amount \in Nat : ProtectorWithdraw(id, amount)
         \/ \E id \in protectorLive : ApplyClaim(id, ClaimOutcome(id))
         \/ \E id \in ProtectorIds : ClaimExpiredBacking(id)
<1>1. CASE UNCHANGED vars
  BY <1>1 DEF vars, protectorVars
<1>2. CASE ShieldNext
  <2>1. ASSUME NEW amount, DepositShieldedAsset(amount) PROVE UNCHANGED protectorVars
    BY <2>1 DEF DepositShieldedAsset
  <2>2. ASSUME NEW id, \/ ShieldedWithdrawSameAsset(id) \/ ShieldedWithdrawCrossAsset(id)
                       \/ ClaimRewards(id)
        PROVE  UNCHANGED protectorVars
    BY <2>2 DEF ShieldedWithdrawSameAsset, ShieldedWithdrawCrossAsset, ClaimRewards
  <2>3. ASSUME NEW id, NEW amount, PartialWithdrawShielded(id, amount)
        PROVE  UNCHANGED protectorVars
    BY <2>3 DEF PartialWithdrawShielded
  <2>4. UNCHANGED protectorVars
    BY <1>2, <2>1, <2>2, <2>3 DEF ShieldNext
  <2> QED
    BY <2>4 DEF protectorVars
<1>3. ASSUME NEW id \in ProtectorIds, StartUnlockProcess(id) \/ CancelUnlockProcess(id)
      PROVE  \E i \in protectorLive, time \in Nat :
               /\ protectorPos' = [protectorPos EXCEPT ![i].unlockRequestTime = time]
               /\ UNCHANGED protectorLive
  <2>1. now + config.unlockDuration \in Nat
    BY Environment DEF AccountingInv, StatusInv
  <2>2. CASE StartUnlockProcess(id)
    BY <2>1, <2>2 DEF StartUnlockProcess
  <2>3. CASE CancelUnlockProcess(id)
    BY <2>3 DEF CancelUnlockProcess
  <2> QED
    BY <1>3, <2>2, <2>3
<1>4. ASSUME NEW id \in ProtectorIds,
             NEW amount \in BackingAmounts \cup {0, PositionAmount(id), AvailableForWithdrawal(id)},
             ProtectorWithdraw(id, amount)
      PROVE  \E i \in ProtectorIds, a \in Nat : ProtectorWithdraw(i, a)
  <2>1. amount \in Nat
    BY Constants, WithdrawalAmountTyped
  <2> QED
    BY <1>4, <2>1
<1>5. ASSUME NEW id \in ProtectorIds,
             \/ ClaimCommission(id) \/ ForfeitCommission(id)
             \/ SettleExpiredProtectorPosition(id) \/ EscrowExpiredProtectorCommission(id)
      PROVE  \E i \in protectorLive : ApplyClaim(i, ClaimOutcome(i))
  BY <1>5 DEF ClaimCommission, ForfeitCommission, SettleExpiredProtectorPosition,
     EscrowExpiredProtectorCommission
<1>6. ASSUME NEW id \in ProtectorIds,
             ClaimExpiredProtectorBacking(id) \/ SettleExpiredProtectorBacking(id)
      PROVE  ClaimExpiredBacking(id)
  BY <1>6 DEF ClaimExpiredProtectorBacking, SettleExpiredProtectorBacking
<1>7. CASE ProtectorNext
  BY <1>3, <1>4, <1>5, <1>6, <1>7 DEF ProtectorNext
<1>8. CASE GovernanceNext \/ EnvironmentNext
  BY <1>8 DEF GovernanceNext, EnvironmentNext, PayPoolFee, PayProtocolFee, PayFee, Pause, Unpause,
     UpdatePoolConfig, ResetShieldedTokenTransferIntegrity, OnlyStatusChanges, RetireEmptyPool,
     RetireDustPool, RetireProtectorOnlyPool, OracleUpdate, Tick, Donate, PoolUnchanged,
     protectorVars
<1> QED
  BY <1>1, <1>2, <1>7, <1>8 DEF Next

\* Shares fall by the owner's own withdrawal, or with the burn of an ended epoch's receipt.
LEMMA SharesFallByExit ==
  ASSUME AccountingInv, [Next]_vars, NEW i \in protectorLive,
         protectorPos'[i].shares < protectorPos[i].shares, ~Expired(i)
  PROVE  \E amount \in Nat : ProtectorWithdraw(i, amount)
<1>1. /\ protectorLive \subseteq ProtectorIds
      /\ protectorPos \in [ProtectorIds -> ProtectorPosition]
      /\ \A j \in protectorLive : j < nextProtectorId
      /\ nextProtectorId \in Nat /\ protectorPos[i].shares \in Nat
  BY Constants DEF AccountingInv, ReceiptInv, ProtectorPosition
<1>2. ~(protectorPos[i].shares < protectorPos[i].shares)
  BY <1>1
<1>3. ~(UNCHANGED protectorPos)
  BY <1>2
<1>4. ASSUME NEW amount \in BackingAmounts, DepositBackingAsset(amount) PROVE FALSE
  <2>1. i # nextProtectorId
    BY <1>1 DEF ProtectorIds
  <2>2. protectorPos'[i] = protectorPos[i]
    BY <1>1, <1>4, <2>1 DEF DepositBackingAsset
  <2> QED
    BY <1>2, <2>2
<1>5. ASSUME NEW id \in protectorLive, NEW time \in Nat,
             protectorPos' = [protectorPos EXCEPT ![id].unlockRequestTime = time]
      PROVE  FALSE
  <2>1. protectorPos'[i].shares = protectorPos[i].shares
    BY <1>1, <1>5 DEF ProtectorPosition
  <2> QED
    BY <1>2, <2>1
<1>6. ASSUME NEW id \in protectorLive, ApplyClaim(id, ClaimOutcome(id)) PROVE FALSE
  <2>1. ClaimOutcome(id).pos.shares = protectorPos[id].shares
    BY ClaimEffect DEF AccountingInv, BackingInv
  <2>2. protectorPos' = [protectorPos EXCEPT ![id] = ClaimOutcome(id).pos]
    BY <1>6 DEF ApplyClaim
  <2> HIDE DEF ClaimOutcome
  <2>3. protectorPos'[i].shares = protectorPos[i].shares
    BY <1>1, <2>1, <2>2
  <2> QED
    BY <1>2, <2>3
<1>7. ASSUME NEW id \in ProtectorIds, ClaimExpiredBacking(id) PROVE FALSE
  <2>1. id # i
    BY <1>7 DEF ClaimExpiredBacking
  <2>2. protectorPos'[i] = protectorPos[i]
    BY <1>1, <1>7, <2>1 DEF ClaimExpiredBacking
  <2> QED
    BY <1>2, <2>2
<1>8. PICK id \in ProtectorIds, amount \in Nat : ProtectorWithdraw(id, amount)
  BY <1>3, <1>4, <1>5, <1>6, <1>7, ProtectorReceiptSteps
<1>9. id = i
  <2> SUFFICES ASSUME id # i PROVE FALSE
    OBVIOUS
  <2>1. protectorPos'[i] = protectorPos[i]
    BY <1>1, <1>8 DEF ProtectorWithdraw
  <2> QED
    BY <1>2, <2>1
<1> QED
  BY <1>8, <1>9

LEMMA WithdrawalConsumesNotice ==
  ASSUME AccountingInv, [Next]_vars, NEW i \in protectorLive,
         protectorPos'[i].shares < protectorPos[i].shares, ~Expired(i)
  PROVE  /\ protectorPos[i].unlockRequestTime \in 1..now
         /\ now <= protectorPos[i].unlockRequestTime + UnlockWindow
         /\ protectorPos'[i].unlockRequestTime = 0
<1>1. PICK amount \in Nat : ProtectorWithdraw(i, amount)
  BY SharesFallByExit
<1>2. /\ i \in ProtectorIds /\ protectorPos \in [ProtectorIds -> ProtectorPosition]
      /\ protectorPos[i].unlockRequestTime \in Nat /\ now \in Nat
  BY DEF AccountingInv, ReceiptInv, StatusInv, ProtectorPosition
<1>3. UnlockActive(protectorPos[i].unlockRequestTime)
  BY <1>1 DEF ProtectorWithdraw, ProtectorExitAllowed
<1>4. protectorPos'[i].unlockRequestTime = 0
  <2> DEFINE newShares == ActiveShares(i) - SharesToBurn(i, amount)
             rps == ClaimOutcome(i).book.rps
  <2>1. protectorPos' = [protectorPos EXCEPT ![i] =
          IF newShares = 0 THEN NoProtector ELSE ProtectorRemainder(protectorPos[i], newShares, rps)]
    BY <1>1 DEF ProtectorWithdraw
  <2>2. NoProtector.unlockRequestTime = 0
    BY DEF NoProtector
  <2>3. ProtectorRemainder(protectorPos[i], newShares, rps).unlockRequestTime = 0
    <3> HIDE DEF newShares, rps
    <3> DEFINE pos == protectorPos[i]
               debt == RewardDebt(rps, newShares)
    <3>1. pos \in ProtectorPosition
      BY <1>2
    <3>2. ProtectorRemainder(pos, newShares, rps)
            = [pos EXCEPT !.shares = newShares, !.epoch = protectorShareEpoch,
                          !.debt = debt, !.claimed = 0, !.unlockRequestTime = 0]
      BY DEF ProtectorRemainder
    <3> HIDE DEF pos, debt
    <3>3. [pos EXCEPT !.shares = newShares, !.epoch = protectorShareEpoch,
                      !.debt = debt, !.claimed = 0, !.unlockRequestTime = 0].unlockRequestTime = 0
      BY <3>1 DEF ProtectorPosition
    <3> QED
      BY <3>2, <3>3 DEF pos
  <2> HIDE DEF newShares, rps
  <2> QED
    BY <1>2, <2>1, <2>2, <2>3
<1> QED
  BY <1>2, <1>3, <1>4 DEF UnlockActive

\* Every withdrawal of backing is inside the window of one matured unlock request, and
\* leaves none behind: _isProtectorUnlockActive, with the reset of a partial exit.
THEOREM NoticePerExit == Spec => OneNoticePerExit
<1>1. AccountingInv /\ [Next]_vars =>
        [\A i \in protectorLive :
           protectorPos'[i].shares < protectorPos[i].shares /\ ~Expired(i)
           => /\ protectorPos[i].unlockRequestTime \in 1..now
              /\ now <= protectorPos[i].unlockRequestTime + UnlockWindow
              /\ protectorPos'[i].unlockRequestTime = 0]_vars
  BY WithdrawalConsumesNotice
<1> QED
  BY <1>1, Accounting, PTL DEF Spec, OneNoticePerExit

\* Shield receipts change in five kinds of step only.
LEMMA ShieldReceiptSteps ==
  ASSUME [Next]_vars
  PROVE  \/ UNCHANGED shieldVars
         \/ \E amount \in ShieldedAmounts : DepositShieldedAsset(amount)
         \/ \E id \in shieldLive : BurnShield(id)
         \/ \E id \in ShieldIds : ClaimRewards(id)
         \/ \E id \in ShieldIds, amount \in ShieldedAmounts : PartialWithdrawShielded(id, amount)
<1>1. CASE UNCHANGED vars
  BY <1>1 DEF vars
<1>2. ASSUME NEW id \in ShieldIds, ShieldedWithdrawSameAsset(id) \/ ShieldedWithdrawCrossAsset(id)
      PROVE  id \in shieldLive /\ BurnShield(id)
  <2>1. CASE ShieldedWithdrawSameAsset(id)
    BY <2>1 DEF ShieldedWithdrawSameAsset, SameAssetExitAllowed
  <2>2. CASE ShieldedWithdrawCrossAsset(id)
    BY <2>2 DEF ShieldedWithdrawCrossAsset, ActivationAllowed
  <2> QED
    BY <1>2, <2>1, <2>2
<1>3. CASE ShieldNext
  BY <1>2, <1>3 DEF ShieldNext
<1>4. CASE ProtectorNext
  <2>1. ASSUME NEW amount, DepositBackingAsset(amount) PROVE UNCHANGED shieldVars
    BY <2>1 DEF DepositBackingAsset
  <2>2. ASSUME NEW id, StartUnlockProcess(id) \/ CancelUnlockProcess(id)
        PROVE  UNCHANGED shieldVars
    BY <2>2 DEF StartUnlockProcess, CancelUnlockProcess
  <2>3. ASSUME NEW id, NEW amount, ProtectorWithdraw(id, amount) PROVE UNCHANGED shieldVars
    BY <2>3 DEF ProtectorWithdraw
  <2>4. ASSUME NEW id, \/ ClaimCommission(id) \/ ForfeitCommission(id)
                       \/ SettleExpiredProtectorPosition(id)
                       \/ EscrowExpiredProtectorCommission(id)
        PROVE  UNCHANGED shieldVars
    BY <2>4 DEF ClaimCommission, ForfeitCommission, SettleExpiredProtectorPosition,
       EscrowExpiredProtectorCommission, ApplyClaim
  <2>5. ASSUME NEW id, ClaimExpiredProtectorBacking(id) \/ SettleExpiredProtectorBacking(id)
        PROVE  UNCHANGED shieldVars
    BY <2>5 DEF ClaimExpiredProtectorBacking, SettleExpiredProtectorBacking, ClaimExpiredBacking
  <2> QED
    BY <1>4, <2>1, <2>2, <2>3, <2>4, <2>5 DEF ProtectorNext
<1>5. CASE GovernanceNext \/ EnvironmentNext
  BY <1>5 DEF GovernanceNext, EnvironmentNext, PayPoolFee, PayProtocolFee, PayFee, Pause, Unpause,
     UpdatePoolConfig, ResetShieldedTokenTransferIntegrity, OnlyStatusChanges, RetireEmptyPool,
     RetireDustPool, RetireProtectorOnlyPool, OracleUpdate, Tick, Donate, PoolUnchanged
<1> QED
  BY <1>1, <1>3, <1>4, <1>5 DEF Next

\* Rounding up never gives less than the exact proportion.
LEMMA MulDivCeilCovers ==
  ASSUME NEW a \in Nat, NEW b \in Nat, NEW d \in Nat \ {0}
  PROVE  MulDivCeil(a, b, d) * d >= a * b
<1> DEFINE x == a * b + d - 1
<1>1. a * b \in Nat /\ x \in Nat
  BY ProductType
<1>2. MulDivCeil(a, b, d) = x \div d
  BY DEF MulDivCeil
<1> HIDE DEF x
<1>3. x < d * (x \div d) + d /\ x \div d \in Nat
  BY <1>1, QuotientBounds
<1>4. d * (x \div d) = (x \div d) * d /\ d * (x \div d) \in Nat
  BY <1>3
<1> QED
  BY <1>1, <1>2, <1>3, <1>4 DEF x

\* A proportion of what is left after fees is no less than one of the whole.
LEMMA RemainderShare ==
  ASSUME NEW v \in Nat, NEW rest \in Nat, NEW left \in Nat \ {0}, NEW amount \in Nat,
         left <= amount
  PROVE  MulDivCeil(v, rest, left) * amount >= v * rest
<1> DEFINE w == MulDivCeil(v, rest, left)
<1>1. w \in Nat /\ w * left >= v * rest
  BY MulDivType, MulDivCeilCovers
<1> HIDE DEF w
<1>2. w * amount >= w * left /\ w * amount \in Nat /\ w * left \in Nat /\ v * rest \in Nat
  BY <1>1
<1> QED
  BY <1>1, <1>2 DEF w

\* Only a partial exit burns a receipt and mints another in the same step.
LEMMA PartialExitKeepsTerms ==
  ASSUME AccountingInv, [Next]_vars,
         NEW i \in shieldLive \ shieldLive', NEW j \in shieldLive' \ shieldLive
  PROVE  LET old == shieldPos[i]
             new == shieldPos'[j]
         IN  /\ new.depositTime = old.depositTime /\ lastClaim'[j] = lastClaim[i]
             /\ new.valueAtDeposit <= old.valueAtDeposit
             /\ new.collateralAmount <= old.collateralAmount
             /\ new.valueAtDeposit * old.amount >= old.valueAtDeposit * new.amount
             /\ new.collateralAmount * old.amount >= old.collateralAmount * new.amount
<1>1. /\ ShieldInv /\ ReceiptInv /\ LedgerInv /\ BackingInv /\ CustodyInv /\ StatusInv
      /\ totalProtectorTokens \in Nat
  BY DEF AccountingInv, BackingInv
<1>2. PICK id \in ShieldIds, amount \in ShieldedAmounts : PartialWithdrawShielded(id, amount)
  BY ShieldReceiptSteps DEF shieldVars, DepositShieldedAsset, BurnShield, ClaimRewards
<1> DEFINE pos == shieldPos[id]
           settled == SettleFees(id, SettlementPrice)
           left == pos.amount - settled.fees
           remaining == left - amount
           new == Remainder(pos, remaining, left)
<1>3. /\ id \in shieldLive /\ nextShieldId <= MaxShieldId
      /\ amount \in Nat /\ amount # 0 /\ CanSettleFees(id, SettlementPrice)
      /\ pos.amount >= amount + settled.fees
      /\ shieldLive' = (shieldLive \ {id}) \cup {nextShieldId}
      /\ shieldPos' = [shieldPos EXCEPT ![id] = NoShield, ![nextShieldId] = new]
      /\ lastClaim' = [lastClaim EXCEPT ![id] = 0, ![nextShieldId] = lastClaim[id]]
  BY <1>2, Constants DEF PartialWithdrawShielded
<1>4. settled.fees \in Nat /\ settled.fees <= pos.amount
  BY <1>1, <1>3, Environment, SettleFeesEffect
<1>5. /\ pos.amount \in Nat /\ pos.valueAtDeposit \in Nat /\ pos.collateralAmount \in Nat
      /\ pos \in ShieldPosition /\ (pos.valueAtDeposit = 0 => pos.collateralAmount = 0)
  BY <1>1, ShieldTotalsTyped DEF ShieldInv, CapsHaveValue
<1> HIDE DEF settled, new
<1>6. /\ left \in Nat \ {0} /\ left <= pos.amount
      /\ remaining \in Nat /\ remaining <= left
  BY <1>3, <1>4, <1>5
<1> HIDE DEF left, remaining, pos
<1>7. /\ new \in ShieldPosition /\ new.amount = remaining
      /\ new.valueAtDeposit <= pos.valueAtDeposit
      /\ new.collateralAmount <= pos.collateralAmount
  BY <1>5, <1>6, RemainderTyped DEF new
<1>8. /\ new.depositTime = pos.depositTime
      /\ new.valueAtDeposit = MulDivCeil(pos.valueAtDeposit, remaining, left)
      /\ new.collateralAmount = MulDivCeil(pos.collateralAmount, remaining, left)
  BY DEF new, Remainder
<1>9. /\ new.valueAtDeposit * pos.amount >= pos.valueAtDeposit * new.amount
      /\ new.collateralAmount * pos.amount >= pos.collateralAmount * new.amount
  BY <1>5, <1>6, <1>7, <1>8, RemainderShare
<1>10. id \in ShieldIds /\ nextShieldId \in ShieldIds /\ id # nextShieldId
  BY <1>1, <1>3, <1>7, ShieldReplace
<1>11. i = id /\ j = nextShieldId
  BY <1>3
<1>12. shieldPos'[j] = new /\ lastClaim'[j] = lastClaim[i] /\ shieldPos[i] = pos
  BY <1>1, <1>3, <1>10, <1>11 DEF ShieldInv, pos
<1> QED
  BY <1>7, <1>8, <1>9, <1>12

\* A partial exit (_splitShieldPosition by way of shieldedWithdraw of a part) hands its
\* terms on, whatever fees it pays on the way.
THEOREM TermsHandedOn == Spec => RemainderKeepsTerms
<1>1. AccountingInv /\ [Next]_vars =>
        [\A i \in shieldLive \ shieldLive', j \in shieldLive' \ shieldLive :
           LET old == shieldPos[i]
               new == shieldPos'[j]
           IN  /\ new.depositTime = old.depositTime /\ lastClaim'[j] = lastClaim[i]
               /\ new.valueAtDeposit <= old.valueAtDeposit
               /\ new.collateralAmount <= old.collateralAmount
               /\ new.valueAtDeposit * old.amount >= old.valueAtDeposit * new.amount
               /\ new.collateralAmount * old.amount >= old.collateralAmount * new.amount]_vars
  BY PartialExitKeepsTerms
<1> QED
  BY <1>1, Accounting, PTL DEF Spec, RemainderKeepsTerms

-----------------------------------------------------------------------------
(* The high-water mark *)

\* Without yield above the mark there is no fee.
LEMMA NoYieldNoFees ==
  ASSUME NEW amount \in Nat, NEW price \in Nat \ {0}, NEW rate \in Nat, NEW yield, yield = 0
  PROVE  TotalFees(ScaleFees([commission |-> FeeAmount(yield, CommissionRate, price),
                              pool       |-> FeeAmount(yield, PoolFeeRate, price),
                              protocol   |-> FeeAmount(yield, rate, price)], amount)) = 0
<1>1. ASSUME NEW r \in Nat PROVE FeeAmount(yield, r, price) = 0
  <2>1. MulDivCeil(0, r, BasisPointScale) = 0 <=> 0 * r = 0
    BY Constants, MulDivCeilPositive
  <2>2. 0 * r = 0
    OBVIOUS
  <2> QED
    BY <2>1, <2>2 DEF FeeAmount
<1> DEFINE asked == [commission |-> FeeAmount(yield, CommissionRate, price),
                     pool       |-> FeeAmount(yield, PoolFeeRate, price),
                     protocol   |-> FeeAmount(yield, rate, price)]
<1>2. asked = NoFees
  BY <1>1, Constants DEF NoFees
<1> HIDE DEF asked
<1>3. TotalFees(NoFees) = 0
  BY DEF TotalFees, NoFees
<1>4. ScaleFees(NoFees, amount) = NoFees
  BY <1>3 DEF ScaleFees
<1> QED
  BY <1>2, <1>3, <1>4 DEF asked

\* The mark that settlement leaves is where the value got to, or the old one if higher.
LEMMA MarkReached ==
  ASSUME AccountingInv, NEW id \in ShieldIds, NEW price \in Nat, CanSettleFees(id, price)
  PROVE  LET settled == SettleFees(id, price)
             left == shieldPos[id].amount - settled.fees
         IN  /\ settled.baseline \in {feeBaseline[id]} \/ settled.baseline >= Baseline(id)
             /\ settled.fees # 0 =>
                  /\ ~transferIntegrityBroken /\ price # 0
                  /\ settled.baseline >= Baseline(id)
                  /\ settled.baseline >= MulDiv(left, price, ShieldedScale)
<1>1. /\ ShieldInv /\ ReceiptInv /\ LedgerInv /\ StatusInv /\ totalProtectorTokens \in Nat
  BY DEF AccountingInv, BackingInv
<1> DEFINE settled == SettleFees(id, price)
           amount == shieldPos[id].amount
           fees == IF transferIntegrityBroken THEN NoFees ELSE FeesDue(id, price)
           left == amount - TotalFees(fees)
           at == IF transferIntegrityBroken THEN shieldedQuote.fee ELSE price
           reached == MulDiv(left, at, ShieldedScale)
           base == Baseline(id)
           mark == IF transferIntegrityBroken /\ (at = 0 \/ amount = 0 \/ reached <= base)
                   THEN feeBaseline[id]
                   ELSE IF reached > base THEN reached ELSE base
<1>2. settled.fees = TotalFees(fees) /\ settled.baseline = mark
  BY DEF SettleFees
<1>3. base \in Nat /\ amount \in Nat /\ settled.fees \in Nat /\ settled.fees <= amount
  BY <1>1, SettleFeesEffect DEF ShieldInv, ShieldPosition, Baseline
<1>4. transferIntegrityBroken => settled.fees = 0
  BY <1>2 DEF TotalFees, NoFees
<1>5. ~transferIntegrityBroken => price # 0
  BY DEF CanSettleFees
<1>6. reached \in Nat
  <2>1. left \in Nat /\ at \in Nat
    BY <1>1, <1>2, <1>3, Environment
  <2> HIDE DEF left, at
  <2> QED
    BY <2>1, Constants, MulDivType
<1>7. transferIntegrityBroken \in BOOLEAN
  BY <1>1 DEF StatusInv
<1>8. settled.fees # 0 => reached = MulDiv(amount - settled.fees, price, ShieldedScale)
  BY <1>2, <1>4, <1>7
<1> HIDE DEF settled, left, at, reached, base, fees
<1>9. mark = feeBaseline[id] \/ mark >= base
  BY <1>3, <1>6
<1>10. ~transferIntegrityBroken => mark >= base /\ mark >= reached
  BY <1>3, <1>6
<1> HIDE DEF mark, amount
<1> QED
  BY <1>2, <1>4, <1>5, <1>7, <1>8, <1>9, <1>10 DEF settled, base, amount

LEMMA ClaimRewardsTaxesOnce ==
  ASSUME AccountingInv, NEW id \in ShieldIds, ClaimRewards(id)
  PROVE  /\ Baseline(id)' >= Baseline(id)
         /\ shieldPos'[id].amount < shieldPos[id].amount
            => shieldPos'[id].amount # 0 /\ TotalFees(FeesDue(id, SettlementPrice)') = 0
<1> DEFINE pos == shieldPos[id]
           settled == SettleFees(id, SettlementPrice)
           left == pos.amount - settled.fees
           mark == settled.baseline
           price == SettlementPrice
<1>1. /\ ShieldInv /\ ReceiptInv /\ LedgerInv /\ StatusInv /\ totalProtectorTokens \in Nat
  BY DEF AccountingInv, BackingInv
<1>2. /\ id \in shieldLive /\ CanSettleFees(id, price)
      /\ settled.fees # 0 => settled.fees < pos.amount
      /\ shieldPos' = [shieldPos EXCEPT ![id].amount = @ - settled.fees]
      /\ feeBaseline' = [feeBaseline EXCEPT ![id] = settled.baseline]
      /\ UNCHANGED <<config, shieldedQuote>>
  BY DEF ClaimRewards, statusVars, envVars
<1>3. /\ pos \in ShieldPosition /\ pos.amount \in Nat /\ pos.valueAtDeposit \in Nat
      /\ feeBaseline[id] \in Nat /\ price \in Nat /\ config.protocolFee \in Nat
  BY <1>1, Environment DEF ShieldInv, ShieldPosition
<1>4. /\ settled.fees \in Nat /\ settled.fees <= pos.amount /\ mark \in Nat
  BY <1>1, <1>2, <1>3, SettleFeesEffect
<1>5. /\ mark = feeBaseline[id] \/ mark >= Baseline(id)
      /\ settled.fees # 0 => /\ price # 0
                             /\ mark >= Baseline(id)
                             /\ mark >= MulDiv(left, price, ShieldedScale)
  BY <1>2, <1>3, MarkReached
<1> HIDE DEF settled, mark
<1>6. /\ shieldPos'[id].amount = left /\ left \in Nat
      /\ shieldPos'[id].valueAtDeposit = pos.valueAtDeposit
      /\ feeBaseline'[id] = mark
  BY <1>1, <1>2, <1>3, <1>4 DEF ShieldInv, ShieldPosition, mark
<1>7. price' = price
  BY <1>2 DEF SettlementPrice
<1> HIDE DEF price
<1>8. Baseline(id)' = IF mark = 0 THEN pos.valueAtDeposit ELSE mark
  BY <1>6 DEF Baseline
<1>9. Baseline(id) = IF feeBaseline[id] = 0 THEN pos.valueAtDeposit ELSE feeBaseline[id]
  BY DEF Baseline
<1>10. Baseline(id)' >= Baseline(id)
  BY <1>3, <1>4, <1>5, <1>8, <1>9
<1>11. ASSUME left < pos.amount
       PROVE  left # 0 /\ TotalFees(FeesDue(id, price)') = 0
  <2>1. settled.fees # 0 /\ left # 0
    BY <1>2, <1>3, <1>4, <1>11
  <2>2. price \in Nat \ {0} /\ MulDiv(left, price, ShieldedScale) \in Nat
    BY <1>3, <1>5, <1>6, <2>1, Constants, MulDivType
  <2> DEFINE yield == Monus(MulDiv(left, price, ShieldedScale), Baseline(id)')
             rate == config.protocolFee
  <2>3. yield = 0
    <3> DEFINE reached == MulDiv(left, price, ShieldedScale)
    <3>1. reached \in Nat /\ mark >= reached
      BY <1>5, <2>1, <2>2
    <3> HIDE DEF reached
    <3>2. Baseline(id)' >= reached
      BY <1>3, <1>4, <1>8, <3>1
    <3>3. Baseline(id)' \in Nat
      BY <1>3, <1>4, <1>8
    <3>4. Monus(reached, Baseline(id)') = 0
      BY <3>1, <3>2, <3>3 DEF Monus
    <3> QED
      BY <3>4 DEF reached
  <2>4. FeesDue(id, price)'
          = ScaleFees([commission |-> FeeAmount(yield, CommissionRate, price),
                       pool       |-> FeeAmount(yield, PoolFeeRate, price),
                       protocol   |-> FeeAmount(yield, rate, price)], left)
    BY <1>2, <1>6, <1>7 DEF FeesDue
  <2> HIDE DEF yield, rate
  <2>5. rate \in Nat
    BY <1>3 DEF rate
  <2> QED
    BY <1>6, <2>1, <2>2, <2>3, <2>4, <2>5, NoYieldNoFees
<1> QED
  BY <1>6, <1>10, <1>11 DEF price

\* Every other step leaves a surviving receipt's deposit and mark as they were.
LEMMA SurvivorTaxedOnce ==
  ASSUME AccountingInv, [Next]_vars, NEW i \in shieldLive \cap shieldLive'
  PROVE  /\ Baseline(i)' >= Baseline(i)
         /\ shieldPos'[i].amount < shieldPos[i].amount
            => shieldPos'[i].amount # 0 /\ TotalFees(FeesDue(i, SettlementPrice)') = 0
<1>1. /\ i \in ShieldIds /\ i # nextShieldId /\ shieldPos[i].amount \in Nat
      /\ Baseline(i) \in Nat /\ \A k \in shieldLive : k < nextShieldId
      /\ shieldPos \in [ShieldIds -> ShieldPosition] /\ feeBaseline \in [ShieldIds -> Nat]
  BY DEF AccountingInv, ShieldInv, ShieldPosition, Baseline, ShieldIds
<1>2. ASSUME shieldPos'[i] = shieldPos[i], feeBaseline'[i] = feeBaseline[i]
      PROVE  /\ Baseline(i)' >= Baseline(i)
             /\ ~(shieldPos'[i].amount < shieldPos[i].amount)
  <2>1. Baseline(i)' = Baseline(i)
    BY <1>2 DEF Baseline
  <2> QED
    BY <1>1, <1>2, <2>1
<1>3. CASE UNCHANGED shieldVars
  BY <1>2, <1>3 DEF shieldVars
<1>4. ASSUME NEW amount \in ShieldedAmounts, DepositShieldedAsset(amount)
      PROVE  shieldPos'[i] = shieldPos[i] /\ feeBaseline'[i] = feeBaseline[i]
  BY <1>1, <1>4 DEF DepositShieldedAsset
<1>5. ASSUME NEW id \in shieldLive, BurnShield(id)
      PROVE  shieldPos'[i] = shieldPos[i] /\ feeBaseline'[i] = feeBaseline[i]
  BY <1>1, <1>5 DEF BurnShield
<1>6. ASSUME NEW id \in ShieldIds, NEW amount \in ShieldedAmounts,
             PartialWithdrawShielded(id, amount)
      PROVE  shieldPos'[i] = shieldPos[i] /\ feeBaseline'[i] = feeBaseline[i]
  <2>1. /\ shieldLive' = (shieldLive \ {id}) \cup {nextShieldId}
        /\ \E new, mark : /\ shieldPos' = [shieldPos EXCEPT ![id] = NoShield, ![nextShieldId] = new]
                          /\ feeBaseline' = [feeBaseline EXCEPT ![id] = 0, ![nextShieldId] = mark]
    BY <1>6 DEF PartialWithdrawShielded
  <2>2. i # id
    BY <1>1, <2>1
  <2> QED
    BY <1>1, <2>1, <2>2
<1>7. ASSUME NEW id \in ShieldIds, ClaimRewards(id), id # i
      PROVE  shieldPos'[i] = shieldPos[i] /\ feeBaseline'[i] = feeBaseline[i]
  BY <1>1, <1>7 DEF ClaimRewards
<1>8. ASSUME ClaimRewards(i)
      PROVE  /\ Baseline(i)' >= Baseline(i)
             /\ shieldPos'[i].amount < shieldPos[i].amount
                => shieldPos'[i].amount # 0 /\ TotalFees(FeesDue(i, SettlementPrice)') = 0
  BY <1>1, <1>8, ClaimRewardsTaxesOnce
<1> QED
  BY <1>2, <1>3, <1>4, <1>5, <1>6, <1>7, <1>8, ShieldReceiptSteps

\* No yield is charged twice, and no high-water mark ever falls
\* (_calculateAndAccumulateFeesAtPrice, _advanceFeeBaselineWithoutAccruingFees).
THEOREM TaxedOnce == Spec => YieldTaxedOnce
<1>1. AccountingInv /\ [Next]_vars =>
        [\A i \in shieldLive \cap shieldLive' :
           /\ Baseline(i)' >= Baseline(i)
           /\ shieldPos'[i].amount < shieldPos[i].amount
              => shieldPos'[i].amount # 0 /\ TotalFees(FeesDue(i, SettlementPrice)') = 0]_vars
  BY SurvivorTaxedOnce
<1> QED
  BY <1>1, Accounting, PTL DEF Spec, YieldTaxedOnce

-----------------------------------------------------------------------------
(* Retired pools *)

(***************************************************************************)
(* What a retired pool keeps.  The rest of RetiredPoolOwesNothing follows  *)
(* from it by the accounting: a pool without shielded tokens has no fee    *)
(* reserved, and backing that is all active leaves no ended epoch any.     *)
(***************************************************************************)
RetiredEmpty ==
  ~poolActive => /\ shieldedTokenBalance = 0 /\ ~ShieldedLiabilities
                 /\ totalBackingTokenBalance = totalProtectorTokens

LEMMA EmptyPoolOwesNothing ==
  ASSUME AccountingInv, totalBackingTokenBalance = totalProtectorTokens
  PROVE  /\ \A e \in Epochs : epochBook[e].backing = 0
         /\ \A i \in protectorLive : ExpiredBackingClaim(i) = 0
         /\ shieldedTokenBalance = 0 =>
              /\ totalShieldedTokens = 0 /\ ReservedFees(book) = 0
              /\ \A i \in ShieldIds : shieldPos[i].amount = 0
<1>1. ShieldInv /\ ReceiptInv /\ LedgerInv /\ BackingInv /\ CustodyInv
  BY DEF AccountingInv
<1> DEFINE f == [e \in Epochs |-> epochBook[e].backing]
<1>2. f \in [Epochs -> Nat]
  BY <1>1 DEF LedgerInv, EpochEntry
<1>3. SumOf(f) \in Nat /\ totalBackingTokenBalance = totalProtectorTokens + SumOf(f)
      /\ totalProtectorTokens \in Nat
  BY <1>1, <1>2, FiniteIndices, SumType DEF BackingInv
<1>4. ASSUME NEW e \in Epochs PROVE f[e] = 0
  <2> HIDE DEF f
  <2>1. f[e] \in Nat /\ f[e] <= SumOf(f)
    BY <1>2, FiniteIndices, SumBound
  <2> QED
    BY <1>3, <2>1
<1>5. \A e \in Epochs : epochBook[e].backing = 0
  BY <1>4
<1>6. ASSUME NEW i \in protectorLive PROVE ExpiredBackingClaim(i) = 0
  <2>1. protectorPos[i].epoch \in Epochs
    BY <1>1 DEF ReceiptInv, ProtectorPosition
  <2> QED
    BY <1>5, <2>1 DEF ExpiredBackingClaim
<1>7. ASSUME shieldedTokenBalance = 0
      PROVE  totalShieldedTokens = 0 /\ ReservedFees(book) = 0
             /\ \A i \in ShieldIds : shieldPos[i].amount = 0
  <2>1. /\ totalShieldedTokens \in Nat /\ ReservedFees(book) \in Nat
        /\ totalShieldedTokens + ReservedFees(book) <= 0
    BY <1>1, <1>7, ShieldTotalsTyped, BookFields DEF LedgerInv, CustodyInv, ShieldedCovered
  <2> QED
    BY <1>1, <2>1, ShieldTotalsTyped
<1> QED
  BY <1>5, <1>6, <1>7

LEMMA RetiredStaysEmpty ==
  ASSUME AccountingInv, RetiredEmpty, [Next]_vars
  PROVE  RetiredEmpty'
<1>0. /\ ShieldInv /\ ReceiptInv /\ LedgerInv /\ BackingInv /\ CustodyInv /\ StatusInv
      /\ totalProtectorTokens \in Nat /\ totalBackingTokenBalance \in Nat
      /\ shieldedTokenBalance \in Nat
      /\ AccountingInv' /\ shieldedTokenBalance' \in Nat
  BY NextInv DEF AccountingInv, BackingInv, CustodyInv
<1> SUFFICES ASSUME ~poolActive'
             PROVE  /\ shieldedTokenBalance' = 0 /\ ~ShieldedLiabilities'
                    /\ totalBackingTokenBalance' = totalProtectorTokens'
  BY DEF RetiredEmpty
<1>1. CASE RetireEmptyPool \/ RetireDustPool \/ RetireProtectorOnlyPool
  <2>1. /\ Sweepable
        /\ UNCHANGED <<shieldTotals, shieldedTokenBalance>>
        /\ totalBackingTokenBalance' = totalProtectorTokens'
    BY <1>1 DEF RetireEmptyPool, RetireDustPool, RetireProtectorOnlyPool, Sweepable,
       protectorTotals
  <2> QED
    BY <2>1 DEF Sweepable, ShieldedLiabilities, shieldTotals
<1> SUFFICES ASSUME ~(RetireEmptyPool \/ RetireDustPool \/ RetireProtectorOnlyPool)
             PROVE  /\ shieldedTokenBalance' = 0 /\ ~ShieldedLiabilities'
                    /\ totalBackingTokenBalance' = totalProtectorTokens'
  BY <1>1
\* No other step retires a pool, or brings one back.
<1>2. poolActive' = poolActive
  <2>1. CASE UNCHANGED vars
    BY <2>1 DEF vars, statusVars
  <2>2. CASE ShieldNext
    <3>1. ASSUME NEW a, DepositShieldedAsset(a) PROVE UNCHANGED statusVars
      BY <3>1 DEF DepositShieldedAsset
    <3>2. ASSUME NEW id, \/ ShieldedWithdrawSameAsset(id) \/ ShieldedWithdrawCrossAsset(id)
                         \/ ClaimRewards(id)
          PROVE  UNCHANGED statusVars
      BY <3>2 DEF ShieldedWithdrawSameAsset, ShieldedWithdrawCrossAsset, ClaimRewards
    <3>3. ASSUME NEW id, NEW a, PartialWithdrawShielded(id, a) PROVE UNCHANGED statusVars
      BY <3>3 DEF PartialWithdrawShielded
    <3>4. UNCHANGED statusVars
      BY <2>2, <3>1, <3>2, <3>3 DEF ShieldNext
    <3> QED
      BY <3>4 DEF statusVars
  <2>3. CASE ProtectorNext
    <3>1. ASSUME NEW a, DepositBackingAsset(a) PROVE UNCHANGED statusVars
      BY <3>1 DEF DepositBackingAsset
    <3>2. ASSUME NEW id, StartUnlockProcess(id) \/ CancelUnlockProcess(id)
          PROVE  UNCHANGED statusVars
      BY <3>2 DEF StartUnlockProcess, CancelUnlockProcess
    <3>3. ASSUME NEW id, NEW a, ProtectorWithdraw(id, a) PROVE UNCHANGED statusVars
      BY <3>3 DEF ProtectorWithdraw
    <3>4. ASSUME NEW id, \/ ClaimCommission(id) \/ ForfeitCommission(id)
                         \/ SettleExpiredProtectorPosition(id)
                         \/ EscrowExpiredProtectorCommission(id)
          PROVE  UNCHANGED statusVars
      BY <3>4 DEF ClaimCommission, ForfeitCommission, SettleExpiredProtectorPosition,
         EscrowExpiredProtectorCommission, ApplyClaim
    <3>5. ASSUME NEW id, ClaimExpiredProtectorBacking(id) \/ SettleExpiredProtectorBacking(id)
          PROVE  UNCHANGED statusVars
      BY <3>5 DEF ClaimExpiredProtectorBacking, SettleExpiredProtectorBacking, ClaimExpiredBacking
    <3>6. UNCHANGED statusVars
      BY <2>3, <3>1, <3>2, <3>3, <3>4, <3>5 DEF ProtectorNext
    <3> QED
      BY <3>6 DEF statusVars
  <2>4. CASE GovernanceNext \/ EnvironmentNext
    BY <2>4 DEF GovernanceNext, EnvironmentNext, PayPoolFee, PayProtocolFee, PayFee, Pause,
       Unpause, UpdatePoolConfig, ResetShieldedTokenTransferIntegrity, OnlyStatusChanges,
       OracleUpdate, Tick, Donate, PoolUnchanged, statusVars
  <2> QED
    BY <2>1, <2>2, <2>3, <2>4 DEF Next
<1>3. /\ ~poolActive /\ shieldedTokenBalance = 0 /\ totalBackingTokenBalance = totalProtectorTokens
      /\ totalShieldedTokens = 0 /\ totalValueAtDeposit = 0 /\ totalShieldCollateralAmount = 0
      /\ \A e \in Epochs : epochBook[e].backing = 0
      /\ \A i \in ShieldIds : /\ shieldPos[i].amount = 0
                              /\ shieldPos[i].valueAtDeposit = 0
                              /\ shieldPos[i].collateralAmount = 0
  BY <1>0, <1>2, EmptyPoolOwesNothing, ShieldTotalsTyped DEF RetiredEmpty, ShieldedLiabilities
<1>4. ASSUME UNCHANGED <<shieldTotals, shieldedTokenBalance, totalBackingTokenBalance,
                         totalProtectorTokens>>
      PROVE  /\ shieldedTokenBalance' = 0 /\ ~ShieldedLiabilities'
             /\ totalBackingTokenBalance' = totalProtectorTokens'
  BY <1>3, <1>4 DEF ShieldedLiabilities, shieldTotals
<1>5. ASSUME NEW a, DepositShieldedAsset(a) \/ DepositBackingAsset(a) PROVE FALSE
  BY <1>3, <1>5 DEF DepositShieldedAsset, DepositBackingAsset
<1>6. ASSUME NEW id \in ShieldIds, ShieldedWithdrawSameAsset(id)
      PROVE  /\ shieldedTokenBalance' = 0 /\ ~ShieldedLiabilities'
             /\ totalBackingTokenBalance' = totalProtectorTokens'
  <2> DEFINE fees == SettleFees(id, SettlementPrice).fees
  <2>1. fees \in Nat /\ fees <= shieldPos[id].amount
    BY <1>0, <1>6, Environment, SettleFeesEffect
       DEF ShieldedWithdrawSameAsset, SameAssetExitAllowed
  <2>2. /\ shieldedTokenBalance' = shieldedTokenBalance - (shieldPos[id].amount - fees)
        /\ totalShieldedTokens' = totalShieldedTokens - shieldPos[id].amount
        /\ totalValueAtDeposit' = totalValueAtDeposit - shieldPos[id].valueAtDeposit
        /\ totalShieldCollateralAmount'
             = totalShieldCollateralAmount - shieldPos[id].collateralAmount
        /\ UNCHANGED <<protectorTotals, backingCash>>
    BY <1>6 DEF ShieldedWithdrawSameAsset
  <2> HIDE DEF fees
  <2> QED
    BY <1>3, <2>1, <2>2 DEF ShieldedLiabilities, protectorTotals, backingCash
<1>7. ASSUME NEW id \in ShieldIds, ShieldedWithdrawCrossAsset(id)
      PROVE  /\ shieldedTokenBalance' = 0 /\ ~ShieldedLiabilities'
             /\ totalBackingTokenBalance' = totalProtectorTokens'
  <2> DEFINE payout == ActivationPayout(id)
  <2>1. /\ totalShieldedTokens' = totalShieldedTokens - shieldPos[id].amount
        /\ totalValueAtDeposit' = totalValueAtDeposit - shieldPos[id].valueAtDeposit
        /\ totalShieldCollateralAmount'
             = totalShieldCollateralAmount - shieldPos[id].collateralAmount
        /\ totalProtectorTokens' = totalProtectorTokens - payout
        /\ totalBackingTokenBalance' = totalBackingTokenBalance - payout
        /\ UNCHANGED shieldedCash
    BY <1>7 DEF ShieldedWithdrawCrossAsset
  <2> HIDE DEF payout
  <2> QED
    BY <1>3, <2>1 DEF ShieldedLiabilities, shieldedCash
<1>8. ASSUME NEW id \in ShieldIds, NEW amount \in ShieldedAmounts,
             PartialWithdrawShielded(id, amount)
      PROVE  FALSE
  BY <1>3, <1>8, Constants DEF PartialWithdrawShielded
<1>9. ASSUME NEW id \in ShieldIds, ClaimRewards(id)
      PROVE  /\ shieldedTokenBalance' = 0 /\ ~ShieldedLiabilities'
             /\ totalBackingTokenBalance' = totalProtectorTokens'
  <2> DEFINE fees == SettleFees(id, SettlementPrice).fees
  <2>1. fees \in Nat /\ fees <= shieldPos[id].amount
    BY <1>0, <1>9, Environment, SettleFeesEffect DEF ClaimRewards
  <2>2. /\ totalShieldedTokens' = totalShieldedTokens - fees
        /\ UNCHANGED <<totalValueAtDeposit, totalShieldCollateralAmount, protectorTotals,
                       shieldedCash, backingCash>>
    BY <1>9 DEF ClaimRewards
  <2> HIDE DEF fees
  <2> QED
    BY <1>3, <2>1, <2>2 DEF ShieldedLiabilities, protectorTotals, shieldedCash, backingCash
<1>10. CASE ShieldNext
  BY <1>5, <1>6, <1>7, <1>8, <1>9, <1>10 DEF ShieldNext
<1>11. ASSUME NEW id \in ProtectorIds, NEW amount, ProtectorWithdraw(id, amount), amount \in Nat
       PROVE  /\ shieldedTokenBalance' = 0 /\ ~ShieldedLiabilities'
              /\ totalBackingTokenBalance' = totalProtectorTokens'
  <2> DEFINE paid == ClaimOutcome(id).paid
  <2>1. /\ shieldedTokenBalance' = shieldedTokenBalance - paid
        /\ totalProtectorTokens' = totalProtectorTokens - amount
        /\ totalBackingTokenBalance' = totalBackingTokenBalance - amount
        /\ UNCHANGED shieldTotals /\ id \in protectorLive
    BY <1>11 DEF ProtectorWithdraw, ProtectorExitAllowed
  <2>2. paid \in Nat
    BY <1>0, <2>1, ClaimEffect
  <2> HIDE DEF paid
  <2> QED
    BY <1>0, <1>3, <2>1, <2>2 DEF ShieldedLiabilities, shieldTotals
<1>12. ASSUME NEW id \in protectorLive, ApplyClaim(id, ClaimOutcome(id))
       PROVE  /\ shieldedTokenBalance' = 0 /\ ~ShieldedLiabilities'
              /\ totalBackingTokenBalance' = totalProtectorTokens'
  <2> DEFINE paid == ClaimOutcome(id).paid
  <2>1. /\ shieldedTokenBalance' = shieldedTokenBalance - paid
        /\ UNCHANGED <<shieldTotals, protectorTotals, backingCash>>
    BY <1>12 DEF ApplyClaim
  <2>2. paid \in Nat
    BY <1>0, ClaimEffect
  <2> HIDE DEF paid
  <2> QED
    BY <1>0, <1>3, <2>1, <2>2 DEF ShieldedLiabilities, shieldTotals, protectorTotals, backingCash
<1>13. ASSUME NEW id \in ProtectorIds, ClaimExpiredBacking(id) PROVE FALSE
  <2>1. protectorPos[id].epoch \in Epochs /\ epochBook[protectorPos[id].epoch].backing # 0
    BY <1>0, <1>13 DEF ClaimExpiredBacking, ReceiptInv, ProtectorPosition
  <2> QED
    BY <1>3, <2>1
<1>14. CASE ProtectorNext
  <2>1. ASSUME NEW id, StartUnlockProcess(id) \/ CancelUnlockProcess(id)
        PROVE  UNCHANGED <<shieldTotals, shieldedTokenBalance, totalBackingTokenBalance,
                           totalProtectorTokens>>
    BY <2>1 DEF StartUnlockProcess, CancelUnlockProcess, shieldedCash, backingCash, protectorTotals
  <2>2. ASSUME NEW id \in ProtectorIds,
               NEW amount \in BackingAmounts \cup {0, PositionAmount(id), AvailableForWithdrawal(id)},
               ProtectorWithdraw(id, amount)
        PROVE  amount \in Nat
    BY <1>0, Constants, WithdrawalAmountTyped
  <2>3. ASSUME NEW id \in ProtectorIds,
               \/ ClaimCommission(id) \/ ForfeitCommission(id)
               \/ SettleExpiredProtectorPosition(id) \/ EscrowExpiredProtectorCommission(id)
        PROVE  id \in protectorLive /\ ApplyClaim(id, ClaimOutcome(id))
    BY <2>3 DEF ClaimCommission, ForfeitCommission, SettleExpiredProtectorPosition,
       EscrowExpiredProtectorCommission
  <2>4. ASSUME NEW id \in ProtectorIds,
               ClaimExpiredProtectorBacking(id) \/ SettleExpiredProtectorBacking(id)
        PROVE  ClaimExpiredBacking(id)
    BY <2>4 DEF ClaimExpiredProtectorBacking, SettleExpiredProtectorBacking
  <2> QED
    BY <1>4, <1>5, <1>11, <1>12, <1>13, <1>14, <2>1, <2>2, <2>3, <2>4 DEF ProtectorNext
<1>15. CASE PayPoolFee \/ PayProtocolFee
  <2>1. PICK fee \in Nat : shieldedTokenBalance' = shieldedTokenBalance - fee
    BY <1>0, <1>15, BookFields DEF PayPoolFee, PayProtocolFee, PayFee, LedgerInv
  <2>2. UNCHANGED <<shieldTotals, protectorTotals, backingCash>>
    BY <1>15 DEF PayPoolFee, PayProtocolFee, PayFee
  <2> QED
    BY <1>0, <1>3, <2>1, <2>2 DEF ShieldedLiabilities, shieldTotals, protectorTotals, backingCash
<1>16. CASE \/ Pause \/ Unpause \/ (\E new \in Configs : UpdatePoolConfig(new))
            \/ ResetShieldedTokenTransferIntegrity \/ EnvironmentNext \/ UNCHANGED vars
  <2>1. UNCHANGED <<shieldTotals, shieldedTokenBalance, totalBackingTokenBalance,
                    totalProtectorTokens>>
    BY <1>16 DEF Pause, Unpause, UpdatePoolConfig, ResetShieldedTokenTransferIntegrity,
       OnlyStatusChanges, EnvironmentNext, OracleUpdate, Tick, Donate, PoolUnchanged,
       shieldedCash, backingCash, protectorTotals, vars
  <2> QED
    BY <1>4, <2>1
<1> QED
  BY <1>10, <1>14, <1>15, <1>16 DEF Next, GovernanceNext

\* deactivatePool, closePool, deactivateDustPool and deactivateProtectorOnlyPool leave no
\* debt behind, and nothing that is still allowed afterwards makes one.
THEOREM RetirementOwesNothing == Spec => []RetiredPoolOwesNothing
<1>1. Init => RetiredEmpty
  BY DEF Init, RetiredEmpty
<1>2. AccountingInv /\ RetiredEmpty /\ [Next]_vars => RetiredEmpty'
  BY RetiredStaysEmpty
<1>3. AccountingInv /\ RetiredEmpty => RetiredPoolOwesNothing
  <2> SUFFICES ASSUME AccountingInv, RetiredEmpty, ~poolActive
               PROVE  /\ ~ShieldedExposure
                      /\ ReservedFees(book) = 0
                      /\ totalBackingTokenBalance = totalProtectorTokens
                      /\ \A i \in protectorLive : ExpiredBackingClaim(i) = 0
    BY DEF RetiredPoolOwesNothing
  <2>1. /\ shieldedTokenBalance = 0 /\ ~ShieldedLiabilities
        /\ totalBackingTokenBalance = totalProtectorTokens
    BY DEF RetiredEmpty
  <2> QED
    BY <2>1, EmptyPoolOwesNothing DEF ShieldedExposure
<1> QED
  BY <1>1, <1>2, <1>3, Accounting, PTL DEF Spec

-----------------------------------------------------------------------------
(* Sums over some of the protector receipts *)

SumAmong(ids, w) == SumOf([i \in ProtectorIds |-> IF i \in ids THEN w[i] ELSE 0])

LEMMA AmongType ==
  ASSUME NEW w \in [ProtectorIds -> Nat], NEW ids
  PROVE  /\ SumAmong(ids, w) \in Nat
         /\ \A i \in ProtectorIds : i \in ids => w[i] <= SumAmong(ids, w)
<1> DEFINE f == [i \in ProtectorIds |-> IF i \in ids THEN w[i] ELSE 0]
<1>1. f \in [ProtectorIds -> Nat] /\ \A i \in ProtectorIds : i \in ids => f[i] = w[i]
  OBVIOUS
<1>2. SumAmong(ids, w) = SumOf(f)
  BY DEF SumAmong
<1> HIDE DEF f
<1> QED
  BY <1>1, <1>2, FiniteIndices, SumType, SumBound

\* Equal members with equal weights have equal sums.
LEMMA AmongSame ==
  ASSUME NEW v, NEW w, NEW a, NEW b,
         \A i \in ProtectorIds : (i \in b <=> i \in a) /\ (i \in a => w[i] = v[i])
  PROVE  SumAmong(b, w) = SumAmong(a, v)
<1>1. [i \in ProtectorIds |-> IF i \in b THEN w[i] ELSE 0]
        = [i \in ProtectorIds |-> IF i \in a THEN v[i] ELSE 0]
  OBVIOUS
<1> QED
  BY <1>1 DEF SumAmong

\* One receipt joins, leaves or changes its weight.
LEMMA AmongChange ==
  ASSUME NEW v \in [ProtectorIds -> Nat], NEW w \in [ProtectorIds -> Nat],
         NEW a, NEW b, NEW i \in ProtectorIds,
         \A j \in ProtectorIds \ {i} : (j \in b <=> j \in a) /\ (j \in a => w[j] = v[j])
  PROVE  SumAmong(b, w) = SumAmong(a, v) - (IF i \in a THEN v[i] ELSE 0)
                          + (IF i \in b THEN w[i] ELSE 0)
<1> DEFINE f == [j \in ProtectorIds |-> IF j \in a THEN v[j] ELSE 0]
           g == [j \in ProtectorIds |-> IF j \in b THEN w[j] ELSE 0]
<1>1. f \in [ProtectorIds -> Nat] /\ g \in [ProtectorIds -> Nat]
  OBVIOUS
<1>2. \A j \in ProtectorIds \ {i} : g[j] = f[j]
  OBVIOUS
<1>3. f[i] = (IF i \in a THEN v[i] ELSE 0) /\ g[i] = (IF i \in b THEN w[i] ELSE 0)
  OBVIOUS
<1>4. SumAmong(a, v) = SumOf(f) /\ SumAmong(b, w) = SumOf(g)
  BY DEF SumAmong
<1> HIDE DEF f, g
<1>5. SumOf(g) = SumOf(f) - f[i] + g[i]
  BY <1>1, <1>2, FiniteIndices, SumChange
<1> QED
  BY <1>3, <1>4, <1>5

LEMMA AmongZero ==
  ASSUME NEW w \in [ProtectorIds -> Nat], NEW ids,
         \A i \in ProtectorIds : i \in ids => w[i] = 0
  PROVE  SumAmong(ids, w) = 0
<1> DEFINE f == [i \in ProtectorIds |-> IF i \in ids THEN w[i] ELSE 0]
<1>1. f \in [ProtectorIds -> Nat] /\ \A i \in ProtectorIds : f[i] = 0
  OBVIOUS
<1>2. SumAmong(ids, w) = SumOf(f)
  BY DEF SumAmong
<1> HIDE DEF f
<1> QED
  BY <1>1, <1>2, FiniteIndices, SumZero

\* Weights that grow in proportion to others make the sum grow in proportion to theirs.
LEMMA AmongGrowth ==
  ASSUME NEW v \in [ProtectorIds -> Nat], NEW w \in [ProtectorIds -> Nat],
         NEW u \in [ProtectorIds -> Nat], NEW c \in Nat, NEW ids,
         \A i \in ProtectorIds : i \in ids => w[i] <= v[i] + c * u[i]
  PROVE  SumAmong(ids, w) <= SumAmong(ids, v) + c * SumAmong(ids, u)
<1> DEFINE f == [i \in ProtectorIds |-> IF i \in ids THEN v[i] ELSE 0]
           g == [i \in ProtectorIds |-> IF i \in ids THEN w[i] ELSE 0]
           h == [i \in ProtectorIds |-> IF i \in ids THEN u[i] ELSE 0]
           k == [i \in ProtectorIds |-> IF i \in ids THEN c * u[i] ELSE 0]
<1>1. /\ f \in [ProtectorIds -> Nat] /\ g \in [ProtectorIds -> Nat]
      /\ h \in [ProtectorIds -> Nat] /\ k \in [ProtectorIds -> Nat]
  BY ProductType
<1>2. \A i \in ProtectorIds : g[i] <= f[i] + k[i]
  OBVIOUS
<1>3. \A i \in ProtectorIds : k[i] <= c * h[i]
  <2> TAKE i \in ProtectorIds
  <2>1. CASE i \in ids
    <3>1. k[i] = c * u[i] /\ h[i] = u[i] /\ c * u[i] \in Nat
      BY <2>1, ProductType
    <3> HIDE DEF k, h
    <3> QED
      BY <3>1
  <2>2. CASE i \notin ids
    <3>1. k[i] = 0 /\ h[i] = 0
      BY <2>2
    <3> HIDE DEF k, h
    <3> QED
      BY <3>1
  <2> QED
    BY <2>1, <2>2
<1>4. /\ SumAmong(ids, v) = SumOf(f) /\ SumAmong(ids, w) = SumOf(g) /\ SumAmong(ids, u) = SumOf(h)
  BY DEF SumAmong
<1> HIDE DEF f, g, h, k
<1>5. SumOf(g) <= SumOf(f) + SumOf(k)
  BY <1>1, <1>2, FiniteIndices, SumOfSums
<1>6. SumOf(k) <= c * SumOf(h)
  BY <1>1, <1>3, FiniteIndices, SumScaledAtMost
<1>7. SumOf(f) \in Nat /\ SumOf(g) \in Nat /\ SumOf(h) \in Nat /\ SumOf(k) \in Nat
  BY <1>1, FiniteIndices, SumType
<1>8. c * SumOf(h) \in Nat
  BY <1>7, ProductType
<1> QED
  BY <1>4, <1>5, <1>6, <1>7, <1>8

\* Weights that are multiples at least
LEMMA AmongScaled ==
  ASSUME NEW v \in [ProtectorIds -> Nat], NEW w \in [ProtectorIds -> Nat], NEW c \in Nat,
         NEW a, NEW b,
         \A i \in ProtectorIds : i \in a => c * v[i] <= (IF i \in b THEN w[i] ELSE 0)
  PROVE  c * SumAmong(a, v) <= SumAmong(b, w)
<1> DEFINE f == [i \in ProtectorIds |-> IF i \in a THEN v[i] ELSE 0]
           g == [i \in ProtectorIds |-> IF i \in b THEN w[i] ELSE 0]
<1>1. f \in [ProtectorIds -> Nat] /\ g \in [ProtectorIds -> Nat]
  OBVIOUS
<1>2. \A i \in ProtectorIds : c * f[i] <= g[i]
  <2> TAKE i \in ProtectorIds
  <2>1. CASE i \in a
    BY <2>1
  <2>2. CASE i \notin a
    <3>1. f[i] = 0 /\ g[i] \in Nat
      BY <2>2
    <3> HIDE DEF f, g
    <3> QED
      BY <3>1
  <2> QED
    BY <2>1, <2>2
<1>3. SumAmong(a, v) = SumOf(f) /\ SumAmong(b, w) = SumOf(g)
  BY DEF SumAmong
<1> HIDE DEF f, g
<1> QED
  BY <1>1, <1>2, <1>3, FiniteIndices, SumScaledAtLeast

-----------------------------------------------------------------------------
(* What a receipt accrues, in units of 1 / RewardPrecision *)

AccrualOf(pos, rps) == Monus(rps * pos.shares, RewardPrecision * (pos.debt + pos.claimed))
EarnedOf(pos, rps) == Monus(MulDiv(rps, pos.shares, RewardPrecision), pos.debt + pos.claimed)

LEMMA PositionFields ==
  ASSUME NEW pos \in ProtectorPosition
  PROVE  /\ pos.shares \in Nat /\ pos.debt \in Nat /\ pos.claimed \in Nat
         /\ pos.epoch \in Epochs /\ pos.epoch \in Nat
         /\ pos.settled \in BOOLEAN /\ pos.backingSettled \in BOOLEAN
         /\ pos.debt + pos.claimed \in Nat
BY DEF ProtectorPosition, Epochs

LEMMA AccrualType ==
  ASSUME NEW pos \in ProtectorPosition, NEW rps \in Nat
  PROVE  /\ AccrualOf(pos, rps) \in Nat /\ EarnedOf(pos, rps) \in Nat
         /\ RewardPrecision * EarnedOf(pos, rps) \in Nat
         /\ RewardPrecision * EarnedOf(pos, rps) <= AccrualOf(pos, rps)
<1> DEFINE x == rps * pos.shares
           d == pos.debt + pos.claimed
           m == MulDiv(rps, pos.shares, RewardPrecision)
           P == RewardPrecision
<1>1. pos.shares \in Nat /\ d \in Nat /\ P \in Nat \ {0}
  BY PositionFields, RewardAssumption
<1>2. x \in Nat
  BY <1>1, ProductType
<1>3. m = x \div P
  BY DEF MulDiv
<1>4. AccrualOf(pos, rps) = Monus(x, P * d) /\ EarnedOf(pos, rps) = Monus(m, d)
  BY DEF AccrualOf, EarnedOf
<1> HIDE DEF x, d, m, P
<1>5. m \in Nat /\ P * m <= x
  BY <1>1, <1>2, <1>3, QuotientBounds
<1>6. P * m \in Nat /\ P * d \in Nat
  BY <1>1, <1>5, ProductType
<1>7. CASE m > d
  <2>1. m - d \in Nat /\ P * (m - d) = P * m - P * d
    BY <1>1, <1>5, <1>7
  <2>2. P * (m - d) \in Nat
    BY <1>1, <2>1, ProductType
  <2>3. Monus(m, d) = m - d
    BY <1>7 DEF Monus
  <2>4. Monus(x, P * d) \in Nat /\ Monus(x, P * d) >= x - P * d
    BY <1>2, <1>6 DEF Monus
  <2> QED
    BY <1>2, <1>4, <1>5, <1>6, <2>1, <2>2, <2>3, <2>4 DEF P
<1>8. CASE ~(m > d)
  <2>1. Monus(m, d) = 0 /\ Monus(x, P * d) \in Nat
    BY <1>2, <1>6, <1>8 DEF Monus
  <2>2. P * 0 = 0
    BY <1>1
  <2> QED
    BY <1>4, <2>1, <2>2 DEF P
<1> QED
  BY <1>7, <1>8

\* Accruals and shares of all receipts
Accruals(p, rps) == [i \in ProtectorIds |-> AccrualOf(p[i], rps)]
Earnings(p, rps) == [i \in ProtectorIds |-> EarnedOf(p[i], rps)]
Shares(p) == [i \in ProtectorIds |-> p[i].shares]

LEMMA WeightsTyped ==
  ASSUME NEW p \in [ProtectorIds -> ProtectorPosition], NEW rps \in Nat
  PROVE  /\ Accruals(p, rps) \in [ProtectorIds -> Nat]
         /\ Earnings(p, rps) \in [ProtectorIds -> Nat]
         /\ Shares(p) \in [ProtectorIds -> Nat]
BY AccrualType, PositionFields DEF Accruals, Earnings, Shares

\* The accumulator's step raises an accrual by no more than the shares' part in it.
LEMMA AccrualGrowth ==
  ASSUME NEW pos \in ProtectorPosition, NEW rps \in Nat, NEW inc \in Nat
  PROVE  /\ AccrualOf(pos, rps + inc) <= AccrualOf(pos, rps) + inc * pos.shares
         /\ AccrualOf(pos, rps) <= AccrualOf(pos, rps + inc)
<1> DEFINE s == pos.shares
           d == RewardPrecision * (pos.debt + pos.claimed)
<1>1. s \in Nat /\ d \in Nat
  BY PositionFields, RewardAssumption, ProductType
<1>2. /\ (rps + inc) * s = rps * s + inc * s
      /\ rps * s \in Nat /\ inc * s \in Nat
  BY <1>1, ProductType
<1>3. AccrualOf(pos, rps + inc) = Monus((rps + inc) * s, d) /\ AccrualOf(pos, rps) = Monus(rps * s, d)
  BY DEF AccrualOf
<1> HIDE DEF d
<1> QED
  BY <1>1, <1>2, <1>3 DEF Monus

\* A receipt whose debt is rounded up owns no fraction from before.
LEMMA JoinerAccruesNothing ==
  ASSUME NEW pos \in ProtectorPosition, NEW rps \in Nat,
         pos.debt = RewardDebt(rps, pos.shares)
  PROVE  AccrualOf(pos, rps) = 0
<1> DEFINE s == pos.shares
           P == RewardPrecision
           d == pos.debt
           c == pos.claimed
<1>1. s \in Nat /\ d \in Nat /\ c \in Nat /\ P \in Nat \ {0}
  BY PositionFields, RewardAssumption
<1>2. d * P >= rps * s
  BY <1>1, MulDivCeilCovers DEF RewardDebt
<1>3. P * (d + c) = d * P + c * P /\ d * P \in Nat /\ c * P \in Nat /\ rps * s \in Nat
  BY <1>1, ProductType
<1>4. AccrualOf(pos, rps) = Monus(rps * s, P * (d + c))
  BY DEF AccrualOf
<1> HIDE DEF s, P, d, c
<1> QED
  BY <1>2, <1>3, <1>4 DEF Monus

\* A payment takes its worth out of the accrual; a payment of all that is earned leaves
\* nothing earned.
LEMMA AccrualAfterClaim ==
  ASSUME NEW pos \in ProtectorPosition, NEW rps \in Nat, NEW paid \in Nat,
         paid <= EarnedOf(pos, rps), NEW new \in ProtectorPosition,
         new.shares = pos.shares, new.debt = pos.debt, new.claimed = pos.claimed + paid
  PROVE  /\ RewardPrecision * paid \in Nat
         /\ RewardPrecision * paid <= AccrualOf(pos, rps)
         /\ AccrualOf(new, rps) = AccrualOf(pos, rps) - RewardPrecision * paid
         /\ EarnedOf(new, rps) = EarnedOf(pos, rps) - paid
<1> DEFINE x == rps * pos.shares
           d == pos.debt + pos.claimed
           m == MulDiv(rps, pos.shares, RewardPrecision)
           P == RewardPrecision
<1>1. pos.shares \in Nat /\ pos.debt \in Nat /\ pos.claimed \in Nat /\ d \in Nat /\ P \in Nat \ {0}
  BY PositionFields, RewardAssumption
<1>2. x \in Nat /\ m \in Nat
  BY <1>1, ProductType, MulDivType
<1>3. /\ AccrualOf(pos, rps) = Monus(x, P * d) /\ EarnedOf(pos, rps) = Monus(m, d)
      /\ AccrualOf(new, rps) = Monus(x, P * (d + paid)) /\ EarnedOf(new, rps) = Monus(m, d + paid)
  <2>1. new.debt + new.claimed = d + paid
    BY <1>1
  <2> QED
    BY <2>1 DEF AccrualOf, EarnedOf
<1>4. P * EarnedOf(pos, rps) \in Nat /\ P * EarnedOf(pos, rps) <= AccrualOf(pos, rps)
      /\ EarnedOf(pos, rps) \in Nat /\ AccrualOf(pos, rps) \in Nat
  BY AccrualType
<1> HIDE DEF x, d, m, P
<1>5. P * paid \in Nat /\ P * d \in Nat /\ P * (d + paid) = P * d + P * paid
  BY <1>1, ProductType
<1>6. P * paid <= P * EarnedOf(pos, rps)
  BY <1>1, <1>4
<1>7. P * paid <= AccrualOf(pos, rps)
  BY <1>4, <1>5, <1>6
<1>8. Monus(x, P * d + P * paid) = Monus(x, P * d) - P * paid
  BY <1>2, <1>3, <1>5, <1>7 DEF Monus
<1>9. Monus(m, d + paid) = Monus(m, d) - paid
  BY <1>1, <1>2, <1>3 DEF Monus
<1> QED
  BY <1>3, <1>5, <1>7, <1>8, <1>9 DEF P

-----------------------------------------------------------------------------
(* What a change of the book promises and what it brings *)

(***************************************************************************)
(* From book b to book a, with shares in the current epoch: the step of    *)
(* the accumulator is paid for by new commissions or pending dust, and no  *)
(* commission appears in an epoch without shares.                          *)
(***************************************************************************)
Funds(b, a, shares) ==
  /\ a.rps >= b.rps
  /\ (a.rps - b.rps) * shares + RewardPrecision * a.dust + RewardPrecision * b.current
       <= RewardPrecision * a.current + RewardPrecision * b.dust
  /\ a.current # 0 => b.current # 0 \/ shares # 0

\* The increment and the tokens it represents never exceed what is distributed.
LEMMA RepresentedCovers ==
  ASSUME NEW amount \in Nat, NEW shares \in Nat \ {0}
  PROVE  LET inc == Increment(amount, shares)
             rep == Represented(inc, shares)
         IN  /\ inc \in Nat /\ rep \in Nat /\ rep <= amount
             /\ inc * shares <= RewardPrecision * rep
<1> DEFINE P == RewardPrecision
           inc == Increment(amount, shares)
           rep == Represented(inc, shares)
           x == amount * P
           y == inc * shares + P - 1
<1>1. P \in Nat \ {0} /\ inc \in Nat /\ rep \in Nat
  BY RewardAssumption, IncrementType
<1>2. x \in Nat /\ inc = x \div shares
  BY <1>1, ProductType DEF Increment, MulDiv
<1>3. shares * inc <= x
  BY <1>2, QuotientBounds
<1>4. rep = y \div P
  BY DEF Represented, MulDivCeil
<1>5. rep * P >= inc * shares
  BY <1>1, MulDivCeilCovers DEF Represented
<1> HIDE DEF inc, rep, x
<1>6. inc * shares = shares * inc /\ inc * shares \in Nat /\ y \in Nat
  BY <1>1, ProductType
<1> HIDE DEF y
<1>7. P * rep <= y
  BY <1>1, <1>4, <1>6, QuotientBounds
<1>8. P * rep <= amount * P + P - 1
  <2>1. P * rep \in Nat /\ amount * P \in Nat
    BY <1>1, ProductType
  <2> QED
    BY <1>1, <1>3, <1>6, <1>7, <2>1 DEF x, y
<1>9. rep <= amount
  <2> SUFFICES ASSUME rep >= amount + 1 PROVE FALSE
    BY <1>1
  <2>1. P * rep >= P * (amount + 1)
    BY <1>1
  <2>2. P * (amount + 1) = amount * P + P
    BY <1>1
  <2>3. P * rep \in Nat /\ amount * P \in Nat
    BY <1>1, ProductType
  <2> HIDE DEF P
  <2> QED
    BY <1>1, <1>8, <2>1, <2>2, <2>3
<1>10. P * rep = rep * P
  BY <1>1
<1> QED
  BY <1>1, <1>5, <1>9, <1>10 DEF inc, rep

LEMMA FundsSame ==
  ASSUME NEW b \in Book, NEW a \in Book, NEW shares \in Nat,
         a.rps = b.rps, a.dust = b.dust, a.current = b.current
  PROVE  Funds(b, a, shares)
<1>1. b.rps \in Nat /\ b.dust \in Nat /\ b.current \in Nat
  BY BookFields
<1>2. RewardPrecision * b.dust \in Nat /\ RewardPrecision * b.current \in Nat
      /\ b.rps - b.rps = 0 /\ 0 * shares = 0
  BY <1>1, RewardAssumption, ProductType
<1> QED
  BY <1>1, <1>2 DEF Funds

LEMMA FundsTransitive ==
  ASSUME NEW b \in Book, NEW c \in Book, NEW a \in Book, NEW shares \in Nat,
         Funds(b, c, shares), Funds(c, a, shares)
  PROVE  Funds(b, a, shares)
<1> DEFINE P == RewardPrecision
<1>1. /\ a.rps \in Nat /\ b.rps \in Nat /\ c.rps \in Nat
      /\ P * a.dust \in Nat /\ P * b.dust \in Nat /\ P * c.dust \in Nat
      /\ P * a.current \in Nat /\ P * b.current \in Nat /\ P * c.current \in Nat
  BY BookFields, RewardAssumption, ProductType
<1>2. a.rps - c.rps \in Nat /\ c.rps - b.rps \in Nat /\ a.rps >= b.rps
  BY <1>1 DEF Funds
<1>3. (a.rps - b.rps) * shares = (a.rps - c.rps) * shares + (c.rps - b.rps) * shares
  <2> DEFINE x == a.rps - c.rps
             y == c.rps - b.rps
  <2>1. x \in Nat /\ y \in Nat /\ a.rps - b.rps = x + y
    BY <1>1, <1>2
  <2> HIDE DEF x, y
  <2>2. (x + y) * shares = x * shares + y * shares
    BY <2>1
  <2> QED
    BY <2>1, <2>2 DEF x, y
<1>4. (a.rps - c.rps) * shares \in Nat /\ (c.rps - b.rps) * shares \in Nat
  BY <1>2, ProductType
<1>5. /\ (c.rps - b.rps) * shares + P * c.dust + P * b.current <= P * c.current + P * b.dust
      /\ (a.rps - c.rps) * shares + P * a.dust + P * c.current <= P * a.current + P * c.dust
  BY DEF Funds
<1>6. (a.rps - b.rps) * shares + P * a.dust + P * b.current <= P * a.current + P * b.dust
  <2> DEFINE u == (a.rps - c.rps) * shares
             v == (c.rps - b.rps) * shares
  <2>1. u \in Nat /\ v \in Nat /\ (a.rps - b.rps) * shares = u + v
    BY <1>3, <1>4
  <2> HIDE DEF P, u, v
  <2> QED
    BY <1>1, <1>5, <2>1 DEF u, v
<1> QED
  BY <1>2, <1>6 DEF Funds

\* A reward raises the accumulator by no more than it and the pending dust can pay.
LEMMA FundsAccumulate ==
  ASSUME NEW b \in Book, NEW shares \in Nat, NEW tokens \in Nat, NEW reward \in Nat
  PROVE  Funds(b, AccumulateReward(b, shares, tokens, reward), shares)
<1> DEFINE a == AccumulateReward(b, shares, tokens, reward)
           P == RewardPrecision
<1>1. /\ b.rps \in Nat /\ b.dust \in Nat /\ b.current \in Nat /\ b.commissions \in Nat
      /\ P \in Nat \ {0} /\ a \in Book
  BY BookFields, RewardAssumption, AccumulateRewardEffect
<1>2. CASE reward = 0 \/ NoShareHolders(shares, tokens)
  <2>1. a.rps = b.rps /\ a.dust = b.dust /\ a.current = b.current
    BY <1>2 DEF AccumulateReward, Book
  <2> HIDE DEF a
  <2> QED
    BY <1>1, <2>1, FundsSame DEF a
<1>3. CASE ~(reward = 0 \/ NoShareHolders(shares, tokens))
  <2> DEFINE all == b.dust + reward
             inc == Increment(all, shares)
             rep == Represented(inc, shares)
  <2>1. all \in Nat /\ shares \in Nat \ {0}
    BY <1>1, <1>3 DEF NoShareHolders
  <2>2. inc \in Nat /\ rep \in Nat /\ rep <= all /\ inc * shares <= P * rep
    <3> HIDE DEF all
    <3> QED
      BY <2>1, RepresentedCovers
  <2>3. /\ a.rps = b.rps + inc /\ a.dust = Monus(all, rep) /\ a.current = b.current + reward
    <3>1. a = [b EXCEPT !.rps = @ + inc, !.dust = Monus(all, rep),
                        !.commissions = @ + reward, !.current = @ + reward]
      BY <1>3 DEF AccumulateReward
    <3> HIDE DEF all, inc, rep, a
    <3> QED
      BY <3>1 DEF Book
  <2>4. a.dust = all - rep
    BY <2>1, <2>2, <2>3 DEF Monus
  <2> HIDE DEF all, inc, rep, a, P
  <2>5. /\ P * (all - rep) = P * all - P * rep /\ P * rep \in Nat /\ P * all \in Nat
        /\ P * (b.current + reward) = P * b.current + P * reward
        /\ P * b.current \in Nat /\ P * reward \in Nat /\ P * b.dust \in Nat
        /\ inc * shares \in Nat
    BY <1>1, <2>1, <2>2, ProductType
  <2>6. P * all = P * b.dust + P * reward
    BY <1>1 DEF all
  <2>7. a.rps >= b.rps /\ a.rps - b.rps = inc
    BY <1>1, <2>2, <2>3
  <2>8. inc * shares + P * a.dust + P * b.current <= P * a.current + P * b.dust
    BY <2>2, <2>3, <2>4, <2>5, <2>6
  <2> QED
    BY <2>1, <2>7, <2>8 DEF Funds, a, P
<1> QED
  BY <1>2, <1>3

LEMMA FundsDistribute ==
  ASSUME NEW b \in Book, NEW shares \in Nat, NEW tokens \in Nat
  PROVE  Funds(b, DistributeDust(b, shares, tokens), shares)
<1> DEFINE a == DistributeDust(b, shares, tokens)
           P == RewardPrecision
           inc == Increment(b.dust, shares)
           rep == Represented(inc, shares)
<1>1. /\ b.rps \in Nat /\ b.dust \in Nat /\ b.current \in Nat
      /\ P \in Nat \ {0} /\ a \in Book /\ a.current = b.current
  BY BookFields, RewardAssumption, DistributeDustEffect
<1>2. CASE b.dust = 0 \/ shares = 0 \/ tokens = 0 \/ inc = 0
  <2>1. a = b
    BY <1>2 DEF DistributeDust
  <2> HIDE DEF a
  <2> QED
    BY <1>1, <2>1, FundsSame DEF a
<1>3. CASE ~(b.dust = 0 \/ shares = 0 \/ tokens = 0 \/ inc = 0)
  <2>1. inc \in Nat /\ rep \in Nat /\ rep <= b.dust /\ inc * shares <= P * rep
    BY <1>1, <1>3, RepresentedCovers
  <2>2. a.rps = b.rps + inc /\ a.dust = Monus(b.dust, rep)
    <3> DEFINE left == Monus(b.dust, rep)
    <3>1. a = [b EXCEPT !.rps = @ + inc, !.dust = left]
      BY <1>3 DEF DistributeDust
    <3> HIDE DEF inc, rep, a, left
    <3>2. a.rps = b.rps + inc /\ a.dust = left
      BY <3>1 DEF Book
    <3> QED
      BY <3>2 DEF left
  <2> HIDE DEF inc, rep, a, P
  <2>3. a.dust = b.dust - rep
    BY <1>1, <2>1, <2>2 DEF Monus
  <2>4. /\ P * (b.dust - rep) = P * b.dust - P * rep /\ P * rep \in Nat /\ P * b.dust \in Nat
        /\ P * b.current \in Nat /\ inc * shares \in Nat
    BY <1>1, <2>1, ProductType
  <2>5. a.rps >= b.rps /\ a.rps - b.rps = inc
    BY <1>1, <2>1, <2>2
  <2>6. inc * shares + P * a.dust + P * b.current <= P * a.current + P * b.dust
    BY <1>1, <2>1, <2>3, <2>4
  <2> QED
    BY <1>1, <2>5, <2>6 DEF Funds, a, P
<1> QED
  BY <1>2, <1>3

\* Dust that becomes protocol fee leaves the epoch's reserve with it.
LEMMA FundsRedirectDust ==
  ASSUME NEW b \in Book, NEW shares \in Nat, Partitioned(b), b.dust <= b.current
  PROVE  /\ Funds(b, RedirectDust(b), shares)
         /\ RedirectDust(b).dust = 0 /\ RedirectDust(b).rps = b.rps
         /\ RedirectDust(b).current = b.current - b.dust
<1> DEFINE a == RedirectDust(b)
           P == RewardPrecision
           moved == RedirectableDust(b)
<1>1. /\ b.rps \in Nat /\ b.dust \in Nat /\ b.current \in Nat /\ b.historical \in Nat
      /\ b.commissions = b.current + b.historical
      /\ P \in Nat \ {0}
  BY BookFields, RewardAssumption DEF Partitioned
<1>2. moved = b.dust
  BY <1>1 DEF RedirectableDust, Least
<1>3. a.dust = 0 /\ a.rps = b.rps /\ a.current = b.current - moved
  <2>1. a = [b EXCEPT !.dust = 0, !.commissions = @ - moved, !.current = @ - moved,
                      !.protocolFee = @ + moved]
    BY DEF RedirectDust
  <2> HIDE DEF moved, a
  <2> QED
    BY <2>1 DEF Book
<1> HIDE DEF moved, a, P
<1>4. /\ P * (b.current - b.dust) = P * b.current - P * b.dust
      /\ P * b.current \in Nat /\ P * b.dust \in Nat /\ P * 0 = 0
  BY <1>1, ProductType
<1>5. (a.rps - b.rps) * shares = 0
  <2>1. a.rps - b.rps = 0
    BY <1>1, <1>3
  <2> QED
    BY <2>1
<1>6. (a.rps - b.rps) * shares + P * a.dust + P * b.current <= P * a.current + P * b.dust
  BY <1>1, <1>2, <1>3, <1>4, <1>5
<1>7. a.current # 0 => b.current # 0
  BY <1>1, <1>2, <1>3
<1> QED
  BY <1>1, <1>2, <1>3, <1>6, <1>7 DEF Funds, a, P

-----------------------------------------------------------------------------
(* The books of one epoch, as a function of the receipts *)

MembersOf(live, p, e) == {i \in live : p[i].epoch = e}
UnsettledOf(live, p, e) == {i \in live : p[i].epoch = e /\ ~p[i].settled}

\* A live receipt has shares, has not taken its residual backing, and is settled only
\* once its epoch has ended.
OpenReceipts(live, p, e) ==
  \A i \in live : /\ p[i].shares # 0 /\ ~p[i].backingSettled
                  /\ p[i].settled => p[i].epoch < e

(***************************************************************************)
(* The current epoch: its shares are the members', it keeps commissions    *)
(* only with shares, and what the members accrue, with the pending dust,   *)
(* fits in the reserve.                                                    *)
(***************************************************************************)
CurrentSound(live, p, e, shares, b) ==
  /\ shares = SumAmong(MembersOf(live, p, e), Shares(p))
  /\ b.current # 0 => shares # 0
  /\ SumAmong(MembersOf(live, p, e), Accruals(p, b.rps)) + RewardPrecision * b.dust
       <= RewardPrecision * b.current

(***************************************************************************)
(* An ended epoch: the same of its unsettled members, at the accumulator   *)
(* it ended with; its backing waits for the shares of all its members; a   *)
(* settled member has no whole token left.                                 *)
(***************************************************************************)
EndedSound(live, p, e, entry) ==
  /\ entry.shares = SumAmong(UnsettledOf(live, p, e), Shares(p))
  /\ entry.reserve # 0 => entry.shares # 0
  /\ entry.backing # 0 => /\ entry.backingShares # 0
                          /\ entry.backingShares = SumAmong(MembersOf(live, p, e), Shares(p))
  /\ SumAmong(UnsettledOf(live, p, e), Accruals(p, entry.finalRps))
       <= RewardPrecision * entry.reserve
  /\ \A i \in MembersOf(live, p, e) : p[i].settled => EarnedOf(p[i], entry.finalRps) = 0

\* The same receipts for what an epoch counts
SameMembers(live, p, lq, q, e) ==
  \A i \in ProtectorIds :
    /\ (i \in lq /\ q[i].epoch = e) <=> (i \in live /\ p[i].epoch = e)
    /\ i \in live /\ p[i].epoch = e =>
         /\ q[i].shares = p[i].shares /\ q[i].debt = p[i].debt
         /\ q[i].claimed = p[i].claimed /\ q[i].settled = p[i].settled

LEMMA SameSums ==
  ASSUME NEW p, NEW q, NEW live, NEW lq, NEW e, NEW rps, SameMembers(live, p, lq, q, e)
  PROVE  /\ SumAmong(MembersOf(lq, q, e), Shares(q)) = SumAmong(MembersOf(live, p, e), Shares(p))
         /\ SumAmong(MembersOf(lq, q, e), Accruals(q, rps))
              = SumAmong(MembersOf(live, p, e), Accruals(p, rps))
         /\ SumAmong(UnsettledOf(lq, q, e), Shares(q))
              = SumAmong(UnsettledOf(live, p, e), Shares(p))
         /\ SumAmong(UnsettledOf(lq, q, e), Accruals(q, rps))
              = SumAmong(UnsettledOf(live, p, e), Accruals(p, rps))
<1>1. \A i \in ProtectorIds :
        /\ i \in MembersOf(lq, q, e) <=> i \in MembersOf(live, p, e)
        /\ i \in UnsettledOf(lq, q, e) <=> i \in UnsettledOf(live, p, e)
        /\ i \in UnsettledOf(live, p, e) => i \in MembersOf(live, p, e)
  BY DEF SameMembers, MembersOf, UnsettledOf
<1>2. \A i \in ProtectorIds : i \in MembersOf(live, p, e) =>
        Shares(q)[i] = Shares(p)[i] /\ Accruals(q, rps)[i] = Accruals(p, rps)[i]
  BY DEF SameMembers, MembersOf, Shares, Accruals, AccrualOf
<1> DEFINE m == MembersOf(live, p, e)
           u == UnsettledOf(live, p, e)
           mq == MembersOf(lq, q, e)
           uq == UnsettledOf(lq, q, e)
           s == Shares(p)
           t == Shares(q)
           a == Accruals(p, rps)
           c == Accruals(q, rps)
<1> HIDE DEF m, u, mq, uq, s, t, a, c
<1>3. \A i \in ProtectorIds :
        /\ (i \in mq <=> i \in m) /\ (i \in uq <=> i \in u) /\ (i \in u => i \in m)
        /\ i \in m => t[i] = s[i] /\ c[i] = a[i]
  BY <1>1, <1>2 DEF m, u, mq, uq, s, t, a, c
<1>4. /\ SumAmong(mq, t) = SumAmong(m, s) /\ SumAmong(mq, c) = SumAmong(m, a)
      /\ SumAmong(uq, t) = SumAmong(u, s) /\ SumAmong(uq, c) = SumAmong(u, a)
  BY <1>3, AmongSame
<1> QED
  BY <1>4 DEF m, u, mq, uq, s, t, a, c

LEMMA EndedKept ==
  ASSUME NEW p, NEW q, NEW live, NEW lq, NEW e, NEW entry, SameMembers(live, p, lq, q, e),
         lq \subseteq ProtectorIds, EndedSound(live, p, e, entry)
  PROVE  EndedSound(lq, q, e, entry)
<1>1. \A i \in MembersOf(lq, q, e) : q[i].settled => EarnedOf(q[i], entry.finalRps) = 0
  BY DEF SameMembers, MembersOf, EndedSound, EarnedOf
<1> QED
  BY <1>1, SameSums DEF EndedSound

LEMMA CurrentKept ==
  ASSUME NEW p, NEW q, NEW live, NEW lq, NEW e, NEW shares, NEW b,
         SameMembers(live, p, lq, q, e), CurrentSound(live, p, e, shares, b)
  PROVE  CurrentSound(lq, q, e, shares, b)
BY SameSums DEF CurrentSound

\* Receipts with shares are none exactly when their shares are none.
LEMMA NoSharesNoReceipts ==
  ASSUME NEW p \in [ProtectorIds -> ProtectorPosition], NEW ids, ids \subseteq ProtectorIds,
         \A i \in ids : p[i].shares # 0
  PROVE  SumAmong(ids, Shares(p)) = 0 <=> ids = {}
<1>1. Shares(p) \in [ProtectorIds -> Nat] /\ \A i \in ProtectorIds : Shares(p)[i] = p[i].shares
  BY PositionFields DEF Shares
<1>2. ASSUME SumAmong(ids, Shares(p)) = 0, NEW i \in ids PROVE FALSE
  <2>1. Shares(p)[i] <= 0 /\ Shares(p)[i] \in Nat
    BY <1>1, <1>2, AmongType
  <2> QED
    BY <1>1, <2>1
<1>3. ASSUME ids = {} PROVE SumAmong(ids, Shares(p)) = 0
  BY <1>1, <1>3, AmongZero
<1> QED
  BY <1>2, <1>3

\* A step of the accumulator that is paid for keeps the current epoch funded.
LEMMA CurrentFunded ==
  ASSUME NEW p \in [ProtectorIds -> ProtectorPosition], NEW live, NEW e, NEW shares \in Nat,
         NEW b \in Book, NEW a \in Book, CurrentSound(live, p, e, shares, b), Funds(b, a, shares)
  PROVE  CurrentSound(live, p, e, shares, a)
<1> DEFINE P == RewardPrecision
           ids == MembersOf(live, p, e)
           inc == a.rps - b.rps
           v == Accruals(p, b.rps)
           w == Accruals(p, a.rps)
           u == Shares(p)
<1>1. /\ b.rps \in Nat /\ a.rps \in Nat /\ inc \in Nat /\ a.rps = b.rps + inc
      /\ P * b.dust \in Nat /\ P * b.current \in Nat
      /\ P * a.dust \in Nat /\ P * a.current \in Nat
  BY BookFields, RewardAssumption, ProductType DEF Funds
<1>2. /\ v \in [ProtectorIds -> Nat] /\ w \in [ProtectorIds -> Nat] /\ u \in [ProtectorIds -> Nat]
  BY <1>1, WeightsTyped
<1>3. \A i \in ProtectorIds : w[i] <= v[i] + inc * u[i]
  <2> TAKE i \in ProtectorIds
  <2>1. AccrualOf(p[i], b.rps + inc) <= AccrualOf(p[i], b.rps) + inc * p[i].shares
    BY <1>1, AccrualGrowth
  <2>2. w[i] = AccrualOf(p[i], a.rps) /\ v[i] = AccrualOf(p[i], b.rps) /\ u[i] = p[i].shares
    BY DEF Accruals, Shares
  <2> QED
    BY <1>1, <2>1, <2>2
<1>4. shares = SumAmong(ids, u) /\ SumAmong(ids, v) + P * b.dust <= P * b.current
  BY DEF CurrentSound
<1>5. inc * shares + P * a.dust + P * b.current <= P * a.current + P * b.dust
  BY DEF Funds
<1>6. a.current # 0 => shares # 0
  BY DEF Funds, CurrentSound
<1> HIDE DEF ids, inc, v, w, u, P
<1>7. SumAmong(ids, w) <= SumAmong(ids, v) + inc * SumAmong(ids, u)
  BY <1>1, <1>2, <1>3, AmongGrowth
<1>8. SumAmong(ids, w) \in Nat /\ SumAmong(ids, v) \in Nat /\ inc * shares \in Nat
  BY <1>1, <1>2, AmongType, ProductType
<1>9. SumAmong(ids, w) + P * a.dust <= P * a.current
  BY <1>1, <1>4, <1>5, <1>7, <1>8
<1> QED
  BY <1>4, <1>6, <1>9 DEF CurrentSound, ids, w, u, P

\* The current epoch, ended as it stands
LEMMA CurrentEnds ==
  ASSUME NEW p \in [ProtectorIds -> ProtectorPosition], NEW live, NEW e, NEW shares \in Nat,
         shares # 0, NEW b \in Book, CurrentSound(live, p, e, shares, b),
         \A i \in live : p[i].epoch = e => ~p[i].settled,
         NEW entry, entry.finalRps = b.rps, entry.shares = shares, entry.reserve = b.current,
         entry.backing # 0 => entry.backingShares = shares
  PROVE  EndedSound(live, p, e, entry)
<1> DEFINE P == RewardPrecision
           ids == MembersOf(live, p, e)
           v == Accruals(p, b.rps)
<1>1. UnsettledOf(live, p, e) = ids
  BY DEF UnsettledOf, MembersOf
<1>2. \A i \in ids : ~p[i].settled
  BY DEF MembersOf
<1>3. shares = SumAmong(ids, Shares(p)) /\ SumAmong(ids, v) + P * b.dust <= P * b.current
  BY DEF CurrentSound
<1>4. P * b.dust \in Nat /\ P * b.current \in Nat
  BY BookFields, RewardAssumption, ProductType
<1>5. SumAmong(ids, v) \in Nat
  <2>1. v \in [ProtectorIds -> Nat]
    BY BookFields, WeightsTyped
  <2> HIDE DEF ids, v
  <2> QED
    BY <2>1, AmongType
<1>6. SumAmong(ids, v) <= P * b.current
  <2> HIDE DEF ids, v, P
  <2> QED
    BY <1>3, <1>4, <1>5
<1> HIDE DEF ids, v
<1> QED
  BY <1>1, <1>2, <1>3, <1>6 DEF EndedSound, ids, v

\* Nobody is a member of an epoch to come.
LEMMA CurrentBegins ==
  ASSUME NEW p \in [ProtectorIds -> ProtectorPosition], NEW live, NEW e, NEW b \in Book,
         b.current = 0, b.dust = 0, \A i \in live : p[i].epoch # e
  PROVE  CurrentSound(live, p, e, 0, b)
<1>1. MembersOf(live, p, e) = {}
  BY DEF MembersOf
<1>2. Accruals(p, b.rps) \in [ProtectorIds -> Nat] /\ Shares(p) \in [ProtectorIds -> Nat]
  BY BookFields, WeightsTyped
<1>3. SumAmong({}, Accruals(p, b.rps)) = 0 /\ SumAmong({}, Shares(p)) = 0
  BY <1>2, AmongZero
<1>4. RewardPrecision * 0 = 0
  BY RewardAssumption
<1> QED
  BY <1>1, <1>3, <1>4 DEF CurrentSound

\* What a receipt accrues in an epoch, if it is one of its members
AccrualAt(live, p, e, rps, i) ==
  IF i \in live /\ p[i].epoch = e THEN AccrualOf(p[i], rps) ELSE 0

(***************************************************************************)
(* One receipt of epoch e joins, is paid, is cut down or leaves: nothing   *)
(* is promised to it beyond what it had less what it was paid, and the     *)
(* reserve falls by the payment.                                           *)
(***************************************************************************)
Rewritten(live, p, lq, q, e, id, paid, b, a) ==
  /\ \A j \in ProtectorIds \ {id} : q[j] = p[j] /\ (j \in lq <=> j \in live)
  /\ paid <= b.current
  /\ a.rps = b.rps /\ a.dust = b.dust /\ a.current = b.current - paid
  /\ RewardPrecision * paid <= AccrualAt(live, p, e, b.rps, id)
  /\ AccrualAt(lq, q, e, b.rps, id)
       <= AccrualAt(live, p, e, b.rps, id) - RewardPrecision * paid

LEMMA CurrentRewritten ==
  ASSUME NEW p \in [ProtectorIds -> ProtectorPosition], NEW q \in [ProtectorIds -> ProtectorPosition],
         NEW live, NEW lq, NEW e, NEW shares \in Nat, NEW b \in Book, NEW a \in Book,
         CurrentSound(live, p, e, shares, b), NEW id \in ProtectorIds, NEW paid \in Nat,
         Rewritten(live, p, lq, q, e, id, paid, b, a)
  PROVE  /\ SumAmong(MembersOf(lq, q, e), Shares(q))
              = shares - ShareAt(live, p, e, id) + ShareAt(lq, q, e, id)
         /\ SumAmong(MembersOf(lq, q, e), Accruals(q, a.rps)) + RewardPrecision * a.dust
              <= RewardPrecision * a.current
<1> DEFINE P == RewardPrecision
           m == MembersOf(live, p, e)
           mq == MembersOf(lq, q, e)
           s == Shares(p)
           t == Shares(q)
           v == Accruals(p, b.rps)
           w == Accruals(q, b.rps)
           old == AccrualAt(live, p, e, b.rps, id)
           new == AccrualAt(lq, q, e, b.rps, id)
<1>1. /\ s \in [ProtectorIds -> Nat] /\ t \in [ProtectorIds -> Nat]
      /\ v \in [ProtectorIds -> Nat] /\ w \in [ProtectorIds -> Nat]
  BY BookFields, WeightsTyped
<1>2. \A j \in ProtectorIds \ {id} : /\ j \in mq <=> j \in m
                                     /\ t[j] = s[j] /\ w[j] = v[j]
  BY DEF MembersOf, Shares, Accruals, Rewritten
<1>3. /\ (IF id \in m THEN s[id] ELSE 0) = ShareAt(live, p, e, id)
      /\ (IF id \in mq THEN t[id] ELSE 0) = ShareAt(lq, q, e, id)
      /\ (IF id \in m THEN v[id] ELSE 0) = old /\ (IF id \in mq THEN w[id] ELSE 0) = new
  BY DEF MembersOf, Shares, Accruals, ShareAt, AccrualAt
<1>4. shares = SumAmong(m, s) /\ SumAmong(m, v) + P * b.dust <= P * b.current
  BY DEF CurrentSound
<1>5. /\ P * paid <= old /\ new <= old - P * paid
      /\ paid <= b.current
      /\ a.rps = b.rps /\ a.dust = b.dust /\ a.current = b.current - paid
  BY DEF Rewritten
<1>6. /\ P * b.dust \in Nat /\ P * b.current \in Nat /\ P * paid \in Nat
      /\ P * (b.current - paid) = P * b.current - P * paid
  BY <1>5, BookFields, RewardAssumption, ProductType
<1>7. old \in Nat /\ new \in Nat
  BY BookFields, AccrualType DEF AccrualAt
<1> HIDE DEF m, mq, s, t, v, w, old, new
<1>8. /\ SumAmong(mq, t) = SumAmong(m, s) - (IF id \in m THEN s[id] ELSE 0)
                           + (IF id \in mq THEN t[id] ELSE 0)
      /\ SumAmong(mq, w) = SumAmong(m, v) - old + new
  <2>1. \A j \in ProtectorIds \ {id} : (j \in mq <=> j \in m) /\ (j \in m => t[j] = s[j])
                                       /\ (j \in m => w[j] = v[j])
    BY <1>2
  <2>2. SumAmong(mq, t) = SumAmong(m, s) - (IF id \in m THEN s[id] ELSE 0)
                          + (IF id \in mq THEN t[id] ELSE 0)
    BY <1>1, <2>1, AmongChange
  <2>3. SumAmong(mq, w) = SumAmong(m, v) - (IF id \in m THEN v[id] ELSE 0)
                          + (IF id \in mq THEN w[id] ELSE 0)
    BY <1>1, <2>1, AmongChange
  <2> QED
    BY <1>3, <2>2, <2>3
<1>9. SumAmong(m, v) \in Nat
  BY <1>1, AmongType
<1> HIDE DEF P
<1>10. SumAmong(mq, w) + P * b.dust <= P * (b.current - paid)
  BY <1>4, <1>5, <1>6, <1>7, <1>8, <1>9
<1> QED
  BY <1>3, <1>4, <1>5, <1>8, <1>10 DEF mq, t, w, P

(***************************************************************************)
(* A receipt of an ended epoch settles: it is paid all that it has earned, *)
(* its shares leave the count, and if they were the last the reserve is    *)
(* cleared.                                                                *)
(***************************************************************************)
LEMMA EndedSettles ==
  ASSUME NEW p \in [ProtectorIds -> ProtectorPosition], NEW q \in [ProtectorIds -> ProtectorPosition],
         NEW live, NEW e, NEW entry \in EpochEntry, NEW after \in EpochEntry,
         EndedSound(live, p, e, entry),
         NEW id \in ProtectorIds, id \in live, p[id].epoch = e, ~p[id].settled,
         p[id].shares # 0,
         \A j \in ProtectorIds \ {id} : q[j] = p[j],
         q[id].epoch = e, q[id].shares = p[id].shares, q[id].debt = p[id].debt, q[id].settled,
         q[id].claimed = p[id].claimed + EarnedOf(p[id], entry.finalRps),
         live \subseteq ProtectorIds,
         after.finalRps = entry.finalRps,
         after.shares = Monus(entry.shares, p[id].shares),
         after.reserve = IF p[id].shares >= entry.shares THEN 0
                         ELSE entry.reserve - EarnedOf(p[id], entry.finalRps),
         after.backing = entry.backing, after.backingShares = entry.backingShares
  PROVE  EndedSound(live, q, e, after)
<1> DEFINE P == RewardPrecision
           rps == entry.finalRps
           paid == EarnedOf(p[id], rps)
           u == UnsettledOf(live, p, e)
           uq == UnsettledOf(live, q, e)
           s == Shares(p)
           t == Shares(q)
           v == Accruals(p, rps)
           w == Accruals(q, rps)
<1>1. /\ rps \in Nat /\ entry.reserve \in Nat /\ entry.shares \in Nat
      /\ P * entry.reserve \in Nat
  BY RewardAssumption, ProductType DEF EpochEntry
<1>2. /\ s \in [ProtectorIds -> Nat] /\ t \in [ProtectorIds -> Nat]
      /\ v \in [ProtectorIds -> Nat] /\ w \in [ProtectorIds -> Nat]
  BY <1>1, WeightsTyped
<1>3. /\ \A j \in ProtectorIds \ {id} : (j \in uq <=> j \in u) /\ t[j] = s[j] /\ w[j] = v[j]
      /\ id \in u /\ id \notin uq
      /\ s[id] = p[id].shares /\ t[id] = s[id] /\ v[id] = AccrualOf(p[id], rps)
  BY DEF UnsettledOf, Shares, Accruals
<1>4. /\ paid \in Nat /\ P * paid \in Nat /\ P * paid <= AccrualOf(p[id], rps)
      /\ EarnedOf(q[id], rps) = 0
  <2>1. paid \in Nat
    BY <1>1, AccrualType
  <2>2. /\ P * paid \in Nat /\ P * paid <= AccrualOf(p[id], rps)
        /\ EarnedOf(q[id], rps) = paid - paid
    BY <1>1, <2>1, AccrualAfterClaim
  <2> QED
    BY <2>1, <2>2
<1>5. entry.shares = SumAmong(u, s) /\ SumAmong(u, v) <= P * entry.reserve
  BY DEF EndedSound
<1>6. SumAmong(uq, t) = SumAmong(u, s) - s[id] /\ SumAmong(uq, w) = SumAmong(u, v) - v[id]
  <2> HIDE DEF u, uq, s, t, v, w
  <2>1. /\ SumAmong(uq, t) = SumAmong(u, s) - (IF id \in u THEN s[id] ELSE 0)
                             + (IF id \in uq THEN t[id] ELSE 0)
        /\ SumAmong(uq, w) = SumAmong(u, v) - (IF id \in u THEN v[id] ELSE 0)
                             + (IF id \in uq THEN w[id] ELSE 0)
    BY <1>2, <1>3, AmongChange
  <2>2. SumAmong(u, s) \in Nat /\ SumAmong(u, v) \in Nat
        /\ s[id] \in Nat /\ v[id] \in Nat
    BY <1>2, AmongType
  <2> QED
    BY <1>3, <2>1, <2>2
<1>7. /\ SumAmong(u, s) \in Nat /\ SumAmong(u, v) \in Nat
      /\ SumAmong(uq, t) \in Nat /\ SumAmong(uq, w) \in Nat
      /\ s[id] <= SumAmong(u, s) /\ v[id] <= SumAmong(u, v)
      /\ s[id] \in Nat /\ v[id] \in Nat
  <2> HIDE DEF u, uq, s, t, v, w
  <2> QED
    BY <1>2, <1>3, AmongType
<1>8. after.shares = SumAmong(uq, t)
  <2>1. Monus(entry.shares, s[id]) = entry.shares - s[id]
    <3> HIDE DEF u, s
    <3> QED
      BY <1>5, <1>7 DEF Monus
  <2> QED
    BY <1>3, <1>5, <1>6, <2>1
<1>9. after.reserve # 0 => after.shares # 0
  <2> SUFFICES ASSUME after.reserve # 0 PROVE after.shares # 0
    OBVIOUS
  <2>1. ~(s[id] >= entry.shares)
    BY <1>3
  <2> HIDE DEF u, uq, s, t
  <2> QED
    BY <1>1, <1>5, <1>6, <1>7, <1>8, <2>1
<1>10. SumAmong(uq, w) <= P * after.reserve
  <2>1. CASE s[id] >= entry.shares
    <3>1. after.reserve = 0
      BY <1>3, <2>1
    <3>2. SumAmong(uq, t) = 0
      <4> HIDE DEF u, uq, s, t
      <4> QED
        BY <1>5, <1>6, <1>7, <2>1
    <3>3. SumAmong(uq, w) = 0
      <4>1. \A i \in ProtectorIds : i \in uq => t[i] = 0
        <5> TAKE i \in ProtectorIds
        <5> HIDE DEF uq, t
        <5>1. i \in uq => t[i] <= SumAmong(uq, t)
          BY <1>2, AmongType
        <5> QED
          BY <1>2, <3>2, <5>1
      <4>2. \A i \in ProtectorIds : i \in uq => w[i] = 0
        <5> SUFFICES ASSUME NEW i \in ProtectorIds, i \in uq PROVE w[i] = 0
          OBVIOUS
        <5>1. q[i].shares = 0
          BY <4>1 DEF Shares
        <5>2. q[i].debt + q[i].claimed \in Nat
          BY PositionFields
        <5>3. P * (q[i].debt + q[i].claimed) \in Nat
          BY <5>2, RewardAssumption, ProductType
        <5>4. rps * 0 = 0
          BY <1>1
        <5>5. AccrualOf(q[i], rps) = 0
          BY <5>1, <5>3, <5>4 DEF AccrualOf, Monus
        <5> QED
          BY <5>5 DEF Accruals
      <4> HIDE DEF uq, w
      <4> QED
        BY <1>2, <4>2, AmongZero
    <3>4. P * 0 = 0
      BY RewardAssumption
    <3> QED
      BY <3>1, <3>3, <3>4
  <2>2. CASE ~(s[id] >= entry.shares)
    <3>1. after.reserve = entry.reserve - paid /\ after.reserve \in Nat
      BY <1>3, <2>2 DEF EpochEntry
    <3> DEFINE reserve == entry.reserve
               accrual == AccrualOf(p[id], rps)
    <3>2. P * (reserve - paid) = P * reserve - P * paid
      <4> HIDE DEF paid
      <4> QED
        BY <1>1, <1>4, RewardAssumption
    <3>3. /\ SumAmong(uq, w) = SumAmong(u, v) - v[id] /\ v[id] = accrual
          /\ SumAmong(u, v) <= P * reserve /\ P * paid <= accrual
          /\ SumAmong(u, v) \in Nat /\ v[id] \in Nat /\ P * paid \in Nat /\ P * reserve \in Nat
      BY <1>1, <1>3, <1>4, <1>5, <1>6, <1>7
    <3> HIDE DEF u, uq, v, w, paid, reserve, accrual, P
    <3>4. SumAmong(uq, w) <= P * reserve - P * paid
      BY <3>3
    <3> QED
      BY <3>1, <3>2, <3>4 DEF reserve
  <2> QED
    BY <2>1, <2>2
<1>11. \A i \in MembersOf(live, q, e) : q[i].settled => EarnedOf(q[i], rps) = 0
  <2> SUFFICES ASSUME NEW i \in MembersOf(live, q, e), q[i].settled, i # id
               PROVE  EarnedOf(q[i], rps) = 0
    BY <1>4
  <2>1. i \in ProtectorIds /\ q[i] = p[i] /\ i \in MembersOf(live, p, e)
    BY DEF MembersOf
  <2> QED
    BY <2>1 DEF EndedSound
<1>12. SumAmong(MembersOf(live, q, e), Shares(q)) = SumAmong(MembersOf(live, p, e), Shares(p))
  <2>1. \A j \in ProtectorIds : /\ j \in MembersOf(live, q, e) <=> j \in MembersOf(live, p, e)
                                /\ t[j] = s[j]
    <3>1. id \in MembersOf(live, q, e) /\ id \in MembersOf(live, p, e) /\ t[id] = s[id]
      BY <1>3 DEF MembersOf
    <3>2. \A j \in ProtectorIds \ {id} : /\ j \in MembersOf(live, q, e) <=> j \in MembersOf(live, p, e)
                                         /\ t[j] = s[j]
      BY <1>3 DEF MembersOf
    <3> QED
      BY <3>1, <3>2
  <2> HIDE DEF s, t
  <2>2. SumAmong(MembersOf(live, q, e), t) = SumAmong(MembersOf(live, p, e), s)
    BY <2>1, AmongSame
  <2> QED
    BY <2>2 DEF s, t
<1> QED
  BY <1>8, <1>9, <1>10, <1>11, <1>12 DEF EndedSound

\* A settled receipt of an ended epoch takes its residual backing and leaves.
LEMMA EndedLeaves ==
  ASSUME NEW p \in [ProtectorIds -> ProtectorPosition], NEW q \in [ProtectorIds -> ProtectorPosition],
         NEW live, NEW e, NEW entry \in EpochEntry, EndedSound(live, p, e, entry),
         NEW id \in ProtectorIds, id \in live, p[id].epoch = e, p[id].settled,
         \A j \in ProtectorIds \ {id} : q[j] = p[j], live \subseteq ProtectorIds,
         entry.backing # 0
  PROVE  EndedSound(live \ {id}, q, e, BackingEntryAfter(entry, p[id].shares))
<1> DEFINE after == BackingEntryAfter(entry, p[id].shares)
           lq == live \ {id}
           m == MembersOf(live, p, e)
           mq == MembersOf(lq, q, e)
           s == Shares(p)
           t == Shares(q)
<1>1. /\ entry.backing \in Nat /\ entry.backingShares \in Nat /\ p[id].shares \in Nat
  BY PositionFields DEF EpochEntry
<1>2. /\ after.finalRps = entry.finalRps /\ after.shares = entry.shares
      /\ after.reserve = entry.reserve
      /\ after.backingShares = IF p[id].shares >= entry.backingShares THEN 0
                               ELSE entry.backingShares - p[id].shares
      /\ p[id].shares >= entry.backingShares => after.backing = 0
  <2> DEFINE x == entry.backing - MulDiv(p[id].shares, entry.backing, entry.backingShares)
             y == entry.backingShares - p[id].shares
             n == p[id].shares
  <2>1. after = IF n >= entry.backingShares
                THEN [entry EXCEPT !.backing = 0, !.backingShares = 0]
                ELSE [entry EXCEPT !.backing = x, !.backingShares = y]
    BY DEF BackingEntryAfter
  <2>2. y = entry.backingShares - n
    OBVIOUS
  <2> HIDE DEF x, y, n, after
  <2>3. /\ after.finalRps = entry.finalRps /\ after.shares = entry.shares
        /\ after.reserve = entry.reserve
        /\ after.backingShares = IF n >= entry.backingShares THEN 0 ELSE y
        /\ n >= entry.backingShares => after.backing = 0
    BY <2>1 DEF EpochEntry
  <2> QED
    BY <2>2, <2>3 DEF n
<1> HIDE DEF after
<1>3. entry.backingShares # 0 /\ entry.backingShares = SumAmong(m, s)
  BY DEF EndedSound
<1>4. SumAmong(mq, t) = SumAmong(m, s) - p[id].shares
  <2>1. s \in [ProtectorIds -> Nat] /\ t \in [ProtectorIds -> Nat]
    BY PositionFields DEF Shares
  <2>2. /\ \A j \in ProtectorIds \ {id} : (j \in mq <=> j \in m) /\ t[j] = s[j]
        /\ id \in m /\ id \notin mq /\ s[id] = p[id].shares
    BY DEF MembersOf, Shares
  <2> HIDE DEF m, mq, s, t
  <2>3. SumAmong(mq, t) = SumAmong(m, s) - (IF id \in m THEN s[id] ELSE 0)
                          + (IF id \in mq THEN t[id] ELSE 0)
    BY <2>1, <2>2, AmongChange
  <2>4. SumAmong(m, s) \in Nat
    BY <2>1, AmongType
  <2> QED
    BY <1>1, <2>2, <2>3, <2>4
<1>5. after.backing # 0 => after.backingShares # 0 /\ after.backingShares = SumAmong(mq, t)
  <2> HIDE DEF m, mq, s, t
  <2> QED
    BY <1>1, <1>2, <1>3, <1>4
<1>6. /\ SumAmong(UnsettledOf(lq, q, e), t) = SumAmong(UnsettledOf(live, p, e), s)
      /\ SumAmong(UnsettledOf(lq, q, e), Accruals(q, entry.finalRps))
           = SumAmong(UnsettledOf(live, p, e), Accruals(p, entry.finalRps))
  <2> DEFINE u == UnsettledOf(live, p, e)
             uq == UnsettledOf(lq, q, e)
             v == Accruals(p, entry.finalRps)
             w == Accruals(q, entry.finalRps)
  <2>1. \A j \in ProtectorIds : (j \in uq <=> j \in u)
                                /\ (j \in u => t[j] = s[j] /\ w[j] = v[j])
    BY DEF UnsettledOf, Shares, Accruals
  <2> HIDE DEF u, uq, v, w, s, t
  <2> QED
    BY <2>1, AmongSame DEF u, uq, v, w
<1>7. \A i \in mq : q[i].settled => EarnedOf(q[i], entry.finalRps) = 0
  BY DEF MembersOf, EndedSound
<1>8. /\ entry.shares = SumAmong(UnsettledOf(live, p, e), s)
      /\ entry.reserve # 0 => entry.shares # 0
      /\ SumAmong(UnsettledOf(live, p, e), Accruals(p, entry.finalRps))
           <= RewardPrecision * entry.reserve
  BY DEF EndedSound
<1> QED
  BY <1>2, <1>5, <1>6, <1>7, <1>8 DEF EndedSound, after

\* A receipt of an ended epoch has earned no more than the epoch's reserve holds.
LEMMA EarnedWithinReserve ==
  ASSUME NEW p \in [ProtectorIds -> ProtectorPosition], NEW live, NEW e,
         NEW entry \in EpochEntry, EndedSound(live, p, e, entry),
         NEW id \in ProtectorIds, id \in live, p[id].epoch = e
  PROVE  /\ EarnedOf(p[id], entry.finalRps) \in Nat
         /\ EarnedOf(p[id], entry.finalRps) <= entry.reserve
<1> DEFINE P == RewardPrecision
           rps == entry.finalRps
           earned == EarnedOf(p[id], rps)
           v == Accruals(p, rps)
           u == UnsettledOf(live, p, e)
<1>1. rps \in Nat /\ entry.reserve \in Nat /\ P \in Nat \ {0}
  BY RewardAssumption DEF EpochEntry
<1>2. earned \in Nat /\ P * earned \in Nat /\ P * earned <= AccrualOf(p[id], rps)
      /\ AccrualOf(p[id], rps) \in Nat
  BY <1>1, AccrualType
<1>3. CASE p[id].settled
  BY <1>1, <1>3 DEF EndedSound, MembersOf
<1>4. CASE ~p[id].settled
  <2>1. v \in [ProtectorIds -> Nat] /\ v[id] = AccrualOf(p[id], rps) /\ id \in u
    BY <1>1, <1>4, WeightsTyped DEF UnsettledOf, Accruals
  <2>2. SumAmong(u, v) <= P * entry.reserve
    BY DEF EndedSound
  <2> HIDE DEF u, v, earned
  <2>3. v[id] <= SumAmong(u, v) /\ SumAmong(u, v) \in Nat
    BY <2>1, AmongType
  <2>4. P * earned <= P * entry.reserve
    <3>1. P * entry.reserve \in Nat
      BY <1>1, ProductType
    <3> HIDE DEF P
    <3> QED
      BY <1>2, <2>1, <2>2, <2>3, <3>1
  <2>5. earned <= entry.reserve
    <3> DEFINE reserve == entry.reserve
    <3>1. reserve \in Nat /\ P * earned <= P * reserve
      BY <1>1, <2>4
    <3> HIDE DEF reserve, P
    <3>2. ASSUME reserve + 1 <= earned PROVE FALSE
      <4>1. P * (reserve + 1) <= P * earned
        BY <1>1, <1>2, <3>1, <3>2
      <4>2. P * (reserve + 1) = P * reserve + P
        BY <1>1, <3>1
      <4> QED
        BY <1>1, <1>2, <3>1, <4>1, <4>2, ProductType
    <3> QED
      BY <1>2, <3>1, <3>2 DEF reserve
  <2> QED
    BY <1>2, <2>5 DEF earned
<1> QED
  BY <1>3, <1>4

-----------------------------------------------------------------------------
(* The inductive invariant of the epochs' books *)

(***************************************************************************)
(* EpochBooksExact and RewardsFunded together, as they are inductive: an   *)
(* epoch that has not ended holds nothing, and the accruals are counted    *)
(* before the division to whole tokens.                                    *)
(***************************************************************************)
BooksInv ==
  /\ OpenReceipts(protectorLive, protectorPos, protectorShareEpoch)
  /\ \A e \in Epochs :
       e >= protectorShareEpoch => epochBook[e].reserve = 0 /\ epochBook[e].backing = 0
  /\ CurrentSound(protectorLive, protectorPos, protectorShareEpoch, totalProtectorShares, book)
  /\ \A e \in Epochs :
       e < protectorShareEpoch => EndedSound(protectorLive, protectorPos, e, epochBook[e])

LEMMA BooksTyped ==
  ASSUME AccountingInv
  PROVE  /\ protectorPos \in [ProtectorIds -> ProtectorPosition]
         /\ protectorLive \subseteq ProtectorIds
         /\ protectorShareEpoch \in Nat /\ protectorShareEpoch \in Epochs
         /\ totalProtectorShares \in Nat /\ totalProtectorTokens \in Nat
         /\ book \in Book /\ Partitioned(book)
         /\ epochBook \in [Epochs -> EpochEntry]
<1>1. protectorShareEpoch \in Epochs
  BY Constants DEF AccountingInv, ReceiptInv, Epochs
<1> QED
  BY <1>1, SharesTyped DEF AccountingInv, ReceiptInv, LedgerInv, BackingInv, ReservesPartition

LEMMA BooksInit ==
  ASSUME Init
  PROVE  BooksInv
<1>1. /\ protectorLive = {} /\ protectorShareEpoch = 0 /\ totalProtectorShares = 0
      /\ book = EmptyBook /\ epochBook = [e \in Epochs |-> NoEpoch]
  BY DEF Init
<1>2. OpenReceipts(protectorLive, protectorPos, protectorShareEpoch)
  BY <1>1 DEF OpenReceipts
<1>3. \A e \in Epochs :
        e >= protectorShareEpoch => epochBook[e].reserve = 0 /\ epochBook[e].backing = 0
  BY <1>1 DEF NoEpoch
<1>4. CurrentSound(protectorLive, protectorPos, protectorShareEpoch, 0, book)
  <2>1. /\ book \in Book /\ book.current = 0 /\ book.dust = 0
    BY <1>1 DEF EmptyBook, Book
  <2>2. protectorPos \in [ProtectorIds -> ProtectorPosition]
    BY InitInv DEF AccountingInv, ReceiptInv
  <2> QED
    BY <1>1, <2>1, <2>2, CurrentBegins
<1>5. \A e \in Epochs : ~(e < protectorShareEpoch)
  BY <1>1 DEF Epochs
<1> QED
  BY <1>1, <1>2, <1>3, <1>4, <1>5 DEF BooksInv

\* Nothing that an epoch counts changes in any receipt.
SameReceipts ==
  /\ protectorLive' = protectorLive
  /\ \A i \in ProtectorIds :
       /\ protectorPos'[i].epoch = protectorPos[i].epoch
       /\ protectorPos'[i].shares = protectorPos[i].shares
       /\ protectorPos'[i].debt = protectorPos[i].debt
       /\ protectorPos'[i].claimed = protectorPos[i].claimed
       /\ protectorPos'[i].settled = protectorPos[i].settled
       /\ protectorPos'[i].backingSettled = protectorPos[i].backingSettled

\* A step that changes the book alone, and pays for the accumulator's step.
LEMMA BooksFunded ==
  ASSUME AccountingInv, BooksInv, book' \in Book, Funds(book, book', totalProtectorShares),
         UNCHANGED <<epochVars, totalProtectorShares>>, SameReceipts
  PROVE  BooksInv'
<1> DEFINE e0 == protectorShareEpoch
           p == protectorPos
           q == protectorPos'
           live == protectorLive
<1>1. /\ p \in [ProtectorIds -> ProtectorPosition] /\ live \subseteq ProtectorIds
      /\ totalProtectorShares \in Nat /\ book \in Book
  BY BooksTyped
<1>2. \A e : SameMembers(live, p, live, q, e)
  BY DEF SameReceipts, SameMembers
<1>3. CurrentSound(live, p, e0, totalProtectorShares, book')
  BY <1>1, CurrentFunded DEF BooksInv
<1>4. CurrentSound(live, q, e0, totalProtectorShares, book')
  BY <1>2, <1>3, CurrentKept
<1>5. \A e \in Epochs : e < e0 => EndedSound(live, q, e, epochBook[e])
  BY <1>1, <1>2, EndedKept DEF BooksInv
<1>6. OpenReceipts(live, q, e0)
  BY <1>1 DEF BooksInv, OpenReceipts, SameReceipts
<1>7. /\ protectorLive' = live /\ protectorShareEpoch' = e0 /\ epochBook' = epochBook
      /\ totalProtectorShares' = totalProtectorShares
  BY DEF SameReceipts, epochVars
<1> QED
  BY <1>4, <1>5, <1>6, <1>7 DEF BooksInv

\* Settling the fees of a shield receipt pays for what it adds to the accumulator.
LEMMA FeesFunded ==
  ASSUME AccountingInv, NEW id \in ShieldIds, NEW price \in Nat, CanSettleFees(id, price)
  PROVE  /\ SettleFees(id, price).fees \in Nat
         /\ SettleFees(id, price).fees <= shieldPos[id].amount
         /\ SettleFees(id, price).book \in Book
         /\ Partitioned(SettleFees(id, price).book)
         /\ Funds(book, SettleFees(id, price).book, totalProtectorShares)
<1> DEFINE fees == IF transferIntegrityBroken THEN NoFees ELSE FeesDue(id, price)
           shares == totalProtectorShares
           tokens == totalProtectorTokens
           charged == BookWithFees(fees)
<1>1. book \in Book /\ shares \in Nat /\ tokens \in Nat
  BY BooksTyped
<1>2. /\ ShieldInv /\ ReceiptInv /\ LedgerInv /\ StatusInv
  BY DEF AccountingInv
<1>3. fees \in FeeSplit
  <2>1. CASE transferIntegrityBroken
    BY <2>1 DEF NoFees, FeeSplit
  <2>2. CASE ~transferIntegrityBroken
    BY <1>2, <2>2, FeesDueCapped DEF CanSettleFees
  <2> QED
    BY <2>1, <2>2
<1>4. SettleFees(id, price).book = AccumulateReward(charged, shares, tokens, fees.commission)
  BY DEF SettleFees
<1> HIDE DEF fees
<1>5. fees.commission \in Nat /\ charged \in Book
  BY <1>1, <1>3, BookWithFeesEffect DEF FeeSplit
<1>6. charged.rps = book.rps /\ charged.dust = book.dust /\ charged.current = book.current
  BY <1>1 DEF BookWithFees, Book
<1> HIDE DEF charged
<1>7. Funds(book, charged, shares)
  BY <1>1, <1>5, <1>6, FundsSame
<1>8. Funds(charged, SettleFees(id, price).book, shares)
  BY <1>1, <1>4, <1>5, FundsAccumulate
<1>9. /\ SettleFees(id, price).fees \in Nat
      /\ SettleFees(id, price).fees <= shieldPos[id].amount
      /\ SettleFees(id, price).book \in Book
      /\ Partitioned(SettleFees(id, price).book)
  BY <1>1, <1>2, SettleFeesEffect
<1> HIDE DEF shares
<1>10. Funds(book, SettleFees(id, price).book, shares)
  <2> DEFINE a == SettleFees(id, price).book
  <2>1. a \in Book /\ Funds(charged, a, shares)
    BY <1>8, <1>9
  <2> HIDE DEF a
  <2>2. Funds(book, a, shares)
    BY <1>1, <1>5, <1>7, <2>1, FundsTransitive DEF shares
  <2> QED
    BY <2>2 DEF a
<1> QED
  BY <1>9, <1>10 DEF shares

LEMMA ShieldStepsKeepBooks ==
  ASSUME AccountingInv, BooksInv, NEW id \in ShieldIds,
         \/ ShieldedWithdrawSameAsset(id) \/ ClaimRewards(id)
         \/ \E amount \in ShieldedAmounts : PartialWithdrawShielded(id, amount)
  PROVE  BooksInv'
<1>1. /\ CanSettleFees(id, SettlementPrice) /\ book' = SettleFees(id, SettlementPrice).book
      /\ UNCHANGED <<protectorVars, epochVars, protectorTotals>>
  <2>1. CASE ShieldedWithdrawSameAsset(id)
    BY <2>1 DEF ShieldedWithdrawSameAsset, SameAssetExitAllowed
  <2>2. CASE ClaimRewards(id)
    BY <2>2 DEF ClaimRewards
  <2>3. CASE \E amount \in ShieldedAmounts : PartialWithdrawShielded(id, amount)
    BY <2>3 DEF PartialWithdrawShielded
  <2> QED
    BY <2>1, <2>2, <2>3
<1>2. SettlementPrice \in Nat
  BY Environment DEF AccountingInv
<1>3. book' \in Book /\ Funds(book, book', totalProtectorShares)
  BY <1>1, <1>2, FeesFunded
<1>4. SameReceipts /\ UNCHANGED <<epochVars, totalProtectorShares>>
  BY <1>1 DEF SameReceipts, protectorVars, protectorTotals
<1> QED
  BY <1>3, <1>4, BooksFunded

\* Steps that leave the receipts, the epochs and the accumulator alone
LEMMA QuietStepsKeepBooks ==
  ASSUME AccountingInv, BooksInv, book' \in Book,
         book'.rps = book.rps, book'.dust = book.dust, book'.current = book.current,
         UNCHANGED <<epochVars, totalProtectorShares>>, SameReceipts
  PROVE  BooksInv'
<1>1. book \in Book /\ totalProtectorShares \in Nat
  BY BooksTyped
<1>2. Funds(book, book', totalProtectorShares)
  <2>1. PICK a \in Book : a = book'
    OBVIOUS
  <2>2. Funds(book, a, totalProtectorShares)
    BY <1>1, <2>1, FundsSame
  <2> QED
    BY <2>1, <2>2
<1> QED
  BY <1>2, BooksFunded

LEMMA UnlockKeepsBooks ==
  ASSUME AccountingInv, BooksInv, NEW id \in ProtectorIds,
         StartUnlockProcess(id) \/ CancelUnlockProcess(id)
  PROVE  BooksInv'
<1>1. PICK t : protectorPos' = [protectorPos EXCEPT ![id].unlockRequestTime = t]
  BY DEF StartUnlockProcess, CancelUnlockProcess
<1>2. UNCHANGED <<protectorLive, epochVars, protectorTotals, book>>
  BY DEF StartUnlockProcess, CancelUnlockProcess
<1>3. protectorPos \in [ProtectorIds -> ProtectorPosition] /\ book \in Book
  BY BooksTyped
<1>4. \A i \in ProtectorIds :
        /\ protectorPos'[i].epoch = protectorPos[i].epoch
        /\ protectorPos'[i].shares = protectorPos[i].shares
        /\ protectorPos'[i].debt = protectorPos[i].debt
        /\ protectorPos'[i].claimed = protectorPos[i].claimed
        /\ protectorPos'[i].settled = protectorPos[i].settled
        /\ protectorPos'[i].backingSettled = protectorPos[i].backingSettled
  <2> TAKE i \in ProtectorIds
  <2>1. CASE i = id
    <3>1. protectorPos'[id] = [protectorPos[id] EXCEPT !.unlockRequestTime = t]
      BY <1>1, <1>3
    <3>2. protectorPos[id] \in ProtectorPosition
      BY <1>3
    <3> QED
      BY <2>1, <3>1, <3>2 DEF ProtectorPosition
  <2>2. CASE i # id
    BY <1>1, <1>3, <2>2
  <2> QED
    BY <2>1, <2>2
<1>5. /\ SameReceipts /\ UNCHANGED <<epochVars, totalProtectorShares>>
      /\ book' = book
  BY <1>2, <1>4 DEF SameReceipts, protectorTotals
<1> QED
  BY <1>3, <1>5, QuietStepsKeepBooks

LEMMA GovernanceKeepsBooks ==
  ASSUME AccountingInv, BooksInv,
         GovernanceNext \/ EnvironmentNext \/ UNCHANGED vars
           \/ \E amount \in ShieldedAmounts : DepositShieldedAsset(amount)
  PROVE  BooksInv'
<1>1. book \in Book
  BY BooksTyped
<1>2. /\ UNCHANGED <<protectorVars, epochVars, totalProtectorShares>>
      /\ \/ book' = book
         \/ book' = [book EXCEPT !.poolFee = 0]
         \/ book' = [book EXCEPT !.protocolFee = 0]
  <2>1. CASE GovernanceNext
    BY <2>1 DEF GovernanceNext, PayPoolFee, PayProtocolFee, PayFee, Pause, Unpause,
       UpdatePoolConfig, ResetShieldedTokenTransferIntegrity, RetireEmptyPool, RetireDustPool,
       RetireProtectorOnlyPool, OnlyStatusChanges, protectorTotals
  <2>2. CASE EnvironmentNext
    BY <2>2 DEF EnvironmentNext, OracleUpdate, Tick, Donate, PoolUnchanged, protectorTotals
  <2>3. CASE UNCHANGED vars
    BY <2>3 DEF vars, protectorTotals
  <2>4. CASE \E amount \in ShieldedAmounts : DepositShieldedAsset(amount)
    BY <2>4 DEF DepositShieldedAsset, protectorTotals
  <2> QED
    BY <2>1, <2>2, <2>3, <2>4
<1>3. /\ book' \in Book /\ book'.rps = book.rps /\ book'.dust = book.dust
      /\ book'.current = book.current
  BY <1>1, <1>2 DEF Book
<1>4. SameReceipts /\ UNCHANGED <<epochVars, totalProtectorShares>>
  BY <1>2 DEF SameReceipts, protectorVars
<1> QED
  BY <1>3, <1>4, QuietStepsKeepBooks

(***************************************************************************)
(* An activation: its fees and its forfeited deposit are rewards, and the  *)
(* last backing token to leave ends the epoch with them.                   *)
(***************************************************************************)
LEMMA EpochEnds ==
  ASSUME AccountingInv, BooksInv, NEW b \in Book, Funds(book, b, totalProtectorShares),
         totalProtectorShares # 0, NEW tokens \in Nat
  PROVE  /\ EndedSound(protectorLive, protectorPos, protectorShareEpoch, ExpiredEpoch(b, tokens))
         /\ CurrentSound(protectorLive, protectorPos, protectorShareEpoch + 1, 0, ExpireBook(b))
         /\ OpenReceipts(protectorLive, protectorPos, protectorShareEpoch + 1)
<1> DEFINE e0 == protectorShareEpoch
           p == protectorPos
           live == protectorLive
           shares == totalProtectorShares
           entry == ExpiredEpoch(b, tokens)
<1>1. /\ p \in [ProtectorIds -> ProtectorPosition] /\ live \subseteq ProtectorIds
      /\ shares \in Nat /\ book \in Book /\ e0 \in Nat /\ e0 \in Epochs
      /\ epochBook \in [Epochs -> EpochEntry]
  BY BooksTyped
<1>2. CurrentSound(live, p, e0, shares, b)
  BY <1>1, CurrentFunded DEF BooksInv
<1>3. /\ epochBook[e0].reserve = 0 /\ epochBook[e0].backing = 0
      /\ epochBook[e0] \in EpochEntry /\ epochBook[e0].backingShares \in Nat
  BY <1>1 DEF BooksInv, EpochEntry
<1>4. /\ b.current \in Nat /\ b.rps \in Nat
  BY BookFields
<1>5. /\ entry.finalRps = b.rps /\ entry.shares = shares /\ entry.reserve = b.current
      /\ entry.backing # 0 => entry.backingShares = shares
  <2> DEFINE r == epochBook[e0].reserve + b.current
             k == epochBook[e0].backing + tokens
             n == IF tokens = 0 THEN epochBook[e0].backingShares ELSE shares
             o == epochBook[e0]
             f == b.rps
  <2>1. r = b.current /\ k = tokens
    BY <1>3, <1>4
  <2>2. entry = [o EXCEPT !.finalRps = f, !.shares = shares, !.reserve = r,
                          !.backing = k, !.backingShares = n]
    BY DEF ExpiredEpoch
  <2>3. o \in EpochEntry
    BY <1>3
  <2> HIDE DEF r, k, n, o, f, entry, shares
  <2>4. /\ entry.finalRps = f /\ entry.shares = shares /\ entry.reserve = r
        /\ entry.backing = k /\ entry.backingShares = n
    BY <2>2, <2>3 DEF EpochEntry
  <2> QED
    BY <2>1, <2>4 DEF n, f
<1>6. \A i \in live : p[i].epoch = e0 => ~p[i].settled
  BY <1>1 DEF BooksInv, OpenReceipts, ProtectorPosition, Epochs
<1> HIDE DEF entry
<1>7. EndedSound(live, p, e0, entry)
  BY <1>1, <1>2, <1>5, <1>6, CurrentEnds
<1>8. /\ ExpireBook(b) \in Book /\ ExpireBook(b).current = 0 /\ ExpireBook(b).dust = 0
  <2>1. ExpireBook(b) \in Book
    BY ExpireBookEffect
  <2> QED
    BY <2>1 DEF ExpireBook, Book
<1>9. \A i \in live : p[i].epoch \in Nat /\ p[i].epoch <= e0
  BY <1>1, PositionFields DEF AccountingInv, ReceiptInv
<1>10. \A i \in live : p[i].epoch # e0 + 1
  BY <1>1, <1>9
<1>11. CurrentSound(live, p, e0 + 1, 0, ExpireBook(b))
  BY <1>1, <1>8, <1>10, CurrentBegins
<1>12. OpenReceipts(live, p, e0 + 1)
  BY <1>1, <1>9 DEF BooksInv, OpenReceipts
<1> QED
  BY <1>7, <1>11, <1>12 DEF entry

\* The books of the ended epochs once the current one has joined them.
LEMMA EntriesAfterEpoch ==
  ASSUME AccountingInv, BooksInv, NEW b \in Book, Funds(book, b, totalProtectorShares),
         totalProtectorShares # 0, NEW tokens \in Nat, NEW entries,
         entries = [epochBook EXCEPT ![protectorShareEpoch] = ExpiredEpoch(b, tokens)]
  PROVE  /\ \A e \in Epochs : e >= protectorShareEpoch + 1 =>
              entries[e].reserve = 0 /\ entries[e].backing = 0
         /\ \A e \in Epochs : e < protectorShareEpoch + 1 =>
              EndedSound(protectorLive, protectorPos, e, entries[e])
<1> DEFINE e0 == protectorShareEpoch
<1>1. e0 \in Nat /\ e0 \in Epochs /\ epochBook \in [Epochs -> EpochEntry] /\ Epochs \subseteq Nat
  BY BooksTyped DEF Epochs
<1>2. /\ entries[e0] = ExpiredEpoch(b, tokens)
      /\ \A e \in Epochs \ {e0} : entries[e] = epochBook[e]
  BY <1>1
<1>3. EndedSound(protectorLive, protectorPos, e0, entries[e0])
  BY <1>2, EpochEnds
<1>4. ASSUME NEW e \in Epochs, e >= e0 + 1
      PROVE  entries[e].reserve = 0 /\ entries[e].backing = 0
  <2>1. e \in Nat /\ e # e0 /\ e >= e0
    BY <1>1, <1>4
  <2> QED
    BY <1>2, <2>1 DEF BooksInv
<1>5. ASSUME NEW e \in Epochs, e < e0 + 1
      PROVE  EndedSound(protectorLive, protectorPos, e, entries[e])
  <2>1. e \in Nat /\ (e = e0 \/ e < e0)
    BY <1>1, <1>5
  <2>2. CASE e = e0
    BY <1>3, <2>2
  <2>3. CASE e < e0
    <3>1. entries[e] = epochBook[e]
      BY <1>1, <1>2, <2>3
    <3> QED
      BY <2>3, <3>1 DEF BooksInv
  <2> QED
    BY <2>1, <2>2, <2>3
<1> QED
  BY <1>4, <1>5

LEMMA ActivationKeepsBooks ==
  ASSUME AccountingInv, BooksInv, NEW id \in ShieldIds, ShieldedWithdrawCrossAsset(id)
  PROVE  BooksInv'
<1> DEFINE settled == SettleFees(id, shieldedQuote.fee)
           b == settled.book
           forfeited == shieldPos[id].amount - settled.fees
           shares == totalProtectorShares
           rewarded == AccumulateReward(b, shares, totalProtectorTokens, forfeited)
           tokens == totalProtectorTokens - ActivationPayout(id)
           expires == Expires(FALSE, tokens)
<1>1. /\ CanSettleFees(id, shieldedQuote.fee) /\ id \in shieldLive
      /\ IF expires
         THEN /\ book' = ExpireBook(rewarded)
              /\ epochBook' = [epochBook EXCEPT ![protectorShareEpoch] =
                                 ExpiredEpoch(rewarded, 0)]
              /\ protectorShareEpoch' = protectorShareEpoch + 1
              /\ totalProtectorShares' = 0
         ELSE /\ book' = rewarded
              /\ UNCHANGED <<epochVars, totalProtectorShares>>
      /\ UNCHANGED protectorVars
  BY DEF ShieldedWithdrawCrossAsset, ActivationAllowed
<1>2. /\ shieldedQuote.fee \in Nat /\ shieldPos[id].amount \in Nat
  BY Environment DEF AccountingInv, ShieldInv, ShieldPosition
<1>3. /\ settled.fees \in Nat /\ settled.fees <= shieldPos[id].amount
      /\ b \in Book /\ Funds(book, b, shares)
  BY <1>1, <1>2, FeesFunded
<1>4. /\ shares \in Nat /\ totalProtectorTokens \in Nat /\ book \in Book
  BY BooksTyped
<1>5. expires => shares # 0
  BY DEF Expires
<1> HIDE DEF settled, tokens, expires, shares
<1>6. forfeited \in Nat
  BY <1>2, <1>3
<1> HIDE DEF forfeited, b
<1>7. rewarded \in Book /\ Funds(b, rewarded, shares)
  BY <1>3, <1>4, <1>6, AccumulateRewardEffect, FundsAccumulate
<1> HIDE DEF rewarded
<1>8. Funds(book, rewarded, shares)
  BY <1>3, <1>4, <1>7, FundsTransitive
<1>9. SameReceipts /\ protectorLive' = protectorLive /\ protectorPos' = protectorPos
  BY <1>1 DEF SameReceipts, protectorVars
<1>10. CASE ~expires
  <2>1. book' = rewarded /\ UNCHANGED <<epochVars, totalProtectorShares>>
    BY <1>1, <1>10 DEF shares
  <2> QED
    BY <1>7, <1>8, <1>9, <2>1, BooksFunded DEF shares
<1>11. CASE expires
  <2>1. /\ book' = ExpireBook(rewarded)
        /\ epochBook' = [epochBook EXCEPT ![protectorShareEpoch] = ExpiredEpoch(rewarded, 0)]
        /\ protectorShareEpoch' = protectorShareEpoch + 1
        /\ totalProtectorShares' = 0
    BY <1>1, <1>11
  <2>2. /\ CurrentSound(protectorLive, protectorPos, protectorShareEpoch + 1, 0,
                        ExpireBook(rewarded))
        /\ OpenReceipts(protectorLive, protectorPos, protectorShareEpoch + 1)
    BY <1>5, <1>7, <1>8, <1>11, EpochEnds DEF shares
  <2>3. PICK entries : entries = epochBook'
    OBVIOUS
  <2>4. /\ \A e \in Epochs : e >= protectorShareEpoch + 1 =>
             entries[e].reserve = 0 /\ entries[e].backing = 0
        /\ \A e \in Epochs : e < protectorShareEpoch + 1 =>
             EndedSound(protectorLive, protectorPos, e, entries[e])
    <3>1. /\ rewarded \in Book /\ Funds(book, rewarded, totalProtectorShares)
          /\ totalProtectorShares # 0 /\ 0 \in Nat
      BY <1>5, <1>7, <1>8, <1>11 DEF shares
    <3>2. entries = [epochBook EXCEPT ![protectorShareEpoch] = ExpiredEpoch(rewarded, 0)]
      BY <2>1, <2>3
    <3> QED
      BY <3>1, <3>2, EntriesAfterEpoch
  <2> QED
    BY <1>9, <2>1, <2>2, <2>3, <2>4 DEF BooksInv
<1> QED
  BY <1>10, <1>11

\* The pending dust is part of the reserve.
LEMMA DustWithinReserve ==
  ASSUME NEW p \in [ProtectorIds -> ProtectorPosition], NEW live, NEW e, NEW shares \in Nat,
         NEW b \in Book, CurrentSound(live, p, e, shares, b)
  PROVE  b.dust <= b.current
<1> DEFINE P == RewardPrecision
           s == SumAmong(MembersOf(live, p, e), Accruals(p, b.rps))
<1>1. b.dust \in Nat /\ b.current \in Nat /\ b.rps \in Nat /\ P \in Nat \ {0}
  BY BookFields, RewardAssumption
<1>2. s \in Nat
  BY <1>1, WeightsTyped, AmongType
<1>3. s + P * b.dust <= P * b.current
  BY DEF CurrentSound
<1> HIDE DEF P, s
<1>4. /\ P * b.dust \in Nat /\ P * b.current \in Nat
      /\ P * (b.current + 1) = P * b.current + P
  BY <1>1, ProductType
<1>5. ASSUME b.dust > b.current PROVE FALSE
  <2>1. PICK k \in Nat : b.dust = b.current + 1 + k
    <3>1. b.dust - b.current - 1 \in Nat /\ b.dust = b.current + 1 + (b.dust - b.current - 1)
      BY <1>1, <1>5
    <3> QED
      BY <3>1
  <2>2. P * b.dust = P * b.current + P + P * k /\ P * k \in Nat
    BY <1>1, <2>1, ProductType
  <2> QED
    BY <1>1, <1>2, <1>3, <1>4, <2>2
<1> QED
  BY <1>1, <1>5

(***************************************************************************)
(* A backing deposit: it may first end an epoch without backing, it turns  *)
(* the pending dust into protocol fee, and its debt is rounded up, so that *)
(* the new receipt accrues nothing from before.                            *)
(***************************************************************************)
LEMMA DepositKeepsBooks ==
  ASSUME AccountingInv, AccountingInv', BooksInv, NEW received \in BackingAmounts,
         DepositBackingAsset(received)
  PROVE  BooksInv'
<1> DEFINE p == protectorPos
           live == protectorLive
           expires == Expires(TRUE, totalProtectorTokens)
           tokens0 == IF expires THEN 0 ELSE totalProtectorTokens
           shares0 == IF expires THEN 0 ELSE totalProtectorShares
           epoch == IF expires THEN protectorShareEpoch + 1 ELSE protectorShareEpoch
           book0 == IF expires THEN ExpireBook(book) ELSE book
           book1 == RedirectDust(book0)
           minted == SharesFor(received, tokens0, shares0)
           debt == RewardDebt(book.rps, minted)
           new == [NoProtector EXCEPT !.shares = minted, !.epoch = epoch, !.debt = debt]
           id == nextProtectorId
           q == [p EXCEPT ![id] = new]
           entries == IF expires
                      THEN [epochBook EXCEPT ![protectorShareEpoch] =
                              ExpiredEpoch(book, totalProtectorTokens)]
                      ELSE epochBook
           lq == live \cup {id}
<1>0. /\ expires => /\ tokens0 = 0 /\ shares0 = 0 /\ epoch = protectorShareEpoch + 1
                    /\ book0 = ExpireBook(book) /\ totalProtectorShares # 0
                    /\ entries = [epochBook EXCEPT ![protectorShareEpoch] =
                                    ExpiredEpoch(book, totalProtectorTokens)]
      /\ ~expires => /\ tokens0 = totalProtectorTokens /\ shares0 = totalProtectorShares
                     /\ epoch = protectorShareEpoch /\ book0 = book /\ entries = epochBook
  BY DEF Expires
<1>1. /\ p \in [ProtectorIds -> ProtectorPosition] /\ live \subseteq ProtectorIds
      /\ totalProtectorShares \in Nat /\ totalProtectorTokens \in Nat
      /\ book \in Book /\ Partitioned(book)
      /\ protectorShareEpoch \in Nat /\ protectorShareEpoch \in Epochs
      /\ epochBook \in [Epochs -> EpochEntry]
  BY BooksTyped
<1>2. /\ id <= MaxProtectorId /\ minted # 0
      /\ book' = book1 /\ epochBook' = entries /\ protectorShareEpoch' = epoch
      /\ totalProtectorShares' = shares0 + minted
      /\ protectorLive' = lq /\ protectorPos' = q
  BY DEF DepositBackingAsset
<1>3. /\ q \in [ProtectorIds -> ProtectorPosition] /\ book1 \in Book
      /\ shares0 + minted \in Nat /\ shares0 + minted = SumAmong(MembersOf(lq, q, epoch), Shares(q))
      /\ epoch \in Epochs /\ epoch \in Nat
  <2>1. /\ protectorPos' \in [ProtectorIds -> ProtectorPosition] /\ book' \in Book
        /\ totalProtectorShares' \in Nat
        /\ totalProtectorShares' = SharesIn(protectorLive', protectorPos', protectorShareEpoch')
        /\ protectorShareEpoch' \in Nat /\ protectorShareEpoch' < nextProtectorId'
        /\ nextProtectorId' \in 1..(MaxProtectorId + 1)
    <3>1. ReceiptInv' /\ LedgerInv'
      BY DEF AccountingInv
    <3>2. (SharesOf(LiveIn(protectorShareEpoch)))'
             = SharesIn(protectorLive', protectorPos', protectorShareEpoch')
      BY SharesOfLiveNext
    <3>3. totalProtectorShares' \in Nat
      <4>1. ReceiptInv => totalProtectorShares \in Nat
        BY SharesTyped
      <4>2. SumOf([i \in ProtectorIds |-> ShareAt(protectorLive', protectorPos', protectorShareEpoch', i)]) \in Nat
        <5> DEFINE f == [i \in ProtectorIds |-> ShareAt(protectorLive', protectorPos', protectorShareEpoch', i)]
        <5>1. f \in [ProtectorIds -> Nat]
          BY <3>1 DEF ReceiptInv, ShareAt, ProtectorPosition
        <5> HIDE DEF f
        <5>2. SumOf(f) \in Nat
          BY <5>1, FiniteIndices, SumType
        <5> QED
          BY <5>2 DEF f
      <4> QED
        BY <3>1, <3>2, <4>2 DEF ReceiptInv, SharesIn
    <3> QED
      BY <3>1, <3>2, <3>3 DEF ReceiptInv, LedgerInv
  <2> HIDE DEF q, book1, minted, shares0, epoch, lq
  <2>2. /\ q \in [ProtectorIds -> ProtectorPosition] /\ book1 \in Book
        /\ shares0 + minted \in Nat /\ shares0 + minted = SharesIn(lq, q, epoch)
        /\ epoch \in Nat /\ epoch <= MaxProtectorId
    BY <1>2, <2>1, Constants
  <2>3. \A i \in ProtectorIds : i \in MembersOf(lq, q, epoch) <=> i \in lq /\ q[i].epoch = epoch
    BY DEF MembersOf
  <2>4. SharesIn(lq, q, epoch) = SumAmong(MembersOf(lq, q, epoch), Shares(q))
    <3>1. \A i \in ProtectorIds :
            ShareAt(lq, q, epoch, i)
              = (IF i \in MembersOf(lq, q, epoch) THEN Shares(q)[i] ELSE 0)
      BY <2>3 DEF ShareAt, Shares
    <3> QED
      BY <3>1 DEF SharesIn, SumAmong
  <2> QED
    BY <2>2, <2>4, Constants DEF Epochs
<1>4. id \in ProtectorIds /\ id \notin live
  <2>1. /\ MaxProtectorId \in Nat /\ id \in 1..(MaxProtectorId + 1)
        /\ \A j \in live : j < id
    BY Constants DEF AccountingInv, ReceiptInv
  <2> QED
    BY <1>2, <2>1 DEF ProtectorIds
<1>5. /\ q[id] = new /\ new \in ProtectorPosition
      /\ \A j \in ProtectorIds \ {id} : q[j] = p[j]
      /\ \A j \in ProtectorIds : j \in lq <=> (j \in live \/ j = id)
      /\ lq \subseteq ProtectorIds
  BY <1>1, <1>3, <1>4
<1>6. /\ new.epoch = epoch /\ new.shares = minted /\ new.debt = debt
      /\ new.settled = FALSE /\ new.backingSettled = FALSE
  BY DEF NoProtector
<1> HIDE DEF new, q, lq, minted, debt, entries, expires
<1>7. /\ CurrentSound(live, p, epoch, shares0, book0) /\ OpenReceipts(live, p, epoch)
      /\ \A e \in Epochs : e >= epoch => entries[e].reserve = 0 /\ entries[e].backing = 0
      /\ \A e \in Epochs : e < epoch => EndedSound(live, p, e, entries[e])
  <2>1. CASE ~expires
    BY <1>0, <2>1 DEF BooksInv
  <2>2. CASE expires
    <3>1. Funds(book, book, totalProtectorShares) /\ totalProtectorShares # 0
      BY <1>0, <1>1, <2>2, FundsSame
    <3>2. /\ CurrentSound(live, p, protectorShareEpoch + 1, 0, ExpireBook(book))
          /\ OpenReceipts(live, p, protectorShareEpoch + 1)
      BY <1>1, <3>1, EpochEnds
    <3>3. entries = [epochBook EXCEPT ![protectorShareEpoch] =
                       ExpiredEpoch(book, totalProtectorTokens)]
      BY <1>0, <2>2
    <3>4. /\ \A e \in Epochs : e >= protectorShareEpoch + 1 =>
               entries[e].reserve = 0 /\ entries[e].backing = 0
          /\ \A e \in Epochs : e < protectorShareEpoch + 1 =>
               EndedSound(live, p, e, entries[e])
      BY <1>1, <3>1, <3>3, EntriesAfterEpoch
    <3> QED
      BY <1>0, <2>2, <3>2, <3>4
  <2> QED
    BY <2>1, <2>2
<1>8. /\ book0 \in Book /\ Partitioned(book0) /\ book0.rps = book.rps /\ shares0 \in Nat
  BY <1>0, <1>1, ExpireBookEffect
<1> HIDE DEF book0, shares0, epoch
<1>9. book0.dust <= book0.current
  BY <1>1, <1>7, <1>8, DustWithinReserve
<1>10. /\ Funds(book0, book1, shares0) /\ book1.rps = book0.rps
  BY <1>8, <1>9, FundsRedirectDust
<1> HIDE DEF book1
<1>11. CurrentSound(live, p, epoch, shares0, book1)
  BY <1>1, <1>3, <1>7, <1>8, <1>10, CurrentFunded
<1>12. AccrualOf(new, book1.rps) = 0
  <2>1. book1.rps \in Nat /\ new.debt = RewardDebt(book1.rps, new.shares)
    BY <1>3, <1>6, <1>8, <1>10, BookFields DEF debt
  <2> QED
    BY <1>5, <2>1, JoinerAccruesNothing
<1>13. /\ SumAmong(MembersOf(lq, q, epoch), Accruals(q, book1.rps)) + RewardPrecision * book1.dust
            <= RewardPrecision * book1.current
  <2>0. PICK paid \in Nat : paid = 0
    OBVIOUS
  <2>1. /\ book1.current \in Nat /\ paid <= book1.current
        /\ book1.current = book1.current - paid
        /\ RewardPrecision * paid = 0
    BY <1>3, <2>0, BookFields, RewardAssumption
  <2>2. /\ RewardPrecision * paid <= AccrualAt(live, p, epoch, book1.rps, id)
        /\ AccrualAt(lq, q, epoch, book1.rps, id)
             <= AccrualAt(live, p, epoch, book1.rps, id) - RewardPrecision * paid
    BY <1>4, <1>5, <1>12, <2>1 DEF AccrualAt
  <2>3. \A j \in ProtectorIds \ {id} : q[j] = p[j] /\ (j \in lq <=> j \in live)
    BY <1>5
  <2>4. book1 \in Book /\ book1.rps = book1.rps /\ book1.dust = book1.dust
    BY <1>3
  <2>5. Rewritten(live, p, lq, q, epoch, id, paid, book1, book1)
    BY <2>1, <2>2, <2>3 DEF Rewritten
  <2> HIDE DEF id, p, live
  <2> QED
    BY <1>1, <1>3, <1>4, <1>8, <1>11, <2>0, <2>4, <2>5, CurrentRewritten
<1>14. CurrentSound(lq, q, epoch, shares0 + minted, book1)
  <2>1. minted \in Nat /\ shares0 + minted # 0
    BY <1>2, <1>5, <1>6, <1>8 DEF ProtectorPosition
  <2> QED
    BY <1>3, <1>13, <2>1 DEF CurrentSound
<1>15. OpenReceipts(lq, q, epoch)
  <2> SUFFICES ASSUME NEW i \in lq
               PROVE  /\ q[i].shares # 0 /\ ~q[i].backingSettled
                      /\ q[i].settled => q[i].epoch < epoch
    BY DEF OpenReceipts
  <2>1. CASE i = id
    BY <1>2, <1>5, <1>6, <2>1
  <2>2. CASE i # id
    <3>1. i \in ProtectorIds /\ i \in live /\ q[i] = p[i]
      BY <1>5, <2>2
    <3> QED
      BY <1>7, <3>1 DEF OpenReceipts
  <2> QED
    BY <2>1, <2>2
<1>16. ASSUME NEW e \in Epochs, e < epoch PROVE EndedSound(lq, q, e, entries[e])
  <2>1. SameMembers(live, p, lq, q, e)
    <3>1. epoch # e
      BY <1>3, <1>16 DEF Epochs
    <3> QED
      BY <1>4, <1>5, <1>6, <3>1 DEF SameMembers
  <2> QED
    BY <1>5, <1>7, <1>16, <2>1, EndedKept
<1> QED
  BY <1>2, <1>7, <1>14, <1>15, <1>16 DEF BooksInv

-----------------------------------------------------------------------------
(* What a claim of a commission does, field by field *)

\* The book that _claimCommissionTo starts from: the pending dust is distributed.
DistributedBook == DistributeDust(book, totalProtectorShares, totalProtectorTokens)

LEMMA DistributedBookEffect ==
  ASSUME AccountingInv
  PROVE  /\ DistributedBook \in Book /\ Partitioned(DistributedBook)
         /\ DistributedBook.current = book.current
         /\ DistributedBook.commissions = book.commissions
         /\ DistributedBook.historical = book.historical
         /\ Funds(book, DistributedBook, totalProtectorShares)
<1>1. book \in Book /\ totalProtectorShares \in Nat /\ totalProtectorTokens \in Nat
      /\ Partitioned(book)
  BY BooksTyped
<1>2. /\ DistributedBook \in Book
      /\ DistributedBook.current = book.current
      /\ DistributedBook.commissions = book.commissions
      /\ DistributedBook.historical = book.historical
  BY <1>1, DistributeDustEffect DEF DistributedBook
<1>3. Funds(book, DistributedBook, totalProtectorShares)
  BY <1>1, FundsDistribute DEF DistributedBook
<1> QED
  BY <1>1, <1>2, <1>3 DEF Partitioned

\* A payment and the redirections of an ended epoch leave the accumulator and the dust.
LEMMA PaidBookFields ==
  ASSUME NEW b \in Book, NEW paid \in Nat, NEW reserve \in Nat,
         NEW expired \in BOOLEAN, paid <= b.commissions,
         paid <= IF expired THEN b.historical ELSE b.current
  PROVE  LET a == PayCommission(b, paid, expired)
         IN  /\ a \in Book
             /\ a.rps = b.rps /\ a.dust = b.dust
             /\ a.current = IF expired THEN b.current ELSE b.current - paid
             /\ RedirectHistorical(a, reserve).rps = b.rps
             /\ RedirectHistorical(a, reserve).dust = b.dust
             /\ RedirectHistorical(a, reserve).current = a.current
<1> DEFINE a == PayCommission(b, paid, expired)
           c == b.commissions - paid
           h == IF expired THEN Monus(b.historical, paid) ELSE b.historical
           k == IF expired THEN b.current ELSE Monus(b.current, paid)
<1>1. /\ b.commissions \in Nat /\ b.historical \in Nat /\ b.current \in Nat
  BY BookFields
<1>2. c \in Nat /\ h \in Nat /\ k \in Nat /\ k = IF expired THEN b.current ELSE b.current - paid
  BY <1>1 DEF Monus
<1>3. a = [b EXCEPT !.commissions = c, !.historical = h, !.current = k]
  BY DEF PayCommission
<1> HIDE DEF c, h, k, a
<1>4. a \in Book /\ a.rps = b.rps /\ a.dust = b.dust /\ a.current = k
  BY <1>2, <1>3 DEF Book
<1>5. /\ RedirectHistorical(a, reserve).rps = a.rps
      /\ RedirectHistorical(a, reserve).dust = a.dust
      /\ RedirectHistorical(a, reserve).current = a.current
  <2> DEFINE orphaned == Least(reserve, Least(a.historical, a.commissions))
             x == a.historical - orphaned
             y == a.commissions - orphaned
             mid == [a EXCEPT !.historical = x]
             z == mid.protocolFee + Least(orphaned, ProtocolRoom(mid))
             v == mid.commissions - orphaned
  <2>1. RedirectHistorical(a, reserve) = [mid EXCEPT !.commissions = v, !.protocolFee = z]
    BY DEF RedirectHistorical, Orphan
  <2>2. mid = [a EXCEPT !.historical = x]
    OBVIOUS
  <2> HIDE DEF x, v, z, mid
  <2> QED
    BY <1>4, <2>1, <2>2 DEF Book
<1> QED
  BY <1>2, <1>4, <1>5 DEF a

LEMMA ClaimParts ==
  ASSUME AccountingInv, BooksInv, NEW id \in protectorLive
  PROVE  LET claim == ClaimOutcome(id)
             pos == protectorPos[id]
             entry == epochBook[pos.epoch]
             b == DistributedBook
         IN  /\ claim.paid \in Nat /\ claim.book \in Book
             /\ claim.book.rps = b.rps /\ claim.book.dust = b.dust
             /\ claim.pos \in ProtectorPosition /\ claim.entry \in EpochEntry
             /\ claim.pos.shares = pos.shares /\ claim.pos.epoch = pos.epoch
             /\ claim.pos.debt = pos.debt /\ claim.pos.claimed = pos.claimed + claim.paid
             /\ claim.pos.backingSettled = pos.backingSettled
             /\ claim.pos.settled <=> (pos.settled \/ Expired(id))
             /\ ~Expired(id) =>
                  /\ claim.paid <= EarnedOf(pos, b.rps) /\ claim.paid <= b.current
                  /\ claim.book.current = b.current - claim.paid
                  /\ claim.entry = entry
             /\ Expired(id) =>
                  /\ claim.book.current = b.current
                  /\ claim.paid = EarnedOf(pos, entry.finalRps)
                  /\ claim.entry.backing = entry.backing
                  /\ claim.entry.backingShares = entry.backingShares
                  /\ claim.entry.finalRps = entry.finalRps
             /\ Expired(id) /\ ~pos.settled =>
                  /\ claim.entry.shares = Monus(entry.shares, pos.shares)
                  /\ claim.entry.reserve = IF pos.shares >= entry.shares THEN 0
                                           ELSE entry.reserve - claim.paid
             /\ Expired(id) /\ pos.settled =>
                  claim.paid = 0 /\ claim.entry = entry
<1> DEFINE claim == ClaimOutcome(id)
           pos == protectorPos[id]
           entry == epochBook[pos.epoch]
           b == DistributedBook
           paid == Claimable(id, b)
           settles == Expired(id) /\ ~pos.settled
           last == settles /\ entry.shares # 0 /\ pos.shares >= entry.shares
           reserve == IF Expired(id) THEN entry.reserve - paid ELSE entry.reserve
           rest == IF last THEN 0 ELSE reserve
           paidBook == PayCommission(b, paid, Expired(id))
           final == IF last THEN RedirectHistorical(paidBook, reserve) ELSE paidBook
           shares == IF settles THEN Monus(entry.shares, pos.shares) ELSE entry.shares
           claimed == pos.claimed + paid
           ended == pos.settled \/ settles
<1>1. /\ id \in ProtectorIds /\ protectorLive \subseteq ProtectorIds
      /\ protectorPos \in [ProtectorIds -> ProtectorPosition] /\ pos \in ProtectorPosition
      /\ epochBook \in [Epochs -> EpochEntry] /\ pos.epoch \in Epochs /\ entry \in EpochEntry
      /\ protectorShareEpoch \in Nat
  BY BooksTyped, PositionFields
<1>2. /\ pos.shares \in Nat /\ pos.claimed \in Nat /\ pos.settled \in BOOLEAN
      /\ entry.reserve \in Nat /\ entry.shares \in Nat /\ entry.finalRps \in Nat
      /\ entry.backing \in Nat /\ entry.backingShares \in Nat
  BY <1>1, PositionFields DEF EpochEntry
<1>3. /\ b \in Book /\ b.commissions = book.commissions /\ b.current = book.current
      /\ b.historical = book.historical /\ Partitioned(b)
  BY DistributedBookEffect
<1>4. /\ b.commissions \in Nat /\ b.current \in Nat /\ b.historical \in Nat /\ b.rps \in Nat
      /\ b.commissions = b.current + b.historical
  BY <1>3, BookFields DEF Partitioned
<1>5. entry.reserve <= b.historical
  BY <1>1, <1>3, ReserveBound DEF AccountingInv
<1>6. Expired(id) \in BOOLEAN /\ (Expired(id) <=> pos.epoch < protectorShareEpoch)
  BY DEF Expired
<1>7. Earned(id, b) = EarnedOf(pos, IF Expired(id) THEN entry.finalRps ELSE b.rps)
  BY DEF Earned, EarnedOf
<1>8. EarnedOf(pos, b.rps) \in Nat /\ EarnedOf(pos, entry.finalRps) \in Nat
  BY <1>1, <1>2, <1>4, AccrualType
<1>9. Expired(id) =>
        /\ EndedSound(protectorLive, protectorPos, pos.epoch, entry)
        /\ EarnedOf(pos, entry.finalRps) <= entry.reserve
  BY <1>1, <1>6, EarnedWithinReserve DEF BooksInv
<1>10. paid = Least(Earned(id, b), Least(b.commissions,
                                         IF Expired(id) THEN entry.reserve ELSE b.current))
  BY DEF Claimable
<1> HIDE DEF b, entry, pos, paid
<1>11. /\ paid \in Nat /\ paid <= b.commissions
       /\ Expired(id) => paid = EarnedOf(pos, entry.finalRps) /\ paid <= entry.reserve
       /\ ~Expired(id) => paid <= EarnedOf(pos, b.rps) /\ paid <= b.current
  <2>1. CASE Expired(id)
    BY <1>2, <1>4, <1>5, <1>7, <1>8, <1>9, <1>10, <2>1 DEF Least
  <2>2. CASE ~Expired(id)
    BY <1>2, <1>4, <1>5, <1>7, <1>8, <1>10, <2>2 DEF Least
  <2> QED
    BY <2>1, <2>2
<1>12. reserve \in Nat /\ rest \in Nat /\ shares \in Nat /\ claimed \in Nat
       /\ ended \in BOOLEAN
       /\ paid <= IF Expired(id) THEN b.historical ELSE b.current
  BY <1>2, <1>4, <1>5, <1>11 DEF Monus
<1>13. /\ claim.paid = paid /\ claim.book = final
       /\ claim.entry = [entry EXCEPT !.reserve = rest, !.shares = shares]
       /\ claim.pos = [pos EXCEPT !.claimed = claimed, !.settled = ended]
  BY DEF ClaimOutcome, b, DistributedBook, paid, entry, pos
<1>14. /\ paidBook \in Book /\ paidBook.rps = b.rps /\ paidBook.dust = b.dust
       /\ paidBook.current = IF Expired(id) THEN b.current ELSE b.current - paid
       /\ RedirectHistorical(paidBook, reserve).rps = b.rps
       /\ RedirectHistorical(paidBook, reserve).dust = b.dust
       /\ RedirectHistorical(paidBook, reserve).current = paidBook.current
  <2> HIDE DEF reserve
  <2> QED
    BY <1>3, <1>6, <1>11, <1>12, PaidBookFields
<1> HIDE DEF paidBook
<1>15. final.rps = b.rps /\ final.dust = b.dust
       /\ final.current = IF Expired(id) THEN b.current ELSE b.current - paid
  BY <1>14
<1>16. claim.book \in Book
  BY ClaimEffect DEF AccountingInv, BackingInv
<1> HIDE DEF rest, shares, claimed, ended, final, claim, reserve
<1>17. /\ claim.entry \in EpochEntry
       /\ claim.entry.reserve = rest /\ claim.entry.shares = shares
       /\ claim.entry.finalRps = entry.finalRps /\ claim.entry.backing = entry.backing
       /\ claim.entry.backingShares = entry.backingShares
  BY <1>1, <1>12, <1>13 DEF EpochEntry
<1>18. /\ claim.pos \in ProtectorPosition
       /\ claim.pos.shares = pos.shares /\ claim.pos.epoch = pos.epoch
       /\ claim.pos.debt = pos.debt /\ claim.pos.claimed = claimed
       /\ claim.pos.backingSettled = pos.backingSettled
       /\ claim.pos.settled = ended
  BY <1>1, <1>12, <1>13 DEF ProtectorPosition
<1>19. rest = entry.reserve /\ shares = entry.shares => claim.entry = entry
  BY <1>1, <1>13 DEF EpochEntry
<1>20. ~Expired(id) => claim.entry = entry
  BY <1>19 DEF rest, shares, reserve
<1>21. Expired(id) /\ pos.settled => paid = 0 /\ claim.entry = entry
  <2>1. Expired(id) /\ pos.settled => EarnedOf(pos, entry.finalRps) = 0
    BY <1>9 DEF EndedSound, MembersOf, pos, entry
  <2>2. Expired(id) /\ pos.settled => paid = 0
    BY <1>11, <2>1
  <2>3. Expired(id) /\ pos.settled => rest = entry.reserve /\ shares = entry.shares
    BY <1>2, <2>2 DEF rest, shares, reserve
  <2> QED
    BY <1>19, <2>2, <2>3
<1>22. Expired(id) /\ ~pos.settled =>
         /\ shares = Monus(entry.shares, pos.shares)
         /\ rest = IF pos.shares >= entry.shares THEN 0 ELSE entry.reserve - paid
  <2> SUFFICES ASSUME Expired(id), ~pos.settled
               PROVE  rest = IF pos.shares >= entry.shares THEN 0 ELSE entry.reserve - paid
    BY DEF shares
  <2>1. entry.shares # 0
    <3>1. entry.shares = SumAmong(UnsettledOf(protectorLive, protectorPos, pos.epoch),
                                  Shares(protectorPos))
      BY <1>9 DEF EndedSound
    <3>2. Shares(protectorPos) \in [ProtectorIds -> Nat]
      BY <1>1, PositionFields DEF Shares
    <3>3. id \in UnsettledOf(protectorLive, protectorPos, pos.epoch)
      BY DEF UnsettledOf, pos
    <3>4. Shares(protectorPos)[id] <= entry.shares
      BY <1>1, <3>1, <3>2, <3>3, AmongType
    <3>5. Shares(protectorPos)[id] = pos.shares /\ pos.shares # 0
      BY <1>1 DEF Shares, pos, BooksInv, OpenReceipts
    <3> QED
      BY <1>2, <3>4, <3>5
  <2> QED
    BY <2>1 DEF rest, reserve
<1>23. ended <=> (pos.settled \/ Expired(id))
  BY <1>2, <1>6 DEF ended
<1> QED
  BY <1>11, <1>13, <1>15, <1>16, <1>17, <1>18, <1>20, <1>21, <1>22, <1>23
     DEF claim, pos, entry, b, claimed

\* A claim leaves the books sound: paid from the current epoch within its accrual, or
\* the settlement of one receipt of an ended epoch.
LEMMA BooksAfterClaim ==
  ASSUME AccountingInv, BooksInv, NEW id \in protectorLive, NEW q, NEW entries,
         q = [protectorPos EXCEPT ![id] = ClaimOutcome(id).pos],
         entries = [epochBook EXCEPT ![protectorPos[id].epoch] = ClaimOutcome(id).entry]
  PROVE  /\ q \in [ProtectorIds -> ProtectorPosition] /\ entries \in [Epochs -> EpochEntry]
         /\ OpenReceipts(protectorLive, q, protectorShareEpoch)
         /\ \A e \in Epochs :
              e >= protectorShareEpoch => entries[e].reserve = 0 /\ entries[e].backing = 0
         /\ CurrentSound(protectorLive, q, protectorShareEpoch, totalProtectorShares,
                         ClaimOutcome(id).book)
         /\ \A e \in Epochs :
              e < protectorShareEpoch => EndedSound(protectorLive, q, e, entries[e])
<1> DEFINE p == protectorPos
           live == protectorLive
           e0 == protectorShareEpoch
           shares == totalProtectorShares
           claim == ClaimOutcome(id)
           b == DistributedBook
           k == p[id].epoch
<1>1. /\ id \in ProtectorIds /\ live \subseteq ProtectorIds
      /\ p \in [ProtectorIds -> ProtectorPosition] /\ p[id] \in ProtectorPosition
      /\ epochBook \in [Epochs -> EpochEntry] /\ k \in Epochs /\ k \in Nat
      /\ epochBook[k] \in EpochEntry
      /\ e0 \in Nat /\ e0 \in Epochs /\ shares \in Nat /\ book \in Book
  BY BooksTyped, PositionFields
<1>2. /\ claim.paid \in Nat /\ claim.book \in Book
      /\ claim.book.rps = b.rps /\ claim.book.dust = b.dust
      /\ claim.pos \in ProtectorPosition /\ claim.entry \in EpochEntry
      /\ claim.pos.shares = p[id].shares /\ claim.pos.epoch = k
      /\ claim.pos.debt = p[id].debt /\ claim.pos.claimed = p[id].claimed + claim.paid
      /\ claim.pos.backingSettled = p[id].backingSettled
      /\ claim.pos.settled <=> (p[id].settled \/ Expired(id))
  BY ClaimParts
<1>3. ~Expired(id) =>
        /\ claim.paid <= EarnedOf(p[id], b.rps) /\ claim.paid <= b.current
        /\ claim.book.current = b.current - claim.paid
        /\ claim.entry = epochBook[k]
  BY ClaimParts
<1>4. Expired(id) =>
        /\ claim.book.current = b.current
        /\ claim.paid = EarnedOf(p[id], epochBook[k].finalRps)
        /\ claim.entry.backing = epochBook[k].backing
        /\ claim.entry.backingShares = epochBook[k].backingShares
        /\ claim.entry.finalRps = epochBook[k].finalRps
  BY ClaimParts
<1>5. Expired(id) /\ ~p[id].settled =>
        /\ claim.entry.shares = Monus(epochBook[k].shares, p[id].shares)
        /\ claim.entry.reserve = IF p[id].shares >= epochBook[k].shares THEN 0
                                 ELSE epochBook[k].reserve - claim.paid
  BY ClaimParts
<1>6. Expired(id) /\ p[id].settled => claim.paid = 0 /\ claim.entry = epochBook[k]
  BY ClaimParts
<1>7. /\ Expired(id) <=> k < e0
      /\ ~Expired(id) => k = e0
  <2>1. k <= e0
    BY DEF AccountingInv, ReceiptInv
  <2> QED
    BY <1>1, <2>1 DEF Expired
<1>8. /\ b \in Book /\ Funds(book, b, shares)
  BY DistributedBookEffect
<1>9. /\ q \in [ProtectorIds -> ProtectorPosition] /\ q[id] = claim.pos
      /\ \A j \in ProtectorIds \ {id} : q[j] = p[j]
      /\ entries \in [Epochs -> EpochEntry] /\ entries[k] = claim.entry
      /\ \A e \in Epochs \ {k} : entries[e] = epochBook[e]
  BY <1>1, <1>2
<1> HIDE DEF claim, b
<1>10. CurrentSound(live, p, e0, shares, b)
  BY <1>1, <1>8, CurrentFunded DEF BooksInv
<1>11. ASSUME NEW e \in Epochs, e # k PROVE SameMembers(live, p, live, q, e)
  BY <1>1, <1>2, <1>9, <1>11 DEF SameMembers
<1>12. OpenReceipts(live, q, e0)
  <2> SUFFICES ASSUME NEW i \in live
               PROVE  /\ q[i].shares # 0 /\ ~q[i].backingSettled
                      /\ q[i].settled => q[i].epoch < e0
    BY DEF OpenReceipts
  <2>0. /\ p[i].shares # 0 /\ ~p[i].backingSettled /\ (p[i].settled => p[i].epoch < e0)
    BY DEF BooksInv, OpenReceipts
  <2>1. CASE i = id
    BY <1>2, <1>7, <1>9, <2>0, <2>1
  <2>2. CASE i # id
    BY <1>1, <1>9, <2>0, <2>2
  <2> QED
    BY <2>1, <2>2
<1>13. \A e \in Epochs : e >= e0 => entries[e].reserve = 0 /\ entries[e].backing = 0
  <2>1. CASE Expired(id)
    <3>1. \A e \in Epochs : e >= e0 => e # k
      BY <1>1, <1>7, <2>1 DEF Epochs
    <3> QED
      BY <1>9, <3>1 DEF BooksInv
  <2>2. CASE ~Expired(id)
    <3>1. entries = epochBook
      BY <1>1, <1>3, <2>2 DEF claim
    <3> QED
      BY <3>1 DEF BooksInv
  <2> QED
    BY <2>1, <2>2
<1>14. CASE ~Expired(id)
  <2>1. \A e \in Epochs : e < e0 => EndedSound(live, q, e, entries[e])
    <3> SUFFICES ASSUME NEW e \in Epochs, e < e0 PROVE EndedSound(live, q, e, entries[e])
      OBVIOUS
    <3>1. e # k
      BY <1>1, <1>7, <1>14 DEF Epochs
    <3>2. EndedSound(live, p, e, entries[e])
      BY <1>9, <3>1 DEF BooksInv
    <3> QED
      BY <1>1, <1>11, <3>1, <3>2, EndedKept
  <2>2. /\ b.rps \in Nat /\ b.current \in Nat
    BY <1>8, BookFields
  <2>3. /\ RewardPrecision * claim.paid \in Nat
        /\ RewardPrecision * claim.paid <= AccrualOf(p[id], b.rps)
        /\ AccrualOf(q[id], b.rps) = AccrualOf(p[id], b.rps) - RewardPrecision * claim.paid
    BY <1>1, <1>2, <1>3, <1>9, <1>14, <2>2, AccrualAfterClaim
  <2>4. /\ id \in live /\ p[id].epoch = e0 /\ q[id].epoch = e0
        /\ q[id].shares = p[id].shares /\ p[id].shares \in Nat
    BY <1>1, <1>2, <1>7, <1>9, <1>14, PositionFields
  <2>5. SumAmong(MembersOf(live, q, e0), Accruals(q, claim.book.rps))
          + RewardPrecision * claim.book.dust <= RewardPrecision * claim.book.current
    <3>1. PICK paid \in Nat : paid = claim.paid
      BY <1>2
    <3>2. PICK a \in Book : a = claim.book
      BY <1>2
    <3>3. PICK lq : lq = live
      OBVIOUS
    <3>4. /\ RewardPrecision * paid <= AccrualAt(live, p, e0, b.rps, id)
          /\ AccrualAt(lq, q, e0, b.rps, id)
               <= AccrualAt(live, p, e0, b.rps, id) - RewardPrecision * paid
      <4>1. AccrualOf(p[id], b.rps) \in Nat
        BY <1>1, <2>2, AccrualType
      <4> QED
        BY <2>3, <2>4, <3>1, <3>3, <4>1 DEF AccrualAt
    <3>5. /\ paid <= b.current /\ a.current = b.current - paid
          /\ a.rps = b.rps /\ a.dust = b.dust
      BY <1>2, <1>3, <1>14, <3>1, <3>2
    <3>6. /\ p \in [ProtectorIds -> ProtectorPosition]
          /\ q \in [ProtectorIds -> ProtectorPosition]
          /\ shares \in Nat /\ b \in Book /\ id \in ProtectorIds
          /\ \A j \in ProtectorIds \ {id} : q[j] = p[j] /\ (j \in lq <=> j \in live)
      BY <1>1, <1>8, <1>9, <3>3
    <3>7. SumAmong(MembersOf(lq, q, e0), Accruals(q, a.rps)) + RewardPrecision * a.dust
            <= RewardPrecision * a.current
      <4>1. Rewritten(live, p, lq, q, e0, id, paid, b, a)
        BY <3>4, <3>5, <3>6 DEF Rewritten
      <4> HIDE DEF p, live, e0, shares
      <4> QED
        BY <1>10, <3>1, <3>2, <3>6, <4>1, CurrentRewritten
    <3> QED
      BY <3>2, <3>3, <3>7
  <2>6. SumAmong(MembersOf(live, q, e0), Shares(q)) = shares
    <3>1. \A i \in ProtectorIds : /\ i \in MembersOf(live, q, e0) <=> i \in MembersOf(live, p, e0)
                                  /\ Shares(q)[i] = Shares(p)[i]
      BY <1>1, <1>9, <2>4 DEF MembersOf, Shares
    <3>2. SumAmong(MembersOf(live, q, e0), Shares(q))
            = SumAmong(MembersOf(live, p, e0), Shares(p))
      BY <3>1, AmongSame
    <3> QED
      BY <1>10, <3>2 DEF CurrentSound
  <2>7. claim.book.current # 0 => shares # 0
    <3>1. claim.book.current # 0 => b.current # 0
      BY <1>2, <1>3, <1>14, <2>2
    <3> QED
      BY <1>10, <3>1 DEF CurrentSound
  <2>8. CurrentSound(live, q, e0, shares, claim.book)
    BY <2>5, <2>6, <2>7 DEF CurrentSound
  <2> QED
    BY <1>9, <1>12, <1>13, <2>1, <2>8 DEF claim
<1>15. CASE Expired(id)
  <2>1. CurrentSound(live, q, e0, shares, claim.book)
    <3>1. PICK a \in Book : a = claim.book
      BY <1>2
    <3>2. Funds(b, a, shares)
      BY <1>1, <1>2, <1>4, <1>8, <1>15, <3>1, FundsSame
    <3>3. CurrentSound(live, p, e0, shares, a)
      BY <1>1, <1>8, <1>10, <3>2, CurrentFunded
    <3>4. SameMembers(live, p, live, q, e0)
      <4>1. e0 # k
        BY <1>1, <1>7, <1>15
      <4> QED
        BY <1>1, <1>11, <4>1
    <3> QED
      BY <3>1, <3>3, <3>4, CurrentKept
  <2>2. ASSUME NEW e \in Epochs, e < e0 PROVE EndedSound(live, q, e, entries[e])
    <3>0. EndedSound(live, p, e, epochBook[e])
      BY <2>2 DEF BooksInv
    <3>1. CASE e # k
      <4>1. entries[e] = epochBook[e]
        BY <1>9, <3>1
      <4> QED
        BY <1>1, <1>11, <3>0, <3>1, <4>1, EndedKept
    <3>2. CASE e = k /\ p[id].settled
      <4>1. claim.paid = 0 /\ entries[e] = epochBook[e]
        BY <1>6, <1>9, <1>15, <3>2
      <4>2. SameMembers(live, p, live, q, e)
        <5>1. /\ q[id].epoch = p[id].epoch /\ q[id].shares = p[id].shares
              /\ q[id].debt = p[id].debt /\ q[id].settled = p[id].settled
              /\ q[id].claimed = p[id].claimed
          <6>1. p[id].claimed \in Nat /\ q[id].claimed = p[id].claimed + 0
            BY <1>1, <1>2, <1>9, <4>1, PositionFields
          <6>2. p[id].settled = TRUE /\ q[id].settled = TRUE
            <7>1. p[id].settled \in BOOLEAN /\ q[id].settled \in BOOLEAN
              BY <1>1, <1>9, PositionFields
            <7> QED
              BY <1>2, <1>9, <3>2, <7>1
          <6>3. /\ q[id].epoch = p[id].epoch /\ q[id].shares = p[id].shares
                /\ q[id].debt = p[id].debt
            BY <1>2, <1>9
          <6>4. q[id].claimed = p[id].claimed
            BY <6>1
          <6>5. q[id].settled = p[id].settled
            BY <6>2
          <6> QED
            BY <6>3, <6>4, <6>5
        <5> QED
          BY <1>9, <5>1 DEF SameMembers
      <4> QED
        BY <1>1, <3>0, <4>1, <4>2, EndedKept
    <3>3. CASE e = k /\ ~p[id].settled
      <4>1. /\ epochBook[k] \in EpochEntry /\ entries[k] \in EpochEntry
            /\ EndedSound(live, p, k, epochBook[k])
        BY <1>1, <1>9, <3>0, <3>3
      <4>2. p[id].shares # 0
        BY DEF BooksInv, OpenReceipts
      <4>3. /\ q[id].epoch = k /\ q[id].shares = p[id].shares /\ q[id].debt = p[id].debt
            /\ q[id].settled
            /\ q[id].claimed = p[id].claimed + EarnedOf(p[id], epochBook[k].finalRps)
        BY <1>2, <1>4, <1>9, <1>15
      <4>4. /\ entries[k].finalRps = epochBook[k].finalRps
            /\ entries[k].shares = Monus(epochBook[k].shares, p[id].shares)
            /\ entries[k].reserve = IF p[id].shares >= epochBook[k].shares THEN 0
                  ELSE epochBook[k].reserve - EarnedOf(p[id], epochBook[k].finalRps)
            /\ entries[k].backing = epochBook[k].backing
            /\ entries[k].backingShares = epochBook[k].backingShares
        BY <1>4, <1>5, <1>9, <1>15, <3>3
      <4>5. EndedSound(live, q, k, entries[k])
        <5>1. PICK entry \in EpochEntry : entry = epochBook[k]
          BY <4>1
        <5>2. PICK after \in EpochEntry : after = entries[k]
          BY <4>1
        <5>3. /\ EndedSound(live, p, k, entry) /\ p[id].epoch = k /\ ~p[id].settled
              /\ q[id].claimed = p[id].claimed + EarnedOf(p[id], entry.finalRps)
              /\ after.finalRps = entry.finalRps
              /\ after.shares = Monus(entry.shares, p[id].shares)
              /\ after.reserve = IF p[id].shares >= entry.shares THEN 0
                                 ELSE entry.reserve - EarnedOf(p[id], entry.finalRps)
              /\ after.backing = entry.backing
              /\ after.backingShares = entry.backingShares
          BY <3>3, <4>1, <4>3, <4>4, <5>1, <5>2
        <5>4. PICK kk \in Epochs : kk = k
          BY <1>1
        <5> HIDE DEF p, live
        <5>5. EndedSound(live, q, kk, after)
          <6>1. /\ EndedSound(live, p, kk, entry) /\ p[id].epoch = kk /\ q[id].epoch = kk
            BY <4>3, <5>3, <5>4
          <6>2. /\ p \in [ProtectorIds -> ProtectorPosition]
                /\ q \in [ProtectorIds -> ProtectorPosition]
                /\ id \in ProtectorIds /\ id \in live /\ live \subseteq ProtectorIds
                /\ \A j \in ProtectorIds \ {id} : q[j] = p[j]
            BY <1>1, <1>9 DEF live
          <6> QED
            BY <4>2, <4>3, <5>3, <6>1, <6>2, EndedSettles
        <5> QED
          BY <5>2, <5>4, <5>5
      <4> QED
        BY <3>3, <4>5
    <3> QED
      BY <3>1, <3>2, <3>3
  <2> QED
    BY <1>9, <1>12, <1>13, <2>1, <2>2 DEF claim
<1> QED
  BY <1>14, <1>15

LEMMA ClaimKeepsBooks ==
  ASSUME AccountingInv, BooksInv, NEW id \in protectorLive, ApplyClaim(id, ClaimOutcome(id))
  PROVE  BooksInv'
<1>1. /\ book' = ClaimOutcome(id).book
      /\ protectorPos' = [protectorPos EXCEPT ![id] = ClaimOutcome(id).pos]
      /\ epochBook' = [epochBook EXCEPT ![protectorPos[id].epoch] = ClaimOutcome(id).entry]
      /\ UNCHANGED <<protectorLive, protectorShareEpoch, totalProtectorShares>>
  BY DEF ApplyClaim, protectorTotals
<1>2. PICK q : q = protectorPos'
  OBVIOUS
<1>3. PICK entries : entries = epochBook'
  OBVIOUS
<1>4. /\ q = [protectorPos EXCEPT ![id] = ClaimOutcome(id).pos]
      /\ entries = [epochBook EXCEPT ![protectorPos[id].epoch] = ClaimOutcome(id).entry]
  BY <1>1, <1>2, <1>3
<1>5. /\ OpenReceipts(protectorLive, q, protectorShareEpoch)
      /\ \A e \in Epochs :
           e >= protectorShareEpoch => entries[e].reserve = 0 /\ entries[e].backing = 0
      /\ CurrentSound(protectorLive, q, protectorShareEpoch, totalProtectorShares,
                      ClaimOutcome(id).book)
      /\ \A e \in Epochs :
           e < protectorShareEpoch => EndedSound(protectorLive, q, e, entries[e])
  BY <1>4, BooksAfterClaim
<1> QED
  BY <1>1, <1>2, <1>3, <1>5 DEF BooksInv

\* The residual backing of an ended epoch: the commission is settled first, then the
\* receipt leaves with its part and is burned.
LEMMA ExpiredBackingKeepsBooks ==
  ASSUME AccountingInv, BooksInv, NEW id \in protectorLive, ClaimExpiredBacking(id)
  PROVE  BooksInv'
<1> DEFINE p == protectorPos
           live == protectorLive
           e0 == protectorShareEpoch
           k == p[id].epoch
           claim == ClaimOutcome(id)
           mid == [p EXCEPT ![id] = claim.pos]
           entries == [epochBook EXCEPT ![k] = claim.entry]
           burned == [NoProtector EXCEPT !.settled = claim.pos.settled, !.backingSettled = TRUE]
           q == [p EXCEPT ![id] = burned]
           lq == live \ {id}
           final == [epochBook EXCEPT ![k] = BackingEntryAfter(claim.entry, p[id].shares)]
<1>1. /\ Expired(id) /\ epochBook[k].backing # 0
      /\ book' = claim.book /\ epochBook' = final /\ protectorLive' = lq /\ protectorPos' = q
      /\ protectorShareEpoch' = e0 /\ totalProtectorShares' = totalProtectorShares
  BY DEF ClaimExpiredBacking, protectorTotals
<1>2. /\ id \in ProtectorIds /\ live \subseteq ProtectorIds
      /\ p \in [ProtectorIds -> ProtectorPosition]
      /\ epochBook \in [Epochs -> EpochEntry] /\ k \in Epochs /\ k \in Nat
      /\ e0 \in Nat
  BY BooksTyped, PositionFields
<1>3. /\ mid \in [ProtectorIds -> ProtectorPosition] /\ entries \in [Epochs -> EpochEntry]
      /\ OpenReceipts(live, mid, e0)
      /\ \A e \in Epochs : e >= e0 => entries[e].reserve = 0 /\ entries[e].backing = 0
      /\ CurrentSound(live, mid, e0, totalProtectorShares, claim.book)
      /\ \A e \in Epochs : e < e0 => EndedSound(live, mid, e, entries[e])
  <2>1. PICK m : m = mid
    OBVIOUS
  <2>2. PICK n : n = entries
    OBVIOUS
  <2>3. /\ m = [protectorPos EXCEPT ![id] = ClaimOutcome(id).pos]
        /\ n = [epochBook EXCEPT ![protectorPos[id].epoch] = ClaimOutcome(id).entry]
    BY <2>1, <2>2
  <2> HIDE DEF mid, entries
  <2>4. /\ m \in [ProtectorIds -> ProtectorPosition] /\ n \in [Epochs -> EpochEntry]
        /\ OpenReceipts(live, m, e0)
        /\ \A e \in Epochs : e >= e0 => n[e].reserve = 0 /\ n[e].backing = 0
        /\ CurrentSound(live, m, e0, totalProtectorShares, claim.book)
        /\ \A e \in Epochs : e < e0 => EndedSound(live, m, e, n[e])
    BY <2>3, BooksAfterClaim
  <2> QED
    BY <2>1, <2>2, <2>4
<1>4. /\ claim.pos.epoch = k /\ claim.pos.shares = p[id].shares /\ claim.pos.settled
      /\ claim.pos \in ProtectorPosition /\ claim.entry \in EpochEntry
      /\ claim.entry.backing = epochBook[k].backing
  BY <1>1, ClaimParts
<1>5. k < e0
  BY <1>1 DEF Expired
<1> HIDE DEF claim
<1>6. /\ mid[id] = claim.pos /\ entries[k] = claim.entry
      /\ \A j \in ProtectorIds \ {id} : mid[j] = p[j]
      /\ \A e \in Epochs \ {k} : entries[e] = epochBook[e]
  BY <1>2
<1>7. /\ q \in [ProtectorIds -> ProtectorPosition]
      /\ \A j \in ProtectorIds \ {id} : q[j] = mid[j]
      /\ final[k] = BackingEntryAfter(claim.entry, p[id].shares)
      /\ \A e \in Epochs \ {k} : final[e] = entries[e]
  <2>1. burned \in ProtectorPosition
    <3>1. claim.pos.settled \in BOOLEAN /\ 0 \in Epochs
      BY <1>4, PositionFields, Constants DEF Epochs
    <3> QED
      BY <3>1 DEF NoProtector, ProtectorPosition
  <2> HIDE DEF burned
  <2> QED
    BY <1>2, <1>6, <2>1
<1> HIDE DEF q, mid, final, entries, burned
<1>8. EndedSound(lq, q, k, final[k])
  <2>1. EndedSound(live, mid, k, claim.entry)
    BY <1>2, <1>3, <1>5, <1>6
  <2>2. /\ mid[id].epoch = k /\ mid[id].settled /\ mid[id].shares = p[id].shares
        /\ claim.entry.backing # 0
    BY <1>1, <1>4, <1>6
  <2>3. PICK entry \in EpochEntry : entry = claim.entry
    BY <1>4
  <2>4. EndedSound(lq, q, k, BackingEntryAfter(entry, mid[id].shares))
    <3>1. EndedSound(live, mid, k, entry) /\ entry.backing # 0
      BY <2>1, <2>2, <2>3
    <3>2. id \in live /\ live \subseteq ProtectorIds /\ id \in ProtectorIds
      BY <1>2
    <3> HIDE DEF p, live, k
    <3> QED
      BY <1>3, <1>7, <2>2, <2>3, <3>1, <3>2, EndedLeaves
  <2> QED
    BY <1>7, <2>2, <2>3, <2>4
<1>9. ASSUME NEW e \in Epochs, e # k PROVE SameMembers(live, mid, lq, q, e)
  <2>1. mid[id].epoch = k
    BY <1>4, <1>6
  <2> QED
    BY <1>2, <1>7, <1>9, <2>1 DEF SameMembers
<1>10. ASSUME NEW e \in Epochs, e < e0 PROVE EndedSound(lq, q, e, final[e])
  <2>1. CASE e = k
    BY <1>8, <2>1
  <2>2. CASE e # k
    <3>1. /\ EndedSound(live, mid, e, final[e]) /\ SameMembers(live, mid, lq, q, e)
          /\ lq \subseteq ProtectorIds
      BY <1>2, <1>3, <1>7, <1>9, <1>10, <2>2
    <3> HIDE DEF lq
    <3> QED
      BY <3>1, EndedKept
  <2> QED
    BY <2>1, <2>2
<1>11. CurrentSound(lq, q, e0, totalProtectorShares, claim.book)
  <2>1. e0 \in Epochs /\ e0 # k
    BY <1>2, <1>5, BooksTyped
  <2>2. SameMembers(live, mid, lq, q, e0)
    BY <1>9, <2>1
  <2> HIDE DEF lq
  <2> QED
    BY <1>3, <2>2, CurrentKept
<1>12. OpenReceipts(lq, q, e0)
  BY <1>2, <1>3, <1>7 DEF OpenReceipts
<1>13. \A e \in Epochs : e >= e0 => final[e].reserve = 0 /\ final[e].backing = 0
  <2>1. \A e \in Epochs : e >= e0 => e # k
    BY <1>2, <1>5 DEF Epochs
  <2> QED
    BY <1>3, <1>7, <2>1
<1> QED
  BY <1>1, <1>10, <1>11, <1>12, <1>13 DEF BooksInv

(***************************************************************************)
(* A protector's exit: the commission is paid, the dust and, without       *)
(* shares, the whole reserve go to the protocol, and what is left of the   *)
(* receipt starts over without a claim on the past.                        *)
(***************************************************************************)
LEMMA WithdrawalKeepsBooks ==
  ASSUME AccountingInv, BooksInv, NEW id \in ProtectorIds, NEW amount \in Nat,
         ProtectorWithdraw(id, amount)
  PROVE  BooksInv'
<1> DEFINE p == protectorPos
           live == protectorLive
           e0 == protectorShareEpoch
           shares == totalProtectorShares
           b == DistributedBook
           claim == ClaimOutcome(id)
           burned == SharesToBurn(id, amount)
           newShares == ActiveShares(id) - burned
           newTotal == totalProtectorShares - burned
           rest == ProtectorRemainder(p[id], newShares, claim.book.rps)
           q == protectorPos'
           lq == protectorLive'
           after == RedirectDust(claim.book)
<1>1. /\ ProtectorExitAllowed(id, amount)
      /\ book' = RedirectOrphaned(after, newTotal)
      /\ IF newShares = 0
         THEN lq = live \ {id} /\ q = [p EXCEPT ![id] = NoProtector]
         ELSE q = [p EXCEPT ![id] = rest] /\ lq = live
      /\ totalProtectorShares' = newTotal
      /\ epochBook' = epochBook /\ protectorShareEpoch' = e0
  BY DEF ProtectorWithdraw, epochVars
<1>2. /\ id \in live /\ live \subseteq ProtectorIds
      /\ p \in [ProtectorIds -> ProtectorPosition] /\ p[id] \in ProtectorPosition
      /\ shares \in Nat /\ book \in Book /\ e0 \in Nat /\ e0 \in Epochs
      /\ totalProtectorTokens \in Nat
  BY <1>1, BooksTyped DEF ProtectorExitAllowed
<1>3. /\ ActiveShares(id) \in Nat \ {0} /\ ActiveShares(id) <= shares
      /\ burned \in Nat /\ burned <= ActiveShares(id)
  BY <1>1, WithdrawalBounds DEF AccountingInv
<1>4. /\ p[id].epoch = e0 /\ ActiveShares(id) = p[id].shares /\ ~Expired(id)
      /\ p[id].shares \in Nat
  <2>1. p[id].epoch = e0
    BY <1>3 DEF ActiveShares
  <2> QED
    BY <1>2, <1>3, <2>1 DEF ActiveShares, Expired
<1>5. /\ claim.paid \in Nat /\ claim.book \in Book
      /\ claim.book.rps = b.rps /\ claim.book.dust = b.dust
      /\ claim.paid <= EarnedOf(p[id], b.rps) /\ claim.paid <= b.current
      /\ claim.book.current = b.current - claim.paid
  BY <1>2, <1>4, ClaimParts
<1>6. Partitioned(claim.book)
  BY <1>2, ClaimEffect DEF AccountingInv
<1>7. /\ b \in Book /\ b.rps \in Nat /\ b.current \in Nat /\ Funds(book, b, shares)
  BY DistributedBookEffect, BookFields
<1>8. newShares \in Nat /\ newTotal \in Nat
  BY <1>2, <1>3
<1> HIDE DEF claim, b, burned
<1>9. /\ rest \in ProtectorPosition /\ rest.shares = newShares /\ rest.epoch = e0
      /\ rest.debt = RewardDebt(b.rps, newShares)
      /\ rest.settled = p[id].settled /\ rest.backingSettled = p[id].backingSettled
  <2> DEFINE pos == p[id]
             debt == RewardDebt(claim.book.rps, newShares)
             n == newShares
  <2>1. debt \in Nat
    <3> HIDE DEF newShares
    <3> QED
      BY <1>5, <1>7, <1>8, RewardAssumption, MulDivType DEF RewardDebt
  <2>2. rest = [pos EXCEPT !.shares = n, !.epoch = e0, !.debt = debt, !.claimed = 0,
                           !.unlockRequestTime = 0]
    BY DEF ProtectorRemainder
  <2>3. n \in Nat /\ pos \in ProtectorPosition /\ debt = RewardDebt(b.rps, newShares)
    BY <1>2, <1>5, <1>8
  <2> HIDE DEF pos, debt, n, rest
  <2>4. /\ rest \in ProtectorPosition /\ rest.shares = n /\ rest.epoch = e0
        /\ rest.debt = debt
        /\ rest.settled = pos.settled /\ rest.backingSettled = pos.backingSettled
    BY <1>2, <2>1, <2>2, <2>3 DEF ProtectorPosition
  <2> QED
    BY <2>3, <2>4 DEF n, pos
<1>10. /\ q \in [ProtectorIds -> ProtectorPosition]
       /\ \A j \in ProtectorIds \ {id} : q[j] = p[j] /\ (j \in lq <=> j \in live)
       /\ lq \subseteq ProtectorIds
       /\ newShares = 0 => id \notin lq
       /\ newShares # 0 => id \in lq /\ q[id] = rest
  <2>1. NoProtector \in ProtectorPosition
    BY Constants DEF NoProtector, ProtectorPosition, Epochs
  <2> HIDE DEF rest, newShares
  <2>2. CASE newShares = 0
    BY <1>1, <1>2, <2>1, <2>2
  <2>3. CASE newShares # 0
    BY <1>1, <1>2, <1>9, <2>3
  <2> QED
    BY <2>2, <2>3
<1> HIDE DEF rest, q, lq
<1>11. CurrentSound(live, p, e0, shares, b)
  BY <1>2, <1>7, CurrentFunded DEF BooksInv
<1>12. /\ SumAmong(MembersOf(lq, q, e0), Shares(q)) = newTotal
       /\ SumAmong(MembersOf(lq, q, e0), Accruals(q, claim.book.rps))
            + RewardPrecision * claim.book.dust <= RewardPrecision * claim.book.current
  <2>1. /\ RewardPrecision * claim.paid \in Nat
        /\ RewardPrecision * claim.paid <= AccrualOf(p[id], b.rps)
        /\ AccrualOf(p[id], b.rps) \in Nat
    <3> DEFINE new == [p[id] EXCEPT !.claimed = p[id].claimed + claim.paid]
    <3>1. /\ new \in ProtectorPosition /\ new.shares = p[id].shares
          /\ new.debt = p[id].debt /\ new.claimed = p[id].claimed + claim.paid
      <4> DEFINE c == p[id].claimed + claim.paid
      <4>1. c \in Nat
        BY <1>2, <1>5, PositionFields
      <4>2. new = [p[id] EXCEPT !.claimed = c]
        OBVIOUS
      <4> HIDE DEF c, new
      <4>3. new \in ProtectorPosition /\ new.shares = p[id].shares
            /\ new.debt = p[id].debt /\ new.claimed = c
        BY <1>2, <4>1, <4>2 DEF ProtectorPosition
      <4> QED
        BY <4>3 DEF c
    <3> HIDE DEF new
    <3> QED
      BY <1>2, <1>5, <1>7, <3>1, AccrualAfterClaim, AccrualType
  <2>2. id \in lq => AccrualOf(q[id], b.rps) = 0 /\ q[id].epoch = e0 /\ q[id].shares = newShares
    <3>1. rest.debt = RewardDebt(b.rps, rest.shares)
      BY <1>9
    <3>2. AccrualOf(rest, b.rps) = 0
      BY <1>7, <1>9, <3>1, JoinerAccruesNothing
    <3> QED
      BY <1>9, <1>10, <3>2
  <2>3. PICK paid \in Nat : paid = claim.paid
    BY <1>5
  <2>4. PICK a \in Book : a = claim.book
    BY <1>5
  <2>5. /\ RewardPrecision * paid <= AccrualAt(live, p, e0, b.rps, id)
        /\ AccrualAt(lq, q, e0, b.rps, id)
             <= AccrualAt(live, p, e0, b.rps, id) - RewardPrecision * paid
    <3>1. 0 <= AccrualOf(p[id], b.rps) - RewardPrecision * claim.paid
      BY <2>1
    <3> QED
      BY <1>2, <1>4, <2>1, <2>2, <2>3, <3>1 DEF AccrualAt
  <2>6. /\ paid <= b.current /\ a.current = b.current - paid
        /\ a.rps = b.rps /\ a.dust = b.dust
    BY <1>5, <2>3, <2>4
  <2>7. /\ SumAmong(MembersOf(lq, q, e0), Shares(q))
             = shares - ShareAt(live, p, e0, id) + ShareAt(lq, q, e0, id)
        /\ SumAmong(MembersOf(lq, q, e0), Accruals(q, a.rps)) + RewardPrecision * a.dust
             <= RewardPrecision * a.current
    <3>1. /\ p \in [ProtectorIds -> ProtectorPosition]
          /\ q \in [ProtectorIds -> ProtectorPosition]
          /\ shares \in Nat /\ b \in Book /\ id \in ProtectorIds
          /\ \A j \in ProtectorIds \ {id} : q[j] = p[j] /\ (j \in lq <=> j \in live)
      BY <1>2, <1>7, <1>10
    <3>2. Rewritten(live, p, lq, q, e0, id, paid, b, a)
      BY <2>5, <2>6, <3>1 DEF Rewritten
    <3> HIDE DEF p, live, e0, shares
    <3>3. SumAmong(MembersOf(lq, q, e0), Shares(q))
             = shares - ShareAt(live, p, e0, id) + ShareAt(lq, q, e0, id)
      BY <1>11, <2>3, <2>4, <3>1, <3>2, CurrentRewritten
    <3>4. SumAmong(MembersOf(lq, q, e0), Accruals(q, a.rps)) + RewardPrecision * a.dust
             <= RewardPrecision * a.current
      BY <1>11, <2>3, <2>4, <3>1, <3>2, CurrentRewritten
    <3> QED
      BY <3>3, <3>4
  <2>8. /\ ShareAt(live, p, e0, id) = p[id].shares
        /\ ShareAt(lq, q, e0, id) = newShares
    BY <1>2, <1>4, <1>10, <2>2 DEF ShareAt
  <2> QED
    BY <1>2, <1>3, <1>4, <2>4, <2>7, <2>8
<1>13. OpenReceipts(lq, q, e0)
  <2> SUFFICES ASSUME NEW i \in lq
               PROVE  /\ q[i].shares # 0 /\ ~q[i].backingSettled
                      /\ q[i].settled => q[i].epoch < e0
    BY DEF OpenReceipts
  <2>1. CASE i = id
    <3>1. /\ ~p[id].backingSettled /\ ~p[id].settled
      BY <1>2, <1>4 DEF BooksInv, OpenReceipts
    <3> HIDE DEF newShares
    <3> QED
      BY <1>9, <1>10, <2>1, <3>1
  <2>2. CASE i # id
    <3>1. i \in ProtectorIds /\ i \in live /\ q[i] = p[i]
      BY <1>10, <2>2
    <3> QED
      BY <3>1 DEF BooksInv, OpenReceipts
  <2> QED
    BY <2>1, <2>2
<1>14. ASSUME NEW e \in Epochs, e < e0 PROVE EndedSound(lq, q, e, epochBook[e])
  <2>1. e # e0 /\ e0 # e
    BY <1>2, <1>14 DEF Epochs
  <2>2. SameMembers(live, p, lq, q, e)
    BY <1>4, <1>9, <1>10, <2>1 DEF SameMembers
  <2> QED
    BY <1>10, <1>14, <2>2, EndedKept DEF BooksInv
<1>15. /\ after \in Book /\ after.dust = 0
  <2>1. after \in Book
    BY <1>5, RedirectDustEffect
  <2> QED
    BY <1>5, <2>1 DEF RedirectDust, Book
<1>16. CurrentSound(lq, q, e0, newTotal, book')
  <2>1. CASE newTotal # 0
    <3>1. book' = after
      BY <1>1, <2>1 DEF RedirectOrphaned
    <3>2. CurrentSound(lq, q, e0, newTotal, claim.book)
      BY <1>12, <2>1 DEF CurrentSound
    <3> HIDE DEF newTotal
    <3>3. claim.book.dust <= claim.book.current
      BY <1>5, <1>8, <1>10, <3>2, DustWithinReserve
    <3>4. Funds(claim.book, after, newTotal)
      BY <1>5, <1>6, <1>8, <3>3, FundsRedirectDust
    <3>5. CurrentSound(lq, q, e0, newTotal, after)
      <4> HIDE DEF after
      <4> QED
        BY <1>5, <1>8, <1>10, <1>15, <3>2, <3>4, CurrentFunded
    <3> QED
      BY <3>1, <3>5
  <2>2. CASE newTotal = 0
    <3> HIDE DEF after, newTotal
    <3>1. /\ book' \in Book
      BY <1>1, <1>8, <1>15, RedirectOrphanedEffect
    <3>2. book'.current = 0 /\ book'.dust = 0
      <4>1. CASE after.current = 0
        BY <1>1, <1>15, <2>2, <4>1 DEF RedirectOrphaned
      <4>2. CASE after.current # 0
        <5> DEFINE cleared == [after EXCEPT !.dust = 0, !.current = 0]
                   n == Least(after.current, after.commissions)
                   x == cleared.commissions - n
                   y == cleared.protocolFee + Least(n, ProtocolRoom(cleared))
        <5>1. book' = [cleared EXCEPT !.commissions = x, !.protocolFee = y]
          BY <1>1, <2>2, <4>2 DEF RedirectOrphaned, Orphan
        <5>2. cleared.dust = 0 /\ cleared.current = 0 /\ cleared \in Book
          BY <1>15 DEF Book
        <5> HIDE DEF cleared, x, y
        <5> QED
          BY <5>1, <5>2 DEF Book
      <4> QED
        BY <4>1, <4>2
    <3>3. \A i \in lq : q[i].epoch # e0
      <4>1. /\ MembersOf(lq, q, e0) \subseteq ProtectorIds
            /\ \A i \in MembersOf(lq, q, e0) : q[i].shares # 0
        BY <1>10, <1>13 DEF MembersOf, OpenReceipts
      <4>2. MembersOf(lq, q, e0) = {}
        BY <1>10, <1>12, <2>2, <4>1, NoSharesNoReceipts
      <4> QED
        BY <4>2 DEF MembersOf
    <3>4. PICK a \in Book : a = book'
      BY <3>1
    <3>5. CurrentSound(lq, q, e0, 0, a)
      BY <1>10, <3>2, <3>3, <3>4, CurrentBegins
    <3> QED
      BY <2>2, <3>4, <3>5
  <2> QED
    BY <2>1, <2>2
<1> QED
  BY <1>1, <1>13, <1>14, <1>16 DEF BooksInv, lq, q

-----------------------------------------------------------------------------
(* The epochs' books in every reachable state *)

LEMMA BooksNext ==
  ASSUME AccountingInv, BooksInv, [Next]_vars
  PROVE  BooksInv'
<1>1. AccountingInv'
  BY NextInv
<1>2. ASSUME NEW amount \in ShieldedAmounts, DepositShieldedAsset(amount)
      PROVE  BooksInv'
  BY <1>2, GovernanceKeepsBooks
<1>3. ASSUME NEW id \in ShieldIds,
             \/ ShieldedWithdrawSameAsset(id) \/ ClaimRewards(id)
             \/ \E amount \in ShieldedAmounts : PartialWithdrawShielded(id, amount)
      PROVE  BooksInv'
  BY <1>3, ShieldStepsKeepBooks
<1>4. ASSUME NEW id \in ShieldIds, ShieldedWithdrawCrossAsset(id)
      PROVE  BooksInv'
  BY <1>4, ActivationKeepsBooks
<1>5. ASSUME NEW amount \in BackingAmounts, DepositBackingAsset(amount)
      PROVE  BooksInv'
  BY <1>1, <1>5, DepositKeepsBooks
<1>6. ASSUME NEW id \in ProtectorIds, StartUnlockProcess(id) \/ CancelUnlockProcess(id)
      PROVE  BooksInv'
  BY <1>6, UnlockKeepsBooks
<1>7. ASSUME NEW id \in ProtectorIds,
             NEW amount \in BackingAmounts \cup {0, PositionAmount(id), AvailableForWithdrawal(id)},
             ProtectorWithdraw(id, amount)
      PROVE  BooksInv'
  <2>1. amount \in Nat
    BY <1>7, Constants, WithdrawalAmountTyped
  <2> QED
    BY <1>7, <2>1, WithdrawalKeepsBooks
<1>8. ASSUME NEW id \in ProtectorIds,
             \/ ClaimCommission(id) \/ ForfeitCommission(id)
             \/ SettleExpiredProtectorPosition(id) \/ EscrowExpiredProtectorCommission(id)
      PROVE  BooksInv'
  <2>1. id \in protectorLive /\ ApplyClaim(id, ClaimOutcome(id))
    BY <1>8 DEF ClaimCommission, ForfeitCommission, SettleExpiredProtectorPosition,
                EscrowExpiredProtectorCommission
  <2> QED
    BY <2>1, ClaimKeepsBooks
<1>9. ASSUME NEW id \in ProtectorIds,
             ClaimExpiredProtectorBacking(id) \/ SettleExpiredProtectorBacking(id)
      PROVE  BooksInv'
  <2>1. id \in protectorLive /\ ClaimExpiredBacking(id)
    BY <1>9 DEF ClaimExpiredProtectorBacking, SettleExpiredProtectorBacking, ClaimExpiredBacking
  <2> QED
    BY <2>1, ExpiredBackingKeepsBooks
<1>10. CASE GovernanceNext \/ EnvironmentNext \/ UNCHANGED vars
  BY <1>10, GovernanceKeepsBooks
<1>11. CASE ShieldNext
  BY <1>2, <1>3, <1>4, <1>11 DEF ShieldNext
<1>12. CASE ProtectorNext
  BY <1>5, <1>6, <1>7, <1>8, <1>9, <1>12 DEF ProtectorNext
<1> QED
  BY <1>10, <1>11, <1>12 DEF Next

\* After every step the pool's tokens are accounted for, and so is every epoch, the
\* current and the ended ones (SplitRiskPool.sol:1215-1330, 1595-1640).
THEOREM Books == Spec => [](AccountingInv /\ BooksInv)
<1>1. Init => AccountingInv /\ BooksInv
  BY InitInv, BooksInit
<1>2. (AccountingInv /\ BooksInv) /\ [Next]_vars => (AccountingInv /\ BooksInv)'
  BY NextInv, BooksNext
<1> QED
  BY <1>1, <1>2, PTL DEF Spec

\* What the run's properties count, in terms of the sums of this module.
LEMMA EpochCounts ==
  ASSUME NEW e
  PROVE  /\ LiveIn(e) = MembersOf(protectorLive, protectorPos, e)
         /\ Unsettled(e) = UnsettledOf(protectorLive, protectorPos, e)
         /\ \A ids : SharesOf(ids) = SumAmong(ids, Shares(protectorPos))
<1>1. /\ LiveIn(e) = MembersOf(protectorLive, protectorPos, e)
      /\ Unsettled(e) = UnsettledOf(protectorLive, protectorPos, e)
  BY DEF LiveIn, Unsettled, MembersOf, UnsettledOf
<1>2. ASSUME NEW ids PROVE SharesOf(ids) = SumAmong(ids, Shares(protectorPos))
  <2>1. [i \in ProtectorIds |-> IF i \in ids THEN protectorPos[i].shares ELSE 0]
        = [i \in ProtectorIds |-> IF i \in ids THEN Shares(protectorPos)[i] ELSE 0]
    BY DEF Shares
  <2> QED
    BY <2>1 DEF SharesOf, SumAmong
<1> QED
  BY <1>1, <1>2

\* The books of every epoch count exactly the receipts that are there, and hold nothing
\* without a receipt that can take it.
LEMMA BooksAreExact ==
  ASSUME AccountingInv, BooksInv
  PROVE  EpochBooksExact
<1> DEFINE p == protectorPos
           live == protectorLive
<1>1. /\ p \in [ProtectorIds -> ProtectorPosition] /\ live \subseteq ProtectorIds
      /\ \A i \in live : p[i].shares # 0 /\ ~p[i].backingSettled
  BY BooksTyped DEF BooksInv, OpenReceipts
<1>2. CurrentSound(live, p, protectorShareEpoch, totalProtectorShares, book)
  BY DEF BooksInv
<1>3. ASSUME NEW e \in EndedEpochs PROVE EndedSound(live, p, e, epochBook[e])
  BY DEF BooksInv, EndedEpochs
<1>4. totalProtectorShares = SharesOf(LiveIn(protectorShareEpoch))
  BY <1>2, EpochCounts DEF CurrentSound
<1>5. ASSUME NEW e \in EndedEpochs
      PROVE  /\ epochBook[e].shares = SharesOf(Unsettled(e))
             /\ epochBook[e].backing # 0 => epochBook[e].backingShares = SharesOf(LiveIn(e))
  BY <1>3, EpochCounts DEF EndedSound
<1>6. book.current # 0 => totalProtectorShares # 0
  BY <1>2 DEF CurrentSound
<1>7. ASSUME NEW e \in EndedEpochs, epochBook[e].reserve # 0
      PROVE  Unsettled(e) # {}
  <2>1. SumAmong(UnsettledOf(live, p, e), Shares(p)) # 0
    BY <1>3, <1>7 DEF EndedSound
  <2>2. /\ UnsettledOf(live, p, e) \subseteq ProtectorIds
        /\ \A i \in UnsettledOf(live, p, e) : p[i].shares # 0
    BY <1>1 DEF UnsettledOf
  <2>3. UnsettledOf(live, p, e) # {}
    BY <1>1, <2>1, <2>2, NoSharesNoReceipts
  <2> QED
    BY <2>3, EpochCounts
<1>8. ASSUME NEW e \in EndedEpochs, epochBook[e].backing # 0
      PROVE  \E i \in LiveIn(e) : ~protectorPos[i].backingSettled
  <2>1. SumAmong(MembersOf(live, p, e), Shares(p)) # 0
    BY <1>3, <1>8 DEF EndedSound
  <2>2. /\ MembersOf(live, p, e) \subseteq ProtectorIds
        /\ \A i \in MembersOf(live, p, e) : p[i].shares # 0 /\ ~p[i].backingSettled
    BY <1>1 DEF MembersOf
  <2>3. MembersOf(live, p, e) # {}
    BY <1>1, <2>1, <2>2, NoSharesNoReceipts
  <2> QED
    BY <2>2, <2>3, EpochCounts
<1> QED
  BY <1>4, <1>5, <1>6, <1>7, <1>8 DEF EpochBooksExact, SharesExact, NoStrandedReserve

\* The last receipt of an ended epoch takes its last token, and no reserve is stranded
\* with nobody to claim it (SplitRiskPool.sol:1249-1330, 1619-1640).
THEOREM EpochBooks == Spec => []EpochBooksExact
<1>1. AccountingInv /\ BooksInv => EpochBooksExact
  BY BooksAreExact
<1> QED
  BY <1>1, Books, PTL

\* Whole tokens that some receipts of an epoch earn, from the accruals of those that
\* still earn.
LEMMA EarnedAmong ==
  ASSUME NEW p \in [ProtectorIds -> ProtectorPosition], NEW rps \in Nat, NEW n \in Nat,
         NEW m \in Nat, NEW a, NEW b, m <= n,
         SumAmong(b, Accruals(p, rps)) + RewardPrecision * m <= RewardPrecision * n,
         \A i \in ProtectorIds : i \in a => i \in b \/ EarnedOf(p[i], rps) = 0
  PROVE  SumAmong(a, Earnings(p, rps)) + m <= n
<1> DEFINE P == RewardPrecision
           v == Earnings(p, rps)
           w == Accruals(p, rps)
           s == SumAmong(a, v)
           t == SumAmong(b, w)
<1>1. /\ v \in [ProtectorIds -> Nat] /\ w \in [ProtectorIds -> Nat] /\ P \in Nat \ {0}
  BY WeightsTyped, RewardAssumption
<1>2. \A i \in ProtectorIds : i \in a => P * v[i] <= (IF i \in b THEN w[i] ELSE 0)
  <2> SUFFICES ASSUME NEW i \in ProtectorIds, i \in a
               PROVE  P * v[i] <= (IF i \in b THEN w[i] ELSE 0)
    OBVIOUS
  <2>1. /\ v[i] = EarnedOf(p[i], rps) /\ w[i] = AccrualOf(p[i], rps)
    BY DEF Earnings, Accruals
  <2>2. P * EarnedOf(p[i], rps) <= AccrualOf(p[i], rps)
    BY AccrualType
  <2>3. EarnedOf(p[i], rps) = 0 => P * EarnedOf(p[i], rps) = 0
    BY <1>1
  <2>4. AccrualOf(p[i], rps) \in Nat
    BY AccrualType
  <2> QED
    BY <2>1, <2>2, <2>3, <2>4
<1> HIDE DEF v, w, P
<1>3. P * s <= t
  BY <1>1, <1>2, AmongScaled
<1>4. s \in Nat /\ t \in Nat
  BY <1>1, AmongType
<1>5. t + P * m <= P * n
  BY DEF w, P
<1> HIDE DEF s, t
<1>6. P * (s + m) <= P * n
  <2>1. P * s \in Nat /\ P * m \in Nat /\ P * n \in Nat /\ P * (s + m) = P * s + P * m
    BY <1>1, <1>4, ProductType
  <2> QED
    BY <1>3, <1>4, <1>5, <2>1
<1>7. s + m <= n
  <2>1. s + m \in Nat
    BY <1>4
  <2> QED
    BY <1>1, <1>6, <2>1
<1> QED
  BY <1>7 DEF s, v

LEMMA EpochClaimsCount ==
  ASSUME AccountingInv, NEW e \in Epochs, NEW rps,
         rps = IF e < protectorShareEpoch THEN epochBook[e].finalRps ELSE book.rps
  PROVE  EpochClaims(e)
           = SumAmong(MembersOf(protectorLive, protectorPos, e), Earnings(protectorPos, rps))
<1> DEFINE p == protectorPos
           ids == MembersOf(protectorLive, p, e)
<1>1. ASSUME NEW i \in ProtectorIds, i \in ids
      PROVE  Earned(i, book) = Earnings(p, rps)[i]
  BY <1>1 DEF Earned, Earnings, EarnedOf, MembersOf, Expired
<1>2. [i \in ProtectorIds |-> IF i \in LiveIn(e) THEN Earned(i, book) ELSE 0]
      = [i \in ProtectorIds |-> IF i \in ids THEN Earnings(p, rps)[i] ELSE 0]
  <2>1. LiveIn(e) = ids
    BY EpochCounts
  <2> HIDE DEF ids, p
  <2> QED
    BY <1>1, <2>1
<1> QED
  BY <1>2 DEF EpochClaims, SumAmong

LEMMA BooksAreFunded ==
  ASSUME AccountingInv, BooksInv
  PROVE  RewardsFunded
<1> DEFINE p == protectorPos
           live == protectorLive
           e0 == protectorShareEpoch
<1>1. /\ p \in [ProtectorIds -> ProtectorPosition]
      /\ e0 \in Nat /\ e0 \in Epochs /\ totalProtectorShares \in Nat /\ book \in Book
      /\ epochBook \in [Epochs -> EpochEntry]
  BY BooksTyped
<1>2. EpochClaims(e0) + book.dust <= book.current
  <2>1. CurrentSound(live, p, e0, totalProtectorShares, book)
    BY DEF BooksInv
  <2>2. book.rps \in Nat /\ book.dust \in Nat /\ book.current \in Nat
    BY <1>1, BookFields
  <2>3. book.dust <= book.current
    BY <1>1, <2>1, DustWithinReserve
  <2>4. SumAmong(MembersOf(live, p, e0), Earnings(p, book.rps)) + book.dust <= book.current
    BY <1>1, <2>1, <2>2, <2>3, EarnedAmong DEF CurrentSound
  <2>5. EpochClaims(e0) = SumAmong(MembersOf(live, p, e0), Earnings(p, book.rps))
    BY <1>1, EpochClaimsCount
  <2> QED
    BY <2>4, <2>5
<1>3. ASSUME NEW e \in EndedEpochs PROVE EpochClaims(e) <= epochBook[e].reserve
  <2> DEFINE entry == epochBook[e]
             s == SumAmong(MembersOf(live, p, e), Earnings(p, entry.finalRps))
  <2>1. e \in Epochs /\ e < e0 /\ EndedSound(live, p, e, entry)
    BY DEF BooksInv, EndedEpochs
  <2>2. entry \in EpochEntry /\ entry.finalRps \in Nat /\ entry.reserve \in Nat
    BY <1>1, <2>1 DEF EpochEntry
  <2>3. \A i \in ProtectorIds : i \in MembersOf(live, p, e) =>
          i \in UnsettledOf(live, p, e) \/ EarnedOf(p[i], entry.finalRps) = 0
    BY <2>1 DEF EndedSound, MembersOf, UnsettledOf
  <2>4. SumAmong(UnsettledOf(live, p, e), Accruals(p, entry.finalRps)) + RewardPrecision * 0
          <= RewardPrecision * entry.reserve
    <3>1. SumAmong(UnsettledOf(live, p, e), Accruals(p, entry.finalRps)) \in Nat
      BY <1>1, <2>2, WeightsTyped, AmongType
    <3>2. RewardPrecision * 0 = 0
      BY RewardAssumption
    <3>3. SumAmong(UnsettledOf(live, p, e), Accruals(p, entry.finalRps))
            <= RewardPrecision * entry.reserve
      BY <2>1 DEF EndedSound
    <3> QED
      BY <3>1, <3>2, <3>3
  <2>5. s + 0 <= entry.reserve
    BY <1>1, <2>2, <2>3, <2>4, EarnedAmong
  <2>6. EpochClaims(e) = s
    BY <2>1, EpochClaimsCount
  <2>7. s \in Nat
    BY <1>1, <2>2, WeightsTyped, AmongType
  <2> QED
    BY <2>5, <2>6, <2>7
<1> QED
  BY <1>2, <1>3 DEF RewardsFunded

\* The commissions in the bucket pay what every receipt has earned at once, in the
\* current epoch and in each one that has ended.
THEOREM Rewards == Spec => []RewardsFunded
<1>1. AccountingInv /\ BooksInv => RewardsFunded
  BY BooksAreFunded
<1> QED
  BY <1>1, Books, PTL

-----------------------------------------------------------------------------
(* What a receipt can claim, from its epoch *)

\* The accumulator that a receipt of epoch e reads, and the backing and the shares that
\* price its own shares.
EpochRps(e) == IF e < protectorShareEpoch THEN epochBook[e].finalRps ELSE book.rps
EpochTokens(e) == IF e < protectorShareEpoch THEN epochBook[e].backing ELSE totalProtectorTokens
EpochShares(e) ==
  IF e < protectorShareEpoch THEN epochBook[e].backingShares ELSE totalProtectorShares

\* No cap ever binds: a live receipt can claim what it has earned, and its part of the
\* backing of its epoch.
ClaimsUncapped ==
  \A i \in protectorLive :
    LET pos == protectorPos[i]
    IN  /\ i \in ProtectorIds /\ pos \in ProtectorPosition
        /\ pos.shares # 0 /\ pos.epoch <= protectorShareEpoch
        /\ EpochRps(pos.epoch) \in Nat
        /\ EpochTokens(pos.epoch) \in Nat /\ EpochShares(pos.epoch) \in Nat
        /\ ClaimableCommission(i) = EarnedOf(pos, EpochRps(pos.epoch))
        /\ PositionAmount(i) = AssetsOf(pos.shares, EpochTokens(pos.epoch), EpochShares(pos.epoch))
        /\ EpochTokens(pos.epoch) # 0 \/ pos.epoch = protectorShareEpoch =>
             pos.shares <= EpochShares(pos.epoch)

LEMMA AssetsOfAll ==
  ASSUME NEW shares \in Nat, NEW tokens \in Nat, shares # 0
  PROVE  AssetsOf(shares, tokens, shares) = tokens
<1>1. CASE tokens = 0
  BY <1>1 DEF AssetsOf
<1>2. CASE tokens # 0
  <2> DEFINE x == shares * tokens
             q == x \div shares
  <2>1. x \in Nat
    BY ProductType
  <2>2. q \in Nat /\ shares * q <= x /\ x < shares * q + shares
    <3> HIDE DEF x
    <3> QED
      BY <2>1, QuotientBounds
  <2>3. AssetsOf(shares, tokens, shares) = q
    BY <1>2 DEF AssetsOf, MulDiv
  <2> HIDE DEF q
  <2>4. shares * q <= shares * tokens /\ shares * tokens < shares * (q + 1)
    BY <2>2
  <2>5. q <= tokens /\ tokens < q + 1
    BY <2>2, <2>4
  <2> QED
    BY <2>2, <2>3, <2>5
<1> QED
  BY <1>1, <1>2

LEMMA EarnedIsClaimable ==
  ASSUME AccountingInv, BooksInv, NEW i \in protectorLive
  PROVE  /\ EpochRps(protectorPos[i].epoch) \in Nat
         /\ ClaimableCommission(i) = EarnedOf(protectorPos[i], EpochRps(protectorPos[i].epoch))
<1> DEFINE p == protectorPos
           live == protectorLive
           k == p[i].epoch
           e0 == protectorShareEpoch
<1>1. /\ i \in ProtectorIds /\ live \subseteq ProtectorIds
      /\ p \in [ProtectorIds -> ProtectorPosition] /\ p[i] \in ProtectorPosition
      /\ epochBook \in [Epochs -> EpochEntry] /\ k \in Epochs /\ k \in Nat
      /\ epochBook[k] \in EpochEntry /\ book \in Book
      /\ e0 \in Nat /\ e0 \in Epochs /\ totalProtectorShares \in Nat
      /\ Partitioned(book)
  BY BooksTyped, PositionFields
<1>2. k <= e0 /\ p[i].shares # 0
  BY DEF AccountingInv, ReceiptInv, BooksInv, OpenReceipts
<1>3. /\ book.rps \in Nat /\ book.current \in Nat /\ book.historical \in Nat
      /\ book.commissions = book.current + book.historical
  BY <1>1, BookFields DEF Partitioned
<1>4. /\ epochBook[k].finalRps \in Nat /\ epochBook[k].reserve \in Nat
      /\ epochBook[k].reserve <= book.historical
  <2>1. epochBook[k].finalRps \in Nat /\ epochBook[k].reserve \in Nat
    BY <1>1 DEF EpochEntry
  <2>2. epochBook[k].reserve <= book.historical
    BY <1>1, ReserveBound DEF AccountingInv, LedgerInv
  <2> QED
    BY <2>1, <2>2
<1>5. Earned(i, book) = EarnedOf(p[i], EpochRps(k))
  BY DEF Earned, EarnedOf, EpochRps, Expired
<1>6. CASE k < e0
  <2>1. EndedSound(live, p, k, epochBook[k])
    BY <1>1, <1>6 DEF BooksInv
  <2>2. /\ EarnedOf(p[i], epochBook[k].finalRps) \in Nat
        /\ EarnedOf(p[i], epochBook[k].finalRps) <= epochBook[k].reserve
    BY <1>1, <2>1, EarnedWithinReserve
  <2>3. EpochRps(k) = epochBook[k].finalRps /\ Expired(i)
    BY <1>6 DEF EpochRps, Expired
  <2>4. PICK n \in Nat : n = EarnedOf(p[i], EpochRps(k))
    BY <2>2, <2>3
  <2>5. ClaimableCommission(i) = Least(n, Least(book.commissions, epochBook[k].reserve))
    BY <1>2, <1>5, <2>3, <2>4 DEF ClaimableCommission, Claimable
  <2>6. n <= epochBook[k].reserve /\ n <= book.commissions
    BY <1>3, <1>4, <2>2, <2>3, <2>4
  <2>7. Least(n, Least(book.commissions, epochBook[k].reserve)) = n
    BY <1>3, <1>4, <2>4, <2>6 DEF Least
  <2> QED
    BY <1>4, <2>3, <2>4, <2>5, <2>7
<1>7. CASE ~(k < e0)
  <2>0. k = e0
    BY <1>1, <1>2, <1>7
  <2>1. CurrentSound(live, p, k, totalProtectorShares, book)
    BY <2>0 DEF BooksInv
  <2>2. EpochRps(k) = book.rps /\ ~Expired(i)
    BY <1>7 DEF EpochRps, Expired
  <2>3. PICK n \in Nat : n = EarnedOf(p[i], book.rps)
    BY <1>1, <1>3, AccrualType
  <2>4. n <= book.current
    <3> DEFINE s == SumAmong(MembersOf(live, p, k), Earnings(p, book.rps))
    <3>1. book.dust \in Nat /\ book.dust <= book.current
      BY <1>1, <2>1, BookFields, DustWithinReserve
    <3>2. s + book.dust <= book.current
      BY <1>1, <1>3, <2>1, <3>1, EarnedAmong DEF CurrentSound
    <3>3. Earnings(p, book.rps) \in [ProtectorIds -> Nat] /\ Earnings(p, book.rps)[i] = n
      BY <1>1, <1>3, <2>3, WeightsTyped DEF Earnings
    <3>4. i \in MembersOf(live, p, k)
      BY DEF MembersOf
    <3>5. s \in Nat /\ n <= s
      BY <1>1, <3>3, <3>4, AmongType
    <3> HIDE DEF s
    <3> QED
      BY <1>3, <3>1, <3>2, <3>5
  <2>5. ClaimableCommission(i) = Least(n, Least(book.commissions, book.current))
    BY <1>2, <1>5, <2>2, <2>3 DEF ClaimableCommission, Claimable
  <2>6. Least(n, Least(book.commissions, book.current)) = n
    BY <1>3, <2>3, <2>4 DEF Least
  <2> QED
    BY <1>3, <2>2, <2>3, <2>5, <2>6
<1> QED
  BY <1>6, <1>7

LEMMA PositionIsShareOfEpoch ==
  ASSUME AccountingInv, BooksInv, NEW i \in protectorLive
  PROVE  LET pos == protectorPos[i]
         IN  /\ EpochTokens(pos.epoch) \in Nat /\ EpochShares(pos.epoch) \in Nat
             /\ PositionAmount(i)
                  = AssetsOf(pos.shares, EpochTokens(pos.epoch), EpochShares(pos.epoch))
             /\ EpochTokens(pos.epoch) # 0 \/ pos.epoch = protectorShareEpoch =>
                  pos.shares <= EpochShares(pos.epoch)
<1> DEFINE p == protectorPos
           live == protectorLive
           k == p[i].epoch
           e0 == protectorShareEpoch
           n == p[i].shares
<1>1. /\ i \in ProtectorIds /\ live \subseteq ProtectorIds
      /\ p \in [ProtectorIds -> ProtectorPosition] /\ p[i] \in ProtectorPosition /\ n \in Nat
      /\ epochBook \in [Epochs -> EpochEntry] /\ k \in Epochs /\ k \in Nat
      /\ epochBook[k] \in EpochEntry
      /\ e0 \in Nat /\ totalProtectorShares \in Nat /\ totalProtectorTokens \in Nat
  BY BooksTyped, PositionFields
<1>2. k <= e0 /\ n # 0 /\ ~p[i].backingSettled
  BY DEF AccountingInv, ReceiptInv, BooksInv, OpenReceipts
<1>3. Shares(p) \in [ProtectorIds -> Nat] /\ Shares(p)[i] = n /\ i \in MembersOf(live, p, k)
  BY <1>1, PositionFields DEF Shares, MembersOf
<1>4. n <= SumAmong(MembersOf(live, p, k), Shares(p))
  BY <1>1, <1>3, AmongType
<1>5. CASE k < e0
  <2> DEFINE b == epochBook[k].backing
             m == epochBook[k].backingShares
  <2>1. EndedSound(live, p, k, epochBook[k])
    BY <1>1, <1>5 DEF BooksInv
  <2>2. b \in Nat /\ m \in Nat /\ (b # 0 => n <= m /\ m # 0)
    BY <1>1, <1>4, <2>1 DEF EndedSound, EpochEntry
  <2>3. EpochTokens(k) = b /\ EpochShares(k) = m /\ Expired(i) /\ ActiveShares(i) = 0
    BY <1>1, <1>5 DEF EpochTokens, EpochShares, Expired, ActiveShares
  <2>4. PositionAmount(i) = IF b = 0 \/ m = 0 THEN 0
                            ELSE IF n >= m THEN b ELSE MulDiv(n, b, m)
    BY <1>2, <2>3 DEF PositionAmount, ExpiredBackingClaim
  <2> HIDE DEF b, m, n
  <2>5. PositionAmount(i) = AssetsOf(n, b, m)
    <3>1. CASE b = 0
      BY <2>4, <3>1 DEF AssetsOf
    <3>2. CASE b # 0 /\ n >= m
      <4>1. n = m
        BY <1>1, <2>2, <3>2
      <4> QED
        BY <1>1, <1>2, <2>2, <2>4, <3>2, <4>1, AssetsOfAll
    <3>3. CASE b # 0 /\ ~(n >= m)
      BY <1>2, <2>2, <2>4, <3>3 DEF AssetsOf
    <3> QED
      BY <3>1, <3>2, <3>3
  <2> QED
    BY <1>1, <1>5, <2>2, <2>3, <2>5 DEF n
<1>6. CASE ~(k < e0)
  <2>0. k = e0
    BY <1>1, <1>2, <1>6
  <2>1. totalProtectorShares = SumAmong(MembersOf(live, p, k), Shares(p))
    BY <2>0 DEF BooksInv, CurrentSound
  <2>2. /\ EpochTokens(k) = totalProtectorTokens /\ EpochShares(k) = totalProtectorShares
        /\ ActiveShares(i) = n
    BY <1>6, <2>0 DEF EpochTokens, EpochShares, ActiveShares
  <2>3. PositionAmount(i) = AssetsOf(n, totalProtectorTokens, totalProtectorShares)
    BY <1>2, <2>2 DEF PositionAmount, ActiveAmount
  <2> QED
    BY <1>1, <1>4, <2>1, <2>2, <2>3
<1> QED
  BY <1>5, <1>6

LEMMA Uncapped == AccountingInv /\ BooksInv => ClaimsUncapped
<1> SUFFICES ASSUME AccountingInv, BooksInv PROVE ClaimsUncapped
  OBVIOUS
<1>1. ASSUME NEW i \in protectorLive
      PROVE  /\ i \in ProtectorIds /\ protectorPos[i] \in ProtectorPosition
             /\ protectorPos[i].shares # 0 /\ protectorPos[i].epoch <= protectorShareEpoch
  BY BooksTyped DEF AccountingInv, ReceiptInv, BooksInv, OpenReceipts
<1> QED
  BY <1>1, EarnedIsClaimable, PositionIsShareOfEpoch DEF ClaimsUncapped

\* The caps on what an ended epoch or a bucket may pay never bind: what a receipt earned
\* it can claim (SplitRiskPool.sol:1110-1118, 2031-2034).
THEOREM NoCapBinds == Spec => []ClaimsUncapped
BY Uncapped, Books, PTL

LEMMA UncappedNext == (AccountingInv /\ BooksInv)' => ClaimsUncapped'
BY Uncapped, PTL

-----------------------------------------------------------------------------
(* The accumulators never go back *)

\* A receipt that stays keeps its epoch, and every epoch's accumulator grows or stays.
AccumulatorsGrow ==
  /\ protectorShareEpoch' >= protectorShareEpoch
  /\ \A e \in Epochs : e <= protectorShareEpoch => EpochRps(e)' >= EpochRps(e)
  /\ \A i \in protectorLive \cap protectorLive' :
       protectorPos'[i].shares = protectorPos[i].shares
       => protectorPos'[i].epoch = protectorPos[i].epoch

LEMMA AccumulatorsGrowBy ==
  ASSUME AccountingInv,
         \A e \in Epochs : e < protectorShareEpoch => epochBook'[e].finalRps = epochBook[e].finalRps,
         \/ protectorShareEpoch' = protectorShareEpoch /\ book'.rps >= book.rps
         \/ /\ protectorShareEpoch' = protectorShareEpoch + 1
            /\ epochBook'[protectorShareEpoch].finalRps >= book.rps,
         \A i \in protectorLive \cap protectorLive' :
           protectorPos'[i].shares = protectorPos[i].shares
           => protectorPos'[i].epoch = protectorPos[i].epoch
  PROVE  AccumulatorsGrow
<1> DEFINE e0 == protectorShareEpoch
<1>1. /\ e0 \in Nat /\ e0 \in Epochs /\ \A e \in Epochs : e \in Nat
      /\ epochBook \in [Epochs -> EpochEntry]
      /\ \A e \in Epochs : epochBook[e].finalRps \in Nat
  BY BooksTyped DEF Epochs, EpochEntry
<1>2. protectorShareEpoch' \in Nat /\ protectorShareEpoch' >= protectorShareEpoch
  BY <1>1
<1>3. ASSUME NEW e \in Epochs, e <= e0 PROVE EpochRps(e)' >= EpochRps(e)
  <2>1. CASE e < e0
    <3>1. e < protectorShareEpoch'
      <4>1. PICK m \in Nat : m = protectorShareEpoch'
        BY <1>2
      <4> QED
        BY <1>1, <1>2, <2>1, <4>1
    <3>2. /\ EpochRps(e)' = epochBook'[e].finalRps /\ EpochRps(e) = epochBook[e].finalRps
      BY <2>1, <3>1 DEF EpochRps
    <3> QED
      BY <1>1, <2>1, <3>2
  <2>2. CASE e = e0
    BY <1>1, <2>2 DEF EpochRps
  <2> QED
    BY <1>1, <1>3, <2>1, <2>2
<1> QED
  BY <1>2, <1>3 DEF AccumulatorsGrow

\* A step of the book alone
LEMMA BookGrows ==
  ASSUME AccountingInv, UNCHANGED <<protectorVars, epochVars>>, book'.rps >= book.rps
  PROVE  AccumulatorsGrow
<1>1. /\ protectorShareEpoch' = protectorShareEpoch /\ epochBook' = epochBook
      /\ protectorPos' = protectorPos
  BY DEF protectorVars, epochVars
<1> QED
  BY <1>1, AccumulatorsGrowBy

LEMMA ActivationGrows ==
  ASSUME AccountingInv, NEW id \in ShieldIds, ShieldedWithdrawCrossAsset(id)
  PROVE  AccumulatorsGrow
<1> DEFINE settled == SettleFees(id, shieldedQuote.fee)
           b == settled.book
           forfeited == shieldPos[id].amount - settled.fees
           shares == totalProtectorShares
           rewarded == AccumulateReward(b, shares, totalProtectorTokens, forfeited)
           expires == Expires(FALSE, totalProtectorTokens - ActivationPayout(id))
<1>1. /\ CanSettleFees(id, shieldedQuote.fee) /\ id \in shieldLive
      /\ expires => /\ epochBook' = [epochBook EXCEPT ![protectorShareEpoch] =
                                       ExpiredEpoch(rewarded, 0)]
                    /\ protectorShareEpoch' = protectorShareEpoch + 1
      /\ ~expires => book' = rewarded /\ UNCHANGED epochVars
      /\ UNCHANGED protectorVars
  BY DEF ShieldedWithdrawCrossAsset, ActivationAllowed
<1>2. /\ shieldedQuote.fee \in Nat /\ shieldPos[id].amount \in Nat
  BY Environment DEF AccountingInv, ShieldInv, ShieldPosition
<1>3. /\ settled.fees \in Nat /\ settled.fees <= shieldPos[id].amount
      /\ b \in Book /\ Funds(book, b, shares)
  BY <1>1, <1>2, FeesFunded
<1>4. /\ shares \in Nat /\ totalProtectorTokens \in Nat /\ book \in Book
      /\ epochBook \in [Epochs -> EpochEntry] /\ protectorShareEpoch \in Epochs
      /\ protectorShareEpoch \in Nat
  BY BooksTyped
<1> HIDE DEF settled, shares
<1>5. forfeited \in Nat
  BY <1>2, <1>3
<1> HIDE DEF forfeited, b, expires
<1>6. rewarded \in Book /\ Funds(b, rewarded, shares)
  BY <1>3, <1>4, <1>5, AccumulateRewardEffect, FundsAccumulate
<1> HIDE DEF rewarded
<1>7. rewarded.rps >= book.rps
  BY <1>3, <1>4, <1>6, BookFields DEF Funds
<1>8. CASE ~expires
  BY <1>1, <1>7, <1>8, BookGrows
<1>9. CASE expires
  <2>1. epochBook'[protectorShareEpoch].finalRps = rewarded.rps
    <3>1. epochBook'[protectorShareEpoch] = ExpiredEpoch(rewarded, 0)
      BY <1>1, <1>4, <1>9
    <3>2. epochBook[protectorShareEpoch] \in EpochEntry
      BY <1>4
    <3> QED
      BY <3>1, <3>2 DEF ExpiredEpoch, EpochEntry
  <2>2. \A e \in Epochs : e < protectorShareEpoch =>
          epochBook'[e].finalRps = epochBook[e].finalRps
    BY <1>1, <1>4, <1>9 DEF Epochs
  <2>3. protectorPos' = protectorPos
    BY <1>1 DEF protectorVars
  <2> QED
    BY <1>1, <1>7, <1>9, <2>1, <2>2, <2>3, AccumulatorsGrowBy
<1> QED
  BY <1>8, <1>9

LEMMA DepositGrows ==
  ASSUME AccountingInv, NEW received \in BackingAmounts, DepositBackingAsset(received)
  PROVE  AccumulatorsGrow
<1> DEFINE expires == Expires(TRUE, totalProtectorTokens)
           book0 == IF expires THEN ExpireBook(book) ELSE book
           e0 == protectorShareEpoch
<1>1. /\ nextProtectorId <= MaxProtectorId
      /\ book' = RedirectDust(book0)
      /\ epochBook' = IF expires
                      THEN [epochBook EXCEPT ![e0] = ExpiredEpoch(book, totalProtectorTokens)]
                      ELSE epochBook
      /\ protectorShareEpoch' = IF expires THEN e0 + 1 ELSE e0
      /\ protectorLive' = protectorLive \cup {nextProtectorId}
      /\ \E new : protectorPos' = [protectorPos EXCEPT ![nextProtectorId] = new]
  BY DEF DepositBackingAsset
<1>2. /\ book \in Book /\ epochBook \in [Epochs -> EpochEntry] /\ e0 \in Epochs /\ e0 \in Nat
      /\ protectorPos \in [ProtectorIds -> ProtectorPosition] /\ protectorLive \subseteq ProtectorIds
  BY BooksTyped
<1>3. nextProtectorId \notin protectorLive
  BY DEF AccountingInv, ReceiptInv
<1>4. \A i \in protectorLive : protectorPos'[i] = protectorPos[i]
  BY <1>1, <1>2, <1>3
<1>5. book'.rps = book.rps /\ book.rps \in Nat
  <2>1. book0 \in Book /\ book0.rps = book.rps
    BY <1>2, ExpireBookEffect
  <2> HIDE DEF book0
  <2>2. RedirectDust(book0).rps = book0.rps
    BY <2>1 DEF RedirectDust, Book
  <2> QED
    BY <1>1, <1>2, <2>1, <2>2, BookFields
<1>6. CASE ~expires
  BY <1>1, <1>4, <1>5, <1>6, AccumulatorsGrowBy
<1>7. CASE expires
  <2>1. epochBook'[e0].finalRps = book.rps
    <3>1. epochBook'[e0] = ExpiredEpoch(book, totalProtectorTokens)
      BY <1>1, <1>2, <1>7
    <3>2. epochBook[e0] \in EpochEntry
      BY <1>2
    <3> QED
      BY <3>1, <3>2 DEF ExpiredEpoch, EpochEntry
  <2>2. \A e \in Epochs : e < e0 => epochBook'[e].finalRps = epochBook[e].finalRps
    BY <1>1, <1>2, <1>7 DEF Epochs
  <2> QED
    BY <1>1, <1>4, <1>5, <1>7, <2>1, <2>2, AccumulatorsGrowBy
<1> QED
  BY <1>6, <1>7

\* A claim and the burn that may follow it rewrite one receipt and one ended epoch, whose
\* accumulator they leave.
LEMMA ClaimGrows ==
  ASSUME AccountingInv, BooksInv, NEW id \in protectorLive, NEW entry,
         entry.finalRps = ClaimOutcome(id).entry.finalRps,
         epochBook' = [epochBook EXCEPT ![protectorPos[id].epoch] = entry],
         book' = ClaimOutcome(id).book,
         protectorShareEpoch' = protectorShareEpoch,
         \A i \in protectorLive \cap protectorLive' :
           protectorPos'[i].epoch = protectorPos[i].epoch
  PROVE  AccumulatorsGrow
<1> DEFINE k == protectorPos[id].epoch
<1>1. /\ epochBook \in [Epochs -> EpochEntry] /\ book \in Book /\ k \in Epochs
      /\ totalProtectorShares \in Nat
  BY BooksTyped, PositionFields
<1>2. /\ ClaimOutcome(id).entry.finalRps = epochBook[k].finalRps
      /\ book'.rps = DistributedBook.rps
  BY ClaimParts
<1>3. book'.rps >= book.rps
  BY <1>1, <1>2, DistributedBookEffect, BookFields DEF Funds
<1>4. \A e \in Epochs : epochBook'[e].finalRps = epochBook[e].finalRps
  BY <1>1, <1>2
<1> QED
  BY <1>3, <1>4, AccumulatorsGrowBy

LEMMA WithdrawalGrows ==
  ASSUME AccountingInv, BooksInv, NEW id \in ProtectorIds, NEW amount \in Nat,
         ProtectorWithdraw(id, amount)
  PROVE  AccumulatorsGrow
<1> DEFINE c == ClaimOutcome(id).book
           newTotal == totalProtectorShares - SharesToBurn(id, amount)
<1>1. /\ book' = RedirectOrphaned(RedirectDust(c), newTotal)
      /\ UNCHANGED epochVars
      /\ id \in protectorLive /\ ProtectorExitAllowed(id, amount)
  BY DEF ProtectorWithdraw, ProtectorExitAllowed
<1>2. c \in Book /\ c.rps = DistributedBook.rps
  BY <1>1, ClaimParts
<1>3. book'.rps = c.rps
  <2>1. RedirectDust(c) \in Book /\ RedirectDust(c).rps = c.rps
    <3> HIDE DEF c
    <3> QED
      BY <1>2, RedirectDustEffect DEF RedirectDust, Book
  <2> DEFINE r == RedirectDust(c)
  <2> HIDE DEF r
  <2>2. RedirectOrphaned(r, newTotal).rps = r.rps
    BY <2>1 DEF r, RedirectOrphaned, Orphan, Book
  <2> QED
    BY <1>1, <2>1, <2>2 DEF r
<1>4. book'.rps >= book.rps
  BY <1>2, <1>3, BooksTyped, DistributedBookEffect, BookFields DEF Funds
<1>5. ASSUME NEW i \in protectorLive \cap protectorLive',
             protectorPos'[i].shares = protectorPos[i].shares
      PROVE  protectorPos'[i].epoch = protectorPos[i].epoch
  <2>0. protectorPos \in [ProtectorIds -> ProtectorPosition] /\ i \in ProtectorIds
    BY BooksTyped
  <2>1. CASE i # id
    BY <2>0, <2>1 DEF ProtectorWithdraw
  <2>2. CASE i = id
    <3>1. ActiveShares(id) # 0
      BY <1>1, WithdrawalBounds DEF AccountingInv
    <3>2. protectorPos[id].epoch = protectorShareEpoch
      BY <3>1 DEF ActiveShares
    <3>3. ActiveShares(id) - SharesToBurn(id, amount) # 0
      BY <2>2 DEF ProtectorWithdraw
    <3>4. protectorPos' = [protectorPos EXCEPT ![id] =
             ProtectorRemainder(protectorPos[id],
                                ActiveShares(id) - SharesToBurn(id, amount), c.rps)]
      BY <3>3 DEF ProtectorWithdraw
    <3>5. protectorPos'[id].epoch = protectorShareEpoch
      BY <2>0, <2>2, <3>4 DEF ProtectorRemainder, ProtectorPosition
    <3> QED
      BY <2>2, <3>2, <3>5
  <2> QED
    BY <2>1, <2>2
<1>6. epochBook' = epochBook /\ protectorShareEpoch' = protectorShareEpoch
  BY <1>1 DEF epochVars
<1> QED
  BY <1>4, <1>5, <1>6, AccumulatorsGrowBy

LEMMA StepGrows ==
  ASSUME AccountingInv, BooksInv, [Next]_vars
  PROVE  AccumulatorsGrow
<1>0. book \in Book /\ book.rps \in Nat
  BY BooksTyped, BookFields
<1>1. ASSUME NEW id \in ShieldIds,
             \/ ShieldedWithdrawSameAsset(id) \/ ClaimRewards(id)
             \/ \E amount \in ShieldedAmounts : PartialWithdrawShielded(id, amount)
      PROVE  AccumulatorsGrow
  <2>1. /\ CanSettleFees(id, SettlementPrice) /\ book' = SettleFees(id, SettlementPrice).book
        /\ UNCHANGED <<protectorVars, epochVars>>
    <3>1. CASE ShieldedWithdrawSameAsset(id)
      BY <3>1 DEF ShieldedWithdrawSameAsset, SameAssetExitAllowed
    <3>2. CASE ClaimRewards(id)
      BY <3>2 DEF ClaimRewards
    <3>3. CASE \E amount \in ShieldedAmounts : PartialWithdrawShielded(id, amount)
      BY <3>3 DEF PartialWithdrawShielded
    <3> QED
      BY <1>1, <3>1, <3>2, <3>3
  <2>2. SettlementPrice \in Nat
    BY Environment DEF AccountingInv
  <2>3. Funds(book, SettleFees(id, SettlementPrice).book, totalProtectorShares)
    BY <2>1, <2>2, FeesFunded
  <2>4. book'.rps >= book.rps
    BY <2>1, <2>3 DEF Funds
  <2> QED
    BY <2>1, <2>4, BookGrows
<1>2. ASSUME NEW id \in ShieldIds, ShieldedWithdrawCrossAsset(id)
      PROVE  AccumulatorsGrow
  BY <1>2, ActivationGrows
<1>3. ASSUME NEW amount \in BackingAmounts, DepositBackingAsset(amount)
      PROVE  AccumulatorsGrow
  BY <1>3, DepositGrows
<1>4. ASSUME NEW id \in ProtectorIds, StartUnlockProcess(id) \/ CancelUnlockProcess(id)
      PROVE  AccumulatorsGrow
  <2>1. /\ book' = book /\ UNCHANGED epochVars
        /\ \E n : protectorPos' = [protectorPos EXCEPT ![id].unlockRequestTime = n]
    BY <1>4 DEF StartUnlockProcess, CancelUnlockProcess
  <2>2. \A i \in protectorLive : protectorPos'[i].epoch = protectorPos[i].epoch
    BY <2>1, BooksTyped DEF ProtectorPosition
  <2> QED
    BY <1>0, <2>1, <2>2, AccumulatorsGrowBy DEF epochVars
<1>5. ASSUME NEW id \in ProtectorIds,
             NEW amount \in BackingAmounts \cup {0, PositionAmount(id), AvailableForWithdrawal(id)},
             ProtectorWithdraw(id, amount)
      PROVE  AccumulatorsGrow
  <2>1. amount \in Nat
    BY <1>5, Constants, WithdrawalAmountTyped
  <2> QED
    BY <1>5, <2>1, WithdrawalGrows
<1>6. ASSUME NEW id \in ProtectorIds,
             \/ ClaimCommission(id) \/ ForfeitCommission(id)
             \/ SettleExpiredProtectorPosition(id) \/ EscrowExpiredProtectorCommission(id)
      PROVE  AccumulatorsGrow
  <2>1. id \in protectorLive /\ ApplyClaim(id, ClaimOutcome(id))
    BY <1>6 DEF ClaimCommission, ForfeitCommission, SettleExpiredProtectorPosition,
                EscrowExpiredProtectorCommission
  <2>2. /\ epochBook' = [epochBook EXCEPT ![protectorPos[id].epoch] = ClaimOutcome(id).entry]
        /\ book' = ClaimOutcome(id).book /\ protectorShareEpoch' = protectorShareEpoch
        /\ protectorPos' = [protectorPos EXCEPT ![id] = ClaimOutcome(id).pos]
    BY <2>1 DEF ApplyClaim
  <2>3. ClaimOutcome(id).pos.epoch = protectorPos[id].epoch
    BY <2>1, ClaimParts
  <2>4. \A i \in protectorLive \cap protectorLive' :
          protectorPos'[i].epoch = protectorPos[i].epoch
    BY <2>2, <2>3, BooksTyped
  <2> QED
    BY <2>1, <2>2, <2>4, ClaimGrows
<1>7. ASSUME NEW id \in ProtectorIds,
             ClaimExpiredProtectorBacking(id) \/ SettleExpiredProtectorBacking(id)
      PROVE  AccumulatorsGrow
  <2>1. id \in protectorLive /\ ClaimExpiredBacking(id)
    BY <1>7 DEF ClaimExpiredProtectorBacking, SettleExpiredProtectorBacking, ClaimExpiredBacking
  <2> DEFINE entry == BackingEntryAfter(ClaimOutcome(id).entry, protectorPos[id].shares)
  <2>2. /\ epochBook' = [epochBook EXCEPT ![protectorPos[id].epoch] = entry]
        /\ book' = ClaimOutcome(id).book /\ protectorShareEpoch' = protectorShareEpoch
        /\ protectorLive' = protectorLive \ {id}
        /\ \E new : protectorPos' = [protectorPos EXCEPT ![id] = new]
    BY <2>1 DEF ClaimExpiredBacking
  <2>3. entry.finalRps = ClaimOutcome(id).entry.finalRps
    <3>1. ClaimOutcome(id).entry \in EpochEntry
      BY <2>1, ClaimParts
    <3> QED
      BY <3>1 DEF BackingEntryAfter, EpochEntry
  <2>4. \A i \in protectorLive \cap protectorLive' :
          protectorPos'[i].epoch = protectorPos[i].epoch
    BY <2>2, BooksTyped
  <2> HIDE DEF entry
  <2> QED
    BY <2>1, <2>2, <2>3, <2>4, ClaimGrows
<1>8. CASE GovernanceNext \/ EnvironmentNext \/ UNCHANGED vars
             \/ \E amount \in ShieldedAmounts : DepositShieldedAsset(amount)
  <2>1. /\ UNCHANGED <<protectorVars, epochVars>>
        /\ \/ book' = book
           \/ book' = [book EXCEPT !.poolFee = 0]
           \/ book' = [book EXCEPT !.protocolFee = 0]
    <3>1. CASE GovernanceNext
      BY <3>1 DEF GovernanceNext, PayPoolFee, PayProtocolFee, PayFee, Pause, Unpause,
         UpdatePoolConfig, ResetShieldedTokenTransferIntegrity, RetireEmptyPool, RetireDustPool,
         RetireProtectorOnlyPool, OnlyStatusChanges
    <3>2. CASE EnvironmentNext
      BY <3>2 DEF EnvironmentNext, OracleUpdate, Tick, Donate, PoolUnchanged
    <3>3. CASE UNCHANGED vars
      BY <3>3 DEF vars
    <3>4. CASE \E amount \in ShieldedAmounts : DepositShieldedAsset(amount)
      BY <3>4 DEF DepositShieldedAsset
    <3> QED
      BY <1>8, <3>1, <3>2, <3>3, <3>4
  <2>2. book'.rps >= book.rps
    BY <1>0, <2>1 DEF Book
  <2> QED
    BY <2>1, <2>2, BookGrows
<1>9. CASE ShieldNext
  BY <1>1, <1>2, <1>8, <1>9 DEF ShieldNext
<1>10. CASE ProtectorNext
  BY <1>3, <1>4, <1>5, <1>6, <1>7, <1>10 DEF ProtectorNext
<1> QED
  BY <1>8, <1>9, <1>10 DEF Next

\* What is earned grows with the accumulator.
LEMMA EarnedGrows ==
  ASSUME NEW p \in ProtectorPosition, NEW q \in ProtectorPosition, NEW x \in Nat, NEW y \in Nat,
         x <= y, q.shares = p.shares, q.debt = p.debt, q.claimed = p.claimed
  PROVE  EarnedOf(q, y) >= EarnedOf(p, x)
<1> DEFINE n == p.shares
           d == p.debt + p.claimed
           u == MulDiv(x, n, RewardPrecision)
           v == MulDiv(y, n, RewardPrecision)
<1>1. n \in Nat /\ d \in Nat /\ RewardPrecision \in Nat \ {0}
  BY PositionFields, RewardAssumption
<1>2. EarnedOf(p, x) = Monus(u, d) /\ EarnedOf(q, y) = Monus(v, d)
  BY DEF EarnedOf
<1>3. u \in Nat /\ v \in Nat
  BY <1>1, MulDivType
<1>4. u <= v
  <2> DEFINE a == x * n
             b == y * n
             P == RewardPrecision
  <2>1. a \in Nat /\ b \in Nat /\ a <= b
    BY <1>1
  <2>2. u = a \div P /\ v = b \div P
    BY DEF MulDiv
  <2> HIDE DEF a, b, P, u, v
  <2>3. P * u <= a /\ b < P * v + P
    BY <1>1, <2>1, <2>2, QuotientBounds DEF P
  <2>4. P * u < P * (v + 1)
    BY <1>1, <1>3, <2>1, <2>3 DEF P
  <2>5. u < v + 1
    BY <1>1, <1>3, <2>4 DEF P
  <2> QED
    BY <1>3, <2>5
<1> HIDE DEF u, v, d
<1> QED
  BY <1>1, <1>2, <1>3, <1>4 DEF Monus

\* An earned commission stays claimable to the token until its owner claims or leaves.
THEOREM CommissionKept == Spec => EarnedCommissionKept
<1>1. (AccountingInv /\ BooksInv) /\ [Next]_vars =>
        [ClaimTerms' # ClaimTerms =>
           \A i \in protectorLive \cap protectorLive' :
             /\ protectorPos'[i].shares = protectorPos[i].shares
             /\ protectorPos'[i].claimed = protectorPos[i].claimed
             /\ protectorPos'[i].debt = protectorPos[i].debt
             => ClaimableCommission(i)' >= ClaimableCommission(i)]_vars
  <2> SUFFICES ASSUME AccountingInv, BooksInv, [Next]_vars,
                      NEW i \in protectorLive, i \in protectorLive',
                      protectorPos'[i].shares = protectorPos[i].shares,
                      protectorPos'[i].claimed = protectorPos[i].claimed,
                      protectorPos'[i].debt = protectorPos[i].debt
               PROVE  ClaimableCommission(i)' >= ClaimableCommission(i)
    OBVIOUS
  <2>1. AccumulatorsGrow
    BY StepGrows
  <2>2. ClaimsUncapped /\ ClaimsUncapped'
    BY NextInv, BooksNext, Uncapped, UncappedNext
  <2>3. PICK p \in ProtectorPosition : p = protectorPos[i]
    BY <2>2 DEF ClaimsUncapped
  <2>4. PICK q \in ProtectorPosition : q = protectorPos'[i]
    BY <2>2 DEF ClaimsUncapped
  <2>5. p.epoch \in Epochs /\ p.epoch <= protectorShareEpoch /\ q.epoch = p.epoch
    BY <2>1, <2>2, <2>3, <2>4, PositionFields DEF ClaimsUncapped, AccumulatorsGrow
  <2>6. PICK x \in Nat : x = EpochRps(p.epoch) /\ ClaimableCommission(i) = EarnedOf(p, x)
    BY <2>2, <2>3 DEF ClaimsUncapped
  <2>7. PICK y \in Nat : y = EpochRps(p.epoch)' /\ ClaimableCommission(i)' = EarnedOf(q, y)
    BY <2>2, <2>4, <2>5 DEF ClaimsUncapped
  <2>8. x <= y
    BY <2>1, <2>5, <2>6, <2>7 DEF AccumulatorsGrow
  <2>9. EarnedOf(q, y) >= EarnedOf(p, x)
    BY <2>3, <2>4, <2>8, EarnedGrows
  <2> QED
    BY <2>6, <2>7, <2>9
<1> QED
  BY <1>1, Books, PTL DEF Spec, EarnedCommissionKept

-----------------------------------------------------------------------------
(* Nobody's claim on the backing falls by what another protector does *)

\* The backing behind one share of epoch k does not fall.
RatioKept(k) ==
  \/ EpochTokens(k) = 0 \/ EpochShares(k) = 0
  \/ /\ EpochTokens(k)' # 0 \/ k = protectorShareEpoch'
     /\ EpochTokens(k)' * EpochShares(k) >= EpochTokens(k) * EpochShares(k)'

LEMMA AssetsGrow ==
  ASSUME NEW n \in Nat, NEW t \in Nat, NEW s \in Nat, NEW x \in Nat, NEW y \in Nat,
         t = 0 \/ s = 0 \/ (y # 0 /\ x * s >= t * y)
  PROVE  AssetsOf(n, x, y) >= AssetsOf(n, t, s)
<1>1. AssetsOf(n, x, y) \in Nat
  BY MulDivType DEF AssetsOf
<1>2. CASE n = 0 \/ t = 0 \/ s = 0
  BY <1>1, <1>2 DEF AssetsOf
<1>3. CASE ~(n = 0 \/ t = 0 \/ s = 0)
  <2>1. y # 0 /\ x * s >= t * y /\ t # 0 /\ s # 0 /\ n # 0
    BY <1>3
  <2>2. x # 0
    <3>1. t * y # 0 /\ t * y \in Nat
      BY <2>1, ProductType
    <3>2. x = 0 => x * s = 0
      OBVIOUS
    <3> QED
      BY <2>1, <3>1, <3>2
  <2> DEFINE a == n * t
             b == n * x
             q == MulDiv(n, t, s)
             r == MulDiv(n, x, y)
  <2>3. AssetsOf(n, t, s) = q /\ AssetsOf(n, x, y) = r
    BY <2>1, <2>2 DEF AssetsOf
  <2>4. a \in Nat /\ b \in Nat
    BY ProductType
  <2>5. q = a \div s /\ r = b \div y
    BY DEF MulDiv
  <2>6. a * y <= b * s
    <3>1. a * y = n * (t * y) /\ b * s = n * (x * s)
      OBVIOUS
    <3>2. t * y \in Nat /\ x * s \in Nat
      BY ProductType
    <3>3. n * (t * y) <= n * (x * s)
      <4>1. PICK u \in Nat : u = t * y
        BY <3>2
      <4>2. PICK v \in Nat : v = x * s
        BY <3>2
      <4>3. u <= v
        BY <2>1, <4>1, <4>2
      <4>4. n * u <= n * v
        BY <4>3
      <4> QED
        BY <4>1, <4>2, <4>4
    <3> QED
      BY <3>1, <3>3
  <2> HIDE DEF a, b, q, r
  <2>7. q \in Nat /\ r \in Nat /\ s * q <= a /\ b < y * r + y
    BY <2>1, <2>4, <2>5, QuotientBounds
  <2>8. s * q * y <= a * y
    <3>1. s * q \in Nat
      BY <2>7, ProductType
    <3>2. PICK u \in Nat : u = s * q
      BY <3>1
    <3>3. u * y <= a * y
      BY <2>4, <2>7, <3>2
    <3> QED
      BY <3>2, <3>3
  <2>9. b * s < (y * r + y) * s
    <3>1. PICK u \in Nat : u = y * r + y
      BY <2>7, ProductType
    <3>2. b * s < u * s
      BY <2>1, <2>4, <2>7, <3>1
    <3> QED
      BY <3>1, <3>2
  <2>10. (s * y) * q < (s * y) * (r + 1)
    <3>1. s * q * y = (s * y) * q /\ (y * r + y) * s = (s * y) * (r + 1)
      BY <2>7
    <3>2. /\ s * q * y \in Nat /\ a * y \in Nat /\ b * s \in Nat /\ (y * r + y) * s \in Nat
      BY <2>4, <2>7, ProductType
    <3> QED
      BY <2>6, <2>8, <2>9, <3>1, <3>2
  <2>11. q < r + 1
    <3>1. PICK u \in Nat : u = s * y
      BY ProductType
    <3> QED
      BY <2>7, <2>10, <3>1
  <2> QED
    BY <2>3, <2>7, <2>11
<1> QED
  BY <1>2, <1>3

\* One leaves with burned shares of S for amount tokens of T: the others' part stays.
LEMMA LeaverKeepsRatio ==
  ASSUME NEW T \in Nat, NEW S \in Nat, NEW amount \in Nat, NEW burned \in Nat,
         amount <= T, burned <= S, amount * S <= burned * T
  PROVE  (T - amount) * S >= T * (S - burned)
<1>1. (T - amount) * S = T * S - amount * S /\ T * (S - burned) = T * S - burned * T
  OBVIOUS
<1>2. T * S \in Nat /\ amount * S \in Nat /\ burned * T \in Nat
  BY ProductType
<1> QED
  BY <1>1, <1>2

\* One joins with minted shares for amount tokens, rounded down.
LEMMA JoinerKeepsRatio ==
  ASSUME NEW T \in Nat, NEW S \in Nat, NEW amount \in Nat, T # 0,
         NEW minted, minted = MulDiv(amount, S, T)
  PROVE  (T + amount) * S >= T * (S + minted)
<1> DEFINE x == amount * S
<1>1. x \in Nat
  BY ProductType
<1>2. minted = x \div T
  BY DEF MulDiv
<1> HIDE DEF x
<1>3. minted \in Nat /\ T * minted <= x
  BY <1>1, <1>2, QuotientBounds
<1>4. (T + amount) * S = T * S + x /\ T * (S + minted) = T * S + T * minted
  BY <1>3 DEF x
<1>5. T * S \in Nat /\ T * minted \in Nat
  BY <1>3, ProductType
<1> QED
  BY <1>1, <1>3, <1>4, <1>5

LEMMA RatioOfSame ==
  ASSUME AccountingInv, NEW k \in Epochs,
         EpochTokens(k)' = EpochTokens(k) \/ EpochTokens(k) = 0 \/ EpochShares(k) = 0,
         EpochShares(k)' = EpochShares(k)
  PROVE  RatioKept(k)
<1>1. EpochTokens(k) \in Nat /\ EpochShares(k) \in Nat
  BY BooksTyped DEF EpochTokens, EpochShares, EpochEntry
<1>2. CASE EpochTokens(k) = 0 \/ EpochShares(k) = 0
  BY <1>2 DEF RatioKept
<1>3. CASE ~(EpochTokens(k) = 0 \/ EpochShares(k) = 0)
  <2>1. PICK t \in Nat : t = EpochTokens(k) /\ t = EpochTokens(k)' /\ t # 0
    BY <1>1, <1>3
  <2>2. PICK s \in Nat : s = EpochShares(k) /\ s = EpochShares(k)'
    BY <1>1
  <2>3. t * s >= t * s
    BY ProductType
  <2> QED
    BY <2>1, <2>2, <2>3 DEF RatioKept
<1> QED
  BY <1>2, <1>3

\* Steps that leave the current epoch and the ended epochs' backing as they were
LEMMA QuietRatio ==
  ASSUME AccountingInv, protectorShareEpoch' = protectorShareEpoch,
         totalProtectorShares' = totalProtectorShares,
         totalProtectorTokens' = totalProtectorTokens \/ totalProtectorShares = 0,
         \A e \in Epochs : /\ epochBook'[e].backing = epochBook[e].backing
                           /\ epochBook'[e].backingShares = epochBook[e].backingShares,
         NEW k \in Epochs
  PROVE  RatioKept(k)
<1>1. EpochShares(k)' = EpochShares(k)
  BY DEF EpochShares
<1>2. EpochTokens(k)' = EpochTokens(k) \/ EpochTokens(k) = 0 \/ EpochShares(k) = 0
  BY DEF EpochShares, EpochTokens
<1> QED
  BY <1>1, <1>2, RatioOfSame

LEMMA ActivationRatio ==
  ASSUME AccountingInv, BooksInv, NEW id \in ShieldIds, ShieldedWithdrawCrossAsset(id),
         ~Activates, NEW k \in Epochs, k <= protectorShareEpoch
  PROVE  RatioKept(k)
<1> DEFINE pos == shieldPos[id]
           payout == ActivationPayout(id)
           tokens == totalProtectorTokens - payout
           expires == Expires(FALSE, tokens)
           e0 == protectorShareEpoch
<1>1. /\ totalValueAtDeposit' = totalValueAtDeposit - pos.valueAtDeposit
      /\ totalProtectorTokens' = totalProtectorTokens - payout
      /\ expires => /\ \E new : epochBook' = [epochBook EXCEPT ![e0] = new]
                    /\ e0' = e0 + 1
      /\ ~expires => UNCHANGED <<epochVars, totalProtectorShares>>
      /\ backingQuote.price # 0
  BY DEF ShieldedWithdrawCrossAsset, ActivationAllowed
<1>2. /\ totalValueAtDeposit \in Nat /\ pos.valueAtDeposit \in Nat
      /\ pos.collateralAmount \in Nat /\ totalProtectorTokens \in Nat
      /\ e0 \in Nat /\ e0 \in Epochs /\ k \in Nat
      /\ epochBook \in [Epochs -> EpochEntry]
  BY BooksTyped, ShieldTotalsTyped DEF AccountingInv, ShieldInv, ShieldPosition, Epochs
<1>3. payout \in Nat
  <2>1. backingQuote.price \in Nat \ {0} /\ BackingScale \in Nat
    BY <1>1, Environment, Constants DEF AccountingInv
  <2>2. BackingFromUsd(pos.valueAtDeposit) \in Nat
    BY <1>2, <2>1, MulDivType DEF BackingFromUsd
  <2> QED
    BY <1>2, <2>2 DEF ActivationPayout, Least
<1>4. payout = 0
  <2>1. CASE pos.valueAtDeposit = 0
    <3>1. backingQuote.price \in Nat \ {0} /\ BackingScale \in Nat
      BY <1>1, Environment, Constants DEF AccountingInv
    <3>2. 0 * BackingScale = 0 /\ 0 \div backingQuote.price = 0
      BY <3>1
    <3>3. BackingFromUsd(pos.valueAtDeposit) = 0
      BY <2>1, <3>2 DEF BackingFromUsd, MulDiv
    <3> QED
      BY <1>2, <3>3 DEF ActivationPayout, Least
  <2>2. CASE pos.valueAtDeposit # 0
    <3>1. totalValueAtDeposit' < totalValueAtDeposit
      BY <1>1, <1>2, <2>2
    <3>2. ~(totalProtectorTokens' < totalProtectorTokens)
      BY <3>1 DEF Activates
    <3> HIDE DEF payout
    <3> QED
      BY <1>1, <1>2, <1>3, <3>2
  <2> QED
    BY <2>1, <2>2
<1>5. totalProtectorTokens' = totalProtectorTokens /\ tokens = totalProtectorTokens
  BY <1>1, <1>2, <1>4
<1>6. CASE ~expires
  <2>1. epochBook' = epochBook /\ protectorShareEpoch' = protectorShareEpoch
        /\ totalProtectorShares' = totalProtectorShares
    BY <1>1, <1>6 DEF epochVars
  <2> QED
    BY <1>5, <2>1, QuietRatio
<1>7. CASE expires
  <2>1. totalProtectorTokens = 0
    BY <1>5, <1>7 DEF Expires
  <2>2. CASE k = e0
    <3>1. EpochTokens(k) = 0
      BY <1>2, <2>1, <2>2 DEF EpochTokens
    <3> QED
      BY <3>1 DEF RatioKept
  <2>3. CASE k < e0
    <3>1. epochBook'[k] = epochBook[k] /\ k < e0'
      BY <1>1, <1>2, <1>7, <2>3
    <3>2. EpochTokens(k)' = EpochTokens(k) /\ EpochShares(k)' = EpochShares(k)
      BY <2>3, <3>1 DEF EpochTokens, EpochShares
    <3> QED
      BY <3>2, RatioOfSame
  <2> QED
    BY <1>2, <2>2, <2>3
<1> QED
  BY <1>6, <1>7

LEMMA DepositRatio ==
  ASSUME AccountingInv, BooksInv, NEW received \in BackingAmounts,
         DepositBackingAsset(received), NEW k \in Epochs, k <= protectorShareEpoch
  PROVE  RatioKept(k)
<1> DEFINE expires == Expires(TRUE, totalProtectorTokens)
           e0 == protectorShareEpoch
           T == totalProtectorTokens
           S == totalProtectorShares
<1>1. /\ epochBook' = IF expires
                      THEN [epochBook EXCEPT ![e0] = ExpiredEpoch(book, T)]
                      ELSE epochBook
      /\ protectorShareEpoch' = IF expires THEN e0 + 1 ELSE e0
      /\ ~expires => /\ totalProtectorTokens' = T + received
                     /\ totalProtectorShares' = S + SharesFor(received, T, S)
  BY DEF DepositBackingAsset
<1>2. /\ T \in Nat /\ S \in Nat /\ e0 \in Nat /\ e0 \in Epochs /\ k \in Nat
      /\ received \in Nat /\ epochBook \in [Epochs -> EpochEntry]
  BY BooksTyped, Constants DEF Epochs
<1> HIDE DEF expires
<1>3. CASE k < e0
  <2>1. epochBook'[k] = epochBook[k] /\ k < protectorShareEpoch'
    BY <1>1, <1>2, <1>3
  <2>2. EpochTokens(k)' = EpochTokens(k) /\ EpochShares(k)' = EpochShares(k)
    BY <1>3, <2>1 DEF EpochTokens, EpochShares
  <2> QED
    BY <2>2, RatioOfSame
<1>4. CASE k = e0 /\ ~expires
  <2>0. /\ EpochTokens(k) = T /\ EpochShares(k) = S
    BY <1>2, <1>4 DEF EpochTokens, EpochShares
  <2>1. CASE T = 0 \/ S = 0
    BY <2>0, <2>1 DEF RatioKept
  <2>2. CASE ~(T = 0 \/ S = 0)
    <3> DEFINE m == MulDiv(received, S, T)
    <3>1. SharesFor(received, T, S) = m
      BY <2>2 DEF SharesFor, NoShareHolders
    <3>2. protectorShareEpoch' = e0
      BY <1>1, <1>4
    <3>3. EpochTokens(k)' = T + received /\ EpochShares(k)' = S + m
      <4> HIDE DEF m
      <4>1. totalProtectorTokens' = T + received /\ totalProtectorShares' = S + m
        BY <1>1, <1>4, <3>1
      <4> QED
        BY <1>2, <1>4, <3>2, <4>1 DEF EpochTokens, EpochShares
    <3> HIDE DEF m, T, S
    <3>4. (T + received) * S >= T * (S + m)
      BY <1>2, <2>2, JoinerKeepsRatio DEF m
    <3> QED
      BY <1>4, <2>0, <3>2, <3>3, <3>4 DEF RatioKept
  <2> QED
    BY <2>1, <2>2
<1>5. CASE k = e0 /\ expires
  <2>0. /\ EpochTokens(k) = T /\ EpochShares(k) = S
    BY <1>2, <1>5 DEF EpochTokens, EpochShares
  <2>1. CASE T = 0
    BY <2>0, <2>1 DEF RatioKept
  <2>2. CASE T # 0
    <3>1. epochBook[e0].backing = 0 /\ epochBook[e0] \in EpochEntry
      BY <1>2 DEF BooksInv
    <3>2. epochBook'[e0] = ExpiredEpoch(book, T)
      BY <1>1, <1>2, <1>5
    <3>3. epochBook'[e0].backing = T /\ epochBook'[e0].backingShares = S
      BY <1>2, <2>2, <3>1, <3>2 DEF ExpiredEpoch, EpochEntry
    <3>4. k < protectorShareEpoch'
      BY <1>1, <1>2, <1>5
    <3>5. EpochTokens(k)' = T /\ EpochShares(k)' = S
      BY <1>5, <3>3, <3>4 DEF EpochTokens, EpochShares
    <3> QED
      BY <2>0, <3>5, RatioOfSame
  <2> QED
    BY <2>1, <2>2
<1> QED
  BY <1>2, <1>3, <1>4, <1>5

\* What a withdrawal burns is worth at least what it takes.
LEMMA BurnCoversAmount ==
  ASSUME AccountingInv, NEW id \in ProtectorIds, NEW amount \in Nat,
         ProtectorExitAllowed(id, amount)
  PROVE  amount * totalProtectorShares <= SharesToBurn(id, amount) * totalProtectorTokens
<1> DEFINE T == totalProtectorTokens
           S == totalProtectorShares
           n == ActiveShares(id)
           a == ActiveAmount(id)
           c == MulDivCeil(amount, S, T)
<1>1. /\ T \in Nat /\ S \in Nat /\ n \in Nat /\ a \in Nat
      /\ a # 0 => n # 0 /\ T # 0
      /\ id \in protectorLive => n <= S
  BY BooksTyped, ActiveAmountTyped DEF AccountingInv
<1>2. /\ id \in protectorLive /\ n # 0
      /\ IF amount = 0 THEN a = 0 ELSE amount <= a
  BY WithdrawalBounds DEF ProtectorExitAllowed, DustExitAvailable, AccountingInv
<1>3. SharesToBurn(id, amount) = IF amount = a THEN n ELSE Least(c, n)
  BY DEF SharesToBurn
<1>4. a = IF T = 0 \/ S = 0 THEN 0 ELSE MulDiv(n, T, S)
  BY <1>2 DEF ActiveAmount, AssetsOf
<1> HIDE DEF T, S, n, a
<1>5. amount <= a
  BY <1>1, <1>2
<1>6. a * S <= n * T
  <2>1. n * T \in Nat
    BY <1>1, ProductType
  <2>2. CASE T = 0 \/ S = 0
    <3>1. a = 0 /\ 0 * S = 0
      BY <1>1, <1>4, <2>2
    <3> QED
      BY <2>1, <3>1
  <2>3. CASE ~(T = 0 \/ S = 0)
    <3>1. PICK x \in Nat : x = n * T
      BY <2>1
    <3>2. a = x \div S
      BY <1>4, <2>3, <3>1 DEF MulDiv
    <3>3. S * a <= x
      BY <1>1, <2>3, <3>2, QuotientBounds
    <3> QED
      BY <1>1, <3>1, <3>3
  <2> QED
    BY <2>2, <2>3
<1>7. amount * S <= n * T
  <2>1. amount * S <= a * S
    BY <1>1, <1>5
  <2>2. amount * S \in Nat /\ a * S \in Nat /\ n * T \in Nat
    BY <1>1, ProductType
  <2> QED
    BY <1>6, <2>1, <2>2
<1>8. CASE amount = a \/ ~(c < n)
  <2>1. SharesToBurn(id, amount) = n
    BY <1>3, <1>8 DEF Least
  <2> QED
    BY <1>7, <2>1 DEF S, T
<1>9. CASE amount # a /\ c < n
  <2>1. SharesToBurn(id, amount) = c
    BY <1>3, <1>9 DEF Least
  <2>2. T \in Nat \ {0}
    BY <1>1, <1>5, <1>9
  <2>3. c * T >= amount * S
    BY <1>1, <2>2, MulDivCeilCovers
  <2>4. c * T \in Nat /\ amount * S \in Nat
    BY <1>1, <2>2, MulDivType, ProductType
  <2> QED
    BY <2>1, <2>3, <2>4 DEF S, T
<1> QED
  BY <1>8, <1>9

LEMMA WithdrawalRatio ==
  ASSUME AccountingInv, NEW id \in ProtectorIds, NEW amount \in Nat,
         ProtectorWithdraw(id, amount), NEW k \in Epochs, k <= protectorShareEpoch
  PROVE  RatioKept(k)
<1> DEFINE T == totalProtectorTokens
           S == totalProtectorShares
           burned == SharesToBurn(id, amount)
<1>1. /\ ProtectorExitAllowed(id, amount) /\ UNCHANGED epochVars
      /\ totalProtectorTokens' = T - amount /\ totalProtectorShares' = S - burned
  BY DEF ProtectorWithdraw
<1>2. /\ T \in Nat /\ S \in Nat /\ k \in Nat /\ protectorShareEpoch \in Nat
  BY BooksTyped DEF Epochs
<1>3. burned \in Nat /\ burned <= S /\ amount <= T
  BY <1>1, <1>2, WithdrawalBounds DEF AccountingInv
<1>4. amount * S <= burned * T
  BY <1>1, BurnCoversAmount
<1>5. epochBook' = epochBook /\ protectorShareEpoch' = protectorShareEpoch
  BY <1>1 DEF epochVars
<1>6. CASE k < protectorShareEpoch
  <2>1. EpochTokens(k)' = EpochTokens(k) /\ EpochShares(k)' = EpochShares(k)
    BY <1>5, <1>6 DEF EpochTokens, EpochShares
  <2> QED
    BY <2>1, RatioOfSame
<1>7. CASE k = protectorShareEpoch
  <2>1. /\ EpochTokens(k) = T /\ EpochShares(k) = S
        /\ EpochTokens(k)' = T - amount /\ EpochShares(k)' = S - burned
    BY <1>1, <1>2, <1>5, <1>7 DEF EpochTokens, EpochShares
  <2> HIDE DEF T, S, burned
  <2>2. (T - amount) * S >= T * (S - burned)
    BY <1>2, <1>3, <1>4, LeaverKeepsRatio
  <2> QED
    BY <1>5, <1>7, <2>1, <2>2 DEF RatioKept
<1> QED
  BY <1>2, <1>6, <1>7

\* A claim on an ended epoch's backing leaves at least the others' part of it.
LEMMA ExpiredBackingRatio ==
  ASSUME AccountingInv, BooksInv, NEW id \in protectorLive, ClaimExpiredBacking(id),
         NEW i \in protectorLive \cap protectorLive', NEW k \in Epochs,
         k = protectorPos[i].epoch
  PROVE  RatioKept(k)
<1> DEFINE p == protectorPos
           e == p[id].epoch
           n == p[id].shares
           claim == ClaimOutcome(id)
           after == BackingEntryAfter(claim.entry, n)
           B == epochBook[e].backing
           m == epochBook[e].backingShares
           q == MulDiv(n, B, m)
<1>1. /\ epochBook' = [epochBook EXCEPT ![e] = after]
      /\ UNCHANGED <<protectorShareEpoch, protectorTotals>>
      /\ i # id /\ Expired(id) /\ B # 0 /\ m # 0
  BY DEF ClaimExpiredBacking
<1>2. /\ epochBook \in [Epochs -> EpochEntry] /\ e \in Epochs /\ n \in Nat
      /\ p \in [ProtectorIds -> ProtectorPosition] /\ protectorLive \subseteq ProtectorIds
      /\ B \in Nat /\ m \in Nat /\ protectorShareEpoch \in Nat /\ e \in Nat /\ k \in Nat
  BY BooksTyped, PositionFields DEF EpochEntry, Epochs
<1>3. /\ claim.entry \in EpochEntry
      /\ claim.entry.backing = B /\ claim.entry.backingShares = m
  BY <1>1, ClaimParts
<1>4. CASE k # e
  <2>1. epochBook'[k] = epochBook[k]
    BY <1>1, <1>2, <1>4
  <2>2. EpochTokens(k)' = EpochTokens(k) /\ EpochShares(k)' = EpochShares(k)
    BY <1>1, <2>1 DEF EpochTokens, EpochShares, protectorTotals
  <2> QED
    BY <2>2, RatioOfSame
<1>5. CASE k = e
  <2>1. n < m
    <3> DEFINE ids == MembersOf(protectorLive, p, e)
               w == [j \in ProtectorIds |-> IF j = id THEN 0 ELSE Shares(p)[j]]
    <3>1. EndedSound(protectorLive, p, e, epochBook[e])
      BY <1>1, <1>2 DEF BooksInv, Expired
    <3>2. m = SumAmong(ids, Shares(p))
      BY <1>1, <3>1 DEF EndedSound
    <3>3. /\ Shares(p) \in [ProtectorIds -> Nat] /\ w \in [ProtectorIds -> Nat]
          /\ Shares(p)[id] = n /\ id \in ids /\ i \in ids /\ w[id] = 0
          /\ w[i] = p[i].shares /\ w[i] # 0
      BY <1>1, <1>2, <1>5, PositionFields DEF Shares, MembersOf, BooksInv, OpenReceipts
    <3>4. \A j \in ProtectorIds \ {id} : w[j] = Shares(p)[j]
      OBVIOUS
    <3> HIDE DEF ids, w
    <3>5. SumAmong(ids, w) = m - n + 0
      BY <1>2, <3>2, <3>3, <3>4, AmongChange
    <3>6. SumAmong(ids, w) \in Nat /\ w[i] <= SumAmong(ids, w) /\ w[i] \in Nat
      BY <1>2, <3>3, AmongType
    <3> QED
      BY <1>2, <3>3, <3>5, <3>6
  <2>2. after = [claim.entry EXCEPT !.backing = @ - MulDiv(n, @, claim.entry.backingShares),
                                    !.backingShares = @ - n]
    BY <1>2, <1>3, <2>1 DEF BackingEntryAfter
  <2>3. after.backing = B - q /\ after.backingShares = m - n
    BY <1>3, <2>2 DEF EpochEntry
  <2>4. q \in Nat /\ q * m <= n * B /\ q < B
    <3> DEFINE x == n * B
    <3>1. x \in Nat /\ q = x \div m
      BY <1>2, ProductType DEF MulDiv
    <3> HIDE DEF x, q
    <3>2. q \in Nat /\ m * q <= x
      BY <1>1, <1>2, <3>1, QuotientBounds
    <3>3. x < m * B
      BY <1>1, <1>2, <2>1 DEF x
    <3>4. m * q < m * B
      BY <1>2, <3>1, <3>2, <3>3, ProductType
    <3>5. q < B
      BY <1>1, <1>2, <3>2, <3>4
    <3>6. q * m = m * q
      BY <1>2, <3>2
    <3> QED
      BY <3>2, <3>5, <3>6 DEF x
  <2>5. e < protectorShareEpoch /\ epochBook'[e] = after
    BY <1>1, <1>2 DEF Expired
  <2>6. /\ EpochTokens(k) = B /\ EpochShares(k) = m
        /\ EpochTokens(k)' = B - q /\ EpochShares(k)' = m - n
    <3> HIDE DEF after, q
    <3> QED
      BY <1>1, <1>5, <2>3, <2>5 DEF EpochTokens, EpochShares
  <2> HIDE DEF B, m, n, q
  <2>7. (B - q) * m >= B * (m - n)
    BY <1>2, <2>1, <2>4, LeaverKeepsRatio
  <2>8. B - q # 0
    BY <1>2, <2>4
  <2> QED
    BY <2>6, <2>7, <2>8 DEF RatioKept
<1> QED
  BY <1>4, <1>5

LEMMA StepKeepsRatio ==
  ASSUME AccountingInv, BooksInv, [Next]_vars, ~Activates,
         NEW i \in protectorLive \cap protectorLive', NEW k \in Epochs,
         k = protectorPos[i].epoch
  PROVE  RatioKept(k)
<1>0. k <= protectorShareEpoch /\ epochBook \in [Epochs -> EpochEntry]
  BY BooksTyped DEF AccountingInv, ReceiptInv
<1>1. ASSUME NEW id \in ShieldIds,
             \/ ShieldedWithdrawSameAsset(id) \/ ClaimRewards(id)
             \/ \E amount \in ShieldedAmounts : PartialWithdrawShielded(id, amount)
      PROVE  RatioKept(k)
  <2>1. UNCHANGED <<epochVars, protectorTotals>>
    <3>1. CASE ShieldedWithdrawSameAsset(id)
      BY <3>1 DEF ShieldedWithdrawSameAsset
    <3>2. CASE ClaimRewards(id)
      BY <3>2 DEF ClaimRewards
    <3>3. CASE \E amount \in ShieldedAmounts : PartialWithdrawShielded(id, amount)
      BY <3>3 DEF PartialWithdrawShielded
    <3> QED
      BY <1>1, <3>1, <3>2, <3>3
  <2> QED
    BY <2>1, QuietRatio DEF epochVars, protectorTotals
<1>2. ASSUME NEW id \in ShieldIds, ShieldedWithdrawCrossAsset(id) PROVE RatioKept(k)
  BY <1>0, <1>2, ActivationRatio
<1>3. ASSUME NEW amount \in BackingAmounts, DepositBackingAsset(amount) PROVE RatioKept(k)
  BY <1>0, <1>3, DepositRatio
<1>4. ASSUME NEW id \in ProtectorIds, StartUnlockProcess(id) \/ CancelUnlockProcess(id)
      PROVE  RatioKept(k)
  <2>1. UNCHANGED <<epochVars, protectorTotals>>
    BY <1>4 DEF StartUnlockProcess, CancelUnlockProcess
  <2> QED
    BY <2>1, QuietRatio DEF epochVars, protectorTotals
<1>5. ASSUME NEW id \in ProtectorIds,
             NEW amount \in BackingAmounts \cup {0, PositionAmount(id), AvailableForWithdrawal(id)},
             ProtectorWithdraw(id, amount)
      PROVE  RatioKept(k)
  <2>1. amount \in Nat
    BY <1>5, Constants, WithdrawalAmountTyped
  <2> QED
    BY <1>0, <1>5, <2>1, WithdrawalRatio
<1>6. ASSUME NEW id \in ProtectorIds,
             \/ ClaimCommission(id) \/ ForfeitCommission(id)
             \/ SettleExpiredProtectorPosition(id) \/ EscrowExpiredProtectorCommission(id)
      PROVE  RatioKept(k)
  <2>1. id \in protectorLive /\ ApplyClaim(id, ClaimOutcome(id))
    BY <1>6 DEF ClaimCommission, ForfeitCommission, SettleExpiredProtectorPosition,
                EscrowExpiredProtectorCommission
  <2>2. /\ epochBook' = [epochBook EXCEPT ![protectorPos[id].epoch] = ClaimOutcome(id).entry]
        /\ protectorShareEpoch' = protectorShareEpoch /\ UNCHANGED protectorTotals
    BY <2>1 DEF ApplyClaim
  <2>3. /\ ClaimOutcome(id).entry.backing = epochBook[protectorPos[id].epoch].backing
        /\ ClaimOutcome(id).entry.backingShares = epochBook[protectorPos[id].epoch].backingShares
    <3>1. CASE Expired(id)
      BY <2>1, <3>1, ClaimParts
    <3>2. CASE ~Expired(id)
      BY <2>1, <3>2, ClaimParts
    <3> QED
      BY <3>1, <3>2
  <2>4. \A e \in Epochs : /\ epochBook'[e].backing = epochBook[e].backing
                          /\ epochBook'[e].backingShares = epochBook[e].backingShares
    BY <1>0, <2>2, <2>3
  <2> QED
    BY <2>2, <2>4, QuietRatio DEF protectorTotals
<1>7. ASSUME NEW id \in ProtectorIds,
             ClaimExpiredProtectorBacking(id) \/ SettleExpiredProtectorBacking(id)
      PROVE  RatioKept(k)
  <2>1. id \in protectorLive /\ ClaimExpiredBacking(id)
    BY <1>7 DEF ClaimExpiredProtectorBacking, SettleExpiredProtectorBacking, ClaimExpiredBacking
  <2> QED
    BY <2>1, ExpiredBackingRatio
<1>8. CASE GovernanceNext \/ EnvironmentNext \/ UNCHANGED vars
             \/ \E amount \in ShieldedAmounts : DepositShieldedAsset(amount)
  <2>1. /\ UNCHANGED <<epochVars, totalProtectorShares>>
        /\ totalProtectorTokens' = totalProtectorTokens \/ totalProtectorShares = 0
    <3>1. CASE GovernanceNext
      BY <3>1 DEF GovernanceNext, PayPoolFee, PayProtocolFee, PayFee, Pause, Unpause,
         UpdatePoolConfig, ResetShieldedTokenTransferIntegrity, RetireEmptyPool, RetireDustPool,
         RetireProtectorOnlyPool, OnlyStatusChanges, protectorTotals
    <3>2. CASE EnvironmentNext
      BY <3>2 DEF EnvironmentNext, OracleUpdate, Tick, Donate, PoolUnchanged, protectorTotals
    <3>3. CASE UNCHANGED vars
      BY <3>3 DEF vars, protectorTotals
    <3>4. CASE \E amount \in ShieldedAmounts : DepositShieldedAsset(amount)
      BY <3>4 DEF DepositShieldedAsset, protectorTotals
    <3> QED
      BY <1>8, <3>1, <3>2, <3>3, <3>4
  <2> QED
    BY <2>1, QuietRatio DEF epochVars
<1>9. CASE ShieldNext
  BY <1>1, <1>2, <1>8, <1>9 DEF ShieldNext
<1>10. CASE ProtectorNext
  BY <1>3, <1>4, <1>5, <1>6, <1>7, <1>10 DEF ProtectorNext
<1> QED
  BY <1>8, <1>9, <1>10 DEF Next

\* A protector's backing claim falls by the owner's own withdrawal or by an activation.
LEMMA BackingStep ==
  ASSUME AccountingInv, BooksInv, [Next]_vars, ~Activates,
         NEW i \in protectorLive \cap protectorLive',
         protectorPos'[i].shares = protectorPos[i].shares
  PROVE  PositionAmount(i)' >= PositionAmount(i)
<1>1. ClaimsUncapped /\ ClaimsUncapped' /\ AccumulatorsGrow
  BY NextInv, BooksNext, Uncapped, UncappedNext, StepGrows
<1>2. PICK k \in Epochs : k = protectorPos[i].epoch /\ k = protectorPos'[i].epoch
  BY <1>1, PositionFields DEF ClaimsUncapped, AccumulatorsGrow
<1>3. PICK n \in Nat : n = protectorPos[i].shares /\ n = protectorPos'[i].shares /\ n # 0
  BY <1>1, PositionFields DEF ClaimsUncapped
<1>4. PICK t \in Nat : t = EpochTokens(k)
  BY <1>1, <1>2 DEF ClaimsUncapped
<1>5. PICK s \in Nat : s = EpochShares(k)
  BY <1>1, <1>2 DEF ClaimsUncapped
<1>6. PICK x \in Nat : x = EpochTokens(k)'
  BY <1>1, <1>2 DEF ClaimsUncapped
<1>7. PICK y \in Nat : y = EpochShares(k)'
  BY <1>1, <1>2 DEF ClaimsUncapped
<1>8. PositionAmount(i) = AssetsOf(n, t, s)
  BY <1>1, <1>2, <1>3, <1>4, <1>5 DEF ClaimsUncapped
<1>9. /\ PositionAmount(i)' = AssetsOf(n, x, y)
      /\ x # 0 \/ k = protectorShareEpoch' => n <= y
  BY <1>1, <1>2, <1>3, <1>6, <1>7 DEF ClaimsUncapped
<1>10. t = 0 \/ s = 0 \/ ((x # 0 \/ k = protectorShareEpoch') /\ x * s >= t * y)
  BY <1>2, <1>4, <1>5, <1>6, <1>7, StepKeepsRatio DEF RatioKept
<1>11. t = 0 \/ s = 0 \/ (y # 0 /\ x * s >= t * y)
  BY <1>3, <1>9, <1>10
<1> QED
  BY <1>8, <1>9, <1>11, AssetsGrow

\* No other protector's deposit, exit or epoch lowers what a receipt's shares are worth:
\* the ratio of tokens to shares of its epoch falls in an activation only.
THEOREM BackingKept == Spec => BackingClaimsKept
<1>1. (AccountingInv /\ BooksInv) /\ [Next]_vars =>
        [ClaimTerms' # ClaimTerms =>
           \A i \in protectorLive \cap protectorLive' :
             protectorPos'[i].shares = protectorPos[i].shares /\ ~Activates
             => PositionAmount(i)' >= PositionAmount(i)]_vars
  BY BackingStep
<1> QED
  BY <1>1, Books, PTL DEF Spec, BackingClaimsKept

\* What a protector's receipt can claim, backing and commission, is taken away by nobody
\* else.
THEOREM ClaimsAreKept == Spec => ClaimsKept
BY CommissionKept, BackingKept, PTL DEF ClaimsKept

-----------------------------------------------------------------------------
(* Backing always has share holders *)

\* A receipt that leaves whole leaves no more tokens than shares, as there were before.
LEMMA FullBurnCovers ==
  ASSUME NEW n \in Nat, NEW T \in Nat, NEW S \in Nat \ {0}, n <= S, T <= S
  PROVE  T - MulDiv(n, T, S) <= S - n
<1> DEFINE x == n * T
<1>1. x \in Nat
  BY ProductType
<1>2. PICK q \in Nat : q = MulDiv(n, T, S) /\ x < S * q + S
  BY <1>1, QuotientBounds DEF MulDiv
<1>3. T * (S - n) = T * S - x
  OBVIOUS
<1>4. T * (S - n) <= S * (S - n)
  OBVIOUS
<1>5. S * (T - q) = T * S - S * q
  BY <1>2
<1> HIDE DEF x
<1>6. /\ T * S \in Nat /\ S * q \in Nat /\ T * (S - n) \in Nat /\ S * (S - n) \in Nat
  BY <1>2, ProductType
<1>7. S * (T - q) < S * (S - n) + S
  BY <1>1, <1>2, <1>3, <1>4, <1>5, <1>6
<1>8. S * (S - n) + S = S * (S - n + 1)
  OBVIOUS
<1>9. T - q < S - n + 1
  BY <1>2, <1>7, <1>8
<1> QED
  BY <1>2, <1>9

\* So does a withdrawal of a part, whose burn is rounded up.
LEMMA PartBurnCovers ==
  ASSUME NEW amount \in Nat, NEW T \in Nat \ {0}, NEW S \in Nat, amount <= T, T <= S
  PROVE  T - amount <= S - MulDivCeil(amount, S, T)
<1> DEFINE x == amount * S
<1>1. x \in Nat /\ x + T - 1 \in Nat
  BY ProductType
<1>2. PICK c \in Nat : c = MulDivCeil(amount, S, T) /\ T * c <= x + T - 1
  BY <1>1, QuotientBounds DEF MulDivCeil
<1>3. S * (T - amount) = T * S - x
  OBVIOUS
<1>4. T * (T - amount) <= S * (T - amount)
  OBVIOUS
<1>5. T * (S - c) = T * S - T * c
  BY <1>2
<1> HIDE DEF x
<1>6. T * S \in Nat /\ T * c \in Nat /\ S * (T - amount) \in Nat /\ T * (T - amount) \in Nat
  BY <1>2, ProductType
<1>7. T * (T - amount) < T * (S - c) + T
  BY <1>1, <1>2, <1>3, <1>4, <1>5, <1>6
<1>8. T * (S - c) + T = T * (S - c + 1)
  BY <1>2
<1>9. T - amount < S - c + 1
  BY <1>2, <1>7, <1>8
<1> QED
  BY <1>2, <1>9

\* What is left of the shares once a withdrawal has burned its own: none without backing,
\* and as many as tokens if there were as many before.
LEMMA BurnLeavesHolders ==
  ASSUME AccountingInv, NEW id \in ProtectorIds, NEW amount \in Nat,
         ProtectorExitAllowed(id, amount),
         totalProtectorTokens = 0 => totalProtectorShares = 0
  PROVE  /\ totalProtectorTokens = amount => totalProtectorShares = SharesToBurn(id, amount)
         /\ totalProtectorTokens <= totalProtectorShares
            => totalProtectorTokens - amount <= totalProtectorShares - SharesToBurn(id, amount)
<1> DEFINE T == totalProtectorTokens
           S == totalProtectorShares
           n == ActiveShares(id)
           a == ActiveAmount(id)
           c == MulDivCeil(amount, S, T)
           burned == SharesToBurn(id, amount)
<1>1. /\ T \in Nat /\ S \in Nat /\ n \in Nat /\ a \in Nat
      /\ a # 0 => n # 0 /\ T # 0
      /\ id \in protectorLive => n <= S /\ a <= T
  BY BooksTyped, ActiveAmountTyped DEF AccountingInv
<1>2. /\ id \in protectorLive /\ n # 0 /\ n <= S
      /\ IF amount = 0 THEN a = 0 ELSE amount <= a
      /\ burned \in Nat /\ burned <= n
  BY <1>1, WithdrawalBounds DEF ProtectorExitAllowed, DustExitAvailable, AccountingInv
<1>3. burned = IF amount = a THEN n ELSE Least(c, n)
  BY DEF SharesToBurn
<1>4. a = IF T = 0 \/ S = 0 THEN 0 ELSE MulDiv(n, T, S)
  BY <1>2 DEF ActiveAmount, AssetsOf
<1>5. T = 0 => S = 0
  OBVIOUS
<1> HIDE DEF T, S, n, a, burned
<1>6. S # 0 /\ T # 0 /\ a = MulDiv(n, T, S) /\ amount <= a /\ a <= T
  BY <1>1, <1>2, <1>4, <1>5
<1>7. T = amount => S = burned
  <2> SUFFICES ASSUME T = amount PROVE S = burned
    OBVIOUS
  <2>1. amount = a
    BY <1>1, <1>6
  <2>2. n = S
    <3>1. PICK x \in Nat : x = n * T
      BY <1>1, ProductType
    <3>2. S * a <= x
      BY <1>1, <1>6, <3>1, QuotientBounds DEF MulDiv
    <3>3. S * T <= n * T
      BY <2>1, <3>1, <3>2
    <3> QED
      BY <1>1, <1>2, <1>6, <3>3
  <2> QED
    BY <1>3, <2>1, <2>2
<1>8. T <= S => T - amount <= S - burned
  <2> SUFFICES ASSUME T <= S PROVE T - amount <= S - burned
    OBVIOUS
  <2>1. CASE amount = a
    <3>1. T - a <= S - n
      BY <1>1, <1>2, <1>6, FullBurnCovers
    <3> QED
      BY <1>3, <2>1, <3>1
  <2>2. CASE amount # a
    <3>1. c \in Nat /\ T - amount <= S - c
      BY <1>1, <1>6, MulDivType, PartBurnCovers
    <3>2. burned <= c
      BY <1>1, <1>3, <2>2, <3>1 DEF Least
    <3> QED
      BY <1>1, <1>2, <3>1, <3>2
  <2> QED
    BY <2>1, <2>2
<1> QED
  BY <1>7, <1>8 DEF T, S, burned

\* With share units as fine as token units a deposit mints a share for every token.
LEMMA MintedCover ==
  ASSUME NEW amount \in Nat, NEW T \in Nat, NEW S \in Nat, T <= S,
         ShareMultiplier >= ShareDivisor
  PROVE  SharesFor(amount, T, S) >= amount
<1>1. CASE NoShareHolders(S, T)
  <2> DEFINE x == amount * ShareMultiplier
  <2>1. x \in Nat /\ x >= ShareDivisor * amount
    BY Constants
  <2>2. SharesFor(amount, T, S) = x \div ShareDivisor
    BY <1>1 DEF SharesFor, ToShares
  <2> HIDE DEF x
  <2>3. PICK q \in Nat : q = x \div ShareDivisor /\ x < ShareDivisor * q + ShareDivisor
    BY <2>1, Constants, QuotientBounds
  <2>4. ShareDivisor * amount < ShareDivisor * (q + 1)
    BY <2>1, <2>3, Constants
  <2>5. amount < q + 1
    BY <2>3, <2>4, Constants
  <2> QED
    BY <2>2, <2>3, <2>5
<1>2. CASE ~NoShareHolders(S, T)
  <2> DEFINE x == amount * S
  <2>1. T \in Nat \ {0}
    BY <1>2 DEF NoShareHolders
  <2>2. x \in Nat /\ x >= T * amount
    OBVIOUS
  <2>3. SharesFor(amount, T, S) = x \div T
    BY <1>2 DEF SharesFor, MulDiv
  <2> HIDE DEF x
  <2>4. PICK q \in Nat : q = x \div T /\ x < T * q + T
    BY <2>1, <2>2, QuotientBounds
  <2>5. T * amount < T * (q + 1)
    BY <2>1, <2>2, <2>4
  <2>6. amount < q + 1
    BY <2>1, <2>4, <2>5
  <2> QED
    BY <2>3, <2>4, <2>6
<1> QED
  BY <1>1, <1>2

\* Shares without any backing are worth nothing: their epoch has ended.
NoBareShares == totalProtectorTokens = 0 => totalProtectorShares = 0

\* The second half of it holds for token units finer than share units too.
HoldersKept ==
  /\ NoBareShares'
  /\ ShareMultiplier >= ShareDivisor /\ totalProtectorTokens <= totalProtectorShares
     => totalProtectorTokens' <= totalProtectorShares'

LEMMA TotalsTyped ==
  AccountingInv => totalProtectorTokens \in Nat /\ totalProtectorShares \in Nat
BY BooksTyped

LEMMA TotalsTypedNext ==
  AccountingInv' => (totalProtectorTokens \in Nat /\ totalProtectorShares \in Nat)'
BY TotalsTyped, PTL

LEMMA HoldersOfSame ==
  ASSUME NoBareShares, totalProtectorShares' = totalProtectorShares,
         \/ totalProtectorTokens' = totalProtectorTokens
         \/ totalProtectorTokens' = 0 /\ totalProtectorShares = 0
  PROVE  HoldersKept
BY DEF NoBareShares, HoldersKept

LEMMA DepositHolders ==
  ASSUME AccountingInv, NoBareShares, NEW received \in BackingAmounts,
         DepositBackingAsset(received)
  PROVE  HoldersKept
<1> DEFINE expires == Expires(TRUE, totalProtectorTokens)
           T == IF expires THEN 0 ELSE totalProtectorTokens
           S == IF expires THEN 0 ELSE totalProtectorShares
<1>1. /\ totalProtectorTokens' = T + received
      /\ totalProtectorShares' = S + SharesFor(received, T, S)
  BY DEF DepositBackingAsset
<1>2. T \in Nat /\ S \in Nat /\ received \in Nat \ {0}
  BY BooksTyped, Constants
<1>3. totalProtectorTokens <= totalProtectorShares => T <= S
  <2>1. CASE expires
    BY <2>1
  <2>2. CASE ~expires
    BY <2>2
  <2> QED
    BY <2>1, <2>2
<1> HIDE DEF T, S
<1>4. T <= S /\ ShareMultiplier >= ShareDivisor => SharesFor(received, T, S) >= received
  BY <1>2, MintedCover
<1>5. SharesFor(received, T, S) \in Nat
  BY <1>2, SharesForTyped
<1> QED
  BY <1>1, <1>2, <1>3, <1>4, <1>5 DEF HoldersKept, NoBareShares

LEMMA ActivationHolders ==
  ASSUME AccountingInv, NoBareShares, NEW id \in ShieldIds, ShieldedWithdrawCrossAsset(id)
  PROVE  HoldersKept
<1> DEFINE payout == ActivationPayout(id)
           tokens == totalProtectorTokens - payout
           expires == Expires(FALSE, tokens)
<1>1. /\ totalProtectorTokens' = tokens
      /\ totalProtectorShares' = IF expires THEN 0 ELSE totalProtectorShares
      /\ ActivationAllowed(id)
  BY DEF ShieldedWithdrawCrossAsset
<1>2. totalProtectorTokens \in Nat /\ totalProtectorShares \in Nat
  BY BooksTyped
<1>3. totalProtectorTokens' \in Nat
  BY NextInv, BooksTyped DEF AccountingInv, BackingInv, Next, ShieldNext
<1>4. payout \in Nat
  <2>1. /\ ShieldInv /\ StatusInv /\ backingQuote.price # 0
    BY <1>1 DEF AccountingInv, ActivationAllowed
  <2>2. /\ shieldPos[id].valueAtDeposit \in Nat /\ shieldPos[id].collateralAmount \in Nat
    BY <2>1 DEF ShieldInv, ShieldPosition
  <2>3. BackingFromUsd(shieldPos[id].valueAtDeposit) \in Nat
    BY <2>1, <2>2, Constants, Environment, MulDivType DEF BackingFromUsd
  <2> QED
    BY <2>2, <2>3 DEF ActivationPayout, Least
<1>5. expires <=> totalProtectorShares # 0 /\ tokens = 0
  BY DEF Expires
<1> HIDE DEF payout, expires
<1> QED
  BY <1>1, <1>2, <1>3, <1>4, <1>5 DEF HoldersKept, NoBareShares

LEMMA WithdrawalHolders ==
  ASSUME AccountingInv, NoBareShares, NEW id \in ProtectorIds, NEW amount \in Nat,
         ProtectorWithdraw(id, amount)
  PROVE  HoldersKept
<1> DEFINE burned == SharesToBurn(id, amount)
<1>1. /\ ProtectorExitAllowed(id, amount)
      /\ totalProtectorTokens' = totalProtectorTokens - amount
      /\ totalProtectorShares' = totalProtectorShares - burned
  BY DEF ProtectorWithdraw
<1>2. totalProtectorTokens \in Nat /\ totalProtectorShares \in Nat
  BY BooksTyped
<1>3. burned \in Nat
  BY <1>1, WithdrawalBounds DEF AccountingInv
<1>4. /\ totalProtectorTokens = amount => totalProtectorShares = burned
      /\ totalProtectorTokens <= totalProtectorShares
         => totalProtectorTokens - amount <= totalProtectorShares - burned
  BY <1>1, BurnLeavesHolders DEF NoBareShares
<1> HIDE DEF burned
<1> QED
  BY <1>1, <1>2, <1>3, <1>4 DEF HoldersKept, NoBareShares

LEMMA HoldersNext ==
  ASSUME AccountingInv, NoBareShares, [Next]_vars
  PROVE  HoldersKept
<1>1. ASSUME NEW id \in ShieldIds,
             \/ ShieldedWithdrawSameAsset(id) \/ ClaimRewards(id)
             \/ \E amount \in ShieldedAmounts : PartialWithdrawShielded(id, amount)
      PROVE  HoldersKept
  BY <1>1, HoldersOfSame
     DEF ShieldedWithdrawSameAsset, ClaimRewards, PartialWithdrawShielded, protectorTotals
<1>2. ASSUME NEW amount \in ShieldedAmounts, DepositShieldedAsset(amount)
      PROVE  HoldersKept
  BY <1>2, HoldersOfSame DEF DepositShieldedAsset, protectorTotals
<1>3. CASE ShieldNext
  BY <1>1, <1>2, <1>3, ActivationHolders DEF ShieldNext
<1>4. ASSUME NEW id \in ProtectorIds,
             \/ StartUnlockProcess(id) \/ CancelUnlockProcess(id)
             \/ ClaimCommission(id) \/ ForfeitCommission(id)
             \/ SettleExpiredProtectorPosition(id) \/ EscrowExpiredProtectorCommission(id)
             \/ ClaimExpiredProtectorBacking(id) \/ SettleExpiredProtectorBacking(id)
      PROVE  HoldersKept
  <2>1. UNCHANGED protectorTotals
    BY <1>4 DEF StartUnlockProcess, CancelUnlockProcess, ClaimCommission, ForfeitCommission,
       SettleExpiredProtectorPosition, EscrowExpiredProtectorCommission, ApplyClaim,
       ClaimExpiredProtectorBacking, SettleExpiredProtectorBacking, ClaimExpiredBacking
  <2> QED
    BY <2>1, HoldersOfSame DEF protectorTotals
<1>5. ASSUME NEW id \in ProtectorIds,
             NEW amount \in BackingAmounts \cup {0, PositionAmount(id), AvailableForWithdrawal(id)},
             ProtectorWithdraw(id, amount)
      PROVE  HoldersKept
  <2>1. amount \in Nat
    BY <1>5, Constants, WithdrawalAmountTyped
  <2> QED
    BY <1>5, <2>1, WithdrawalHolders
<1>6. CASE ProtectorNext
  BY <1>4, <1>5, <1>6, DepositHolders DEF ProtectorNext
<1>7. CASE RetireEmptyPool \/ RetireDustPool \/ RetireProtectorOnlyPool
  BY <1>7, HoldersOfSame DEF RetireEmptyPool, RetireDustPool, RetireProtectorOnlyPool,
     protectorTotals
<1>8. CASE GovernanceNext /\ ~(RetireEmptyPool \/ RetireDustPool \/ RetireProtectorOnlyPool)
  <2>1. UNCHANGED protectorTotals
    BY <1>8 DEF GovernanceNext, PayPoolFee, PayProtocolFee, PayFee, Pause, Unpause,
       UpdatePoolConfig, ResetShieldedTokenTransferIntegrity, OnlyStatusChanges
  <2> QED
    BY <2>1, HoldersOfSame DEF protectorTotals
<1>9. CASE EnvironmentNext \/ UNCHANGED vars
  <2>1. UNCHANGED protectorTotals
    BY <1>9 DEF EnvironmentNext, OracleUpdate, Tick, Donate, PoolUnchanged, vars
  <2> QED
    BY <2>1, HoldersOfSame DEF protectorTotals
<1> QED
  BY <1>3, <1>6, <1>7, <1>8, <1>9 DEF Next

LEMMA NoBareSharesInv == Spec => []NoBareShares
<1>1. Init => NoBareShares
  BY DEF Init, NoBareShares
<1>2. AccountingInv /\ NoBareShares /\ [Next]_vars => NoBareShares'
  BY HoldersNext DEF HoldersKept
<1> QED
  BY <1>1, <1>2, Accounting, PTL DEF Spec

\* With share units at least as fine as token units (a backing token of at most 18
\* decimals, SplitRiskPool.sol:440-449) there are at least as many shares as tokens, so
\* deactivateDustPool has nothing to sweep.
THEOREM BackingHasHolders ==
  ASSUME ShareMultiplier >= ShareDivisor
  PROVE  Spec => []SharesCoverTokens
<1>1. Init => SharesCoverTokens
  BY DEF Init, SharesCoverTokens
<1>2. AccountingInv /\ SharesCoverTokens /\ [Next]_vars => SharesCoverTokens'
  <2> SUFFICES ASSUME AccountingInv, SharesCoverTokens, [Next]_vars
               PROVE  SharesCoverTokens'
    OBVIOUS
  <2>1. NoBareShares /\ totalProtectorTokens <= totalProtectorShares
    BY BooksTyped DEF SharesCoverTokens, NoBareShares
  <2>2. NoBareShares' /\ totalProtectorTokens' <= totalProtectorShares'
    BY <2>1, HoldersNext DEF HoldersKept
  <2>3. totalProtectorTokens' \in Nat /\ totalProtectorShares' \in Nat
    BY NextInv, TotalsTypedNext
  <2> QED
    BY <2>2, <2>3 DEF SharesCoverTokens, NoBareShares
<1> QED
  BY <1>1, <1>2, Accounting, PTL DEF Spec

-----------------------------------------------------------------------------
(* No shielded token without an owner *)

\* What the pool tracks fits one bucket, so that a redirection never finds it full.
BalanceFits == shieldedTokenBalance <= MaxSafeAccumulation

\* A step that follows every token: none leaves the receipts and the buckets unpaid.
TokensFollowed ==
  /\ shieldedTokenBalance' <= shieldedTokenBalance
  /\ BalanceFits /\ NothingStranded => NothingStranded'

LEMMA CashTyped ==
  ASSUME AccountingInv
  PROVE  /\ shieldedTokenBalance \in Nat /\ totalShieldedTokens \in Nat
         /\ book \in Book /\ ReservedFees(book) \in Nat
         /\ shieldedTokenBalance >= totalShieldedTokens + ReservedFees(book)
         /\ BalanceFits => ReservedFees(book) <= MaxSafeAccumulation
<1>1. shieldedTokenBalance \in Nat /\ totalShieldedTokens \in Nat /\ book \in Book
  BY ShieldTotalsTyped DEF AccountingInv, CustodyInv, LedgerInv
<1>2. ReservedFees(book) \in Nat
  BY <1>1, BookFields
<1>3. shieldedTokenBalance >= totalShieldedTokens + ReservedFees(book)
  BY DEF AccountingInv, CustodyInv, ShieldedCovered
<1> QED
  BY <1>1, <1>2, <1>3, RewardAssumption DEF BalanceFits

LEMMA FollowedIfBalanced ==
  ASSUME AccountingInv, NEW out \in Nat, shieldedTokenBalance' = shieldedTokenBalance - out,
         NEW taken \in Nat, totalShieldedTokens' = totalShieldedTokens - taken,
         NEW b \in Book, book' = b,
         BalanceFits => ReservedFees(b) = ReservedFees(book) + taken - out
  PROVE  TokensFollowed
<1>1. /\ shieldedTokenBalance \in Nat /\ totalShieldedTokens \in Nat
      /\ ReservedFees(book) \in Nat /\ ReservedFees(b) \in Nat
  BY CashTyped, BookFields
<1>2. ReservedFees(book)' = ReservedFees(b)
  BY DEF ReservedFees
<1>3. shieldedTokenBalance' <= shieldedTokenBalance
  BY <1>1
<1>4. ASSUME BalanceFits, NothingStranded
      PROVE  NothingStranded'
  <2>1. /\ shieldedTokenBalance = totalShieldedTokens + ReservedFees(book)
        /\ ReservedFees(b) = ReservedFees(book) + taken - out
    BY <1>4 DEF NothingStranded
  <2>2. shieldedTokenBalance' = totalShieldedTokens' + ReservedFees(b)
    BY <1>1, <2>1
  <2> QED
    BY <1>2, <2>2 DEF NothingStranded
<1> QED
  BY <1>3, <1>4 DEF TokensFollowed

LEMMA QuietFollowed ==
  ASSUME AccountingInv, UNCHANGED <<shieldedTokenBalance, totalShieldedTokens, book>>
  PROVE  TokensFollowed
<1>1. /\ shieldedTokenBalance \in Nat /\ totalShieldedTokens \in Nat
      /\ ReservedFees(book) \in Nat
  BY CashTyped
<1>2. ReservedFees(book)' = ReservedFees(book)
  BY DEF ReservedFees
<1> QED
  BY <1>1, <1>2 DEF TokensFollowed, NothingStranded

\* Fees leave the receipt for the buckets to the token; what is paid out leaves both.
LEMMA ShieldStepsFollowed ==
  ASSUME AccountingInv, NEW id \in ShieldIds,
         \/ ShieldedWithdrawSameAsset(id) \/ ClaimRewards(id)
         \/ \E amount \in ShieldedAmounts : PartialWithdrawShielded(id, amount)
  PROVE  TokensFollowed
<1> DEFINE pos == shieldPos[id]
           settled == SettleFees(id, SettlementPrice)
<1>1. /\ ShieldInv /\ ReceiptInv /\ LedgerInv /\ StatusInv
      /\ totalProtectorTokens \in Nat
  BY DEF AccountingInv, BackingInv
<1>2. CanSettleFees(id, SettlementPrice)
  BY DEF ShieldedWithdrawSameAsset, SameAssetExitAllowed, ClaimRewards, PartialWithdrawShielded
<1>3. /\ settled.fees \in Nat /\ settled.fees <= pos.amount /\ settled.book \in Book
      /\ ReservedFees(settled.book) = ReservedFees(book) + settled.fees
      /\ pos.amount \in Nat
  BY <1>1, <1>2, Environment, SettleFeesEffect, ShieldTotalsTyped
<1>4. ReservedFees(book) \in Nat
  BY CashTyped
<1>5. CASE ShieldedWithdrawSameAsset(id)
  <2>1. /\ shieldedTokenBalance' = shieldedTokenBalance - (pos.amount - settled.fees)
        /\ totalShieldedTokens' = totalShieldedTokens - pos.amount
        /\ book' = settled.book
    BY <1>5 DEF ShieldedWithdrawSameAsset
  <2> HIDE DEF settled, pos
  <2>2. PICK out \in Nat : out = pos.amount - settled.fees
    BY <1>3
  <2>3. ReservedFees(settled.book) = ReservedFees(book) + pos.amount - out
    BY <1>3, <1>4, <2>2
  <2> QED
    BY <1>3, <2>1, <2>2, <2>3, FollowedIfBalanced
<1>6. CASE ClaimRewards(id)
  <2>1. /\ shieldedTokenBalance' = shieldedTokenBalance - 0
        /\ totalShieldedTokens' = totalShieldedTokens - settled.fees
        /\ book' = settled.book
    BY <1>6, CashTyped DEF ClaimRewards, shieldedCash
  <2> HIDE DEF settled, pos
  <2>2. ReservedFees(settled.book) = ReservedFees(book) + settled.fees - 0
    BY <1>3, <1>4
  <2> QED
    BY <1>3, <2>1, <2>2, FollowedIfBalanced
<1>7. ASSUME NEW amount \in ShieldedAmounts, PartialWithdrawShielded(id, amount)
      PROVE  TokensFollowed
  <2>1. /\ shieldedTokenBalance' = shieldedTokenBalance - amount
        /\ totalShieldedTokens' = totalShieldedTokens - (amount + settled.fees)
        /\ book' = settled.book
    BY <1>7 DEF PartialWithdrawShielded
  <2> HIDE DEF settled, pos
  <2>2. amount \in Nat
    BY Constants
  <2>3. PICK taken \in Nat : taken = amount + settled.fees
    BY <1>3, <2>2
  <2>4. ReservedFees(settled.book) = ReservedFees(book) + taken - amount
    BY <1>3, <1>4, <2>2, <2>3
  <2> QED
    BY <1>3, <2>1, <2>2, <2>3, <2>4, FollowedIfBalanced
<1> QED
  BY <1>5, <1>6, <1>7

\* An activation turns the whole position into fees and rewards.
LEMMA ActivationFollowed ==
  ASSUME AccountingInv, NEW id \in ShieldIds, ShieldedWithdrawCrossAsset(id)
  PROVE  TokensFollowed
<1> DEFINE pos == shieldPos[id]
           settled == SettleFees(id, shieldedQuote.fee)
           forfeited == pos.amount - settled.fees
           shares == totalProtectorShares
           tokens == totalProtectorTokens
           rewarded == AccumulateReward(settled.book, shares, tokens, forfeited)
<1>1. /\ ShieldInv /\ ReceiptInv /\ LedgerInv /\ StatusInv /\ tokens \in Nat /\ shares \in Nat
  BY BooksTyped DEF AccountingInv
<1>2. /\ CanSettleFees(id, shieldedQuote.fee)
      /\ shieldedTokenBalance' = shieldedTokenBalance
      /\ totalShieldedTokens' = totalShieldedTokens - pos.amount
      /\ book' = rewarded \/ book' = ExpireBook(rewarded)
  BY DEF ShieldedWithdrawCrossAsset, ActivationAllowed, shieldedCash
<1>3. /\ settled.fees \in Nat /\ settled.fees <= pos.amount /\ settled.book \in Book
      /\ ReservedFees(settled.book) = ReservedFees(book) + settled.fees
      /\ pos.amount \in Nat
  BY <1>1, <1>2, Environment, SettleFeesEffect, ShieldTotalsTyped
<1>4. shieldedTokenBalance \in Nat /\ ReservedFees(book) \in Nat
  BY CashTyped
<1> HIDE DEF shares, tokens, pos
<1>5. /\ rewarded \in Book /\ ReservedFees(rewarded) = ReservedFees(book) + pos.amount
  <2>1. PICK c \in Book : c = settled.book
    BY <1>3
  <2> HIDE DEF settled
  <2>2. PICK reward \in Nat : reward = forfeited
    BY <1>3
  <2>3. /\ AccumulateReward(c, shares, tokens, reward) \in Book
        /\ ReservedFees(AccumulateReward(c, shares, tokens, reward)) = ReservedFees(c) + reward
    BY <1>1, AccumulateRewardEffect
  <2> QED
    BY <1>3, <1>4, <2>1, <2>2, <2>3
<1> HIDE DEF rewarded, settled
<1>6. /\ ExpireBook(rewarded) \in Book /\ ReservedFees(ExpireBook(rewarded)) = ReservedFees(rewarded)
  BY <1>5, ExpireBookEffect
<1>7. PICK b \in Book : book' = b /\ ReservedFees(b) = ReservedFees(book) + pos.amount
  BY <1>2, <1>5, <1>6
<1>8. /\ shieldedTokenBalance' = shieldedTokenBalance - 0
      /\ ReservedFees(b) = ReservedFees(book) + pos.amount - 0
  BY <1>2, <1>3, <1>4, <1>7
<1> QED
  BY <1>2, <1>3, <1>7, <1>8, FollowedIfBalanced

\* A deposit brings its tokens; the bucket they will end in is bounded by the balance.
LEMMA DepositFollowed ==
  ASSUME AccountingInv, NEW received \in ShieldedAmounts, DepositShieldedAsset(received)
  PROVE  /\ shieldedTokenBalance' = shieldedTokenBalance + received
         /\ nextShieldId' = nextShieldId + 1
         /\ NothingStranded => NothingStranded'
<1>1. /\ shieldedTokenBalance' = shieldedTokenBalance + received
      /\ totalShieldedTokens' = totalShieldedTokens + received
      /\ book' = book /\ nextShieldId' = nextShieldId + 1
  BY DEF DepositShieldedAsset
<1>2. /\ shieldedTokenBalance \in Nat /\ totalShieldedTokens \in Nat
      /\ ReservedFees(book) \in Nat /\ received \in Nat
  BY CashTyped, Constants
<1>3. ReservedFees(book)' = ReservedFees(book)
  BY <1>1 DEF ReservedFees
<1> QED
  BY <1>1, <1>2, <1>3 DEF NothingStranded

\* A backing deposit moves the pending dust between two buckets.
LEMMA BackingDepositFollowed ==
  ASSUME AccountingInv, NEW received \in BackingAmounts, DepositBackingAsset(received)
  PROVE  TokensFollowed
<1> DEFINE expires == Expires(TRUE, totalProtectorTokens)
           book0 == IF expires THEN ExpireBook(book) ELSE book
<1>1. /\ book' = RedirectDust(book0)
      /\ shieldedTokenBalance' = shieldedTokenBalance
      /\ totalShieldedTokens' = totalShieldedTokens
  BY DEF DepositBackingAsset, shieldedCash, shieldTotals
<1>2. /\ shieldedTokenBalance \in Nat /\ totalShieldedTokens \in Nat /\ book \in Book
      /\ ReservedFees(book) \in Nat
  BY CashTyped
<1>3. book0 \in Book /\ ReservedFees(book0) = ReservedFees(book)
  BY <1>2, ExpireBookEffect
<1> HIDE DEF book0
<1>4. PICK b \in Book : book' = b /\ ReservedFees(b) = ReservedFees(book)
  BY <1>1, <1>3, RedirectDustEffect
<1>5. /\ shieldedTokenBalance' = shieldedTokenBalance - 0
      /\ totalShieldedTokens' = totalShieldedTokens - 0
      /\ ReservedFees(b) = ReservedFees(book) + 0 - 0
  BY <1>1, <1>2, <1>4
<1> QED
  BY <1>4, <1>5, FollowedIfBalanced

\* A commission leaves the reserves as it leaves the pool, or is forfeited to nobody:
\* what a settlement orphans finds room in the protocol bucket.
LEMMA CommissionFollowed ==
  ASSUME AccountingInv, NEW id \in protectorLive,
         shieldedTokenBalance' = shieldedTokenBalance - ClaimOutcome(id).paid,
         totalShieldedTokens' = totalShieldedTokens,
         NEW n \in Nat,
         \/ book' = ClaimOutcome(id).book
         \/ book' = RedirectOrphaned(RedirectDust(ClaimOutcome(id).book), n)
  PROVE  TokensFollowed
<1> DEFINE claim == ClaimOutcome(id)
<1>1. /\ shieldedTokenBalance \in Nat /\ totalShieldedTokens \in Nat
      /\ ReservedFees(book) \in Nat
      /\ BalanceFits => ReservedFees(book) <= MaxSafeAccumulation
  BY CashTyped
<1>2. /\ claim.paid \in Nat /\ claim.book \in Book
      /\ ReservedFees(book) <= MaxSafeAccumulation
           => ReservedFees(claim.book) = ReservedFees(book) - claim.paid
  BY ClaimEffect DEF AccountingInv, BackingInv
<1> HIDE DEF claim
<1>3. PICK c \in Book : c = claim.book
  BY <1>2
<1>4. PICK paid \in Nat : paid = claim.paid
  BY <1>2
<1>5. RedirectDust(c) \in Book /\ ReservedFees(RedirectDust(c)) = ReservedFees(c)
  BY RedirectDustEffect
<1>6. PICK d \in Book : d = RedirectDust(c)
  BY <1>5
<1>7. /\ RedirectOrphaned(d, n) \in Book
      /\ ReservedFees(d) <= MaxSafeAccumulation
           => ReservedFees(RedirectOrphaned(d, n)) = ReservedFees(d)
  BY RedirectOrphanedEffect
<1>8. PICK o \in Book :
        /\ o = RedirectOrphaned(d, n)
        /\ ReservedFees(d) <= MaxSafeAccumulation => ReservedFees(o) = ReservedFees(d)
  BY <1>7
<1>9. BalanceFits => /\ ReservedFees(c) = ReservedFees(book) - paid
                     /\ ReservedFees(c) <= MaxSafeAccumulation
  BY <1>1, <1>2, <1>3, <1>4, BookFields, RewardAssumption
<1>10. BalanceFits => ReservedFees(o) = ReservedFees(book) - paid
  BY <1>5, <1>6, <1>8, <1>9
<1>11. book' = c \/ book' = o
  BY <1>3, <1>6, <1>8 DEF claim
<1>12. PICK b \in Book : book' = b /\ (BalanceFits => ReservedFees(b) = ReservedFees(book) - paid)
  BY <1>9, <1>10, <1>11
<1>13. /\ shieldedTokenBalance' = shieldedTokenBalance - paid
       /\ totalShieldedTokens' = totalShieldedTokens - 0
       /\ BalanceFits => ReservedFees(b) = ReservedFees(book) + 0 - paid
  BY <1>1, <1>4, <1>12 DEF claim
<1> QED
  BY <1>12, <1>13, FollowedIfBalanced

LEMMA ProtectorStepsFollowed ==
  ASSUME AccountingInv, ProtectorNext
  PROVE  TokensFollowed
<1>1. ASSUME NEW id \in ProtectorIds, StartUnlockProcess(id) \/ CancelUnlockProcess(id)
      PROVE  TokensFollowed
  <2>1. UNCHANGED <<shieldedTokenBalance, totalShieldedTokens, book>>
    BY <1>1 DEF StartUnlockProcess, CancelUnlockProcess, shieldedCash, shieldTotals
  <2> QED
    BY <2>1, QuietFollowed
<1>2. ASSUME NEW id \in ProtectorIds,
             \/ ClaimCommission(id) \/ ForfeitCommission(id)
             \/ SettleExpiredProtectorPosition(id) \/ EscrowExpiredProtectorCommission(id)
      PROVE  TokensFollowed
  <2>1. id \in protectorLive /\ ApplyClaim(id, ClaimOutcome(id))
    BY <1>2 DEF ClaimCommission, ForfeitCommission, SettleExpiredProtectorPosition,
       EscrowExpiredProtectorCommission
  <2>2. /\ shieldedTokenBalance' = shieldedTokenBalance - ClaimOutcome(id).paid
        /\ totalShieldedTokens' = totalShieldedTokens
        /\ book' = ClaimOutcome(id).book
    BY <2>1 DEF ApplyClaim, shieldTotals
  <2> QED
    BY <2>1, <2>2, CommissionFollowed
<1>3. ASSUME NEW id \in ProtectorIds,
             ClaimExpiredProtectorBacking(id) \/ SettleExpiredProtectorBacking(id)
      PROVE  TokensFollowed
  <2>1. ClaimExpiredBacking(id)
    BY <1>3 DEF ClaimExpiredProtectorBacking, SettleExpiredProtectorBacking
  <2>2. /\ id \in protectorLive
        /\ shieldedTokenBalance' = shieldedTokenBalance - ClaimOutcome(id).paid
        /\ totalShieldedTokens' = totalShieldedTokens
        /\ book' = ClaimOutcome(id).book
    BY <2>1 DEF ClaimExpiredBacking, shieldTotals
  <2> QED
    BY <2>2, CommissionFollowed
<1>4. ASSUME NEW id \in ProtectorIds,
             NEW amount \in BackingAmounts \cup {0, PositionAmount(id), AvailableForWithdrawal(id)},
             ProtectorWithdraw(id, amount)
      PROVE  TokensFollowed
  <2> DEFINE newTotal == totalProtectorShares - SharesToBurn(id, amount)
  <2>1. /\ id \in protectorLive /\ ProtectorExitAllowed(id, amount)
        /\ shieldedTokenBalance' = shieldedTokenBalance - ClaimOutcome(id).paid
        /\ totalShieldedTokens' = totalShieldedTokens
        /\ book' = RedirectOrphaned(RedirectDust(ClaimOutcome(id).book), newTotal)
    BY <1>4 DEF ProtectorWithdraw, ProtectorExitAllowed, shieldTotals
  <2>2. amount \in Nat
    BY <1>4, Constants, WithdrawalAmountTyped
  <2>3. newTotal \in Nat
    BY <2>1, <2>2, BooksTyped, WithdrawalBounds DEF AccountingInv
  <2> HIDE DEF newTotal
  <2> QED
    BY <2>1, <2>3, CommissionFollowed
<1> QED
  BY <1>1, <1>2, <1>3, <1>4, BackingDepositFollowed DEF ProtectorNext

\* A fee that is paid out leaves its bucket.
LEMMA PayFeeFollowed ==
  ASSUME AccountingInv, PayPoolFee \/ PayProtocolFee
  PROVE  TokensFollowed
<1>1. /\ shieldedTokenBalance \in Nat /\ totalShieldedTokens \in Nat /\ book \in Book
      /\ book.commissions \in Nat /\ book.poolFee \in Nat /\ book.protocolFee \in Nat
  BY CashTyped, BookFields
<1>2. totalShieldedTokens' = totalShieldedTokens - 0
  BY <1>1 DEF PayPoolFee, PayProtocolFee, PayFee, shieldTotals
<1>3. CASE PayPoolFee
  <2> DEFINE b == [book EXCEPT !.poolFee = 0]
  <2>1. book' = b /\ shieldedTokenBalance' = shieldedTokenBalance - book.poolFee
    BY <1>3 DEF PayPoolFee, PayFee
  <2>2. /\ b \in Book /\ b.poolFee = 0 /\ b.protocolFee = book.protocolFee
        /\ b.commissions = book.commissions
    BY <1>1 DEF Book
  <2> HIDE DEF b
  <2>3. ReservedFees(b) = ReservedFees(book) + 0 - book.poolFee
    BY <1>1, <2>2 DEF ReservedFees
  <2> QED
    BY <1>1, <1>2, <2>1, <2>2, <2>3, FollowedIfBalanced
<1>4. CASE PayProtocolFee
  <2> DEFINE b == [book EXCEPT !.protocolFee = 0]
  <2>1. book' = b /\ shieldedTokenBalance' = shieldedTokenBalance - book.protocolFee
    BY <1>4 DEF PayProtocolFee, PayFee
  <2>2. /\ b \in Book /\ b.protocolFee = 0 /\ b.poolFee = book.poolFee
        /\ b.commissions = book.commissions
    BY <1>1 DEF Book
  <2> HIDE DEF b
  <2>3. ReservedFees(b) = ReservedFees(book) + 0 - book.protocolFee
    BY <1>1, <2>2 DEF ReservedFees
  <2> QED
    BY <1>1, <1>2, <2>1, <2>2, <2>3, FollowedIfBalanced
<1> QED
  BY <1>3, <1>4

\* Every step but a deposit of shielded tokens follows the tokens.
LEMMA FollowedNext ==
  ASSUME AccountingInv, [Next]_vars,
         ~\E amount \in ShieldedAmounts : DepositShieldedAsset(amount)
  PROVE  TokensFollowed
<1>1. CASE ShieldNext
  BY <1>1, ShieldStepsFollowed, ActivationFollowed DEF ShieldNext
<1>2. CASE ProtectorNext
  BY <1>2, ProtectorStepsFollowed
<1>3. CASE GovernanceNext /\ ~(PayPoolFee \/ PayProtocolFee)
  <2>1. UNCHANGED <<shieldedTokenBalance, totalShieldedTokens, book>>
    BY <1>3 DEF GovernanceNext, Pause, Unpause, UpdatePoolConfig, shieldedCash, shieldTotals,
       ResetShieldedTokenTransferIntegrity, OnlyStatusChanges, RetireEmptyPool,
       RetireDustPool, RetireProtectorOnlyPool
  <2> QED
    BY <2>1, QuietFollowed
<1>4. CASE EnvironmentNext \/ UNCHANGED vars
  <2>1. UNCHANGED <<shieldedTokenBalance, totalShieldedTokens, book>>
    BY <1>4 DEF EnvironmentNext, OracleUpdate, Tick, Donate, PoolUnchanged, vars,
       shieldedCash, shieldTotals
  <2> QED
    BY <2>1, QuietFollowed
<1> QED
  BY <1>1, <1>2, <1>3, <1>4, PayFeeFollowed DEF Next, GovernanceNext

LEMMA UnstrandedNext ==
  ASSUME AccountingInv, BalanceFits, NothingStranded, [Next]_vars
  PROVE  NothingStranded'
BY FollowedNext, DepositFollowed DEF TokensFollowed

\* A new id for every deposit; no other step raises the balance or lowers the next id.
LEMMA NextIdGrows ==
  ASSUME AccountingInv, [Next]_vars
  PROVE  nextShieldId' \in Nat /\ nextShieldId' >= nextShieldId
<1>1. nextShieldId \in Nat /\ MaxShieldId \in Nat
  BY Constants DEF AccountingInv, ShieldInv
<1>2. CASE ShieldNext
  <2>1. nextShieldId' \in {nextShieldId, nextShieldId + 1}
    BY <1>2 DEF ShieldNext, DepositShieldedAsset, ShieldedWithdrawSameAsset,
       ShieldedWithdrawCrossAsset, ClaimRewards, PartialWithdrawShielded
  <2> QED
    BY <1>1, <2>1
<1>3. CASE ProtectorNext
  <2>1. ASSUME NEW received \in BackingAmounts, DepositBackingAsset(received)
        PROVE  UNCHANGED shieldVars
    BY <2>1 DEF DepositBackingAsset
  <2>2. ASSUME NEW id \in ProtectorIds, NEW amount, ProtectorWithdraw(id, amount)
        PROVE  UNCHANGED shieldVars
    BY <2>2 DEF ProtectorWithdraw
  <2>3. ASSUME NEW id \in ProtectorIds,
               \/ StartUnlockProcess(id) \/ CancelUnlockProcess(id)
               \/ ClaimCommission(id) \/ ForfeitCommission(id)
               \/ SettleExpiredProtectorPosition(id) \/ EscrowExpiredProtectorCommission(id)
               \/ ClaimExpiredProtectorBacking(id) \/ SettleExpiredProtectorBacking(id)
        PROVE  UNCHANGED shieldVars
    BY <2>3 DEF StartUnlockProcess, CancelUnlockProcess, ClaimCommission, ForfeitCommission,
       SettleExpiredProtectorPosition, EscrowExpiredProtectorCommission, ApplyClaim,
       ClaimExpiredProtectorBacking, SettleExpiredProtectorBacking, ClaimExpiredBacking
  <2>4. UNCHANGED shieldVars
    BY <1>3, <2>1, <2>2, <2>3 DEF ProtectorNext
  <2> QED
    BY <1>1, <2>4 DEF shieldVars
<1>4. CASE GovernanceNext
  BY <1>1, <1>4 DEF GovernanceNext, PayPoolFee, PayProtocolFee, PayFee, Pause, Unpause,
     UpdatePoolConfig, ResetShieldedTokenTransferIntegrity, OnlyStatusChanges,
     RetireEmptyPool, RetireDustPool, RetireProtectorOnlyPool, shieldVars
<1>5. CASE EnvironmentNext \/ UNCHANGED vars
  BY <1>1, <1>5 DEF EnvironmentNext, OracleUpdate, Tick, Donate, PoolUnchanged, vars,
     shieldVars
<1> QED
  BY <1>2, <1>3, <1>4, <1>5 DEF Next

\* As long as the pool tracks no more than fits one bucket, every shielded token that it
\* tracks belongs to a receipt or a bucket; and the backing has share holders.
THEOREM NothingLost ==
  ASSUME ShareMultiplier >= ShareDivisor
  PROVE  Spec /\ []BalanceFits => []NothingOwnerless
<1>1. Init => NothingStranded
  BY DEF Init, NothingStranded, ReservedFees, EmptyBook
<1>2. AccountingInv /\ BalanceFits /\ NothingStranded /\ [Next]_vars => NothingStranded'
  BY UnstrandedNext
<1>3. NothingStranded /\ SharesCoverTokens => NothingOwnerless
  BY DEF NothingOwnerless
<1> QED
  BY <1>1, <1>2, <1>3, BackingHasHolders, Accounting, PTL DEF Spec

\* The condition is the depositors' to keep: with MaxShieldId receipts of at most largest
\* tokens each, no call of the pool can break it.
BalanceWithin(largest) == shieldedTokenBalance <= (nextShieldId - 1) * largest

LEMMA BalanceWithinNext ==
  ASSUME AccountingInv, [Next]_vars, NEW largest \in Nat,
         \A a \in ShieldedAmounts : a <= largest, BalanceWithin(largest)
  PROVE  BalanceWithin(largest)'
<1> DEFINE n == nextShieldId - 1
           m == nextShieldId' - 1
<1>1. nextShieldId \in Nat \ {0} /\ shieldedTokenBalance \in Nat
  <2>1. nextShieldId \in Nat \ {0}
    BY Constants DEF AccountingInv, ShieldInv
  <2>2. shieldedTokenBalance \in Nat
    BY CashTyped
  <2> QED
    BY <2>1, <2>2
<1>2. n \in Nat /\ m \in Nat /\ m >= n
  <2> DEFINE next == nextShieldId
             after == nextShieldId'
  <2>1. next \in Nat /\ next >= 1
    BY <1>1
  <2>2. after \in Nat /\ after >= next
    BY NextIdGrows
  <2>3. n = next - 1 /\ m = after - 1
    OBVIOUS
  <2> HIDE DEF n, m, next, after
  <2>4. n \in Nat
    BY <2>1, <2>3
  <2>5. m \in Nat
    BY <2>1, <2>2, <2>3
  <2>6. m >= n
    BY <2>1, <2>2, <2>3
  <2> QED
    BY <2>4, <2>5, <2>6
<1>3. shieldedTokenBalance <= n * largest
  BY DEF BalanceWithin
<1>4. shieldedTokenBalance' \in Nat
  BY NextInv DEF AccountingInv, CustodyInv
<1>5. CASE \E amount \in ShieldedAmounts : DepositShieldedAsset(amount)
  <2>1. PICK amount \in ShieldedAmounts : DepositShieldedAsset(amount)
    BY <1>5
  <2>2. amount \in Nat /\ amount <= largest
    BY Constants
  <2>3. shieldedTokenBalance' = shieldedTokenBalance + amount /\ nextShieldId' = nextShieldId + 1
    BY <2>1, DepositFollowed
  <2>4. m = n + 1
    BY <1>1, <2>3
  <2> HIDE DEF n, m
  <2>5. m * largest = n * largest + largest /\ n * largest \in Nat
    BY <1>2, <2>4
  <2>6. shieldedTokenBalance' <= m * largest
    BY <1>1, <1>3, <2>2, <2>3, <2>5
  <2> QED
    BY <2>6 DEF BalanceWithin, m
<1>6. CASE ~\E amount \in ShieldedAmounts : DepositShieldedAsset(amount)
  <2>1. shieldedTokenBalance' <= shieldedTokenBalance
    BY <1>6, FollowedNext DEF TokensFollowed
  <2> HIDE DEF n, m
  <2>2. n * largest <= m * largest /\ n * largest \in Nat /\ m * largest \in Nat
    BY <1>2
  <2>3. shieldedTokenBalance' <= m * largest
    BY <1>1, <1>3, <1>4, <2>1, <2>2
  <2> QED
    BY <2>3 DEF BalanceWithin, m
<1> QED
  BY <1>5, <1>6

\* Deposits that together fit the accumulation limit keep the tracked balance within it.
THEOREM DepositsFit ==
  ASSUME NEW largest \in Nat, \A a \in ShieldedAmounts : a <= largest,
         MaxShieldId * largest <= MaxSafeAccumulation
  PROVE  Spec => []BalanceFits
<1>1. Init => BalanceWithin(largest)
  BY DEF Init, BalanceWithin
<1>2. AccountingInv /\ BalanceWithin(largest) /\ [Next]_vars => BalanceWithin(largest)'
  BY BalanceWithinNext
<1>3. AccountingInv /\ BalanceWithin(largest) => BalanceFits
  <2> SUFFICES ASSUME AccountingInv, BalanceWithin(largest) PROVE BalanceFits
    OBVIOUS
  <2> DEFINE n == nextShieldId - 1
  <2>1. n \in Nat /\ n <= MaxShieldId /\ shieldedTokenBalance \in Nat /\ MaxShieldId \in Nat
    BY CashTyped, Constants DEF AccountingInv, ShieldInv
  <2>2. shieldedTokenBalance <= n * largest
    BY DEF BalanceWithin
  <2> HIDE DEF n
  <2>3. n * largest <= MaxShieldId * largest /\ n * largest \in Nat
        /\ MaxShieldId * largest \in Nat
    BY <2>1
  <2> QED
    BY <2>1, <2>2, <2>3, RewardAssumption DEF BalanceFits
<1> QED
  BY <1>1, <1>2, <1>3, Accounting, PTL DEF Spec

-----------------------------------------------------------------------------
(* Exits that nothing may block *)

\* Below the limit the fees of a position fit their buckets, whatever is in them.
LEMMA FeesFit ==
  ASSUME AccountingInv, BalanceFits, NEW id \in ShieldIds, NEW price \in Nat \ {0},
         transferIntegrityBroken \/ ~shieldedQuote.challenged, shieldPos[id].amount # 0
  PROVE  CanSettleFees(id, price)
<1> DEFINE fees == FeesDue(id, price)
           b == BookWithFees(fees)
           amount == shieldPos[id].amount
<1>1. /\ fees \in FeeSplit /\ TotalFees(fees) <= amount
      /\ amount \in Nat /\ amount <= totalShieldedTokens /\ totalShieldedTokens \in Nat
  BY FeesDueCapped, ShieldTotalsTyped DEF AccountingInv
<1>2. /\ shieldedTokenBalance \in Nat /\ book \in Book
      /\ shieldedTokenBalance >= totalShieldedTokens + ReservedFees(book)
      /\ ReservedFees(book) \in Nat /\ shieldedTokenBalance <= MaxSafeAccumulation
  BY CashTyped DEF BalanceFits
<1> HIDE DEF fees, amount
<1>3. /\ fees.commission \in Nat /\ fees.pool \in Nat /\ fees.protocol \in Nat
      /\ fees.commission + fees.pool + fees.protocol <= amount
  BY <1>1 DEF FeeSplit, TotalFees
<1>4. /\ b \in Book /\ ReservedFees(b) = ReservedFees(book) + fees.pool + fees.protocol
  BY <1>1, <1>2, BookWithFeesEffect
<1> HIDE DEF b
<1>5. ReservedFees(b) + fees.commission <= MaxSafeAccumulation
  BY <1>1, <1>2, <1>3, <1>4, RewardAssumption
<1>6. /\ b.commissions \in Nat /\ b.poolFee \in Nat /\ b.protocolFee \in Nat
  BY <1>4, BookFields
<1>7. /\ b.poolFee <= MaxSafeAccumulation /\ b.protocolFee <= MaxSafeAccumulation
      /\ b.commissions + fees.commission <= MaxSafeAccumulation
      /\ b.protocolFee + fees.commission <= MaxSafeAccumulation
  BY <1>3, <1>5, <1>6, RewardAssumption DEF ReservedFees
<1>8. RewardFits(b, totalProtectorShares, totalProtectorTokens, fees.commission)
  BY <1>3, <1>6, <1>7, RewardAssumption DEF RewardFits, ProtocolRoom, Monus
<1> QED
  BY <1>7, <1>8 DEF CanSettleFees, fees, b

\* What fees leave of a position is there to be paid, and would fit the buckets too.
LEMMA PositionCovered ==
  ASSUME AccountingInv, BalanceFits, NEW id \in ShieldIds, NEW price \in Nat,
         CanSettleFees(id, price)
  PROVE  LET settled == SettleFees(id, price)
             left == shieldPos[id].amount - settled.fees
         IN  /\ left \in Nat /\ left <= WithdrawableBalance(settled.book)
             /\ RewardFits(settled.book, totalProtectorShares, totalProtectorTokens, left)
<1> DEFINE settled == SettleFees(id, price)
           amount == shieldPos[id].amount
           left == amount - settled.fees
<1>1. /\ settled.fees \in Nat /\ settled.fees <= amount /\ settled.book \in Book
      /\ ReservedFees(settled.book) = ReservedFees(book) + settled.fees
  BY SettleFeesEffect DEF AccountingInv, BackingInv
<1>2. amount \in Nat /\ amount <= totalShieldedTokens /\ totalShieldedTokens \in Nat
  BY ShieldTotalsTyped DEF AccountingInv
<1>3. /\ shieldedTokenBalance \in Nat /\ ReservedFees(book) \in Nat
      /\ shieldedTokenBalance >= totalShieldedTokens + ReservedFees(book)
      /\ shieldedTokenBalance <= MaxSafeAccumulation
  BY CashTyped DEF BalanceFits
<1> HIDE DEF settled, amount
<1>4. PICK fees \in Nat : fees = settled.fees
  BY <1>1
<1>5. PICK b \in Book : b = settled.book
  BY <1>1
<1>6. left \in Nat /\ left = amount - fees
  BY <1>1, <1>2, <1>4
<1> HIDE DEF left
<1>7. /\ ReservedFees(b) = ReservedFees(book) + fees
      /\ b.commissions \in Nat /\ b.poolFee \in Nat /\ b.protocolFee \in Nat
  BY <1>1, <1>4, <1>5, BookFields
<1>8. /\ left <= shieldedTokenBalance - ReservedFees(b)
      /\ ReservedFees(b) + left <= MaxSafeAccumulation
  BY <1>2, <1>3, <1>6, <1>7, RewardAssumption
<1>9. left <= WithdrawableBalance(b)
  BY <1>3, <1>6, <1>7, <1>8 DEF WithdrawableBalance, Monus
<1>10. /\ b.commissions + left <= MaxSafeAccumulation
       /\ b.protocolFee + left <= MaxSafeAccumulation
  BY <1>6, <1>7, <1>8, RewardAssumption DEF ReservedFees
<1>11. RewardFits(b, totalProtectorShares, totalProtectorTokens, left)
  BY <1>6, <1>7, <1>10, RewardAssumption DEF RewardFits, ProtocolRoom, Monus
<1> QED
  BY <1>5, <1>6, <1>9, <1>11 DEF left, settled, amount

LEMMA ShieldExitsOpen ==
  ASSUME AccountingInv, BalanceFits
  PROVE  ShieldExitOpen
<1> SUFFICES ASSUME NEW id \in shieldLive,
                    ~paused, NoChallenge, SettlementPrice # 0, shieldPos[id].amount # 0
             PROVE  SameAssetExitAllowed(id)
  BY DEF ShieldExitOpen
<1>1. id \in ShieldIds /\ SettlementPrice \in Nat \ {0} /\ ~shieldedQuote.challenged
  BY Environment DEF AccountingInv, ShieldInv, NoChallenge
<1>2. BalancesCovered
  BY DEF AccountingInv, BackingInv, CustodyInv, BalancesCovered
<1>3. CanSettleFees(id, SettlementPrice)
  BY <1>1, FeesFit
<1>4. shieldPos[id].amount - SettleFees(id, SettlementPrice).fees
        <= WithdrawableBalance(SettleFees(id, SettlementPrice).book)
  BY <1>1, <1>3, PositionCovered
<1> QED
  BY <1>2, <1>3, <1>4 DEF SameAssetExitAllowed

LEMMA ActivationsOpen ==
  ASSUME AccountingInv, BalanceFits
  PROVE  ActivationOpen
<1> SUFFICES ASSUME NEW id \in shieldLive, ~paused, ~transferIntegrityBroken, NoChallenge,
                    shieldedQuote.fee # 0, backingQuote.price # 0, shieldPos[id].amount # 0,
                    BackingFromUsd(shieldPos[id].valueAtDeposit) # 0,
                    now - shieldPos[id].depositTime >= config.minimumPoolTime
             PROVE  ActivationAllowed(id)
  BY DEF ActivationOpen
<1>1. id \in ShieldIds /\ shieldedQuote.fee \in Nat \ {0} /\ ~shieldedQuote.challenged
  BY Environment DEF AccountingInv, ShieldInv, NoChallenge
<1>2. BalancesCovered
  BY DEF AccountingInv, BackingInv, CustodyInv, BalancesCovered
<1>3. CanSettleFees(id, shieldedQuote.fee)
  BY <1>1, FeesFit
<1>4. RewardFits(SettleFees(id, shieldedQuote.fee).book, totalProtectorShares,
                 totalProtectorTokens,
                 shieldPos[id].amount - SettleFees(id, shieldedQuote.fee).fees)
  BY <1>1, <1>3, PositionCovered
<1>5. ActivationPayout(id) <= totalBackingTokenBalance
  <2>1. /\ shieldPos[id].collateralAmount \in Nat /\ shieldPos[id].valueAtDeposit \in Nat
        /\ shieldPos[id].collateralAmount <= totalShieldCollateralAmount
        /\ totalShieldCollateralAmount \in Nat
    BY <1>1, ShieldTotalsTyped DEF AccountingInv
  <2>2. /\ totalShieldCollateralAmount <= totalProtectorTokens
        /\ totalProtectorTokens \in Nat /\ totalBackingTokenBalance \in Nat
        /\ EpochSum(epochBook, "backing") \in Nat
        /\ totalBackingTokenBalance = totalProtectorTokens + EpochSum(epochBook, "backing")
    BY BackingBooked, EpochSumTyped DEF AccountingInv, LedgerInv
  <2>3. BackingFromUsd(shieldPos[id].valueAtDeposit) \in Nat
    BY <2>1, Constants, Environment, MulDivType DEF BackingFromUsd, AccountingInv
  <2>4. ActivationPayout(id) <= shieldPos[id].collateralAmount /\ ActivationPayout(id) \in Nat
    BY <2>1, <2>3 DEF ActivationPayout, Least
  <2> QED
    BY <2>1, <2>2, <2>4
<1> QED
  BY <1>2, <1>3, <1>4, <1>5 DEF ActivationAllowed

LEMMA ProtectorExitsOpen ==
  ASSUME AccountingInv, BalanceFits, NoBareShares
  PROVE  ProtectorExitOpen
<1> SUFFICES ASSUME NEW id \in protectorLive, ~paused, ~ShieldedLiabilities,
                    ActiveShares(id) # 0, UnlockActive(protectorPos[id].unlockRequestTime)
             PROVE  ProtectorExitAllowed(id, ActiveAmount(id))
  BY DEF ProtectorExitOpen
<1>1. /\ id \in ProtectorIds /\ totalProtectorTokens \in Nat /\ totalProtectorShares \in Nat
      /\ ActiveShares(id) \in Nat /\ ActiveAmount(id) \in Nat
      /\ ActiveShares(id) <= totalProtectorShares
  BY BooksTyped, ActiveAmountTyped DEF AccountingInv
<1>2. BalancesCovered
  BY DEF AccountingInv, BackingInv, CustodyInv, BalancesCovered
<1>3. totalProtectorTokens # 0
  BY <1>1 DEF NoBareShares
<1>4. IF ActiveAmount(id) = 0 THEN DustExitAvailable(id)
      ELSE ActiveAmount(id) <= ActiveAmount(id)
           /\ ActiveAmount(id) <= AvailableForWithdrawal(id)
  BY <1>1, <1>3 DEF DustExitAvailable, AvailableForWithdrawal, ShieldedLiabilities
<1>5. /\ SharesToBurn(id, ActiveAmount(id)) = ActiveShares(id)
      /\ ActiveShares(id) - ActiveShares(id) = 0
  BY <1>1 DEF SharesToBurn
<1>6. AssetsOf(ActiveShares(id) - SharesToBurn(id, ActiveAmount(id)),
               totalProtectorTokens - ActiveAmount(id),
               totalProtectorShares - SharesToBurn(id, ActiveAmount(id))) = 0
  BY <1>5 DEF AssetsOf
<1>7. DustFits(ClaimOutcome(id).book)
  <2>1. /\ ClaimOutcome(id).book \in Book /\ ClaimOutcome(id).paid \in Nat
        /\ ReservedFees(ClaimOutcome(id).book) <= ReservedFees(book) - ClaimOutcome(id).paid
    BY ClaimEffect DEF AccountingInv, BackingInv
  <2>2. PICK b \in Book : b = ClaimOutcome(id).book
    BY <2>1
  <2>3. /\ b.commissions \in Nat /\ b.poolFee \in Nat /\ b.protocolFee \in Nat
        /\ b.current \in Nat /\ b.dust \in Nat /\ ReservedFees(b) \in Nat
        /\ ReservedFees(book) \in Nat /\ ReservedFees(book) <= MaxSafeAccumulation
    BY CashTyped, BookFields
  <2>4. ReservedFees(b) <= MaxSafeAccumulation
    BY <2>1, <2>2, <2>3, RewardAssumption
  <2>5. RedirectableDust(b) \in Nat /\ RedirectableDust(b) <= b.commissions
    BY <2>3 DEF RedirectableDust, Least
  <2>6. b.protocolFee + RedirectableDust(b) <= MaxSafeAccumulation
    BY <2>3, <2>4, <2>5, RewardAssumption DEF ReservedFees
  <2> QED
    BY <2>2, <2>6 DEF DustFits
<1> QED
  BY <1>2, <1>4, <1>6, <1>7 DEF ProtectorExitAllowed

\* None of the ways out of a position is ever closed by what other users did, as long as
\* the tracked balance fits one bucket.  (At the limit an exit that accrues a fee must
\* wait until commissions are claimed: SplitRiskPool.sol:1179.)
THEOREM ExitsStayOpen == Spec => [](BalanceFits => ExitsOpen)
<1>1. AccountingInv /\ NoBareShares /\ BalanceFits => ExitsOpen
  BY ShieldExitsOpen, ActivationsOpen, ProtectorExitsOpen DEF ExitsOpen
<1> QED
  BY <1>1, NoBareSharesInv, Accounting, PTL

\* Both, from the constants alone: when all deposits together fit one bucket, nothing is
\* ever out of everybody's reach, and every way out stays open.
THEOREM NothingLostOrLocked ==
  ASSUME ShareMultiplier >= ShareDivisor,
         NEW largest \in Nat, \A a \in ShieldedAmounts : a <= largest,
         MaxShieldId * largest <= MaxSafeAccumulation
  PROVE  Spec => [](NothingOwnerless /\ ExitsOpen)
<1>1. Spec => []BalanceFits
  BY DepositsFit
<1>2. Spec /\ []BalanceFits => []NothingOwnerless
  BY NothingLost
<1>3. Spec => [](BalanceFits => ExitsOpen)
  BY ExitsStayOpen
<1> QED
  BY <1>1, <1>2, <1>3, PTL
=============================================================================
