---------------------------- MODULE SplitRiskPool ----------------------------
(***************************************************************************)
(* SplitRiskPool.sol: shield holders deposit a yield-bearing token and may *)
(* leave with backing tokens at the USD value of their deposit; protectors *)
(* own shares of the backing and earn commissions and forfeited deposits.  *)
(*                                                                         *)
(* One action per entry point.  An entry point is nonReentrant, so a call  *)
(* is one step; a call that reverts is no step, so every revert condition  *)
(* is a guard.  Slippage limits, access control and token refusals can     *)
(* only make a call revert on the caller: a step not taken.                *)
(***************************************************************************)
EXTENDS ProtectorRewards

CONSTANTS
  MaxShieldId, MaxProtectorId,   \* bounds on the receipts ever minted
  MaxTime,                       \* bound on the clock
  MaxSurplus,                    \* bound on tokens sent to the pool unasked
  ShieldedAmounts, BackingAmounts, \* amounts the calls are made with
  ShieldedQuotes, BackingQuotes, \* what the oracle may answer for each leg
  Configs, InitialConfig,        \* settings governance may choose
  TokenMayTax,                   \* whether the shielded token may start taxing
  ShieldedScale, BackingScale,   \* 10 ** decimals of each token
  ShareMultiplier, ShareDivisor, \* backing units to 18-decimal share units
  MaxRewardShares,               \* MAX_PROTECTOR_REWARD_SHARES
  BasisPointScale, CollateralRatio, CommissionRate, PoolFeeRate,
  UnlockWindow, ClaimCooldown,
  DeactivationDelay              \* PROTECTOR_ONLY_POOL_DEACTIVATION_DELAY

ShieldIds == 1..MaxShieldId
ProtectorIds == 1..MaxProtectorId
Epochs == 0..MaxProtectorId  \* an epoch ends only after a deposit opened it

(***************************************************************************)
(* An answer of the oracle for one leg; a price of 0 is a reverted or      *)
(* missing price.  fee is getPriceForFeeAccrual with its fallback, closed  *)
(* is getPriceForClosedSessionExit, challenged a pending or possible       *)
(* dual-feed dispute, opening isProtectionOpeningAllowed.                  *)
(***************************************************************************)
Quote == [price : Nat, fee : Nat, closed : Nat,
          challenged : BOOLEAN, opening : BOOLEAN]

\* The part of poolConfig that the calls read.
Config == [shieldedMin : Nat, shieldedMax : Nat, backingMin : Nat, backingMax : Nat,
           maxTvl : Nat, minimumPoolTime : Nat, unlockDuration : Nat \ {0},
           protocolFee : Nat]

\* The checks of updatePoolConfig
ValidConfig(c) ==
  /\ c.shieldedMin < c.shieldedMax /\ c.shieldedMax <= MaxSafeAccumulation
  /\ c.backingMin < c.backingMax /\ c.backingMax <= MaxSafeAccumulation

ASSUME PoolAssumption ==
  /\ {MaxShieldId, MaxProtectorId, MaxTime, MaxSurplus} \subseteq Nat
  /\ ShieldedAmounts \subseteq Nat \ {0}
  /\ BackingAmounts \subseteq Nat \ {0}
  /\ ShieldedQuotes \subseteq Quote
  /\ BackingQuotes \subseteq Quote
  /\ Configs \subseteq Config
  /\ InitialConfig \in Configs
  /\ ValidConfig(InitialConfig)
  /\ TokenMayTax \in BOOLEAN
  /\ {ShieldedScale, BackingScale, ShareMultiplier, ShareDivisor,
      MaxRewardShares, BasisPointScale} \subseteq Nat \ {0}
  /\ {CollateralRatio, CommissionRate, PoolFeeRate, UnlockWindow, ClaimCooldown,
      DeactivationDelay} \subseteq Nat
  /\ CollateralRatio >= BasisPointScale   \* MIN_COLLATERAL_RATIO

VARIABLES
  \* shield receipts: owned ids, positions, and the pool's mappings
  shieldLive, shieldPos, feeBaseline, lastClaim, nextShieldId,
  \* protector receipts
  protectorLive, protectorPos, nextProtectorId,
  \* what is left of each expired share epoch
  epochBook, protectorShareEpoch,
  \* totals and tracked balances
  totalShieldedTokens, totalValueAtDeposit, totalShieldCollateralAmount,
  totalProtectorTokens, totalProtectorShares,
  shieldedTokenBalance, totalBackingTokenBalance,
  book,
  \* the pool's balances in the two token contracts
  heldShielded, heldBacking,
  \* status
  config, paused, poolActive, transferIntegrityBroken,
  \* environment
  shieldedQuote, backingQuote, now

shieldVars == <<shieldLive, shieldPos, feeBaseline, lastClaim, nextShieldId>>
protectorVars == <<protectorLive, protectorPos, nextProtectorId>>
epochVars == <<epochBook, protectorShareEpoch>>
shieldTotals == <<totalShieldedTokens, totalValueAtDeposit, totalShieldCollateralAmount>>
protectorTotals == <<totalProtectorTokens, totalProtectorShares>>
shieldedCash == <<shieldedTokenBalance, heldShielded>>
backingCash == <<totalBackingTokenBalance, heldBacking>>
statusVars == <<config, paused, poolActive>>
envVars == <<shieldedQuote, backingQuote, now>>

vars == <<shieldVars, protectorVars, epochVars, shieldTotals, protectorTotals, book,
          shieldedCash, backingCash, statusVars, transferIntegrityBroken, envVars>>

-----------------------------------------------------------------------------
\* ShieldReceiptNFT.ShieldPosition, without the unread lastFeeClaimTime
ShieldPosition == [amount : Nat, valueAtDeposit : Nat, collateralAmount : Nat,
                   depositTime : Nat]
NoShield == [amount |-> 0, valueAtDeposit |-> 0, collateralAmount |-> 0, depositTime |-> 0]

\* The pool's mappings for a protector receipt, and its NFT's unlockRequestTime
ProtectorPosition == [shares : Nat, epoch : Epochs, debt : Nat, claimed : Nat,
                      unlockRequestTime : Nat,
                      settled : BOOLEAN, backingSettled : BOOLEAN]
NoProtector == [shares |-> 0, epoch |-> 0, debt |-> 0, claimed |-> 0,
                unlockRequestTime |-> 0, settled |-> FALSE, backingSettled |-> FALSE]

\* The protectorEpoch... mappings of one epoch
EpochEntry == [finalRps : Nat, shares : Nat, reserve : Nat,
               backing : Nat, backingShares : Nat]
NoEpoch == [finalRps |-> 0, shares |-> 0, reserve |-> 0, backing |-> 0, backingShares |-> 0]

Init ==
  /\ shieldLive = {}
  /\ shieldPos = [i \in ShieldIds |-> NoShield]
  /\ feeBaseline = [i \in ShieldIds |-> 0]
  /\ lastClaim = [i \in ShieldIds |-> 0]
  /\ nextShieldId = 1
  /\ protectorLive = {}
  /\ protectorPos = [i \in ProtectorIds |-> NoProtector]
  /\ nextProtectorId = 1
  /\ epochBook = [e \in Epochs |-> NoEpoch]
  /\ protectorShareEpoch = 0
  /\ totalShieldedTokens = 0
  /\ totalValueAtDeposit = 0
  /\ totalShieldCollateralAmount = 0
  /\ totalProtectorTokens = 0
  /\ totalProtectorShares = 0
  /\ shieldedTokenBalance = 0
  /\ totalBackingTokenBalance = 0
  /\ book = EmptyBook
  /\ heldShielded = 0
  /\ heldBacking = 0
  /\ config = InitialConfig
  /\ paused = FALSE
  /\ poolActive = TRUE
  /\ transferIntegrityBroken = FALSE
  /\ shieldedQuote \in ShieldedQuotes
  /\ backingQuote \in BackingQuotes
  /\ now = 1

-----------------------------------------------------------------------------
(* Views the entry points share *)

\* _requirePoolAccountingBalancesCovered
BalancesCovered ==
  /\ heldShielded >= shieldedTokenBalance
  /\ heldBacking >= totalBackingTokenBalance

\* _hasShieldedLiabilities
ShieldedLiabilities ==
  totalShieldedTokens # 0 \/ totalValueAtDeposit # 0 \/ totalShieldCollateralAmount # 0

\* _hasShieldedExposure
ShieldedExposure == shieldedTokenBalance # 0 \/ ShieldedLiabilities

\* _requireNoOraclePendingChallenge for both legs
NoChallenge == ~shieldedQuote.challenged /\ ~backingQuote.challenged

ShieldedValue(amount) == MulDiv(amount, shieldedQuote.price, ShieldedScale)
BackingValue(amount) == MulDiv(amount, backingQuote.price, BackingScale)

\* _getBackingAmountFromUsdFloor, which reverts on a zero amount for a nonzero value
BackingFromUsd(value) == MulDiv(value, BackingScale, backingQuote.price)

\* _getRequiredCollateralUsd and _getShieldCollateralAmount
RequiredCollateralUsd(value) == MulDivCeil(value, CollateralRatio, BasisPointScale)
ShieldCollateral(value) == BackingFromUsd(RequiredCollateralUsd(value))

\* _validateDeposit without the per-asset bounds: both prices exist and the TVL limit holds
WithinTvl(depositValue) ==
  /\ backingQuote.price # 0
  /\ ShieldedExposure => shieldedQuote.price # 0
  /\ depositValue # 0
  /\ (IF ShieldedExposure THEN ShieldedValue(shieldedTokenBalance) ELSE 0)
       + BackingValue(totalBackingTokenBalance) + depositValue <= config.maxTvl

\* _assetsFromProtectorShares
AssetsOf(shares, tokens, totalShares) ==
  IF shares = 0 \/ tokens = 0 \/ totalShares = 0 THEN 0
  ELSE MulDiv(shares, tokens, totalShares)

\* _getActiveProtectorPositionShares
ActiveShares(id) ==
  IF protectorPos[id].epoch = protectorShareEpoch THEN protectorPos[id].shares ELSE 0

\* The backing that the position owns in the current epoch
ActiveAmount(id) == AssetsOf(ActiveShares(id), totalProtectorTokens, totalProtectorShares)

Expired(id) == protectorPos[id].epoch < protectorShareEpoch

\* _getExpiredProtectorBackingClaim
ExpiredBackingClaim(id) ==
  LET pos == protectorPos[id]
      entry == epochBook[pos.epoch]
  IN  IF \/ pos.shares = 0 \/ pos.backingSettled \/ ~Expired(id)
         \/ entry.backing = 0 \/ entry.backingShares = 0
      THEN 0
      ELSE IF pos.shares >= entry.backingShares THEN entry.backing
           ELSE MulDiv(pos.shares, entry.backing, entry.backingShares)

\* getProtectorPositionAmount
PositionAmount(id) ==
  IF ActiveShares(id) # 0 THEN ActiveAmount(id) ELSE ExpiredBackingClaim(id)

\* Variant that forgets the collateral caps of the shield receipts.
AvailableUnclamped(id) == ActiveAmount(id)

\* getAvailableForWithdrawal
AvailableForWithdrawal(id) ==
  IF ~ShieldedLiabilities THEN ActiveAmount(id)
  ELSE IF backingQuote.challenged \/ backingQuote.price = 0 THEN 0
  ELSE Least(ActiveAmount(id), Monus(totalProtectorTokens, totalShieldCollateralAmount))

\* getWithdrawableBalance, after an action has rewritten the book
WithdrawableBalance(b) == Monus(shieldedTokenBalance, ReservedFees(b))

-----------------------------------------------------------------------------
(* Fees of a shield position *)

\* A fee of rate on the yield, in shielded tokens: both conversions round up.
FeeAmount(yield, rate, price) ==
  LET usd == MulDivCeil(yield, rate, BasisPointScale)
  IN  IF usd = 0 THEN 0 ELSE MulDivCeil(usd, ShieldedScale, price)

\* The high-water mark in force: feeValueBaselineUsd, or the deposit value if unset
Baseline(id) ==
  IF feeBaseline[id] = 0 THEN shieldPos[id].valueAtDeposit ELSE feeBaseline[id]

\* The fees that _calculateAndAccumulateFeesAtPrice charges
FeesDue(id, price) ==
  LET amount == shieldPos[id].amount
      yield == Monus(MulDiv(amount, price, ShieldedScale), Baseline(id))
  IN  ScaleFees([commission |-> FeeAmount(yield, CommissionRate, price),
                 pool       |-> FeeAmount(yield, PoolFeeRate, price),
                 protocol   |-> FeeAmount(yield, config.protocolFee, price)],
                amount)

\* The book once the pool fee and the protocol fee are in their buckets
BookWithFees(fees) ==
  [book EXCEPT !.poolFee = @ + fees.pool, !.protocolFee = @ + fees.protocol]

(***************************************************************************)
(* _calculateAndAccumulateFees and its same-asset twin share their guards: *)
(* a shielded leg without dispute, a price, a nonempty position, and room  *)
(* in every bucket.  A broken transfer integrity skips all of them.        *)
(***************************************************************************)
CanSettleFees(id, price) ==
  \/ transferIntegrityBroken
  \/ /\ ~shieldedQuote.challenged
     /\ price # 0
     /\ shieldPos[id].amount # 0
     /\ LET fees == FeesDue(id, price)
            b == BookWithFees(fees)
        IN  /\ b.poolFee <= MaxSafeAccumulation
            /\ b.protocolFee <= MaxSafeAccumulation
            /\ RewardFits(b, totalProtectorShares, totalProtectorTokens, fees.commission)

\* Variant that lowers the high-water mark with a falling price.
SettleFeesTrackingPrice(id, price) ==
  LET fees == FeesDue(id, price)
      left == shieldPos[id].amount - TotalFees(fees)
  IN  [fees     |-> TotalFees(fees),
       book     |-> AccumulateReward(BookWithFees(fees), totalProtectorShares,
                                     totalProtectorTokens, fees.commission),
       baseline |-> MulDiv(left, price, ShieldedScale)]

(***************************************************************************)
(* What fee settlement leaves: the fees taken, the book, the new mark.     *)
(* With the transfer integrity broken no fee is charged and only the mark  *)
(* moves, if the fee price is there (_advanceFeeBaselineWithoutAccruingFees). *)
(***************************************************************************)
SettleFees(id, price) ==
  LET amount == shieldPos[id].amount
      fees == IF transferIntegrityBroken THEN NoFees ELSE FeesDue(id, price)
      left == amount - TotalFees(fees)
      at == IF transferIntegrityBroken THEN shieldedQuote.fee ELSE price
      reached == MulDiv(left, at, ShieldedScale)
      mark == IF transferIntegrityBroken /\ (at = 0 \/ amount = 0 \/ reached <= Baseline(id))
              THEN feeBaseline[id]
              ELSE IF reached > Baseline(id) THEN reached ELSE Baseline(id)
  IN  [fees     |-> TotalFees(fees),
       book     |-> AccumulateReward(BookWithFees(fees), totalProtectorShares,
                                     totalProtectorTokens, fees.commission),
       baseline |-> mark]

\* _tryGetShieldedSameAssetSettlementPrice: the fee price, else the closed-session price
SettlementPrice == IF shieldedQuote.fee # 0 THEN shieldedQuote.fee ELSE shieldedQuote.closed

-----------------------------------------------------------------------------
(* Commission claims *)

\* What the accumulator owes a receipt, before the reserves cap it
Earned(id, b) ==
  LET pos == protectorPos[id]
      rps == IF Expired(id) THEN epochBook[pos.epoch].finalRps ELSE b.rps
  IN  Monus(MulDiv(rps, pos.shares, RewardPrecision), pos.debt + pos.claimed)

\* _calculateClaimableCommission, capped as its callers cap it
Claimable(id, b) ==
  Least(Earned(id, b),
        Least(b.commissions,
              IF Expired(id) THEN epochBook[protectorPos[id].epoch].reserve ELSE b.current))

\* getClaimableCommission
ClaimableCommission(id) ==
  IF protectorPos[id].shares = 0 THEN 0 ELSE Claimable(id, book)

\* Variant that ends an epoch's shares without handing on what they leave.
ClaimOutcomeKeepingResidue(id) ==
  LET pos == protectorPos[id]
      entry == epochBook[pos.epoch]
      b == DistributeDust(book, totalProtectorShares, totalProtectorTokens)
      paid == Claimable(id, b)
      settles == Expired(id) /\ ~pos.settled
  IN  [paid  |-> paid,
       book  |-> PayCommission(b, paid, Expired(id)),
       entry |-> [entry EXCEPT !.reserve = IF Expired(id) THEN @ - paid ELSE @,
                               !.shares = IF settles THEN Monus(@, pos.shares) ELSE @],
       pos   |-> [pos EXCEPT !.claimed = @ + paid, !.settled = @ \/ settles]]

(***************************************************************************)
(* The state side of _claimCommissionTo and of _forfeitCommission.  The    *)
(* receipt that takes the last shares of an expired epoch hands what the   *)
(* divisions left in its reserve to the protocol fee.                      *)
(***************************************************************************)
ClaimOutcome(id) ==
  LET pos == protectorPos[id]
      entry == epochBook[pos.epoch]
      b == DistributeDust(book, totalProtectorShares, totalProtectorTokens)
      paid == Claimable(id, b)
      settles == Expired(id) /\ ~pos.settled
      last == settles /\ entry.shares # 0 /\ pos.shares >= entry.shares
      reserve == IF Expired(id) THEN entry.reserve - paid ELSE entry.reserve
      paidBook == PayCommission(b, paid, Expired(id))
  IN  [paid  |-> paid,
       book  |-> IF last THEN RedirectHistorical(paidBook, reserve) ELSE paidBook,
       entry |-> [entry EXCEPT !.reserve = IF last THEN 0 ELSE reserve,
                               !.shares = IF settles THEN Monus(@, pos.shares) ELSE @],
       pos   |-> [pos EXCEPT !.claimed = @ + paid, !.settled = @ \/ settles]]

-----------------------------------------------------------------------------
(* The end of a share epoch *)

\* Variant that overlooks the drained pool.
ExpiresOnDustOnly(includeDust, tokens) ==
  /\ totalProtectorShares # 0
  /\ includeDust /\ totalValueAtDeposit = 0 /\ tokens # 0 /\ tokens < config.backingMin

\* When _expireProtectorShareEpochIfDrained ends the current epoch
Expires(includeDust, tokens) ==
  /\ totalProtectorShares # 0
  /\ \/ tokens = 0
     \/ includeDust /\ totalValueAtDeposit = 0 /\ tokens < config.backingMin

\* Variant that forgets whose shares the residue belongs to.
ExpiredEpochOrphaningBacking(b, tokens) ==
  [epochBook[protectorShareEpoch] EXCEPT
     !.finalRps = b.rps,
     !.shares = totalProtectorShares,
     !.reserve = @ + b.current,
     !.backing = @ + tokens]

\* What the ended epoch is left with: its rewards, and the backing residue.
ExpiredEpoch(b, tokens) ==
  [epochBook[protectorShareEpoch] EXCEPT
     !.finalRps = b.rps,
     !.shares = totalProtectorShares,
     !.reserve = @ + b.current,
     !.backing = @ + tokens,
     !.backingShares = IF tokens = 0 THEN @ ELSE totalProtectorShares]

\* _backingAmountToProtectorShares
ToShares(amount) == (amount * ShareMultiplier) \div ShareDivisor

\* The shares a deposit is worth
SharesFor(amount, tokens, shares) ==
  IF NoShareHolders(shares, tokens) THEN ToShares(amount)
  ELSE MulDiv(amount, shares, tokens)

\* Variant that floors the debt.
RewardDebtFloor(rps, shares) == MulDiv(rps, shares, RewardPrecision)

\* The reward debt of a receipt that starts now: rounded up, so that it owns no
\* fraction from before.
RewardDebt(rps, shares) == MulDivCeil(rps, shares, RewardPrecision)

-----------------------------------------------------------------------------
(* Deposits *)

DepositBackingAsset(received) ==
  LET expires == Expires(TRUE, totalProtectorTokens)
      tokens0 == IF expires THEN 0 ELSE totalProtectorTokens
      shares0 == IF expires THEN 0 ELSE totalProtectorShares
      epoch == IF expires THEN protectorShareEpoch + 1 ELSE protectorShareEpoch
      book0 == IF expires THEN ExpireBook(book) ELSE book
      minted == SharesFor(received, tokens0, shares0)
  IN  /\ nextProtectorId <= MaxProtectorId
      /\ ~paused /\ poolActive /\ BalancesCovered
      /\ ~backingQuote.challenged
      /\ ShieldedExposure => ~shieldedQuote.challenged
      /\ config.backingMin <= received /\ received <= config.backingMax
      /\ received <= MaxSafeAccumulation
      /\ WithinTvl(BackingValue(received))
      /\ DustFits(book0)
      /\ minted # 0 /\ shares0 + minted <= MaxRewardShares
      /\ book' = RedirectDust(book0)
      /\ epochBook' = IF expires
                      THEN [epochBook EXCEPT ![protectorShareEpoch] =
                              ExpiredEpoch(book, totalProtectorTokens)]
                      ELSE epochBook
      /\ protectorShareEpoch' = epoch
      /\ totalProtectorTokens' = tokens0 + received
      /\ totalProtectorShares' = shares0 + minted
      /\ totalBackingTokenBalance' = totalBackingTokenBalance + received
      /\ heldBacking' = heldBacking + received
      /\ protectorLive' = protectorLive \cup {nextProtectorId}
      /\ protectorPos' = [protectorPos EXCEPT ![nextProtectorId] =
                            [NoProtector EXCEPT !.shares = minted, !.epoch = epoch,
                                                !.debt = RewardDebt(book.rps, minted)]]
      /\ nextProtectorId' = nextProtectorId + 1
      /\ UNCHANGED <<shieldVars, shieldTotals, shieldedCash, statusVars,
                     transferIntegrityBroken, envVars>>

\* Variant that checks the USD capacity and not the token caps.
WithinCapacityUsdOnly(value, collateral) ==
  RequiredCollateralUsd(totalValueAtDeposit + value) <= BackingValue(totalProtectorTokens)

\* _checkCapacity
WithinCapacity(value, collateral) ==
  /\ RequiredCollateralUsd(totalValueAtDeposit + value) <= BackingValue(totalProtectorTokens)
  /\ totalShieldCollateralAmount + collateral <= totalProtectorTokens

DepositShieldedAsset(received) ==
  LET value == ShieldedValue(received)
      collateral == ShieldCollateral(value)
  IN  /\ nextShieldId <= MaxShieldId
      /\ ~paused /\ ~transferIntegrityBroken /\ poolActive /\ BalancesCovered
      /\ NoChallenge /\ shieldedQuote.opening
      /\ config.shieldedMin <= received /\ received <= config.shieldedMax
      /\ received <= MaxSafeAccumulation
      /\ shieldedQuote.price # 0 /\ shieldedQuote.fee # 0
      /\ WithinTvl(value)
      /\ collateral # 0
      /\ WithinCapacity(value, collateral)
      /\ shieldLive' = shieldLive \cup {nextShieldId}
      /\ shieldPos' = [shieldPos EXCEPT ![nextShieldId] =
                         [amount |-> received, valueAtDeposit |-> value,
                          collateralAmount |-> collateral, depositTime |-> now]]
      /\ feeBaseline' = [feeBaseline EXCEPT ![nextShieldId] =
                           MulDiv(received, shieldedQuote.fee, ShieldedScale)]
      /\ nextShieldId' = nextShieldId + 1
      /\ totalShieldedTokens' = totalShieldedTokens + received
      /\ totalValueAtDeposit' = totalValueAtDeposit + value
      /\ totalShieldCollateralAmount' = totalShieldCollateralAmount + collateral
      /\ shieldedTokenBalance' = shieldedTokenBalance + received
      /\ heldShielded' = heldShielded + received
      /\ UNCHANGED <<lastClaim, protectorVars, epochVars, protectorTotals, book,
                     backingCash, statusVars, transferIntegrityBroken, envVars>>

-----------------------------------------------------------------------------
(* Shield exits and fee claims *)

\* Variant that leaves the burned receipt's position behind.
BurnShieldKeepingPosition(id) ==
  /\ shieldLive' = shieldLive \ {id}
  /\ feeBaseline' = [feeBaseline EXCEPT ![id] = 0]
  /\ lastClaim' = [lastClaim EXCEPT ![id] = 0]
  /\ UNCHANGED shieldPos

\* A receipt is burned: the NFT and the pool forget it.
BurnShield(id) ==
  /\ shieldLive' = shieldLive \ {id}
  /\ shieldPos' = [shieldPos EXCEPT ![id] = NoShield]
  /\ feeBaseline' = [feeBaseline EXCEPT ![id] = 0]
  /\ lastClaim' = [lastClaim EXCEPT ![id] = 0]

\* _markShieldedTransferIntegrityIfReduced: a token that began to tax shortens a payout.
MarkTransferIntegrity(payout) ==
  \E reduced \in IF TokenMayTax /\ payout # 0 THEN BOOLEAN ELSE {FALSE} :
    transferIntegrityBroken' = (transferIntegrityBroken \/ reduced)

\* What a call of shieldedWithdraw for the shielded token must meet
SameAssetExitAllowed(id) ==
  LET settled == SettleFees(id, SettlementPrice)
  IN  /\ id \in shieldLive
      /\ ~paused /\ BalancesCovered /\ NoChallenge
      /\ CanSettleFees(id, SettlementPrice)
      /\ shieldPos[id].amount - settled.fees <= WithdrawableBalance(settled.book)

ShieldedWithdrawSameAsset(id) ==
  LET pos == shieldPos[id]
      settled == SettleFees(id, SettlementPrice)
      payout == pos.amount - settled.fees
  IN  /\ SameAssetExitAllowed(id)
      /\ BurnShield(id)
      /\ book' = settled.book
      /\ totalShieldedTokens' = totalShieldedTokens - pos.amount
      /\ totalValueAtDeposit' = totalValueAtDeposit - pos.valueAtDeposit
      /\ totalShieldCollateralAmount' = totalShieldCollateralAmount - pos.collateralAmount
      /\ shieldedTokenBalance' = shieldedTokenBalance - payout
      /\ heldShielded' = heldShielded - payout
      /\ MarkTransferIntegrity(payout)
      /\ UNCHANGED <<nextShieldId, protectorVars, epochVars, protectorTotals,
                     backingCash, statusVars, envVars>>

\* What an activation pays: the deposit value in backing, up to the receipt's cap
ActivationPayout(id) ==
  Least(BackingFromUsd(shieldPos[id].valueAtDeposit), shieldPos[id].collateralAmount)

\* What a call of shieldedWithdraw for the backing token must meet
ActivationAllowed(id) ==
  LET pos == shieldPos[id]
      settled == SettleFees(id, shieldedQuote.fee)
  IN  /\ id \in shieldLive
      /\ ~paused /\ BalancesCovered /\ ~transferIntegrityBroken /\ NoChallenge
      /\ now - pos.depositTime >= config.minimumPoolTime
      /\ CanSettleFees(id, shieldedQuote.fee)
      /\ RewardFits(settled.book, totalProtectorShares, totalProtectorTokens,
                    pos.amount - settled.fees)
      /\ backingQuote.price # 0
      /\ pos.valueAtDeposit # 0 => BackingFromUsd(pos.valueAtDeposit) # 0
      /\ ActivationPayout(id) <= totalBackingTokenBalance

(***************************************************************************)
(* Shield activation: the position, less its fees, becomes a reward of the *)
(* protectors, and the holder takes backing.  The last backing token to    *)
(* leave ends the share epoch.                                             *)
(***************************************************************************)
ShieldedWithdrawCrossAsset(id) ==
  LET pos == shieldPos[id]
      settled == SettleFees(id, shieldedQuote.fee)
      forfeited == pos.amount - settled.fees
      rewarded == AccumulateReward(settled.book, totalProtectorShares,
                                   totalProtectorTokens, forfeited)
      payout == ActivationPayout(id)
      tokens == totalProtectorTokens - payout
      expires == Expires(FALSE, tokens)
  IN  /\ ActivationAllowed(id)
      /\ BurnShield(id)
      /\ totalShieldedTokens' = totalShieldedTokens - pos.amount
      /\ totalValueAtDeposit' = totalValueAtDeposit - pos.valueAtDeposit
      /\ totalShieldCollateralAmount' = totalShieldCollateralAmount - pos.collateralAmount
      /\ totalProtectorTokens' = tokens
      /\ totalBackingTokenBalance' = totalBackingTokenBalance - payout
      /\ heldBacking' = heldBacking - payout
      /\ IF expires
         THEN /\ book' = ExpireBook(rewarded)
              /\ epochBook' = [epochBook EXCEPT ![protectorShareEpoch] =
                                 ExpiredEpoch(rewarded, 0)]
              /\ protectorShareEpoch' = protectorShareEpoch + 1
              /\ totalProtectorShares' = 0
         ELSE /\ book' = rewarded
              /\ UNCHANGED <<epochVars, totalProtectorShares>>
      /\ UNCHANGED <<nextShieldId, protectorVars, shieldedCash, statusVars,
                     transferIntegrityBroken, envVars>>

\* Variant that starts the minimum pool time again for the remainder.
RemainderRestarted(pos, remaining, settledAmount) ==
  [amount |-> remaining,
   valueAtDeposit |-> MulDivCeil(pos.valueAtDeposit, remaining, settledAmount),
   collateralAmount |-> MulDivCeil(pos.collateralAmount, remaining, settledAmount),
   depositTime |-> now]

\* What a partial withdrawal leaves of a receipt: the value and the cap shrink in
\* proportion, rounded up, and the deposit time stays.
Remainder(pos, remaining, settledAmount) ==
  [amount |-> remaining,
   valueAtDeposit |-> MulDivCeil(pos.valueAtDeposit, remaining, settledAmount),
   collateralAmount |-> MulDivCeil(pos.collateralAmount, remaining, settledAmount),
   depositTime |-> pos.depositTime]

PartialWithdrawShielded(id, amount) ==
  LET pos == shieldPos[id]
      settled == SettleFees(id, SettlementPrice)
      left == pos.amount - settled.fees
      remaining == left - amount
      new == Remainder(pos, remaining, left)
  IN  /\ id \in shieldLive /\ nextShieldId <= MaxShieldId
      /\ ~paused /\ BalancesCovered /\ NoChallenge
      /\ amount # 0 /\ amount < pos.amount
      /\ CanSettleFees(id, SettlementPrice)
      /\ pos.amount >= amount + settled.fees
      /\ remaining >= config.shieldedMin
      /\ amount <= WithdrawableBalance(settled.book)
      /\ book' = settled.book
      /\ shieldLive' = (shieldLive \ {id}) \cup {nextShieldId}
      /\ shieldPos' = [shieldPos EXCEPT ![id] = NoShield, ![nextShieldId] = new]
      /\ feeBaseline' = [feeBaseline EXCEPT
                           ![id] = 0,
                           ![nextShieldId] = MulDiv(settled.baseline, remaining, left)]
      /\ lastClaim' = [lastClaim EXCEPT ![id] = 0, ![nextShieldId] = lastClaim[id]]
      /\ nextShieldId' = nextShieldId + 1
      /\ totalShieldedTokens' = totalShieldedTokens - (amount + settled.fees)
      /\ totalValueAtDeposit' = totalValueAtDeposit - pos.valueAtDeposit + new.valueAtDeposit
      /\ totalShieldCollateralAmount' =
           totalShieldCollateralAmount - pos.collateralAmount + new.collateralAmount
      /\ shieldedTokenBalance' = shieldedTokenBalance - amount
      /\ heldShielded' = heldShielded - amount
      /\ MarkTransferIntegrity(amount)
      /\ UNCHANGED <<protectorVars, epochVars, protectorTotals, backingCash,
                     statusVars, envVars>>

ClaimRewards(id) ==
  LET pos == shieldPos[id]
      settled == SettleFees(id, SettlementPrice)
  IN  /\ id \in shieldLive
      /\ ~paused /\ BalancesCovered
      /\ lastClaim[id] # 0 => now >= lastClaim[id] + ClaimCooldown
      /\ CanSettleFees(id, SettlementPrice)
      /\ settled.fees # 0 => settled.fees < pos.amount
      /\ lastClaim' = [lastClaim EXCEPT ![id] = now]
      /\ shieldPos' = [shieldPos EXCEPT ![id].amount = @ - settled.fees]
      /\ feeBaseline' = [feeBaseline EXCEPT ![id] = settled.baseline]
      /\ totalShieldedTokens' = totalShieldedTokens - settled.fees
      /\ book' = settled.book
      /\ UNCHANGED <<shieldLive, nextShieldId, protectorVars, epochVars,
                     totalValueAtDeposit, totalShieldCollateralAmount, protectorTotals,
                     shieldedCash, backingCash, statusVars, transferIntegrityBroken, envVars>>

-----------------------------------------------------------------------------
(* Protector exits *)

\* _isProtectorDustExitAvailable
DustExitAvailable(id) ==
  /\ ActiveAmount(id) = 0 /\ ActiveShares(id) # 0
  /\ totalProtectorTokens # 0 /\ totalValueAtDeposit = 0

UnlockExpired(requestTime) == requestTime # 0 /\ now > requestTime + UnlockWindow

\* _isProtectorUnlockActive
UnlockActive(requestTime) ==
  requestTime # 0 /\ requestTime <= now /\ now <= requestTime + UnlockWindow

StartUnlockProcess(id) ==
  LET unlock == protectorPos[id].unlockRequestTime
  IN  /\ id \in protectorLive
      /\ ActiveAmount(id) # 0 \/ DustExitAvailable(id)
      /\ unlock # 0 => UnlockExpired(unlock)
      /\ protectorPos' = [protectorPos EXCEPT
                            ![id].unlockRequestTime = now + config.unlockDuration]
      /\ UNCHANGED <<shieldVars, protectorLive, nextProtectorId, epochVars, shieldTotals,
                     protectorTotals, book, shieldedCash, backingCash, statusVars,
                     transferIntegrityBroken, envVars>>

CancelUnlockProcess(id) ==
  /\ id \in protectorLive
  /\ protectorPos[id].unlockRequestTime # 0
  /\ protectorPos' = [protectorPos EXCEPT ![id].unlockRequestTime = 0]
  /\ UNCHANGED <<shieldVars, protectorLive, nextProtectorId, epochVars, shieldTotals,
                 protectorTotals, book, shieldedCash, backingCash, statusVars,
                 transferIntegrityBroken, envVars>>

\* The shares that a withdrawal of amount burns
SharesToBurn(id, amount) ==
  IF amount = ActiveAmount(id)
  THEN ActiveShares(id)
  ELSE Least(MulDivCeil(amount, totalProtectorShares, totalProtectorTokens), ActiveShares(id))

\* Variant that leaves the unlock of the remainder armed.
ProtectorRemainderStillUnlocked(pos, shares, rps) ==
  [pos EXCEPT !.shares = shares, !.epoch = protectorShareEpoch,
              !.debt = RewardDebt(rps, shares), !.claimed = 0]

\* What a partial withdrawal leaves: fresh reward accounting, no unlock request
ProtectorRemainder(pos, shares, rps) ==
  [pos EXCEPT !.shares = shares, !.epoch = protectorShareEpoch,
              !.debt = RewardDebt(rps, shares), !.claimed = 0, !.unlockRequestTime = 0]

(***************************************************************************)
(* What a call of protectorWithdraw must meet.  A withdrawal of 0 is the   *)
(* dust exit: a receipt whose shares are worth no token gives them up.     *)
(* The collateral check is made before and after the commission is paid;   *)
(* the payment does not touch what it reads, so the model makes it once.   *)
(***************************************************************************)
ProtectorExitAllowed(id, amount) ==
  /\ id \in protectorLive
  /\ ~paused /\ BalancesCovered
  /\ ShieldedLiabilities => ~backingQuote.challenged
  /\ UnlockActive(protectorPos[id].unlockRequestTime)
  /\ IF amount = 0 THEN DustExitAvailable(id)
     ELSE amount <= ActiveAmount(id) /\ amount <= AvailableForWithdrawal(id)
  /\ LET burned == SharesToBurn(id, amount)
         left == AssetsOf(ActiveShares(id) - burned, totalProtectorTokens - amount,
                          totalProtectorShares - burned)
     IN  left # 0 => left >= config.backingMin
  /\ DustFits(ClaimOutcome(id).book)

ProtectorWithdraw(id, amount) ==
  LET pos == protectorPos[id]
      burned == SharesToBurn(id, amount)
      newShares == ActiveShares(id) - burned
      newTotal == totalProtectorShares - burned
      claim == ClaimOutcome(id)
  IN  /\ ProtectorExitAllowed(id, amount)
      /\ book' = RedirectOrphaned(RedirectDust(claim.book), newTotal)
      /\ IF newShares = 0
         THEN /\ protectorLive' = protectorLive \ {id}
              /\ protectorPos' = [protectorPos EXCEPT ![id] = NoProtector]
         ELSE /\ protectorPos' = [protectorPos EXCEPT ![id] =
                                    ProtectorRemainder(pos, newShares, claim.book.rps)]
              /\ UNCHANGED protectorLive
      /\ totalProtectorTokens' = totalProtectorTokens - amount
      /\ totalProtectorShares' = newTotal
      /\ totalBackingTokenBalance' = totalBackingTokenBalance - amount
      /\ heldBacking' = heldBacking - amount
      /\ shieldedTokenBalance' = shieldedTokenBalance - claim.paid
      /\ heldShielded' = heldShielded - claim.paid
      /\ UNCHANGED <<shieldVars, nextProtectorId, epochVars, shieldTotals,
                     statusVars, transferIntegrityBroken, envVars>>

-----------------------------------------------------------------------------
(* Commissions and expired epochs *)

\* The state that a settled claim leaves, wherever its tokens go
ApplyClaim(id, claim) ==
  /\ book' = claim.book
  /\ protectorPos' = [protectorPos EXCEPT ![id] = claim.pos]
  /\ epochBook' = [epochBook EXCEPT ![protectorPos[id].epoch] = claim.entry]
  /\ shieldedTokenBalance' = shieldedTokenBalance - claim.paid
  /\ UNCHANGED <<shieldVars, protectorLive, nextProtectorId, protectorShareEpoch,
                 shieldTotals, protectorTotals, backingCash, statusVars,
                 transferIntegrityBroken, envVars>>

\* claimCommission, which a pause does not stop
ClaimCommission(id) ==
  /\ id \in protectorLive /\ BalancesCovered
  /\ ApplyClaim(id, ClaimOutcome(id))
  /\ heldShielded' = heldShielded - ClaimOutcome(id).paid

\* forfeitCommission: the tokens stay in the pool and belong to nobody.
ForfeitCommission(id) ==
  /\ id \in protectorLive /\ BalancesCovered
  /\ ApplyClaim(id, ClaimOutcome(id))
  /\ UNCHANGED heldShielded

\* settleExpiredProtectorPosition: a keeper pays the owner.
SettleExpiredProtectorPosition(id) ==
  /\ id \in protectorLive /\ Expired(id)
  /\ ~paused /\ BalancesCovered
  /\ ApplyClaim(id, ClaimOutcome(id))
  /\ heldShielded' = heldShielded - ClaimOutcome(id).paid

\* _requireCommissionEscrowRetirementState
OnlyExpiredCommissionsLeft ==
  /\ ~ShieldedLiabilities
  /\ totalProtectorTokens = 0 /\ totalProtectorShares = 0 /\ totalBackingTokenBalance = 0
  /\ book.poolFee = 0 /\ book.protocolFee = 0 /\ book.current = 0 /\ book.dust = 0
  /\ book.commissions # 0 /\ book.commissions = book.historical
  /\ shieldedTokenBalance = book.commissions

\* escrowExpiredProtectorCommission: the commission goes to a contract that only
\* the receipt's owner can empty.
EscrowExpiredProtectorCommission(id) ==
  /\ id \in protectorLive /\ Expired(id) /\ ~protectorPos[id].settled
  /\ BalancesCovered /\ OnlyExpiredCommissionsLeft
  /\ ClaimOutcome(id).paid # 0
  /\ ApplyClaim(id, ClaimOutcome(id))
  /\ heldShielded' = heldShielded - ClaimOutcome(id).paid

\* The epoch's backing once a claim of shares has been paid: the last claim takes all.
BackingEntryAfter(entry, shares) ==
  IF shares >= entry.backingShares
  THEN [entry EXCEPT !.backing = 0, !.backingShares = 0]
  ELSE [entry EXCEPT !.backing = @ - MulDiv(shares, @, entry.backingShares),
                     !.backingShares = @ - shares]

\* _claimExpiredProtectorBackingTo: commission first, then the backing, then the burn.
ClaimExpiredBacking(id) ==
  LET pos == protectorPos[id]
      claim == ClaimOutcome(id)
      entry == BackingEntryAfter(claim.entry, pos.shares)
      amount == claim.entry.backing - entry.backing
  IN  /\ id \in protectorLive /\ BalancesCovered
      /\ pos.shares # 0 /\ ~pos.backingSettled /\ Expired(id)
      /\ epochBook[pos.epoch].backing # 0 /\ epochBook[pos.epoch].backingShares # 0
      /\ book' = claim.book
      /\ epochBook' = [epochBook EXCEPT ![pos.epoch] = entry]
      /\ protectorLive' = protectorLive \ {id}
      /\ protectorPos' = [protectorPos EXCEPT ![id] =
                            [NoProtector EXCEPT !.settled = claim.pos.settled,
                                                !.backingSettled = TRUE]]
      /\ shieldedTokenBalance' = shieldedTokenBalance - claim.paid
      /\ heldShielded' = heldShielded - claim.paid
      /\ totalBackingTokenBalance' = totalBackingTokenBalance - amount
      /\ heldBacking' = heldBacking - amount
      /\ UNCHANGED <<shieldVars, nextProtectorId, protectorShareEpoch, shieldTotals,
                     protectorTotals, statusVars, transferIntegrityBroken, envVars>>

ClaimExpiredProtectorBacking(id) == ~paused /\ ClaimExpiredBacking(id)

\* settleExpiredProtectorBacking: anyone while unpaused, governance also while paused.
SettleExpiredProtectorBacking(id) == ClaimExpiredBacking(id)

-----------------------------------------------------------------------------
(* Fee payments, governance and retirement *)

PayFee(fee, rest) ==
  /\ ~paused
  /\ fee # 0 => BalancesCovered
  /\ book' = rest
  /\ shieldedTokenBalance' = shieldedTokenBalance - fee
  /\ heldShielded' = heldShielded - fee
  /\ UNCHANGED <<shieldVars, protectorVars, epochVars, shieldTotals, protectorTotals,
                 backingCash, statusVars, transferIntegrityBroken, envVars>>

PayPoolFee == PayFee(book.poolFee, [book EXCEPT !.poolFee = 0])
PayProtocolFee == PayFee(book.protocolFee, [book EXCEPT !.protocolFee = 0])

OnlyStatusChanges ==
  UNCHANGED <<shieldVars, protectorVars, epochVars, shieldTotals, protectorTotals, book,
              shieldedCash, backingCash, envVars>>

Pause ==
  /\ ~paused /\ paused' = TRUE
  /\ UNCHANGED <<config, poolActive, transferIntegrityBroken>> /\ OnlyStatusChanges

Unpause ==
  /\ paused /\ paused' = FALSE
  /\ UNCHANGED <<config, poolActive, transferIntegrityBroken>> /\ OnlyStatusChanges

UpdatePoolConfig(new) ==
  /\ ValidConfig(new) /\ config' = new
  /\ UNCHANGED <<paused, poolActive, transferIntegrityBroken>> /\ OnlyStatusChanges

\* resetShieldedTokenTransferIntegrity, after a probe that came back whole
ResetShieldedTokenTransferIntegrity ==
  /\ transferIntegrityBroken
  /\ shieldedTokenBalance # 0 => heldShielded # 0 /\ heldShielded >= shieldedTokenBalance
  /\ transferIntegrityBroken' = FALSE
  /\ UNCHANGED statusVars /\ OnlyStatusChanges

\* Variant that forgets the residual backing of expired epochs.
SweepableIgnoringEpochs ==
  ~ShieldedLiabilities /\ ReservedFees(book) = 0 /\ shieldedTokenBalance = 0

\* The precondition of both sweeps of the factory
Sweepable ==
  /\ ~ShieldedLiabilities /\ ReservedFees(book) = 0 /\ shieldedTokenBalance = 0
  /\ totalBackingTokenBalance = totalProtectorTokens

\* deactivatePool and closePool: pause, sweep the surplus, and the pool must be empty.
RetireEmptyPool ==
  /\ poolActive
  /\ Sweepable /\ BalancesCovered
  /\ totalProtectorTokens = 0
  /\ paused' = TRUE /\ poolActive' = FALSE
  /\ heldShielded' = 0 /\ heldBacking' = 0
  /\ UNCHANGED <<shieldVars, protectorVars, epochVars, shieldTotals, protectorTotals, book,
                 shieldedTokenBalance, totalBackingTokenBalance, config,
                 transferIntegrityBroken, envVars>>

\* deactivateDustPool: backing that no share owns goes to the protocol first.
RetireDustPool ==
  /\ poolActive
  /\ Sweepable /\ BalancesCovered
  /\ totalProtectorTokens # 0
  /\ totalProtectorTokens <= config.backingMin /\ totalProtectorShares = 0
  /\ paused' = TRUE /\ poolActive' = FALSE
  /\ totalProtectorTokens' = 0 /\ totalBackingTokenBalance' = 0
  /\ heldShielded' = 0 /\ heldBacking' = 0
  /\ UNCHANGED <<shieldVars, protectorVars, epochVars, shieldTotals, totalProtectorShares,
                 book, shieldedTokenBalance, config, transferIntegrityBroken, envVars>>

\* deactivateProtectorOnlyPool: the protectors stay and may still leave.
RetireProtectorOnlyPool ==
  /\ poolActive /\ ~paused
  /\ now >= DeactivationDelay
  /\ Sweepable /\ BalancesCovered
  /\ poolActive' = FALSE
  /\ heldShielded' = 0 /\ heldBacking' = totalBackingTokenBalance
  /\ UNCHANGED <<shieldVars, protectorVars, epochVars, shieldTotals, protectorTotals, book,
                 shieldedTokenBalance, totalBackingTokenBalance, config, paused,
                 transferIntegrityBroken, envVars>>

-----------------------------------------------------------------------------
(* The environment: the oracle, the clock, unasked transfers *)

PoolUnchanged ==
  UNCHANGED <<shieldVars, protectorVars, epochVars, shieldTotals, protectorTotals, book,
              shieldedTokenBalance, totalBackingTokenBalance, statusVars,
              transferIntegrityBroken>>

OracleUpdate ==
  /\ shieldedQuote' \in ShieldedQuotes
  /\ backingQuote' \in BackingQuotes
  /\ PoolUnchanged /\ UNCHANGED <<heldShielded, heldBacking, now>>

Tick ==
  /\ now < MaxTime /\ now' = now + 1
  /\ PoolUnchanged /\ UNCHANGED <<heldShielded, heldBacking, shieldedQuote, backingQuote>>

Donate ==
  /\ \/ /\ heldShielded < shieldedTokenBalance + MaxSurplus
        /\ heldShielded' = heldShielded + 1 /\ UNCHANGED heldBacking
     \/ /\ heldBacking < totalBackingTokenBalance + MaxSurplus
        /\ heldBacking' = heldBacking + 1 /\ UNCHANGED heldShielded
  /\ PoolUnchanged /\ UNCHANGED envVars

-----------------------------------------------------------------------------
ShieldNext ==
  \/ \E amount \in ShieldedAmounts : DepositShieldedAsset(amount)
  \/ \E id \in ShieldIds :
       \/ ShieldedWithdrawSameAsset(id)
       \/ ShieldedWithdrawCrossAsset(id)
       \/ ClaimRewards(id)
       \/ \E amount \in ShieldedAmounts : PartialWithdrawShielded(id, amount)

ProtectorNext ==
  \/ \E amount \in BackingAmounts : DepositBackingAsset(amount)
  \/ \E id \in ProtectorIds :
       \/ StartUnlockProcess(id)
       \/ CancelUnlockProcess(id)
       \/ \E amount \in BackingAmounts \cup {0, PositionAmount(id), AvailableForWithdrawal(id)} :
            ProtectorWithdraw(id, amount)
       \/ ClaimCommission(id)
       \/ ForfeitCommission(id)
       \/ SettleExpiredProtectorPosition(id)
       \/ EscrowExpiredProtectorCommission(id)
       \/ ClaimExpiredProtectorBacking(id)
       \/ SettleExpiredProtectorBacking(id)

GovernanceNext ==
  \/ PayPoolFee \/ PayProtocolFee
  \/ Pause \/ Unpause
  \/ \E new \in Configs : UpdatePoolConfig(new)
  \/ ResetShieldedTokenTransferIntegrity
  \/ RetireEmptyPool \/ RetireDustPool \/ RetireProtectorOnlyPool

EnvironmentNext == OracleUpdate \/ Tick \/ Donate

Next == ShieldNext \/ ProtectorNext \/ GovernanceNext \/ EnvironmentNext

Spec == Init /\ [][Next]_vars

-----------------------------------------------------------------------------
(* Properties *)

ShieldQuantity(field) == SumOf([i \in ShieldIds |-> shieldPos[i][field]])

TypeOK ==
  /\ shieldLive \subseteq ShieldIds
  /\ shieldPos \in [ShieldIds -> ShieldPosition]
  /\ feeBaseline \in [ShieldIds -> Nat]
  /\ lastClaim \in [ShieldIds -> Nat]
  /\ nextShieldId \in 1..(MaxShieldId + 1)
  /\ protectorLive \subseteq ProtectorIds
  /\ protectorPos \in [ProtectorIds -> ProtectorPosition]
  /\ nextProtectorId \in 1..(MaxProtectorId + 1)
  /\ epochBook \in [Epochs -> EpochEntry]
  /\ protectorShareEpoch \in Epochs
  /\ totalShieldedTokens \in Nat
  /\ totalValueAtDeposit \in Nat
  /\ totalShieldCollateralAmount \in Nat
  /\ totalProtectorTokens \in Nat
  /\ totalProtectorShares \in Nat
  /\ shieldedTokenBalance \in Nat
  /\ totalBackingTokenBalance \in Nat
  /\ book \in Book
  /\ heldShielded \in Nat
  /\ heldBacking \in Nat
  /\ config \in Configs
  /\ paused \in BOOLEAN
  /\ poolActive \in BOOLEAN
  /\ transferIntegrityBroken \in BOOLEAN
  /\ shieldedQuote \in ShieldedQuotes
  /\ backingQuote \in BackingQuotes
  /\ now \in Nat

(***************************************************************************)
(* The three totals that price capacity and lock collateral are the sums   *)
(* over the receipts still out (the invariants stated at                   *)
(* SplitRiskPool.sol:78-104), whatever mix of deposits, partial exits,     *)
(* activations and fee claims came before.                                 *)
(***************************************************************************)
ShieldTotalsExact ==
  /\ totalShieldedTokens = ShieldQuantity("amount")
  /\ totalValueAtDeposit = ShieldQuantity("valueAtDeposit")
  /\ totalShieldCollateralAmount = ShieldQuantity("collateralAmount")
  /\ \A i \in ShieldIds \ shieldLive : shieldPos[i] = NoShield

(***************************************************************************)
(* The shares of every epoch are the shares of its receipts: the current   *)
(* total, the unsettled shares of an ended epoch, and the shares that      *)
(* still wait for its residual backing.  The last-claim tests of the       *)
(* contract rest on it.                                                    *)
(***************************************************************************)
LiveIn(e) == {i \in protectorLive : protectorPos[i].epoch = e}
Unsettled(e) == {i \in LiveIn(e) : ~protectorPos[i].settled}

SharesOf(ids) ==
  SumOf([i \in ProtectorIds |-> IF i \in ids THEN protectorPos[i].shares ELSE 0])

EndedEpochs == {e \in Epochs : e < protectorShareEpoch}

SharesExact ==
  /\ totalProtectorShares = SharesOf(LiveIn(protectorShareEpoch))
  /\ \A e \in EndedEpochs :
       /\ epochBook[e].shares = SharesOf(Unsettled(e))
       /\ epochBook[e].backing # 0 => epochBook[e].backingShares = SharesOf(LiveIn(e))

(***************************************************************************)
(* Every tracked token has one owner: a shield receipt or a fee bucket, an *)
(* active share or an ended epoch; and the token contracts hold at least   *)
(* what is tracked.                                                        *)
(***************************************************************************)
ShieldedCovered == shieldedTokenBalance >= totalShieldedTokens + ReservedFees(book)

CustodyCovered ==
  /\ BalancesCovered
  /\ ShieldedCovered
  /\ totalBackingTokenBalance =
       totalProtectorTokens + SumOf([e \in Epochs |-> epochBook[e].backing])

\* The same without loss: no shielded token is tracked that nobody can ever take.
\* It fails once a full protocol bucket drops orphaned commissions.
NothingStranded == shieldedTokenBalance = totalShieldedTokens + ReservedFees(book)

(***************************************************************************)
(* No bucket outgrows MAX_SAFE_ACCUMULATION, whichever of fees, forfeits,  *)
(* dust and orphaned commissions fill it, and in whatever order.           *)
(***************************************************************************)
BucketsBounded == WithinBuckets(book)

(***************************************************************************)
(* The commissions are split without gap or overlap between the current    *)
(* epoch and the ended ones.                                               *)
(***************************************************************************)
ReservesPartition ==
  /\ Partitioned(book)
  /\ book.historical = SumOf([e \in Epochs |-> epochBook[e].reserve])

(***************************************************************************)
(* The accumulator never promises more than the reserve holds: all unpaid  *)
(* claims of an epoch, taken before any cap, and its pending dust fit in   *)
(* its reserve.  Rounding, joiners, re-based receipts and distributed dust *)
(* must all round the same way for it (SplitRiskPool.sol:1110-1118,        *)
(* 2031-2034).                                                             *)
(***************************************************************************)
EpochClaims(e) ==
  SumOf([i \in ProtectorIds |-> IF i \in LiveIn(e) THEN Earned(i, book) ELSE 0])

RewardsFunded ==
  /\ EpochClaims(protectorShareEpoch) + book.dust <= book.current
  /\ \A e \in EndedEpochs : EpochClaims(e) <= epochBook[e].reserve

(***************************************************************************)
(* Protector exits, activations and new protection never leave the shield  *)
(* receipts' backing caps without backing.                                 *)
(***************************************************************************)
CollateralCovered == totalShieldCollateralAmount <= totalProtectorTokens

(***************************************************************************)
(* No reserve without an heir: commissions or residual backing of an ended *)
(* epoch stay only while a live receipt of it can still take them, and the *)
(* current epoch keeps commissions only while it has shares.               *)
(***************************************************************************)
NoStrandedReserve ==
  /\ book.current # 0 => totalProtectorShares # 0
  /\ \A e \in EndedEpochs :
       /\ epochBook[e].reserve # 0 => Unsettled(e) # {}
       /\ epochBook[e].backing # 0 => \E i \in LiveIn(e) : ~protectorPos[i].backingSettled

(***************************************************************************)
(* With share units at least as fine as token units, backing always has    *)
(* share holders: shares are never fewer than tokens, and both run out     *)
(* together, so that deactivateDustPool has nothing to sweep.              *)
(***************************************************************************)
SharesCoverTokens ==
  /\ totalProtectorShares >= totalProtectorTokens
  /\ totalProtectorTokens = 0 => totalProtectorShares = 0

(***************************************************************************)
(* The books of every epoch, current or ended: they count exactly the      *)
(* receipts that are there, and hold nothing that none of these receipts   *)
(* can still take.                                                         *)
(***************************************************************************)
EpochBooksExact == SharesExact /\ NoStrandedReserve

(***************************************************************************)
(* No token that the pool tracks is out of everybody's reach: shielded     *)
(* tokens belong to a receipt or a bucket, and backing tokens have share   *)
(* holders.                                                                *)
(***************************************************************************)
NothingOwnerless == NothingStranded /\ SharesCoverTokens

(***************************************************************************)
(* A retired pool (removed from the factory's registry) took nothing with  *)
(* it: no shield liability, no fee, no claim of an ended epoch.            *)
(***************************************************************************)
RetiredPoolOwesNothing ==
  ~poolActive =>
    /\ ~ShieldedExposure
    /\ ReservedFees(book) = 0
    /\ totalBackingTokenBalance = totalProtectorTokens
    /\ \A i \in protectorLive : ExpiredBackingClaim(i) = 0

(***************************************************************************)
(* SplitRiskPoolInvariant.t.sol:1369 of shield receipts: "Existing shield  *)
(* positions should always carry a positive amount".                       *)
(***************************************************************************)
ShieldPositionsCarryAmounts == \A i \in shieldLive : shieldPos[i].amount > 0

(***************************************************************************)
(* SplitRiskPoolInvariant.t.sol:1261-1265 of the backing that no active    *)
(* claim covers: "Active protector rounding dust should stay bounded by    *)
(* position count", which is the next token id (here counted from 1).      *)
(***************************************************************************)
ActiveDustBounded ==
  totalProtectorTokens
    - SumOf([i \in ProtectorIds |-> IF i \in protectorLive THEN ActiveAmount(i) ELSE 0])
  <= nextProtectorId - 1

-----------------------------------------------------------------------------
(* Exits that nothing may block *)

(***************************************************************************)
(* A shield holder can always take the deposit back, less fees, while the  *)
(* pool runs and the oracle answers without dispute.                       *)
(***************************************************************************)
ShieldExitOpen ==
  \A id \in shieldLive :
    /\ ~paused /\ NoChallenge /\ SettlementPrice # 0 /\ shieldPos[id].amount # 0
    => SameAssetExitAllowed(id)

(***************************************************************************)
(* A shield holder past the minimum pool time can always activate: the     *)
(* backing is there, whoever left or activated before.                     *)
(***************************************************************************)
ActivationOpen ==
  \A id \in shieldLive :
    /\ ~paused /\ ~transferIntegrityBroken /\ NoChallenge
    /\ shieldedQuote.fee # 0 /\ backingQuote.price # 0
    /\ shieldPos[id].amount # 0 /\ BackingFromUsd(shieldPos[id].valueAtDeposit) # 0
    /\ now - shieldPos[id].depositTime >= config.minimumPoolTime
    => ActivationAllowed(id)

(***************************************************************************)
(* Once no shield relies on the backing, a protector inside the unlock     *)
(* window can take the whole position, even one worth less than a token.   *)
(***************************************************************************)
ProtectorExitOpen ==
  \A id \in protectorLive :
    /\ ~paused /\ ~ShieldedLiabilities
    /\ ActiveShares(id) # 0 /\ UnlockActive(protectorPos[id].unlockRequestTime)
    => ProtectorExitAllowed(id, ActiveAmount(id))

(***************************************************************************)
(* None of the three ways out of a position is ever closed by what other   *)
(* users did: a shield's own asset, its activation, and a protector's      *)
(* exit.                                                                   *)
(***************************************************************************)
ExitsOpen == ShieldExitOpen /\ ActivationOpen /\ ProtectorExitOpen

-----------------------------------------------------------------------------
(* What a step may never do *)

(***************************************************************************)
(* A protector's backing claim falls by the owner's own withdrawal or by a *)
(* shield activation, never by what another protector does nor by the end  *)
(* of an epoch.                                                            *)
(***************************************************************************)
\* What the claims are computed from: a step that changes none of it need not be looked at.
ClaimTerms == <<protectorPos, epochVars, protectorTotals, book>>

Activates == totalValueAtDeposit' < totalValueAtDeposit /\ totalProtectorTokens' < totalProtectorTokens

BackingClaimsKept ==
  [][ClaimTerms' # ClaimTerms =>
       \A i \in protectorLive \cap protectorLive' :
         protectorPos'[i].shares = protectorPos[i].shares /\ ~Activates
         => PositionAmount(i)' >= PositionAmount(i)]_vars

(***************************************************************************)
(* An earned commission stays claimable to the token until its owner       *)
(* claims, forfeits or leaves, through joiners, exits, activations, dust   *)
(* redirections and the end of the epoch.                                  *)
(***************************************************************************)
EarnedCommissionKept ==
  [][ClaimTerms' # ClaimTerms =>
       \A i \in protectorLive \cap protectorLive' :
         /\ protectorPos'[i].shares = protectorPos[i].shares
         /\ protectorPos'[i].claimed = protectorPos[i].claimed
         /\ protectorPos'[i].debt = protectorPos[i].debt
         => ClaimableCommission(i)' >= ClaimableCommission(i)]_vars

(***************************************************************************)
(* What a protector's receipt can claim, backing and commission, is taken  *)
(* away by nobody else.                                                    *)
(***************************************************************************)
ClaimsKept == BackingClaimsKept /\ EarnedCommissionKept

(***************************************************************************)
(* The same yield is never charged twice: a receipt that has just paid     *)
(* fees owes none at the same quotes, and its high-water mark never falls. *)
(***************************************************************************)
YieldTaxedOnce ==
  [][\A i \in shieldLive \cap shieldLive' :
       /\ Baseline(i)' >= Baseline(i)
       /\ shieldPos'[i].amount < shieldPos[i].amount
          => shieldPos'[i].amount # 0 /\ TotalFees(FeesDue(i, SettlementPrice)') = 0]_vars

(***************************************************************************)
(* A partial exit hands its terms on: same deposit time and cooldown, no   *)
(* more value or collateral than before, and no less than in proportion.   *)
(***************************************************************************)
RemainderKeepsTerms ==
  [][\A i \in shieldLive \ shieldLive', j \in shieldLive' \ shieldLive :
       LET old == shieldPos[i]
           new == shieldPos'[j]
       IN  /\ new.depositTime = old.depositTime /\ lastClaim'[j] = lastClaim[i]
           /\ new.valueAtDeposit <= old.valueAtDeposit
           /\ new.collateralAmount <= old.collateralAmount
           /\ new.valueAtDeposit * old.amount >= old.valueAtDeposit * new.amount
           /\ new.collateralAmount * old.amount >= old.collateralAmount * new.amount]_vars

(***************************************************************************)
(* Every withdrawal of backing consumes one unlock notice: shares fall     *)
(* only inside the window of a matured request, and what is left needs a   *)
(* request of its own.                                                     *)
(***************************************************************************)
OneNoticePerExit ==
  [][\A i \in protectorLive :
       protectorPos'[i].shares < protectorPos[i].shares /\ ~Expired(i)
       => /\ protectorPos[i].unlockRequestTime \in 1..now
          /\ now <= protectorPos[i].unlockRequestTime + UnlockWindow
          /\ protectorPos'[i].unlockRequestTime = 0]_vars

-----------------------------------------------------------------------------
(***************************************************************************)
(* The inductive invariant of the proofs, grouped by what an entry point   *)
(* touches.  The safety properties alone are not inductive: a receipt id   *)
(* must be fresh, an epoch must have been opened by a deposit, and a       *)
(* receipt without value must lock no collateral (the end of an epoch      *)
(* tests the value only).                                                  *)
(***************************************************************************)
CapsHaveValue ==
  \A i \in ShieldIds : shieldPos[i].valueAtDeposit = 0 => shieldPos[i].collateralAmount = 0

ShieldInv ==
  /\ shieldLive \subseteq ShieldIds
  /\ shieldPos \in [ShieldIds -> ShieldPosition]
  /\ feeBaseline \in [ShieldIds -> Nat]
  /\ lastClaim \in [ShieldIds -> Nat]
  /\ nextShieldId \in 1..(MaxShieldId + 1)
  /\ \A i \in shieldLive : i < nextShieldId
  /\ ShieldTotalsExact
  /\ CapsHaveValue

ReceiptInv ==
  /\ protectorLive \subseteq ProtectorIds
  /\ protectorPos \in [ProtectorIds -> ProtectorPosition]
  /\ nextProtectorId \in 1..(MaxProtectorId + 1)
  /\ protectorShareEpoch \in Nat
  /\ totalProtectorShares = SharesOf(LiveIn(protectorShareEpoch))
  /\ \A i \in protectorLive : /\ i < nextProtectorId
                             /\ protectorPos[i].epoch <= protectorShareEpoch
  /\ protectorShareEpoch < nextProtectorId
  /\ totalProtectorShares # 0 => protectorShareEpoch + 1 < nextProtectorId

LedgerInv ==
  /\ book \in Book
  /\ epochBook \in [Epochs -> EpochEntry]
  /\ BucketsBounded
  /\ ReservesPartition

BackingInv ==
  /\ totalProtectorTokens \in Nat
  /\ totalBackingTokenBalance \in Nat
  /\ heldBacking \in Nat
  /\ heldBacking >= totalBackingTokenBalance
  /\ totalBackingTokenBalance =
       totalProtectorTokens + SumOf([e \in Epochs |-> epochBook[e].backing])
  /\ CollateralCovered

CustodyInv ==
  /\ shieldedTokenBalance \in Nat
  /\ heldShielded \in Nat
  /\ heldShielded >= shieldedTokenBalance
  /\ ShieldedCovered

StatusInv ==
  /\ config \in Configs
  /\ {paused, poolActive, transferIntegrityBroken} \subseteq BOOLEAN
  /\ shieldedQuote \in ShieldedQuotes
  /\ backingQuote \in BackingQuotes
  /\ now \in Nat

AccountingInv ==
  ShieldInv /\ ReceiptInv /\ LedgerInv /\ BackingInv /\ CustodyInv /\ StatusInv

=============================================================================
