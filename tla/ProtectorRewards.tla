-------------------------- MODULE ProtectorRewards --------------------------
(***************************************************************************)
(* The commission ledger of SplitRiskPool.sol as operators on a book: the  *)
(* fee buckets, the reward-per-share accumulator, the pending dust and the *)
(* split of the commissions between the current share epoch and the        *)
(* expired ones.  Each internal function of the contract that rewrites the *)
(* ledger is one operator from book to book, so that an entry point        *)
(* composes them in the order of the code.                                 *)
(*                                                                         *)
(* shares and tokens are totalProtectorShares and totalProtectorTokens.    *)
(***************************************************************************)
EXTENDS PoolMath

CONSTANTS
  RewardPrecision,     \* REWARD_PRECISION
  MaxSafeAccumulation  \* MAX_SAFE_ACCUMULATION, the cap of every fee bucket

ASSUME RewardAssumption ==
  /\ RewardPrecision \in Nat \ {0}
  /\ MaxSafeAccumulation \in Nat

Book == [commissions : Nat,  \* accumulatedCommissions
         poolFee     : Nat,  \* accumulatedPoolFee
         protocolFee : Nat,  \* accumulatedProtocolFee
         current     : Nat,  \* currentEpochCommissionReserve
         historical  : Nat,  \* historicalCommissionReserve
         dust        : Nat,  \* pendingProtectorRewardDust
         rps         : Nat]  \* rewardPerShareAccumulated

EmptyBook == [commissions |-> 0, poolFee |-> 0, protocolFee |-> 0,
              current |-> 0, historical |-> 0, dust |-> 0, rps |-> 0]

\* getReservedFees
ReservedFees(b) == b.poolFee + b.protocolFee + b.commissions

\* No bucket above its cap; no gap or overlap between the current epoch and the ended ones
WithinBuckets(b) ==
  /\ b.poolFee <= MaxSafeAccumulation
  /\ b.protocolFee <= MaxSafeAccumulation
  /\ b.commissions <= MaxSafeAccumulation
Partitioned(b) == b.commissions = b.current + b.historical

\* What the buckets can still take: redirections beyond it are dropped.
ProtocolRoom(b) == Monus(MaxSafeAccumulation, b.protocolFee)

-----------------------------------------------------------------------------
\* The accumulator step that amount is worth, and the whole tokens it stands for.
Increment(amount, shares) == MulDiv(amount, RewardPrecision, shares)
RepresentedFloor(inc, shares) == MulDiv(inc, shares, RewardPrecision)
Represented(inc, shares) == MulDivCeil(inc, shares, RewardPrecision)

\* _tryDistributePendingProtectorRewardDust
DistributeDust(b, shares, tokens) ==
  LET inc == Increment(b.dust, shares)
  IN  IF b.dust = 0 \/ shares = 0 \/ tokens = 0 \/ inc = 0 THEN b
      ELSE [b EXCEPT !.rps  = @ + inc,
                     !.dust = Monus(@, Represented(inc, shares))]

\* The dust that _redirectPendingProtectorRewardDust turns into protocol fee.
RedirectableDust(b) == Least(b.dust, Least(b.commissions, b.current))

DustFits(b) ==
  RedirectableDust(b) # 0 => b.protocolFee + RedirectableDust(b) <= MaxSafeAccumulation

\* Variant that moves the dust and leaves the epoch's reserve as it was.
RedirectDustKeepingReserve(b) ==
  [b EXCEPT !.dust = 0,
            !.commissions = @ - RedirectableDust(b),
            !.protocolFee = @ + RedirectableDust(b)]

\* _redirectPendingProtectorRewardDust, when it does not revert (DustFits)
RedirectDust(b) ==
  [b EXCEPT !.dust = 0,
            !.commissions = @ - RedirectableDust(b),
            !.current     = @ - RedirectableDust(b),
            !.protocolFee = @ + RedirectableDust(b)]

-----------------------------------------------------------------------------
NoShareHolders(shares, tokens) == shares = 0 \/ tokens = 0

\* The revert conditions of _accumulateProtectorReward
RewardFits(b, shares, tokens, reward) ==
  \/ reward = 0
  \/ /\ NoShareHolders(shares, tokens)
     /\ reward <= ProtocolRoom(b)
  \/ /\ ~NoShareHolders(shares, tokens)
     /\ b.commissions + reward <= MaxSafeAccumulation

(***************************************************************************)
(* _accumulateProtectorReward, when it does not revert (RewardFits): with  *)
(* nobody to share it the reward becomes protocol fee; otherwise it joins  *)
(* the pending dust, the accumulator takes the floor, and the dust keeps   *)
(* what the rounded-up represented amount leaves.                          *)
(***************************************************************************)
AccumulateReward(b, shares, tokens, reward) ==
  LET distributable == b.dust + reward
      inc == Increment(distributable, shares)
  IN  IF reward = 0 THEN b
      ELSE IF NoShareHolders(shares, tokens)
           THEN [b EXCEPT !.protocolFee = @ + reward]
           ELSE [b EXCEPT !.rps = @ + inc,
                          !.dust = Monus(distributable, Represented(inc, shares)),
                          !.commissions = @ + reward,
                          !.current = @ + reward]

-----------------------------------------------------------------------------
\* Variant that pays the protocol and keeps the commission.
OrphanCountedTwice(b, amount) ==
  [b EXCEPT !.protocolFee = @ + Least(amount, ProtocolRoom(b))]

\* Commissions without an owner become protocol fee, up to the room left there.
Orphan(b, amount) ==
  [b EXCEPT !.commissions = @ - amount,
            !.protocolFee = @ + Least(amount, ProtocolRoom(b))]

\* _redirectCurrentEpochOrphanedCommissions
RedirectOrphaned(b, shares) ==
  IF shares # 0 \/ b.current = 0 THEN b
  ELSE Orphan([b EXCEPT !.dust = 0, !.current = 0],
              Least(b.current, b.commissions))

\* _redirectHistoricalEpochDust for an epoch whose reserve is left without shares
RedirectHistorical(b, reserve) ==
  LET orphaned == Least(reserve, Least(b.historical, b.commissions))
  IN  Orphan([b EXCEPT !.historical = @ - orphaned], orphaned)

\* The book side of _expireProtectorShareEpochIfDrained
ExpireBook(b) ==
  [b EXCEPT !.historical = @ + b.current, !.current = 0, !.dust = 0]

\* A commission leaves the ledger: _claimCommissionTo and _forfeitCommission
PayCommission(b, paid, expired) ==
  [b EXCEPT !.commissions = @ - paid,
            !.historical = IF expired THEN Monus(@, paid) ELSE @,
            !.current    = IF expired THEN @ ELSE Monus(@, paid)]
=============================================================================
