CONSTANTS
  MaxShieldId = 2
  MaxProtectorId = 3
  MaxTime = 3
  MaxSurplus = 1
  ShieldedAmounts = {3}
  BackingAmounts = {4, 5}
  ShieldedQuotes <- OnePrice
  BackingQuotes <- OnePrice
  Configs <- ChangingConfigs
  InitialConfig <- RoomyConfig
  TokenMayTax = TRUE
  ShieldedScale = 1
  BackingScale = 1
  ShareMultiplier = 1
  ShareDivisor = 2
  MaxRewardShares = 50
  BasisPointScale = 4
  CollateralRatio = 4
  CommissionRate = 2
  PoolFeeRate = 1
  UnlockWindow = 1
  ClaimCooldown = 1
  DeactivationDelay = 1
  RewardPrecision = 5
  MaxSafeAccumulation = 100
SPECIFICATION Spec
INVARIANTS
  EpochBooksExact
  ReservesPartition
  RewardsFunded
  CustodyCovered
  RetiredPoolOwesNothing
PROPERTIES
  ClaimsKept
  OneNoticePerExit
CONSTRAINT
  EpochsScope
CHECK_DEADLOCK FALSE
