CONSTANTS
  MaxShieldId = 2
  MaxProtectorId = 2
  MaxTime = 2
  MaxSurplus = 0
  ShieldedAmounts = {3}
  BackingAmounts = {4}
  ShieldedQuotes <- OnePrice
  BackingQuotes <- OnePrice
  Configs <- OneConfig
  InitialConfig <- PlainConfig
  TokenMayTax = FALSE
  ShieldedScale = 1
  BackingScale = 1
  ShareMultiplier = 1
  ShareDivisor = 3
  MaxRewardShares = 50
  BasisPointScale = 4
  CollateralRatio = 4
  CommissionRate = 2
  PoolFeeRate = 1
  UnlockWindow = 1
  ClaimCooldown = 1
  DeactivationDelay = 1
  RewardPrecision = 5
  MaxSafeAccumulation = 100
SPECIFICATION Spec
INVARIANTS
  ActiveDustBounded
CHECK_DEADLOCK FALSE
