CONSTANTS
  MaxShieldId = 2
  MaxProtectorId = 2
  MaxTime = 2
  MaxSurplus = 0
  ShieldedAmounts = {1, 4}
  BackingAmounts = {4}
  ShieldedQuotes <- TwoPrices
  BackingQuotes <- OnePrice
  Configs <- ZeroMinConfigs
  InitialConfig <- PlainConfig
  TokenMayTax = FALSE
  ShieldedScale = 1
  BackingScale = 1
  ShareMultiplier = 1
  ShareDivisor = 1
  MaxRewardShares = 50
  BasisPointScale = 4
  CollateralRatio = 4
  CommissionRate = 2
  PoolFeeRate = 1
  UnlockWindow = 1
  ClaimCooldown = 1
  DeactivationDelay = 1
  RewardPrecision = 5
  MaxSafeAccumulation = 100
SPECIFICATION Spec
INVARIANTS
  ShieldPositionsCarryAmounts
CHECK_DEADLOCK FALSE
