CONSTANTS
  MaxShieldId = 2
  MaxProtectorId = 2
  MaxTime = 2
  MaxSurplus = 0
  ShieldedAmounts = {1, 3}
  BackingAmounts = {4}
  ShieldedQuotes <- UnrulyPrices
  BackingQuotes <- MissingPrices
  Configs <- FirmConfigs
  InitialConfig <- FirmConfig
  TokenMayTax = FALSE
  ShieldedScale = 1
  BackingScale = 1
  ShareMultiplier = 1
  ShareDivisor = 1
  MaxRewardShares = 50
  BasisPointScale = 4
  CollateralRatio = 6
  CommissionRate = 2
  PoolFeeRate = 1
  UnlockWindow = 1
  ClaimCooldown = 1
  DeactivationDelay = 1
  RewardPrecision = 3
  MaxSafeAccumulation = 100
SPECIFICATION Spec
INVARIANTS
  TypeOK
  ShieldTotalsExact
  NothingOwnerless
  CollateralCovered
  ExitsOpen
PROPERTIES
  YieldTaxedOnce
  RemainderKeepsTerms
CONSTRAINT
  ExitsScope
CHECK_DEADLOCK FALSE
