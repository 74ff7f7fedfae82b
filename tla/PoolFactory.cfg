CONSTANTS
  Timelocks = {t0, t1, t2}
  FirstTimelock = t0
  NoTimelock = none
  MAX_POOLS = 2
  MaxPools = 2
  MaxEpoch = 3
SPECIFICATION Spec
INVARIANTS
  RegistryExact
  RemainingExact
PROPERTIES
  StageHolds
CHECK_DEADLOCK FALSE
