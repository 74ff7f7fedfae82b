CONSTANTS
  f1 = f1
  f2 = f2
  Feeds = {f1, f2}
  NoFeed = NoFeed
  StrictFeeds = {}
  Answers <- UpOrDown
  Thresholds = {1}
  Durations = {1}
  BasisPointScale = 4
  Cooldown = 1
  OverrideDelay = 1
  OverrideExpiry = 4
  RemovalDelay = 2
  RemovalExpiry = 2
  MaxTime = 3
SPECIFICATION Spec
INVARIANTS
  DegradedFallbackServed
