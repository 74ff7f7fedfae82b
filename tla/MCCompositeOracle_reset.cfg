CONSTANTS
  f1 = f1
  f2 = f2
  Feeds = {f1, f2}
  NoFeed = NoFeed
  StrictFeeds = {}
  Answers <- TwoAnswers
  Thresholds = {1}
  Durations = {2}
  BasisPointScale = 4
  Cooldown = 1
  OverrideDelay = 1
  OverrideExpiry = 4
  RemovalDelay = 2
  RemovalExpiry = 2
  MaxTime = 8
SPECIFICATION Spec
PROPERTIES
  ResetOfThisActivation
