CONSTANTS
  f1 = f1
  f2 = f2
  Feeds = {f1, f2}
  NoFeed = NoFeed
  StrictFeeds = {f1}
  Answers <- AllAnswers
  Thresholds = {1}
  Durations = {1, 2}
  BasisPointScale = 4
  Cooldown = 1
  OverrideDelay = 1
  OverrideExpiry = 4
  RemovalDelay = 2
  RemovalExpiry = 2
  MaxTime = 5
SPECIFICATION Spec
INVARIANTS
  OneDispute
  PriceUndisputed
  AgreementServes
  StrictRouteKept
PROPERTIES
  NoticeGiven
  ChallengeTermsKept
