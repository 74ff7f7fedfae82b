SPECIFICATION FairSpec
CONSTANTS
  Requests = {r1, r2}
  MaxAge = 3
  CacheAge = 1
  FeedAge = 1
  ReadLimit = 1
PROPERTIES
  AnswersCurrent
  RequestsServed
