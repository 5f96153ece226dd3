SPECIFICATION FairSpec
CONSTANTS
  Worker = {w1, w2}
  w1 = w1
  w2 = w2
  Keyword = {k1, k2}
  k1 = k1
  k2 = k2
  a = a
  b = b
  c = c
  d = d
  e = e
  None = None
  Supply <- SharedFeeds
  Excluded = {}
  Sorted = TRUE
  PageSize = 1
  MaxPages = 3
  MaxRetries = 1
  Prompt = TRUE
  MaxDrift = 0
  FaultSites = {}
  MaxFaults = 0
  MaxDays = 0
PROPERTY EveryArticleCollected
