SPECIFICATION ManualFairSpec
CONSTANTS
  Worker = {w1}
  w1 = w1
  Script = {s1}
  s1 = s1
  Keyword = {k1}
  k1 = k1
  a = a
  b = b
  c = c
  d = d
  e = e
  None = None
  Supply <- OneFeed
  Excluded = {c}
  Sorted = TRUE
  PageSize = 3
  MaxPages = 2
  PageLimits = {2}
  MaxManual = 1
  MaxRetries = 1
  Prompt = TRUE
  MaxDrift = 1
  FaultSites = {"http403", "bot", "other", "store", "clear", "log"}
  MaxFaults = 2
  MaxDays = 1
INVARIANTS ManualTypeOK NoGapLeft EarlyStopIsComplete RetryIsFullScan RetryBudget ScanIsUnbroken
PROPERTY EveryArticleCollected
