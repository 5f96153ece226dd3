SPECIFICATION FairSpec
CONSTANTS
  Worker = {w1, w2}
  w1 = w1
  w2 = w2
  Keyword = {k1}
  k1 = k1
  k2 = k2
  a = a
  b = b
  c = c
  d = d
  e = e
  None = None
  Supply <- ThreeArticles
  Excluded = {}
  Sorted = FALSE
  PageSize = 1
  MaxPages = 3
  MaxRetries = 1
  Prompt = FALSE
  MaxDrift = 3
  FaultSites = {"bot", "store", "clear", "log", "count", "reschedule", "flag", "errlog", "death"}
  MaxFaults = 2
  MaxDays = 1
PROPERTIES RunEnds KeywordComesBack
