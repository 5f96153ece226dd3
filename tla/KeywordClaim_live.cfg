SPECIFICATION FairSpec
CONSTANTS
  Worker = {w1, w2}
  w1 = w1
  w2 = w2
  Keyword = {k1, k2}
  k1 = k1
  k2 = k2
  None = None
  Scope <- AllScope
  Interval <- MCInterval
  Priority <- MCPriority
  RetryDelay = 2
  Skew = 0
  Limit = 2
  TxnBound = 0
  Overrun = FALSE
  RunNow = TRUE
  MaxTime = 1
  MaxDisturbances = 2
PROPERTY ClaimReturns
