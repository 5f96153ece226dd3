SPECIFICATION FairSpec
CONSTANTS
  Worker = {w1, w2}
  w1 = w1
  w2 = w2
  Keyword = {k1, k2, k3}
  k1 = k1
  k2 = k2
  k3 = k3
  None = None
  Scope <- TwoScopes
  Priority <- Ranked
  Interval <- OneInterval
  RetryDelay = 6
  RunBound = 1
  IdleBound = 1
  LateBound = 2
  MaxDisturbances = 2
PROPERTY DueIsRun
