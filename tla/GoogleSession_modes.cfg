SPECIFICATION Spec
CONSTANTS
  Keyword = {k1, k2, k3}
  k1 = k1
  k2 = k2
  k3 = k3
  None = None
  Region <- MCRegion
  Feeds <- MCFeeds
  MaxPages = 3
  FullPage = 2
  PageSize = 3
  Cooldown = 2
  FaultSites = {"start", "hang", "slow", "http", "read"}
  MaxFaults = 3
INVARIANTS TypeOK RegionIsTheKeywords PagesInOrder HangLosesOneUrl
PROPERTIES CooldownRespected OneModePerRun SearchComesBack
