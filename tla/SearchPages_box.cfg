SPECIFICATION Spec
CONSTANTS
  Source = {"tinhte_forum"}
  Keyword = {k1, k2}
  k1 = k1
  k2 = k2
  None = None
  Link = {a1, b1, c1, p1, q1, r1, d1, f1, x1, old, naive}
  a1 = a1
  b1 = b1
  c1 = c1
  p1 = p1
  q1 = q1
  r1 = r1
  d1 = d1
  f1 = f1
  x1 = x1
  old = old
  naive = naive
  Kind <- MCKind
  Date <- MCDate
  Final <- MCFinal
  Listings <- MCListings
  PageSize = 2
  MaxPages = 3
  FaultSites = {"return"}
  MaxFaults = 1
INVARIANT BoxErrorMeansBlock
