SPECIFICATION Spec
CONSTANTS
  Adapter = {g1, t1, g2}
  g1 = g1
  t1 = t1
  g2 = g2
  Worker = {w1, w2}
  w1 = w1
  w2 = w2
  Profile = {p, q}
  p = p
  q = q
  None = None
  Cleaner = Cleaner
  Process <- MCProcess
  Dir <- MCDir
  Within <- MCWithin
  Uc = {g1, g2}
  Closers = {g1, g2}
  Pid = {n1, n2, n3}
  FaultSites = {"start", "build", "hang", "crash", "death"}
  MaxFaults = 2
INVARIANTS TypeOK LiveBrowserIsLocked NoSelfLockout ClosedBrowserIsGone
PROPERTY KillSparesOthers
SYMMETRY Sym
