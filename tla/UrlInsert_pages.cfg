SPECIFICATION FairSpec
CONSTANTS
  Worker = {w1, w2}
  w1 = w1
  w2 = w2
  Host = {"site", "SITE", "elsewhere", "[bad"}
  Malformed = {"[bad"}
  Lower <- MCLower
  Port = {"", ":80"}
  DefaultPort = {"", ":80"}
  NoPort = ""
  Path = {p1, p2}
  p1 = p1
  p2 = p2
  NoParams = NoParams
  Params = {NoParams}
  Name = {id, lang, utm}
  id = id
  lang = lang
  utm = utm
  Tracking = {utm}
  Utm = {utm}
  Value = {one, euckr, mark, Blank}
  one = one
  euckr = euckr
  mark = mark
  Blank = Blank
  Decoded <- MCDecoded
  Row = {r1, r2}
  r1 = r1
  r2 = r2
  NoRow = NoRow
  Failed = Failed
  None = None
  Raw <- MCRaw
  Pages <- MCPages
  MaxCalls = 3
  MaxFaults = 1
  MaxEdits = 1
INVARIANTS TypeOK NewRowsAreCounted
PROPERTIES FirstDiscoveryWins PageIsStored StoreSpec CallReturns
