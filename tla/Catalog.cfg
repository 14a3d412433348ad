SPECIFICATION Spec
CONSTANTS
  a = a  b = b  home = home  index = index  list = list
  Caller = {p, q}
  Id = {a, b}
  Asked = {a, b}
  NoId = none
  Rec <- MCRec
  Partial <- MCPartial
  Whole <- MCWhole
  Page = {home, index, list}
  MemoryPage = {home, index}
  RawPage = {index}
  MaxCalls = 3
  Sites <- MCSites
  Limits = {1, 2, 3}
INVARIANTS TypeOK ServedWhole EpisodesFound
SYMMETRY Alike
