SPECIFICATION Spec
CONSTANTS
  c1 = c1  c2 = c2  x1 = x1
  Worker = {w1, w2}
  Ref <- MCRef
  Uuid = {u1, u2}
  NoRef = none
  Token = {k1}
  Meta <- MCMeta
  PublicRPM = 2
  MaxMinute = 1
  MaxRow = 2
  Histories <- MCHistories
  Watchlists <- MCWatchlists
  Details <- MCDetails
INVARIANTS TypeOK HandedResolve SavesInOrder ContinueRight
PROPERTY AliasesRegister
SYMMETRY Alike
