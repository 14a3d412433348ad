SPECIFICATION Spec
CONSTANTS
  w1 = w1  w2 = w2  r1 = r1  r2 = r2  e1 = e1
  u1 = u1  u2 = u2  u3 = u3  f1 = f1  f2 = f2
  Worker = {w1, w2}
  Reader = {r1}
  Episode = {e1}
  Url = {u1}
  SourceKey <- MCSourceKey
  Length <- MCLength
  Answer <- MCExact
  Cap = 1
  HeadBytes <- MCHeadOne
  TailBytes <- MCResized
  Header <- MCTailHeader
  Tiered = TRUE
  Purging = FALSE
INVARIANT ServedBytesRight
