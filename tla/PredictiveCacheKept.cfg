SPECIFICATION Spec
CONSTANTS
  c1 = c1  e1 = e1  e2 = e2  t1 = t1  t2 = t2
  u1 = u1  u2 = u2
  Client = {c1}
  Episode = {e1, e2}
  Task = {t1, t2}
  Url <- MCUrl
  SourceKey <- MCSourceKey
  Limit = 1
PROPERTY ActiveEntryKept
