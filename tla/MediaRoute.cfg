SPECIFICATION LiveSpec
CONSTANTS
  e1 = e1  p1 = p1  p2 = p2  r1 = r1  t1 = t1  f1 = f1  f2 = f2  none = none
  Episode = {e1}
  Player = {p1, p2}
  Resolver = {}
  Task = {t1}
  Caller = {p1, p2, t1}
  Offer <- MCOffer
  Asked <- MCAsked
  NoEpisode = none
  AllowedFile = {f1}
  Lives = {3}
  Margin = 1
  Url <- MCUrl
  OtakuPages <- MCOtakuPages
  KuraPages <- MCKuraPages
  StreamTTL = 2
  MaxTime = 0
  MaxBuffered = 2
INVARIANTS OneUpstream FollowersLed
PROPERTIES RepliesFit RequestsReturn
