SPECIFICATION FairSpec
CONSTANTS
  Tokens = {t1, t2}
  SellIds = {1, 2}
  SellPms = {m1, m2}
  Lot = 1
  Entry = 2
  Prices = {1}
  Closers = {}
  PollLimit = 1
  Faults = {"age", "noEcho"}
  NoOrder = NoOrder
  NoPm = NoPm
  NoToken = NoToken
  NoTask = NoTask
PROPERTIES CancelledOrDone
