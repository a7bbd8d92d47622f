SPECIFICATION Spec
CONSTANTS
  Tokens = {t1, t2}
  SellIds = {1, 2}
  SellPms = {m1, m2}
  Lot = 2
  Entry = 2
  Prices = {1}
  Closers = {c1}
  PollLimit = 2
  Faults = {"delist"}
  NoOrder = NoOrder
  NoPm = NoPm
  NoToken = NoToken
  NoTask = NoTask
SYMMETRY Symmetric
INVARIANTS NoShareVanishes CancelledFillsRecorded
