SPECIFICATION Spec
CONSTANTS
  Tokens = {t1}
  SellIds = {1, 2, 3}
  SellPms = {m1, m2, m3}
  Lot = 3
  Entry = 2
  Prices = {1, 3}
  Closers = {}
  PollLimit = 2
  Faults = {"age", "lock"}
  NoOrder = NoOrder
  NoPm = NoPm
  NoToken = NoToken
  NoTask = NoTask
SYMMETRY Symmetric
INVARIANTS NoOversell BooksBalance
