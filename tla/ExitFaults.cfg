SPECIFICATION Spec
CONSTANTS
  Tokens = {t1}
  SellIds = {1, 2}
  SellPms = {m1, m2}
  Lot = 2
  Entry = 2
  Prices = {1}
  Closers = {}
  PollLimit = 2
  Faults = {"age", "noEcho", "ambiguous", "crash", "shutdown", "lock", "delist"}
  NoOrder = NoOrder
  NoPm = NoPm
  NoToken = NoToken
  NoTask = NoTask
SYMMETRY Symmetric
INVARIANTS TypeOK ExitLinked LedgerNeverAhead LiveOrdersKnown
PROPERTIES HistoryStands ExitsOnlyOpenPositions ImplementsPortfolio
