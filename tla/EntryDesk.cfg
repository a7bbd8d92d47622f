SPECIFICATION Spec
CONSTANTS
  a = a
  b = b
  Tokens = {a, b}
  Decisions = 4
  TokenOf <- Again
  StakeOf <- Four
  BatchLimit = 2
  LotIds = {l1, l2, l3, l4}
  MaxConcurrent = 2
  MaxExposure = 9
  MaxDrawdown = 9
  MaxPlaced = 2
  Balances = {}
  Losses = {0}
  Faults = {"crash", "ambiguous"}
  NoLot = NoLot
  NoToken = NoToken
  NoTask = NoTask
SYMMETRY Symmetric
INVARIANTS TypeOK ConcurrencyCap OneBatchPerToken PlacedIsRecorded
