SPECIFICATION Spec
CONSTANTS
  a = a
  b = b
  Tokens = {a, b}
  Decisions = 2
  TokenOf <- Double
  StakeOf <- Two
  BatchLimit = 2
  LotIds = {l1, l2}
  MaxConcurrent = 2
  MaxExposure = 9
  MaxDrawdown = 1
  MaxPlaced = 2
  Balances = {1}
  Losses = {1}
  Faults = {"ambiguous", "busy", "cancel", "close", "patch", "lock", "newDay"}
  NoLot = NoLot
  NoToken = NoToken
  NoTask = NoTask
SYMMETRY Symmetric
INVARIANTS PlacedIsRecorded
PROPERTIES NoSelfUnpause
