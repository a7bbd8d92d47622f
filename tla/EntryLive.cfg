SPECIFICATION FairSpec
CONSTANTS
  a = a
  b = b
  Tokens = {a, b}
  Decisions = 1
  TokenOf <- Single
  StakeOf <- One
  BatchLimit = 2
  LotIds = {l1}
  MaxConcurrent = 1
  MaxExposure = 9
  MaxDrawdown = 1
  MaxPlaced = 2
  Balances = {}
  Losses = {1}
  Faults = {"busy", "close", "patch", "newDay"}
  NoLot = NoLot
  NoToken = NoToken
  NoTask = NoTask
PROPERTIES DrawdownPauses
