SPECIFICATION Spec
CONSTANTS
  PmEvents <- Game
  Exts <- Swapped
  Bridges <- OneSport
  Similar <- Alike
  Window = 2
  Horizon = 2
  Times = {2, 3}
  Known <- OneKnown
  MaxListings = 2
  MaxNow = 1
  Tokens <- Pair
  Weights <- SharpAndSoft
  BooksOf <- TwoBooks
  Markets <- Lists
  Prices <- Few
  MaxAge = 0
  MinToGame = 2
  MaxToGame = 2
  EvPercent = 3
  MinDepth = 1
  MaxScrapes = 2
INVARIANTS EveryBuyIsBacked
