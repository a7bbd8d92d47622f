SPECIFICATION FairSpec
CONSTANTS
  e1 = e1
  e2 = e2
  a = a
  b = b
  c = c
  d = d
  Listed <- ByEndDate
  TagsOf <- Tagged
  TokensOf <- Markets
  SportOf <- Sports
  GenericOf <- Generics
  MetaTags <- Meta
  PageSize = 1
  MaxPages = 3
  MaxTokens = 3
  Quotes <- Bids
  Quoted = {a}
  MaxChanges = 1
  MaxFaults = 1
  NoQuote = NoQuote
INVARIANTS TypeOK NewestIsLastHeard PricedTokensAreListed TicksAreWatched
PROPERTIES FollowsFilters
