SPECIFICATION FairSpec
CONSTANTS
  pinnacle = pinnacle
  generic = generic
  N = 2
  Threshold = 2
  Direct = Direct
  Scrapers = {pinnacle, generic}
  SportsOf <- OneSport
  GetsOf <- OneGet
  Raising = {generic}
  Keyed = {pinnacle}
  Retries = 2
  OfflineAfter = 2
  QueueSize = 1
INVARIANTS TypeOK RotatesFairly
PROPERTIES KeepsTrying
