CONSTANTS
  MaxId = 2
  MaxWire = 2
  MaxCuts = 2
  MaxAge = 1
SPECIFICATION SpecFresh
INVARIANTS
  FeedTrusted
PROPERTIES
  FeedRecovers
CHECK_DEADLOCK FALSE
