SPECIFICATION MCSpec
CONSTANTS
  Moods <- MCMoods
  MaxLots = 2
  ExitLots = 2
  HardLots = 2
  JumpFlatten = FALSE
  SameSide = 2
  MaxHold = 3
  ExitStale = 2
  SideHalt = 1
  VolPause = 1
  RejectHalt = 1
  Cooldown = 1
  MaxFrames = 1
  Listed <- MCListed
  Pins <- MCPins
  PairLegs <- MCPairLegs
  UniverseCap = 2
  SmaCap = 1
  Scan <- MCScan
  Adverse <- MCAdverse
  Markets <- MCMarkets
  Micros <- MCMicros
  Configured <- MCConfigured
  CheckEvery = 0
  RefreshEvery = 1
  ReportTtl = 1
  SwapEvery = 0
  MaxSwaps = 1
  MaxFailures = 1
  MaxHeld = 1
  BootModes = {"mm2", "all"}
INVARIANTS
  HoldClock
  BestChosen
  StreamsMatch
PROPERTIES
  HeldEnds
  QuotesReturn
  HeldIsFollowed
