SPECIFICATION FairSpecDesk
CONSTANTS
  Names = {"sma", "blend", "flow"}
  Prices = {2, 4}
  Bars <- MCBars
  Tapes <- MCTapes
  MaxLots <- MCMaxLots
  MaxOrders = 1
  MaxStream = 2
  MaxTroubles = 1
  StopGap = 2
  TakeGap = 2
  Recoil = 2
  Backoff = 1
  FastWindow = 1
  SlowWindow = 2
  SmaBar = 1
  SmaCooldown = 0
  SmaLots = 1
  BlendBar = 1
  BlendWarmup = 1
  BlendCooldown = 0
  BlendLots = 2
  EntryScore = 40
  ExitScore = 15
  MinVotes = 1
  TapeEntry = 20
  TapeExit = 6
  TapeFade = 9
  ImbalanceMin = 5
  ConfirmTicks = 1
  ExitTicks = 1
  FlowCooldown = 1
  FlowHold = 2
  FlowStop = 2
  TrailArm = 2
  TrailStop = 1
  FlowLots = 1
INVARIANTS
  MemoryFollows
PROPERTIES
  NoRashOrder
  StopEnds
