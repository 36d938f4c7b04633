SPECIFICATION FairSpec
CONSTANTS
  sell = sell
  Orders <- MCOrders
  Lots <- MCLots
  StartQty = {1}
  CancelOrphans = TRUE
  RecoverOnStart = TRUE
  MaxQueue = 2
  MaxBuffer = 1
  MaxFrames = 2
  MaxBoots = 2
  MaxStarts = 2
INVARIANTS
  
  StartSeesVenue
PROPERTIES
  ViewSettles
CHECK_DEADLOCK FALSE
