CONSTANTS
  o1 = o1
  Orders = {o1}
  MaxQty = 2
  MaxCalls = 6
  MaxFrames = 6
  MaxSeen = 3
  CancelOrphans = TRUE
  SkipWhenFresh = TRUE
  LocalOnlyLimit = 3
SPECIFICATION FairReconciler
INVARIANTS
  FilledNeverAhead
  NoFillForgotten
PROPERTIES
  FinalOnceSubmitted
  ImplementsFillFeed
  ClosedOrderSettles
  StrayOrderEnds
