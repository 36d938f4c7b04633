CONSTANTS
  r1 = r1
  Request = {r1}
  Enabled = {"consecutive_losses", "reconcile_mismatch"}
  Rounds = 2
  Trades = TRUE
  ReadsFail = TRUE
  ClosesMiss = TRUE
SPECIFICATION FairSpec

  
PROPERTIES
  RearmsFlattenedOnly
  
