CONSTANTS
  r1 = r1
  r2 = r2
  Request = {r1, r2}
  Enabled = {}
  Rounds = 1
  Trades = FALSE
  ReadsFail = FALSE
  ClosesMiss = TRUE
SPECIFICATION FairSpec
PROPERTIES
  RequestsReturn
