CONSTANTS
  MaxPos = 2
  MaxStream = 3
  FillsFirst = FALSE
  Scale = 12
  Strategy = {"sma", "flow"}
  Takers = {"flow"}
  Entry = 1
  Parent = {1}
  MaxTrades = 2
SPECIFICATION SpecLedger
INVARIANTS
  LegsAddUp
  ClassifiedRight
PROPERTIES
  Settles
CHECK_DEADLOCK FALSE
