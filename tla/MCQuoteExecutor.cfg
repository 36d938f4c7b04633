CONSTANTS
  Quotes = {1, 2, 3}
  MaxPrice = 2
  Setups <- MCSetups
SPECIFICATION Spec

  
  
PROPERTIES
  WithdrawnQuotesEnd
CHECK_DEADLOCK FALSE
