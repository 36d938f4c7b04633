CONSTANTS
  c1 = c1
  c2 = c2
  Caller = {c1, c2}
  MaxWorking = 3
  Period = 2
  Capacity = 1
  Speed = 4
  Burst = 3
  MaxOrders = 1
  MaxRejects = 2
  Cooldown = 1
SPECIFICATION GuardSpec
INVARIANTS
  WithinRate
  OverrunBounded
PROPERTIES
  GuardReturns
