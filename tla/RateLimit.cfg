CONSTANTS
  Key = {k1, k2}
  Capacity = 2
  Refill = 2
  IdleTTL = 3
  MaxWatch = 5
SPECIFICATION LimitSpec
INVARIANTS
  RateBound
PROPERTIES
  Implements
