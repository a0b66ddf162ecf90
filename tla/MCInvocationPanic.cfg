CONSTANTS
  Costs = {c0, c1}
  DefaultCosts = c0
  MaxDepth = 3
  MaxCalls = 3
  MaxDicts = 2
  MaxBlake = 1
SPECIFICATION Spec
INVARIANT FaultBecomesError
CHECK_DEADLOCK FALSE
