CONSTANTS
  Costs = {c0, c1}
  DefaultCosts = c0
  MaxDepth = 3
  MaxCalls = 3
  MaxDicts = 2
  MaxBlake = 1
SPECIFICATION Spec
INVARIANTS TypeOK NoDangling NoLeak JumpTargetLive HandlerAlive
PROPERTY Isolated
\* The number of invocations is bounded, and a process may die.
CHECK_DEADLOCK FALSE
