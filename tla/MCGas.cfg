SPECIFICATION Spec
CONSTANTS
  Tokens <- MCTokens
  TokenCosts <- MCTokenCosts
  GasWords = 16
  FunctionCost <- MCFunctionCost
  StatementCosts <- MCStatementCosts
  AnyCosts <- MCAnyCosts
  CouponCost <- MCCouponCost
  AccessCost <- MCAccessCost
  Amounts = {0, 4, 9, 17, 36}
  Gives = {0, 1, 9, 15}
  MaxReserves = 2
  MaxCoupons = 1
  MaxAccesses = 3
INVARIANTS
  TypeOK
  Conserved
  UnspentIsWhatRemains
  GasAsInterpreted
CHECK_DEADLOCK FALSE
