SPECIFICATION Spec
CONSTANTS
  z = z
  a = a
  b = b
  withConstructor = withConstructor
  plain = plain
  f = f
  g = g
  Unknown = unknown
  None = none
  Zero = z
  Addresses = {z, a, b}
  Declared <- MCDeclared
  AddressOf <- MCAddressOf
  Selectors = {f, g}
  Keys = {k}
  Values = {1}
  Salts = {s}
  EntryPointCost = 10000
  EntryRequired = 12000
  Budgets = {130000, 14000000}
  Leftovers = {62000}
  MaxDepth = 3
  MaxSyscalls = 3
INVARIANTS
  TypeOK
  ContextIsInnermost
  RegisteredIsDeclared
  GasNeverCreated
PROPERTIES
  OnlyOwnState
CHECK_DEADLOCK FALSE
