SPECIFICATION Spec
CONSTANTS
  Programs <- MCPrograms
  Inputs = {0, 1, 2}
  Libfunc <- MCLibfunc
  DepthModulus = 16
INVARIANTS
  ModuleVerifies
PROPERTIES
  RunsTheProgram
  CompilesAndAnswers
CHECK_DEADLOCK FALSE
