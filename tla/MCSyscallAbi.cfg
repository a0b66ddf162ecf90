SPECIFICATION Spec
CONSTANTS
  InputWords <- MCInputWords
  InputBlocks <- MCInputBlocks
  Answers <- MCAnswers
  InitialGas = 1
  MaxResults = 2
INVARIANT SameQuestion
INVARIANT SameContinuation
PROPERTY SyscallIsHandlerCall
CHECK_DEADLOCK FALSE
