CONSTANTS
  Widths <- MCWidths
  WIDE = 4
  LIMB = 1
  BYTE = 2
  PRIME = 73
  FELT = 7
  Ranges <- MCRanges
  CastRanges <- MCCastRanges
  Limbs <- MCLimbs
  Samples <- MCSamples
  Shapes <- MCShapes
  U96 = 2
  Inputs <- MCInputs
  Circuits <- MCCircuits
SPECIFICATION Spec
INVARIANTS Canonical AsInterpreted ValueSurvives CircuitSolved
CHECK_DEADLOCK FALSE
