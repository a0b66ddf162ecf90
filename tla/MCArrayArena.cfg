\* Bounds: no array is longer than half the range of a word, so that no
\* capacity wraps when it doubles (HalfRange).
CONSTANTS
  Values = {v1, v2}
  Undef = undef
  SnapIds = {s1}
  BoxIds = {b1}
  Modulus = 8
  MinCapacity = 2
  PopLens = {2}
  ReceiveLens = {0, 1}
  MaxEnd = 3
  MaxBuffers = 2
SYMMETRY ValueSymmetry
SPECIFICATION Spec
INVARIANTS TypeOK InBounds TailUnshared
PROPERTIES WriteOnce ValueSemantics
