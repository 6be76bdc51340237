CONSTANTS
  N = 4
  SUBGRID_SIZE = 2
  Puzzles <- SmallPuzzles
SPECIFICATION Spec
INVARIANTS
  VerdictRight
  EitherWay
PROPERTIES
  Concludes
CHECK_DEADLOCK FALSE
