CONSTANTS
  N = 6
  Numbers = {1, 2, 3}
SPECIFICATION Spec
INVARIANTS
  StaysInHalf
  ResultSorted
PROPERTIES
  SortEnds
CHECK_DEADLOCK FALSE
