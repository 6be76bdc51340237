CONSTANTS
  Lines = {1, 2, 3}
  Matching = {1, 2}
  Files <- SearchFiles
  MISSING = MISSING
  CAPACITY = 2
  END = 0
  MAX_POSTS = 2
SPECIFICATION StreamSpec
INVARIANTS
  AnswersAfterInput
PROPERTIES
  ImplementsLineSearch
  SearchEnds
CHECK_DEADLOCK FALSE
