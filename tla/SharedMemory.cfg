CONSTANTS
  NUM_THREADS = 2
  LINE_SIZE = 3
  Lines = {1, 2, 3}
  Matching = {1, 2}
  Files <- SearchFiles
  MAX_POSTS = 2
SPECIFICATION Spec
INVARIANTS
  TakesTurns
  NoMatchLost
  CleanRunsRight
PROPERTIES
  RunsEnd
