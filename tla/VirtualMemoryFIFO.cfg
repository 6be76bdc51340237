CONSTANTS
  PAGES = 5
  TLB_SIZE = 2
  ENTRIES = 3
  ZEROS = ZEROS
  MAX_TIME = 8
SPECIFICATION FIFOSpec
INVARIANTS
  ReadsMiddlePages
PROPERTIES
  FirstInFirstOut
CHECK_DEADLOCK FALSE
