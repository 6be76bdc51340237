CONSTANTS
  file1 = file1
  dir = dir
  EMPTY = EMPTY
  NOTHING = NOTHING
  MAX_FILES = 2
  MAX_BLOCKS = 2
  BLOCK_SIZE = 1
  FILE_BLOCKS = 2
  Names <- FileNames
  DIRECTORY = dir
  mem_area <- MarkedMemory
  ZERO = 0
  Counts = {2}
  Positions = {0}
SPECIFICATION LSpec
INVARIANTS
  OwnedBlocksMarked
PROPERTIES
  RestartRestores
  CommandsEnd
