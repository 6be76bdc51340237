CONSTANTS
  file1 = file1
  dir = dir
  EMPTY = EMPTY
  MAX_FILES = 2
  MAX_BLOCKS = 2
  BLOCK_SIZE = 2
  FILE_BLOCKS = 2
  Names <- DirectoryNames
  DIRECTORY = dir
  mem_area <- MarkedMemory
  ZERO = 0
  Counts = {2, 5}
  Positions = {0, 1}
SPECIFICATION Spec
INVARIANTS
  TypeOK
  BitmapExact
  BlocksOwnedOnce
  LengthWithinCapacity
  CopyWithinMemArea
PROPERTIES
  ImplementsBlockPool
  WritesStayInFile
