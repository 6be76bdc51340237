CONSTANTS
  max_memory_size = 5
  Processes = {p, q}
  FREE = FREE
  Sizes = {0, 1, 2}
  MAX_LIST = 5
SPECIFICATION Spec
INVARIANTS
  Tiling
PROPERTIES
  CompactionComplete
  CompactionEnds
  ImplementsAddressSpace
