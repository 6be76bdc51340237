CONSTANTS
  l = l
  ls = ls
  l_and = l_and
  ls_and = ls_and
  exitx = exitx
  space = space
  no = no
  no_1 = no_1
  no_15 = no_15
  last_x = last_x
  EMPTY = EMPTY
  LAST = LAST
  EXIT = EXIT
  HISTORY = HISTORY
  Texts <- AllTexts
  Blanks <- White
  Number <- Numbers
  Background <- InBackground
  FirstWord <- Words
  Cut <- CutOff
  HISTORY_MAX_SIZE = 3
  MAX_JOBS = 4
SPECIFICATION Spec
INVARIANTS
  HistoryIsWhatRan
  WaitsInStead
PROPERTIES
  PromptReturns
  LeftoversRunOut
CHECK_DEADLOCK FALSE
