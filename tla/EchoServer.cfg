CONSTANTS
  Servers = {s1, s2}
  Clients = {c1, c2}
  abc = abc
  ABC = ABC
  Messages <- EchoMessages
  Upper <- Capitals
  NOTHING = NOTHING
  NONE = NONE
  BACKLOG = 0
SPECIFICATION Spec
INVARIANTS
  OwnAnswer
  StartsAfterCrash
PROPERTIES
  LinesAnswered
