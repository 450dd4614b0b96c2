SPECIFICATION FairSpec
CONSTANTS
  Conns = {c1, c2}
  MaxSessions = 1
  MaxTurns = 2
INVARIANT HandlersSound
PROPERTIES LastWordIsLast EverythingEnds
CHECK_DEADLOCK FALSE
