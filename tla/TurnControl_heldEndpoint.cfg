SPECIFICATION FairSpec
CONSTANTS
  Tokens = {t1}
  MaxGen = 1
  MaxCtx = 1
  PreRoll = 1
  TurnLimit = 1
PROPERTIES EndedTurnResolved
CHECK_DEADLOCK FALSE
