SPECIFICATION Spec
CONSTANTS
  Tokens = {t1, t2}
  MaxGen = 2
  MaxCtx = 2
  PreRoll = 1
  TurnLimit = 1
INVARIANTS TypeOK PendingOwnsOutput PausedOnlyWhilePending EndpointConsistent NoLostWakeup
PROPERTIES RecoveryNeedsCurrentEvidence CommittedTurnIsAnswerable NoAnswerToSupersededTurn ImplementsTurnTaking
CHECK_DEADLOCK FALSE
SYMMETRY TokenSymmetry
