SPECIFICATION FairSpec
CONSTANTS
  MaxGens = 2
  MaxPairs = 2
  Kinds = {"client", "text", "voice"}
  HasInput = TRUE
  PairMayTear = TRUE
INVARIANT WireSound
PROPERTIES NothingAfterCancelled GenerationSettles
CHECK_DEADLOCK FALSE
