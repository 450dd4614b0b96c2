--------------------------- MODULE MCTurnControl ---------------------------
(* TurnControl on small instances.                                         *)
EXTENDS TurnControl, TLC

TokenSymmetry == Permutations(Tokens)
=============================================================================
