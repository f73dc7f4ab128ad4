SPECIFICATION Spec
CONSTANTS
  Node = {1, 2, 3}
  Config <- LateOnly
  MaxRound = 2
  Rank <- Turns
  Points = 2
  MaxWrites = 1
PROPERTIES OldBlocksAccepted
CHECK_DEADLOCK FALSE
