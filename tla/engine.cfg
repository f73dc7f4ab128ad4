SPECIFICATION Spec
CONSTANTS
  Node = {1, 2, 3}
  Config <- Networks
  MaxRound = 2
  Rank <- Turns
  Points = 2
  MaxWrites = 1
INVARIANTS  SpoiledIsProposed RefusedWhenOvertaken
 
CHECK_DEADLOCK FALSE
