SPECIFICATION Spec
CONSTANTS
  Node = {1, 2, 3}
  Config <- RivalsOnly
  MaxRound = 2
  Rank <- Turns
  Points = 2
  MaxWrites = 1
INVARIANTS TipsAgree
CHECK_DEADLOCK FALSE
