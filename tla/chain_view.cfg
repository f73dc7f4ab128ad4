SPECIFICATION Spec
CONSTANTS
  N = 3
  PK = {1, 2}
  Founders = {1}
  Points = 1000
  Universe <- LateDeposit
  Proc = {g1, g2}
  Restarts = FALSE
SYMMETRY Symmetry
INVARIANTS ViewOfTip
CHECK_DEADLOCK FALSE
