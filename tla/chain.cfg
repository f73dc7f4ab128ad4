SPECIFICATION Spec
CONSTANTS
  N = 3
  PK = {1, 2}
  Founders = {1}
  Points = 1000
  Universe <- Blocks
  Proc = {g1, g2}
  Restarts = TRUE
SYMMETRY Symmetry
INVARIANTS StoreConsistent WeightsExact ViewOfTipAlone
CHECK_DEADLOCK FALSE
