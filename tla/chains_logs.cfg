SPECIFICATION MCSpec
SYMMETRY Symmetry
CONSTANTS
  Id = {1, 2}
  WeightPoints = 12
  Params <- MCParams
  MaxRound = 3
  Word = 16
  PK = {p1, p2}
  Tokens = {0, 1, 2, 3}
  MaxBlocks = 4
  MaxPending = 1
  MaxWalked = 2
  Designs = {"wall", "topn", "bchain", "tt", "tlog", "tlog_old"}
  BlockId = {10, 20}
  Vote = {1, 2, 3}
  Dep <- MCDep
  Nil = 0
  Copies <- MCCopies
  Solves = {{1, 2}, {3}}
  PathBase = 2
  MaxRecords = 7
  Heights = {1, 2}
  MaxOldRecords = 7
INVARIANTS
  
  WallDepositsStayLocked
  
  WallMintFindsDeposit
  TopNSyncStraightLine
  BChainWalkIsBranch
  TTDependenciesFirst
  TTNoCombinationMissed
  LogIsMerkleTree
  LogProofsExact
  TileReadsProven
CHECK_DEADLOCK FALSE
