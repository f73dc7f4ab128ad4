---------------------------- MODULE MCChainsLogs -----------------------------
(***************************************************************************)
(* The designs of a chain that rank blocks in rounds, and the logs, side   *)
(* by side: a behaviour is one of the wall chain, of the topn chain, of    *)
(* the chain of the btree design, of the tt engine, of the transparency    *)
(* log or of the first log it replaced.  They share the variables that     *)
(* have one name.                                                          *)
(***************************************************************************)
EXTENDS Wall, TLC

CONSTANTS PK, Tokens, MaxBlocks, MaxPending, MaxWalked, Designs,
          BlockId, Vote, Dep, Nil, Copies, Solves,
          PathBase, MaxRecords, MaxOldRecords, Heights

VARIABLES design, curr, tipw, start, sync, stored, walk,
          inbox, reader, defers, tasks, chain, tips, mined, out,
          n, file, off, low, h, size, dir, tree, got, recf, idxf, lvlf, recs

topn   == INSTANCE TopN   WITH Points <- WeightPoints, MaxRound <- 2
bchain == INSTANCE BChain WITH Points <- WeightPoints, MaxRound <- 2
tt     == INSTANCE TwoTower
tlog   == INSTANCE TLogStore
old    == INSTANCE OldLog WITH
            Record <- {<<>>, <<1>>, <<1, 2>>}, MaxRecords <- MaxOldRecords

topnVars   == <<curr, tipw, start, sync>>
bchainVars == <<stored, walk>>
wallVars   == <<params, rounds, idns, maxr>>
ttVars     == <<inbox, reader, defers, tasks, chain, tips, mined, out>>
tlogVars   == <<n, file, off, low, h, size, dir, tree, got>>
oldVars    == <<recf, idxf, lvlf, recs>>
mcvars     == <<vars, design, topnVars, bchainVars, ttVars, tlogVars, oldVars>>

\* Transfers and deposits on short chains; every shape of two rounds of two
\* voters; blocks of three rounds in any order.
MCParams ==
  {[ttl |-> 2, lock |-> 2, blocks |-> 3, trs |-> 2, pending |-> 2, rounds |-> 3],
   [ttl |-> 3, lock |-> 3, blocks |-> 4, trs |-> 0, pending |-> 1, rounds |-> 2],
   [ttl |-> 4, lock |-> 4, blocks |-> 3, trs |-> 0, pending |-> 1, rounds |-> 3]}

\* Of the tt engine: block 10, a block on it, votes for both; block 10 comes twice.
MCDep    == 10 :> 0 @@ 20 :> 10 @@ 1 :> 10 @@ 2 :> 10 @@ 3 :> 20
MCCopies == 10 :> 2 @@ 20 :> 1 @@ 1 :> 1 @@ 2 :> 1 @@ 3 :> 1

WallOff   == params = 0 /\ rounds = 0 /\ idns = 0 /\ maxr = 0
TopNOff   == curr = 0 /\ tipw = 0 /\ start = 0 /\ sync = FALSE
BChainOff == stored = {} /\ walk = 0

ChainsOff == WallOff /\ TopNOff /\ BChainOff /\ minted = 0 /\ blocks = {}
             /\ weights = 0 /\ tip = 0
TTOff     == inbox = 0 /\ reader = 0 /\ defers = 0 /\ tasks = 0 /\ chain = 0 /\ tips = 0
             /\ mined = 0 /\ out = 0
TLogOff   == n = 0 /\ file = 0 /\ off = 0 /\ low = 0 /\ h = 0 /\ size = 0 /\ dir = 0
             /\ tree = 0 /\ got = 0
OldOff    == recf = 0 /\ idxf = 0 /\ lvlf = 0 /\ recs = 0

MCInit ==
  /\ design \in Designs
  /\ \/ design = "wall" /\ Init /\ TopNOff /\ BChainOff /\ TTOff /\ TLogOff /\ OldOff
     \/ design = "topn" /\ topn!Init /\ WallOff /\ BChainOff /\ TTOff /\ TLogOff /\ OldOff
     \/ /\ design = "bchain" /\ bchain!Init
        /\ WallOff /\ TopNOff /\ blocks = {} /\ TTOff /\ TLogOff /\ OldOff
     \/ design = "tt" /\ tt!Init /\ ChainsOff /\ TLogOff /\ OldOff
     \/ design = "tlog" /\ tlog!Init /\ ChainsOff /\ TTOff /\ OldOff
     \/ design = "tlog_old" /\ old!Init /\ ChainsOff /\ TTOff /\ TLogOff

MCNext ==
  /\ UNCHANGED design
  /\ \/ /\ design = "wall" /\ Next
        /\ UNCHANGED <<topnVars, bchainVars, ttVars, tlogVars, oldVars>>
     \/ /\ design = "topn" /\ topn!Next
        /\ UNCHANGED <<wallVars, bchainVars, ttVars, tlogVars, oldVars>>
     \/ /\ design = "bchain" /\ bchain!Next
        /\ UNCHANGED <<wallVars, topnVars, blocks, ttVars, tlogVars, oldVars>>
     \/ /\ design = "tt" /\ tt!Next
        /\ UNCHANGED <<vars, topnVars, bchainVars, tlogVars, oldVars>>
     \/ /\ design = "tlog" /\ tlog!Next
        /\ UNCHANGED <<vars, topnVars, bchainVars, ttVars, oldVars>>
     \/ /\ design = "tlog_old" /\ old!Next
        /\ UNCHANGED <<vars, topnVars, bchainVars, ttVars, tlogVars>>

MCSpec == MCInit /\ [][MCNext]_mcvars

Symmetry == Permutations(PK)

\* The weights of blocks do not depend on the order in which they arrived, although
\* they are only updated from the round of an arrival on, and no block outweighs the
\* mark that the tip was chosen by (selectLongestChain in wall, Append in topn,
\* longestChain in bchain).
ChainWeightsExact ==
  /\ design = "wall" => WeightsExact
  /\ design = "topn" => topn!WeightsExact /\ topn!TipwIsHighMark
  /\ design = "bchain" => bchain!WeightsExact /\ bchain!TipIsHighMark

\* A deposit that backs a block stays locked (UsableDepositFor, Tr.Verify).
WallDepositsStayLocked == design = "wall" => DepositsStayLocked

\* A branch consumes an output once and holds the currency of the genesis block
\* (indexUTRO, Tr.Verify).
WallSupplyConserved == design = "wall" => NoDoubleSpend /\ SupplyConserved

\* Mint finds a deposit exactly when there is one (findDeposit).
WallMintFindsDeposit == design = "wall" => MintFindsDeposit

\* In step, the tip is a line of top ranking blocks (TestSyncConsensus).
TopNSyncStraightLine == design = "topn" => topn!SyncStraightLine

\* A walk among appends visits one branch (Walk).
BChainWalkIsBranch == design = "bchain" => bchain!WalkIsBranch

\* Votes and blocks are handled after the block they depend on (OutOfOrder of tt).
TTDependenciesFirst == design = "tt" => tt!DependenciesFirst

\* No combination of votes that solves a puzzle is overlooked (Feed, mine).
TTNoCombinationMissed == design = "tt" => tt!NoCombinationMissed

\* What a log has stored is its Merkle tree: in tlog every hash is in its place in the
\* file and the hash of a tree is the root (StoredHashes, TreeHash); in the first log
\* records read back, levels hold the complete subtrees and the peaks cover the log
\* (Log.Read, hashToFile, pow2decompose).
LogIsMerkleTree ==
  /\ design = "tlog" => tlog!TreeHashIsMerkleRoot /\ tlog!StorageLayout
  /\ design = "tlog_old" => old!ReadsBack /\ old!LevelFiles /\ old!PeaksCoverLog

\* A record is proved to be in a tree, and a tree to extend another, exactly when it
\* is so (ProveRecord, CheckRecord, ProveTree, CheckTree).
LogProofsExact == design = "tlog" => tlog!RecordProofs /\ tlog!TreeProofs

\* Readers of any published tree find their tiles, which hold the hashes of the log,
\* and damage to a tile is noticed where no tile holds two of the tree's own hashes
\* (NewTiles, ReadTileData, tileHashReader.ReadHashes).
TileReadsProven ==
  design = "tlog" =>
    tlog!TilesMatchLog /\ tlog!OldTreesReadable /\ tlog!ProvenWithoutSharing
==============================================================================
