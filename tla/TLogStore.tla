------------------------------ MODULE TLogStore ------------------------------
(* A transparency log over its storage (onl/tlog/storage.go): a file of       *)
(* hashes that records are appended to and that can be rolled back, a         *)
(* directory of tiles that grows with every published tree, and a reader      *)
(* that trusts the hash of one published tree, perhaps an old one, and reads  *)
(* stored hashes through tiles.  Record i holds the data i.                   *)
EXTENDS Tiles

CONSTANTS MaxRecords,   \* bound on the records of the log
          Heights       \* the tile heights an instance looks at

VARIABLES n,      \* records in the log, as its writer counts them
          file,   \* the hashes in the file
          off,    \* the file's write offset
          low,    \* history: the smallest size rolled back to, or MaxRecords
          h,      \* height of the tiles
          size,   \* the tree size published last
          dir,    \* the tile directory, from paths to data
          tree,   \* the tree a reader trusts
          got     \* the reader's last request and what came of it

vars == <<n, file, off, low, h, size, dir, tree, got>>

NoRead == [indexes |-> <<>>, bad |-> NoTile, out |-> ReadError]

Init ==
    /\ n = 0 /\ file = <<>> /\ off = 0 /\ low = MaxRecords
    /\ h \in Heights
    /\ size = 0 /\ dir = <<>>
    /\ tree = [N |-> 0, Hash |-> ZeroHash]
    /\ got = NoRead

(* A write at an offset past the end of the file leaves a hole of zeroes.     *)
WriteAt(f, o, hashes) ==
    [i \in 1 .. (IF o + Len(hashes) > Len(f) THEN o + Len(hashes) ELSE Len(f)) |->
        IF i \in (o + 1) .. (o + Len(hashes)) THEN hashes[i - o]
        ELSE IF i <= Len(f) THEN f[i] ELSE ZeroHash]

(* The caller hashes record n and appends the hashes.                         *)
AppendRecord ==
    /\ n < MaxRecords
    /\ LET hashes == StoredHashes(n, n, file)
       IN  /\ file' = WriteAt(file, off, hashes)
           /\ off' = off + Len(hashes)
    /\ n' = n + 1
    /\ got' = NoRead
    /\ UNCHANGED <<low, h, size, dir, tree>>

(* Truncate cuts the file and leaves the write offset where it was.  Bound:   *)
(* a log is rolled back once, and only one that has published nothing.        *)
Rollback(m) ==
    /\ low = MaxRecords /\ size = 0
    /\ file' = SubSeq(file, 1, StoredHashIndex(0, m))
    /\ n' = m
    /\ low' = IF m < low THEN m ELSE low
    /\ got' = NoRead
    /\ UNCHANGED <<off, h, size, dir, tree>>

(* Publishing a tree: newDirTileStorage writes the tiles that are not yet     *)
(* files.  A log that was rolled back publishes no more.                      *)
Publish ==
    /\ size < n /\ low = MaxRecords
    /\ LET new   == NewTiles(h, size, n)
           paths == {Path(t) : t \in new} \ DOMAIN dir
       IN  dir' = [p \in DOMAIN dir \cup paths |->
                      IF p \in DOMAIN dir THEN dir[p]
                      ELSE ReadTileData(CHOOSE t \in new : Path(t) = p, file)]
    /\ size' = n
    /\ got' = NoRead
    /\ UNCHANGED <<n, file, off, low, h, tree>>

(* The reader takes up the hash of the published tree, and may keep it long.  *)
Trust ==
    /\ size > 0 /\ low = MaxRecords
    /\ tree' = [N |-> size, Hash |-> TreeHash(size, file)]
    /\ got' = NoRead
    /\ UNCHANGED <<n, file, off, low, h, size, dir>>

(* ReadTiles: the bytes of every tile's file; the file of the tile bad is     *)
(* damaged, its first hash replaced.                                          *)
ReadTiles(tiles, bad) ==
    [t \in ToSet(tiles) |->
        LET data == IF Path(t) \in DOMAIN dir THEN dir[Path(t)] ELSE <<>>
        IN  IF t = bad /\ data # <<>> THEN <<ZeroHash>> \o Tail(data) ELSE data]

(* What readers ask for: a stored hash, the hashes of a record's or a tree's  *)
(* proof, an index that is not in the tree.                                   *)
Requests(N) ==
    {<<x>> : x \in 0 .. (StoredHashIndex(0, N) - 1)}
    \cup {leafProofIndex(0, N, k, <<>>) : k \in 0 .. (N - 1)}
    \cup {treeProofIndex(0, N, k, <<>>) : k \in 1 .. N}
    \cup {<<2 * N>>}

Read(indexes, bad) ==
    /\ got = NoRead
    /\ got' = [indexes |-> indexes, bad |-> bad,
               out |-> tileReadHashes(h, tree, indexes,
                          ReadTiles(PlanTiles(h, tree.N, indexes), bad))]
    /\ UNCHANGED <<n, file, off, low, h, size, dir, tree>>

NextRead ==
    /\ got # NoRead
    /\ got' = NoRead
    /\ UNCHANGED <<n, file, off, low, h, size, dir, tree>>

(* Bound: what a reader gets depends on the published tiles alone, so reads   *)
(* are taken when the log has published all its records.                      *)
ReadAny ==
    /\ tree.N > 0 /\ size = n
    /\ \E indexes \in Requests(tree.N) \ {<<>>} :
         \E bad \in {NoTile} \cup ToSet(PlanTiles(h, tree.N, indexes)) :
            Read(indexes, bad)

Next == \/ AppendRecord
        \/ \E m \in 0 .. (n - 1) : Rollback(m)
        \/ Publish
        \/ Trust
        \/ ReadAny
        \/ NextRead

Spec == Init /\ [][Next]_vars

(***************************************************************************)
(* Reference: the Merkle tree hash of the records lo .. hi-1 (RFC 6962)    *)
(***************************************************************************)
RECURSIVE MTH(_, _)
MTH(lo, hi) ==
    IF hi - lo = 1 THEN RecordHash(lo)
    ELSE LET k == CHOOSE k \in {2 ^ i : i \in 0 .. hi} :
                     k < hi - lo /\ 2 * k >= hi - lo
         IN  NodeHash(MTH(lo, lo + k), MTH(lo + k, hi))

(* The records whose hashes no rollback touched.                              *)
Intact == IF n < low THEN n ELSE low

(* TreeHash over the stored hashes is the RFC's hash of the records, for the  *)
(* log and for every earlier tree, whatever was rolled back and appended      *)
(* after them.                                                                *)
TreeHashIsMerkleRoot ==
    got = NoRead => \A m \in 1 .. Intact : TreeHash(m, file) = MTH(0, m)

(* The file holds each complete subtree's hash once, at its StoredHashIndex,  *)
(* with no gap, and SplitStoredHashIndex finds the subtree of an index.       *)
StorageLayout ==
    got = NoRead =>
    /\ low = MaxRecords =>
          Len(file) = StoredHashCount(n) /\ off = StoredHashCount(n)
    /\ \A x \in 0 .. (StoredHashCount(Intact) - 1) :
          LET s == SplitStoredHashIndex(x)
          IN  /\ StoredHashIndex(s.level, s.n) = x
              /\ file[x + 1] = MTH(s.n * 2 ^ s.level, (s.n + 1) * 2 ^ s.level)

(* A proof ProveRecord makes convinces CheckRecord of that record and of no   *)
(* other; with a hash changed, dropped or added it convinces of none.         *)
RecordProofs ==
    got = NoRead => \A t \in 1 .. Intact : \A k \in 0 .. (t - 1) :
        LET p == ProveRecord(t, k, file)
            Holds(q, r) == CheckRecord(q, t, MTH(0, t), k, RecordHash(r))
        IN  /\ \A r \in 0 .. (t - 1) : Holds(p, r) <=> r = k
            /\ \A i \in 1 .. Len(p) : ~Holds([p EXCEPT ![i] = ZeroHash], k)
            /\ p # <<>> => ~Holds(Front(p), k)
            /\ ~Holds(Append(p, ZeroHash), k)
            /\ ~Holds(<<ZeroHash>> \o p, k)

(* A proof ProveTree makes shows that a tree is a prefix of a later one; it   *)
(* shows nothing of a tree that differs in its last record, and nothing once  *)
(* one of its hashes is changed, dropped or added.                            *)
TreeProofs ==
    got = NoRead => \A t \in 1 .. Intact : \A k \in 1 .. t :
        LET p     == ProveTree(t, k, file)
            Other == IF k = 1 THEN RecordHash(k) ELSE
                     subTreeHash(0, k - 1, ReadHashes(file, subTreeIndex(0, k - 1, <<>>))).h
            Holds(q, r) == CheckTree(q, t, MTH(0, t), k, r)
        IN  /\ Holds(p, MTH(0, k))
            /\ ~Holds(p, Other)
            /\ \A i \in 1 .. Len(p) :
                  ~Holds([p EXCEPT ![i] = ZeroHash], MTH(0, k))
            /\ p # <<>> => ~Holds(Front(p), MTH(0, k))
            /\ ~Holds(Append(p, ZeroHash), MTH(0, k))
            /\ ~Holds(<<ZeroHash>> \o p, MTH(0, k))

(* Every published tile holds the hashes its name stands for, at its full     *)
(* width: a file written once for a smaller tree is never out of date.        *)
TilesMatchLog ==
    got = NoRead => \A p \in DOMAIN dir :
        LET t == ParseTilePath(p)
        IN  /\ t # NoTile /\ Path(t) = p
            /\ dir[p] = [i \in 1 .. t.W |->
                  MTH((t.N * 2 ^ t.H + i - 1) * 2 ^ (t.H * t.L),
                      (t.N * 2 ^ t.H + i) * 2 ^ (t.H * t.L))]

RightHash(x) ==
    LET s == SplitStoredHashIndex(x)
    IN  MTH(s.n * 2 ^ s.level, (s.n + 1) * 2 ^ s.level)

RightHashes(indexes) == [i \in DOMAIN indexes |-> RightHash(indexes[i])]

(* A reader that trusts any published tree, however old, finds every tile it  *)
(* asks for and gets the hashes of the log; an index outside the tree is an   *)
(* error.                                                                     *)
OldTreesReadable ==
    got # NoRead /\ got.bad = NoTile =>
        /\ got.out.ok <=> got.indexes # <<2 * tree.N>>
        /\ got.out.ok => got.out.hashes = RightHashes(got.indexes)

SharedTile == Len(StxTiles(h, tree.N)) < Len(subTreeIndex(0, tree.N, <<>>))

Proven == got.out.ok => /\ got.out.hashes = RightHashes(got.indexes)
                        /\ got.bad \notin got.out.saved

(* Where each subtree hash of the tree comes from a tile of its own, damage   *)
(* to a tile is always noticed: no wrong hash is returned and no damaged tile *)
(* is handed to SaveTiles.                                                    *)
ProvenWithoutSharing == got # NoRead /\ ~SharedTile => Proven
==============================================================================
