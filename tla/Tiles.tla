-------------------------------- MODULE Tiles --------------------------------
(* Tiles of the transparency log (onl/tlog/tile.go): which tile holds which   *)
(* stored hash, which tiles are published as the log grows, the path that     *)
(* names a tile, and the reader that recomputes a trusted tree hash from      *)
(* tiles before it returns hashes of them.  Tile data is a sequence of        *)
(* hashes; positions count hashes, not bytes.                                 *)
EXTENDS TLog

CONSTANT PathBase    \* pathBase: 1000 in the code, smaller in an instance

NoTile == [H |-> 0, L |-> 0, N |-> 0, W |-> 0]

(* The tile that holds the stored hash, and the positions start+1 .. end of   *)
(* its data that the hash is computed from.                                   *)
tileForIndex(h, index) ==
    LET s     == SplitStoredHashIndex(index)
        L     == s.level \div h
        level == s.level - L * h
        N     == (s.n * 2 ^ level) \div 2 ^ h
        n     == s.n - (N * 2 ^ h) \div 2 ^ level
    IN  [tile |-> [H |-> h, L |-> L, N |-> N, W |-> (n + 1) * 2 ^ level],
         start |-> n * 2 ^ level, end |-> (n + 1) * 2 ^ level]

RECURSIVE tileHash(_)
tileHash(data) ==
    LET n == Len(data) \div 2
    IN  CASE data = <<>> -> PanicHash
          [] Len(data) = 1 -> data[1]
          [] OTHER -> NodeHash(tileHash(SubSeq(data, 1, n)),
                               tileHash(SubSeq(data, n + 1, Len(data))))

(* PanicHash stands for the error HashFromTile returns.                       *)
HashFromTile(t, data, index) ==
    LET f == tileForIndex(t.H, index)
    IN  IF \/ t.H \notin 1 .. 30 \/ t.L \notin 0 .. 63
           \/ t.W \notin 1 .. 2 ^ t.H
           \/ Len(data) < t.W
           \/ t.L # f.tile.L \/ t.N # f.tile.N \/ t.W < f.tile.W
        THEN PanicHash
        ELSE tileHash(SubSeq(data, f.start + 1, f.end))

\* Slip: the tile that was partial and is now complete is left out.
LevelTilesSkip(h, level, oldN, newN) ==
    LET n    == newN \div 2 ^ h
        maxW == newN - n * 2 ^ h
        minW == IF oldN > n * 2 ^ h THEN oldN - n * 2 ^ h ELSE 1
    IN  {[H |-> h, L |-> level, N |-> m, W |-> 2 ^ h] :
             m \in (oldN \div 2 ^ h + 1) .. (n - 1)}
        \cup {[H |-> h, L |-> level, N |-> n, W |-> w] : w \in minW .. maxW}

(* The tiles of one level that a tree of newN hashes at that level has and    *)
(* one of oldN has not: the completed ones and every width of the last one.   *)
LevelTiles(h, level, oldN, newN) ==
    LET n    == newN \div 2 ^ h
        maxW == newN - n * 2 ^ h
        minW == IF oldN > n * 2 ^ h THEN oldN - n * 2 ^ h ELSE 1
    IN  {[H |-> h, L |-> level, N |-> m, W |-> 2 ^ h] :
             m \in (oldN \div 2 ^ h) .. (n - 1)}
        \cup {[H |-> h, L |-> level, N |-> n, W |-> w] : w \in minW .. maxW}

NewTiles(h, oldTreeSize, newTreeSize) ==
    UNION {LevelTiles(h, level, oldTreeSize \div 2 ^ (h * level),
                      newTreeSize \div 2 ^ (h * level)) :
           level \in {l \in 0 .. newTreeSize :
                         newTreeSize \div 2 ^ (h * l) > 0}}

ReadTileData(t, storage) ==
    LET size == IF t.W = 0 THEN 2 ^ t.H ELSE t.W
    IN  ReadHashes(storage, [i \in 1 .. size |->
            StoredHashIndex(t.H * t.L, t.N * 2 ^ t.H + i - 1)])

(* Path writes N in groups of digits, most significant first, every group but *)
(* the last marked x, and the width only of a partial tile.  The wording of   *)
(* the path is left out: a group is <<marked, value>>.                        *)
RECURSIVE PathGroups(_, _)
PathGroups(n, groups) ==
    IF n < PathBase THEN groups
    ELSE PathGroups(n \div PathBase,
                    <<<<TRUE, (n \div PathBase) % PathBase>>>> \o groups)

\* Slip: the width of a partial tile is not part of its path.
PathPlain(t) ==
    [h |-> t.H, l |-> IF t.L = -1 THEN "data" ELSE "level", level |-> t.L,
     groups |-> PathGroups(t.N, <<<<FALSE, t.N % PathBase>>>>), p |-> <<>>]

Path(t) ==
    [h |-> t.H, l |-> IF t.L = -1 THEN "data" ELSE "level", level |-> t.L,
     groups |-> PathGroups(t.N, <<<<FALSE, t.N % PathBase>>>>),
     p |-> IF t.W # 2 ^ t.H THEN <<t.W>> ELSE <<>>]

(* ParseTilePath accepts what Path would write for the tile it reads.         *)
ParseTilePath(path) ==
    LET w == IF path.p = <<>> THEN 2 ^ path.h ELSE path.p[1]
        N == FoldLeft(LAMBDA n, g : n * PathBase + g[2], 0, path.groups)
        t == [H |-> path.h, L |-> IF path.l = "data" THEN -1 ELSE path.level,
              N |-> N, W |-> w]
    IN  IF \/ path.groups = <<>>
           \/ path.h \notin 1 .. 30
           \/ path.l = "level" /\ path.level < 0
           \/ path.p # <<>> /\ path.p[1] \notin 1 .. (2 ^ path.h - 1)
           \/ \E i \in DOMAIN path.groups :
                 path.groups[i][2] \notin 0 .. (PathBase - 1)
           \/ path # Path(t)
        THEN NoTile ELSE t

(***************************************************************************)
(* The tile hash reader                                                    *)
(***************************************************************************)
tileParent(t, k, n) ==
    LET L   == t.L + k
        N   == t.N \div 2 ^ (k * t.H)
        max == n \div 2 ^ (L * t.H)
        lo  == N * 2 ^ t.H
    IN  CASE lo + 2 ^ t.H < max -> [H |-> t.H, L |-> L, N |-> N, W |-> 2 ^ t.H]
          [] lo + 2 ^ t.H >= max /\ lo >= max -> NoTile
          [] OTHER -> [H |-> t.H, L |-> L, N |-> N, W |-> max - lo]

(* The tiles the tree hash of n records is recomputed from, each once.        *)
StxTiles(h, n) ==
    FoldLeft(LAMBDA tiles, x :
                LET t == tileParent(tileForIndex(h, x).tile, 0, n)
                IN  IF Contains(tiles, t) THEN tiles ELSE Append(tiles, t),
             <<>>, subTreeIndex(0, n, <<>>))

(* One index of a request: walk up to the first parent tile that is already   *)
(* asked for, and ask for the tiles on the way back down.  A walk that finds  *)
(* none would not end; it asks for NoTile.                                    *)
AddIndexTiles(tiles, h, n, x) ==
    LET tile  == tileForIndex(h, x).tile
        found == {k \in 0 .. n :
                     Contains(tiles, tileParent(tile, k, n))}
        k     == CHOOSE k \in found : \A m \in found : k <= m
    IN  IF found = {} THEN Append(tiles, NoTile)
        ELSE tiles \o [i \in 1 .. k |-> tileParent(tile, k - i, n)]

PlanTiles(h, n, indexes) ==
    FoldLeft(LAMBDA tiles, x : AddIndexTiles(tiles, h, n, x),
             StxTiles(h, n), indexes)

\* Slip: the parent tile is fetched and not compared.
AuthenticTileAsked(t, tiles, data, n) == Contains(tiles, tileParent(t, 1, n))

(* A tile's hash is the one its parent tile holds for it.                     *)
AuthenticTile(t, tiles, data, n) ==
    LET p == tileParent(t, 1, n)
    IN  /\ Contains(tiles, p)
        /\ HashFromTile(p, data[p], StoredHashIndex(p.L * p.H, t.N))
             = tileHash(data[t])

ReadError == [ok |-> FALSE, hashes |-> <<>>, saved |-> {}]

(* ReadHashes of a reader for the tree [N, Hash]; data[t] is what ReadTiles   *)
(* gives for tile t.  All the tiles are fetched, the ones of the tree hash    *)
(* are checked together against it, and the others, from position Len(stx)    *)
(* on, each against its parent.                                               *)
tileReadHashes(h, tree, indexes, data) ==
    LET n     == tree.N
        stx   == subTreeIndex(0, n, <<>>)
        first == StxTiles(h, n)
        tiles == PlanTiles(h, n, indexes)
        TileOf(x) == tileParent(tileForIndex(h, x).tile, 0, n)
        Hash(x)   == HashFromTile(TileOf(x), data[TileOf(x)], x)
        th[i \in 1 .. Len(stx)] ==
            IF i = Len(stx) THEN Hash(stx[i])
            ELSE NodeHash(Hash(stx[i]), th[i + 1])
    IN  IF \/ \E i \in DOMAIN indexes : indexes[i] >= StoredHashIndex(0, n)
           \/ \E i \in (Len(first) + 1) .. Len(tiles) : tiles[i].W # 2 ^ h
           \/ \E i \in DOMAIN tiles : Len(data[tiles[i]]) # tiles[i].W
           \/ th[1] # tree.Hash
           \/ \E i \in (Len(stx) + 1) .. Len(tiles) :
                 ~AuthenticTile(tiles[i], tiles, data, n)
           \/ \E i \in DOMAIN indexes : Hash(indexes[i]) = PanicHash
        THEN ReadError
        ELSE [ok |-> TRUE,
              hashes |-> [i \in DOMAIN indexes |-> Hash(indexes[i])],
              saved |-> ToSet(tiles)]
==============================================================================
