---------------------------- MODULE EngineProofs -----------------------------
(***************************************************************************)
(* What the engine relies on from its buffer and its own minting, for any  *)
(* number of members, any network and any number of rounds, restarts and   *)
(* skipped rounds.                                                         *)
(***************************************************************************)
EXTENDS Engine, DataLemmas

------------------------------------------------------------------------------
\* The invariant

Block == [id : BlockId, prev : BlockId, round : 0..MaxRound, deposits : SUBSET Node]

BufferType ==
  [resolvedBlocks : SUBSET BlockId, resolvedRounds : SUBSET RoundNr,
   onBlocks : [BlockId -> SUBSET Block], onRounds : [RoundNr -> SUBSET Block]]

EngineType ==
  /\ conf \in Network
  /\ chain \in [Node -> SUBSET Block]
  /\ ooo \in [Node -> BufferType]
  /\ clock \in [Node -> 0..MaxRound]
  /\ handling \in [Node -> SUBSET Block]
  /\ pool \in [Node -> SUBSET Node] /\ stamped \in [Node -> SUBSET Node]
  /\ refused \in SUBSET Block
  /\ net.blocks \in SUBSET (Node \X Block) /\ DOMAIN net = {"blocks", "writes", "syncs"}
  /\ DOMAIN tip = Node /\ DOMAIN toMint = Node

\* Every block there is.
Blocks ==
  (UNION {chain[n] \cup handling[n] \cup Buffer!Kept(ooo[n]) : n \in Node})
    \cup refused \cup {m[2] : m \in net.blocks}

\* A block is known by its id and is not of an earlier round than its predecessor.
BlocksOK ==
  /\ \A b \in Blocks : b.round = b.id[1] /\ b.prev[1] <= b.round
  /\ \A b, c \in Blocks : b.id = c.id => b = c

\* What a member minted: one block a round, on a block of its chain, with deposits that
\* are new to that block's state.
OwnBlocks ==
  \A b \in Blocks, n \in Node : b.id[2] = n /\ b.id # Genesis =>
    /\ b.round <= clock[n] /\ (toMint[n] => b.round < clock[n])
    /\ b.prev \in Ids(chain[n])
    /\ b.deposits \cap Staked(chain[n], b.prev) = {}

\* A set of blocks with their ancestors, which are of earlier rounds.
Closed(S) ==
  /\ Genesis \in Ids(S)
  /\ \A b \in S : b.id # Genesis => b.prev \in Ids(S) /\ b.prev[1] < b.id[1]

Chains ==
  \A n \in Node :
    /\ Closed(chain[n])
    /\ tip[n].id \in Ids(chain[n])
    /\ \A b \in chain[n] \cup handling[n] : b.round <= clock[n]
    /\ toMint[n] => clock[n] >= 1

AtMostOne(S) == \A x, y \in S : x = y

\* A buffer that keeps one message a dependency.
Single(o) ==
  /\ \A i \in BlockId : AtMostOne(o.onBlocks[i])
  /\ \A r \in RoundNr : AtMostOne(o.onRounds[r])

\* Every buffer is one, and resolves rounds that were entered.
Buffers == \A n \in Node : Single(ooo[n]) /\ ooo[n].resolvedRounds \subseteq 1..clock[n]

EngineInv ==
  /\ EngineType /\ BlocksOK /\ OwnBlocks /\ Chains /\ Buffers
  /\ ResolvedStored /\ SpoiledIsProposed /\ RefusedWhenOvertaken

------------------------------------------------------------------------------
\* Chains

\* An id is a round and a proposer; only the genesis block is of round 0.
LEMMA IdTypes ==
  /\ MaxRound \in Nat
  /\ \A i \in BlockId : i[1] \in 0..MaxRound /\ i[1] \in Nat /\ (i[1] = 0 <=> i = Genesis)
BY EngineAssumption DEF BlockId, Genesis, RoundNr

Distinct(S) == \A b, c \in S : b.id = c.id => b = c

\* Chain.Read finds the block with an id.
LEMMA GetFinds ==
  ASSUME NEW S, NEW i \in Ids(S)
  PROVE  Get(S, i) \in S /\ Get(S, i).id = i
<1>1. \E b \in S : b.id = i
  BY DEF Ids
<1> QED
  BY <1>1 DEF Get

\* Chain.walk, step by step.
LEMMA WalkUnfolds ==
  ASSUME NEW S \in SUBSET Block, Closed(S)
  PROVE  \A i \in Ids(S) :
           Walk(S, i) = IF i = Genesis THEN {i} ELSE {i} \cup Walk(S, Get(S, i).prev)
<1> DEFINE D(n) == {i \in Ids(S) : i[1] <= n}
           prev(i) == Get(S, i).prev
           Def(f, Q) == f = [i \in Q |-> IF i = Genesis THEN {i} ELSE {i} \cup f[prev(i)]]
           T == {n \in Nat : ~\E f : Def(f, D(n))}
<1>1. \A i \in Ids(S) : i \in BlockId /\ i[1] \in Nat /\ i[1] <= MaxRound /\ (i[1] = 0 <=> i = Genesis)
  BY IdTypes DEF Ids, Block
<1>2. \A i \in Ids(S) : i # Genesis => prev(i) \in Ids(S) /\ prev(i)[1] < i[1]
  BY GetFinds DEF Closed
<1> HIDE DEF prev
<1>3. T = {}
  <2> SUFFICES ASSUME T # {} PROVE FALSE
    BY Zenon
  <2>1. PICK m \in T : \A y \in T : m <= y
    <3>1. T \subseteq Nat
      OBVIOUS
    <3> HIDE DEF T
    <3> QED
      BY Zenon, <3>1, NatMin
  <2>2. m \in Nat /\ ~\E f : Def(f, D(m))
    BY Zenon, <2>1
  <2>3. m # 0
    <3> SUFFICES ASSUME m = 0 PROVE FALSE
      OBVIOUS
    <3>1. \A i \in D(0) : i = Genesis
      BY <1>1
    <3>2. Def([i \in D(0) |-> {i}], D(0))
      BY <3>1
    <3> QED
      BY Zenon, <2>2, <3>2
  <2>4. PICK f : Def(f, D(m - 1))
    <3>1. m - 1 \in Nat /\ m - 1 \notin T
      <4> HIDE DEF T
      <4> QED
        BY <2>1, <2>2, <2>3
    <3> HIDE DEF Def, D
    <3> QED
      BY <3>1
  <2> DEFINE g == [i \in D(m) |-> IF i[1] = m THEN {i} \cup f[prev(i)] ELSE f[i]]
  <2>5. ASSUME NEW i \in D(m)
        PROVE  g[i] = IF i = Genesis THEN {i} ELSE {i} \cup g[prev(i)]
    <3>1. i # Genesis => prev(i) \in D(m) /\ prev(i) \in D(m - 1) /\ prev(i)[1] # m
      BY <1>1, <1>2, <2>2
    <3> HIDE DEF Def
    <3>2. i # Genesis => g[prev(i)] = f[prev(i)]
      BY <3>1
    <3>3. CASE i[1] = m
      BY Zenon, <1>1, <2>3, <3>2, <3>3
    <3>4. CASE i[1] # m
      <4>1. i \in D(m - 1)
        BY <1>1, <2>2, <3>4
      <4>2. f[i] = IF i = Genesis THEN {i} ELSE {i} \cup f[prev(i)]
        BY Zenon, <2>4, <4>1 DEF Def
      <4> HIDE DEF D
      <4> QED
        BY Zenon, <3>2, <3>4, <4>2
    <3> QED
      BY <3>3, <3>4
  <2>6. Def(g, D(m))
    <3> HIDE DEF D
    <3> QED
      BY Zenon, <2>5
  <2> HIDE DEF Def, D
  <2> QED
    BY <2>2, <2>6
<1>4. D(MaxRound) = Ids(S)
  BY <1>1
<1> DEFINE w == CHOOSE f : Def(f, Ids(S))
<1>5. Def(w, Ids(S))
  <2> HIDE DEF Def, D
  <2>1. MaxRound \notin T /\ MaxRound \in Nat
    BY <1>3, IdTypes
  <2>2. \E f : Def(f, Ids(S))
    BY <1>4, <2>1
  <2> QED
    BY <2>2
<1>6. \A i : Walk(S, i) = w[i]
  BY DEF Walk, prev
<1> HIDE DEF w, D
<1>7. \A i \in Ids(S) : w[i] = IF i = Genesis THEN {i} ELSE {i} \cup w[prev(i)]
  BY <1>5
<1> QED
  BY Zenon, <1>2, <1>6, <1>7 DEF prev

\* A block that is added changes neither the walk from a block that was there nor the
\* stakes in its state.
LEMMA StakedStable ==
  ASSUME NEW S \in SUBSET Block, NEW b \in Block, Closed(S), Closed(S \cup {b}),
         Distinct(S), b.id \notin Ids(S)
  PROVE  \A i \in Ids(S) : Staked(S \cup {b}, i) = Staked(S, i)
<1> DEFINE V == S \cup {b}
           Bad(i) == ~(Walk(V, i) = Walk(S, i) /\ Walk(S, i) \subseteq Ids(S))
           T == {i[1] : i \in {j \in Ids(S) : Bad(j)}}
<1>1. Ids(S) \subseteq Ids(V) /\ V \in SUBSET Block
  BY DEF Ids
<1>2. \A i \in Ids(S) : i \in BlockId /\ i[1] \in Nat
  BY IdTypes DEF Ids, Block
<1>3. ASSUME NEW i \in Ids(S) PROVE Get(V, i) = Get(S, i)
  <2>1. /\ Get(V, i) \in V /\ Get(V, i).id = i
        /\ Get(S, i) \in S /\ Get(S, i).id = i
    BY Zenon, <1>1, GetFinds
  <2> QED
    BY <2>1 DEF Distinct
<1>4. \A i \in Ids(S) : ~Bad(i)
  <2> SUFFICES ASSUME T # {} PROVE FALSE
    OBVIOUS
  <2>1. T \subseteq Nat
    BY <1>2
  <2> HIDE DEF T
  <2>2. PICK m \in T : \A y \in T : m <= y
    BY Zenon, <2>1, NatMin
  <2>3. PICK i \in Ids(S) : Bad(i) /\ m = i[1]
    BY <2>2 DEF T
  <2>4. /\ Walk(V, i) = IF i = Genesis THEN {i} ELSE {i} \cup Walk(V, Get(V, i).prev)
        /\ Walk(S, i) = IF i = Genesis THEN {i} ELSE {i} \cup Walk(S, Get(S, i).prev)
    BY Zenon, <1>1, WalkUnfolds
  <2>5. i # Genesis
    BY <2>3, <2>4
  <2> DEFINE j == Get(S, i).prev
  <2>6. j \in Ids(S) /\ j[1] < i[1] /\ Get(V, i).prev = j
    BY Zenon, <1>3, <2>5, GetFinds DEF Closed
  <2> HIDE DEF j
  <2>7. ~Bad(j)
    <3> SUFFICES ASSUME Bad(j) PROVE FALSE
      OBVIOUS
    <3> HIDE DEF Bad
    <3>1. j[1] \in T
      BY <2>6 DEF T
    <3> QED
      BY <1>2, <2>2, <2>3, <2>6, <3>1
  <2> QED
    BY ZenonT(30), <2>3, <2>4, <2>5, <2>6, <2>7 DEF j
<1>5. ASSUME NEW i \in Ids(S) PROVE Staked(V, i) = Staked(S, i)
  <2>1. Walk(V, i) = Walk(S, i) /\ b.id \notin Walk(S, i)
    BY <1>4
  <2>2. {c \in V : c.id \in Walk(V, i)} = {c \in S : c.id \in Walk(S, i)}
    BY <2>1
  <2> QED
    BY Zenon, <2>2 DEF Staked
<1> QED
  BY <1>5

\* The tip that weigh finds is a block of the chain.
LEMMA WeighFinds ==
  ASSUME NEW S \in SUBSET Block, NEW from, NEW t, t.id \in Ids(S)
  PROVE  Weigh(S, from, t).id \in Ids(S)
<1> DEFINE heavy == {b \in S : b.round >= from /\ Weight(S, b.id) >= t.w}
           after(b, c) == b.round > c.round \/ (b.round = c.round /\ RankOf(b) <= RankOf(c))
           last == CHOOSE b \in heavy : \A c \in heavy : after(b, c)
<1>1. Weigh(S, from, t) = IF heavy = {} THEN t ELSE [id |-> last.id, w |-> Weight(S, last.id)]
  BY DEF Weigh
<1>2. heavy \subseteq S
  OBVIOUS
<1> HIDE DEF heavy
<1>3. ASSUME heavy # {} PROVE \E b \in heavy : \A c \in heavy : after(b, c)
  <2>1. \A b \in heavy : b.round \in Nat /\ b.round <= MaxRound /\ RankOf(b) \in Nat
    <3> SUFFICES ASSUME NEW b \in heavy
                 PROVE  b.round \in Nat /\ b.round <= MaxRound /\ RankOf(b) \in Nat
      OBVIOUS
    <3>1. b.round \in 0..MaxRound /\ b.id \in BlockId
      BY <1>2 DEF Block
    <3>2. RankOf(b) \in Nat
      BY <3>1, EngineAssumption DEF RankOf, BlockId, RoundNr
    <3> QED
      BY <3>1, <3>2, IdTypes
  <2> DEFINE R == {MaxRound - b.round : b \in heavy}
  <2>2. R \subseteq Nat /\ R # {}
    BY <1>3, <2>1, IdTypes
  <2> HIDE DEF R
  <2>3. PICK r \in R : \A y \in R : r <= y
    BY Zenon, <2>2, NatMin
  <2>4. PICK d \in heavy : r = MaxRound - d.round
    BY <2>3 DEF R
  <2>5. \A c \in heavy : c.round <= d.round
    <3> SUFFICES ASSUME NEW c \in heavy PROVE c.round <= d.round
      OBVIOUS
    <3>1. MaxRound - c.round \in R
      BY DEF R
    <3> QED
      BY <2>1, <2>3, <2>4, <3>1, IdTypes
  <2> DEFINE K == {RankOf(b) : b \in {c \in heavy : c.round = d.round}}
  <2>6. K \subseteq Nat /\ K # {}
    BY <2>1
  <2> HIDE DEF K
  <2>7. PICK k \in K : \A y \in K : k <= y
    BY Zenon, <2>6, NatMin
  <2>8. PICK b \in heavy : b.round = d.round /\ k = RankOf(b)
    BY <2>7 DEF K
  <2>9. ASSUME NEW c \in heavy PROVE after(b, c)
    <3>1. c.round = d.round => RankOf(c) \in K
      BY DEF K
    <3> QED
      BY <2>1, <2>5, <2>7, <2>8, <3>1
  <2> QED
    BY <2>9
<1>4. heavy # {} => last \in heavy
  BY <1>3
<1> HIDE DEF last
<1> QED
  BY <1>1, <1>2, <1>4 DEF Ids

------------------------------------------------------------------------------
\* Buffers

\* What OutOfOrder.Handle leaves of a buffer for the messages it cannot hand on.
Deferred(o, late) == FoldSet(LAMBDA m, p : Buffer!Defer(p, m), o, late)

\* Handle of no message leaves the buffer as it is.
LEMMA DeferredNone ==
  ASSUME NEW o
  PROVE  Deferred(o, {}) = o
<1> DEFINE It(f) == f = [s \in SUBSET {} |->
                           IF s = {} THEN o
                           ELSE Buffer!Defer(f[s \ {CHOOSE x \in s : TRUE}], CHOOSE x \in s : TRUE)]
           w == CHOOSE f : It(f)
<1>1. It([s \in SUBSET {} |-> o])
  OBVIOUS
<1>2. Deferred(o, {}) = w[{}]
  BY DEF Deferred, FoldSet, MapThenFoldSet
<1> HIDE DEF It
<1>3. It(w)
  BY <1>1
<1> HIDE DEF w
<1> QED
  BY <1>2, <1>3 DEF It

\* Handle of one message defers it.
LEMMA DeferredOne ==
  ASSUME NEW o, NEW m
  PROVE  Deferred(o, {m}) = Buffer!Defer(o, m)
<1> DEFINE D(f, s) == Buffer!Defer(f[s \ {CHOOSE x \in s : TRUE}], CHOOSE x \in s : TRUE)
           It(f) == f = [s \in SUBSET {m} |-> IF s = {} THEN o ELSE D(f, s)]
           w == CHOOSE f : It(f)
           g == [s \in SUBSET {m} |-> IF s = {} THEN o ELSE Buffer!Defer(o, m)]
<1>1. It(g)
  <2>1. \A s \in SUBSET {m} : s = {} \/ s = {m}
    OBVIOUS
  <2>2. (CHOOSE x \in {m} : TRUE) = m
    OBVIOUS
  <2>3. g[{}] = o
    OBVIOUS
  <2>4. D(g, {m}) = Buffer!Defer(o, m)
    <3>1. {m} \ {m} = {}
      OBVIOUS
    <3> HIDE DEF g
    <3> QED
      BY <2>2, <2>3, <3>1
  <2>5. \A s \in SUBSET {m} : g[s] = IF s = {} THEN o ELSE D(g, s)
    <3> HIDE DEF D
    <3> QED
      BY Zenon, <2>1, <2>4
  <2> HIDE DEF D
  <2> QED
    BY Zenon, <2>5
<1>2. Deferred(o, {m}) = w[{m}]
  BY DEF Deferred, FoldSet, MapThenFoldSet
<1>3. It(w)
  <2> HIDE DEF It, g
  <2> QED
    BY <1>1
<1> HIDE DEF w
<1>4. w[{m}] = D(w, {m}) /\ w[{}] = o
  <2> HIDE DEF D
  <2> QED
    BY <1>3
<1>5. (CHOOSE x \in {m} : TRUE) = m /\ {m} \ {m} = {}
  OBVIOUS
<1> QED
  BY <1>2, <1>4, <1>5

\* Handle keeps a message with its dependencies and nothing else in the buffer changes.
LEMMA DeferKeeps ==
  ASSUME NEW o \in BufferType, NEW m \in Block, Single(o)
  PROVE  LET p == Buffer!Defer(o, m) IN
         /\ p \in BufferType /\ Single(p)
         /\ p.resolvedBlocks = o.resolvedBlocks /\ p.resolvedRounds = o.resolvedRounds
         /\ Buffer!Kept(p) \subseteq Buffer!Kept(o) \cup {m}
<1> DEFINE p == Buffer!Defer(o, m)
           B == [o.onBlocks EXCEPT ![m.prev] =
                   IF m.prev \in o.resolvedBlocks \/ @ # {} THEN @ ELSE {m}]
           R == [o.onRounds EXCEPT ![m.round] =
                   IF m.round \in o.resolvedRounds \/ @ # {} THEN @ ELSE {m}]
<1>1. o.onBlocks \in [BlockId -> SUBSET Block] /\ o.onRounds \in [RoundNr -> SUBSET Block]
  BY DEF BufferType
<1>2. B \in [BlockId -> SUBSET Block] /\ R \in [RoundNr -> SUBSET Block]
  BY Zenon, <1>1
<1>3. /\ \A i \in BlockId : B[i] = o.onBlocks[i] \/ B[i] = {m}
      /\ \A r \in RoundNr : R[r] = o.onRounds[r] \/ R[r] = {m}
  BY <1>1
<1>4. p = [o EXCEPT !.onBlocks = B, !.onRounds = R]
  BY DEF Buffer!Defer, BufferType
<1> HIDE DEF B, R, p
<1>5. /\ p \in BufferType
      /\ p.onBlocks = B /\ p.onRounds = R
      /\ p.resolvedBlocks = o.resolvedBlocks /\ p.resolvedRounds = o.resolvedRounds
  BY Zenon, <1>2, <1>4 DEF BufferType
<1>6. Single(p)
  BY <1>3, <1>5 DEF Single, AtMostOne
<1>7. Buffer!Kept(p) \subseteq Buffer!Kept(o) \cup {m}
  BY <1>3, <1>5 DEF Buffer!Kept
<1> QED
  BY <1>5, <1>6, <1>7 DEF p

\* The same of at most one message.
LEMMA DeferredKeeps ==
  ASSUME NEW o \in BufferType, NEW late \in SUBSET Block, Single(o), AtMostOne(late)
  PROVE  LET p == Deferred(o, late) IN
         /\ p \in BufferType /\ Single(p)
         /\ p.resolvedBlocks = o.resolvedBlocks /\ p.resolvedRounds = o.resolvedRounds
         /\ Buffer!Kept(p) \subseteq Buffer!Kept(o) \cup late
<1>1. CASE late = {}
  BY <1>1, DeferredNone
<1>2. CASE late # {}
  <2>1. PICK m \in Block : late = {m}
    BY <1>2 DEF AtMostOne
  <2> QED
    BY <2>1, DeferredOne, DeferKeeps
<1> QED
  BY <1>1, <1>2

\* Resolve and ResolveRound take out what waits and keep the rest.
LEMMA ResolveKeeps ==
  ASSUME NEW o \in BufferType, Single(o)
  PROVE  /\ \A i \in BlockId : LET p == Buffer!ResolveBlock(o, i) IN
              /\ p \in BufferType /\ Single(p) /\ Buffer!Kept(p) \subseteq Buffer!Kept(o)
              /\ p.resolvedBlocks = o.resolvedBlocks \cup {i}
              /\ p.resolvedRounds = o.resolvedRounds
         /\ \A r \in RoundNr : LET p == Buffer!ResolveNr(o, r) IN
              /\ p \in BufferType /\ Single(p) /\ Buffer!Kept(p) \subseteq Buffer!Kept(o)
              /\ p.resolvedBlocks = o.resolvedBlocks
              /\ p.resolvedRounds = o.resolvedRounds \cup {r}
<1>1. o.onBlocks \in [BlockId -> SUBSET Block] /\ o.onRounds \in [RoundNr -> SUBSET Block]
  BY DEF BufferType
<1>2. ASSUME NEW i \in BlockId
      PROVE  LET p == Buffer!ResolveBlock(o, i) IN
              /\ p \in BufferType /\ Single(p) /\ Buffer!Kept(p) \subseteq Buffer!Kept(o)
              /\ p.resolvedBlocks = o.resolvedBlocks \cup {i}
              /\ p.resolvedRounds = o.resolvedRounds
  <2> DEFINE p == Buffer!ResolveBlock(o, i)
  <2>1. /\ p \in BufferType
        /\ p.resolvedBlocks = o.resolvedBlocks \cup {i} /\ p.resolvedRounds = o.resolvedRounds
        /\ p.onRounds = o.onRounds
        /\ \A j \in BlockId : p.onBlocks[j] = IF j = i THEN {} ELSE o.onBlocks[j]
    BY Zenon, <1>1 DEF Buffer!ResolveBlock, BufferType
  <2> HIDE DEF p
  <2>2. Single(p)
    BY <2>1 DEF Single, AtMostOne
  <2>3. Buffer!Kept(p) \subseteq Buffer!Kept(o)
    BY <2>1 DEF Buffer!Kept
  <2> QED
    BY <2>1, <2>2, <2>3 DEF p
<1>3. ASSUME NEW r \in RoundNr
      PROVE  LET p == Buffer!ResolveNr(o, r) IN
              /\ p \in BufferType /\ Single(p) /\ Buffer!Kept(p) \subseteq Buffer!Kept(o)
              /\ p.resolvedBlocks = o.resolvedBlocks
              /\ p.resolvedRounds = o.resolvedRounds \cup {r}
  <2> DEFINE p == Buffer!ResolveNr(o, r)
  <2>1. /\ p \in BufferType
        /\ p.resolvedBlocks = o.resolvedBlocks /\ p.resolvedRounds = o.resolvedRounds \cup {r}
        /\ p.onBlocks = o.onBlocks
        /\ \A j \in RoundNr : p.onRounds[j] = IF j = r THEN {} ELSE o.onRounds[j]
    BY Zenon, <1>1 DEF Buffer!ResolveNr, BufferType
  <2> HIDE DEF p
  <2>2. Single(p)
    BY <2>1 DEF Single, AtMostOne
  <2>3. Buffer!Kept(p) \subseteq Buffer!Kept(o)
    BY <2>1 DEF Buffer!Kept
  <2> QED
    BY <2>1, <2>2, <2>3 DEF p
<1> QED
  BY <1>2, <1>3

\* A buffer as New makes it.
LEMMA FreshKeeps ==
  /\ Fresh \in BufferType /\ Single(Fresh) /\ Buffer!Kept(Fresh) = {}
  /\ Fresh.resolvedBlocks = {Genesis} /\ Fresh.resolvedRounds = {}
<1>1. Genesis \in BlockId
  BY DEF BlockId
<1>2. Buffer!Empty \in BufferType /\ Single(Buffer!Empty) /\ Buffer!Kept(Buffer!Empty) = {}
  BY DEF Buffer!Empty, BufferType, Single, AtMostOne, Buffer!Kept
<1>3. Buffer!Empty.resolvedBlocks = {} /\ Buffer!Empty.resolvedRounds = {}
  BY DEF Buffer!Empty
<1> QED
  BY <1>1, <1>2, <1>3, ResolveKeeps DEF Fresh

------------------------------------------------------------------------------
\* Steps

\* The parts of Blocks.
LEMMA BlocksParts ==
  /\ \A n \in Node : chain[n] \subseteq Blocks /\ handling[n] \subseteq Blocks
                     /\ Buffer!Kept(ooo[n]) \subseteq Blocks
  /\ refused \subseteq Blocks
  /\ \A m \in net.blocks : m[2] \in Blocks
<1> DEFINE Of(n) == chain[n] \cup handling[n] \cup Buffer!Kept(ooo[n])
           Sent == {m[2] : m \in net.blocks}
           Held == UNION {Of(n) : n \in Node}
<1>1. Blocks = Held \cup refused \cup Sent
  BY DEF Blocks
<1>2. \A m \in net.blocks : m[2] \in Sent
  OBVIOUS
<1>3. \A n \in Node : chain[n] \subseteq Held /\ handling[n] \subseteq Held
                      /\ Buffer!Kept(ooo[n]) \subseteq Held
  OBVIOUS
<1> HIDE DEF Sent, Held
<1> QED
  BY <1>1, <1>2, <1>3

\* What every block is.
LEMMA BlockTypes ==
  ASSUME EngineType
  PROVE  \A b \in Blocks : b \in Block
BY DEF EngineType, Blocks, Buffer!Kept, BufferType

\* A step that brings no block but those of a set B.
LEMMA BlocksWithin ==
  ASSUME NEW B,
         \A n \in Node : chain'[n] \subseteq B /\ handling'[n] \subseteq B
                         /\ Buffer!Kept(ooo'[n]) \subseteq B,
         refused' \subseteq B,
         \A m \in net'.blocks : m[2] \in B
  PROVE  Blocks' \subseteq B
<1> DEFINE Of(n) == chain'[n] \cup handling'[n] \cup Buffer!Kept(ooo'[n])
           Sent == {m[2] : m \in net'.blocks}
           Held == UNION {Of(n) : n \in Node}
<1>1. Blocks' = Held \cup refused' \cup Sent
  BY DEF Blocks
<1>2. Sent \subseteq B
  OBVIOUS
<1>3. Held \subseteq B
  OBVIOUS
<1> HIDE DEF Sent, Held
<1> QED
  BY <1>1, <1>2, <1>3

\* What waits in a slot is kept.
LEMMA SlotKept ==
  ASSUME NEW o \in BufferType
  PROVE  /\ \A i \in BlockId : o.onBlocks[i] \subseteq Buffer!Kept(o) /\ o.onBlocks[i] \subseteq Block
         /\ \A r \in RoundNr : o.onRounds[r] \subseteq Buffer!Kept(o) /\ o.onRounds[r] \subseteq Block
BY DEF Buffer!Kept, BufferType

\* A step without a new block, without a change to the chains, and without a new round.
LEMMA OwnFrame ==
  ASSUME OwnBlocks, Blocks' \subseteq Blocks, chain' = chain, clock' = clock,
         \A n \in Node : toMint'[n] => toMint[n]
  PROVE  OwnBlocks'
BY DEF OwnBlocks

\* OutOfOrder.Handle of at most one message.
LEMMA HandleEffect ==
  ASSUME EngineType, Buffers, NEW n \in Node, NEW o \in BufferType, NEW ms \in SUBSET Block,
         Single(o), AtMostOne(ms), Handle(n, o, ms)
  PROVE  /\ ooo' \in [Node -> BufferType]
         /\ handling' \in [Node -> SUBSET Block]
         /\ \A q \in Node : q # n => ooo'[q] = ooo[q] /\ handling'[q] = handling[q]
         /\ Single(ooo'[n])
         /\ ooo'[n].resolvedBlocks = o.resolvedBlocks
         /\ ooo'[n].resolvedRounds = o.resolvedRounds
         /\ Buffer!Kept(ooo'[n]) \subseteq Buffer!Kept(o) \cup ms
         /\ handling[n] \subseteq handling'[n]
         /\ \A b \in handling'[n] : b \in handling[n] \/ (b \in ms /\ Buffer!Ready(o, b))
<1> DEFINE late == {m \in ms : ~Buffer!Ready(o, m)}
           p == Deferred(o, late)
<1>1. /\ ooo' = [ooo EXCEPT ![n] = p]
      /\ handling' = [handling EXCEPT ![n] = @ \cup (ms \ late)]
  BY Zenon DEF Handle, Deferred
<1>2. late \in SUBSET Block /\ AtMostOne(late) /\ late \subseteq ms
  BY DEF AtMostOne
<1>3. \A b \in ms \ late : Buffer!Ready(o, b)
  OBVIOUS
<1> HIDE DEF late
<1>4. /\ p \in BufferType /\ Single(p)
      /\ p.resolvedBlocks = o.resolvedBlocks /\ p.resolvedRounds = o.resolvedRounds
      /\ Buffer!Kept(p) \subseteq Buffer!Kept(o) \cup late
  BY <1>2, DeferredKeeps
<1> HIDE DEF p
<1>5. ooo \in [Node -> BufferType] /\ handling \in [Node -> SUBSET Block]
  BY DEF EngineType
<1>6. /\ ooo' \in [Node -> BufferType] /\ ooo'[n] = p
      /\ \A q \in Node : q # n => ooo'[q] = ooo[q]
  BY <1>1, <1>4, <1>5
<1>7. /\ handling' \in [Node -> SUBSET Block] /\ handling'[n] = handling[n] \cup (ms \ late)
      /\ \A q \in Node : q # n => handling'[q] = handling[q]
  BY <1>1, <1>5
<1> QED
  BY <1>2, <1>3, <1>4, <1>6, <1>7

\* The initial state.
LEMMA EngineInit == Init => EngineInv
<1> SUFFICES ASSUME Init PROVE EngineInv
  OBVIOUS
<1> DEFINE g == GenesisBlock
<1>1. conf \in Network /\ MaxRound \in Nat
  BY EngineAssumption DEF Init
<1>2. g \in Block /\ g.id = Genesis /\ g.prev = Genesis /\ g.round = 0 /\ Genesis[1] = 0
  BY <1>1 DEF GenesisBlock, Block, Network, BlockId, Genesis
<1>3. chain = [n \in Node |-> {g}]
  BY DEF Init
<1> HIDE DEF g
<1>4. EngineType
  <2>1. conf.joined \in [Node -> 0..MaxRound]
    BY <1>1 DEF Network
  <2>2. chain \in [Node -> SUBSET Block]
    BY <1>2, <1>3
  <2>3. ooo \in [Node -> BufferType]
    BY FreshKeeps DEF Init
  <2> QED
    BY <1>1, <2>1, <2>2, <2>3 DEF EngineType, Init
<1>5. \A b \in Blocks : b = g
  <2>1. \A n \in Node : chain[n] = {g} /\ handling[n] = {} /\ Buffer!Kept(ooo[n]) = {}
    BY Zenon, <1>3, FreshKeeps DEF Init
  <2>2. refused = {} /\ net.blocks = {}
    BY DEF Init
  <2> QED
    BY <2>1, <2>2 DEF Blocks
<1>6. BlocksOK
  BY <1>2, <1>5 DEF BlocksOK
<1>7. OwnBlocks
  BY <1>2, <1>5 DEF OwnBlocks
<1>8. \A n \in Node : Ids(chain[n]) = {Genesis}
  BY <1>2, <1>3 DEF Ids
<1>9. Chains
  <2> SUFFICES ASSUME NEW n \in Node
               PROVE  /\ Closed(chain[n])
                      /\ tip[n].id \in Ids(chain[n])
                      /\ \A b \in chain[n] \cup handling[n] : b.round <= clock[n]
                      /\ toMint[n] => clock[n] >= 1
    BY DEF Chains
  <2>1. chain[n] = {g} /\ handling[n] = {} /\ tip[n].id = Genesis /\ ~toMint[n]
    BY ZenonT(30), <1>3 DEF Init
  <2>2. clock[n] \in 0..MaxRound
    BY <1>4 DEF EngineType
  <2>3. Closed(chain[n])
    BY Zenon, <1>2, <1>8, <2>1 DEF Closed
  <2>4. \A b \in chain[n] \cup handling[n] : b.round <= clock[n]
    BY <1>2, <2>1, <2>2
  <2> QED
    BY <1>8, <2>1, <2>3, <2>4
<1>10. Buffers
  BY FreshKeeps DEF Buffers, Init
<1>11. ResolvedStored
  BY Zenon, <1>8, FreshKeeps DEF ResolvedStored, Init
<1>12. SpoiledIsProposed /\ RefusedWhenOvertaken
  BY DEF SpoiledIsProposed, RefusedWhenOvertaken, Init
<1> QED
  BY <1>4, <1>6, <1>7, <1>9, <1>10, <1>11, <1>12 DEF EngineInv

\* A step that leaves chains, buffers, handlers and clocks alone, and sends no block but
\* those of chains.
LEMMA QuietStep ==
  ASSUME EngineInv,
         UNCHANGED <<conf, chain, tip, ooo, clock, toMint, handling, stamped, refused>>,
         pool' \in [Node -> SUBSET Node],
         DOMAIN net' = {"blocks", "writes", "syncs"},
         net'.blocks \subseteq net.blocks \cup (Node \X UNION {chain[n] : n \in Node})
  PROVE  EngineInv'
<1>T. EngineType
  BY DEF EngineInv
<1>B. BlocksOK
  BY DEF EngineInv
<1>O. OwnBlocks
  BY DEF EngineInv
<1>C. Chains
  BY DEF EngineInv
<1>U. Buffers
  BY DEF EngineInv
<1>R. ResolvedStored
  BY DEF EngineInv
<1>S. SpoiledIsProposed
  BY DEF EngineInv
<1>V. RefusedWhenOvertaken
  BY DEF EngineInv
<1>1. \A m \in net'.blocks : m \in Node \X Block /\ m[2] \in Blocks
  BY <1>T, BlocksParts DEF EngineType
<1>2. EngineType'
  BY <1>T, <1>1 DEF EngineType
<1>3. Blocks' \subseteq Blocks
  <2>1. \A n \in Node : chain'[n] \subseteq Blocks /\ handling'[n] \subseteq Blocks
                     /\ Buffer!Kept(ooo'[n]) \subseteq Blocks
    BY BlocksParts
  <2>2. refused' \subseteq Blocks
    BY BlocksParts
  <2> QED
    BY <1>1, <2>1, <2>2, BlocksWithin
<1>4. BlocksOK'
  BY <1>B, <1>3 DEF BlocksOK
<1>5. OwnBlocks'
  BY <1>O, <1>3, OwnFrame
<1>6. Chains' /\ Buffers'
  BY <1>C, <1>U DEF Chains, Buffers
<1>7. ResolvedStored' /\ SpoiledIsProposed' /\ RefusedWhenOvertaken'
  BY <1>R, <1>S, <1>V DEF ResolvedStored, SpoiledIsProposed, RefusedWhenOvertaken
<1> QED
  BY <1>2, <1>4, <1>5, <1>6, <1>7 DEF EngineInv

\* A block comes in.
LEMMA DeliverStep ==
  ASSUME EngineInv, NEW n \in Node, NEW id \in BlockId, DeliverBlock(n, id)
  PROVE  EngineInv'
<1>T. EngineType
  BY DEF EngineInv
<1>B. BlocksOK
  BY DEF EngineInv
<1>O. OwnBlocks
  BY DEF EngineInv
<1>C. Chains
  BY DEF EngineInv
<1>U. Buffers
  BY DEF EngineInv
<1>R. ResolvedStored
  BY DEF EngineInv
<1>S. SpoiledIsProposed
  BY DEF EngineInv
<1>V. RefusedWhenOvertaken
  BY DEF EngineInv
<1>1. PICK m \in net.blocks :
        /\ Handle(n, ooo[n], {m[2]})
        /\ net' = [net EXCEPT !.blocks = @ \ {m}]
        /\ UNCHANGED <<conf, chain, tip, clock, toMint, pool, stamped, refused>>
  BY Zenon DEF DeliverBlock
<1> DEFINE o == ooo[n]
           b == m[2]
<1>2. o \in BufferType /\ Single(o) /\ {b} \in SUBSET Block /\ AtMostOne({b}) /\ b \in Blocks
  BY <1>T, <1>U, BlocksParts DEF EngineType, Buffers, AtMostOne
<1>3. /\ ooo' \in [Node -> BufferType] /\ handling' \in [Node -> SUBSET Block]
      /\ \A q \in Node : q # n => ooo'[q] = ooo[q] /\ handling'[q] = handling[q]
      /\ Single(ooo'[n])
      /\ ooo'[n].resolvedBlocks = o.resolvedBlocks /\ ooo'[n].resolvedRounds = o.resolvedRounds
      /\ Buffer!Kept(ooo'[n]) \subseteq Buffer!Kept(o) \cup {b}
      /\ handling[n] \subseteq handling'[n]
      /\ \A c \in handling'[n] : c \in handling[n] \/ (c \in {b} /\ Buffer!Ready(o, c))
  <2> HIDE DEF b, o
  <2> QED
    BY <1>T, <1>U, <1>1, <1>2, HandleEffect DEF b, o
<1>4. net'.blocks \subseteq net.blocks /\ DOMAIN net' = DOMAIN net
  BY <1>T, <1>1 DEF EngineType
<1>5. EngineType'
  BY <1>T, <1>1, <1>3, <1>4 DEF EngineType
<1> HIDE DEF b
<1>6. Blocks' \subseteq Blocks
  <2>1. ASSUME NEW q \in Node
        PROVE  chain'[q] \subseteq Blocks /\ handling'[q] \subseteq Blocks
               /\ Buffer!Kept(ooo'[q]) \subseteq Blocks
    BY <1>1, <1>2, <1>3, BlocksParts
  <2>2. refused' \subseteq Blocks /\ \A k \in net'.blocks : k[2] \in Blocks
    BY <1>1, <1>4, BlocksParts
  <2> QED
    BY <2>1, <2>2, BlocksWithin
<1>7. BlocksOK'
  BY <1>B, <1>6 DEF BlocksOK
<1>8. OwnBlocks'
  BY <1>O, <1>1, <1>6, OwnFrame
<1>9. \A c \in handling'[n] : c \in handling[n]
        \/ (c.prev \in o.resolvedBlocks /\ c.round \in o.resolvedRounds)
  BY <1>3 DEF Buffer!Ready
<1>10. Buffers'
  BY <1>U, <1>1, <1>3 DEF Buffers
<1>11. Chains'
  <2>1. \A q \in Node : \A c \in handling'[q] : c.round <= clock[q]
    BY <1>C, <1>U, <1>3, <1>9 DEF Chains, Buffers
  <2> QED
    BY <1>C, <1>1, <2>1 DEF Chains
<1>12. ResolvedStored'
  BY <1>R, <1>1, <1>3, <1>9 DEF ResolvedStored
<1>13. SpoiledIsProposed' /\ RefusedWhenOvertaken'
  BY <1>S, <1>V, <1>1, <1>3 DEF SpoiledIsProposed, RefusedWhenOvertaken
<1> QED
  BY <1>5, <1>7, <1>8, <1>10, <1>11, <1>12, <1>13 DEF EngineInv

\* The clock gives a round.
LEMMA EnterStep ==
  ASSUME EngineInv, NEW n \in Node, NEW nr \in 1..conf.rounds, EnterRound(n, nr)
  PROVE  EngineInv'
<1>T. EngineType
  BY DEF EngineInv
<1>B. BlocksOK
  BY DEF EngineInv
<1>O. OwnBlocks
  BY DEF EngineInv
<1>C. Chains
  BY DEF EngineInv
<1>U. Buffers
  BY DEF EngineInv
<1>R. ResolvedStored
  BY DEF EngineInv
<1>S. SpoiledIsProposed
  BY DEF EngineInv
<1>V. RefusedWhenOvertaken
  BY DEF EngineInv
<1> DEFINE o == Buffer!ResolveNr(ooo[n], nr)
           ms == ooo[n].onRounds[nr]
<1>1. /\ nr > clock[n] /\ nr \in RoundNr
      /\ Handle(n, o, ms)
      /\ clock' = [clock EXCEPT ![n] = nr]
      /\ toMint' = [toMint EXCEPT ![n] = TRUE]
      /\ UNCHANGED <<conf, chain, tip, pool, stamped, refused>>
  BY <1>T, IdTypes DEF EnterRound, EngineType, Network, RoundNr
<1>2. net'.blocks = net.blocks /\ DOMAIN net' = DOMAIN net
  BY <1>T DEF EnterRound, EngineType
<1>3. ooo[n] \in BufferType /\ Single(ooo[n])
  BY <1>T, <1>U DEF EngineType, Buffers
<1>4. /\ o \in BufferType /\ Single(o) /\ Buffer!Kept(o) \subseteq Buffer!Kept(ooo[n])
      /\ o.resolvedBlocks = ooo[n].resolvedBlocks
      /\ o.resolvedRounds = ooo[n].resolvedRounds \cup {nr}
  BY <1>1, <1>3, ResolveKeeps
<1>5. ms \in SUBSET Block /\ AtMostOne(ms) /\ ms \subseteq Buffer!Kept(ooo[n])
  BY <1>1, <1>3, SlotKept DEF Single
<1> HIDE DEF o, ms
<1>6. /\ ooo' \in [Node -> BufferType] /\ handling' \in [Node -> SUBSET Block]
      /\ \A q \in Node : q # n => ooo'[q] = ooo[q] /\ handling'[q] = handling[q]
      /\ Single(ooo'[n])
      /\ ooo'[n].resolvedBlocks = o.resolvedBlocks /\ ooo'[n].resolvedRounds = o.resolvedRounds
      /\ Buffer!Kept(ooo'[n]) \subseteq Buffer!Kept(o) \cup ms
      /\ handling[n] \subseteq handling'[n]
      /\ \A c \in handling'[n] : c \in handling[n] \/ (c \in ms /\ Buffer!Ready(o, c))
  BY <1>T, <1>U, <1>1, <1>4, <1>5, HandleEffect
<1>7. /\ clock \in [Node -> 0..MaxRound] /\ clock' \in [Node -> 0..MaxRound]
      /\ clock'[n] = nr /\ \A q \in Node : q # n => clock'[q] = clock[q]
  BY <1>T, <1>1, IdTypes DEF EngineType, RoundNr
<1>8. DOMAIN toMint' = Node /\ \A q \in Node : q # n => toMint'[q] = toMint[q]
  BY <1>T, <1>1 DEF EngineType
<1>9. EngineType'
  BY <1>T, <1>1, <1>2, <1>6, <1>7, <1>8 DEF EngineType
<1>10. Blocks' \subseteq Blocks
  <2>1. ASSUME NEW q \in Node
        PROVE  chain'[q] \subseteq Blocks /\ handling'[q] \subseteq Blocks
               /\ Buffer!Kept(ooo'[q]) \subseteq Blocks
    BY <1>1, <1>4, <1>5, <1>6, BlocksParts
  <2>2. refused' \subseteq Blocks /\ \A k \in net'.blocks : k[2] \in Blocks
    BY <1>1, <1>2, BlocksParts
  <2> QED
    BY <2>1, <2>2, BlocksWithin
<1>11. BlocksOK'
  BY <1>B, <1>10 DEF BlocksOK
<1>12. \A q \in Node : \A r \in 0..MaxRound : r <= clock[q] => r <= clock'[q]
  <2>1. \A q \in Node : clock[q] \in Nat /\ clock'[q] \in Nat /\ clock[q] <= clock'[q]
    BY <1>1, <1>7, IdTypes
  <2> QED
    BY <2>1, IdTypes
<1>13. \A b \in Blocks : b \in Block
  BY <1>T, BlockTypes
<1>14. OwnBlocks'
  <2> SUFFICES ASSUME NEW b \in Blocks, NEW q \in Node, b.id[2] = q, b.id # Genesis
               PROVE  /\ b.round <= clock'[q] /\ (toMint'[q] => b.round < clock'[q])
                      /\ b.prev \in Ids(chain[q])
                      /\ b.deposits \cap Staked(chain[q], b.prev) = {}
    BY <1>O, <1>1, <1>10 DEF OwnBlocks
  <2>1. /\ b.round <= clock[q] /\ (toMint[q] => b.round < clock[q])
        /\ b.prev \in Ids(chain[q])
        /\ b.deposits \cap Staked(chain[q], b.prev) = {}
    BY <1>O DEF OwnBlocks
  <2>2. b.round \in 0..MaxRound
    BY <1>13 DEF Block
  <2>3. CASE q = n
    BY <1>1, <1>7, <2>1, <2>2, <2>3, IdTypes
  <2>4. CASE q # n
    BY <1>7, <1>8, <2>1, <2>4
  <2> QED
    BY <2>3, <2>4
<1>15. \A c \in handling'[n] : c \in handling[n]
         \/ (c.prev \in o.resolvedBlocks /\ c.round \in o.resolvedRounds)
  BY <1>6 DEF Buffer!Ready
<1>16. o.resolvedRounds \subseteq 1..nr
  <2>1. clock[n] \in Nat /\ nr \in Nat /\ nr >= 1
    BY <1>1, <1>7, IdTypes DEF RoundNr
  <2>2. ooo[n].resolvedRounds \subseteq 1..clock[n]
    BY <1>U DEF Buffers
  <2> QED
    BY <1>1, <1>4, <2>1, <2>2
<1>17. Buffers'
  BY <1>U, <1>6, <1>7, <1>16 DEF Buffers
<1>18. Chains'
  <2> SUFFICES ASSUME NEW q \in Node
               PROVE  /\ \A b \in chain[q] \cup handling'[q] : b.round <= clock'[q]
                      /\ toMint'[q] => clock'[q] >= 1
    BY <1>C, <1>1 DEF Chains
  <2>1. \A b \in chain[q] \cup handling[q] : b.round <= clock'[q]
    <3>1. \A b \in chain[q] \cup handling[q] : b.round \in 0..MaxRound /\ b.round <= clock[q]
      BY <1>T, <1>C DEF EngineType, Block, Chains
    <3> QED
      BY <1>12, <3>1
  <2>2. CASE q = n
    <3>1. nr >= 1 /\ clock'[q] = nr
      BY <1>1, <1>7, <2>2 DEF RoundNr
    <3>2. \A b \in handling'[q] : b \in handling[q] \/ b.round <= nr
      BY <1>15, <1>16, <2>2
    <3> QED
      BY <2>1, <3>1, <3>2
  <2>3. CASE q # n
    BY <1>C, <1>6, <1>7, <1>8, <2>1, <2>3 DEF Chains
  <2> QED
    BY <2>2, <2>3
<1>19. ResolvedStored'
  BY ZenonT(30), <1>R, <1>1, <1>4, <1>6, <1>15 DEF ResolvedStored
<1>20. SpoiledIsProposed' /\ RefusedWhenOvertaken'
  BY ZenonT(30), <1>S, <1>V, <1>1, <1>6 DEF SpoiledIsProposed, RefusedWhenOvertaken
<1> QED
  BY <1>9, <1>11, <1>14, <1>17, <1>18, <1>19, <1>20 DEF EngineInv

\* The rest of handleRound: the member mints, or has no stake and does not.
LEMMA MintStep ==
  ASSUME EngineInv, NEW n \in Node, Mint(n)
  PROVE  EngineInv'
<1>T. EngineType
  BY DEF EngineInv
<1>B. BlocksOK
  BY DEF EngineInv
<1>O. OwnBlocks
  BY DEF EngineInv
<1>C. Chains
  BY DEF EngineInv
<1>U. Buffers
  BY DEF EngineInv
<1>R. ResolvedStored
  BY DEF EngineInv
<1>S. SpoiledIsProposed
  BY DEF EngineInv
<1>V. RefusedWhenOvertaken
  BY DEF EngineInv
<1> DEFINE staked == Staked(chain[n], tip[n].id)
           new(ws) == [id |-> <<clock[n], n>>, prev |-> tip[n].id, round |-> clock[n],
                       deposits |-> ws]
<1>1. /\ toMint[n] /\ toMint' = [toMint EXCEPT ![n] = FALSE]
      /\ UNCHANGED <<conf, chain, tip, ooo, clock, pool, refused, net>>
  BY ZenonT(30) DEF Mint
<1>2. DOMAIN toMint' = Node /\ ~toMint'[n] /\ \A q \in Node : q # n => toMint'[q] = toMint[q]
  BY <1>T, <1>1 DEF EngineType
<1>3. clock[n] \in RoundNr /\ clock[n] \in 0..MaxRound /\ clock[n] \in Nat
  BY <1>T, <1>C, <1>1, IdTypes DEF EngineType, Chains, RoundNr
<1>4. tip[n].id \in Ids(chain[n])
  BY <1>C DEF Chains
<1>5. CASE UNCHANGED <<handling, stamped>>
  <2>1. EngineType'
    BY <1>T, <1>1, <1>2, <1>5 DEF EngineType
  <2>2. Blocks' = Blocks
    BY <1>1, <1>5 DEF Blocks
  <2>3. OwnBlocks'
    BY <1>O, <1>1, <1>2, <2>2, OwnFrame
  <2>4. BlocksOK' /\ Buffers'
    BY <1>B, <1>U, <1>1, <2>2 DEF BlocksOK, Buffers
  <2>5. Chains'
    BY <1>C, <1>1, <1>2, <1>5 DEF Chains
  <2>6. ResolvedStored' /\ SpoiledIsProposed' /\ RefusedWhenOvertaken'
    BY <1>R, <1>S, <1>V, <1>1, <1>5 DEF ResolvedStored, SpoiledIsProposed, RefusedWhenOvertaken
  <2> QED
    BY <2>1, <2>3, <2>4, <2>5, <2>6 DEF EngineInv
<1>6. CASE \E ws \in Picks(n, staked) :
             /\ handling' = [handling EXCEPT ![n] = @ \cup {new(ws)}]
             /\ stamped' = [stamped EXCEPT ![n] = @ \cup Committed(n, staked, ws)]
  <2>1. PICK ws \in Picks(n, staked) :
             /\ handling' = [handling EXCEPT ![n] = @ \cup {new(ws)}]
             /\ stamped' = [stamped EXCEPT ![n] = @ \cup ws]
    BY Zenon, <1>6 DEF Committed
  <2>2. ws \subseteq pool[n] \ staked /\ ws \subseteq Node
    BY <1>T DEF Picks, EngineType
  <2> DEFINE b == new(ws)
  <2>3. /\ b.id = <<clock[n], n>> /\ b.id[1] = clock[n] /\ b.id[2] = n
        /\ b.prev = tip[n].id /\ b.round = clock[n] /\ b.deposits = ws
    OBVIOUS
  <2>4. PICK t \in chain[n] : t.id = tip[n].id
    BY <1>4 DEF Ids
  <2>5. t \in Blocks /\ t \in Block /\ t.round <= clock[n] /\ t.round = t.id[1]
    BY SMTT(30), <1>T, <1>B, <1>C, BlocksParts DEF EngineType, Chains, BlocksOK
  <2>6. b \in Block /\ b.prev[1] <= b.round /\ b.id # Genesis
    <3>1. <<clock[n], n>> \in BlockId /\ <<clock[n], n>> # Genesis
      BY <1>3 DEF BlockId, Genesis, RoundNr
    <3>2. tip[n].id \in BlockId
      BY <2>4, <2>5 DEF Block
    <3> QED
      BY SMTT(30), <1>3, <2>2, <2>3, <2>4, <2>5, <3>1, <3>2 DEF Block
  <2> HIDE DEF b
  <2>7. \A c \in Blocks : c.id # b.id
    <3> SUFFICES ASSUME NEW c \in Blocks, c.id = b.id PROVE FALSE
      OBVIOUS
    <3>1. c.round = clock[n]
      BY <1>B, <2>3 DEF BlocksOK
    <3>2. c.round < clock[n]
      BY Zenon, <1>O, <1>1, <2>3, <2>6 DEF OwnBlocks
    <3> QED
      BY <1>3, <3>1, <3>2
  <2>8. /\ handling' \in [Node -> SUBSET Block] /\ handling'[n] = handling[n] \cup {b}
        /\ \A q \in Node : q # n => handling'[q] = handling[q]
    BY <1>T, <2>1, <2>6 DEF EngineType, b
  <2>9. /\ stamped' \in [Node -> SUBSET Node] /\ stamped'[n] = stamped[n] \cup ws
        /\ \A q \in Node : q # n => stamped'[q] = stamped[q]
    BY <1>T, <2>1, <2>2 DEF EngineType
  <2>10. EngineType'
    BY <1>T, <1>1, <1>2, <2>8, <2>9 DEF EngineType
  <2>11. Blocks' \subseteq Blocks \cup {b}
    <3>1. ASSUME NEW q \in Node
          PROVE  chain'[q] \subseteq Blocks \cup {b} /\ handling'[q] \subseteq Blocks \cup {b}
                 /\ Buffer!Kept(ooo'[q]) \subseteq Blocks \cup {b}
      BY <1>1, <2>8, BlocksParts
    <3>2. refused' \subseteq Blocks \cup {b} /\ \A k \in net'.blocks : k[2] \in Blocks \cup {b}
      BY <1>1, BlocksParts
    <3> QED
      BY ZenonT(30), <3>1, <3>2, BlocksWithin
  <2>12. BlocksOK'
    BY <1>B, <2>3, <2>6, <2>7, <2>11 DEF BlocksOK
  <2>13. OwnBlocks'
    <3> SUFFICES ASSUME NEW c \in Blocks \cup {b}, NEW q \in Node, c.id[2] = q, c.id # Genesis
                 PROVE  /\ c.round <= clock[q] /\ (toMint'[q] => c.round < clock[q])
                        /\ c.prev \in Ids(chain[q])
                        /\ c.deposits \cap Staked(chain[q], c.prev) = {}
      BY <1>O, <1>1, <2>11 DEF OwnBlocks
    <3>1. CASE c = b
      BY <1>2, <1>3, <1>4, <2>2, <2>3, <3>1
    <3>2. CASE c \in Blocks
      BY <1>O, <1>2, <3>2 DEF OwnBlocks
    <3> QED
      BY <3>1, <3>2
  <2>14. Chains'
    <3>1. ASSUME NEW q \in Node, NEW c \in handling'[q] PROVE c.round <= clock[q]
      <4>1. CASE c \in handling[q]
        BY <1>C, <4>1 DEF Chains
      <4>2. CASE c \notin handling[q]
        <5>1. c = b /\ q = n
          BY <2>8, <4>2
        <5> QED
          BY <1>3, <2>3, <5>1
      <4> QED
        BY <4>1, <4>2
    <3> QED
      BY Zenon, <1>C, <1>1, <1>2, <3>1 DEF Chains
  <2>15. Buffers' /\ RefusedWhenOvertaken'
    BY Zenon, <1>U, <1>V, <1>1 DEF Buffers, RefusedWhenOvertaken
  <2>16. ResolvedStored'
    BY ZenonT(30), <1>R, <1>1, <1>4, <2>3, <2>8 DEF ResolvedStored
  <2>17. SpoiledIsProposed'
    <3> SUFFICES ASSUME NEW q \in Node, NEW w \in stamped'[q]
                 PROVE  \E c \in chain[q] \cup handling'[q] \cup refused : c.id[2] = q /\ w \in c.deposits
      BY <1>S, <1>1 DEF SpoiledIsProposed
    <3>1. CASE w \in stamped[q]
      BY <1>S, <2>8, <3>1 DEF SpoiledIsProposed
    <3>2. CASE w \notin stamped[q]
      BY <2>3, <2>8, <2>9, <3>2
    <3> QED
      BY <3>1, <3>2
  <2> QED
    BY <2>10, <2>12, <2>13, <2>14, <2>15, <2>16, <2>17 DEF EngineInv
<1> QED
  BY <1>5, <1>6 DEF Mint

\* handleBlock of a block that is not appended.
LEMMA DropStep ==
  ASSUME EngineInv, NEW n \in Node, NEW id \in BlockId, DropBlock(n, id)
  PROVE  EngineInv'
<1>T. EngineType
  BY DEF EngineInv
<1>B. BlocksOK
  BY DEF EngineInv
<1>O. OwnBlocks
  BY DEF EngineInv
<1>C. Chains
  BY DEF EngineInv
<1>U. Buffers
  BY DEF EngineInv
<1>R. ResolvedStored
  BY DEF EngineInv
<1>S. SpoiledIsProposed
  BY DEF EngineInv
<1>V. RefusedWhenOvertaken
  BY DEF EngineInv
<1>1. PICK b \in handling[n] :
        /\ b.id = id
        /\ id \in Ids(chain[n]) \/ ~Acceptable(chain[n], b)
        /\ handling' = [handling EXCEPT ![n] = @ \ {b}]
        /\ refused' = IF id[2] = n /\ id \notin Ids(chain[n]) THEN refused \cup {b} ELSE refused
        /\ UNCHANGED <<conf, chain, tip, ooo, clock, toMint, pool, stamped, net>>
  BY ZenonT(30) DEF DropBlock
<1>2. b \in Blocks /\ b \in Block
  BY SMTT(30), <1>T, BlocksParts DEF EngineType
<1>3. /\ handling' \in [Node -> SUBSET Block] /\ handling'[n] = handling[n] \ {b}
      /\ \A q \in Node : q # n => handling'[q] = handling[q]
  BY SMTT(30), <1>T, <1>1 DEF EngineType
<1>4. EngineType'
  BY <1>T, <1>1, <1>2, <1>3 DEF EngineType
<1>5. Blocks' \subseteq Blocks
  <2>1. ASSUME NEW q \in Node
        PROVE  chain'[q] \subseteq Blocks /\ handling'[q] \subseteq Blocks
               /\ Buffer!Kept(ooo'[q]) \subseteq Blocks
    BY <1>1, <1>3, BlocksParts
  <2>2. refused' \subseteq Blocks /\ \A k \in net'.blocks : k[2] \in Blocks
    BY <1>1, <1>2, BlocksParts
  <2> QED
    BY SMTT(30), <2>1, <2>2, BlocksWithin
<1>6. BlocksOK'
  BY <1>B, <1>5 DEF BlocksOK
<1>7. OwnBlocks'
  BY <1>O, <1>1, <1>5, OwnFrame
<1>8. Chains' /\ Buffers' /\ ResolvedStored'
  BY Zenon, <1>C, <1>U, <1>R, <1>1, <1>3 DEF Chains, Buffers, ResolvedStored
<1>9. SpoiledIsProposed'
  <2> SUFFICES ASSUME NEW q \in Node, NEW w \in stamped[q]
               PROVE  \E c \in chain[q] \cup handling'[q] \cup refused' : c.id[2] = q /\ w \in c.deposits
    BY <1>S, <1>1 DEF SpoiledIsProposed
  <2>1. PICK c \in chain[q] \cup handling[q] \cup refused : c.id[2] = q /\ w \in c.deposits
    BY <1>S DEF SpoiledIsProposed
  <2>2. refused \subseteq refused'
    BY <1>1
  <2>3. CASE c # b \/ q # n
    BY <1>3, <2>1, <2>2, <2>3
  <2>4. CASE c = b /\ q = n
    <3>1. CASE id \notin Ids(chain[n])
      BY <1>1, <2>1, <2>4, <3>1
    <3>2. CASE id \in Ids(chain[n])
      <4>1. PICK d \in chain[n] : d.id = id
        BY <3>2 DEF Ids
      <4>2. d = b
        BY <1>B, <1>1, <1>2, <4>1, BlocksParts DEF BlocksOK
      <4> QED
        BY <2>1, <2>4, <4>1, <4>2
    <3> QED
      BY <3>1, <3>2
  <2> QED
    BY ZenonT(30), <2>3, <2>4
<1>10. RefusedWhenOvertaken'
  <2> SUFFICES ASSUME id[2] = n, id \notin Ids(chain[n]), n \in conf.founder
               PROVE  b.prev[1] = b.round
    BY <1>V, <1>1 DEF RefusedWhenOvertaken
  <2>1. ~Acceptable(chain[n], b)
    BY <1>1
  <2>2. b.id # Genesis
    BY <1>C, <1>1 DEF Chains, Closed
  <2>3. b.prev \in Ids(chain[n]) /\ b.deposits \cap Staked(chain[n], b.prev) = {}
    BY SMTT(30), <1>O, <1>1, <1>2, <2>2 DEF OwnBlocks
  <2>4. ~(b.round > Get(chain[n], b.prev).round)
    BY SMTT(30), <1>1, <2>1, <2>3 DEF Acceptable
  <2>5. Get(chain[n], b.prev).round = b.prev[1]
    BY <1>B, <2>3, GetFinds, BlocksParts DEF BlocksOK
  <2>6. b.round \in Nat /\ b.prev[1] \in Nat /\ b.prev[1] <= b.round
    BY <1>B, <1>2, IdTypes DEF BlocksOK, Block
  <2> QED
    BY <2>4, <2>5, <2>6
<1> QED
  BY <1>4, <1>6, <1>7, <1>8, <1>9, <1>10 DEF EngineInv

\* handleBlock of a block that Append takes.
LEMMA AppendStep ==
  ASSUME EngineInv, NEW n \in Node, NEW id \in BlockId, AppendBlock(n, id)
  PROVE  EngineInv'
<1>T. EngineType
  BY DEF EngineInv
<1>B. BlocksOK
  BY DEF EngineInv
<1>O. OwnBlocks
  BY DEF EngineInv
<1>C. Chains
  BY DEF EngineInv
<1>U. Buffers
  BY DEF EngineInv
<1>R. ResolvedStored
  BY DEF EngineInv
<1>S. SpoiledIsProposed
  BY DEF EngineInv
<1>V. RefusedWhenOvertaken
  BY DEF EngineInv
<1> DEFINE o == Buffer!ResolveBlock(ooo[n], id)
           ms == ooo[n].onBlocks[id]
           late == {m \in ms : ~Buffer!Ready(o, m)}
           p == Deferred(o, late)
<1>1. PICK b \in handling[n] :
        /\ b.id = id /\ id \notin Ids(chain[n])
        /\ Acceptable(chain[n], b)
        /\ chain' = [chain EXCEPT ![n] = chain[n] \cup {b}]
        /\ tip' = [tip EXCEPT ![n] = Weigh(chain[n] \cup {b}, b.round, @)]
        /\ ooo' = [ooo EXCEPT ![n] = p]
        /\ handling' = [handling EXCEPT ![n] = (@ \ {b}) \cup (ms \ late)]
        /\ net' = [net EXCEPT !.blocks = @ \cup ToPeers(n, b)]
        /\ UNCHANGED <<conf, clock, toMint, pool, stamped, refused>>
  BY ZenonT(30) DEF AppendBlock, Deferred
<1> DEFINE S == chain[n] \cup {b}
<1>2. b \in Blocks /\ b \in Block /\ S \in SUBSET Block /\ chain[n] \in SUBSET Block
  BY <1>T, BlocksParts DEF EngineType
<1>3. ooo[n] \in BufferType /\ Single(ooo[n])
  BY <1>T, <1>U DEF EngineType, Buffers
<1>4. /\ o \in BufferType /\ Single(o) /\ Buffer!Kept(o) \subseteq Buffer!Kept(ooo[n])
      /\ o.resolvedBlocks = ooo[n].resolvedBlocks \cup {id}
      /\ o.resolvedRounds = ooo[n].resolvedRounds
  BY ZenonT(30), <1>3, ResolveKeeps
<1>5. ms \in SUBSET Block /\ AtMostOne(ms) /\ ms \subseteq Buffer!Kept(ooo[n])
  BY <1>3, SlotKept DEF Single
<1> HIDE DEF o, ms
<1>6. late \in SUBSET Block /\ AtMostOne(late) /\ late \subseteq ms
  BY <1>5 DEF AtMostOne
<1>7. \A m \in ms \ late : m.prev \in o.resolvedBlocks /\ m.round \in o.resolvedRounds
  BY DEF Buffer!Ready
<1> HIDE DEF late
<1>8. /\ p \in BufferType /\ Single(p)
      /\ p.resolvedBlocks = o.resolvedBlocks /\ p.resolvedRounds = o.resolvedRounds
      /\ Buffer!Kept(p) \subseteq Buffer!Kept(o) \cup late
  BY <1>4, <1>6, DeferredKeeps
<1> HIDE DEF p
<1>9. /\ ooo' \in [Node -> BufferType] /\ ooo'[n] = p
      /\ \A q \in Node : q # n => ooo'[q] = ooo[q]
  BY <1>T, <1>1, <1>8 DEF EngineType
<1>10. /\ handling' \in [Node -> SUBSET Block]
       /\ handling'[n] = (handling[n] \ {b}) \cup (ms \ late)
       /\ \A q \in Node : q # n => handling'[q] = handling[q]
  BY <1>T, <1>1, <1>5 DEF EngineType
<1>11. /\ chain' \in [Node -> SUBSET Block] /\ chain'[n] = S
       /\ \A q \in Node : q # n => chain'[q] = chain[q]
  BY <1>T, <1>1, <1>2 DEF EngineType
<1>12. /\ DOMAIN net' = DOMAIN net
       /\ \A k \in net'.blocks : k \in net.blocks \/ (k \in Node \X Block /\ k[2] = b)
  <2>1. conf.peers[n] \subseteq Node
    BY <1>T DEF EngineType, Network
  <2>2. \A k \in ToPeers(n, b) : k \in Node \X Block /\ k[2] = b
    BY <1>2, <2>1 DEF ToPeers
  <2> QED
    BY <1>T, <1>1, <2>2 DEF EngineType
<1>13. /\ DOMAIN tip' = Node /\ tip'[n] = Weigh(S, b.round, tip[n])
       /\ \A q \in Node : q # n => tip'[q] = tip[q]
  BY <1>T, <1>1 DEF EngineType
<1>14. EngineType'
  BY <1>T, <1>1, <1>9, <1>10, <1>11, <1>12, <1>13 DEF EngineType
<1>15. Blocks' \subseteq Blocks
  <2>1. ASSUME NEW q \in Node
        PROVE  chain'[q] \subseteq Blocks /\ handling'[q] \subseteq Blocks
               /\ Buffer!Kept(ooo'[q]) \subseteq Blocks
    <3>1. CASE q = n
      BY <1>2, <1>4, <1>5, <1>6, <1>8, <1>9, <1>10, <1>11, <3>1, BlocksParts
    <3>2. CASE q # n
      BY <1>9, <1>10, <1>11, <3>2, BlocksParts
    <3> QED
      BY SMTT(30), <3>1, <3>2
  <2>2. refused' \subseteq Blocks
    BY <1>1, BlocksParts
  <2>3. \A k \in net'.blocks : k[2] \in Blocks
    BY <1>2, <1>12, BlocksParts
  <2> QED
    BY <2>1, <2>2, <2>3, BlocksWithin
<1>16. BlocksOK'
  BY <1>B, <1>15 DEF BlocksOK
<1> HIDE DEF S
<1>17. Ids(S) = Ids(chain[n]) \cup {id}
  BY <1>1 DEF Ids, S
<1>18. Closed(chain[n]) /\ Closed(S)
  <2>1. Closed(chain[n])
    BY <1>C DEF Chains
  <2>2. b.prev \in Ids(chain[n]) /\ b.round > Get(chain[n], b.prev).round
    BY <1>1 DEF Acceptable
  <2>3. Get(chain[n], b.prev).round = b.prev[1] /\ b.round = b.id[1]
    BY <1>B, <1>2, <2>2, GetFinds, BlocksParts DEF BlocksOK
  <2>4. b.prev[1] < b.id[1]
    BY <1>2, <2>2, <2>3, IdTypes DEF Block
  <2>5. Genesis \in Ids(S)
    BY <1>17, <2>1 DEF Closed
  <2>6. \A c \in S : c.id # Genesis => c.prev \in Ids(S) /\ c.prev[1] < c.id[1]
    BY <1>17, <2>1, <2>2, <2>4 DEF Closed, S
  <2> QED
    BY <2>1, <2>5, <2>6 DEF Closed
<1>19. \A i \in Ids(chain[n]) : Staked(S, i) = Staked(chain[n], i)
  <2>1. Distinct(chain[n])
    BY <1>B, BlocksParts DEF BlocksOK, Distinct
  <2>2. b.id \notin Ids(chain[n])
    BY <1>1
  <2>3. Closed(chain[n] \cup {b})
    BY <1>18 DEF S
  <2> QED
    BY <1>2, <1>18, <2>1, <2>2, <2>3, StakedStable DEF S
<1>20. OwnBlocks'
  <2> SUFFICES ASSUME NEW c \in Blocks, NEW q \in Node, c.id[2] = q, c.id # Genesis
               PROVE  /\ c.round <= clock[q] /\ (toMint[q] => c.round < clock[q])
                      /\ c.prev \in Ids(chain'[q])
                      /\ c.deposits \cap Staked(chain'[q], c.prev) = {}
    BY ZenonT(30), <1>O, <1>1, <1>15 DEF OwnBlocks
  <2>1. /\ c.round <= clock[q] /\ (toMint[q] => c.round < clock[q])
        /\ c.prev \in Ids(chain[q])
        /\ c.deposits \cap Staked(chain[q], c.prev) = {}
    BY <1>O DEF OwnBlocks
  <2>2. CASE q = n
    BY <1>11, <1>17, <1>19, <2>1, <2>2
  <2>3. CASE q # n
    BY <1>11, <2>1, <2>3
  <2> QED
    BY <2>2, <2>3
<1>21. Buffers'
  <2>1. Single(p) /\ p.resolvedRounds \subseteq 1..clock[n]
    BY <1>U, <1>4, <1>8 DEF Buffers
  <2> QED
    BY <1>U, <1>1, <1>9, <2>1 DEF Buffers
<1>22. Chains'
  <2> SUFFICES ASSUME NEW q \in Node
               PROVE  /\ Closed(chain'[q])
                      /\ tip'[q].id \in Ids(chain'[q])
                      /\ \A c \in chain'[q] \cup handling'[q] : c.round <= clock[q]
                      /\ toMint[q] => clock[q] >= 1
    BY ZenonT(30), <1>C, <1>1 DEF Chains
  <2>1. CASE q = n
    <3>1. tip[n].id \in Ids(S)
      BY <1>C, <1>17 DEF Chains
    <3>2. Weigh(S, b.round, tip[n]).id \in Ids(S)
      BY <1>2, <3>1, WeighFinds
    <3>3. \A c \in S \cup handling[n] : c.round <= clock[n]
      BY <1>C DEF Chains, S
    <3>4. \A c \in ms \ late : c.round <= clock[n]
      BY <1>U, <1>4, <1>7 DEF Buffers
    <3>5. toMint[n] => clock[n] >= 1
      BY <1>C DEF Chains
    <3> QED
      BY <1>10, <1>11, <1>13, <1>18, <2>1, <3>2, <3>3, <3>4, <3>5
  <2>2. CASE q # n
    BY Zenon, <1>C, <1>10, <1>11, <1>13, <2>2 DEF Chains
  <2> QED
    BY <2>1, <2>2
<1>23. ResolvedStored'
  <2> SUFFICES ASSUME NEW q \in Node
               PROVE  /\ ooo'[q].resolvedBlocks \subseteq Ids(chain'[q])
                      /\ \A c \in handling'[q] : c.prev \in Ids(chain'[q])
    BY <1>R DEF ResolvedStored
  <2>1. CASE q = n
    <3>1. o.resolvedBlocks \subseteq Ids(S)
      BY <1>R, <1>4, <1>17 DEF ResolvedStored
    <3>2. \A c \in handling[n] : c.prev \in Ids(S)
      BY <1>R, <1>17 DEF ResolvedStored
    <3> QED
      BY <1>7, <1>8, <1>9, <1>10, <1>11, <2>1, <3>1, <3>2
  <2>2. CASE q # n
    BY <1>R, <1>9, <1>10, <1>11, <2>2 DEF ResolvedStored
  <2> QED
    BY ZenonT(30), <2>1, <2>2
<1>24. SpoiledIsProposed'
  <2>1. \A q \in Node : chain[q] \cup handling[q] \subseteq chain'[q] \cup handling'[q]
    BY <1>10, <1>11 DEF S
  <2> QED
    BY <1>S, <1>1, <2>1 DEF SpoiledIsProposed
<1>25. RefusedWhenOvertaken'
  BY <1>V, <1>1 DEF RefusedWhenOvertaken
<1> QED
  BY <1>14, <1>16, <1>20, <1>21, <1>22, <1>23, <1>24, <1>25 DEF EngineInv

\* A restart: the chain stays, what was in memory goes.
LEMMA RestartStep ==
  ASSUME EngineInv, NEW n \in Node, Restart(n)
  PROVE  EngineInv'
<1>T. EngineType
  BY DEF EngineInv
<1>B. BlocksOK
  BY DEF EngineInv
<1>O. OwnBlocks
  BY DEF EngineInv
<1>C. Chains
  BY DEF EngineInv
<1>U. Buffers
  BY DEF EngineInv
<1>R. ResolvedStored
  BY DEF EngineInv
<1>S. SpoiledIsProposed
  BY DEF EngineInv
<1>V. RefusedWhenOvertaken
  BY DEF EngineInv
<1>1. /\ ooo' = [ooo EXCEPT ![n] = Fresh]
      /\ handling' = [handling EXCEPT ![n] = {}]
      /\ toMint' = [toMint EXCEPT ![n] = FALSE]
      /\ pool' = [pool EXCEPT ![n] = {}]
      /\ stamped' = [stamped EXCEPT ![n] = {}]
      /\ tip' = [tip EXCEPT ![n] = Weigh(chain[n], 0, @)]
      /\ UNCHANGED <<conf, chain, clock, refused, net>>
  BY DEF Restart
<1>2. /\ ooo' \in [Node -> BufferType] /\ ooo'[n] = Fresh
      /\ \A q \in Node : q # n => ooo'[q] = ooo[q]
  BY <1>T, <1>1, FreshKeeps DEF EngineType
<1>3. /\ handling' \in [Node -> SUBSET Block] /\ handling'[n] = {}
      /\ \A q \in Node : q # n => handling'[q] = handling[q]
  BY <1>T, <1>1 DEF EngineType
<1>4. /\ DOMAIN toMint' = Node /\ ~toMint'[n]
      /\ \A q \in Node : q # n => toMint'[q] = toMint[q]
  BY <1>T, <1>1 DEF EngineType
<1>5. /\ stamped' \in [Node -> SUBSET Node] /\ stamped'[n] = {}
      /\ \A q \in Node : q # n => stamped'[q] = stamped[q]
      /\ pool' \in [Node -> SUBSET Node]
  BY <1>T, <1>1 DEF EngineType
<1>6. /\ DOMAIN tip' = Node /\ tip'[n] = Weigh(chain[n], 0, tip[n])
      /\ \A q \in Node : q # n => tip'[q] = tip[q]
  BY SMTT(30), <1>T, <1>1 DEF EngineType
<1>7. EngineType'
  BY <1>T, <1>1, <1>2, <1>3, <1>4, <1>5, <1>6 DEF EngineType
<1>8. Blocks' \subseteq Blocks
  <2>1. ASSUME NEW q \in Node
        PROVE  chain'[q] \subseteq Blocks /\ handling'[q] \subseteq Blocks
               /\ Buffer!Kept(ooo'[q]) \subseteq Blocks
    BY SMTT(30), <1>1, <1>2, <1>3, BlocksParts, FreshKeeps
  <2>2. refused' \subseteq Blocks /\ \A k \in net'.blocks : k[2] \in Blocks
    BY <1>1, BlocksParts
  <2> QED
    BY SMTT(30), <2>1, <2>2, BlocksWithin
<1>9. BlocksOK'
  BY <1>B, <1>8 DEF BlocksOK
<1>10. OwnBlocks'
  BY SMTT(30), <1>O, <1>1, <1>4, <1>8, OwnFrame
<1>11. Buffers'
  BY <1>U, <1>1, <1>2, FreshKeeps DEF Buffers
<1>12. Chains'
  <2>1. Weigh(chain[n], 0, tip[n]).id \in Ids(chain[n])
    <3>1. chain[n] \in SUBSET Block /\ tip[n].id \in Ids(chain[n])
      BY <1>T, <1>C DEF EngineType, Chains
    <3> QED
      BY <3>1, WeighFinds
  <2>2. \A q \in Node : tip'[q].id \in Ids(chain[q])
    BY Zenon, <1>C, <1>6, <2>1 DEF Chains
  <2> QED
    BY Zenon, <1>C, <1>1, <1>3, <1>4, <2>2 DEF Chains
<1>13. ResolvedStored'
  <2>1. Genesis \in Ids(chain[n])
    BY ZenonT(30), <1>C DEF Chains, Closed
  <2> QED
    BY ZenonT(30), <1>R, <1>1, <1>2, <1>3, <2>1, FreshKeeps DEF ResolvedStored
<1>14. SpoiledIsProposed' /\ RefusedWhenOvertaken'
  BY <1>S, <1>V, <1>1, <1>3, <1>5 DEF SpoiledIsProposed, RefusedWhenOvertaken
<1> QED
  BY <1>7, <1>9, <1>10, <1>11, <1>12, <1>13, <1>14 DEF EngineInv

\* Syncs, writes and the rounds after the last: nothing but messages and pools change.
LEMMA MessageStep ==
  ASSUME EngineInv, NEW n \in Node,
         \/ LaterRound(n) \/ Update(n)
         \/ \E from \in Node, id \in BlockId : HandleSync(n, from, id)
         \/ \E w \in Node, signed \in BOOLEAN : DeliverWrite(n, w, signed)
         \/ \E w \in Node : RelayWrite(n, w)
  PROVE  EngineInv'
<1> DEFINE Same == UNCHANGED <<conf, chain, tip, ooo, clock, toMint, handling, stamped, refused>>
           Pools == pool' \in [Node -> SUBSET Node]
           Sent == net'.blocks \subseteq net.blocks \cup (Node \X UNION {chain[q] : q \in Node})
           Net == DOMAIN net' = {"blocks", "writes", "syncs"}
<1>1. EngineType
  BY DEF EngineInv
<1>2. CASE LaterRound(n)
  <2>1. Same /\ Pools /\ Sent /\ Net
    BY <1>1, <1>2 DEF LaterRound, nodeVars, EngineType
  <2> QED
    BY <2>1, QuietStep
<1>3. CASE Update(n)
  <2>1. Same /\ Pools /\ Sent /\ Net
    BY Zenon, <1>1, <1>3 DEF Update, AddWrite, EngineType
  <2> QED
    BY <2>1, QuietStep
<1>4. ASSUME NEW from \in Node, NEW id \in BlockId, HandleSync(n, from, id) PROVE EngineInv'
  <2>1. Same /\ Pools /\ Net
    BY Zenon, <1>1, <1>4 DEF HandleSync, nodeVars, EngineType
  <2>2. net'.blocks = net.blocks \cup {<<from, b>> : b \in {c \in chain[n] : c.id = id}}
    BY ZenonT(30), <1>1, <1>4 DEF HandleSync, EngineType
  <2>3. Sent
    BY <2>2
  <2> QED
    BY Zenon, <2>1, <2>3, QuietStep
<1>5. ASSUME NEW w \in Node, NEW signed \in BOOLEAN, DeliverWrite(n, w, signed) PROVE EngineInv'
  <2>1. Same /\ Sent /\ Net
    BY <1>1, <1>5 DEF DeliverWrite, EngineType
  <2>2. pool' = pool \/ pool' = [pool EXCEPT ![n] = @ \cup {w}]
    BY SMTT(30), <1>5 DEF DeliverWrite, AddWrite
  <2>3. pool \in [Node -> SUBSET Node]
    BY <1>1 DEF EngineType
  <2>4. Pools
    BY <2>2, <2>3
  <2> QED
    BY <2>1, <2>4, QuietStep
<1>6. ASSUME NEW w \in Node, RelayWrite(n, w) PROVE EngineInv'
  <2>1. Same /\ Pools /\ Sent /\ Net
    BY <1>1, <1>6 DEF RelayWrite, EngineType
  <2> QED
    BY Zenon, <2>1, QuietStep
<1> QED
  BY <1>2, <1>3, <1>4, <1>5, <1>6

\* Every step keeps the invariant.
LEMMA EngineStep == EngineInv /\ [Next]_vars => EngineInv'
<1> SUFFICES ASSUME EngineInv, [Next]_vars PROVE EngineInv'
  OBVIOUS
<1>1. CASE Next
  <2>1. PICK n \in Node : Progress(n) \/ Update(n) \/ Restart(n)
    BY <1>1 DEF Next
  <2>2. CASE Progress(n)
    BY Zenon, <2>2, DeliverStep, AppendStep, DropStep, EnterStep, MintStep, MessageStep DEF Progress
  <2>3. CASE Update(n)
    BY <2>3, MessageStep
  <2>4. CASE Restart(n)
    BY <2>4, RestartStep
  <2> QED
    BY <2>1, <2>2, <2>3, <2>4
<1>2. CASE UNCHANGED vars
  <2>1. /\ UNCHANGED <<conf, chain, tip, ooo, clock, toMint, handling, stamped, refused>>
        /\ pool' = pool /\ net' = net
    BY <1>2 DEF vars, nodeVars
  <2>2. /\ pool' \in [Node -> SUBSET Node] /\ DOMAIN net' = {"blocks", "writes", "syncs"}
        /\ net'.blocks \subseteq net.blocks \cup (Node \X UNION {chain[n] : n \in Node})
    BY <2>1 DEF EngineInv, EngineType
  <2> QED
    BY <2>1, <2>2, QuietStep
<1> QED
  BY <1>1, <1>2

------------------------------------------------------------------------------

\* A block counts as resolved only when the chain has it, and whatever the buffer lets
\* through has its predecessor there: handleBlock never appends out of order.
THEOREM NothingOutOfOrder == Spec => []ResolvedStored
<1>1. EngineInv => ResolvedStored
  BY DEF EngineInv
<1> QED
  BY <1>1, EngineInit, EngineStep, PTL DEF Spec

\* A write whose signature Pick spoiled before it was relayed is in a block that its
\* member minted.
THEOREM SpoiledTravelsInBlock == Spec => []SpoiledIsProposed
<1>1. EngineInv => SpoiledIsProposed
  BY DEF EngineInv
<1> QED
  BY <1>1, EngineInit, EngineStep, PTL DEF Spec

\* A founder's own chain refuses what the founder minted only when the tip it was minted
\* on is of the same round.
THEOREM OnlyOvertakenRefused == Spec => []RefusedWhenOvertaken
<1>1. EngineInv => RefusedWhenOvertaken
  BY DEF EngineInv
<1> QED
  BY <1>1, EngineInit, EngineStep, PTL DEF Spec
==============================================================================
