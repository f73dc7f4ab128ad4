--------------------------- MODULE OnlChainProofs ----------------------------
(***************************************************************************)
(* What the store of a chain holds after any appends, for every number of  *)
(* blocks and goroutines and every tree of blocks, and what the walk, the  *)
(* votes and the weights are as functions of the blocks.                   *)
(***************************************************************************)
EXTENDS OnlChain, DataLemmas, FiniteSetTheorems

------------------------------------------------------------------------------
\* The chain as a function of the blocks B.  Lemma Same says that this is what the
\* operators of OnlChain compute from blk.

PrevOf(B, b) == IF b = Genesis THEN None ELSE B[b].prev
RoundOf(B, b) == IF b = Genesis THEN 0 ELSE B[b].round
RankOf(B, b) == IF b = Genesis THEN 1 ELSE B[b].rank

WalkOf(B, b) ==
  LET w[i \in Id] == IF i = Genesis THEN {Genesis} ELSE {i} \cup w[PrevOf(B, i)]
  IN w[b]

PositionOf(B, b, S) ==
  Cardinality({c \in S : RoundOf(B, c) = RoundOf(B, b) /\ RankOf(B, c) >= RankOf(B, b)})

WeightOf(B, b, S) ==
  LET w[i \in Id] == Points \div PositionOf(B, i, S)
                       + (IF i = Genesis THEN 0 ELSE w[PrevOf(B, i)])
  IN w[b]

\* The operators of OnlChain (Chain.walk, weigh) are these ones, of blk.
LEMMA Same ==
  /\ \A b : Prev(b) = PrevOf(blk, b) /\ Round(b) = RoundOf(blk, b) /\ Rank(b) = RankOf(blk, b)
  /\ \A b : Walk(b) = WalkOf(blk, b)
  /\ \A b, S : Position(b, S) = PositionOf(blk, b, S)
  /\ \A b : Weight(b) = WeightOf(blk, b, stored)
<1>1. \A b : Prev(b) = PrevOf(blk, b) /\ Round(b) = RoundOf(blk, b) /\ Rank(b) = RankOf(blk, b)
  BY DEF Prev, Round, Rank, PrevOf, RoundOf, RankOf
<1>2. \A b : Walk(b) = WalkOf(blk, b)
  BY DEF Walk, WalkOf, Prev, PrevOf
<1>3. \A b, S : Position(b, S) = PositionOf(blk, b, S)
  BY <1>1 DEF Position, PositionOf
<1>4. \A b : Weight(b) = WeightOf(blk, b, stored)
  BY DEF Weight, WeightOf, Position, PositionOf, Prev, Round, Rank, PrevOf, RoundOf, RankOf
<1> QED
  BY <1>1, <1>2, <1>3, <1>4

\* Chain.walk, step by step.
LEMMA WalkUnfolds ==
  ASSUME NEW B \in Universe
  PROVE  \A i \in Id : WalkOf(B, i) = IF i = Genesis THEN {Genesis} ELSE {i} \cup WalkOf(B, PrevOf(B, i))
<1> USE DEF PrevOf, Id, Genesis, Block
<1> DEFINE Def(f, n) == f = [i \in 0..n |-> IF i = Genesis THEN {Genesis} ELSE {i} \cup f[PrevOf(B, i)]]
           T == {n \in Nat : n <= N /\ ~\E f : Def(f, n)}
<1>1. N \in Nat /\ \A i \in 1..N : PrevOf(B, i) \in 0..(i - 1)
  BY ChainAssumption
<1>2. \A i \in Id : i # 0 => PrevOf(B, i) \in 0..(i - 1)
  BY <1>1
<1> HIDE DEF PrevOf
<1>3. T = {}
  <2> SUFFICES ASSUME T # {} PROVE FALSE
    OBVIOUS
  <2>1. PICK m \in T : \A y \in T : m <= y
    <3> HIDE DEF T
    <3>1. T \subseteq Nat
      BY DEF T
    <3> QED
      BY Zenon, <3>1, NatMin
  <2>2. m \in Nat /\ m <= N /\ ~\E f : Def(f, m)
    BY <2>1
  <2>3. m # 0
    <3> SUFFICES ASSUME m = 0 PROVE FALSE
      OBVIOUS
    <3>1. Def([i \in 0..0 |-> {Genesis}], 0)
      OBVIOUS
    <3> QED
      BY Zenon, <2>2, <3>1
  <2>4. PICK f : Def(f, m - 1)
    <3>1. m - 1 \in Nat /\ m - 1 <= N /\ m - 1 \notin T
      <4> HIDE DEF T
      <4> QED
        BY <1>1, <2>1, <2>2, <2>3
    <3> HIDE DEF Def
    <3> QED
      BY <3>1
  <2> DEFINE g == [i \in 0..m |-> IF i = m THEN {m} \cup f[PrevOf(B, m)] ELSE f[i]]
  <2>5. ASSUME NEW i \in 0..m PROVE g[i] = IF i = Genesis THEN {Genesis} ELSE {i} \cup g[PrevOf(B, i)]
    <3>1. i # 0 => PrevOf(B, i) \in 0..(m - 1) /\ PrevOf(B, i) \in 0..m /\ PrevOf(B, i) # m
      BY <1>2, <1>1, <2>2
    <3>2. i # 0 => g[PrevOf(B, i)] = f[PrevOf(B, i)]
      BY <3>1
    <3> HIDE DEF Def
    <3>3. CASE i = m
      BY Zenon, <2>3, <3>2, <3>3
    <3>4. CASE i # m
      <4>1. i \in 0..(m - 1)
        BY <2>2, <3>4
      <4>2. f[i] = IF i = Genesis THEN {Genesis} ELSE {i} \cup f[PrevOf(B, i)]
        BY Zenon, <2>4, <4>1 DEF Def
      <4> QED
        BY Zenon, <3>2, <3>4, <4>2
    <3> QED
      BY <3>3, <3>4
  <2>6. Def(g, m)
    BY Zenon, <2>5
  <2> QED
    BY Zenon, <2>2, <2>6
<1> DEFINE w == CHOOSE f : Def(f, N)
<1>4. Def(w, N)
  <2> HIDE DEF Def
  <2>1. \E f : Def(f, N)
    BY <1>1, <1>3
  <2> QED
    BY <2>1
<1>5. \A i : WalkOf(B, i) = w[i]
  BY DEF WalkOf
<1> HIDE DEF w
<1>6. Id = 0..N /\ \A i \in Id : i # 0 => PrevOf(B, i) \in Id
  BY <1>1, <1>2
<1>7. \A i \in Id : w[i] = IF i = Genesis THEN {Genesis} ELSE {i} \cup w[PrevOf(B, i)]
  BY Zenon, <1>4, <1>6
<1> QED
  BY Zenon, <1>5, <1>6, <1>7

\* The weight of a block is its points and what its predecessor weighs.
LEMMA WeightUnfolds ==
  ASSUME NEW B \in Universe, NEW S
  PROVE  \A i \in Id : WeightOf(B, i, S) = Points \div PositionOf(B, i, S) + (IF i = Genesis THEN 0 ELSE WeightOf(B, PrevOf(B, i), S))
<1> USE DEF PrevOf, Id, Genesis, Block
<1> DEFINE Def(f, n) == f = [i \in 0..n |-> Points \div PositionOf(B, i, S) + (IF i = Genesis THEN 0 ELSE f[PrevOf(B, i)])]
           T == {n \in Nat : n <= N /\ ~\E f : Def(f, n)}
<1>1. N \in Nat /\ \A i \in 1..N : PrevOf(B, i) \in 0..(i - 1)
  BY ChainAssumption
<1>2. \A i \in Id : i # 0 => PrevOf(B, i) \in 0..(i - 1)
  BY <1>1
<1> HIDE DEF PrevOf
<1>3. T = {}
  <2> SUFFICES ASSUME T # {} PROVE FALSE
    OBVIOUS
  <2>1. PICK m \in T : \A y \in T : m <= y
    <3> HIDE DEF T
    <3>1. T \subseteq Nat
      BY DEF T
    <3> QED
      BY Zenon, <3>1, NatMin
  <2>2. m \in Nat /\ m <= N /\ ~\E f : Def(f, m)
    BY <2>1
  <2>3. m # 0
    <3> SUFFICES ASSUME m = 0 PROVE FALSE
      OBVIOUS
    <3>1. Def([i \in 0..0 |-> Points \div PositionOf(B, i, S) + 0], 0)
      OBVIOUS
    <3> QED
      BY Zenon, <2>2, <3>1
  <2>4. PICK f : Def(f, m - 1)
    <3>1. m - 1 \in Nat /\ m - 1 <= N /\ m - 1 \notin T
      <4> HIDE DEF T
      <4> QED
        BY <1>1, <2>1, <2>2, <2>3
    <3> HIDE DEF Def
    <3> QED
      BY <3>1
  <2> DEFINE g == [i \in 0..m |-> IF i = m THEN Points \div PositionOf(B, m, S) + f[PrevOf(B, m)] ELSE f[i]]
  <2>5. ASSUME NEW i \in 0..m PROVE g[i] = Points \div PositionOf(B, i, S) + (IF i = Genesis THEN 0 ELSE g[PrevOf(B, i)])
    <3>1. i # 0 => PrevOf(B, i) \in 0..(m - 1) /\ PrevOf(B, i) \in 0..m /\ PrevOf(B, i) # m
      BY <1>2, <1>1, <2>2
    <3>2. i # 0 => g[PrevOf(B, i)] = f[PrevOf(B, i)]
      BY <3>1
    <3> HIDE DEF Def
    <3>3. CASE i = m
      BY <2>3, <3>2, <3>3
    <3>4. CASE i # m
      <4>1. i \in 0..(m - 1)
        BY <2>2, <3>4
      <4>2. f[i] = Points \div PositionOf(B, i, S) + (IF i = Genesis THEN 0 ELSE f[PrevOf(B, i)])
        BY <2>4, <4>1 DEF Def
      <4> QED
        BY <3>2, <3>4, <4>2
    <3> QED
      BY <3>3, <3>4
  <2>6. Def(g, m)
    BY <2>5
  <2> QED
    BY Zenon, <2>2, <2>6
<1> DEFINE w == CHOOSE f : Def(f, N)
<1>4. Def(w, N)
  <2> HIDE DEF Def
  <2>1. \E f : Def(f, N)
    BY <1>1, <1>3
  <2> QED
    BY <2>1
<1>5. \A i : WeightOf(B, i, S) = w[i]
  BY DEF WeightOf
<1> HIDE DEF w
<1>6. Id = 0..N /\ \A i \in Id : i # 0 => PrevOf(B, i) \in Id
  BY <1>1, <1>2
<1>7. \A i \in Id : w[i] = Points \div PositionOf(B, i, S) + (IF i = Genesis THEN 0 ELSE w[PrevOf(B, i)])
  BY <1>4, <1>6
<1> QED
  BY <1>5, <1>6, <1>7

\* The attributes of a block, and that the predecessor has a smaller id.
LEMMA BlockTypes ==
  ASSUME NEW B \in Universe, NEW b \in Id
  PROVE  /\ RoundOf(B, b) \in Nat /\ RankOf(B, b) \in Nat
         /\ b # Genesis => PrevOf(B, b) \in Id /\ PrevOf(B, b) < b
         /\ b \in Nat
BY ChainAssumption DEF RoundOf, RankOf, PrevOf, Id, Block, Genesis

\* A set of blocks with their ancestors, which are of earlier rounds.
Closed(B, S) ==
  /\ S \subseteq Id /\ Genesis \in S
  /\ \A b \in S \ {Genesis} : PrevOf(B, b) \in S /\ RoundOf(B, PrevOf(B, b)) < RoundOf(B, b)

\* The walk from a block of a closed set (Chain.walk) does not leave the set.
LEMMA WalkInside ==
  ASSUME NEW B \in Universe, NEW S, Closed(B, S)
  PROVE  \A d \in S : WalkOf(B, d) \subseteq S
<1> DEFINE T == {d \in S : ~(WalkOf(B, d) \subseteq S)}
<1> SUFFICES ASSUME T # {} PROVE FALSE
  OBVIOUS
<1>1. S \subseteq Id /\ S \subseteq Nat
  BY BlockTypes DEF Closed
<1>2. PICK m \in T : \A y \in T : m <= y
  <2>1. T \subseteq Nat
    BY Zenon, <1>1
  <2> HIDE DEF T
  <2> QED
    BY Zenon, <2>1, NatMin
<1>3. m \in S /\ ~(WalkOf(B, m) \subseteq S)
  BY <1>2
<1>4. m # Genesis
  BY <1>1, <1>3, WalkUnfolds
<1>5. PrevOf(B, m) \in S /\ PrevOf(B, m) < m /\ PrevOf(B, m) \in Nat /\ m \in Nat
  BY Zenon, <1>1, <1>3, <1>4, BlockTypes DEF Closed
<1>6. WalkOf(B, PrevOf(B, m)) \subseteq S
  BY <1>2, <1>5
<1>7. WalkOf(B, m) = {m} \cup WalkOf(B, PrevOf(B, m))
  BY <1>1, <1>3, <1>4, WalkUnfolds
<1> QED
  BY <1>3, <1>6, <1>7

\* The points of a position are a number (the division in Chain.weigh is by one or more).
LEMMA PointsType ==
  ASSUME NEW B \in Universe, NEW S, S \subseteq Id, NEW b \in S
  PROVE  Points \div PositionOf(B, b, S) \in Nat
<1> DEFINE R == {c \in S : RoundOf(B, c) = RoundOf(B, b) /\ RankOf(B, c) >= RankOf(B, b)}
<1>1. IsFiniteSet(Id)
  BY FS_Interval, ChainAssumption DEF Id, Genesis
<1>2. R \subseteq Id /\ b \in R
  BY BlockTypes
<1> HIDE DEF R
<1>3. IsFiniteSet(R)
  BY <1>1, <1>2, FS_Subset
<1>4. Cardinality(R) \in Nat /\ Cardinality(R) # 0
  BY <1>2, <1>3, FS_CardinalityType, FS_EmptySet
<1>5. PositionOf(B, b, S) = Cardinality(R)
  BY DEF PositionOf, R
<1> QED
  BY <1>4, <1>5, ChainAssumption

\* A block does not change what the blocks of earlier rounds weigh.
LEMMA WeightBelow ==
  ASSUME NEW B \in Universe, NEW S, Closed(B, S), NEW c \in Id
  PROVE  \A b \in S : RoundOf(B, b) < RoundOf(B, c) =>
           WeightOf(B, b, S \cup {c}) = WeightOf(B, b, S)
<1> DEFINE V == S \cup {c}
           T == {b \in S : RoundOf(B, b) < RoundOf(B, c) /\ WeightOf(B, b, V) # WeightOf(B, b, S)}
<1> SUFFICES ASSUME T # {} PROVE FALSE
  OBVIOUS
<1>1. S \subseteq Id /\ S \subseteq Nat
  BY BlockTypes DEF Closed
<1>2. PICK m \in T : \A y \in T : m <= y
  <2>1. T \subseteq Nat
    BY Zenon, <1>1
  <2> HIDE DEF T
  <2> QED
    BY Zenon, <2>1, NatMin
<1>3. m \in S /\ RoundOf(B, m) < RoundOf(B, c) /\ WeightOf(B, m, V) # WeightOf(B, m, S)
  BY <1>2
<1>4. PositionOf(B, m, V) = PositionOf(B, m, S)
  <2>1. RoundOf(B, c) # RoundOf(B, m)
    BY <1>1, <1>3, BlockTypes
  <2>2. {x \in V : RoundOf(B, x) = RoundOf(B, m) /\ RankOf(B, x) >= RankOf(B, m)}
        = {x \in S : RoundOf(B, x) = RoundOf(B, m) /\ RankOf(B, x) >= RankOf(B, m)}
    BY <2>1
  <2> QED
    BY <2>2 DEF PositionOf
<1>5. m # Genesis
  BY <1>1, <1>3, <1>4, WeightUnfolds
<1>6. /\ PrevOf(B, m) \in S /\ PrevOf(B, m) < m /\ PrevOf(B, m) \in Nat /\ m \in Nat
      /\ RoundOf(B, PrevOf(B, m)) < RoundOf(B, c)
  <2>1. PrevOf(B, m) \in S /\ RoundOf(B, PrevOf(B, m)) < RoundOf(B, m)
    BY <1>3, <1>5 DEF Closed
  <2>2. RoundOf(B, PrevOf(B, m)) \in Nat /\ RoundOf(B, m) \in Nat /\ RoundOf(B, c) \in Nat
    BY Zenon, <1>1, <1>3, <2>1, BlockTypes
  <2>3. PrevOf(B, m) < m /\ PrevOf(B, m) \in Nat /\ m \in Nat
    BY Zenon, <1>1, <1>3, <1>5, <2>1, BlockTypes
  <2> QED
    BY <1>3, <2>1, <2>2, <2>3
<1>7. WeightOf(B, PrevOf(B, m), V) = WeightOf(B, PrevOf(B, m), S)
  BY <1>2, <1>6
<1> QED
  BY <1>1, <1>3, <1>4, <1>5, <1>7, WeightUnfolds

------------------------------------------------------------------------------
\* Types, and what a round of weigh does

Doing ==
  [pc : {"weigh", "commit"}, b : Block \cup {None}, blocks : SUBSET Id, rn : Nat,
   tipw : Int, tip : [id : Id, w : Int], stale : BOOLEAN]
Waiting == [pc : {"retry"}, b : Block \cup {None}]

ChainType ==
  /\ blk \in Universe
  /\ stored \in SUBSET Id
  /\ tip \in [id : Id, w : Int]
  /\ weights \in [Id -> Int]
  /\ task \in [Proc -> Doing \cup Waiting \cup {Idle}]

Working(p) == task[p].pc \in {"weigh", "commit"}

\* A goroutine that weighs or commits has all of the fields, and only such a one.
LEMMA TaskKinds ==
  ASSUME ChainType, NEW p \in Proc
  PROVE  /\ Working(p) <=> task[p] \in Doing
         /\ task[p].pc = "retry" <=> task[p] \in Waiting
         /\ task[p].pc = "idle" <=> task[p] = Idle
BY DEF ChainType, Working, Doing, Waiting, Idle

\* The sum that weigh computes for a block of its view.
LEMMA SumType ==
  ASSUME ChainType, NEW S, S \subseteq Id, NEW b \in S
  PROVE  /\ SumWeight(b, S) \in Int
         /\ SumWeight(b, S) = PrevWeight(b) + Points \div PositionOf(blk, b, S)
         /\ PrevWeight(b) \in Int
<1>1. Points \div PositionOf(blk, b, S) \in Nat
  BY PointsType DEF ChainType
<1>2. PrevWeight(b) \in Int
  BY BlockTypes, Same DEF ChainType, PrevWeight
<1>3. SumWeight(b, S) = PrevWeight(b) + Points \div PositionOf(blk, b, S)
  BY Same DEF SumWeight
<1> QED
  BY <1>1, <1>2, <1>3

\* A round of weigh: the weights of that round, and a tip of that round if one is heavy
\* enough, whose state becomes the state of the chain.
LEMMA WeighEffect ==
  ASSUME ChainType, NEW p \in Proc, WeighRound(p)
  PROVE  /\ task[p] \in Doing /\ task'[p] \in Doing /\ task[p].pc = "weigh"
         /\ task' \in [Proc -> Doing \cup Waiting \cup {Idle}]
         /\ \A q \in Proc \ {p} : task'[q] = task[q]
         /\ task'[p].b = task[p].b /\ task'[p].blocks = task[p].blocks
         /\ task'[p].tipw = task[p].tipw /\ task'[p].stale = task[p].stale
         /\ task'[p].rn = task[p].rn + 1
         /\ task'[p].pc = IF MoreRounds(task[p]) THEN "weigh" ELSE "commit"
         /\ \/ task'[p].tip = task[p].tip /\ tstate' = tstate
               /\ \A b \in task[p].blocks :
                    Round(b) = task[p].rn => ~(SumWeight(b, task[p].blocks) >= task[p].tipw)
            \/ task'[p].tip.id \in task[p].blocks /\ tstate' = task'[p].tip.id
         /\ weights' \in [Id -> Int]
         /\ \A i \in Id : weights'[i] =
              IF i \in task[p].blocks /\ Round(i) = task[p].rn
                THEN SumWeight(i, task[p].blocks) ELSE weights[i]
         /\ UNCHANGED <<blk, stored, votes, tip, up, past>>
<1> DEFINE t == task[p]
           round == {b \in t.blocks : Round(b) = t.rn}
           heavy == {b \in round : SumWeight(b, t.blocks) >= t.tipw}
           last == CHOOSE b \in heavy : \A c \in heavy : Rank(b) <= Rank(c)
           next == IF heavy = {} THEN t.tip ELSE [id |-> last, w |-> SumWeight(last, t.blocks)]
           then == IF MoreRounds(t) THEN "weigh" ELSE "commit"
<1>1. /\ t.pc = "weigh"
      /\ weights' = [i \in Id |-> IF i \in round THEN SumWeight(i, t.blocks) ELSE weights[i]]
      /\ tstate' = IF heavy = {} THEN tstate ELSE last
      /\ task' = [task EXCEPT ![p].tip = next, ![p].rn = t.rn + 1, ![p].pc = then]
      /\ UNCHANGED <<blk, stored, votes, tip, up, past>>
  BY Zenon DEF WeighRound
<1>2. t \in Doing
  BY Zenon, <1>1, TaskKinds DEF Working
<1>3. heavy # {} => last \in heavy
  <2> SUFFICES ASSUME heavy # {} PROVE \E b \in heavy : \A c \in heavy : Rank(b) <= Rank(c)
    OBVIOUS
  <2>1. heavy \subseteq Id
    BY <1>2 DEF Doing
  <2> HIDE DEF heavy
  <2> DEFINE ranks == {RankOf(blk, b) : b \in heavy}
  <2>2. ranks \subseteq Nat /\ ranks # {}
    BY <2>1, BlockTypes DEF ChainType
  <2> HIDE DEF ranks
  <2>3. PICK r \in ranks : \A y \in ranks : r <= y
    BY Zenon, <2>2, NatMin
  <2>4. PICK b \in heavy : r = RankOf(blk, b)
    BY <2>3 DEF ranks
  <2>5. \A c \in heavy : RankOf(blk, b) <= RankOf(blk, c)
    BY <2>3, <2>4 DEF ranks
  <2> QED
    BY <2>5, Same
<1>4. t.blocks \subseteq Id /\ heavy \subseteq t.blocks
  BY <1>2 DEF Doing
<1>5. next \in [id : Id, w : Int]
  <2>1. CASE heavy = {}
    BY <1>2, <2>1 DEF Doing
  <2>2. CASE heavy # {}
    <3>1. last \in t.blocks
      BY <1>3, <1>4, <2>2
    <3> HIDE DEF last
    <3>2. SumWeight(last, t.blocks) \in Int /\ last \in Id
      BY <1>4, <3>1, SumType
    <3> QED
      BY <2>2, <3>2
  <2> QED
    BY <2>1, <2>2
<1>6. weights' \in [Id -> Int]
  BY Zenon, <1>1, <1>4, SumType DEF ChainType
<1>7. \/ next = t.tip /\ tstate' = tstate
         /\ \A b \in t.blocks : Round(b) = t.rn => ~(SumWeight(b, t.blocks) >= t.tipw)
      \/ next.id \in t.blocks /\ tstate' = next.id
  <2>1. CASE heavy = {}
    <3>1. \A b \in t.blocks : Round(b) = t.rn => ~(SumWeight(b, t.blocks) >= t.tipw)
      BY <2>1
    <3>2. next = t.tip /\ tstate' = tstate
      BY Zenon, <1>1, <2>1
    <3> QED
      BY <3>1, <3>2
  <2>2. CASE heavy # {}
    <3>1. last \in t.blocks
      BY <1>3, <1>4, <2>2
    <3> HIDE DEF last, heavy
    <3> QED
      BY Zenon, <1>1, <2>2, <3>1
  <2> QED
    BY Zenon, <2>1, <2>2
<1>8. then \in {"weigh", "commit"} /\ t.rn + 1 \in Nat
  BY <1>2 DEF Doing
<1>9. \A i \in Id : weights'[i] = IF i \in t.blocks /\ Round(i) = t.rn
                                    THEN SumWeight(i, t.blocks) ELSE weights[i]
  BY Zenon, <1>1
<1> HIDE DEF next, then, last, heavy, round
<1>10. /\ task'[p] = [t EXCEPT !.tip = next, !.rn = t.rn + 1, !.pc = then]
       /\ \A q \in Proc \ {p} : task'[q] = task[q]
       /\ DOMAIN task' = Proc
  BY <1>1, <1>2 DEF ChainType
<1>11. /\ task'[p] \in Doing
       /\ task'[p].b = t.b /\ task'[p].blocks = t.blocks /\ task'[p].tipw = t.tipw
       /\ task'[p].stale = t.stale /\ task'[p].rn = t.rn + 1 /\ task'[p].pc = then
       /\ task'[p].tip = next
  BY Zenon, <1>2, <1>5, <1>8, <1>10 DEF Doing
<1>12. task' \in [Proc -> Doing \cup Waiting \cup {Idle}]
  BY <1>1, <1>10, <1>11 DEF ChainType
<1> QED
  BY <1>1, <1>2, <1>6, <1>7, <1>9, <1>10, <1>11, <1>12 DEF then

\* Append and NewChain start to weigh on what the transaction sees.
LEMMA StartEffect ==
  ASSUME ChainType, NEW p \in Proc, NEW b \in Block \cup {None}, NEW r \in Nat,
         task' = [task EXCEPT ![p] = Weighing(b, r)]
  PROVE  /\ task'[p] \in Doing /\ task'[p].pc = "weigh" /\ task'[p].b = b
         /\ task'[p].blocks = stored \cup ({b} \ {None})
         /\ task'[p].rn = r /\ task'[p].tipw = tip.w /\ task'[p].tip = tip
         /\ ~task'[p].stale
         /\ \A q \in Proc \ {p} : task'[q] = task[q]
         /\ task' \in [Proc -> Doing \cup Waiting \cup {Idle}]
<1>1. task'[p] = Weighing(b, r) /\ \A q \in Proc \ {p} : task'[q] = task[q]
  BY DEF ChainType
<1>2. stored \cup ({b} \ {None}) \in SUBSET Id
  BY ChainAssumption DEF ChainType, Id, Block, Genesis
<1>3. Weighing(b, r) \in Doing
  BY <1>2 DEF ChainType, Weighing, Doing
<1>4. task' \in [Proc -> Doing \cup Waiting \cup {Idle}]
  BY <1>3 DEF ChainType
<1> QED
  BY <1>1, <1>3, <1>4 DEF Weighing

\* A commit makes the view of the append what is stored, and what the others see stale.
LEMMA CommitEffect ==
  ASSUME ChainType, NEW p \in Proc, CommitAppend(p)
  PROVE  /\ task[p] \in Doing /\ task[p].pc = "commit" /\ ~task[p].stale
         /\ task' \in [Proc -> Doing \cup Waiting \cup {Idle}]
         /\ task'[p] = Idle
         /\ \A q \in Proc \ {p} :
              IF Working(q)
                THEN /\ task'[q] \in Doing
                     /\ task'[q].stale
                     /\ task'[q].pc = task[q].pc /\ task'[q].b = task[q].b
                     /\ task'[q].blocks = task[q].blocks /\ task'[q].rn = task[q].rn
                     /\ task'[q].tip = task[q].tip /\ task'[q].tipw = task[q].tipw
                ELSE task'[q] = task[q]
         /\ stored' = stored \cup task[p].blocks /\ tip' = task[p].tip
         /\ up' /\ UNCHANGED <<blk, weights, tstate, past>>
<1>1. task[p].pc = "commit" /\ ~task[p].stale
  BY DEF CommitAppend, Conflicting
<1>2. task[p] \in Doing
  BY <1>1, TaskKinds DEF Working
<1>3. task' = [q \in Proc |-> IF q = p THEN Idle
                              ELSE IF Working(q) THEN [task[q] EXCEPT !.stale = TRUE]
                                ELSE task[q]]
  BY DEF CommitAppend, Working
<1>4. ASSUME NEW q \in Proc \ {p}
      PROVE  IF Working(q)
                THEN /\ task'[q] \in Doing
                     /\ task'[q].stale
                     /\ task'[q].pc = task[q].pc /\ task'[q].b = task[q].b
                     /\ task'[q].blocks = task[q].blocks /\ task'[q].rn = task[q].rn
                     /\ task'[q].tip = task[q].tip /\ task'[q].tipw = task[q].tipw
                ELSE task'[q] = task[q]
  <2>1. CASE Working(q)
    <3>1. task[q] \in Doing /\ task'[q] = [task[q] EXCEPT !.stale = TRUE]
      BY <1>3, <2>1, TaskKinds
    <3> QED
      BY Zenon, <2>1, <3>1 DEF Doing
  <2>2. CASE ~Working(q)
    BY <1>3, <2>2
  <2> QED
    BY <2>1, <2>2
<1>5. task' \in [Proc -> Doing \cup Waiting \cup {Idle}]
  <2>1. \A q \in Proc : task'[q] \in Doing \cup Waiting \cup {Idle}
    BY <1>3, <1>4 DEF ChainType
  <2> QED
    BY <1>3, <2>1
<1> QED
  BY <1>1, <1>2, <1>3, <1>4, <1>5 DEF CommitAppend

\* NewChain starts when nothing else runs, with the genesis round.
LEMMA NewChainEffect ==
  ASSUME ChainType, NEW p \in Proc, NewChain(p)
  PROVE  /\ ~up /\ \A q \in Proc : task[q] = Idle
         /\ task'[p] \in Doing /\ task'[p].pc = "weigh" /\ task'[p].b = None
         /\ task'[p].blocks = stored /\ task'[p].rn = 0
         /\ task'[p].tipw = tip.w /\ task'[p].tip = tip /\ ~task'[p].stale
         /\ \A q \in Proc \ {p} : task'[q] = task[q]
         /\ task' \in [Proc -> Doing \cup Waiting \cup {Idle}]
         /\ UNCHANGED <<blk, stored, votes, tip, weights, tstate, up, past>>
<1>1. None \in Block \cup {None} /\ 0 \in Nat
  OBVIOUS
<1>2. task' = [task EXCEPT ![p] = Weighing(None, 0)]
  BY DEF NewChain, Round
<1>3. /\ task'[p] \in Doing /\ task'[p].pc = "weigh" /\ task'[p].b = None
      /\ task'[p].blocks = stored \cup ({None} \ {None})
      /\ task'[p].rn = 0 /\ task'[p].tipw = tip.w /\ task'[p].tip = tip
      /\ ~task'[p].stale
      /\ \A q \in Proc \ {p} : task'[q] = task[q]
      /\ task' \in [Proc -> Doing \cup Waiting \cup {Idle}]
  BY Zenon, <1>1, <1>2, StartEffect
<1>4. stored \cup ({None} \ {None}) = stored
  OBVIOUS
<1> QED
  BY Zenon, <1>3, <1>4 DEF NewChain

\* Append starts with the round of a block that is acceptable, and history notes what
\* goes on at the same time.
LEMMA AppendEffect ==
  ASSUME ChainType, NEW p \in Proc, NEW b \in Block, AppendBlock(p, b)
  PROVE  /\ up /\ task[p] \in {Idle, [pc |-> "retry", b |-> b]} /\ Acceptable(b)
         /\ b \in Id /\ b # None /\ b # Genesis
         /\ task'[p] \in Doing /\ task'[p].pc = "weigh" /\ task'[p].b = b
         /\ task'[p].blocks = stored \cup {b} /\ task'[p].rn = RoundOf(blk, b)
         /\ task'[p].tipw = tip.w /\ task'[p].tip = tip /\ ~task'[p].stale
         /\ \A q \in Proc \ {p} : task'[q] = task[q]
         /\ task' \in [Proc -> Doing \cup Waiting \cup {Idle}]
         /\ "twice" \notin past' =>
              "twice" \notin past /\ \A q \in Proc \ {p} : task[q] = Idle \/ task[q].b # b
         /\ past' = {} => past = {} /\ \A q \in Proc \ {p} : task[q] = Idle
         /\ UNCHANGED <<blk, stored, votes, tip, weights, tstate, up>>
<1>1. b \in Id /\ b # None /\ b # Genesis
  BY ChainAssumption DEF Block, Id, None, Genesis
<1>2. RoundOf(blk, b) \in Nat /\ stored \cup ({b} \ {None}) = stored \cup {b}
  BY <1>1, BlockTypes DEF ChainType
<1>3. task' = [task EXCEPT ![p] = Weighing(b, RoundOf(blk, b))]
  BY Zenon, Same DEF AppendBlock
<1>4. /\ task'[p] \in Doing /\ task'[p].pc = "weigh" /\ task'[p].b = b
      /\ task'[p].blocks = stored \cup ({b} \ {None})
      /\ task'[p].rn = RoundOf(blk, b) /\ task'[p].tipw = tip.w /\ task'[p].tip = tip
      /\ ~task'[p].stale
      /\ \A q \in Proc \ {p} : task'[q] = task[q]
      /\ task' \in [Proc -> Doing \cup Waiting \cup {Idle}]
  BY Zenon, <1>2, <1>3, StartEffect
<1> DEFINE others == {task[q] : q \in Proc \ {p}} \ {Idle}
<1>5. past' = past \cup {e \in {"overlap"} : others # {}}
                   \cup {e \in {"twice"} : \E t \in others : t.b = b}
  BY DEF AppendBlock
<1>6. /\ "twice" \notin past' => "twice" \notin past /\ \A t \in others : t.b # b
      /\ past' = {} => past = {} /\ others = {}
  BY <1>5
<1>7. /\ "twice" \notin past' =>
           "twice" \notin past /\ \A q \in Proc \ {p} : task[q] = Idle \/ task[q].b # b
      /\ past' = {} => past = {} /\ \A q \in Proc \ {p} : task[q] = Idle
  BY <1>6
<1> HIDE DEF others
<1>8. /\ up /\ task[p] \in {Idle, [pc |-> "retry", b |-> b]} /\ Acceptable(b)
      /\ UNCHANGED <<blk, stored, votes, tip, weights, tstate, up>>
  BY DEF AppendBlock
<1> QED
  BY <1>1, <1>2, <1>4, <1>7, <1>8

\* A goroutine that is told of a conflict keeps its block.
LEMMA ConflictEffect ==
  ASSUME ChainType, NEW p \in Proc, ConflictAppend(p)
  PROVE  /\ task[p] \in Doing /\ task[p].stale /\ task[p].pc = "commit"
         /\ task'[p] \in Waiting /\ task'[p].pc = "retry" /\ task'[p].b = task[p].b
         /\ \A q \in Proc \ {p} : task'[q] = task[q]
         /\ task' \in [Proc -> Doing \cup Waiting \cup {Idle}]
         /\ UNCHANGED <<blk, stored, votes, tip, weights, tstate, up, past>>
<1>1. task[p] \in Doing
  BY TaskKinds DEF ConflictAppend, Working
<1>2. [pc |-> "retry", b |-> task[p].b] \in Waiting
  BY <1>1 DEF Doing, Waiting
<1>3. /\ task'[p] = [pc |-> "retry", b |-> task[p].b]
      /\ \A q \in Proc \ {p} : task'[q] = task[q]
      /\ task' \in [Proc -> Doing \cup Waiting \cup {Idle}]
  BY <1>2 DEF ConflictAppend, ChainType
<1> QED
  BY <1>1, <1>2, <1>3 DEF ConflictAppend, Conflicting

\* Every step keeps the types.
LEMMA TypeStep == ChainType /\ [Next]_vars => ChainType'
<1> SUFFICES ASSUME ChainType, [Next]_vars PROVE ChainType'
  OBVIOUS
<1>1. ASSUME NEW p \in Proc, NewChain(p) PROVE ChainType'
  <2>1. task' \in [Proc -> Doing \cup Waiting \cup {Idle}]
    BY <1>1, NewChainEffect
  <2> QED
    BY <1>1, <2>1 DEF NewChain, ChainType
<1>2. ASSUME NEW p \in Proc, NEW b \in Block, AppendBlock(p, b) PROVE ChainType'
  <2>1. task' \in [Proc -> Doing \cup Waiting \cup {Idle}]
    BY <1>2, AppendEffect
  <2> QED
    BY <1>2, <2>1 DEF AppendBlock, ChainType
<1>3. ASSUME NEW p \in Proc, WeighRound(p) PROVE ChainType'
  <2>1. /\ task' \in [Proc -> Doing \cup Waiting \cup {Idle}] /\ weights' \in [Id -> Int]
        /\ UNCHANGED <<blk, stored, tip>>
    BY <1>3, WeighEffect
  <2> QED
    BY <2>1 DEF ChainType
<1>4. ASSUME NEW p \in Proc, CommitAppend(p) PROVE ChainType'
  <2>1. /\ task[p] \in Doing /\ task' \in [Proc -> Doing \cup Waiting \cup {Idle}]
        /\ stored' = stored \cup task[p].blocks /\ tip' = task[p].tip
        /\ UNCHANGED <<blk, weights>>
    BY <1>4, CommitEffect
  <2> QED
    BY <2>1 DEF ChainType, Doing
<1>5. ASSUME NEW p \in Proc, ConflictAppend(p) PROVE ChainType'
  <2>1. task' \in [Proc -> Doing \cup Waiting \cup {Idle}] /\ UNCHANGED <<blk, stored, tip, weights>>
    BY <1>5, ConflictEffect
  <2> QED
    BY <2>1 DEF ChainType
<1>6. ASSUME NEW p \in Proc, AlreadyAppended(p) PROVE ChainType'
  BY <1>6 DEF AlreadyAppended, ChainType
<1>7. CASE Crash
  BY <1>7 DEF Crash, ChainType, None
<1>8. CASE UNCHANGED vars
  BY <1>8 DEF vars, ChainType
<1> QED
  BY <1>1, <1>2, <1>3, <1>4, <1>5, <1>6, <1>7, <1>8 DEF Next

------------------------------------------------------------------------------
\* The store

\* The proposers of the blocks of S that descend from a.
VotersIn(B, S, a) == {B[d].pk : d \in {b \in S \ {a} : a \in WalkOf(B, b)}}

\* What a transaction sees is closed, and is what is stored and its block as long as
\* no other transaction committed.
Views ==
  \A p \in Proc : Working(p) =>
    /\ Closed(blk, task[p].blocks)
    /\ task[p].tip.id \in task[p].blocks
    /\ ~task[p].stale => /\ task[p].blocks = stored \cup ({task[p].b} \ {None})
                         /\ task[p].b \notin stored

StoreInv ==
  /\ ChainType
  /\ Closed(blk, stored) /\ tip.id \in stored
  /\ \A a \in Id : votes[a] = IF a \in stored THEN VotersIn(blk, stored, a) ELSE {}
  /\ Views

\* It holds for a store with the genesis block.
LEMMA StoreInit == Init => StoreInv
<1> SUFFICES ASSUME Init PROVE StoreInv
  OBVIOUS
<1>1. ChainType
  BY ChainAssumption DEF Init, ChainType, Id, Genesis, None
<1>2. Closed(blk, stored) /\ tip.id \in stored
  BY ChainAssumption DEF Init, Closed, Id, Genesis
<1>3. ASSUME NEW a \in Id, a \in stored PROVE VotersIn(blk, stored, a) = {}
  BY <1>3 DEF Init, VotersIn
<1>4. Views
  BY DEF Init, Views, Working, Idle
<1> QED
  BY <1>1, <1>2, <1>3, <1>4 DEF StoreInv, Init

\* A commit adds the votes of the block's proposer to the votes of exactly those who
\* descend (Chain.vote): a new block has no descendants yet.
LEMMA VotesAdded ==
  ASSUME NEW B \in Universe, NEW S, Closed(B, S), NEW b \in Block, b \notin S,
         Closed(B, S \cup {b}), NEW a \in S \cup {b}
  PROVE  VotersIn(B, S \cup {b}, a) =
           (IF a \in S THEN VotersIn(B, S, a) ELSE {})
             \cup (IF a \in WalkOf(B, PrevOf(B, b)) THEN {B[b].pk} ELSE {})
<1>1. b \in Id /\ b # Genesis
  BY ChainAssumption DEF Block, Id, Genesis
<1>2. PrevOf(B, b) \in S
  BY <1>1, BlockTypes DEF Closed
<1>3. WalkOf(B, b) = {b} \cup WalkOf(B, PrevOf(B, b))
  BY <1>1, WalkUnfolds
<1>4. \A d \in S : WalkOf(B, d) \subseteq S
  BY WalkInside
<1>5. CASE a = b
  BY <1>2, <1>4, <1>5 DEF VotersIn
<1>6. CASE a # b
  BY <1>3, <1>6 DEF VotersIn
<1> QED
  BY <1>5, <1>6

\* Every step of a goroutine, and a crash, keeps it.
LEMMA StoreStep == StoreInv /\ [Next]_vars => StoreInv'
<1> SUFFICES ASSUME StoreInv, [Next]_vars PROVE StoreInv'
  OBVIOUS
<1>0. ChainType /\ ChainType'
  BY TypeStep DEF StoreInv
<1>1. ASSUME UNCHANGED <<blk, stored, votes, tip>>, Views' PROVE StoreInv'
  BY <1>0, <1>1 DEF StoreInv
<1>2. ASSUME NEW p \in Proc, NewChain(p) PROVE StoreInv'
  <2>1. /\ task'[p] \in Doing /\ task'[p].pc = "weigh" /\ task'[p].b = None
        /\ task'[p].blocks = stored /\ task'[p].tip = tip
        /\ \A q \in Proc \ {p} : task'[q] = task[q]
    BY <1>0, <1>2, NewChainEffect
  <2>2. UNCHANGED <<blk, stored, votes, tip>>
    BY <1>2 DEF NewChain
  <2>3. None \notin stored
    BY <1>0, ChainAssumption DEF ChainType, Id, None, Genesis
  <2>4. stored \cup ({None} \ {None}) = stored
    OBVIOUS
  <2>5. Views'
    <3> SUFFICES ASSUME NEW q \in Proc, Working(q)'
                 PROVE  /\ Closed(blk', task'[q].blocks)
                        /\ task'[q].tip.id \in task'[q].blocks
                        /\ ~task'[q].stale =>
                             /\ task'[q].blocks = stored' \cup ({task'[q].b} \ {None})
                             /\ task'[q].b \notin stored'
      BY DEF Views
    <3>1. CASE q = p
      BY <2>1, <2>2, <2>3, <2>4, <3>1 DEF StoreInv
    <3>2. CASE q # p
      BY <2>1, <2>2, <3>2 DEF Views, StoreInv, Working
    <3> QED
      BY <3>1, <3>2
  <2> QED
    BY <1>1, <2>2, <2>5
<1>3. ASSUME NEW p \in Proc, NEW b \in Block, AppendBlock(p, b) PROVE StoreInv'
  <2>1. /\ task'[p] \in Doing /\ task'[p].pc = "weigh" /\ task'[p].b = b
        /\ task'[p].blocks = stored \cup {b} /\ task'[p].tip = tip
        /\ \A q \in Proc \ {p} : task'[q] = task[q]
    BY <1>0, <1>3, AppendEffect
  <2>2. UNCHANGED <<blk, stored, votes, tip>>
    BY <1>3 DEF AppendBlock
  <2>3. /\ b \notin stored /\ b \in Id /\ b # None /\ b # Genesis
        /\ PrevOf(blk, b) \in stored /\ RoundOf(blk, PrevOf(blk, b)) < RoundOf(blk, b)
    <3>1. b \in Nat /\ b \in Id /\ b # None /\ b # Genesis
      BY ChainAssumption DEF Block, None, Genesis, Id
    <3>2. /\ b \notin stored /\ PrevOf(blk, b) \in stored
          /\ RoundOf(blk, b) > RoundOf(blk, PrevOf(blk, b))
      BY <1>3, Same DEF AppendBlock, Acceptable, Valid
    <3>3. RoundOf(blk, b) \in Nat /\ RoundOf(blk, PrevOf(blk, b)) \in Nat
      BY Zenon, <1>0, <3>1, <3>2, BlockTypes DEF ChainType
    <3> QED
      BY <3>1, <3>2, <3>3
  <2>4. Closed(blk, stored \cup {b}) /\ stored \cup ({b} \ {None}) = stored \cup {b}
    BY <2>3 DEF StoreInv, Closed
  <2>5. Views'
    <3> SUFFICES ASSUME NEW q \in Proc, Working(q)'
                 PROVE  /\ Closed(blk', task'[q].blocks)
                        /\ task'[q].tip.id \in task'[q].blocks
                        /\ ~task'[q].stale =>
                             /\ task'[q].blocks = stored' \cup ({task'[q].b} \ {None})
                             /\ task'[q].b \notin stored'
      BY DEF Views
    <3>1. CASE q = p
      BY Zenon, <2>1, <2>2, <2>3, <2>4, <3>1 DEF StoreInv
    <3>2. CASE q # p
      BY <2>1, <2>2, <3>2 DEF Views, StoreInv, Working
    <3> QED
      BY <3>1, <3>2
  <2> QED
    BY <1>1, <2>2, <2>5
<1>4. ASSUME NEW p \in Proc, WeighRound(p) PROVE StoreInv'
  <2>1. /\ task[p] \in Doing /\ task'[p] \in Doing
        /\ \A q \in Proc \ {p} : task'[q] = task[q]
        /\ task'[p].b = task[p].b /\ task'[p].blocks = task[p].blocks
        /\ task'[p].stale = task[p].stale
        /\ task'[p].tip = task[p].tip \/ task'[p].tip.id \in task[p].blocks
        /\ UNCHANGED <<blk, stored, votes, tip>>
    BY <1>0, <1>4, WeighEffect
  <2>2. Working(p)
    BY <1>0, <2>1, TaskKinds
  <2>3. Views'
    BY <2>1, <2>2 DEF Views, StoreInv, Working
  <2> QED
    BY <1>1, <2>1, <2>3
<1>5. ASSUME NEW p \in Proc, CommitAppend(p) PROVE StoreInv'
  <2> DEFINE t == task[p]
  <2>1. /\ t \in Doing /\ t.pc = "commit" /\ ~t.stale /\ task'[p] = Idle
        /\ \A q \in Proc \ {p} :
              IF Working(q)
                THEN /\ task'[q] \in Doing
                     /\ task'[q].stale
                     /\ task'[q].pc = task[q].pc /\ task'[q].b = task[q].b
                     /\ task'[q].blocks = task[q].blocks /\ task'[q].rn = task[q].rn
                     /\ task'[q].tip = task[q].tip /\ task'[q].tipw = task[q].tipw
                ELSE task'[q] = task[q]
        /\ stored' = stored \cup t.blocks /\ tip' = t.tip /\ blk' = blk
    BY <1>0, <1>5, CommitEffect
  <2>2. /\ Closed(blk, t.blocks) /\ t.tip.id \in t.blocks
        /\ t.blocks = stored \cup ({t.b} \ {None}) /\ t.b \notin stored
    BY <2>1 DEF StoreInv, Views, Working
  <2>3. stored' = t.blocks
    BY <2>1, <2>2
  <2>4. Views'
    BY <2>1 DEF Views, StoreInv, Working, Idle
  <2>5. \A a \in Id : votes'[a] = IF t.b # None /\ a \in WalkOf(blk, PrevOf(blk, t.b))
                                    THEN votes[a] \cup {blk[t.b].pk} ELSE votes[a]
    BY <1>5, Same DEF CommitAppend, VotesOn
  <2>6. ASSUME NEW a \in Id
        PROVE  votes'[a] = IF a \in stored' THEN VotersIn(blk, stored', a) ELSE {}
    <3>1. votes[a] = IF a \in stored THEN VotersIn(blk, stored, a) ELSE {}
      BY DEF StoreInv
    <3>2. CASE t.b = None
      <4>1. stored' = stored
        BY <2>2, <2>3, <3>2
      <4> QED
        BY <2>5, <3>1, <3>2, <4>1
    <3>3. CASE t.b # None
      <4>1. t.b \in Block /\ stored' = stored \cup {t.b} /\ blk \in Universe
        BY <1>0, <2>1, <2>2, <2>3, <3>3 DEF Doing, ChainType
      <4>2. Closed(blk, stored) /\ Closed(blk, stored \cup {t.b}) /\ t.b \notin stored
        BY <2>2, <2>3, <4>1 DEF StoreInv
      <4>3. CASE a \in stored'
        <5>1. VotersIn(blk, stored \cup {t.b}, a) =
                (IF a \in stored THEN VotersIn(blk, stored, a) ELSE {})
                  \cup (IF a \in WalkOf(blk, PrevOf(blk, t.b)) THEN {blk[t.b].pk} ELSE {})
          BY <4>1, <4>2, <4>3, VotesAdded
        <5> QED
          BY Zenon, <2>5, <3>1, <3>3, <4>1, <4>3, <5>1
      <4>4. CASE a \notin stored'
        <5>1. t.b \in Id /\ t.b # Genesis
          BY <4>1, ChainAssumption DEF Block, Id, Genesis
        <5>2. PrevOf(blk, t.b) \in stored
          BY <4>1, <4>2, <5>1, BlockTypes DEF Closed
        <5>3. WalkOf(blk, PrevOf(blk, t.b)) \subseteq stored
          BY <4>1, <4>2, <5>2, WalkInside
        <5> QED
          BY Zenon, <2>5, <3>1, <4>1, <4>4, <5>3
      <4> QED
        BY <4>3, <4>4
    <3> QED
      BY <3>2, <3>3
  <2> QED
    BY <1>0, <2>1, <2>2, <2>3, <2>4, <2>6 DEF StoreInv
<1>6. ASSUME NEW p \in Proc, ConflictAppend(p) PROVE StoreInv'
  <2>1. /\ task'[p].pc = "retry" /\ \A q \in Proc \ {p} : task'[q] = task[q]
        /\ UNCHANGED <<blk, stored, votes, tip>>
    BY <1>0, <1>6, ConflictEffect
  <2>2. Views'
    BY <2>1 DEF Views, StoreInv, Working
  <2> QED
    BY <1>1, <2>1, <2>2
<1>7. ASSUME NEW p \in Proc, AlreadyAppended(p) PROVE StoreInv'
  <2>1. /\ task'[p].pc = "idle" /\ \A q \in Proc \ {p} : task'[q] = task[q]
        /\ UNCHANGED <<blk, stored, votes, tip>>
    BY <1>0, <1>7 DEF AlreadyAppended, ChainType, Idle
  <2>2. Views'
    BY <2>1 DEF Views, StoreInv, Working
  <2> QED
    BY <1>1, <2>1, <2>2
<1>8. CASE Crash
  BY <1>1, <1>8 DEF Crash, Views, Working, Idle
<1>9. CASE UNCHANGED vars
  <2>1. Views'
    BY <1>9 DEF vars, Views, StoreInv, Working
  <2> QED
    BY <1>1, <1>9, <2>1 DEF vars
<1> QED
  BY <1>2, <1>3, <1>4, <1>5, <1>6, <1>7, <1>8, <1>9 DEF Next

\* The same, of a behaviour.
LEMMA StoreHolds == Spec => []StoreInv
BY StoreInit, StoreStep, PTL DEF Spec

\* After any overlapping appends, conflicts and crashes the store holds a closed chain
\* with exactly its votes, whatever the blocks and however many goroutines append
\* (Append, vote).
THEOREM StoreIsConsistent == Spec => []StoreConsistent
<1>1. StoreInv => StoreConsistent
  <2> SUFFICES ASSUME StoreInv PROVE StoreConsistent
    OBVIOUS
  <2>1. ChainClosed
    BY Same DEF StoreInv, Closed, ChainClosed
  <2>2. VotesExact
    BY Zenon, Same DEF StoreInv, ChainType, VotersIn, VotesExact
  <2> QED
    BY <2>1, <2>2 DEF StoreConsistent
<1> QED
  BY <1>1, StoreHolds, PTL
==============================================================================
