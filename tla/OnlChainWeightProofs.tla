------------------------ MODULE OnlChainWeightProofs -------------------------
(***************************************************************************)
(* The weights and the tip of exp/onl's chain, for any number of blocks    *)
(* and goroutines: weights are exact when no append is under way, and the  *)
(* state that is read is the one of the tip as long as appends do not      *)
(* overlap.                                                                *)
(***************************************************************************)
EXTENDS OnlChainProofs

------------------------------------------------------------------------------
\* The weights

Busy(p) == task[p] # Idle

\* The round from which an append weighs.
StartOf(B, t) == IF t.b = None THEN 0 ELSE RoundOf(B, t.b)

\* Block b is of a round that none of the goroutines in P weighs.
Below(b, P) == \A q \in P : Busy(q) => RoundOf(blk, b) < StartOf(blk, task[q])

\* NewChain is alone, and whoever runs once it returned appends a block.
Stages ==
  IF up
    THEN \A p \in Proc : Busy(p) => task[p].b \in Block
    ELSE \A p \in Proc : Busy(p) =>
           /\ Working(p) /\ task[p].b = None /\ ~task[p].stale
           /\ \A q \in Proc \ {p} : ~Busy(q)

\* Stored blocks have a weight, and so have the blocks an append is past with.
Weighed ==
  /\ up => \A b \in stored : weights[b] \in Nat
  /\ \A p \in Proc : Working(p) =>
       /\ StartOf(blk, task[p]) <= task[p].rn
       /\ \A b \in task[p].blocks :
            /\ RoundOf(blk, b) < task[p].rn => weights[b] \in Nat
            /\ task[p].pc = "commit" => RoundOf(blk, b) < task[p].rn

\* A weight is that of the stored blocks, except in the rounds that a goroutine will
\* weigh again; what a transaction that can still commit is past with is weighed for
\* the blocks it sees, except in the rounds that others weigh.
Exact ==
  "twice" \notin past =>
    /\ \A p \in Proc : Busy(p) => task[p].b \notin stored
    /\ \A p, q \in Proc : Busy(p) /\ Busy(q) /\ p # q => task[p].b # task[q].b
    /\ up => \A b \in stored : Below(b, Proc) => weights[b] = WeightOf(blk, b, stored)
    /\ \A p \in Proc : Working(p) /\ ~task[p].stale =>
         \A b \in task[p].blocks :
           RoundOf(blk, b) < task[p].rn /\ Below(b, Proc \ {p}) =>
             weights[b] = WeightOf(blk, b, task[p].blocks)

\* Who is idle, who works and who waits.
LEMMA Kinds ==
  /\ \A t \in Doing : t # Idle /\ t.pc \in {"weigh", "commit"} /\ t.b \in Block \cup {None}
                        /\ t.blocks \subseteq Id /\ t.rn \in Nat
  /\ \A t \in Waiting : t # Idle /\ t.pc = "retry" /\ t.b \in Block \cup {None}
  /\ Idle.pc = "idle"
BY DEF Doing, Waiting, Idle

\* Every step keeps the stages of a process apart (NewChain, Append).
LEMMA StagesStep == ChainType /\ Stages /\ [Next]_vars => Stages'
<1> SUFFICES ASSUME ChainType, Stages, [Next]_vars PROVE Stages'
  OBVIOUS
<1> USE DEF Stages, Working, Busy
<1>1. ASSUME NEW p \in Proc, NewChain(p) PROVE Stages'
  <2>1. /\ ~up /\ ~up' /\ \A q \in Proc : task[q] = Idle
        /\ task'[p].pc = "weigh" /\ task'[p].b = None /\ ~task'[p].stale
        /\ \A q \in Proc \ {p} : task'[q] = task[q]
    BY <1>1, NewChainEffect
  <2> QED
    BY <2>1
<1>2. ASSUME NEW p \in Proc, NEW b \in Block, AppendBlock(p, b) PROVE Stages'
  <2>1. /\ up /\ up' = up /\ task'[p].b = b
        /\ \A q \in Proc \ {p} : task'[q] = task[q]
    BY <1>2, AppendEffect
  <2> QED
    BY <2>1
<1>3. ASSUME NEW p \in Proc, WeighRound(p) PROVE Stages'
  <2>1. /\ task[p] \in Doing /\ task'[p] \in Doing
        /\ task'[p].b = task[p].b /\ task'[p].stale = task[p].stale
        /\ \A q \in Proc \ {p} : task'[q] = task[q]
        /\ up' = up
    BY <1>3, WeighEffect
  <2> QED
    BY <2>1, Kinds
<1>4. ASSUME NEW p \in Proc, CommitAppend(p) PROVE Stages'
  <2>1. /\ task[p] \in Doing /\ task'[p] = Idle /\ up'
        /\ \A q \in Proc \ {p} : IF Working(q) THEN task'[q].b = task[q].b
                                               ELSE task'[q] = task[q]
    BY <1>4, CommitEffect
  <2>2. ASSUME NEW q \in Proc, task'[q] # Idle PROVE task'[q].b \in Block
    <3>1. q # p /\ task[q] # Idle /\ task'[q].b = task[q].b
      BY <2>1, <2>2, Kinds
    <3>2. up
      BY <2>1, <3>1, Kinds
    <3> QED
      BY <3>1, <3>2
  <2> QED
    BY <2>1, <2>2
<1>5. ASSUME NEW p \in Proc, ConflictAppend(p) PROVE Stages'
  <2>1. /\ task[p] \in Doing /\ task[p].stale /\ task'[p].b = task[p].b
        /\ \A q \in Proc \ {p} : task'[q] = task[q]
        /\ up' = up
    BY <1>5, ConflictEffect
  <2>2. up
    BY <2>1, Kinds
  <2> QED
    BY <2>1, <2>2, Kinds
<1>6. ASSUME NEW p \in Proc, AlreadyAppended(p) PROVE Stages'
  BY <1>6 DEF AlreadyAppended, ChainType
<1>7. CASE Crash
  BY <1>7 DEF Crash
<1>8. CASE UNCHANGED vars
  BY <1>8 DEF vars
<1> QED
  BY <1>1, <1>2, <1>3, <1>4, <1>5, <1>6, <1>7, <1>8 DEF Next

\* A round of weigh gives its blocks a weight that is a number, as their predecessors
\* have one.
LEMMA SumNat ==
  ASSUME StoreInv, Weighed, NEW p \in Proc, Working(p), NEW b \in task[p].blocks,
         RoundOf(blk, b) = task[p].rn
  PROVE  /\ SumWeight(b, task[p].blocks) \in Nat
         /\ PrevWeight(b) \in Nat
         /\ SumWeight(b, task[p].blocks) = PrevWeight(b) + Points \div PositionOf(blk, b, task[p].blocks)
         /\ b # Genesis => /\ PrevWeight(b) = weights[PrevOf(blk, b)]
                           /\ PrevOf(blk, b) \in task[p].blocks
                           /\ RoundOf(blk, PrevOf(blk, b)) < task[p].rn
<1> DEFINE V == task[p].blocks
<1>1. Closed(blk, V) /\ ChainType
  BY DEF StoreInv, Views
<1>2. V \subseteq Id /\ blk \in Universe
  BY <1>1 DEF Closed, ChainType
<1> HIDE DEF V
<1>3. SumWeight(b, V) = PrevWeight(b) + Points \div PositionOf(blk, b, V)
  BY <1>1, <1>2, SumType DEF V
<1>4. Points \div PositionOf(blk, b, V) \in Nat
  BY <1>2, PointsType DEF V
<1>5. b # Genesis => /\ PrevWeight(b) = weights[PrevOf(blk, b)]
                     /\ PrevOf(blk, b) \in V
                     /\ RoundOf(blk, PrevOf(blk, b)) < task[p].rn
  BY <1>1, Same DEF Closed, PrevWeight, V
<1>6. PrevWeight(b) \in Nat
  BY <1>5 DEF Weighed, PrevWeight, V
<1> QED
  BY <1>3, <1>4, <1>5, <1>6 DEF V

\* Every step keeps a weight for what is stored and for what is weighed (weigh).
LEMMA WeighedStep == StoreInv /\ Stages /\ Weighed /\ [Next]_vars => Weighed'
<1> SUFFICES ASSUME StoreInv, Stages, Weighed, [Next]_vars PROVE Weighed'
  OBVIOUS
<1>0. ChainType /\ blk \in Universe /\ stored \subseteq Id
  BY DEF StoreInv, ChainType
<1> DEFINE Through(B, W, t) ==
             /\ StartOf(B, t) <= t.rn
             /\ \A b \in t.blocks : /\ RoundOf(B, b) < t.rn => W[b] \in Nat
                                    /\ t.pc = "commit" => RoundOf(B, b) < t.rn
<1>a. ASSUME up' => \A b \in stored' : weights'[b] \in Nat,
             \A q \in Proc : Working(q)' => Through(blk', weights', task'[q])
      PROVE  Weighed'
  BY <1>a DEF Weighed
<1>b. \A q \in Proc : Working(q) => Through(blk, weights, task[q])
  BY DEF Weighed
<1>c. up => \A b \in stored : weights[b] \in Nat
  BY DEF Weighed
<1>1. ASSUME NEW p \in Proc, NewChain(p) PROVE Weighed'
  <2>1. /\ task'[p].pc = "weigh" /\ task'[p].b = None
        /\ task'[p].blocks = stored /\ task'[p].rn = 0
        /\ \A q \in Proc \ {p} : task'[q] = task[q]
        /\ UNCHANGED <<blk, stored, weights, up>>
    BY <1>0, <1>1, NewChainEffect
  <2>2. \A b \in stored : RoundOf(blk, b) \in Nat
    BY <1>0, BlockTypes
  <2>3. Through(blk', weights', task'[p])
    BY <2>1, <2>2 DEF StartOf
  <2>4. \A q \in Proc \ {p} : Working(q)' => Through(blk', weights', task'[q])
    BY <1>b, <2>1 DEF Working
  <2> HIDE DEF Through
  <2> QED
    BY <1>a, <1>c, <2>1, <2>3, <2>4
<1>2. ASSUME NEW p \in Proc, NEW b \in Block, AppendBlock(p, b) PROVE Weighed'
  <2>1. /\ up /\ b \in Id /\ b # None
        /\ task'[p].pc = "weigh" /\ task'[p].b = b
        /\ task'[p].blocks = stored \cup {b} /\ task'[p].rn = RoundOf(blk, b)
        /\ \A q \in Proc \ {p} : task'[q] = task[q]
        /\ UNCHANGED <<blk, stored, weights, up>>
    BY <1>0, <1>2, AppendEffect
  <2>2. RoundOf(blk, b) \in Nat
    BY <1>0, <2>1, BlockTypes
  <2>3. Through(blk', weights', task'[p])
    BY <1>c, <2>1, <2>2 DEF StartOf
  <2>4. \A q \in Proc \ {p} : Working(q)' => Through(blk', weights', task'[q])
    BY <1>b, <2>1 DEF Working
  <2> HIDE DEF Through
  <2> QED
    BY <1>a, <1>c, <2>1, <2>3, <2>4
<1>3. ASSUME NEW p \in Proc, WeighRound(p) PROVE Weighed'
  <2> DEFINE t == task[p]
             V == task[p].blocks
  <2>1. /\ t \in Doing /\ task'[p].b = t.b /\ task'[p].blocks = V
        /\ task'[p].rn = t.rn + 1
        /\ task'[p].pc = IF MoreRounds(t) THEN "weigh" ELSE "commit"
        /\ \A q \in Proc \ {p} : task'[q] = task[q]
        /\ \A i \in Id : weights'[i] = IF i \in V /\ Round(i) = t.rn
                                         THEN SumWeight(i, V) ELSE weights[i]
        /\ UNCHANGED <<blk, stored, up>>
    BY <1>0, <1>3, WeighEffect
  <2>2. Working(p) /\ V \subseteq Id /\ t.rn \in Nat
    BY <1>0, <2>1, Kinds DEF Working
  <2>3. \A i \in V : RoundOf(blk, i) = t.rn => weights'[i] \in Nat
    BY ZenonT(30), <2>1, <2>2, SumNat, Same
  <2>4. \A i \in Id : weights[i] \in Nat => weights'[i] \in Nat
    BY <2>1, <2>3, Same
  <2>5. \A i \in V : RoundOf(blk, i) \in Nat
    BY <1>0, <2>2, BlockTypes
  <2>6. Through(blk, weights, t)
    BY <1>b, <2>2
  <2>7. ~MoreRounds(t) => \A i \in V : RoundOf(blk, i) <= t.rn
    BY <2>2, <2>5, Same DEF MoreRounds
  <2>8. StartOf(blk, t) \in Nat
    BY <1>0, <2>1, BlockTypes, Kinds DEF StartOf, Block, Id, Genesis
  <2>9. StartOf(blk', task'[p]) <= task'[p].rn
    BY <2>1, <2>2, <2>6, <2>8 DEF StartOf
  <2>10. ASSUME NEW i \in task'[p].blocks
         PROVE  /\ RoundOf(blk', i) < task'[p].rn => weights'[i] \in Nat
                /\ task'[p].pc = "commit" => RoundOf(blk', i) < task'[p].rn
    <3>1. RoundOf(blk, i) < t.rn => weights[i] \in Nat
      BY <2>1, <2>6
    <3> HIDE DEF Through
    <3> QED
      BY <2>1, <2>2, <2>3, <2>4, <2>5, <2>7, <3>1
  <2>11. ASSUME NEW q \in Proc \ {p}, Working(q)' PROVE Through(blk', weights', task'[q])
    <3>1. Through(blk, weights, task[q]) /\ task'[q] = task[q] /\ task[q].blocks \subseteq Id
      BY <1>0, <1>b, <2>1, <2>11, TaskKinds, Kinds DEF Working
    <3> QED
      BY <2>1, <2>4, <3>1
  <2>12. \A q \in Proc : Working(q)' => Through(blk', weights', task'[q])
    BY <2>9, <2>10, <2>11
  <2> HIDE DEF Through
  <2> QED
    BY <1>0, <1>a, <1>c, <2>1, <2>4, <2>12
<1>4. ASSUME NEW p \in Proc, CommitAppend(p) PROVE Weighed'
  <2>1. /\ task[p] \in Doing /\ task[p].pc = "commit" /\ ~task[p].stale /\ task'[p] = Idle
        /\ \A q \in Proc \ {p} :
              IF Working(q)
                THEN /\ task'[q].pc = task[q].pc /\ task'[q].b = task[q].b
                     /\ task'[q].blocks = task[q].blocks /\ task'[q].rn = task[q].rn
                ELSE task'[q] = task[q]
        /\ stored' = stored \cup task[p].blocks
        /\ UNCHANGED <<blk, weights>>
    BY <1>0, <1>4, CommitEffect
  <2>2. Working(p) /\ stored' = task[p].blocks
    BY <2>1 DEF StoreInv, Views, Working
  <2>3. \A b \in stored' : weights'[b] \in Nat
    BY <1>b, <2>1, <2>2
  <2>4. ASSUME NEW q \in Proc, Working(q)' PROVE Through(blk', weights', task'[q])
    <3>1. q # p
      BY <2>1, <2>4, Kinds DEF Working
    <3>2. Working(q) /\ Through(blk, weights, task[q])
      BY <1>b, <2>1, <2>4, <3>1 DEF Working
    <3> QED
      BY <2>1, <3>1, <3>2 DEF StartOf
  <2> HIDE DEF Through
  <2> QED
    BY <1>a, <2>3, <2>4
<1>5. ASSUME NEW p \in Proc, ConflictAppend(p) \/ AlreadyAppended(p) PROVE Weighed'
  <2>1. /\ ~Working(p)' /\ \A q \in Proc \ {p} : task'[q] = task[q]
        /\ UNCHANGED <<blk, stored, weights, up>>
    BY <1>0, <1>5, Kinds DEF ConflictAppend, AlreadyAppended, Working, ChainType
  <2>2. \A q \in Proc : Working(q)' => Through(blk', weights', task'[q])
    BY <1>b, <2>1 DEF Working
  <2> HIDE DEF Through
  <2> QED
    BY <1>a, <1>c, <2>1, <2>2
<1>6. CASE Crash
  BY <1>6, <1>a, Kinds DEF Crash, Working
<1>7. CASE UNCHANGED vars
  BY <1>7 DEF vars, Weighed, Working, StartOf
<1> QED
  BY <1>1, <1>2, <1>3, <1>4, <1>5, <1>6, <1>7 DEF Next

\* Every step keeps the weights exact outside the rounds that are still to be weighed.
LEMMA ExactStep == StoreInv /\ Stages /\ Weighed /\ Exact /\ [Next]_vars => Exact'
<1> SUFFICES ASSUME StoreInv, Stages, Weighed, Exact, [Next]_vars, "twice" \notin past'
             PROVE  /\ \A q \in Proc : Busy(q)' => task'[q].b \notin stored'
                    /\ \A q, r \in Proc : Busy(q)' /\ Busy(r)' /\ q # r => task'[q].b # task'[r].b
                    /\ up' => \A c \in stored' :
                         Below(c, Proc)' => weights'[c] = WeightOf(blk', c, stored')
                    /\ \A q \in Proc : Working(q)' /\ ~task'[q].stale =>
                         \A c \in task'[q].blocks :
                           RoundOf(blk', c) < task'[q].rn /\ Below(c, Proc \ {q})' =>
                             weights'[c] = WeightOf(blk', c, task'[q].blocks)
  BY DEF Exact
<1> DEFINE Goal == /\ \A q \in Proc : Busy(q)' => task'[q].b \notin stored'
                   /\ \A q, r \in Proc : Busy(q)' /\ Busy(r)' /\ q # r => task'[q].b # task'[r].b
                   /\ up' => \A c \in stored' :
                        Below(c, Proc)' => weights'[c] = WeightOf(blk', c, stored')
                   /\ \A q \in Proc : Working(q)' /\ ~task'[q].stale =>
                        \A c \in task'[q].blocks :
                          RoundOf(blk', c) < task'[q].rn /\ Below(c, Proc \ {q})' =>
                            weights'[c] = WeightOf(blk', c, task'[q].blocks)
<1>0. /\ ChainType /\ blk \in Universe /\ stored \subseteq Id /\ None \notin stored
      /\ Closed(blk, stored)
  BY ChainAssumption DEF StoreInv, ChainType, Id, Genesis, None
<1>e. "twice" \notin past =>
        /\ \A q \in Proc : Busy(q) => task[q].b \notin stored
        /\ \A q, r \in Proc : Busy(q) /\ Busy(r) /\ q # r => task[q].b # task[r].b
        /\ up => \A c \in stored : Below(c, Proc) => weights[c] = WeightOf(blk, c, stored)
        /\ \A q \in Proc : Working(q) /\ ~task[q].stale =>
             \A c \in task[q].blocks :
               RoundOf(blk, c) < task[q].rn /\ Below(c, Proc \ {q}) =>
                 weights[c] = WeightOf(blk, c, task[q].blocks)
  BY DEF Exact
<1>1. ASSUME NEW p \in Proc, NewChain(p) PROVE Goal
  <2>1. /\ ~up /\ \A q \in Proc : task[q] = Idle
        /\ task'[p].pc = "weigh" /\ task'[p].b = None
        /\ task'[p].blocks = stored /\ task'[p].rn = 0
        /\ \A q \in Proc \ {p} : task'[q] = task[q]
        /\ UNCHANGED <<blk, stored, weights, up>>
    BY <1>0, <1>1, NewChainEffect
  <2>2. \A c \in stored : ~(RoundOf(blk, c) < 0)
    BY <1>0, BlockTypes
  <2>3. \A q \in Proc : Busy(q)' \/ Working(q)' => q = p
    BY <2>1, Kinds DEF Busy, Working
  <2> QED
    BY <1>0, <2>1, <2>2, <2>3
<1>2. ASSUME NEW p \in Proc, NEW b \in Block, AppendBlock(p, b) PROVE Goal
  <2>1. /\ up /\ task[p] \in {Idle, [pc |-> "retry", b |-> b]} /\ b \in Id /\ b # None
        /\ task'[p].pc = "weigh" /\ task'[p].b = b
        /\ task'[p].blocks = stored \cup {b} /\ task'[p].rn = RoundOf(blk, b)
        /\ \A q \in Proc \ {p} : task'[q] = task[q]
        /\ "twice" \notin past /\ \A q \in Proc \ {p} : task[q] = Idle \/ task[q].b # b
        /\ UNCHANGED <<blk, stored, weights, up>>
    BY <1>0, <1>2, AppendEffect
  <2>2. b \notin stored
    BY <1>2 DEF AppendBlock, Acceptable
  <2>3. ASSUME NEW c, NEW P \in SUBSET Proc, Below(c, P)' PROVE Below(c, P)
    <3> SUFFICES ASSUME NEW q \in P, task[q] # Idle
                 PROVE  RoundOf(blk, c) < StartOf(blk, task[q])
      BY DEF Below, Busy
    <3>1. task'[q] # Idle /\ task'[q].b = task[q].b
      BY <2>1, Kinds
    <3> QED
      BY <2>1, <2>3, <3>1 DEF Below, Busy, StartOf
  <2>4. ASSUME NEW c \in task'[p].blocks, RoundOf(blk, c) < RoundOf(blk, b), Below(c, Proc \ {p})'
        PROVE  weights'[c] = WeightOf(blk', c, task'[p].blocks)
    <3>1. c \in stored
      BY <1>0, <2>1, <2>4, BlockTypes
    <3>2. Below(c, Proc \ {p})
      BY <2>3, <2>4
    <3>3. Below(c, Proc)
      BY <2>1, <2>4, <3>2 DEF Below, Busy, StartOf
    <3>4. WeightOf(blk, c, stored \cup {b}) = WeightOf(blk, c, stored)
      BY <1>0, <2>1, <2>4, <3>1, WeightBelow
    <3> QED
      BY <1>e, <2>1, <3>1, <3>3, <3>4
  <2>5. ASSUME NEW q \in Proc, Busy(q)' PROVE task'[q].b \notin stored'
    BY <1>e, <2>1, <2>2, <2>5 DEF Busy
  <2>6. ASSUME NEW q \in Proc, NEW r \in Proc, Busy(q)', Busy(r)', q # r
        PROVE  task'[q].b # task'[r].b
    BY <1>e, <2>1, <2>6 DEF Busy
  <2>7. ASSUME NEW c \in stored', Below(c, Proc)' PROVE weights'[c] = WeightOf(blk', c, stored')
    BY <1>e, <2>1, <2>3, <2>7
  <2>8. ASSUME NEW q \in Proc, Working(q)', ~task'[q].stale, NEW c \in task'[q].blocks,
               RoundOf(blk', c) < task'[q].rn, Below(c, Proc \ {q})'
        PROVE  weights'[c] = WeightOf(blk', c, task'[q].blocks)
    <3>1. CASE q = p
      BY ZenonT(30), <2>1, <2>4, <2>8, <3>1
    <3>2. CASE q # p
      <4>1. Below(c, Proc \ {q})
        BY <2>3, <2>8
      <4> QED
        BY <1>e, <2>1, <2>8, <3>2, <4>1 DEF Working
    <3> QED
      BY <3>1, <3>2
  <2> QED
    BY <2>5, <2>6, <2>7, <2>8
<1>3. ASSUME NEW p \in Proc, WeighRound(p) PROVE Goal
  <2> DEFINE t == task[p]
             V == task[p].blocks
  <2>1. /\ t \in Doing /\ task'[p] \in Doing /\ task'[p].b = t.b /\ task'[p].blocks = V
        /\ task'[p].rn = t.rn + 1 /\ task'[p].stale = t.stale
        /\ \A q \in Proc \ {p} : task'[q] = task[q]
        /\ \A i \in Id : weights'[i] = IF i \in V /\ Round(i) = t.rn
                                         THEN SumWeight(i, V) ELSE weights[i]
        /\ UNCHANGED <<blk, stored, up, past>>
    BY <1>0, <1>3, WeighEffect
  <2>2. Working(p) /\ Busy(p) /\ Busy(p)' /\ V \subseteq Id /\ t.rn \in Nat /\ Closed(blk, V)
    BY ZenonT(30), <1>0, <2>1, Kinds DEF Working, Busy, StoreInv, Views
  <2>3. \A c : \A P \in SUBSET Proc : Below(c, P)' <=> Below(c, P)
    BY <2>1, <2>2 DEF Below, Busy, StartOf
  <2>4. StartOf(blk, t) <= t.rn /\ StartOf(blk, t) \in Nat
    <3>1. StartOf(blk, t) \in Nat
      BY <1>0, <2>1, BlockTypes, Kinds DEF StartOf, Block, Id, Genesis
    <3> QED
      BY <2>2, <3>1 DEF Weighed
  <2>5. ASSUME NEW c \in Id, NEW P \in SUBSET Proc, p \in P, Below(c, P)
        PROVE  weights'[c] = weights[c]
    <3>1. RoundOf(blk, c) < StartOf(blk, t) /\ RoundOf(blk, c) \in Nat
      BY <1>0, <2>2, <2>5, BlockTypes DEF Below
    <3>2. RoundOf(blk, c) # t.rn
      BY <2>2, <2>4, <3>1
    <3> QED
      BY ZenonT(30), <2>1, <3>2, Same
  <2>6. ASSUME ~t.stale, NEW c \in V, RoundOf(blk, c) < t.rn + 1, Below(c, Proc \ {p})
        PROVE  weights'[c] = WeightOf(blk, c, V)
    <3>1. RoundOf(blk, c) \in Nat /\ c \in Id
      BY <1>0, <2>2, BlockTypes
    <3>2. CASE RoundOf(blk, c) < t.rn
      <4>1. weights[c] = WeightOf(blk, c, V)
        BY ZenonT(30), <1>e, <2>1, <2>2, <2>6, <3>2
      <4>2. RoundOf(blk, c) # t.rn
        BY <2>2, <3>1, <3>2
      <4> QED
        BY ZenonT(30), <2>1, <3>1, <4>1, <4>2, Same
    <3>3. CASE RoundOf(blk, c) = t.rn
      <4>1. /\ weights'[c] = PrevWeight(c) + Points \div PositionOf(blk, c, V)
            /\ PrevWeight(c) \in Nat
            /\ c # Genesis => /\ PrevWeight(c) = weights[PrevOf(blk, c)]
                              /\ PrevOf(blk, c) \in V
                              /\ RoundOf(blk, PrevOf(blk, c)) < t.rn
        <5>1. weights'[c] = SumWeight(c, V)
          BY ZenonT(30), <2>1, <3>1, <3>3, Same
        <5> QED
          BY <2>2, <3>3, <5>1, SumNat
      <4>2. Points \div PositionOf(blk, c, V) \in Nat
        BY <1>0, <2>2, PointsType
      <4>3. WeightOf(blk, c, V) = Points \div PositionOf(blk, c, V)
                + (IF c = Genesis THEN 0 ELSE WeightOf(blk, PrevOf(blk, c), V))
        BY <1>0, <3>1, WeightUnfolds
      <4>4. CASE c = Genesis
        BY <4>1, <4>2, <4>3, <4>4 DEF PrevWeight
      <4>5. CASE c # Genesis
        <5>1. RoundOf(blk, PrevOf(blk, c)) \in Nat
          BY <1>0, <2>2, <4>1, <4>5, BlockTypes
        <5>2. Below(PrevOf(blk, c), Proc \ {p})
          <6> SUFFICES ASSUME NEW q \in Proc \ {p}, Busy(q)
                       PROVE  RoundOf(blk, PrevOf(blk, c)) < StartOf(blk, task[q])
            BY DEF Below
          <6>1. RoundOf(blk, c) < StartOf(blk, task[q])
            BY <2>6 DEF Below
          <6>2. StartOf(blk, task[q]) \in Nat
            <7>1. task[q].b \in Block \cup {None}
              BY <1>0, Kinds DEF ChainType, Busy
            <7> QED
              BY <1>0, <7>1, BlockTypes DEF StartOf, Block, Id, Genesis
          <6> QED
            BY <2>2, <3>3, <4>1, <4>5, <5>1, <6>1, <6>2
        <5>3. weights[PrevOf(blk, c)] = WeightOf(blk, PrevOf(blk, c), V)
          BY ZenonT(30), <1>e, <2>1, <2>2, <2>6, <4>1, <4>5, <5>2
        <5> QED
          BY <4>1, <4>2, <4>3, <4>5, <5>3
      <4> QED
        BY <4>4, <4>5
    <3> QED
      BY <2>2, <2>6, <3>1, <3>2, <3>3
  <2>7. ASSUME NEW q \in Proc, Busy(q)' PROVE task'[q].b \notin stored'
    BY ZenonT(30), <1>e, <2>1, <2>2, <2>7 DEF Busy
  <2>8. ASSUME NEW q \in Proc, NEW r \in Proc, Busy(q)', Busy(r)', q # r
        PROVE  task'[q].b # task'[r].b
    BY <1>e, <2>1, <2>2, <2>8 DEF Busy
  <2>9. ASSUME up', NEW c \in stored', Below(c, Proc)' PROVE weights'[c] = WeightOf(blk', c, stored')
    BY <1>0, <1>e, <2>1, <2>3, <2>5, <2>9
  <2>10. ASSUME NEW q \in Proc, Working(q)', ~task'[q].stale, NEW c \in task'[q].blocks,
                RoundOf(blk', c) < task'[q].rn, Below(c, Proc \ {q})'
         PROVE  weights'[c] = WeightOf(blk', c, task'[q].blocks)
    <3>1. CASE q = p
      BY <2>1, <2>3, <2>6, <2>10, <3>1
    <3>2. CASE q # p
      <4>1. Below(c, Proc \ {q}) /\ task'[q] = task[q] /\ Working(q)
        BY <2>1, <2>3, <2>10, <3>2 DEF Working
      <4>2. c \in Id
        BY <1>0, <2>10, <4>1, TaskKinds, Kinds
      <4>3. weights'[c] = weights[c]
        BY <2>5, <3>2, <4>1, <4>2
      <4> QED
        BY SMTT(30), <1>e, <2>1, <2>10, <4>1, <4>3
    <3> QED
      BY <3>1, <3>2
  <2> QED
    BY <2>7, <2>8, <2>9, <2>10
<1>4. ASSUME NEW p \in Proc, CommitAppend(p) PROVE Goal
  <2> DEFINE t == task[p]
  <2>1. /\ t \in Doing /\ t.pc = "commit" /\ ~t.stale /\ task'[p] = Idle
        /\ \A q \in Proc \ {p} :
              IF Working(q)
                THEN /\ task'[q] \in Doing /\ task'[q].stale /\ task'[q].b = task[q].b
                ELSE task'[q] = task[q]
        /\ stored' = stored \cup t.blocks
        /\ UNCHANGED <<blk, weights, past>>
    BY <1>0, <1>4, CommitEffect
  <2>2. Working(p) /\ Busy(p) /\ stored' = t.blocks /\ t.blocks = stored \cup ({t.b} \ {None})
    BY <2>1, Kinds DEF StoreInv, Views, Working, Busy
  <2>3. \A q \in Proc : Busy(q)' => q # p /\ Busy(q) /\ task'[q].b = task[q].b
    BY <2>1, Kinds DEF Busy, Working
  <2>4. \A q \in Proc \ {p} : Busy(q) => Busy(q)' /\ task'[q].b = task[q].b
    BY <2>1, Kinds DEF Busy
  <2>5. ASSUME NEW q \in Proc, Busy(q)' PROVE task'[q].b \notin stored'
    <3>1. task[q].b \notin stored /\ task[q].b # t.b /\ task'[q].b = task[q].b
      BY <1>e, <2>1, <2>2, <2>3, <2>5
    <3> QED
      BY <2>2, <3>1
  <2>6. ASSUME NEW c \in stored', Below(c, Proc)' PROVE weights'[c] = WeightOf(blk', c, stored')
    <3>1. Below(c, Proc \ {p})
      BY <2>1, <2>4, <2>6 DEF Below, StartOf
    <3>2. RoundOf(blk, c) < t.rn
      BY <2>1, <2>2 DEF Weighed
    <3>3. \A d \in t.blocks : RoundOf(blk, d) < t.rn /\ Below(d, Proc \ {p}) =>
            weights[d] = WeightOf(blk, d, t.blocks)
      BY ZenonT(30), <1>e, <2>1, <2>2
    <3>4. c \in t.blocks /\ blk' = blk /\ weights' = weights /\ stored' = t.blocks
      BY <2>1, <2>2
    <3>5. weights[c] = WeightOf(blk, c, t.blocks)
      BY <3>1, <3>2, <3>3, <3>4
    <3> QED
      BY <3>4, <3>5
  <2>7. \A q \in Proc : Working(q)' => task'[q].stale
    BY <2>1, Kinds DEF Working
  <2>8. ASSUME NEW q \in Proc, NEW r \in Proc, Busy(q)', Busy(r)', q # r
        PROVE  task'[q].b # task'[r].b
    BY <1>e, <2>1, <2>3, <2>8
  <2> QED
    BY <2>5, <2>6, <2>7, <2>8
<1>5. ASSUME NEW p \in Proc, ConflictAppend(p) PROVE Goal
  <2>1. /\ task[p] \in Doing /\ task'[p] \in Waiting /\ task'[p].b = task[p].b
        /\ \A q \in Proc \ {p} : task'[q] = task[q]
        /\ UNCHANGED <<blk, stored, weights, up, past>>
    BY ZenonT(30), <1>0, <1>5, ConflictEffect
  <2>2. \A q \in Proc : (Busy(q)' <=> Busy(q)) /\ task'[q].b = task[q].b
    BY <2>1, Kinds DEF Busy
  <2>3. \A c : \A P \in SUBSET Proc : Below(c, P)' <=> Below(c, P)
    BY <2>1, <2>2 DEF Below, StartOf
  <2>4. \A q \in Proc : Working(q)' => Working(q) /\ task'[q] = task[q]
    BY <2>1, Kinds DEF Working
  <2> QED
    BY ZenonT(30), <1>e, <2>1, <2>2, <2>3, <2>4
<1>6. ASSUME NEW p \in Proc, AlreadyAppended(p) PROVE Goal
  <2>1. task[p].pc = "retry" /\ task[p].b \in stored /\ past' = past
    BY <1>6 DEF AlreadyAppended
  <2>2. Busy(p)
    BY <2>1 DEF Busy, Idle
  <2> QED
    BY <1>e, <2>1, <2>2
<1>7. CASE Crash
  BY <1>7, Kinds DEF Crash, Busy, Working
<1>8. CASE UNCHANGED vars
  <2>1. UNCHANGED <<blk, stored, weights, up, past, task>>
    BY <1>8 DEF vars
  <2>2. \A c : \A P \in SUBSET Proc : Below(c, P)' <=> Below(c, P)
    BY <2>1 DEF Below, StartOf, Busy
  <2>3. \A q \in Proc : (Busy(q)' <=> Busy(q)) /\ (Working(q)' <=> Working(q))
    BY <2>1 DEF Working, Busy
  <2> QED
    BY <1>e, <2>1, <2>2, <2>3
<1> QED
  BY ZenonT(30), <1>1, <1>2, <1>3, <1>4, <1>5, <1>6, <1>7, <1>8 DEF Next

\* All of this holds throughout.
WeightInv == StoreInv /\ Stages /\ Weighed /\ Exact

\* The four together hold in every behaviour (NewChain, Append, weigh).
LEMMA WeightHolds == Spec => []WeightInv
<1>1. Init => WeightInv
  <2> SUFFICES ASSUME Init PROVE WeightInv
    OBVIOUS
  <2>1. ~up /\ \A p \in Proc : task[p] = Idle
    BY DEF Init
  <2>2. Stages /\ Weighed /\ Exact
    BY ZenonT(30), <2>1, Kinds DEF Stages, Weighed, Exact, Busy, Working
  <2> QED
    BY <2>2, StoreInit DEF WeightInv
<1>2. WeightInv /\ [Next]_vars => WeightInv'
  <2> SUFFICES ASSUME WeightInv, [Next]_vars PROVE WeightInv'
    OBVIOUS
  <2>1. StoreInv /\ ChainType /\ Stages /\ Weighed /\ Exact
    BY DEF WeightInv, StoreInv
  <2> QED
    BY <2>1, StoreStep, StagesStep, WeighedStep, ExactStep DEF WeightInv
<1> QED
  BY <1>1, <1>2, PTL DEF Spec

\* Once overlapping appends are through, the weights in memory are those of the stored
\* blocks, for any blocks, any number of goroutines and any restarts, unless two of
\* them appended the same block at a time; and weigh never adds to a weight that is
\* missing (weigh, NewChain).
THEOREM WeightsAreExact == Spec => []WeightsExact
<1>1. WeightInv => WeightsExact
  <2> SUFFICES ASSUME WeightInv PROVE WeightsExact
    OBVIOUS
  <2>1. ASSUME Quiet, "twice" \notin past, NEW b \in stored PROVE weights[b] = Weight(b)
    <3>1. up /\ Below(b, Proc)
      BY <2>1 DEF Quiet, Below, Busy
    <3>2. weights[b] = WeightOf(blk, b, stored)
      BY <2>1, <3>1 DEF WeightInv, Exact
    <3> QED
      BY <3>2, Same
  <2>2. ASSUME NEW p \in Proc, task[p].pc = "weigh", NEW b \in task[p].blocks,
               Round(b) = task[p].rn
        PROVE  PrevWeight(b) # None
    <3>1. PrevWeight(b) \in Nat
      BY ZenonT(30), <2>2, SumNat, Same DEF WeightInv, Working
    <3> QED
      BY <3>1 DEF None
  <2> QED
    BY <2>1, <2>2 DEF WeightsExact
<1> QED
  BY <1>1, WeightHolds, PTL

------------------------------------------------------------------------------
\* The state of the tip

\* As long as appends came one after the other, the state is the one of the tip that
\* the running append is about to write, or of the tip if there is none.  NewChain
\* starts without a state and finds the genesis block heavy enough.
Follows ==
  past = {} =>
    /\ \A p, q \in Proc : Busy(p) /\ Busy(q) => p = q
    /\ \A p \in Proc : Busy(p) => Working(p) /\ ~task[p].stale
    /\ ~up => tip.w = 0
    /\ up /\ (\A p \in Proc : ~Busy(p)) => tstate = tip.id
    /\ \A p \in Proc : Busy(p) =>
         \/ task[p].pc = "weigh" /\ task[p].rn = 0 /\ task[p].tipw = 0
         \/ tstate = task[p].tip.id

\* Every step keeps it (Append, weigh, NewChain).
LEMMA FollowsStep == WeightInv /\ Follows /\ [Next]_vars => Follows'
<1> SUFFICES ASSUME WeightInv, Follows, [Next]_vars, past' = {}
             PROVE  /\ \A q, r \in Proc : Busy(q)' /\ Busy(r)' => q = r
                    /\ \A q \in Proc : Busy(q)' => Working(q)' /\ ~task'[q].stale
                    /\ ~up' => tip'.w = 0
                    /\ up' /\ (\A q \in Proc : ~Busy(q)') => tstate' = tip'.id
                    /\ \A q \in Proc : Busy(q)' =>
                         \/ task'[q].pc = "weigh" /\ task'[q].rn = 0 /\ task'[q].tipw = 0
                         \/ tstate' = task'[q].tip.id
  BY ZenonT(30) DEF Follows
<1> DEFINE Goal == /\ \A q, r \in Proc : Busy(q)' /\ Busy(r)' => q = r
                   /\ \A q \in Proc : Busy(q)' => Working(q)' /\ ~task'[q].stale
                   /\ ~up' => tip'.w = 0
                   /\ up' /\ (\A q \in Proc : ~Busy(q)') => tstate' = tip'.id
                   /\ \A q \in Proc : Busy(q)' =>
                        \/ task'[q].pc = "weigh" /\ task'[q].rn = 0 /\ task'[q].tipw = 0
                        \/ tstate' = task'[q].tip.id
<1>0. ChainType /\ StoreInv /\ Weighed /\ blk \in Universe
  BY DEF WeightInv, StoreInv, ChainType
<1>f. past = {} =>
        /\ \A p, q \in Proc : Busy(p) /\ Busy(q) => p = q
        /\ \A p \in Proc : Busy(p) => Working(p) /\ ~task[p].stale
        /\ ~up => tip.w = 0
        /\ up /\ (\A p \in Proc : ~Busy(p)) => tstate = tip.id
        /\ \A p \in Proc : Busy(p) =>
             \/ task[p].pc = "weigh" /\ task[p].rn = 0 /\ task[p].tipw = 0
             \/ tstate = task[p].tip.id
  BY DEF Follows
<1>1. ASSUME NEW p \in Proc, NewChain(p) PROVE Goal
  <2>1. /\ ~up /\ \A q \in Proc : task[q] = Idle
        /\ task'[p].pc = "weigh" /\ task'[p].rn = 0 /\ task'[p].tipw = tip.w /\ ~task'[p].stale
        /\ \A q \in Proc \ {p} : task'[q] = task[q]
        /\ UNCHANGED <<tip, tstate, up, past>>
    BY <1>0, <1>1, NewChainEffect
  <2>2. \A q \in Proc : Busy(q)' <=> q = p
    BY <2>1, Kinds DEF Busy
  <2> QED
    BY <1>f, <2>1, <2>2 DEF Working
<1>2. ASSUME NEW p \in Proc, NEW b \in Block, AppendBlock(p, b) PROVE Goal
  <2>1. /\ up /\ task[p] \in {Idle, [pc |-> "retry", b |-> b]}
        /\ task'[p].pc = "weigh" /\ task'[p].tip = tip /\ ~task'[p].stale
        /\ \A q \in Proc \ {p} : task'[q] = task[q]
        /\ past = {} /\ \A q \in Proc \ {p} : task[q] = Idle
        /\ UNCHANGED <<tip, tstate, up>>
    BY <1>0, <1>2, AppendEffect
  <2>2. task[p] = Idle
    BY SMTT(30), <1>f, <2>1 DEF Busy, Working
  <2>3. tstate = tip.id
    BY <1>f, <2>1, <2>2 DEF Busy
  <2>4. \A q \in Proc : Busy(q)' <=> q = p
    BY <2>1, Kinds DEF Busy
  <2> QED
    BY <2>1, <2>3, <2>4 DEF Working
<1>3. ASSUME NEW p \in Proc, WeighRound(p) PROVE Goal
  <2> DEFINE t == task[p]
             V == task[p].blocks
  <2>1. /\ t \in Doing /\ task'[p] \in Doing /\ task'[p].stale = t.stale
        /\ \A q \in Proc \ {p} : task'[q] = task[q]
        /\ UNCHANGED <<stored, tip, up, past>>
    BY <1>0, <1>3, WeighEffect
  <2>2. \/ task'[p].tip = t.tip /\ tstate' = tstate
           /\ \A b \in V : Round(b) = t.rn => ~(SumWeight(b, V) >= t.tipw)
        \/ tstate' = task'[p].tip.id
    BY <1>0, <1>3, WeighEffect
  <2>3. Working(p) /\ Busy(p) /\ Working(p)' /\ Busy(p)' /\ Genesis \in V
    BY ZenonT(30), <1>0, <2>1, Kinds DEF Working, Busy, StoreInv, Views, Closed
  <2>4. \A q \in Proc : Busy(q)' <=> Busy(q)
    BY <2>1, <2>3 DEF Busy
  <2>5. tstate' = task'[p].tip.id
    <3>1. CASE t.rn = 0 /\ t.tipw = 0
      <4>1. Round(Genesis) = t.rn /\ RoundOf(blk, Genesis) = t.rn
        BY <3>1 DEF Round, RoundOf
      <4>2. SumWeight(Genesis, V) \in Nat
        BY ZenonT(30), <1>0, <2>3, <4>1, SumNat
      <4>3. SumWeight(Genesis, V) >= t.tipw
        BY <3>1, <4>2
      <4> QED
        BY <2>2, <2>3, <4>1, <4>3
    <3>2. CASE tstate = t.tip.id
      BY <2>2, <3>2
    <3> QED
      BY <1>f, <2>1, <2>3, <3>1, <3>2
  <2>6. \A q \in Proc : Busy(q)' => q = p
    BY <1>f, <2>1, <2>3, <2>4
  <2> QED
    BY ZenonT(30), <1>f, <2>1, <2>3, <2>5, <2>6
<1>4. ASSUME NEW p \in Proc, CommitAppend(p) PROVE Goal
  <2>1. /\ task[p] \in Doing /\ task[p].pc = "commit" /\ task'[p] = Idle
        /\ \A q \in Proc \ {p} : Working(q) \/ task'[q] = task[q]
        /\ tip' = task[p].tip /\ up' /\ UNCHANGED <<tstate, past>>
    BY <1>0, <1>4, CommitEffect
  <2>2. Busy(p)
    BY <2>1, Kinds DEF Busy
  <2>3. \A q \in Proc \ {p} : ~Busy(q) /\ ~Working(q)
    BY <1>f, <2>1, <2>2, Kinds DEF Busy, Working
  <2>4. \A q \in Proc : ~Busy(q)'
    BY <2>1, <2>3 DEF Busy
  <2>5. tstate = task[p].tip.id
    BY <1>f, <2>1, <2>2
  <2> QED
    BY <2>1, <2>4, <2>5
<1>5. ASSUME NEW p \in Proc, ConflictAppend(p) PROVE Goal
  <2>1. task[p] \in Doing /\ task[p].stale /\ past' = past
    BY <1>0, <1>5, ConflictEffect
  <2> QED
    BY <1>f, <2>1, Kinds DEF Busy
<1>6. ASSUME NEW p \in Proc, AlreadyAppended(p) PROVE Goal
  BY ZenonT(30), <1>6, <1>f, Kinds DEF AlreadyAppended, Busy, Working
<1>7. CASE Crash
  BY ZenonT(30), <1>7 DEF Crash
<1>8. CASE UNCHANGED vars
  BY <1>8, <1>f DEF vars, Busy, Working
<1> QED
  BY ZenonT(30), <1>1, <1>2, <1>3, <1>4, <1>5, <1>6, <1>7, <1>8 DEF Next

\* As long as no append overlapped with another one and the process was not restarted,
\* the state that View and Update read is the one of the tip.
THEOREM AloneStateFollowsTip == Spec => []ViewOfTipAlone
<1>1. Init => Follows
  BY Kinds DEF Init, Follows, Busy
<1>2. Follows => ViewOfTipAlone
  BY DEF Follows, ViewOfTipAlone, Quiet, Busy
<1> QED
  BY <1>1, <1>2, WeightHolds, FollowsStep, PTL DEF Spec
==============================================================================
