-------------------------- MODULE AppendRetryProofs --------------------------
(***************************************************************************)
(* Up to MaxTry blocks can be handled at the same time without a handler   *)
(* running out of attempts before its block is in the chain.               *)
(***************************************************************************)
EXTENDS AppendRetry, FiniteSetTheorems, TLAPS

\* Every conflict is owed to a block that was appended during that very attempt,
\* and no block is appended twice, so that a handler has had no more of them than
\* there are blocks in the chain.
ConflictsCounted ==
  \A h \in Handler :
    /\ tries[h] <= Cardinality(appended)
    /\ stale[h] /\ pc[h] = "append" => tries[h] + 1 <= Cardinality(appended)

\* A handler that is in an attempt and has met no conflict has its block to append.
FreshIsMissing ==
  \A h \in Handler : pc[h] = "append" /\ ~stale[h] => BlockOf[h] \notin appended

RetryInv == TypeOK /\ ConflictsCounted /\ FreshIsMissing /\ ResolvedIsAppended

\* The variables keep their types.
LEMMA TypeStep == TypeOK /\ [Next]_vars => TypeOK'
<1> SUFFICES ASSUME TypeOK, [Next]_vars PROVE TypeOK'
  OBVIOUS
<1> USE RetryAssumption DEF TypeOK
<1>1. ASSUME NEW h \in Handler, Start(h) PROVE TypeOK'
  BY <1>1 DEF Start
<1>2. ASSUME NEW h \in Handler, Exists(h) PROVE TypeOK'
  BY <1>2 DEF Exists
<1>3. ASSUME NEW h \in Handler, Commit(h) PROVE TypeOK'
  <2>1. appended' \subseteq Block /\ resolved' \subseteq Block
    BY <1>3 DEF Commit
  <2>2. stale' \in [Handler -> BOOLEAN]
    BY <1>3, Zenon DEF Commit
  <2> QED
    BY <1>3, <2>1, <2>2 DEF Commit
<1>4. ASSUME NEW h \in Handler, Conflict(h) PROVE TypeOK'
  BY <1>4 DEF Conflict
<1>5. ASSUME NEW h \in Handler, FallThrough(h) PROVE TypeOK'
  BY <1>5 DEF FallThrough
<1>6. CASE UNCHANGED vars
  BY <1>6 DEF vars
<1> QED
  BY <1>1, <1>2, <1>3, <1>4, <1>5, <1>6 DEF Next

\* What an append to the chain does to the number of blocks in it.
LEMMA AppendCounts ==
  ASSUME IsFiniteSet(Block), appended \subseteq Block, NEW b \in Block \ appended
  PROVE  /\ Cardinality(appended) \in Nat
         /\ Cardinality(appended \cup {b}) = Cardinality(appended) + 1
BY FS_Subset, FS_CardinalityType, FS_AddElement

\* RetryInv holds at the start, before any handler has run.
LEMMA InvInit == IsFiniteSet(Block) /\ Init => RetryInv
<1> SUFFICES ASSUME Init PROVE RetryInv
  OBVIOUS
<1>1. Cardinality({}) = 0
  BY FS_EmptySet
<1> QED
  BY <1>1, RetryAssumption
  DEF Init, RetryInv, TypeOK, ConflictsCounted, FreshIsMissing, ResolvedIsAppended

\* As many appended blocks as there are blocks are all of them.
LEMMA AllAppended ==
  ASSUME NEW A \in SUBSET Block, IsFiniteSet(Block), Cardinality(Block) <= Cardinality(A)
  PROVE  A = Block
<1>1. IsFiniteSet(A) /\ Cardinality(A) <= Cardinality(Block)
  BY FS_Subset
<1>2. Cardinality(Block) = Cardinality(A) => Block = A
  BY FS_Subset
<1>3. Cardinality(A) \in Nat /\ Cardinality(Block) \in Nat
  BY <1>1, FS_CardinalityType
<1> QED
  BY <1>1, <1>2, <1>3

\* RetryInv is kept by every step of a handler, as long as there are no more blocks
\* than attempts: the handler that falls through has met a conflict for every block
\* there is, its own included.
LEMMA InvStep ==
  ASSUME IsFiniteSet(Block), Cardinality(Block) <= MaxTry
  PROVE  RetryInv /\ [Next]_vars => RetryInv'
<1> SUFFICES ASSUME RetryInv, [Next]_vars PROVE RetryInv'
  OBVIOUS
<1>t. TypeOK /\ TypeOK'
  BY TypeStep DEF RetryInv
<1>c. Cardinality(appended) \in Nat
  BY <1>t, FS_Subset, FS_CardinalityType DEF TypeOK
<1> DEFINE Rest == (ConflictsCounted /\ FreshIsMissing /\ ResolvedIsAppended)'
<1> USE RetryAssumption DEF RetryInv, TypeOK, ConflictsCounted, FreshIsMissing, ResolvedIsAppended
<1>1. ASSUME NEW h \in Handler, Start(h) PROVE Rest
  BY <1>1, <1>t, <1>c DEF Start
<1>2. ASSUME NEW h \in Handler, Exists(h) PROVE Rest
  BY <1>2, <1>t, <1>c DEF Exists
<1>3. ASSUME NEW h \in Handler, Commit(h) PROVE Rest
  <2>1. BlockOf[h] \in Block \ appended
    BY <1>3, <1>t DEF Commit
  <2>2. Cardinality(appended') = Cardinality(appended) + 1
    BY <2>1, <1>3, <1>t, AppendCounts DEF Commit
  <2>3. ASSUME NEW g \in Handler
        PROVE  /\ tries'[g] <= Cardinality(appended')
               /\ tries'[g] + 1 <= Cardinality(appended')
    BY <1>3, <2>2, <1>t, <1>c DEF Commit
  <2>4. ASSUME NEW g \in Handler PROVE ~(pc'[g] = "append" /\ ~stale'[g])
    BY <1>3, <1>t DEF Commit
  <2>5. ResolvedIsAppended'
    BY <1>3 DEF Commit
  <2> QED
    BY <2>3, <2>4, <2>5
<1>4. ASSUME NEW h \in Handler, Conflict(h) PROVE Rest
  BY <1>4, <1>t, <1>c DEF Conflict
<1>5. ASSUME NEW h \in Handler, FallThrough(h) PROVE Rest
  <2>1. Cardinality(Block) <= Cardinality(appended)
    BY <1>5, <1>t, <1>c, FS_CardinalityType DEF FallThrough
  <2>2. appended = Block
    <3>1. appended \in SUBSET Block
      BY <1>t
    <3> HIDE DEF RetryInv, TypeOK, ConflictsCounted, FreshIsMissing, ResolvedIsAppended
    <3> QED
      BY <2>1, <3>1, AllAppended
  <2> QED
    BY <1>5, <2>2, <1>t, <1>c DEF FallThrough
<1>6. CASE UNCHANGED vars
  BY <1>6 DEF vars
<1> QED
  BY <1>1, <1>2, <1>3, <1>4, <1>5, <1>6, <1>t DEF Next

\* With no more blocks in flight than handleBlock makes attempts, what it resolves and
\* relays is in the chain, however the appends overlap and however often the same
\* block is handled.
THEOREM EnoughAttempts ==
  ASSUME IsFiniteSet(Block), Cardinality(Block) <= MaxTry
  PROVE  Spec => []ResolvedIsAppended
<1>1. Init => RetryInv
  BY InvInit
<1>2. RetryInv /\ [Next]_vars => RetryInv'
  BY InvStep
<1>3. RetryInv => ResolvedIsAppended
  BY DEF RetryInv
<1> QED
  BY <1>1, <1>2, <1>3, PTL DEF Spec
==============================================================================
