------------------------------ MODULE SSIProofs ------------------------------
(***************************************************************************)
(* Proofs about SSI, for any rows, values and number of transactions: the  *)
(* oracle is exact, what a grant relies on is current, and the granted     *)
(* commits are a serial execution.                                         *)
(***************************************************************************)
EXTENDS SSI, TLAPS

\* No time the oracle handed out lies ahead of its clock.
TimesBounded ==
  /\ \A k \in Key : commits[k] <= time
  /\ \A t \in Tx : timeStart[t] <= time

\* A snapshot agrees with the store on the rows that neither the transaction
\* itself wrote nor anyone committed since it began.
SnapshotCurrent ==
  \A t \in begun : \A k \in Key \ since[t] :
    writeRows[t][k] = NoVal => snapshot[t][k] = store[k]

\* Everything that was read is recorded as read: this is what the oracle sees.
ReadsRecorded ==
  \A t \in begun : \A k \in Key : reads[t][k] # Unread => k \in readRows[t]

\* The inductive invariant.
SSIInv ==
  /\ TypeOK
  /\ TimesBounded
  /\ OracleExact
  /\ SnapshotCurrent
  /\ ReadsCurrent
  /\ ReadsRecorded

------------------------------------------------------------------------------

\* The variables keep their types: one step of the type invariant, used below.
LEMMA TypeStep == TypeOK /\ [Next]_vars => TypeOK'
<1> USE DEF Value, NoWrites, NoReads
<1> SUFFICES ASSUME TypeOK, [Next]_vars PROVE TypeOK'
  OBVIOUS
<1>1. ASSUME NEW t \in Tx, NewTx(t) PROVE TypeOK'
  BY <1>1 DEF TypeOK, NewTx, dbVars
<1>2. ASSUME NEW t \in Tx, NEW k \in Key, NEW v \in Val, Set(t, k, v) PROVE TypeOK'
  <2>1. writeRows' \in [Tx -> [Key -> Value]]
    BY <1>2 DEF TypeOK, Set
  <2>2. snapshot' \in [Tx -> [Key -> Value]]
    BY <1>2 DEF TypeOK, Set
  <2>3. QED
    BY <1>2, <2>1, <2>2 DEF TypeOK, Set, dbVars
<1>3. ASSUME NEW t \in Tx, NEW k \in Key, Get(t, k) PROVE TypeOK'
  <2>1. reads' \in [Tx -> [Key -> Value \cup {Unread}]]
    BY <1>3 DEF TypeOK, Get
  <2>2. readRows' \in [Tx -> SUBSET Key]
    BY <1>3 DEF TypeOK, Get
  <2>3. QED
    BY <1>3, <2>1, <2>2 DEF TypeOK, Get, dbVars
<1>4. ASSUME NEW t \in Tx, NEW dry \in BOOLEAN, CommitGranted(t, dry) PROVE TypeOK'
  <2>1. time' \in Nat \ {0} /\ commits' \in [Key -> Nat]
    BY <1>4 DEF TypeOK, CommitGranted, Marked
  <2>2. store' \in [Key -> Value] /\ since' \in [Tx -> SUBSET Key]
    BY <1>4 DEF TypeOK, CommitGranted, Marked, KeySet
  <2>3. timeCommit' \in [Tx -> Nat]
    BY <1>4 DEF TypeOK, CommitGranted, Marked
  <2>4. QED
    BY <1>4, <2>1, <2>2, <2>3 DEF TypeOK, CommitGranted, Marked
<1>5. ASSUME NEW t \in Tx, CommitConflict(t) PROVE TypeOK'
  BY <1>5 DEF TypeOK, CommitConflict, dbVars
<1>6. CASE UNCHANGED vars
  BY <1>6 DEF TypeOK, vars
<1>7. QED
  BY <1>1, <1>2, <1>3, <1>4, <1>5, <1>6 DEF Next

\* The invariant holds initially: no transaction has begun.
LEMMA InvInit == Init => SSIInv
<1> SUFFICES ASSUME Init PROVE SSIInv
  OBVIOUS
<1>1. TypeOK
  BY DEF Init, NewOracle, TypeOK, Value, NoWrites, NoReads
<1>2. QED
  BY <1>1 DEF Init, NewOracle, SSIInv, TimesBounded, OracleExact, SnapshotCurrent,
              ReadsCurrent, ReadsRecorded

\* Every step preserves the invariant.  Beginning a transaction aligns it with
\* the store and the clock; a grant marks the rows it writes for everyone in
\* flight, so no other transaction can rely on them any more.
LEMMA InvStep == SSIInv /\ [Next]_vars => SSIInv'
<1> SUFFICES ASSUME SSIInv, [Next]_vars PROVE SSIInv'
  OBVIOUS
<1> TypeOK /\ TypeOK'
  BY TypeStep DEF SSIInv
<1>1. ASSUME NEW t \in Tx, NewTx(t) PROVE SSIInv'
  <2> USE <1>1 DEF NewTx, dbVars, TypeOK
  <2>1. TimesBounded'
    BY DEF SSIInv, TimesBounded
  <2>2. OracleExact'
    BY DEF SSIInv, OracleExact, TimesBounded
  <2>3. SnapshotCurrent'
    BY DEF SSIInv, SnapshotCurrent
  <2>4. ReadsCurrent' /\ ReadsRecorded'
    BY DEF SSIInv, ReadsCurrent, ReadsRecorded, NoReads
  <2>5. QED
    BY <2>1, <2>2, <2>3, <2>4 DEF SSIInv
<1>2. ASSUME NEW t \in Tx, NEW k \in Key, NEW v \in Val, Set(t, k, v) PROVE SSIInv'
  <2> USE <1>2 DEF Set, dbVars, TypeOK
  <2>1. TimesBounded' /\ OracleExact'
    BY DEF SSIInv, TimesBounded, OracleExact
  <2>2. SnapshotCurrent'
    BY ConstantsAssumption DEF SSIInv, SnapshotCurrent
  <2>3. ReadsCurrent' /\ ReadsRecorded'
    BY DEF SSIInv, ReadsCurrent, ReadsRecorded
  <2>4. QED
    BY <2>1, <2>2, <2>3 DEF SSIInv
<1>3. ASSUME NEW t \in Tx, NEW k \in Key, Get(t, k) PROVE SSIInv'
  <2> USE <1>3 DEF Get, dbVars, TypeOK
  <2>1. TimesBounded' /\ OracleExact' /\ SnapshotCurrent'
    BY DEF SSIInv, TimesBounded, OracleExact, SnapshotCurrent
  <2>2. ReadsCurrent'
    BY DEF SSIInv, ReadsCurrent, SnapshotCurrent
  <2>3. ReadsRecorded'
    BY DEF SSIInv, ReadsRecorded
  <2>4. QED
    BY <2>1, <2>2, <2>3 DEF SSIInv
<1>4. ASSUME NEW t \in Tx, NEW dry \in BOOLEAN, CommitGranted(t, dry) PROVE SSIInv'
  <2> USE <1>4 DEF CommitGranted, Marked, TypeOK
  <2>1. TimesBounded'
    BY DEF SSIInv, TimesBounded
  <2>2. OracleExact'
    BY DEF SSIInv, TimesBounded, OracleExact, KeySet
  <2>3. SnapshotCurrent'
    BY DEF SSIInv, SnapshotCurrent
  <2>4. ReadsCurrent' /\ ReadsRecorded'
    BY DEF SSIInv, ReadsCurrent, ReadsRecorded
  <2>5. QED
    BY <2>1, <2>2, <2>3, <2>4 DEF SSIInv
<1>5. ASSUME NEW t \in Tx, CommitConflict(t) PROVE SSIInv'
  BY <1>5 DEF SSIInv, CommitConflict, dbVars, TimesBounded, OracleExact,
              SnapshotCurrent, ReadsCurrent, ReadsRecorded
<1>6. CASE UNCHANGED vars
  BY <1>6 DEF SSIInv, vars, TimesBounded, OracleExact, SnapshotCurrent,
              ReadsCurrent, ReadsRecorded
<1>7. QED
  BY <1>1, <1>2, <1>3, <1>4, <1>5, <1>6 DEF Next

------------------------------------------------------------------------------

\* In every reachable state the inductive invariant holds, and with it the type
\* invariant, the exactness of the oracle and the currency of what was read.
THEOREM Invariance == Spec => []SSIInv
  BY InvInit, InvStep, PTL DEF Spec

\* TypeOK holds in every reachable state.
THEOREM TypeCorrect == Spec => []TypeOK
<1>1. SSIInv => TypeOK
  BY DEF SSIInv
<1>2. QED
  BY <1>1, Invariance, PTL

\* A row looks committed after a transaction's start exactly when it was.
THEOREM OracleIsExact == Spec => []OracleExact
<1>1. SSIInv => OracleExact
  BY DEF SSIInv
<1>2. QED
  BY <1>1, Invariance, PTL

\* What was read from a row nobody committed since is what the store holds.
THEOREM ReadsAreCurrent == Spec => []ReadsCurrent
<1>1. SSIInv => ReadsCurrent
  BY DEF SSIInv
<1>2. QED
  BY <1>1, Invariance, PTL

------------------------------------------------------------------------------

\* A granted commit finds every value it read unchanged in the store, so it is a
\* serial execution step; a dry run leaves the store as it is.
LEMMA GrantIsSerial ==
  ASSUME SSIInv, NEW t \in Tx, NEW dry \in BOOLEAN, CommitGranted(t, dry)
  PROVE  Serial!Execute(t) \/ Serial!Prepare
<1> USE DEF SSIInv, TypeOK
<1>1. CASE dry
  BY <1>1 DEF CommitGranted, Serial!Prepare, Serial!Value, Value
<1>2. CASE ~dry
  <2>1. ASSUME NEW k \in Key PROVE reads[t][k] \in {Unread, store[k]}
    <3>1. CASE k \in readRows[t]
      <4>1. ~(commits[k] > timeStart[t])
        BY <3>1 DEF CommitGranted, InConflict
      <4>2. k \notin since[t]
        BY <4>1 DEF OracleExact, CommitGranted
      <4>3. QED
        BY <4>2 DEF ReadsCurrent, CommitGranted
    <3>2. CASE k \notin readRows[t]
      BY <3>2 DEF ReadsRecorded, CommitGranted
    <3>3. QED
      BY <3>1, <3>2
  <2>2. store' = [k \in Key |-> IF writeRows[t][k] = NoVal THEN store[k]
                                                          ELSE writeRows[t][k]]
    BY <1>2 DEF CommitGranted, KeySet
  <2>3. UNCHANGED <<reads, writeRows>>
    BY DEF CommitGranted
  <2>4. QED
    BY <2>1, <2>2, <2>3 DEF Serial!Execute
<1>3. QED
  BY <1>1, <1>2

\* The database implements a store on which transactions execute one at a time.
THEOREM SSIIsSerializable == Spec => Serializable
<1>1. Init => Serial!Init
  BY DEF Init, Serial!Init, NoReads, NoWrites
<1>2. SSIInv /\ SSIInv' /\ [Next]_vars => [Serial!Next]_(Serial!vars)
  <2> SUFFICES ASSUME SSIInv, SSIInv', [Next]_vars
               PROVE  Serial!Next \/ UNCHANGED <<store, reads, writeRows>>
    BY DEF Serial!vars
  <2>1. UNCHANGED store => Serial!Prepare
    BY DEF SSIInv, TypeOK, Serial!Prepare, Serial!Value, Value
  <2>2. ASSUME NEW t \in Tx, NEW dry \in BOOLEAN, CommitGranted(t, dry)
        PROVE  Serial!Next
    BY <2>2, GrantIsSerial DEF Serial!Next
  <2>3. ASSUME NEW t \in Tx, NewTx(t) PROVE UNCHANGED store
    BY <2>3 DEF NewTx, dbVars
  <2>4. ASSUME NEW t \in Tx, NEW k \in Key, NEW v \in Val, Set(t, k, v)
        PROVE  UNCHANGED store
    BY <2>4 DEF Set, dbVars
  <2>5. ASSUME NEW t \in Tx, NEW k \in Key, Get(t, k) PROVE UNCHANGED store
    BY <2>5 DEF Get, dbVars
  <2>6. ASSUME NEW t \in Tx, CommitConflict(t) PROVE UNCHANGED store
    BY <2>6 DEF CommitConflict, dbVars
  <2>7. QED
    BY <2>1, <2>2, <2>3, <2>4, <2>5, <2>6 DEF Next, Serial!Next, vars
<1>3. QED
  BY <1>1, <1>2, Invariance, PTL DEF Spec, Serializable, Serial!Spec
==============================================================================
