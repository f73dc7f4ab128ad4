--------------------------------- MODULE SSI ---------------------------------
(***************************************************************************)
(* The serializable snapshot isolation database of exp/onl/ssi: a          *)
(* goroutine that owns the store and the status oracle serves NewTx and    *)
(* Commit one request at a time (DB), while any number of clients read and *)
(* write their own snapshot (Tx) without talking to it.                    *)
(*                                                                         *)
(* Transaction slots t \in Tx stand for the *Tx values clients hold.  A    *)
(* slot can be begun again at any moment: that drops the old transaction,  *)
(* which the code never has to be told about.  A transaction stays usable  *)
(* after Commit, in the code and here: it may be committed dry and then    *)
(* for real, or written to and committed once more.                        *)
(*                                                                         *)
(* Row keys are compared by their sha256 (keys.go); they are taken to be   *)
(* free of collisions.  The byte copies made by Set, Get and Add have no   *)
(* counterpart: values here are immutable.                                 *)
(***************************************************************************)
EXTENDS Naturals

CONSTANTS
  Key,      \* rows
  Val,      \* values a row can be set to
  NoVal,    \* a row that is not set
  Unread,   \* a row that a transaction has not read from its snapshot
  Tx,       \* transactions that can be in flight at the same time
  MaxTime   \* bound: no commit is granted a later time than this

ASSUME ConstantsAssumption ==
  /\ NoVal \notin Val
  /\ Unread \notin Val \cup {NoVal}
  /\ MaxTime \in Nat

Value == Val \cup {NoVal}

VARIABLES
  store,      \* DB.store
  time,       \* Oracle.time
  commits,    \* Oracle.commits; 0 for a row that was never committed
  begun,      \* the transactions in flight
  snapshot,   \* Tx.snapshot: what Get returns
  timeStart,  \* TxData.TimeStart
  timeCommit, \* TxData.TimeCommit; 0 if not committed or in conflict
  readRows,   \* TxData.ReadRows
  writeRows,  \* TxData.WriteRows; NoVal for a row that is not written
  reads,      \* history: the value a row had when it was read from the snapshot
  since       \* history: the rows committed since the transaction began

dbVars == <<store, time, commits>>
vars == <<store, time, commits, begun, snapshot, timeStart, timeCommit,
          readRows, writeRows, reads, since>>

TypeOK ==
  /\ store \in [Key -> Value]
  /\ time \in Nat \ {0}
  /\ commits \in [Key -> Nat]
  /\ begun \in SUBSET Tx
  /\ snapshot \in [Tx -> [Key -> Value]]
  /\ timeStart \in [Tx -> Nat]
  /\ timeCommit \in [Tx -> Nat]
  /\ readRows \in [Tx -> SUBSET Key]
  /\ writeRows \in [Tx -> [Key -> Value]]
  /\ reads \in [Tx -> [Key -> Value \cup {Unread}]]
  /\ since \in [Tx -> SUBSET Key]

------------------------------------------------------------------------------

NoWrites == [k \in Key |-> NoVal]
NoReads == [k \in Key |-> Unread]

\* The oracle's first time.  0 stands for a conflict.
NewOracle == 1

Init ==
  /\ store = [k \in Key |-> NoVal]
  /\ time = NewOracle
  /\ commits = [k \in Key |-> 0]
  /\ begun = {}
  /\ snapshot = [t \in Tx |-> NoWrites]
  /\ timeStart = [t \in Tx |-> 0]
  /\ timeCommit = [t \in Tx |-> 0]
  /\ readRows = [t \in Tx |-> {}]
  /\ writeRows = [t \in Tx |-> NoWrites]
  /\ reads = [t \in Tx |-> NoReads]
  /\ since = [t \in Tx |-> {}]

\* The goroutine serves a txReq: a point-in-time copy and a read timestamp.
NewTx(t) ==
  /\ begun' = begun \cup {t}
  /\ snapshot' = [snapshot EXCEPT ![t] = store]
  /\ timeStart' = [timeStart EXCEPT ![t] = time]
  /\ timeCommit' = [timeCommit EXCEPT ![t] = 0]
  /\ readRows' = [readRows EXCEPT ![t] = {}]
  /\ writeRows' = [writeRows EXCEPT ![t] = NoWrites]
  /\ reads' = [reads EXCEPT ![t] = NoReads]
  /\ since' = [since EXCEPT ![t] = {}]
  /\ UNCHANGED dbVars

\* Slip: the snapshot is the store itself.
SetShared(t, k, v) ==
  /\ t \in begun
  /\ writeRows' = [writeRows EXCEPT ![t][k] = v]
  /\ snapshot' = [snapshot EXCEPT ![t][k] = v]
  /\ store' = [store EXCEPT ![k] = v]
  /\ UNCHANGED <<time, commits, begun, timeStart, timeCommit, readRows, reads, since>>

Set(t, k, v) ==
  /\ t \in begun
  /\ writeRows' = [writeRows EXCEPT ![t][k] = v]
  /\ snapshot' = [snapshot EXCEPT ![t][k] = v]
  /\ UNCHANGED <<dbVars, begun, timeStart, timeCommit, readRows, reads, since>>

\* Slip: a row that is not set is not marked as read.
GetFound(t, k) ==
  /\ t \in begun
  /\ readRows' = [readRows EXCEPT ![t] = IF snapshot[t][k] = NoVal THEN @ ELSE @ \cup {k}]
  /\ reads' = [reads EXCEPT ![t][k] =
                 IF writeRows[t][k] = NoVal THEN snapshot[t][k] ELSE @]
  /\ UNCHANGED <<dbVars, begun, snapshot, timeStart, timeCommit, writeRows, since>>

\* Get marks the row as read even when it returns the transaction's own write;
\* only a value that comes from the store is something the transaction read.
Get(t, k) ==
  /\ t \in begun
  /\ readRows' = [readRows EXCEPT ![t] = @ \cup {k}]
  /\ reads' = [reads EXCEPT ![t][k] =
                 IF writeRows[t][k] = NoVal THEN snapshot[t][k] ELSE @]
  /\ UNCHANGED <<dbVars, begun, snapshot, timeStart, timeCommit, writeRows, since>>

KeySet(rw) == {k \in Key : rw[k] # NoVal}

\* Oracle.Commit refuses a commit that read a row committed after its start.
InConflict(t) == \E k \in readRows[t] : commits[k] > timeStart[t]

\* Slip: the time before the increment.
MarkedLate(rows) == [k \in Key |-> IF k \in rows THEN time ELSE commits[k]]

\* Oracle.Commit marks the written rows with the new time.
Marked(rows) == [k \in Key |-> IF k \in rows THEN time + 1 ELSE commits[k]]

\* Commit with something to write, granted.  A dry run takes a commit time and
\* marks the rows in the oracle, and leaves the store alone.
CommitGranted(t, dry) ==
  /\ t \in begun
  /\ KeySet(writeRows[t]) # {}
  /\ ~InConflict(t)
  /\ time < MaxTime
  /\ time' = time + 1
  /\ commits' = Marked(KeySet(writeRows[t]))
  /\ timeCommit' = [timeCommit EXCEPT ![t] = time + 1]
  /\ since' = [u \in Tx |-> since[u] \cup KeySet(writeRows[t])]
  /\ store' = [k \in Key |-> IF ~dry /\ k \in KeySet(writeRows[t])
                                THEN writeRows[t][k] ELSE store[k]]
  /\ UNCHANGED <<begun, snapshot, timeStart, readRows, writeRows, reads>>

\* Commit with something to write, refused with ErrConflict.
CommitConflict(t) ==
  /\ t \in begun
  /\ KeySet(writeRows[t]) # {}
  /\ InConflict(t)
  /\ timeCommit' = [timeCommit EXCEPT ![t] = 0]
  /\ UNCHANGED <<dbVars, begun, snapshot, timeStart, readRows, writeRows, reads, since>>

\* Commit of a transaction without write rows returns before it reaches the
\* goroutine and changes nothing; it is the stuttering step.

Next ==
  \E t \in Tx :
    \/ NewTx(t)
    \/ \E k \in Key, v \in Val : Set(t, k, v)
    \/ \E k \in Key : Get(t, k)
    \/ \E dry \in BOOLEAN : CommitGranted(t, dry)
    \/ CommitConflict(t)

Spec == Init /\ [][Next]_vars
------------------------------------------------------------------------------

\* The oracle is exact: for a transaction in flight, a row carries a commit time
\* later than the transaction's start if and only if some commit marked that row
\* after the transaction began (Oracle.Commit compares commits[r] > ts).  One
\* direction keeps stale reads out, the other keeps commits from being refused
\* without cause.
OracleExact ==
  \A t \in begun, k \in Key : commits[k] > timeStart[t] <=> k \in since[t]

\* A value that was read and whose row was not committed since is current: what
\* a grant is based on cannot be stale, however the snapshot was taken.
ReadsCurrent ==
  \A t \in begun : \A k \in Key \ since[t] : reads[t][k] \in {Unread, store[k]}

\* The granted commits, in the order in which the goroutine grants them, are a
\* serial execution: each read exactly what the ones before it left behind.
Serial == INSTANCE SerialStore WITH writes <- writeRows

Serializable == Serial!Spec
==============================================================================
