------------------------------ MODULE OnlChain -------------------------------
(***************************************************************************)
(* The block chain of exp/onl (chain.go, store.go, stakes.go): blocks that *)
(* arrive in any order are appended by several goroutines at a time, each  *)
(* in a transaction on the store; every append weighs the rounds from its  *)
(* own upwards, moves the tip and votes on its ancestry.  Blocks, stakes   *)
(* and the tip are persisted; the weights and the state of the tip live in *)
(* memory, are changed before the transaction commits, and are rebuilt by  *)
(* NewChain when the process starts.                                       *)
(*                                                                         *)
(* The blocks that will ever be received are fixed in Init (blk).  Ids are *)
(* numbered such that a block comes after its predecessor, as hashing      *)
(* makes sure; 0 is the genesis block.  What Append checks about a block   *)
(* alone, or about it and its ancestors' contents (signature, timestamp,   *)
(* rank above zero, writes that apply), is its attribute ok.  Ranks within *)
(* a round are distinct: the sort breaks ties by id.                       *)
(***************************************************************************)
EXTENDS Integers, FiniteSetsExt

CONSTANTS
  N,         \* blocks 1..N may be received
  PK,        \* proposers
  Founders,  \* those who deposit in the genesis block
  Points,    \* Chain.points: weight handed to the first rank of a round
  Universe,  \* the attributes the blocks may have
  Proc,      \* goroutines that append
  Restarts   \* whether the process may crash and start again

Genesis == 0
Block == 1..N
Id == Genesis..N
None == -1

ASSUME ChainAssumption ==
  /\ N \in Nat
  /\ Founders \subseteq PK
  /\ Points \in Nat
  /\ Restarts \in BOOLEAN
  /\ \A u \in Universe, b \in Block :
       u[b].prev \in 0..(b - 1) /\ u[b].round \in Nat /\ u[b].rank \in Nat

VARIABLES
  blk,      \* the blocks: prev, round, rank, pk, dep, seed and ok
  stored,   \* persisted: ids in the store
  votes,    \* persisted: Stakes.Votes of every block
  tip,      \* persisted: id and weight of the tip
  weights,  \* Chain.weights; None if there is none
  tstate,   \* Chain.tstate: the block whose state it is, or None
  up,       \* NewChain returned
  task,     \* what each goroutine is doing
  past      \* history: what the process has been through

vars == <<blk, stored, votes, tip, weights, tstate, up, task, past>>

Idle == [pc |-> "idle", b |-> None]

------------------------------------------------------------------------------

Prev(b) == IF b = Genesis THEN None ELSE blk[b].prev
Round(b) == IF b = Genesis THEN 0 ELSE blk[b].round
Rank(b) == IF b = Genesis THEN 1 ELSE blk[b].rank

\* Chain.walk: b and its ancestors up to the genesis block.
Walk(b) ==
  LET w[i \in Id] == IF i = Genesis THEN {Genesis} ELSE {i} \cup w[Prev(i)]
  IN w[b]

\* Write.StakeDeposits: those a block has a deposit for.
Deposits(b) == IF b = Genesis THEN Founders ELSE blk[b].dep

\* The block that Append takes the randomness for b's token from: the last one
\* the walk meets, and so the oldest, that deposits for the proposer.
DepositBlocks(b) == {a \in Walk(Prev(b)) : blk[b].pk \in Deposits(a)}

\* Everything Append requires of a block, given that its ancestors are there.
Valid(b) ==
  /\ blk[b].ok
  /\ Round(b) >= 1
  /\ DepositBlocks(b) # {}
  /\ Round(b) > Round(Prev(b))
  /\ blk[b].seed = Min(DepositBlocks(b))

------------------------------------------------------------------------------

\* A process on a store that holds nothing but the genesis block it just wrote.
Init ==
  /\ blk \in Universe
  /\ stored = {Genesis}
  /\ votes = [i \in Id |-> {}]
  /\ tip = [id |-> Genesis, w |-> 0]
  /\ weights = [i \in Id |-> None]
  /\ tstate = None
  /\ up = FALSE
  /\ task = [p \in Proc |-> Idle]
  /\ past = {}

\* Slip: the tip is not read from the store.
WeighingBlank(b, r) ==
  [pc |-> "weigh", b |-> b, blocks |-> stored \cup ({b} \ {None}), rn |-> r,
   tipw |-> tip.w, tip |-> [id |-> Genesis, w |-> 0], stale |-> FALSE]

\* What weigh works on: the transaction's view of the blocks and the tip, the tip
\* weight it compares with (read once), the tip it wrote, the round it is at.
Weighing(b, r) ==
  [pc |-> "weigh", b |-> b, blocks |-> stored \cup ({b} \ {None}), rn |-> r,
   tipw |-> tip.w, tip |-> tip, stale |-> FALSE]

\* Slip: only the rounds from the tip on are weighed after a restart.
NewChainFromTip(p) ==
  /\ ~up
  /\ \A q \in Proc : task[q] = Idle
  /\ task' = [task EXCEPT ![p] = Weighing(None, Round(tip.id))]
  /\ UNCHANGED <<blk, stored, votes, tip, weights, tstate, up, past>>

\* NewChain re-weighs everything before anything else runs.
NewChain(p) ==
  /\ ~up
  /\ \A q \in Proc : task[q] = Idle
  /\ task' = [task EXCEPT ![p] = Weighing(None, Round(Genesis))]
  /\ UNCHANGED <<blk, stored, votes, tip, weights, tstate, up, past>>

\* Slip: the predecessor need not be there.
AcceptableOrphan(b) == b \notin stored /\ Valid(b)

\* What is checked before a block is written.
Acceptable(b) == b \notin stored /\ Prev(b) \in stored /\ Valid(b)

\* Append up to tx.Write.  A block that exists, whose predecessor is not there or
\* that is not valid is refused, and nothing changes.
AppendBlock(p, b) ==
  /\ up
  /\ task[p] \in {Idle, [pc |-> "retry", b |-> b]}
  /\ Acceptable(b)
  /\ task' = [task EXCEPT ![p] = Weighing(b, Round(b))]
  /\ LET others == {task[q] : q \in Proc \ {p}} \ {Idle}
     IN past' = past \cup {e \in {"overlap"} : others # {}}
                     \cup {e \in {"twice"} : \E t \in others : t.b = b}
  /\ UNCHANGED <<blk, stored, votes, tip, weights, tstate, up>>

Position(b, blocks) ==
  Cardinality({c \in blocks : Round(c) = Round(b) /\ Rank(c) >= Rank(b)})

PrevWeight(b) == IF b = Genesis THEN 0 ELSE weights[Prev(b)]

SumWeight(b, blocks) == PrevWeight(b) + Points \div Position(b, blocks)

MoreRounds(t) == \E b \in t.blocks : Round(b) > t.rn

\* One round of weigh, under the weights lock.  The last block, by rank, that
\* weighs as much as the tip did becomes the tip.
WeighRound(p) ==
  LET t == task[p]
      round == {b \in t.blocks : Round(b) = t.rn}
      heavy == {b \in round : SumWeight(b, t.blocks) >= t.tipw}
      last == CHOOSE b \in heavy : \A c \in heavy : Rank(b) <= Rank(c)
  IN /\ t.pc = "weigh"
     /\ weights' = [i \in Id |-> IF i \in round THEN SumWeight(i, t.blocks)
                                                    ELSE weights[i]]
     /\ tstate' = IF heavy = {} THEN tstate ELSE last
     /\ task' = [task EXCEPT
          ![p].tip = IF heavy = {} THEN @ ELSE [id |-> last, w |-> SumWeight(last, t.blocks)],
          ![p].rn = @ + 1,
          ![p].pc = IF MoreRounds(t) THEN "weigh" ELSE "commit"]
     /\ UNCHANGED <<blk, stored, votes, tip, up, past>>

\* Slip: a proposer votes for its own block too.
VotesOnOwn(b) == Walk(b)

\* Chain.vote: the blocks that the proposer of b votes on.
VotesOn(b) == Walk(Prev(b))

\* Slip: conflicts are not detected.
NeverConflicting(t) == FALSE

\* badger refuses a transaction that read what another one wrote since.
Conflicting(t) == t.stale

\* vote, then commit.  Every append reads and writes the genesis block, so badger
\* lets a transaction commit only if no other one did since it started.
CommitAppend(p) ==
  LET t == task[p]
  IN /\ t.pc = "commit"
     /\ ~Conflicting(t)
     /\ stored' = stored \cup t.blocks
     /\ tip' = t.tip
     /\ votes' = [i \in Id |-> IF t.b # None /\ i \in VotesOn(t.b)
                                 THEN votes[i] \cup {blk[t.b].pk} ELSE votes[i]]
     /\ up' = TRUE
     /\ task' = [q \in Proc |-> IF q = p THEN Idle
                              ELSE IF task[q].pc \in {"weigh", "commit"}
                                THEN [task[q] EXCEPT !.stale = TRUE]
                                ELSE task[q]]
     /\ UNCHANGED <<blk, weights, tstate, past>>

\* ErrAppendConflict: the caller tries again.
ConflictAppend(p) ==
  /\ task[p].pc = "commit"
  /\ Conflicting(task[p])
  /\ task' = [task EXCEPT ![p] = [pc |-> "retry", b |-> task[p].b]]
  /\ UNCHANGED <<blk, stored, votes, tip, weights, tstate, up, past>>

\* ErrBlockExist on a retry: someone else appended the block in the meantime.
AlreadyAppended(p) ==
  /\ task[p].pc = "retry"
  /\ task[p].b \in stored
  /\ task' = [task EXCEPT ![p] = Idle]
  /\ UNCHANGED <<blk, stored, votes, tip, weights, tstate, up, past>>

\* The process dies: what is in memory, and every open transaction, is gone.
Crash ==
  /\ Restarts
  /\ up
  /\ up' = FALSE
  /\ task' = [p \in Proc |-> Idle]
  /\ weights' = [i \in Id |-> None]
  /\ tstate' = None
  /\ past' = {"crash"}
  /\ UNCHANGED <<blk, stored, votes, tip>>

Next ==
  \/ \E p \in Proc :
       \/ NewChain(p)
       \/ \E b \in Block : AppendBlock(p, b)
       \/ WeighRound(p)
       \/ CommitAppend(p)
       \/ ConflictAppend(p)
       \/ AlreadyAppended(p)
  \/ Crash

Spec == Init /\ [][Next]_vars

------------------------------------------------------------------------------

\* No goroutine is in the middle of an append.
Quiet == up /\ \A p \in Proc : task[p] = Idle

\* What a block weighs: the points of its position in its round, and of its
\* ancestors' positions in theirs.
Weight(b) ==
  LET w[i \in Id] == Points \div Position(i, stored)
                       + (IF i = Genesis THEN 0 ELSE w[Prev(i)])
  IN w[b]

\* Chain.walk relies on it: the tip is stored, and so is the predecessor of every
\* stored block, in an earlier round.  A conflict, or a crash at any point, leaves
\* no dangling block behind.
ChainClosed ==
  /\ tip.id \in stored
  /\ \A b \in stored \ {Genesis} : Prev(b) \in stored /\ Round(Prev(b)) < Round(b)

\* Chain.vote: a block carries the votes of exactly those who proposed a stored
\* descendant of it.  No vote is lost when appends overlap and none survives an
\* append that did not commit.
VotesExact ==
  \A a \in stored :
    votes[a] = {blk[d].pk : d \in {b \in stored \ {a} : a \in Walk(b)}}

\* What the store holds after any overlapping appends, conflicts and crashes is a
\* closed chain with exactly its votes (Append, vote).
StoreConsistent == ChainClosed /\ VotesExact

\* weigh leaves weights in memory before it commits, computed from a transaction
\* that may not see its rivals.  Once the appends that overlapped are through, the
\* weights are those of the blocks that are stored, also after a restart, unless two
\* goroutines appended the same block at a time: the one that then finds the block
\* stored does not weigh again.  Meanwhile weigh never meets a block whose predecessor
\* has no weight.
WeightsExact ==
  /\ Quiet /\ "twice" \notin past => \A b \in stored : weights[b] = Weight(b)
  /\ \A p \in Proc : task[p].pc = "weigh" =>
       \A b \in task[p].blocks : Round(b) = task[p].rn => PrevWeight(b) # None

\* As long as no append overlapped with another one and the process has not been
\* restarted, the state that View and Update read is the one of the tip.
ViewOfTipAlone == Quiet /\ past = {} => tstate = tip.id

\* chain.go:184: View reads "from the key-value state of the current tip".
ViewOfTip == Quiet => tstate = tip.id
==============================================================================
