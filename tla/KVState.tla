------------------------------- MODULE KVState -------------------------------
(***************************************************************************)
(* The key-value state behind a block chain (exp/onl/state.go, kv.go,      *)
(* write.go) and the choice of writes for a block (engine/mempool.go).     *)
(*                                                                         *)
(* An update runs a function of kv.go on a snapshot of one state and       *)
(* yields a write: the rows it read, the absolute values it writes, and    *)
(* the read timestamp of the state it was made on.  The write travels; it  *)
(* is applied later, to the state of whatever block chain it ends up on.   *)
(* The states are branches that fork after the genesis block; the field    *)
(* "on" of a write is history, the branch it was made on.                  *)
(*                                                                         *)
(* A stake row stands for itself and for the token key row that is set and *)
(* read with it.                                                           *)
(***************************************************************************)
EXTENDS Integers, SequencesExt, FiniteSetsExt

CONSTANTS
  State,      \* branches of the chain, each with its key-value state
  Id,         \* identities
  Start,      \* balance of every identity in the genesis block
  Amount,     \* amounts that are transferred or deposited
  Word,       \* uint64 arithmetic is modulo Word
  Nonce,      \* nonces of the writes that are made; bounds their number
  MaxWrites   \* maxw: writes per block

None == -1    \* a row that is not set

bal(i) == <<"_balance", i>>
stake(i) == <<"_stake", i>>

Row == {"_balance", "_stake"} \X Id

VARIABLES
  state,    \* the state of every branch: its ssi database, the nonces it applied
  pool      \* the writes that were made: the mempool

vars == <<state, pool>>

\* Every branch starts with the one genesis write, which pays every identity.
Genesis ==
  [store |-> [r \in Row |-> IF r[1] = "_balance" THEN Start ELSE None],
   time |-> 2,
   commits |-> [r \in Row |-> IF r[1] = "_balance" THEN 2 ELSE 0],
   applied |-> {}]

Init ==
  /\ state = [s \in State |-> Genesis]
  /\ pool = {}

------------------------------------------------------------------------------
\* The functions of kv.go, as the rows they set given the rows of a snapshot.

NoChange == [r \in Row |-> None]

Credit(store, to, amount) ==
  IF store[bal(to)] = None THEN amount ELSE (store[bal(to)] + amount) % Word

CoinbaseTransfer(store, to, amount) ==
  [NoChange EXCEPT ![bal(to)] = Credit(store, to, amount)]

TransferCurrency(store, from, to, amount) ==
  IF from = to \/ store[bal(from)] = None \/ store[bal(from)] < amount
    THEN NoChange
    ELSE [CoinbaseTransfer(store, to, amount)
            EXCEPT ![bal(from)] = store[bal(from)] - amount]

\* Slip: a second deposit gives the first one back and replaces it.
DepositAgain(store, owner, amount) ==
  LET back == IF store[stake(owner)] = None THEN 0 ELSE store[stake(owner)]
  IN  IF store[bal(owner)] = None \/ store[bal(owner)] < amount
        THEN NoChange
        ELSE [NoChange EXCEPT ![bal(owner)] = store[bal(owner)] + back - amount,
                              ![stake(owner)] = amount]

DepositStake(store, owner, amount) ==
  IF \/ store[bal(owner)] = None
     \/ store[bal(owner)] < amount
     \/ store[stake(owner)] # None
    THEN NoChange
    ELSE [NoChange EXCEPT ![bal(owner)] = store[bal(owner)] - amount,
                          ![stake(owner)] = amount]

KeySet(wr) == {r \in Row : wr[r] # None}

\* State.Update: without write rows there is no write.  Whatever is written by
\* the functions above was read before, and they read nothing else.
Update(s, n, wr) ==
  /\ n \notin {w.nonce : w \in pool}
  /\ KeySet(wr) # {}
  /\ pool' = pool \cup {[nonce |-> n, on |-> s,
                         timeStart |-> state[s].time,
                         readRows |-> KeySet(wr),
                         writeRows |-> wr]}
  /\ UNCHANGED state

------------------------------------------------------------------------------

\* Slip: only the nonce is checked.
AcceptsNew(d, w) ==
  w.nonce \notin d.applied

\* What State.Apply checks: the nonce, and the oracle of this state.
Accepts(d, w) ==
  /\ w.nonce \notin d.applied
  /\ \A r \in w.readRows : d.commits[r] <= w.timeStart

\* Slip: a dry run leaves the oracle alone, so that Pick no longer sees conflicts.
AppliedPretended(d, w, dry) ==
  [store |-> [r \in Row |-> IF ~dry /\ r \in KeySet(w.writeRows)
                              THEN w.writeRows[r] ELSE d.store[r]],
   time |-> d.time + 1,
   commits |-> [r \in Row |-> IF ~dry /\ r \in KeySet(w.writeRows) THEN d.time + 1
                                                          ELSE d.commits[r]],
   applied |-> IF dry THEN d.applied ELSE d.applied \cup {w.nonce}]

\* A dry run leaves the data and the nonces alone, but not the oracle.
Applied(d, w, dry) ==
  [store |-> [r \in Row |-> IF ~dry /\ r \in KeySet(w.writeRows)
                              THEN w.writeRows[r] ELSE d.store[r]],
   time |-> d.time + 1,
   commits |-> [r \in Row |-> IF r \in KeySet(w.writeRows) THEN d.time + 1
                                                          ELSE d.commits[r]],
   applied |-> IF dry THEN d.applied ELSE d.applied \cup {w.nonce}]

Apply(s, w) ==
  /\ Accepts(state[s], w)
  /\ state' = [state EXCEPT ![s] = Applied(@, w, FALSE)]
  /\ UNCHANGED pool

\* MemPool.Pick tries the writes in the order in which the map yields them, dry
\* and on a state of its own, and keeps the first MaxWrites that are accepted.
Pick(d, order) ==
  FoldLeft(LAMBDA p, w :
             IF Len(p.picked) < MaxWrites /\ Accepts(p.d, w)
               THEN [d |-> Applied(p.d, w, TRUE), picked |-> Append(p.picked, w)]
               ELSE p,
           [d |-> d, picked |-> <<>>], order).picked

\* Chain.Append applies the writes of a block in order; one error refuses it.
ApplyAll(d, ws) ==
  FoldLeft(LAMBDA p, w : IF p.ok /\ Accepts(p.d, w)
                           THEN [ok |-> TRUE, d |-> Applied(p.d, w, FALSE)]
                           ELSE [ok |-> FALSE, d |-> p.d],
           [ok |-> TRUE, d |-> d], ws)

\* A member mints a block on the tip of a branch and appends it.
AppendBlock(s, order) ==
  LET r == ApplyAll(state[s], Pick(state[s], order))
  IN /\ r.ok
     /\ state' = [state EXCEPT ![s] = r.d]
     /\ UNCHANGED pool

Next ==
  \E s \in State :
    \/ \E n \in Nonce, a \in Amount, i \in Id :
         \/ \E j \in Id : Update(s, n, TransferCurrency(state[s].store, i, j, a))
         \/ Update(s, n, DepositStake(state[s].store, i, a))
    \/ \E w \in pool : Apply(s, w)
    \/ \E order \in SetToSeqs(pool) : AppendBlock(s, order)

Spec == Init /\ [][Next]_vars

------------------------------------------------------------------------------

\* All currency of a state: what its identities hold and what they staked.
Currency(d) ==
  MapThenSumSet(LAMBDA r : IF d.store[r] = None THEN 0 ELSE d.store[r], Row)

\* A write that was made on another branch is in the state.  Its read timestamp is
\* one of the other branch's oracle, and means nothing to the oracle of this one.
Foreign(s) == \E w \in pool : w.nonce \in state[s].applied /\ w.on # s

\* kv_test.go:87-90 (TestMultipleStateKVFuzzing): operations performed "on any of a
\* set of states" end "in a consistent view of the data" once they are applied, with
\* no currency missing.  A write that was made on an older state of the branch must
\* not overwrite what it has not seen.
CurrencyConserved ==
  \A s \in State : ~Foreign(s) => Currency(state[s]) = Cardinality(Id) * Start

\* DepositStake sets a stake once; later writes, made when the stake was not there
\* yet, do not change it any more.
StakeSetOnce ==
  [][\A s \in State, i \in Id :
       state[s].store[stake(i)] # None /\ ~Foreign(s)' =>
         state'[s].store[stake(i)] = state[s].store[stake(i)]]_vars

\* The writes Pick keeps after a dry run on the state of the tip can be appended to
\* that tip in the same order, foreign ones included: a member's own block is not
\* refused by Apply.
PickedWritesApply ==
  \A s \in State, order \in SetToSeqs(pool) :
    ApplyAll(state[s], Pick(state[s], order)).ok
==============================================================================
