------------------------------- MODULE BChain --------------------------------
(***************************************************************************)
(* The chain of the btree design (btree/bchain/chain.go, block.go) on its  *)
(* database of three buckets (bcdb/bolt.go): block headers, weights, and   *)
(* the tip with its weight.  Append is one update of the database.  Mint   *)
(* reads the database and hands out a block that its caller signs later;   *)
(* Walk reads it once for every block it visits, while others append.      *)
(*                                                                         *)
(* A ticket depends on the proposer and the ticket of the previous block;  *)
(* an identity may propose any number of blocks for a round.               *)
(***************************************************************************)
EXTENDS Integers, SequencesExt, FiniteSetsExt

CONSTANTS
  PK,         \* identities
  Tokens,     \* ticket values
  Points,     \* points handed out in a round
  MaxRound,   \* bound on rounds
  MaxBlocks,  \* bound on blocks minted
  MaxPending, \* bound on blocks minted and not in the chain
  MaxWalked   \* bound on blocks minted when a walk starts

VARIABLES
  minted,   \* blocks given out by Mint: block n is minted[n], 0 is the genesis
  stored,   \* bucket of block headers, by id
  weights,  \* bucket of weights
  tip,      \* bucket of the tip: its id and its weight
  walk      \* a walk: the block it visits next, and those it has visited

vars == <<minted, stored, weights, tip, walk>>

Genesis == 0
NilBID == -1
NoToken == -1

Hdr(id) == IF id = Genesis
           THEN [prev |-> NilBID, round |-> 0, pk |-> NilBID, token |-> NoToken]
           ELSE minted[id]

\* ReadWeight: a block without a weight reads as zero.
ReadWeight(ws, id) == IF id \in DOMAIN ws THEN ws[id] ELSE 0

\* NewChain on an empty database, or again on one that holds the genesis block.
Init ==
  /\ minted = <<>>
  /\ stored = {Genesis}
  /\ weights = <<>>
  /\ tip = [id |-> Genesis, w |-> Points]
  /\ walk = [at |-> NilBID, seen |-> <<Genesis>>]

\* Mint on the given block or on the tip, and the signing of the result for any
\* round that the caller likes.
Mint(prev, round, pk) ==
  LET on    == IF prev = NilBID THEN tip.id ELSE prev
      ticket(m) == <<minted[m].pk, Hdr(minted[m].prev).token>>
  IN  /\ Len(minted) < MaxBlocks
      /\ Len(minted) - (Cardinality(stored) - 1) < MaxPending
      /\ on \in stored
      /\ \E token \in Tokens :
           /\ \A m \in DOMAIN minted :
                (minted[m].token = token) <=> (ticket(m) = <<pk, Hdr(on).token>>)
           /\ minted' = Append(minted, [prev |-> on, round |-> round,
                                        pk |-> pk, token |-> token])
      /\ UNCHANGED <<stored, weights, tip, walk>>

------------------------------------------------------------------------------
CheckAgainstPrev(b, prev) == b.round > prev.round

\* EachBlock groups the keys, which begin with the round, into rounds.
EachBlock(ids) == {r \in 0..MaxRound : \E id \in ids : Hdr(id).round = r}

\* The sort that longestChain gives to a round; blocks with the same ticket stay
\* in the order of their keys.
Ranked(ids) ==
  SetToSortSeq(ids, LAMBDA x, y :
    \/ Hdr(x).token > Hdr(y).token
    \/ Hdr(x).token = Hdr(y).token /\ x < y)

\* Slip: the weight of the previous block is the one of before the update.
PrevWeightBefore(now, id) == ReadWeight(weights, id)

PrevWeight(now, id) == ReadWeight(now, id)

\* Slip: the new tip is stored with the weight of the old one.
ChooseTipOldWeight(t, id, sumw) == IF sumw >= t.w THEN [t EXCEPT !.id = id] ELSE t

ChooseTip(t, id, sumw) == IF sumw >= t.w THEN [id |-> id, w |-> sumw] ELSE t

\* longestChain for one round: weigh its blocks by position.
Reweigh(ids, st) ==
  LET r == Ranked(ids)
      step(s, i) ==
        LET sumw == PrevWeight(s.weights, Hdr(r[i]).prev) + Points \div i
        IN  [weights |-> [b \in DOMAIN s.weights \cup {r[i]} |->
                            IF b = r[i] THEN sumw ELSE s.weights[b]],
             tip |-> ChooseTip(s.tip, r[i], sumw)]
  IN  FoldLeft(step, st, [i \in 1..Len(r) |-> i])

\* longestChain takes the round of the new block and goes through all rounds.
longestChain(ids) ==
  FoldLeft(LAMBDA st, r : Reweigh({id \in ids : Hdr(id).round = r}, st),
           [weights |-> weights, tip |-> tip],
           SetToSortSeq(EachBlock(ids), <))

AppendBlock(id) ==
  LET b  == minted[id]
      st == longestChain(stored \cup {id})
  IN  /\ id \notin stored
      /\ b.prev \in stored
      /\ CheckAgainstPrev(b, Hdr(b.prev))
      /\ stored' = stored \cup {id}
      /\ weights' = st.weights
      /\ tip' = st.tip
      /\ UNCHANGED <<minted, walk>>

WalkOver(w) == IF w.seen = <<>> THEN FALSE ELSE Last(w.seen) = Genesis

\* Slip: the tip is read again at every step.
WalkFromTip(at) == tip.id

\* Walk begins at the tip when it is given no block.
WalkFrom(at) == IF at = NilBID THEN tip.id ELSE at

\* One step of Walk: a view of the database, then the callback.
WalkStep ==
  /\ ~WalkOver(walk)
  /\ WalkFrom(walk.at) \in stored
  /\ walk' = [at   |-> Hdr(WalkFrom(walk.at)).prev,
              seen |-> Append(walk.seen, WalkFrom(walk.at))]
  /\ UNCHANGED <<minted, stored, weights, tip>>

\* A walk from a given block, once the last one is over.
Walk(from) ==
  /\ Len(minted) <= MaxWalked
  /\ WalkOver(walk)
  /\ walk' = [at |-> from, seen |-> <<>>]
  /\ UNCHANGED <<minted, stored, weights, tip>>

Next ==
  \/ \E prev \in stored \cup {NilBID}, round \in 1..MaxRound, pk \in PK :
       Mint(prev, round, pk)
  \/ \E id \in DOMAIN minted : AppendBlock(id)
  \/ WalkStep
  \/ \E from \in stored \cup {NilBID} : Walk(from)

Spec == Init /\ [][Next]_vars

------------------------------------------------------------------------------
\* After any sequence of appends the stored weights are those of ranking all
\* rounds anew, for the genesis block too, which has no weight until the first
\* append: they depend on the blocks stored and not on their order.
WeightsExact ==
  stored # {Genesis} =>
    /\ DOMAIN weights = stored
    /\ \A b \in stored :
         LET better == {c \in stored :
               /\ Hdr(c).round = Hdr(b).round
               /\ \/ Hdr(c).token > Hdr(b).token
                  \/ Hdr(c).token = Hdr(b).token /\ c <= b}
         IN  weights[b] = ReadWeight(weights, Hdr(b).prev)
                            + Points \div Cardinality(better)

\* The weight stored with the tip is one that no block exceeds; the tip itself
\* may have become lighter since it was chosen.
TipIsHighMark ==
  /\ \A b \in stored : ReadWeight(weights, b) <= tip.w
  /\ tip.id \in stored

\* Walk visits one branch, each block on its previous one, from the block it
\* began with down to the genesis block, although it reads the database anew for
\* every block while appends move the tip.
WalkIsBranch ==
  /\ \A i \in 2..Len(walk.seen) : walk.seen[i] = Hdr(walk.seen[i - 1]).prev
  /\ ~WalkOver(walk) => walk.at \in stored \cup {NilBID}
==============================================================================
