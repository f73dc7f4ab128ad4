-------------------------------- MODULE TopN ---------------------------------
(***************************************************************************)
(* The topn design (topn/chain.go, round.go, identity.go): rounds advance  *)
(* by a clock of their own, each identity has one block in a round, blocks *)
(* of a round are ranked and share its points by their position.           *)
(*                                                                         *)
(* A token depends on the identity and the previous block only; tokens and *)
(* keys are genuine.  The balance of everyone is 1 and the threshold 0, as *)
(* in the code; the transactions of a block are not looked at.             *)
(***************************************************************************)
EXTENDS Integers, SequencesExt, FiniteSetsExt

CONSTANTS
  PK,         \* identities
  Tokens,     \* token values, zero is too low
  Points,     \* points handed out in a round
  MaxRound,   \* bound on rounds
  MaxBlocks,  \* bound on blocks minted
  MaxPending  \* bound on blocks minted and not in the chain

VARIABLES
  minted,   \* blocks minted by the identities; block n is minted[n]
  blocks,   \* ids of the blocks in each round; 0 is the genesis block
  curr,     \* the current round
  weights,  \* weights that were assigned
  tip,
  tipw,     \* weight of the tip when it was chosen
  start,    \* tip when the current round started
  sync      \* so far blocks came in their own round and built on its start

vars == <<minted, blocks, curr, weights, tip, tipw, start, sync>>

Genesis == 0
AllBlocks == UNION {blocks[r] : r \in 0..curr}

Round(id) == IF id = Genesis THEN 0 ELSE minted[id].round
Rank(id) == minted[id].token

\* read: the weight of a block that has none yet is zero.
Weight(ws, id) == IF id \in DOMAIN ws THEN ws[id] ELSE 0

Init ==
  /\ minted = <<>>
  /\ blocks = [r \in 0..MaxRound |-> IF r = 0 THEN {Genesis} ELSE {}]
  /\ curr = 1
  /\ weights = <<>>
  /\ tip = Genesis /\ tipw = 0
  /\ start = Genesis /\ sync = TRUE

Advance ==
  /\ curr < MaxRound
  /\ curr' = curr + 1
  /\ start' = tip
  /\ UNCHANGED <<minted, blocks, weights, tip, tipw, sync>>

\* Anyone mints on any block for any round; the vrf gives one token for an
\* identity and a previous block, and no two pairs share one.
Mint(round, prev, pk) ==
  /\ Len(minted) < MaxBlocks
  /\ Len(minted) - (Cardinality(AllBlocks) - 1) < MaxPending
  /\ \E token \in Tokens :
       /\ \A m \in DOMAIN minted :
            (minted[m].token = token) <=> (minted[m].pk = pk /\ minted[m].prev = prev)
       /\ LET b == [round |-> round, prev |-> prev, pk |-> pk, token |-> token]
          IN  /\ b \notin ToSet(minted)
              /\ minted' = Append(minted, b)
  /\ UNCHANGED <<blocks, curr, weights, tip, tipw, start, sync>>

Ranked(bs) == SetToSortSeq(bs, LAMBDA x, y : Rank(x) > Rank(y))

\* Slip: an equal weight does not replace the tip.
TipOrStrict(s, id, sumw) ==
  IF sumw > s.tipw THEN [tip |-> id, w |-> sumw] ELSE [tip |-> s.tip, w |-> s.tipw]

\* Slip: the weight of the new tip is not kept.
TipOrWeightless(s, id, sumw) ==
  IF sumw >= s.tipw THEN [tip |-> id, w |-> s.tipw] ELSE [tip |-> s.tip, w |-> s.tipw]

TipOr(s, id, sumw) ==
  IF sumw >= s.tipw THEN [tip |-> id, w |-> sumw] ELSE [tip |-> s.tip, w |-> s.tipw]

\* One round of the loop in Append: rank its blocks and weigh them in order.
Reweigh(rn, st) ==
  LET r == Ranked(blocks'[rn])
      step(s, pos) ==
        LET sumw == Weight(s.weights, minted[r[pos]].prev) + Points \div pos
            t    == TipOr(s, r[pos], sumw)
        IN  [weights |-> [b \in DOMAIN s.weights \cup {r[pos]} |->
                            IF b = r[pos] THEN sumw ELSE s.weights[b]],
             tip |-> t.tip, tipw |-> t.w]
  IN  FoldLeft(step, st, [pos \in 1..Len(r) |-> pos])

\* Slip: re-ranking starts at the current round.
ReweighRoundsLast(round) == <<curr>>

ReweighRounds(round) == [k \in 1..(curr - round + 1) |-> round + k - 1]

SawIdentity(pk, bs) == \E b \in bs : minted[b].pk = pk

AppendBlock(id) ==
  LET b == minted[id]
  IN  /\ b.round >= 1
      /\ b.round > Round(b.prev)
      /\ b.round <= curr
      /\ b.prev \in blocks[Round(b.prev)]
      /\ Rank(id) > 0
      /\ id \notin blocks[b.round]
      /\ ~SawIdentity(b.pk, blocks[b.round])
      /\ blocks' = [blocks EXCEPT ![b.round] = @ \cup {id}]
      /\ LET st == FoldLeft(LAMBDA s, rn : Reweigh(rn, s),
                            [weights |-> weights, tip |-> tip, tipw |-> tipw],
                            ReweighRounds(b.round))
         IN  /\ weights' = st.weights
             /\ tip' = st.tip
             /\ tipw' = st.tipw
      /\ sync' = (sync /\ b.round = curr /\ b.prev = start)
      /\ UNCHANGED <<minted, curr, start>>

Next ==
  \/ Advance
  \/ \E round \in 0..MaxRound, prev \in 0..Len(minted), pk \in PK :
       prev \in AllBlocks /\ Mint(round, prev, pk)
  \/ \E id \in DOMAIN minted : AppendBlock(id)

Spec == Init /\ [][Next]_vars

------------------------------------------------------------------------------
\* Whatever order blocks arrive in, the weights that Append assigns from the
\* block's round on are those of ranking every round anew: a block's weight is
\* what its round gives its position, on top of its previous block's weight.
WeightsExact ==
  \A b \in AllBlocks \ {Genesis} :
    LET better == {c \in blocks[Round(b)] : Rank(c) >= Rank(b)}
    IN  Weight(weights, b) =
          Weight(weights, minted[b].prev) + Points \div Cardinality(better)

\* tipw is a high mark that no known block exceeds, and that a block which was
\* made lighter by a late arrival may hold long after.
TipwIsHighMark ==
  /\ \A b \in AllBlocks : Weight(weights, b) <= tipw
  /\ Weight(weights, tip) <= tipw

\* While every block arrives in its round and builds on the tip that the round
\* started with, the tip is a straight line through the top ranking blocks
\* (TestSyncConsensus): every block on it is the best of its round.
SyncStraightLine ==
  sync => /\ Weight(weights, tip) = tipw
          /\ tipw = Points * Cardinality({r \in 1..curr : blocks[r] # {}})
          /\ tip # Genesis =>
               \A c \in blocks[Round(tip)] : Rank(c) <= Rank(tip)
==============================================================================
