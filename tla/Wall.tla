-------------------------------- MODULE Wall ---------------------------------
(***************************************************************************)
(* The wall design: a chain of blocks that carry transfers of unspent      *)
(* outputs (onl/wall/block.go, tr.go, utro.go, chain/chain.go).  A voter   *)
(* backs every block with a deposit: an output of its own that is still    *)
(* time locked in the block's round.  Members mint blocks on any block     *)
(* they know, and sign and append them later, in any order.                *)
(*                                                                         *)
(* Signatures hold, so that a block or transfer is as its author made it;  *)
(* a ticket is its decimal value; a block whose ticket fails the stake     *)
(* threshold is one that is signed and never appended.  The genesis block  *)
(* carries the first coin and deposit of every identity: the code leaves   *)
(* it empty and its tests put them in.                                     *)
(***************************************************************************)
EXTENDS Integers, SequencesExt, FiniteSetsExt

CONSTANTS
  Id,              \* identities
  WeightPoints,    \* weight points of a round
  Params,          \* settings: MaxDepositTTL (ttl), the round after which the
                   \* genesis deposits unlock (lock), bounds on minted blocks
                   \* (blocks), on those that carry a transfer (trs), on
                   \* those not yet appended (pending) and on their rounds
  MaxRound,        \* bound on rounds
  Word             \* uint64 arithmetic is modulo Word

VARIABLES
  params,   \* the setting of this chain
  minted,   \* every block signed so far: block n is minted[n]
  blocks,   \* ids of the blocks in the chain; 0 is the genesis block
  rounds,   \* the blocks of a round, in the order of the last sort
  idns,     \* who voted in a round
  maxr,     \* the highest round
  weights,  \* weight of a block and all before it
  tip

vars == <<params, minted, blocks, rounds, idns, maxr, weights, tip>>

Genesis == 0
NoRef == <<>>

Ref(trid, i) == Append(trid, i)

Out(amount, receiver, unlocksAfter, deposit) ==
  [amount |-> amount, receiver |-> receiver,
   deposit |-> deposit, unlocksAfter |-> unlocksAfter]

\* The id of a transfer is made from its content; the lock is not part of it.
Tr(input, sender, out) ==
  [id |-> input \o <<sender, IF out.deposit THEN 1 ELSE 0, out.receiver>>,
   inputs |-> <<input>>, outputs |-> <<out>>, sender |-> sender]

GenesisBlock ==
  [prev |-> NoRef, round |-> 0, voter |-> 0, deposit |-> NoRef, ts |-> 0,
   witness |-> {}, token |-> 0,
   transfers |-> [n \in 1..Cardinality(Id) |->
     LET i == SetToSortSeq(Id, <)[n]
     IN  [id |-> <<i>>, inputs |-> <<>>, sender |-> i,
          outputs |-> <<Out(1, i, 0, FALSE), Out(2, i, params.lock, TRUE)>>]]]

Block(id) == IF id = Genesis THEN GenesisBlock ELSE minted[id]

Init ==
  /\ params \in Params
  /\ minted = <<>>
  /\ blocks = {Genesis}
  /\ rounds = [r \in 0..MaxRound |-> IF r = 0 THEN <<Genesis>> ELSE <<>>]
  /\ idns = [r \in 0..MaxRound |-> {}]
  /\ maxr = 0
  /\ weights = [b \in {Genesis} |-> WeightPoints]
  /\ tip = Genesis

------------------------------------------------------------------------------
\* Walking the chain, and what it yields

RECURSIVE Walk(_)
Walk(id) ==
  IF id = Genesis THEN <<Genesis>> ELSE <<id>> \o Walk(Block(id).prev)

Branch(id) == ToSet(Walk(id))

OutputsOf(tr) == {<<Ref(tr.id, k - 1), tr.outputs[k]>> : k \in DOMAIN tr.outputs}

\* Slip: the inputs of the last block are not marked as spent.
indexUTROBelow(id) ==
  LET trs   == UNION {ToSet(Block(b).transfers) : b \in Branch(id)}
      below == UNION {ToSet(Block(b).transfers) : b \in Branch(id) \ {id}}
      spent == UNION {ToSet(tr.inputs) : tr \in below}
  IN  {o \in UNION {OutputsOf(tr) : tr \in trs} : o[1] \notin spent}

\* indexUTRO walks down from a block.  A transfer is after the ones it takes
\* outputs of, so an output that is consumed is met after the input that did it.
indexUTRO(id) ==
  LET trs   == UNION {ToSet(Block(b).transfers) : b \in Branch(id)}
      spent == UNION {ToSet(tr.inputs) : tr \in trs}
  IN  {o \in UNION {OutputsOf(tr) : tr \in trs} : o[1] \notin spent}

UsableDepositFor(out, round) ==
  /\ out.deposit
  /\ out.unlocksAfter > round
  /\ out.unlocksAfter - round <= params.ttl

Deposited(utro, round) ==
  FoldSet(LAMBDA o, sum : sum + o[2].amount, 0,
          {o \in utro : UsableDepositFor(o[2], round)})

\* Slip: the last block a deposit may be in is not looked at.
TooDeepEarly(b, round) == (round - b.round) % Word >= params.ttl - 1

TooDeep(b, round) == (round - b.round) % Word >= params.ttl

\* findDeposit does not stop at the block it finds a deposit in: the deposit
\* deepest in the chain is the one it returns, the first one in that block.
findDeposit(bid, round, idn) ==
  FoldLeft(
    LAMBDA found, b :
      LET usable == SelectSeq(
            FlattenSeq([t \in DOMAIN Block(b).transfers |->
              LET tr == Block(b).transfers[t]
              IN  [k \in DOMAIN tr.outputs |->
                    [ref |-> Ref(tr.id, k - 1), out |-> tr.outputs[k],
                     sender |-> tr.sender]]]),
            LAMBDA o : /\ o.sender = idn /\ o.out.receiver = idn
                       /\ UsableDepositFor(o.out, round))
      IN  IF TooDeep(Block(b), round) \/ usable = <<>>
            THEN found ELSE usable[1].ref,
    NoRef, Walk(bid))

------------------------------------------------------------------------------
\* Minting

\* The votes of the other blocks of the previous block's round.
Witness(prev) == ToSet(rounds[Block(prev).round]) \ {prev}

\* What a member may put in a block: nothing, or a transfer that consumes some
\* output of the branch, spent or not, to pay another or to deposit.
Candidates(prev, round) ==
  LET outs == UNION {OutputsOf(tr) :
                tr \in UNION {ToSet(Block(b).transfers) : b \in Branch(prev)}}
      trs  == {m \in DOMAIN minted : minted[m].transfers # <<>>}
  IN  {<<>>} \cup
      {<<Tr(o[1], o[2].receiver, Out(o[2].amount, to, lock, lock > 0))>> :
         <<o, to, lock>> \in
           {c \in outs \X Id \X {0, round + params.ttl} :
              /\ Cardinality(trs) < params.trs
              /\ (c[3] > 0) <=> (c[2] = c[1][2].receiver)}}

\* Mint and the signing of the block it returned.  Time is the caller's: a block
\* is stamped with the number of blocks signed before it.
Mint(prev, round, idn) ==
  /\ Len(minted) < params.blocks
  /\ Len(minted) - (Cardinality(blocks) - 1) < params.pending
  /\ prev \in blocks
  /\ findDeposit(prev, round, idn) # NoRef
  /\ \E trs \in Candidates(prev, round),
        token \in 1..params.blocks \ {minted[m].token : m \in DOMAIN minted} :
       LET drawn == {m \in DOMAIN minted : minted[m].voter = idn
                                           /\ minted[m].prev = prev}
           b == [prev |-> prev, round |-> round, voter |-> idn,
                 deposit |-> findDeposit(prev, round, idn),
                 ts |-> Len(minted) + 1, witness |-> Witness(prev),
                 token |-> IF drawn = {} THEN token
                           ELSE minted[CHOOSE m \in drawn : TRUE].token,
                 transfers |-> trs]
       IN  minted' = Append(minted, b)
  /\ UNCHANGED <<params, blocks, rounds, idns, maxr, weights, tip>>

------------------------------------------------------------------------------
\* Verification and appending

\* Slip: time locks are not looked at when an output is spent.
TrVerifyUnlocked(tr, round, utro) ==
  /\ tr.outputs # <<>> /\ tr.inputs # <<>>
  /\ \A in \in ToSet(tr.inputs) : \E o \in utro : o[1] = in /\ o[2].receiver = tr.sender

\* Slip: an input that is not among the unspent outputs passes.
TrVerifySpent(tr, round, utro) ==
  /\ tr.outputs # <<>> /\ tr.inputs # <<>>
  /\ \A o \in utro : o[1] \in ToSet(tr.inputs) =>
       o[2].receiver = tr.sender /\ round > o[2].unlocksAfter

\* Sums that differ do not occur: a candidate passes on what it consumes.
TrVerify(tr, round, utro) ==
  /\ tr.outputs # <<>> /\ tr.inputs # <<>>
  /\ \A in \in ToSet(tr.inputs) :
       \E o \in utro : /\ o[1] = in
                       /\ o[2].receiver = tr.sender
                       /\ round > o[2].unlocksAfter
  /\ \A out \in ToSet(tr.outputs) :
       out.deposit => (out.unlocksAfter - round) % Word <= params.ttl

VerifyAgainstPrev(b) ==
  LET p == Block(b.prev)
  IN  /\ b.round > p.round
      /\ b.ts > p.ts
      /\ \A w \in b.witness : /\ Block(w).round = p.round
                              /\ Block(w).ts < b.ts
                              /\ w # b.prev

VerifyAgainstUTRO(b, utro) ==
  /\ \E o \in utro : /\ o[1] = b.deposit
                     /\ UsableDepositFor(o[2], b.round)
                     /\ o[2].receiver = b.voter
  /\ Deposited(utro, b.round) >= 1
  /\ \A tr \in ToSet(b.transfers) : TrVerify(tr, b.round, utro)

\* Rank a round by ticket, highest first.
Sorted(round, tokens) ==
  SetToSortSeq(ToSet(round), LAMBDA x, y : tokens[x] > tokens[y])

\* Slip: only the round of the new block is weighed again.
RoundsFromOnly(n, max) == {n}

RoundsFrom(n, max) == n..max

\* selectLongestChain: rank and weigh every round from n on; the tip moves to a
\* block as soon as it weighs no less than the tip did when it was chosen.
RECURSIVE selectLongestChain(_, _, _, _)
selectLongestChain(todo, tokens, prevs, st) ==
  IF todo = {} THEN st
  ELSE
    LET rn    == Min(todo)
        round == Sorted(st.rounds[rn], tokens)
        step(s, i) ==
          LET sumw == s.weights[prevs[round[i]]] + WeightPoints \div i
          IN  [s EXCEPT !.weights[round[i]] = sumw,
                        !.tip  = IF sumw >= s.tipw THEN round[i] ELSE s.tip,
                        !.tipw = IF sumw >= s.tipw THEN sumw ELSE s.tipw]
    IN  selectLongestChain(todo \ {rn}, tokens, prevs,
          FoldLeft(step, [st EXCEPT !.rounds[rn] = round],
                   [i \in 1..Len(round) |-> i]))

\* writeBlock: only the first vote of a round can raise the highest round.
MaxRoundWith(b) ==
  IF idns[b.round] = {} /\ b.round > maxr THEN b.round ELSE maxr

TipWeight == weights[tip]

AppendBlock(id) ==
  LET b == minted[id]
  IN  /\ b.round >= 1
      /\ id \notin blocks
      /\ b.prev \in blocks
      /\ VerifyAgainstPrev(b)
      /\ b.voter \notin idns[b.round]
      /\ VerifyAgainstUTRO(b, indexUTRO(b.prev))
      /\ LET max == MaxRoundWith(b)
             all == blocks \cup {id}
             st  == selectLongestChain(RoundsFrom(b.round, max),
                      [x \in all |-> Block(x).token],
                      [x \in all \ {Genesis} |-> Block(x).prev],
                      [rounds  |-> [rounds EXCEPT ![b.round] = Append(@, id)],
                       weights |-> [x \in all |->
                          IF x = id THEN 0 ELSE weights[x]],
                       tip |-> tip, tipw |-> TipWeight])
         IN  /\ maxr' = max
             /\ rounds' = st.rounds
             /\ weights' = st.weights
             /\ tip' = st.tip
      /\ blocks' = blocks \cup {id}
      /\ idns' = [idns EXCEPT ![b.round] = @ \cup {b.voter}]
      /\ UNCHANGED <<params, minted>>

Next ==
  \/ \E prev \in blocks, round \in 1..params.rounds, idn \in Id : Mint(prev, round, idn)
  \/ \E id \in DOMAIN minted : AppendBlock(id)

Spec == Init /\ [][Next]_vars

------------------------------------------------------------------------------
Consumers(oref) == {b \in blocks : \E tr \in ToSet(Block(b).transfers) :
                                 oref \in ToSet(tr.inputs)}

\* An output that backs a block as its deposit is consumed on no chain through
\* that block, before it or after it, until it has unlocked, and by then it can
\* back no block any more (UsableDepositFor against the lock in Tr.Verify).
DepositsStayLocked ==
  \A b \in blocks \ {Genesis} : \A c \in Consumers(Block(b).deposit) :
    b \in Branch(c) \/ c \in Branch(b) =>
      \A tr \in UNION {ToSet(Block(x).transfers) : x \in Branch(b)} :
        \A o \in OutputsOf(tr) : o[1] = Block(b).deposit =>
          /\ Block(c).round > o[2].unlocksAfter
          /\ o[2].unlocksAfter > Block(b).round

\* No output is consumed by two blocks of one branch, although every block is
\* checked against outputs indexed anew from its own branch (indexUTRO).
NoDoubleSpend ==
  \A b \in blocks : \A tr \in ToSet(Block(b).transfers) :
    \A oref \in ToSet(tr.inputs) : Consumers(oref) \cap Branch(b) = {b}

\* Every branch holds the currency of the genesis block, whatever was moved and
\* locked on it.
SupplyConserved ==
  \A b \in blocks :
    FoldSet(LAMBDA o, sum : sum + o[2].amount, 0, indexUTRO(b)) = 3 * Cardinality(Id)

\* Blocks that no other block is on.  Every block is one when it is appended.
Leaves == blocks \ {Block(b).prev : b \in blocks \ {Genesis}}

\* Mint finds a deposit for a later round exactly when one that the member made
\* itself is unspent on that branch, although findDeposit looks at spent outputs
\* too and only at blocks that are not too deep.
MintFindsDeposit ==
  \A b \in Leaves :
    LET trs  == UNION {ToSet(Block(x).transfers) : x \in Branch(b)}
        utro == {o \in indexUTRO(b) : o[2].deposit}
    IN  \A i \in Id, r \in (Block(b).round + 1)..MaxRound :
          LET own == {o \in utro :
                        /\ o[2].receiver = i /\ UsableDepositFor(o[2], r)
                        /\ \E tr \in trs : tr.sender = i /\ o \in OutputsOf(tr)}
          IN  findDeposit(b, r, i) \in IF own = {} THEN {NoRef} ELSE {o[1] : o \in own}

\* The weights, which are updated from the round of each new block on, are what
\* weighing all rounds from the first gives, whatever order blocks arrived in.
WeightsExact ==
  \A b \in blocks \ {Genesis} :
    LET better == {c \in blocks : /\ Block(c).round = Block(b).round
                                  /\ Block(c).token >= Block(b).token}
    IN  weights[b] = weights[Block(b).prev] + WeightPoints \div Cardinality(better)

\* The tip moves only to a block that weighs at least what the old tip weighed
\* before the append, although the append may have made both lighter.
TipMovesUp == [][tip' # tip => weights'[tip'] >= weights[tip]]_vars
==============================================================================
