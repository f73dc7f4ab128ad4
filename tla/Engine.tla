-------------------------------- MODULE Engine -------------------------------
(***************************************************************************)
(* Members that run the engine of exp/onl/engine over a broadcast network: *)
(* a clock that takes each member from round to round, a buffer for what   *)
(* comes too early (OOOBuffer), a chain, a mempool, and handlers that run  *)
(* in goroutines of their own.                                             *)
(*                                                                         *)
(* A block is known by its round and its proposer, who mints at most one a *)
(* round.  Append is one step here; how appends overlap is OnlChain's      *)
(* subject, how the buffer's steps interleave is OutOfOrder's.  The writes *)
(* are deposits, one per member that has no stake in the genesis block: a  *)
(* write that touches no stake differs from them in nothing the engine     *)
(* looks at.  Members keep their own pace: the rounds of two of them can   *)
(* be any distance apart.  The network delivers in any order and loses     *)
(* nothing.                                                                *)
(***************************************************************************)
EXTENDS Integers, FiniteSets, FiniteSetsExt

CONSTANTS
  Node,       \* those who can be members
  Config,     \* the networks to look at
  MaxRound,   \* bound on the rounds of a network
  Rank,       \* Rank[r, n]: the rank a block of n has in round r
  Points,     \* weight handed to the first rank of a round
  MaxWrites   \* Engine.maxw: writes in a block

\* A network: who runs an engine, who has a deposit in the genesis block, who calls
\* Update, whom everyone's broadcast writes to, the round each clock stands at when
\* its member starts, and bounds: the rounds in which blocks are proposed, the rounds
\* in a row that a clock may skip, and the restarts of each member.
Network ==
  [member : SUBSET Node, founder : SUBSET Node, submitter : SUBSET Node,
   peers : [Node -> SUBSET Node], joined : [Node -> 0..MaxRound],
   rounds : 0..MaxRound, skip : 0..MaxRound, restarts : 0..2]

ASSUME EngineAssumption ==
  /\ MaxRound \in Nat
  /\ Points \in Nat
  /\ MaxWrites \in Nat \ {0}
  /\ \A r \in 1..MaxRound, n \in Node : Rank[<<r, n>>] \in Nat
  /\ \A c \in Config : c \in Network

NoNode == 0
RoundNr == 1..MaxRound
Genesis == <<0, NoNode>>
BlockId == {Genesis} \cup (RoundNr \X Node)

Buffer == INSTANCE OOOBuffer

Ids(S) == {b.id : b \in S}

VARIABLES
  conf,      \* the network
  chain,     \* blocks in a member's chain
  tip,       \* its tip: id and weight
  ooo,       \* its out of order buffer
  clock,     \* the last round it entered
  toMint,    \* its round goroutine still has to propose for that round
  handling,  \* blocks its handlers are about to append
  pool,      \* writes in its mempool
  relay,     \* writes in the pool that its handlers have yet to relay
  stamped,   \* writes in the pool that Pick left a commit time in
  restarts,  \* how often it was restarted
  refused,   \* history: blocks it minted and its own chain refused
  net        \* what is on its way: blocks, writes and syncs

nodeVars == <<chain, tip, ooo, clock, toMint, handling, pool, relay, stamped,
             restarts>>
vars == <<conf, nodeVars, refused, net>>

------------------------------------------------------------------------------
\* The chain, as far as the engine needs it.

GenesisBlock ==
  [id |-> Genesis, prev |-> Genesis, round |-> 0, deposits |-> conf.founder]

Get(S, id) == CHOOSE b \in S : b.id = id

Walk(S, id) ==
  LET w[i \in Ids(S)] == IF i = Genesis THEN {i} ELSE {i} \cup w[Get(S, i).prev]
  IN w[id]

\* The members with stake in the state of a block.
Staked(S, id) == UNION {b.deposits : b \in {c \in S : c.id \in Walk(S, id)}}

RankOf(b) == IF b.id = Genesis THEN 1 ELSE Rank[b.id]

Position(S, b) ==
  Cardinality({c \in S : c.round = b.round /\ RankOf(c) >= RankOf(b)})

Weight(S, id) == MapThenSumSet(LAMBDA i : Points \div Position(S, Get(S, i)), Walk(S, id))

\* Chain.weigh from a round upwards: of the blocks that weigh as much as the tip
\* did, the last one, by round and then by rank, becomes the tip.
Weigh(S, from, t) ==
  LET heavy == {b \in S : b.round >= from /\ Weight(S, b.id) >= t.w}
      after(b, c) == b.round > c.round \/ (b.round = c.round /\ RankOf(b) <= RankOf(c))
  IN IF heavy = {} THEN t
     ELSE LET last == CHOOSE b \in heavy : \A c \in heavy : after(b, c)
          IN [id |-> last.id, w |-> Weight(S, last.id)]

\* Chain.Append: the predecessor is there and earlier, the token is valid, and
\* the writes apply.  Members seed every token with the genesis block, where only
\* the founders have their deposit.
Acceptable(S, b) ==
  /\ b.prev \in Ids(S)
  /\ b.round > Get(S, b.prev).round
  /\ b.id[2] \in conf.founder
  /\ b.deposits \cap Staked(S, b.prev) = {}

------------------------------------------------------------------------------

\* New: the genesis block is resolved, nothing else is.
Fresh == Buffer!ResolveBlock(Buffer!Empty, Genesis)

Init ==
  /\ conf \in Config
  /\ chain = [n \in Node |-> {GenesisBlock}]
  /\ tip = [n \in Node |-> [id |-> Genesis, w |-> Points]]
  /\ ooo = [n \in Node |-> Fresh]
  /\ clock = conf.joined
  /\ toMint = [n \in Node |-> FALSE]
  /\ handling = [n \in Node |-> {}]
  /\ pool = [n \in Node |-> {}]
  /\ relay = [n \in Node |-> {}]
  /\ stamped = [n \in Node |-> {}]
  /\ restarts = [n \in Node |-> 0]
  /\ refused = {}
  /\ net = [blocks |-> {}, writes |-> {}, syncs |-> {}]

ToPeers(n, x) == {<<p, x>> : p \in conf.peers[n]}

\* Slip: what comes too early is dropped.
HandleInTime(n, o, ms) ==
  /\ ooo' = [ooo EXCEPT ![n] = o]
  /\ handling' = [handling EXCEPT ![n] = @ \cup {m \in ms : Buffer!Ready(o, m)}]

\* OutOfOrder.Handle of the messages ms (one or none) on buffer o.
Handle(n, o, ms) ==
  LET late == {m \in ms : ~Buffer!Ready(o, m)}
  IN /\ ooo' = [ooo EXCEPT ![n] = FoldSet(LAMBDA m, p : Buffer!Defer(p, m), o, late)]
     /\ handling' = [handling EXCEPT ![n] = @ \cup (ms \ late)]

DeliverBlock(n, id) ==
  \E m \in net.blocks :
    /\ m[1] = n /\ m[2].id = id
    /\ Handle(n, ooo[n], {m[2]})
    /\ net' = [net EXCEPT !.blocks = @ \ {m}]
    /\ UNCHANGED <<conf, chain, tip, clock, toMint, pool, relay, stamped, restarts, refused>>

\* The syncs ResolveRound sends: one for each block that is waited on and is not
\* of a later round.
Syncs(n, nr) ==
  {<<p, n, i>> : p \in conf.peers[n],
                 i \in {j \in BlockId : j[1] <= nr /\ ooo[n].onBlocks[j] # {}}}

\* handleRound up to the end of ResolveRound, for the round the clock gives.  A wall
\* clock whose last round was not taken in time goes on with a later one.
EnterRound(n, nr) ==
  /\ nr \in (clock[n] + 1)..(clock[n] + 1 + conf.skip)
  /\ ~toMint[n]
  /\ \A b \in handling[n] : b.id[2] = n => b.id \in Ids(chain[n])
  /\ clock' = [clock EXCEPT ![n] = nr]
  /\ toMint' = [toMint EXCEPT ![n] = TRUE]
  /\ net' = [net EXCEPT !.syncs = @ \cup Syncs(n, nr)]
  /\ Handle(n, Buffer!ResolveNr(ooo[n], nr), ooo[n].onRounds[nr])
  /\ UNCHANGED <<conf, chain, tip, pool, relay, stamped, restarts, refused>>

\* The rounds are over and everything that was sent is dealt with.
Settled ==
  /\ \A n \in conf.member : clock[n] = conf.rounds /\ ~toMint[n] /\ handling[n] = {}
  /\ net.blocks = {} /\ net.syncs = {}

\* A round after the last one with proposals: nothing is proposed, the syncs go out again.  These
\* rounds are taken to be long: everyone is done with the one before.
LaterRound(n) ==
  /\ Settled
  /\ net' = [net EXCEPT !.syncs = Syncs(n, conf.rounds)]
  /\ UNCHANGED <<conf, nodeVars, refused>>

\* Slip: writes that are in the state are picked again.
PicksAny(n, staked) ==
  {ws \in SUBSET pool[n] : Cardinality(ws) = Min({Cardinality(pool[n]), MaxWrites})}

\* MemPool.Pick: writes that are not in the state of the tip, in the order of a map
\* and no more than fit.
Picks(n, staked) ==
  LET new == pool[n] \ staked
  IN {ws \in SUBSET new : Cardinality(ws) = Min({Cardinality(new), MaxWrites})}

\* Slip: all of them are tried before what fits is kept.
CommittedAll(n, staked, ws) == pool[n] \ staked

\* Those of them that Pick commits to the state, dry.  That sets the commit time of
\* the write, which is the one in the pool.
Committed(n, staked, ws) == ws

\* The rest of handleRound: without stake in the state of the tip there is no
\* proposal; with it, the picked writes go into a block.
Mint(n) ==
  LET staked == Staked(chain[n], tip[n].id)
      block(ws) == [id |-> <<clock[n], n>>, prev |-> tip[n].id, round |-> clock[n],
                    deposits |-> ws]
  IN /\ toMint[n]
     /\ toMint' = [toMint EXCEPT ![n] = FALSE]
     /\ \/ /\ n \notin staked
           /\ UNCHANGED <<handling, stamped>>
        \/ /\ n \in staked
           /\ \E ws \in Picks(n, staked) :
                /\ handling' = [handling EXCEPT ![n] = @ \cup {block(ws)}]
                /\ stamped' = [stamped EXCEPT ![n] = @ \cup Committed(n, staked, ws)]
     /\ UNCHANGED <<conf, chain, tip, ooo, clock, pool, relay, restarts, refused, net>>

\* handleBlock: append, resolve what waited on the block, relay.
AppendBlock(n, id) ==
  \E b \in handling[n] :
    LET S == chain[n] \cup {b}
    IN /\ b.id = id
       /\ id \notin Ids(chain[n])
       /\ Acceptable(chain[n], b)
       /\ chain' = [chain EXCEPT ![n] = S]
       /\ tip' = [tip EXCEPT ![n] = Weigh(S, b.round, @)]
       /\ LET o == Buffer!ResolveBlock(ooo[n], id)
              ms == ooo[n].onBlocks[id]
              late == {m \in ms : ~Buffer!Ready(o, m)}
          IN /\ ooo' = [ooo EXCEPT ![n] = FoldSet(LAMBDA m, p : Buffer!Defer(p, m), o, late)]
             /\ handling' = [handling EXCEPT ![n] = (@ \ {b}) \cup (ms \ late)]
       /\ net' = [net EXCEPT !.blocks = @ \cup ToPeers(n, b)]
       /\ UNCHANGED <<conf, clock, toMint, pool, relay, stamped, restarts, refused>>

\* handleBlock of a block that exists or that Append refuses: nothing else happens.
DropBlock(n, id) ==
  \E b \in handling[n] :
    /\ b.id = id
    /\ id \in Ids(chain[n]) \/ ~Acceptable(chain[n], b)
    /\ handling' = [handling EXCEPT ![n] = @ \ {b}]
    /\ refused' = IF id[2] = n /\ id \notin Ids(chain[n]) THEN refused \cup {b} ELSE refused
    /\ UNCHANGED <<conf, chain, tip, ooo, clock, toMint, pool, relay, stamped, restarts, net>>

\* handleSync: push the blocks we have to the member that asked.
HandleSync(n, from, id) ==
  /\ <<n, from, id>> \in net.syncs
  /\ net' = [net EXCEPT
       !.syncs = @ \ {<<n, from, id>>},
       !.blocks = @ \cup {<<from, b>> : b \in {c \in chain[n] : c.id = id}}]
  /\ UNCHANGED <<conf, nodeVars, refused>>

\* handleWrite up to MemPool.Add, which refuses a write that it has.
AddWrite(n, w) ==
  /\ pool' = [pool EXCEPT ![n] = @ \cup {w}]
  /\ relay' = [relay EXCEPT ![n] = @ \cup ({w} \ pool[n])]

\* Update: the member's own write is signed and handled.
Update(n) ==
  /\ n \in conf.submitter \cap conf.member
  /\ n \notin pool[n] \cup Staked(chain[n], tip[n].id)
  /\ AddWrite(n, n)
  /\ UNCHANGED <<conf, chain, tip, ooo, clock, toMint, handling, stamped, restarts, refused, net>>

\* A write from a peer.  Its signature covers the commit time it was signed with.
DeliverWrite(n, w, signed) ==
  /\ <<n, w, signed>> \in net.writes
  /\ net' = [net EXCEPT !.writes = @ \ {<<n, w, signed>>}]
  /\ IF signed THEN AddWrite(n, w) ELSE UNCHANGED <<pool, relay>>
  /\ UNCHANGED <<conf, chain, tip, ooo, clock, toMint, handling, stamped, restarts, refused>>

\* The rest of handleWrite: relay the write as it is now.
RelayWrite(n, w) ==
  /\ w \in relay[n]
  /\ relay' = [relay EXCEPT ![n] = @ \ {w}]
  /\ net' = [net EXCEPT !.writes = @ \cup {<<p, w, w \notin stamped[n]>> : p \in conf.peers[n]}]
  /\ UNCHANGED <<conf, chain, tip, ooo, clock, toMint, handling, pool, stamped, restarts, refused>>

\* The process is restarted on its store: buffer, handlers and pool are gone, and
\* NewChain weighs every round.
Restart(n) ==
  /\ n \in conf.member
  /\ restarts[n] < conf.restarts
  /\ restarts' = [restarts EXCEPT ![n] = @ + 1]
  /\ ooo' = [ooo EXCEPT ![n] = Fresh]
  /\ handling' = [handling EXCEPT ![n] = {}]
  /\ toMint' = [toMint EXCEPT ![n] = FALSE]
  /\ pool' = [pool EXCEPT ![n] = {}]
  /\ relay' = [relay EXCEPT ![n] = {}]
  /\ stamped' = [stamped EXCEPT ![n] = {}]
  /\ tip' = [tip EXCEPT ![n] = Weigh(chain[n], 0, @)]
  /\ UNCHANGED <<conf, chain, clock, refused, net>>

\* What clocks, goroutines and the network do by themselves.
Progress(n) ==
  /\ n \in conf.member
  /\ \/ \E id \in BlockId : DeliverBlock(n, id) \/ AppendBlock(n, id) \/ DropBlock(n, id)
     \/ \E from \in Node, id \in BlockId : HandleSync(n, from, id)
     \/ \E nr \in 1..conf.rounds : EnterRound(n, nr)
     \/ LaterRound(n)
     \/ Mint(n)
     \/ \E w \in Node, signed \in BOOLEAN : DeliverWrite(n, w, signed)
     \/ \E w \in Node : RelayWrite(n, w)

Next == \E n \in Node : Progress(n) \/ Update(n) \/ Restart(n)

\* Clocks tick, goroutines are scheduled and the network delivers.  Nobody has to
\* call Update, and nothing has to be restarted.
Fairness == \A n \in Node : WF_vars(Progress(n))

Spec == Init /\ [][Next]_vars /\ Fairness

------------------------------------------------------------------------------

\* The buffer's promise to handleBlock: a block counts as resolved, and what waits
\* on it is let through, only when the chain has it, so that Append never meets a
\* block whose predecessor is missing.
ResolvedStored ==
  \A n \in Node :
    /\ ooo[n].resolvedBlocks \subseteq Ids(chain[n])
    /\ \A b \in handling[n] : b.prev \in Ids(chain[n])

\* Everyone was there from the first round, skips none and is never restarted.
Steady ==
  /\ conf.skip = 0 /\ conf.restarts = 0
  /\ \A n \in conf.member : conf.joined[n] = 0

\* A block that one member appended ends up in the chain of every member, whatever
\* overtook it on the way: by relay, by the out of order buffer, and by the syncs
\* that bring back what the buffer did not keep.
Replicated ==
  \A id \in BlockId :
    (Steady /\ \E n \in conf.member : id \in Ids(chain[n]))
      ~> (\A n \in conf.member : id \in Ids(chain[n]))

\* Pick spoils the signature of a write its member has yet to relay.  When it does,
\* the write travels in a block instead: it is in one the member minted, which only
\* the member's own chain can have refused.
SpoiledIsProposed ==
  \A n \in Node : \A w \in stamped[n] :
    \E b \in chain[n] \cup handling[n] \cup refused : b.id[2] = n /\ w \in b.deposits

\* Between Mint, which reads the tip and picks writes, and Append, which checks the
\* block again, handlers move the tip and add blocks.  There is one reason for the
\* chain of a member with a deposit in the genesis block to refuse what the member
\* minted: the tip it was minted on is a block of the same round, of a faster peer.
RefusedWhenOvertaken ==
  \A b \in refused : b.id[2] \in conf.founder => b.prev[1] = b.round

\* README.md:48: "Per round everyone gets to propose one block".
EveryoneProposes == \A b \in refused : b.id[2] \notin conf.founder

\* README.md:49: "Blocks from old rounds are always accepted as a means of re-syncing
\* out of date minorty groups".
OldBlocksAccepted ==
  \A n \in Node, id \in BlockId :
    (/\ n \in conf.member
     /\ clock[n] >= id[1]
     /\ \E m \in conf.member : id \in Ids(chain[m])) ~> id \in Ids(chain[n])

\* engine_test.go:254: members that have seen the same blocks "should all have the
\* same tip".
TipsAgree ==
  Settled => \A m, n \in conf.member : chain[m] = chain[n] => tip[m].id = tip[n].id
==============================================================================
