----------------------------- MODULE MCProtocols -----------------------------
(***************************************************************************)
(* The protocols in which members propose and witness or vote, side by     *)
(* side: a behaviour is one of the rev engine, of the slot engine or of a  *)
(* round of the second slot engine.  They share the variables of one name. *)
(***************************************************************************)
EXTENDS Integers, FiniteSets, Sequences

CONSTANT Designs

VARIABLES design, set, node, net, out, queue, dedub, marked

\* Tokens in the order of the members, and in an order that changes by round.
Up    == [i \in 1..4 |-> [r \in 1..4 |-> i]]
Mixed == [i \in 1..4 |-> [r \in 1..4 |-> ((2 * i + r) % 5) + 1]]

------------------------------------------------------------------------------
\* Settings of rev: proposals of peers, of which the third builds on a block that
\* none of its witnesses rests on; and a reaction of two members.
peers == INSTANCE Rev WITH Settings <- {}
First(pk) == peers!Proposal(1, pk, peers!GenBlock, {peers!Gen})
Second    == peers!Proposal(2, 2, peers!GenBlock, {First(3)})
Third     == peers!Proposal(3, 3, First(4).block, {Second})
Fourth    == peers!Proposal(4, 4, First(4).block, {Third})
To(ps, ns, kinds) ==
  {[p |-> p, from |-> p.pk, to |-> n, kind |-> k] : p \in ps, n \in ns, k \in kinds}

RevSettings ==
  {[members |-> {1}, token |-> Up, threshold |-> 1, rounds |-> 4,
    injected |-> To({First(3), First(4), Second, Third, Fourth}, {1}, {"own", "relay"})],
   [members |-> {1, 2}, token |-> Mixed, injected |-> To({First(3)}, {1, 2}, {"own"}),
    threshold |-> 2, rounds |-> 3],
   [members |-> {1, 2}, token |-> Up, injected |-> To({First(3), First(4)}, {1, 2}, {"own"}),
    threshold |-> 2, rounds |-> 2]}

\* Settings of slot: two rounds; and one round with writes that others see in parts.
Setting(min, parts, rounds) ==
  [members |-> {1, 2}, ticket |-> Mixed, minVotes |-> min, slow |-> parts, rounds |-> rounds]
SlotSettings == {Setting(1, {}, 2), Setting(0, {1}, 1), Setting(1, {1}, 1)}

\* Two rounds where one vote is enough and one member's writes are seen in parts.
SlowSettings == {Setting(0, {1}, 2)}

\* Settings of a slot round: proposals with two blocks of one proposer, one on
\* another top, and one with a token that does not verify; votes for two proposals
\* and one of a member's own votes, which name no voter.
wire == INSTANCE SlotRound WITH Settings <- {}
P(pk, prev, data) == wire!Proposal(pk, pk, prev, data)
RoundSettings ==
  {[minv |-> 1, own |-> 1, injected |->
      {wire!ProposalMsg(p, TRUE) : p \in {P(1, TRUE, 1), P(1, TRUE, 2), P(2, TRUE, 1), P(3, FALSE, 1)}}
        \cup {wire!ProposalMsg(P(3, TRUE, 2), FALSE)}],
   [minv |-> 1, own |-> 1, injected |->
      {wire!ProposalMsg(P(2, TRUE, 1), TRUE), wire!OwnVote(P(2, TRUE, 1))}
        \cup {wire!VoteMsg(P(i, TRUE, 1), v, TRUE) : i \in {1, 2}, v \in {1, 2}}]}

rev   == INSTANCE Rev        WITH Settings <- RevSettings
slot  == INSTANCE SlotEngine WITH Settings <- SlotSettings
slow  == INSTANCE SlotEngine WITH Settings <- SlowSettings
round == INSTANCE SlotRound  WITH Settings <- RoundSettings

------------------------------------------------------------------------------
endpoints == <<dedub, marked>>
mcvars    == <<design, set, node, net, out, queue, endpoints>>

MCInit ==
  /\ design \in Designs
  /\ \/ design = "rev" /\ rev!Init /\ out = 0 /\ queue = 0 /\ dedub = 0 /\ marked = 0
     \/ design = "slot" /\ slot!Init /\ net = {}
     \/ design = "slow" /\ slow!Init /\ net = {}
     \/ design = "round" /\ round!Init /\ net = {} /\ dedub = 0 /\ marked = 0

RevStep   == design = "rev" /\ rev!Next /\ UNCHANGED <<design, out, queue, endpoints>>
SlotStep  == design \in {"slot", "slow"} /\ slot!Next /\ UNCHANGED <<design, net>>
RoundStep == design = "round" /\ round!Next /\ UNCHANGED <<design, net, endpoints>>

MCNext == RevStep \/ SlotStep \/ RoundStep

\* As in the components: what a member has to do is done.
Engine(n) == design = "slot" /\ n \in set.members /\ UNCHANGED <<design, net>>
MCFairness ==
  /\ WF_mcvars(RevStep)
  /\ \A n \in {1, 2} :
       /\ WF_mcvars(Engine(n) /\ slot!Start(n))
       /\ WF_mcvars(Engine(n) /\ slot!Timer(n))
       /\ WF_mcvars(Engine(n) /\ slot!Read(n))
       /\ WF_mcvars(Engine(n) /\ (slot!Mark(n) \/ slot!Put(n)))

MCSpec == MCInit /\ [][MCNext]_mcvars /\ MCFairness

------------------------------------------------------------------------------
\* What was read is handled, or waits for just what is missing (rev, ooo.go).
RevNothingLeftBehind == design = "rev" => rev!NothingLeftBehind

\* Every proposal of a round rests on enough of the round before, and every block on
\* the one before it (rev, Question).
RevWitnessedHistory == design = "rev" => rev!WitnessedHistory /\ rev!ChainClosed

\* A member proposes again only for a better top (rev, Observe).
RevProposesForBetterTop == design = "rev" => rev!ProposesForBetterTop

\* Members do not get stuck between rounds: a reaction of two members does not stop
\* (rev, Test2MemberBabySteps), and every member gets to the last round (slot,
\* Test2MemberDeadlockAfterBlockTime).
RoundsProgress ==
  <>((design = "rev" => rev!Reacted) /\ (design = "slot" => slot!AtLastRound))

\* Blocks are appended by the votes of enough members (slot, HandleVote).
SlotAppendedByVotes == design = "slot" => slot!AppendedByVotes

\* A member votes for no weaker block of a round than before (slot, Propose, Cast).
SlotVotesNeverWeaken == [][design = "slot" => slot!VotesAreStronger]_mcvars

\* Handling a message never waits for the lock that it holds: "messages may arrive
\* in any order" (slot/engine.go:99).
SlotNeverStuck == design \in {"slot", "slow"} => slow!NeverStuck

\* A round votes for the best proposals and ends with one of the majority (slot,
\* Voter2, Ballot).
RoundElectsBest == design = "round" => round!BestVoted /\ round!AcceptedByMajority
==============================================================================
