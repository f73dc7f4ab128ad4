----------------------------- MODULE SlotEngine ------------------------------
(***************************************************************************)
(* The first slot engine: members propose blocks on their tip, voters vote *)
(* for the best proposal of a round once the block time has passed, and a  *)
(* block with enough votes is appended (slot/engine.go, chain.go,          *)
(* voter.go, ooo.go) over the in-memory network (broadcast.go).            *)
(*                                                                         *)
(* A ticket depends on the identity and the round; everyone may propose    *)
(* and vote, as in the code.  A block is proposed on the tip for the next  *)
(* round, so its id is the sequence of the proposers up to it.  A handler  *)
(* holds the engine's lock and the reader of a member is one goroutine: a  *)
(* message is handled in one step, which leaves its writes to be done      *)
(* before the next; a write reaches the endpoints one by one.              *)
(***************************************************************************)
EXTENDS Integers, SequencesExt, FiniteSetsExt

CONSTANT
  Settings   \* records: members, ticket (of a member in a round), minVotes, slow
             \* (members whose writes the others see in parts), rounds (a bound:
             \* tips of later rounds are not worked)

VARIABLES
  set,     \* the setting
  node,    \* state of the members' engines
  out,     \* messages that a member is writing, in order
  queue,   \* messages that wait at a member's endpoint
  dedub,   \* messages that an endpoint has had
  marked   \* the endpoint that a member's write has marked and not yet sent to

vars == <<set, node, out, queue, dedub, marked>>

Member == set.members

Genesis == <<>>
Round(b) == Len(b)
Prev(b) == Front(b)
NoVoter == [round |-> 0, votes |-> {}, bw |-> FALSE]

Proposal(b) == [type |-> "proposal", block |-> b, voter |-> 0]
Vote(b, n) == [type |-> "vote", block |-> b, voter |-> n]

\* The ticket a member draws for a round; whoever draws may propose and vote.
Draw(n, round) == set.ticket[n][round]

\* A block's ticket; the genesis block has none.
TicketOf(b) == IF b = Genesis THEN 0 ELSE Draw(Last(b), Round(b))

\* Ticket by rank, as a multiple of all ranks.
Strength(b, rank) == (TicketOf(b) * 6) \div rank

\* The blocks that walk visits.
walk(b) == {SubSeq(b, 1, k) : k \in 0..Round(b)}

\* The strength of a block and its ancestors, by their ranks.
chainStrength(b, ranks) == FoldSet(LAMBDA c, sum : sum + Strength(c, ranks[c]), 0, walk(b))

\* A chain: known blocks with their rank, the tip and the votes tallied.
NewChain == [ranks |-> [b \in {Genesis} |-> 1], tip |-> Genesis, votes |-> {}]

Init ==
  /\ set \in Settings
  /\ node = [n \in Member |->
       NewChain @@
       [voter |-> NoVoter, last |-> 0,      \* round of the last ticket
        timers |-> 0,                       \* block times that run
        orphans |-> {}, started |-> FALSE,
        stuck |-> FALSE]]                   \* a handler waits for itself
  /\ out = [n \in Member |-> <<>>]
  /\ queue = [n \in Member |-> <<>>]
  /\ dedub = [n \in Member |-> {}]
  /\ marked = [n \in Member |-> {}]

------------------------------------------------------------------------------
\* Broadcast

\* A message reaches an endpoint, unless it has had it.
Deliver(ep, msgs, q, seen) == q[ep] \o SelectSeq(msgs, LAMBDA m : m \notin seen[ep])

\* What a handler of n writes: at once, or left to be written.
Send(n, msgs) ==
  IF n \in set.slow
    THEN /\ out' = [out EXCEPT ![n] = msgs]
         /\ UNCHANGED dedub
    ELSE /\ dedub' = [ep \in Member |-> dedub[ep] \cup ToSet(msgs)]
         /\ UNCHANGED out
Sent(n, msgs) ==
  IF n \in set.slow THEN queue ELSE [ep \in Member |-> Deliver(ep, msgs, queue, dedub)]

\* The network's loop over its endpoints: Mark notes that the endpoint has had
\* the message, Put queues it there.
Mark(n) ==
  /\ out[n] # <<>> /\ marked[n] = {}
  /\ LET m  == Head(out[n])
         to == {ep \in Member : m \notin dedub[ep]}
     IN  IF to = {}
           THEN /\ out' = [out EXCEPT ![n] = Tail(@)]
                /\ UNCHANGED <<dedub, marked>>
           ELSE \E ep \in to :
                  /\ dedub' = [dedub EXCEPT ![ep] = @ \cup {m}]
                  /\ marked' = [marked EXCEPT ![n] = {ep}]
                  /\ UNCHANGED out
  /\ UNCHANGED <<set, node, queue>>

Put(n) ==
  /\ marked[n] # {}
  /\ queue' = [ep \in Member |->
                 IF ep \in marked[n] THEN Append(queue[ep], Head(out[n])) ELSE queue[ep]]
  /\ marked' = [marked EXCEPT ![n] = {}]
  /\ UNCHANGED <<set, node, out, dedub>>

------------------------------------------------------------------------------
\* Voter

\* Votes for a set of blocks, written in some order.
Votes(n, bs) == {[i \in DOMAIN s |-> Vote(s[i], n)] : s \in SetToSeqs(bs)}

\* Slip: a weaker proposal is kept as well.
BestAll(votes, b) == votes \cup {b}

\* Propose: the blocks to vote for after b was proposed.
Best(votes, b) ==
  IF \A v \in votes : TicketOf(b) > TicketOf(v) THEN {b}
  ELSE IF \A v \in votes : TicketOf(b) = TicketOf(v) THEN votes \cup {b}
  ELSE votes

------------------------------------------------------------------------------
\* Chain

\* The ranks that Rank may give the blocks of a round: by ticket, and in any
\* order where tickets are equal.
Ranks(bs) ==
  {[b \in bs |-> CHOOSE i \in DOMAIN s : s[i] = b] :
     s \in {x \in SetToSeqs(bs) :
              \A i, j \in DOMAIN x : i < j => TicketOf(x[i]) >= TicketOf(x[j])}}

\* Append a block: the chains it may lead to, and if it is the new tip.
AppendBlock(st, b) ==
  LET all   == DOMAIN st.ranks \cup {b}
      round == {c \in all : Round(c) = Round(b)}
      atOne == chainStrength(Prev(b), st.ranks) + Strength(b, 1)
      rank(r) == [c \in all |-> IF c \in round THEN r[c] ELSE st.ranks[c]]
      newtip(r) == chainStrength(st.tip, rank(r)) < atOne
  IN  {[newtip |-> newtip(r),
        st     |-> [st EXCEPT !.ranks = rank(r), !.tip = IF newtip(r) THEN b ELSE @]] :
         r \in Ranks(round)}

------------------------------------------------------------------------------
\* Engine

\* WorkNewTip: propose on the tip and, with a new ticket, become its voter.
WorkNewTip(st, n) ==
  LET round == Round(st.tip) + 1
      b     == st.tip \o <<n>>
  IN  IF round > set.rounds THEN [st |-> st, msgs |-> <<>>]
      ELSE [msgs |-> <<Proposal(b)>>,
            st   |-> IF st.last = round THEN st
                     ELSE [st EXCEPT !.last = round, !.timers = @ + 1,
                                     !.voter = [NoVoter EXCEPT !.round = round]]]

\* The first work of a member is on the genesis block.
Start(n) ==
  /\ ~node[n].started
  /\ LET w == WorkNewTip([node[n] EXCEPT !.started = TRUE], n)
     IN  /\ node' = [node EXCEPT ![n] = w.st]
         /\ Send(n, w.msgs)
         /\ queue' = Sent(n, w.msgs)
  /\ UNCHANGED <<set, marked>>

\* Slip: a voter whose block time has passed does not vote for what comes later.
CastingOnce(voter) == FALSE

Casting(voter) == voter.round > 0

\* The timer that the block time starts casts the votes of whoever is voter when
\* it expires.
Timer(n) ==
  LET st == node[n]
  IN  /\ ~st.stuck /\ out[n] = <<>>
      /\ st.timers > 0
      /\ \E vs \in Votes(n, st.voter.votes) :
           /\ node' = [node EXCEPT ![n].timers = @ - 1,
                                   ![n].voter.bw = Casting(st.voter)]
           /\ Send(n, vs)
           /\ queue' = Sent(n, vs)
      /\ UNCHANGED <<set, marked>>

\* HandleProposal, with the messages it writes.
HandleProposal(st, n, b) ==
  LET v    == st.voter
      best == Best(v.votes, b)
  IN  IF Round(b) # Round(st.tip) + 1 THEN [st |-> st, msgs |-> <<>>]
      ELSE IF Round(b) # v.round THEN [st |-> st, msgs |-> <<Proposal(b)>>]
      ELSE [st   |-> [st EXCEPT !.voter.votes = best],
            msgs |-> IF v.bw /\ b \in best \ v.votes
                       THEN <<Proposal(b), Vote(b, n)>> ELSE <<Proposal(b)>>]

\* Slip: as many votes as the minimum are enough.
EnoughMin(votes, b) == Cardinality({v \in votes : v[1] = b}) >= set.minVotes

Enough(votes, b) == Cardinality({v \in votes : v[1] = b}) > set.minVotes

\* Resolve calls back into the engine, whose lock its caller holds, for every
\* message that waited for the block.
ResolveCallsBack(st, b) == \E o \in st.orphans : Prev(o.block) = b

\* What HandleVote does to a block with enough votes; vs are the votes it casts
\* before the voter is torn down.
Progress(st, n, b, vs) ==
  {IF ResolveCallsBack(a.st, b)
     THEN [st |-> [a.st EXCEPT !.stuck = TRUE], msgs |-> vs]
     ELSE IF ~a.newtip THEN [st |-> a.st, msgs |-> vs]
     ELSE [WorkNewTip(a.st, n) EXCEPT !.msgs = vs \o @] :
   a \in AppendBlock(
           [st EXCEPT !.voter = IF Round(b) >= @.round THEN NoVoter ELSE @], b)}

\* Verify: the block before is, at this moment, the best of its round.
VerifyVote(st, b) == st.ranks[Prev(b)] = 1

HandleVote(st, n, b, voter) ==
  LET relay == <<Vote(b, voter)>>
      tally == [st EXCEPT !.votes = @ \cup {<<b, voter>>}]
      open  == IF st.voter # NoVoter /\ Round(b) >= st.voter.round
                 THEN st.voter.votes ELSE {}
  IN  IF ~VerifyVote(st, b) THEN {[st |-> st, msgs |-> <<>>]}
      ELSE IF ~Enough(tally.votes, b) THEN {[st |-> tally, msgs |-> relay]}
      ELSE UNION {Progress(tally, n, b, relay \o vs) : vs \in Votes(n, open)}

\* A message waits if the block it builds on is not known, or else it is handled.
Handle(st, n, m) ==
  IF Prev(m.block) \notin DOMAIN st.ranks
    THEN {[st |-> [st EXCEPT !.orphans = @ \cup {m}], msgs |-> <<>>]}
    ELSE IF m.type = "vote" THEN HandleVote(st, n, m.block, m.voter)
    ELSE {HandleProposal(st, n, m.block)}

\* Run, the goroutine that reads.
Read(n) ==
  /\ ~node[n].stuck /\ out[n] = <<>> /\ node[n].started
  /\ queue[n] # <<>>
  /\ LET m == Head(queue[n])
     IN  \E r \in Handle(node[n], n, m) :
           /\ node' = [node EXCEPT ![n] = r.st]
           /\ Send(n, r.msgs)
           /\ queue' = [Sent(n, r.msgs) EXCEPT ![n] = Tail(@)]
  /\ UNCHANGED <<set, marked>>

Next == \E n \in Member : Start(n) \/ Timer(n) \/ Read(n) \/ Mark(n) \/ Put(n)

Fairness ==
  \A n \in UNION {s.members : s \in Settings} :
    /\ WF_vars(n \in Member /\ Start(n)) /\ WF_vars(n \in Member /\ Timer(n))
    /\ WF_vars(n \in Member /\ Read(n)) /\ WF_vars(n \in Member /\ (Mark(n) \/ Put(n)))

Spec == Init /\ [][Next]_vars /\ Fairness

------------------------------------------------------------------------------
Known(n) == DOMAIN node[n].ranks

\* A block is in a chain with its ancestors, and only by the votes of more than
\* minVotes members that the member was sent (HandleVote, Tally).
AppendedByVotes ==
  \A n \in Member : \A b \in Known(n) \ {Genesis} :
    /\ Prev(b) \in Known(n)
    /\ Cardinality({v \in Member : Vote(b, v) \in dedub[n]}) > set.minVotes

VotesOf(n) == {b \in UNION {DOMAIN node[k].ranks \cup {m.block : m \in dedub[k]} : k \in Member} :
                 \E k \in Member : Vote(b, n) \in dedub[k] \cup ToSet(out[k])}

\* A member never votes for a block after it voted for a better one of the same
\* round, although its voter may be torn down and set up again in between and a
\* timer may cast the votes of a later voter (Propose, Cast, WorkNewTip).
VotesAreStronger ==
  \A n \in Member : \A b \in VotesOf(n)' \ VotesOf(n), c \in VotesOf(n) :
    Round(b) = Round(c) => TicketOf(b) >= TicketOf(c)

\* Every member gets to the last round, or stops in a handler that waits for itself:
\* no proposal or vote that comes late, early or for another tip is missed for good.
\* "we shouldn't deadlock on the fact that proposals only start to come in after the
\* intial blocktime has expired" (slot/engine_test.go:328).
AtLastRound == \A n \in Member : node[n].stuck \/ Round(node[n].tip) = set.rounds

\* "messages may arrive in any order" (engine.go:99): handling one never waits for
\* the lock that the handler holds.
NeverStuck == \A n \in Member : ~node[n].stuck
==============================================================================
