------------------------------ MODULE SlotRound ------------------------------
(***************************************************************************)
(* One round of the second slot engine (slot/round.go): the ingress        *)
(* goroutine hands proposals to the round's voter and votes to its ballot, *)
(* the voter's timer casts votes, and Run waits for the proposal that the  *)
(* ballot accepts.  The accepted channel has no buffer: the ballot holds   *)
(* until Run receives.  Peers of the member write the setting's messages,  *)
(* in any order; what the member writes to them is kept in out.            *)
(***************************************************************************)
EXTENDS Integers, SequencesExt, FiniteSetsExt

CONSTANT
  Settings   \* records: injected (messages of the peers), minv, own (the token
             \* that the member draws)

VARIABLES
  set,     \* the setting
  node,    \* the round's voter, ballot and goroutines
  queue,   \* messages that wait in the round's channel
  out      \* messages that the round has written, in order

vars == <<set, node, queue, out>>

\* A proposal of pk with its token and block data; prev tells if it builds on the
\* last top.  A message is valid if its syntax and its tokens are.
Proposal(pk, token, prev, data) == [pk |-> pk, token |-> token, prev |-> prev, data |-> data]
ProposalMsg(p, valid) == [type |-> "proposal", p |-> p, voter |-> 0, valid |-> valid]
VoteMsg(p, voter, valid) == [type |-> "vote", p |-> p, voter |-> voter, valid |-> valid]

\* Own votes carry no voter identity.
Self == 0
OwnVote(p) == VoteMsg(p, Self, FALSE)

ChanSize == 1   \* buffer of a round's channel

Init ==
  /\ set \in Settings
  /\ node = [pf |-> {}, top |-> 0, candidates |-> <<>>, casted |-> FALSE,  \* voter
             bpf |-> {}, btop |-> 0, votes |-> {}, closed |-> FALSE,       \* ballot
             ingress |-> "read",   \* "read", "accepting" or "panic"
             why |-> "", accepted |-> {}, run |-> "new", seen |-> <<>>]
  /\ queue = <<>>
  /\ out = <<>>

\* A peer writes one of its messages.
Inject(m) ==
  /\ Len(queue) < ChanSize
  /\ m \in set.injected \ ToSet(node.seen) /\ m \notin ToSet(queue)
  /\ queue' = Append(queue, m)
  /\ UNCHANGED <<set, node, out>>

------------------------------------------------------------------------------
\* Voter

\* Slip: only the last candidate is voted for.
VotesLast(ps) == IF ps = <<>> THEN <<>> ELSE <<OwnVote(Last(ps))>>

\* cast: the votes for the candidates.
Votes(ps) == [i \in DOMAIN ps |-> OwnVote(ps[i])]

\* The timer expires.
Cast ==
  /\ ~node.casted
  /\ out' = out \o Votes(node.candidates)
  /\ node' = [node EXCEPT !.candidates = <<>>, !.casted = TRUE]
  /\ UNCHANGED <<set, queue>>

\* ProposerFilter.Add: the tokens of a proposer after one more.
Added(pf, p) == pf \cup {<<p.pk, p.token>>}
AlreadyProposed(pf, p) == \E t \in pf : t[1] = p.pk /\ t[2] # p.token

Candidates(v, p) == IF p.token > v.top THEN <<p>> ELSE Append(v.candidates, p)

\* Voter2.Handle
HandleProposal(m) ==
  LET p     == m.p
      added == [node EXCEPT !.pf = Added(@, p)]
      next  == [added EXCEPT !.candidates = Candidates(node, p), !.top = p.token]
  IN  IF ~m.valid \/ ~p.prev
        THEN UNCHANGED out /\ node' = [node EXCEPT !.seen = Append(@, m)]
      ELSE IF AlreadyProposed(node.pf, p) \/ p.token < node.top
        THEN UNCHANGED out /\ node' = [added EXCEPT !.seen = Append(@, m)]
      ELSE /\ out' = out \o <<m>> \o (IF node.casted THEN Votes(next.candidates) ELSE <<>>)
           /\ node' = [next EXCEPT !.seen = Append(@, m),
                                   !.candidates = IF node.casted THEN <<>> ELSE @]

------------------------------------------------------------------------------
\* Ballot

Panic(why) == node' = [node EXCEPT !.ingress = "panic", !.why = why] /\ UNCHANGED out

VotersOf(votes, p) == {v[2] : v \in {w \in votes : w[1] = p}}

\* Slip: the threshold itself is enough.
MajorityMin(votes, p) == Cardinality(VotersOf(votes, p)) = set.minv

Majority(votes, p) == Cardinality(VotersOf(votes, p)) = set.minv + 1

Outranked(p) == p.token < node.btop

\* Ballot.Handle
HandleVote(m) ==
  LET p     == m.p
      votes == node.votes \cup {<<p, m.voter>>}
      next  == [node EXCEPT !.btop = p.token, !.bpf = Added(@, p), !.votes = votes,
                            !.seen = Append(@, m)]
  IN  CASE ~m.valid -> Panic("invalid")
        [] m.valid /\ (Outranked(p) \/ AlreadyProposed(node.bpf, p)) -> Panic("refused")
        [] OTHER ->
             /\ out' = Append(out, m)
             /\ node' = IF ~Majority(votes, p) THEN next
                        ELSE IF node.closed THEN [next EXCEPT !.ingress = "panic", !.why = "closed"]
                        ELSE [next EXCEPT !.ingress = "accepting", !.accepted = {p}]

------------------------------------------------------------------------------
\* Round

Read ==
  /\ node.ingress = "read" /\ queue # <<>>
  /\ queue' = Tail(queue)
  /\ IF Head(queue).type = "proposal" THEN HandleProposal(Head(queue)) ELSE HandleVote(Head(queue))
  /\ UNCHANGED set

\* Run writes the member's proposal and waits.
Run ==
  /\ node.run = "new"
  /\ out' = Append(out, ProposalMsg(Proposal(Self, set.own, TRUE, Self), TRUE))
  /\ node' = [node EXCEPT !.run = "waiting"]
  /\ UNCHANGED <<set, queue>>

\* Run receives the accepted proposal and starts the next round on it; the ballot
\* closes its channel.
Accept ==
  /\ node.run = "waiting" /\ node.ingress = "accepting"
  /\ node' = [node EXCEPT !.run = "accepted", !.ingress = "read", !.closed = TRUE]
  /\ UNCHANGED <<set, queue, out>>

\* The context of Run is done.
Cancel ==
  /\ node.run = "waiting"
  /\ node' = [node EXCEPT !.run = "cancelled"]
  /\ UNCHANGED <<set, queue, out>>

\* A panic ends the process.
Alive == node.ingress # "panic"

Next == Alive /\ ((\E m \in set.injected : Inject(m)) \/ Read \/ Cast \/ Run \/ Accept \/ Cancel)

Spec == Init /\ [][Next]_vars

------------------------------------------------------------------------------
Admitted == {m.p : m \in {x \in ToSet(node.seen) : x.type = "proposal" /\ x.valid /\ x.p.prev}}
CastIn(k) == {out[i].p : i \in {x \in 1..k : out[x].type = "vote" /\ out[x].voter = Self}}
Ballots(k) == {out[i] : i \in {x \in 1..k : out[x].type = "vote" /\ out[x].voter # Self}}

\* Once the timer has expired, the voter has voted for every proposal on the last
\* top with the best token it was handed, however these came before and after,
\* and a vote is never followed by one for a weaker proposal (Voter2.Handle, cast).
BestVoted ==
  /\ \A k \in 1..Len(out) : \A p \in CastIn(k) :
       p \in Admitted /\ (out[k] = OwnVote(out[k].p) => p.token <= out[k].p.token)
  /\ node.casted => \A p \in Admitted : p.token = node.top => p \in CastIn(Len(out))

\* The proposal that a round ends with has the votes of more than minv voters, and
\* no vote handled before those outranks it (Ballot.Handle).
AcceptedByMajority ==
  \A p \in node.accepted : \E k \in 1..Len(out) :
    /\ \A m \in Ballots(k) : m.p.token <= p.token
    /\ Cardinality({m.voter : m \in {x \in Ballots(k) : x.p = p}}) > set.minv
==============================================================================
