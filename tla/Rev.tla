--------------------------------- MODULE Rev ---------------------------------
(***************************************************************************)
(* The rev design: members move through rounds by witnessing proposals     *)
(* (rev/engine.go, round.go, ooo.go, chain.go, proposal.go).  A member     *)
(* that has seen enough proposals of a round makes one for the next round  *)
(* that lists what it saw; proposals that come before the ones they list   *)
(* wait in the out-of-order buffer.  A member has one reader, so handling  *)
(* a message is one step; a message to a peer arrives at any later time.   *)
(*                                                                         *)
(* Tokens are genuine and known by (identity, round).  The id of a block   *)
(* is made from its ancestors, so it is the sequence of their proposers    *)
(* and rounds; a proposal is known by its content.  Injected proposals set *)
(* the network off.                                                        *)
(***************************************************************************)
EXTENDS Integers, SequencesExt, FiniteSetsExt

CONSTANT
  Settings    \* settings: the members, as numbers (members), the token of an
              \* identity in a round (token), the messages that set off the
              \* network (injected), the witness threshold (threshold) and a
              \* bound on the rounds that proposals are made for (rounds)

VARIABLES
  set,        \* the setting
  node,       \* state of the members
  net         \* messages under way: proposal, sender, receiver, own or relayed

vars == <<set, node, net>>

GenBlock == <<0>>
Gen == [round |-> 0, pk |-> 0, block |-> GenBlock, witness |-> {}]

Block(prev, round, pk) == prev \o <<10 * round + pk>>
Prev(b) == Front(b)

Proposal(round, pk, prev, witness) ==
  [round |-> round, pk |-> pk, block |-> Block(prev, round, pk), witness |-> witness]

Rank(p) == IF p.round = 0 THEN 0 ELSE set.token[p.pk][p.round]

\* strength: the ranks of a block and of the blocks before it.
strength(b) ==
  FoldSeq(LAMBDA x, sum : sum + (IF x = 0 THEN 0 ELSE set.token[x % 10][x \div 10]), 0, b)

Messages(p, from, kind) ==
  {[p |-> p, from |-> from, to |-> n, kind |-> kind] : n \in set.members \ {from}}

Init ==
  /\ set \in Settings
  /\ node = [n \in set.members |->
       [rounds  |-> <<{Gen}>>,     \* proposals of round r are in rounds[r + 1]
        propose |-> <<TRUE>>,      \* a new top of the round awaits a proposal
        blocks  |-> {GenBlock}, tip |-> GenBlock,
        read    |-> {},            \* proposals read so far
        handled |-> {Gen},
        orphans |-> {},            \* pairs: a proposal and one it waits for
        out     |-> {}]]           \* what is sent while a message is handled
  /\ net = set.injected

------------------------------------------------------------------------------
\* Chain

\* Slip: one proposal is enough on any block.
WitnessThresholdOne(id) == 1

WitnessThreshold(id) == IF id = GenBlock THEN 1 ELSE set.threshold

\* Append compares the new block with the tip, both with their ancestors.
Stronger(tip, b) == strength(tip) < strength(b)

------------------------------------------------------------------------------
\* Round

\* Slip: the block that is built on need not be known.
QuestionAnyPrev(st, p) ==
  /\ p.witness \subseteq st.rounds[p.round]
  /\ Cardinality(p.witness) >= WitnessThreshold(Prev(p.block))

\* Question, asked of the round before the proposal's.
Question(st, p) ==
  /\ p.witness \subseteq st.rounds[p.round]
  /\ Cardinality(p.witness) >= WitnessThreshold(Prev(p.block))
  /\ Prev(p.block) \in st.blocks

\* Slip: a top that came before there was enough to witness is forgotten.
DueTop(st, p) == \A q \in st.rounds[p.round + 1] : Rank(p) > Rank(q)

\* add: is p a new top of the round, or is a proposal for an older top due?
Due(st, p) ==
  \/ st.propose[p.round + 1]
  \/ \A q \in st.rounds[p.round + 1] : Rank(p) > Rank(q)

\* Slip: every observation leads to a proposal.
ObserveAlways(st, p) ==
  LET seen == st.rounds[p.round + 1] \cup {p}
  IN  [seen |-> seen, due |-> FALSE,
       witness |-> IF Cardinality(seen) >= WitnessThreshold(st.tip) THEN seen ELSE {}]

\* Observe: the proposals now seen, and those to witness in a proposal of our own.
Observe(st, p) ==
  LET seen == st.rounds[p.round + 1] \cup {p}
      now  == Due(st, p) /\ Cardinality(seen) >= WitnessThreshold(st.tip)
  IN  [seen |-> seen, due |-> Due(st, p) /\ ~now,
       witness |-> IF now THEN seen ELSE {}]

------------------------------------------------------------------------------
\* Engine.Handle on the state of member n, which also holds what it sends

Enter(st, p) ==
  IF p.round = Len(st.rounds)
    THEN [st EXCEPT !.rounds = Append(@, {}), !.propose = Append(@, FALSE)]
    ELSE st

Accept(n, st, p) ==
  LET newp == p \notin st.rounds[p.round + 1]
      obs  == Observe(st, p)
      own  == IF obs.witness # {} /\ p.round < set.rounds
                THEN Messages(Proposal(p.round + 1, n, st.tip, obs.witness), n, "own")
                ELSE {}
      kept == [st EXCEPT !.rounds[p.round + 1] = obs.seen,
                         !.propose[p.round + 1] = obs.due,
                         !.out = @ \cup own]
  IN  IF newp
        THEN [kept EXCEPT !.blocks = @ \cup {p.block},
                          !.tip = IF Stronger(@, p.block) THEN p.block ELSE @,
                          !.out = @ \cup Messages(p, n, "relay")]
        ELSE kept

Handle(n, st, p) ==
  IF p.round \in 1..Len(st.rounds) /\ p.witness # {} /\ Question(st, p)
    THEN Accept(n, Enter(st, p), p)
    ELSE st

------------------------------------------------------------------------------
\* The out-of-order buffer

\* Slip: what is put aside is not looked at again.
ReleasedNone(st, p) == {}

Released(st, p) == {o[1] : o \in {x \in st.orphans : x[2] = p}}

\* The outcomes of handling the proposals ps, in any order: those that were
\* waiting for one of them are handled, or wait for the next, within.
RECURSIVE handleAll(_, _, _)
handleAll(n, st, ps) ==
  LET deps(p) == p.witness \ st.handled
      now(p)  == [Handle(n, st, p) EXCEPT !.handled = @ \cup {p},
                                          !.orphans = {o \in @ : o[2] # p}]
      handle(p) ==
        IF deps(p) = {}
          THEN UNION {handleAll(n, s, Released(st, p)) : s \in {now(p)}}
          ELSE {[st EXCEPT !.orphans = @ \cup {<<p, d>> : d \in deps(p)}]}
  IN  IF ps = {} THEN {st}
      ELSE UNION {UNION {handleAll(n, s, ps \ {p}) : s \in handle(p)} : p \in ps}

\* The reader takes a message off the broadcast.
Read(m) ==
  /\ m \in net
  /\ \E st \in handleAll(m.to, node[m.to], {m.p}) :
       /\ node' = [node EXCEPT ![m.to] = [st EXCEPT !.out = {}, !.read = @ \cup {m.p}]]
       /\ net' = (net \ {m}) \cup st.out
  /\ UNCHANGED set

Next == \E m \in net : Read(m)

Fairness == WF_vars(Next)
Spec == Init /\ [][Next]_vars /\ Fairness

------------------------------------------------------------------------------
\* Nothing is left behind in the buffer: what was read has been handled or waits
\* for just those of its witnesses that have not, however many it waited for and
\* in whatever order they came (resolve, called from within itself).
NothingLeftBehind ==
  \A n \in set.members : \A p \in node[n].read :
    LET waits == {o[2] : o \in {x \in node[n].orphans : x[1] = p}}
    IN  /\ waits = p.witness \ node[n].handled
        /\ waits = {} => p \in node[n].handled

\* Every block of a member's chain is there with all its ancestors, so that
\* Append never panics, although a proposal waits for its witnesses and not for
\* the proposal of the block that it builds on.
ChainClosed ==
  \A n \in set.members : \A b \in node[n].blocks \ {GenBlock} : Prev(b) \in node[n].blocks

\* A member that accepted a proposal holds the history it rests on: each of its
\* witnesses, of the round before, and theirs, and as many as the block it
\* builds on calls for.
WitnessedHistory ==
  \A n \in set.members : \A r \in 2..Len(node[n].rounds) : \A p \in node[n].rounds[r] :
    /\ p.witness \subseteq node[n].rounds[r - 1]
    /\ Cardinality(p.witness) >= IF Len(p.block) = 2 THEN 1 ELSE set.threshold

Made == UNION {node[n].handled \cup {o[1] : o \in node[n].orphans} : n \in set.members}
          \cup {m.p : m \in net}

\* A member that proposes again for a round does so for a better top that it had
\* not witnessed before: of two proposals of its own, one witnesses all that the
\* other does and something that ranks higher.
ProposesForBetterTop ==
  \A p, q \in Made :
    p.pk = q.pk /\ p.pk \in set.members /\ p.round = q.round /\ p # q =>
      LET more == IF p.witness \subseteq q.witness THEN q.witness ELSE p.witness
          less == IF p.witness \subseteq q.witness THEN p.witness ELSE q.witness
      IN  /\ less \subseteq more
          /\ \E t \in more : \A w \in less : Rank(t) > Rank(w)

\* Among two members the chain reaction that one proposal sets off does not stop
\* before the last round, whatever the threshold (Test2MemberBabySteps).
Reacted ==
  Cardinality(set.members) > 1 =>
    \A n \in set.members : Len(node[n].rounds) = set.rounds + 1
==============================================================================
