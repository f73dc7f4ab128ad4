------------------------------ MODULE TwoTower -------------------------------
(***************************************************************************)
(* The two tower design (tt): an engine that reads votes and blocks, keeps *)
(* those that depend on a block it has not got, feeds votes to a miner and *)
(* writes the blocks it mines from combinations of votes.                  *)
(*                                                                         *)
(* Every vote and block is handled in a goroutine of its own.  The map of  *)
(* kept messages has no lock: the reading goroutine and those that handle  *)
(* blocks read and store its entries in any order.  (The runtime may also  *)
(* end the program when it notices; the model then just stops.)            *)
(***************************************************************************)
EXTENDS Naturals, Sequences, FiniteSets, FiniteSetsExt, Bags, BagsExt

CONSTANTS
  BlockId, \* blocks that are received, by their id
  Vote,    \* votes that are received, numbers in the order of their ids
  Dep,     \* what each message depends on (Dependency): a block or Nil
  Nil,     \* NilID
  Copies,  \* how often each message is delivered
  Solves   \* the combinations of votes whose block meets the target

VARIABLES
  inbox,   \* copies of a message still to be delivered
  reader,  \* what the reader is about to store: a message and the entry it read
  defers,  \* messages by the block they wait for; <<>> stands for nil
  tasks,   \* the goroutines, a bag
  chain,   \* blocks appended
  tips,    \* votes the miner was fed, by tip
  mined,   \* the channel of mined blocks, of capacity one
  out      \* blocks written to the broadcast

vars == <<inbox, reader, defers, tasks, chain, tips, mined, out>>

Msg == BlockId \cup Vote
Tip == BlockId \cup {Nil}

Init ==
  /\ inbox = Copies /\ reader = <<>> /\ defers = <<>>
  /\ tasks = EmptyBag /\ chain = {}
  /\ tips = [t \in Tip |-> {}]
  /\ mined = <<>> /\ out = {}

\* A goroutine: what it does next, for which message or tip, with which votes.
Task(do, id, votes) == [do |-> do, id |-> id, votes |-> votes]

Becomes(task, more) == (tasks (-) SetToBag({task})) (+) more

------------------------------------------------------------------------------
\* Mining

\* Slip: the last combination, of all the votes, is not tried.
CombinationsShort(vids) ==
  [index \in 1 .. 2 ^ Len(vids) - 1 |->
     {vids[j] : j \in {k \in DOMAIN vids : ((index - 1) \div 2 ^ (k - 1)) % 2 = 1}}]

\* PowerSet: the combinations of a slice, by the bits of an index.
Combinations(vids) ==
  [index \in 1 .. 2 ^ Len(vids) |->
     {vids[j] : j \in {k \in DOMAIN vids : ((index - 1) \div 2 ^ (k - 1)) % 2 = 1}}]

SortedVotes(votes) ==
  [i \in 1 .. Cardinality(votes) |->
     CHOOSE v \in votes : Cardinality({w \in votes : w < v}) = i - 1]

\* Mine: the first combination but the empty one that solves the puzzle, or {}.
Mine(votes) ==
  LET comb == Combinations(SortedVotes(votes))
      good == {i \in DOMAIN comb : comb[i] # {} /\ comb[i] \in Solves}
  IN IF good = {} THEN {} ELSE comb[Min(good)]

------------------------------------------------------------------------------
\* OutOfOrder

\* Engine.Handle starts a goroutine for each message.
Handler(m) == Task(IF m \in Vote THEN "vote" ELSE "append", m, {})

Handlers(msgs) ==
  [t \in {Handler(msgs[i]) : i \in DOMAIN msgs} |->
     Cardinality({i \in DOMAIN msgs : Handler(msgs[i]) = t})]

\* Slip: an entry in the map, whatever is in it, means resolved.
ResolvedAny(id) == id \in DOMAIN defers

Resolved(id) == id \in DOMAIN defers /\ defers[id] = <<>>

Store(id, msgs) == [d \in DOMAIN defers \cup {id} |-> IF d = id THEN msgs ELSE defers[d]]

\* The reading goroutine gets a message and looks its dependency up.
Read(m) ==
  /\ inbox[m] > 0 /\ reader = <<>>
  /\ inbox' = [inbox EXCEPT ![m] = @ - 1]
  /\ IF Dep[m] = Nil \/ Resolved(Dep[m])
       THEN tasks' = tasks (+) Handlers(<<m>>) /\ UNCHANGED reader
       ELSE /\ reader' = <<m, IF Dep[m] \in DOMAIN defers THEN defers[Dep[m]] ELSE <<>>>>
            /\ UNCHANGED tasks
  /\ UNCHANGED <<defers, chain, tips, mined, out>>

\* It stores what it read with the message appended.
Defer ==
  /\ reader # <<>>
  /\ defers' = Store(Dep[reader[1]], Append(reader[2], reader[1]))
  /\ reader' = <<>>
  /\ UNCHANGED <<inbox, tasks, chain, tips, mined, out>>

------------------------------------------------------------------------------
\* The goroutines

\* HandleBlock appends the block.
AppendBlock(t) ==
  /\ t.do = "append"
  /\ chain' = chain \cup {t.id}
  /\ tasks' = Becomes(t, SetToBag({Task("resolve", t.id, {})}))
  /\ UNCHANGED <<inbox, reader, defers, tips, mined, out>>

\* Resolve reads the messages that wait for it and handles them, ...
Resolve(t) ==
  /\ t.do = "resolve"
  /\ tasks' = IF t.id \in DOMAIN defers
                THEN Becomes(t, SetToBag({Task("clear", t.id, {})}) (+) Handlers(defers[t.id]))
                ELSE Becomes(t, EmptyBag)
  /\ UNCHANGED <<inbox, reader, defers, chain, tips, mined, out>>

\* ... and then marks the block resolved.
Clear(t) ==
  /\ t.do = "clear"
  /\ defers' = Store(t.id, <<>>)
  /\ tasks' = Becomes(t, EmptyBag)
  /\ UNCHANGED <<inbox, reader, chain, tips, mined, out>>

\* HandleVote and Feed: the vote is stored, and all votes of the tip are mined.
Feed(t) ==
  /\ t.do = "vote"
  /\ tips' = [tips EXCEPT ![Dep[t.id]] = @ \cup {t.id}]
  /\ tasks' = Becomes(t, SetToBag({Task("mine", Dep[t.id], tips'[Dep[t.id]])}))
  /\ UNCHANGED <<inbox, reader, defers, chain, mined, out>>

MineBlock(t) ==
  /\ t.do = "mine"
  /\ IF Mine(t.votes) = {}
       THEN tasks' = Becomes(t, EmptyBag) /\ UNCHANGED mined
       ELSE /\ mined = <<>>
            /\ mined' = <<[prev |-> t.id, votes |-> Mine(t.votes)]>>
            /\ tasks' = Becomes(t, EmptyBag)
  /\ UNCHANGED <<inbox, reader, defers, chain, tips, out>>

\* The goroutine that writes mined blocks (Next).
WriteBlock ==
  /\ mined # <<>>
  /\ out' = out \cup {mined[1]}
  /\ mined' = <<>>
  /\ UNCHANGED <<inbox, reader, defers, tasks, chain, tips>>

Next ==
  \/ \E m \in Msg : Read(m)
  \/ \E t \in BagToSet(tasks) :
       AppendBlock(t) \/ Resolve(t) \/ Clear(t) \/ Feed(t) \/ MineBlock(t)
  \/ Defer \/ WriteBlock

Spec == Init /\ [][Next]_vars

------------------------------------------------------------------------------
\* Votes reach the miner and blocks the chain only after the block they depend on was
\* appended, in whatever order messages come and the goroutines run ("assume: the tip
\* exists in the chain", Feed; OutOfOrder.Handle and Resolve).
DependenciesFirst ==
  /\ \A b \in chain : Dep[b] \in chain \cup {Nil}
  /\ \A t \in Tip : tips[t] # {} => t \in chain \cup {Nil}

Idle == tasks = EmptyBag /\ mined = <<>>

\* When the miner comes to rest no combination of the votes for a tip was overlooked:
\* if one solves the puzzle a block was written for that tip, and every block written
\* is made of votes for its tip that solve it (Feed, mine, Mine, PowerSet).
NoCombinationMissed ==
  /\ Idle => \A t \in Tip :
       (\E votes \in SUBSET tips[t] : votes # {} /\ votes \in Solves) => \E b \in out : b.prev = t
  /\ \A b \in out : b.votes \in Solves /\ b.votes # {} /\ b.votes \subseteq tips[b.prev]
==============================================================================
