------------------------------ MODULE MCEngine -------------------------------
(* Instances of Engine for TLC: members 1, 2, ... *)
EXTENDS Engine

Members(k) == {n \in Node : n <= k}

\* A network of k members that all write to one another, with one founder, two rounds
\* of proposals, and no one who joins late, skips a round or is restarted.
Plain(k) ==
  [member |-> Members(k), founder |-> {1}, submitter |-> {},
   peers |-> [n \in Node |-> Members(k) \ {n}], joined |-> [n \in Node |-> 0],
   rounds |-> 2, skip |-> 0, restarts |-> 0]

\* The ring of engine_test.go.
InRing(c) == [c EXCEPT !.peers = [n \in Node |-> {IF n + 1 \in c.member THEN n + 1 ELSE 1}]]

Rivals == [Plain(2) EXCEPT !.founder = {1, 2}]
Relayed == InRing(Plain(3))
Writes == [InRing(Plain(3)) EXCEPT !.submitter = {2, 3}, !.rounds = 1]
Deposit == [Plain(2) EXCEPT !.submitter = {2}]
Crashing == [Plain(2) EXCEPT !.restarts = 1]
Skipping == [Plain(2) EXCEPT !.skip = 1]

\* The second member starts its clock when the first is in round 1 already.
Late == [Plain(2) EXCEPT !.joined[2] = 1]

Networks == {Rivals, Relayed, Writes, Deposit, Crashing, Skipping, Late}
RivalsOnly == {Rivals}
LateOnly == {Late}

\* The member with the best rank changes from round to round.
Turns == [r \in 1..MaxRound, n \in Node |-> 1 + ((n + r) % Cardinality(Node))]
==============================================================================
