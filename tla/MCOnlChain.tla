----------------------------- MODULE MCOnlChain ------------------------------
(***************************************************************************)
(* Families of blocks to receive.                                          *)
(***************************************************************************)
EXTENDS OnlChain, TLC

Symmetry == Permutations(Proc)

Attributes ==
  [prev : 0..(N - 1), round : 1..3, rank : 1..N, pk : PK,
   dep : {{}, PK \ Founders}, seed : {0, 1}, ok : BOOLEAN]

\* What every family has in common: acyclic, and ranked without ties.
Family(attributes) ==
  {u \in [Block -> attributes] :
     /\ \A b \in Block : u[b].prev < b
     /\ \A b, c \in Block : b # c => u[b].rank # u[c].rank}

\* The founders propose: every tree, every assignment of rounds and ranks; the last
\* block may fail one of the checks.
Shapes ==
  {u \in Family({a \in Attributes : a.dep = {} /\ a.seed = 0 /\ a.pk \in Founders}) :
     \A b \in Block : b < N => u[b].ok}

\* Proposers other than the founders deposit in block 1 and seed their tokens with
\* it; later blocks rank higher, or lower.
LateDeposit ==
  {u \in Family({a \in Attributes : a.ok /\ a.seed = IF a.pk \in Founders THEN 0 ELSE 1}) :
     /\ \A b \in Block : u[b].dep # {} <=> b = 1
     /\ u[1].pk \in Founders
     /\ \/ \A b \in Block : u[b].rank = b
        \/ \A b \in Block : u[b].rank = N + 1 - b}

Blocks == Shapes \cup LateDeposit
==============================================================================
