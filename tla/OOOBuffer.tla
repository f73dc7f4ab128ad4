------------------------------ MODULE OOOBuffer ------------------------------
(***************************************************************************)
(* The buffer of exp/onl/engine/ooo.go as operators on its value: which    *)
(* blocks and rounds are resolved, and which message waits on which.  Each *)
(* operator is one critical section of the buffer's mutex.                 *)
(*                                                                         *)
(* A block message m has fields id, prev and round; m.prev and m.round are *)
(* what Msg.Dependency returns.  Writes and syncs depend on nothing and    *)
(* never enter the buffer.                                                 *)
(***************************************************************************)
EXTENDS Naturals

CONSTANTS
  BlockId,   \* ids of blocks
  RoundNr    \* rounds

\* NewOutOfOrder.  A map entry that is nil is a resolved one; an entry that is
\* absent is neither resolved nor waited on.
Empty ==
  [resolvedBlocks |-> {}, resolvedRounds |-> {},
   onBlocks |-> [i \in BlockId |-> {}], onRounds |-> [r \in RoundNr |-> {}]]

\* Slip: only the round is looked at.
ReadyInRound(o, m) == m.round \in o.resolvedRounds

\* Both dependencies of m are resolved: Handle calls the handler.
Ready(o, m) == m.prev \in o.resolvedBlocks /\ m.round \in o.resolvedRounds

\* Slip: a message waits for its round only.
DeferForRound(o, m) ==
  [o EXCEPT !.onRounds[m.round] =
     IF m.round \in o.resolvedRounds \/ @ # {} THEN @ ELSE {m}]

\* Handle keeps m with the dependencies that are not resolved, unless another
\* message is kept there already ("only add if not exist").
Defer(o, m) ==
  [o EXCEPT
     !.onBlocks[m.prev] =
        IF m.prev \in o.resolvedBlocks \/ @ # {} THEN @ ELSE {m},
     !.onRounds[m.round] =
        IF m.round \in o.resolvedRounds \/ @ # {} THEN @ ELSE {m}]

\* Resolve and ResolveRound take what waits and mark the dependency as resolved.
ResolveBlock(o, id) ==
  [o EXCEPT !.resolvedBlocks = @ \cup {id}, !.onBlocks[id] = {}]

ResolveNr(o, nr) ==
  [o EXCEPT !.resolvedRounds = @ \cup {nr}, !.onRounds[nr] = {}]

\* What is kept.
Kept(o) ==
  (UNION {o.onBlocks[i] : i \in BlockId}) \cup (UNION {o.onRounds[r] : r \in RoundNr})
==============================================================================
