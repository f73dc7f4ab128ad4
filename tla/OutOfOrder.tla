----------------------------- MODULE OutOfOrder ------------------------------
(***************************************************************************)
(* exp/onl/engine/ooo.go: messages are delivered, blocks are resolved and  *)
(* rounds are entered by different goroutines.  Resolve and ResolveRound   *)
(* take the waiting messages under the lock and hand them to Handle again  *)
(* after they let go of it; the handler itself runs in a goroutine per     *)
(* call.                                                                   *)
(***************************************************************************)
EXTENDS OOOBuffer, FiniteSets

CONSTANTS
  Msg,         \* block messages
  MaxDeliver   \* bound: times the network delivers a message

ASSUME MsgAssumption ==
  /\ \A m \in Msg : m.prev \in BlockId /\ m.id \in BlockId /\ m.round \in RoundNr
  /\ MaxDeliver \in Nat

VARIABLES
  ooo,         \* the buffer
  delivered,   \* times each message came in
  again,       \* messages taken out by a Resolve, on their way to Handle
  handled      \* times the handler was called with each message

vars == <<ooo, delivered, again, handled>>

TypeOK ==
  /\ ooo \in [resolvedBlocks : SUBSET BlockId, resolvedRounds : SUBSET RoundNr,
              onBlocks : [BlockId -> SUBSET Msg], onRounds : [RoundNr -> SUBSET Msg]]
  /\ delivered \in [Msg -> 0..MaxDeliver]
  /\ again \in [Msg -> Nat]
  /\ handled \in [Msg -> Nat]

Init ==
  /\ ooo = Empty
  /\ delivered = [m \in Msg |-> 0]
  /\ again = [m \in Msg |-> 0]
  /\ handled = [m \in Msg |-> 0]

Handle(m) ==
  /\ ooo' = Defer(ooo, m)
  /\ handled' = [handled EXCEPT ![m] = IF Ready(ooo, m) THEN @ + 1 ELSE @]

Deliver(m) ==
  /\ delivered[m] < MaxDeliver
  /\ delivered' = [delivered EXCEPT ![m] = @ + 1]
  /\ Handle(m)
  /\ UNCHANGED again

\* Slip: a message that is handed on is not forgotten.
RehandleForever(m) ==
  /\ again[m] > 0
  /\ UNCHANGED again
  /\ Handle(m)
  /\ UNCHANGED delivered

Rehandle(m) ==
  /\ again[m] > 0
  /\ again' = [again EXCEPT ![m] = @ - 1]
  /\ Handle(m)
  /\ UNCHANGED delivered

Take(ms) == again' = [m \in Msg |-> again[m] + IF m \in ms THEN 1 ELSE 0]

\* Slip: the messages that wait are left waiting.
ResolveOnly(id) ==
  /\ id \notin ooo.resolvedBlocks
  /\ UNCHANGED again
  /\ ooo' = [ooo EXCEPT !.resolvedBlocks = @ \cup {id}]
  /\ UNCHANGED <<delivered, handled>>

Resolve(id) ==
  /\ id \notin ooo.resolvedBlocks
  /\ Take(ooo.onBlocks[id])
  /\ ooo' = ResolveBlock(ooo, id)
  /\ UNCHANGED <<delivered, handled>>

ResolveRound(nr) ==
  /\ nr \notin ooo.resolvedRounds
  /\ Take(ooo.onRounds[nr])
  /\ ooo' = ResolveNr(ooo, nr)
  /\ UNCHANGED <<delivered, handled>>

Next ==
  \/ \E m \in Msg : Deliver(m) \/ Rehandle(m)
  \/ \E id \in BlockId : Resolve(id)
  \/ \E nr \in RoundNr : ResolveRound(nr)

\* A goroutine that holds messages passes them on.  Nothing else is promised: not
\* that a message arrives, not that a block or round is ever resolved.
Spec == Init /\ [][Next]_vars /\ \A m \in Msg : WF_vars(Rehandle(m))

------------------------------------------------------------------------------

\* A message is handled only when both things it waits on are resolved.
HandledInOrder ==
  \A m \in Msg : handled[m] > 0 =>
    m.prev \in ooo.resolvedBlocks /\ m.round \in ooo.resolvedRounds

\* No other message waits on the same block or for the same round.  The buffer keeps
\* one message for each: of two that share one, the later is dropped.
Alone(m) == \A n \in Msg : n.prev = m.prev \/ n.round = m.round => n = m

\* Once both are resolved, a message that was delivered is handled, whatever the
\* order in which it, its block and its round came (TestOutOfOrderRoundAndBlock).
EventuallyHandled ==
  \A m \in Msg : Alone(m) =>
    (delivered[m] > 0 /\ Ready(ooo, m) ~> handled[m] > 0)

\* A message that waits on its block and for its round can be taken out by both
\* resolves before either hands it on.  A delivery leads to at most those two calls
\* of the handler, and a message that came once does not go round for ever.
HandledPerDelivery == \A m \in Msg : handled[m] + again[m] <= 2 * delivered[m]

\* ooo.go:74: "Resolve will handle any messages that depended on this block".  A
\* message that was delivered, and that does not have to share what it waits on, is
\* handled or still held somewhere.
NoMessageLost ==
  \A m \in Msg : Alone(m) /\ delivered[m] > 0 =>
    handled[m] > 0 \/ again[m] > 0 \/ m \in Kept(ooo)
==============================================================================
