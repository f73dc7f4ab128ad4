-------------------------- MODULE OutOfOrderProofs ---------------------------
(***************************************************************************)
(* The out of order buffer, for any set of messages: nothing is handled    *)
(* before what it depends on, no message is lost that does not wait on the *)
(* same block or for the same round as another one, and a delivery leads   *)
(* to at most two calls of the handler.                                    *)
(***************************************************************************)
EXTENDS OutOfOrder, TLAPS

\* The buffers that TypeOK allows.
BufferType ==
  [resolvedBlocks : SUBSET BlockId, resolvedRounds : SUBSET RoundNr,
   onBlocks : [BlockId -> SUBSET Msg], onRounds : [RoundNr -> SUBSET Msg]]

\* A message is kept under its own dependencies.
KeptInPlace ==
  /\ \A i \in BlockId : \A m \in ooo.onBlocks[i] : m.prev = i
  /\ \A r \in RoundNr : \A m \in ooo.onRounds[r] : m.round = r

\* A message that was delivered is handled, or on its way, or kept in its place.
Accounted ==
  \A m \in Msg : Alone(m) /\ delivered[m] > 0 =>
    \/ handled[m] > 0
    \/ again[m] > 0
    \/ m \in ooo.onBlocks[m.prev]
    \/ m \in ooo.onRounds[m.round]

\* How often a message is kept.
Copies(m) ==
  (IF m \in ooo.onBlocks[m.prev] THEN 1 ELSE 0)
    + (IF m \in ooo.onRounds[m.round] THEN 1 ELSE 0)

\* A delivery pays for two calls.  The copies that are kept will each ask for one, and
\* a message that was taken out has something it no longer waits on, so that Handle
\* keeps it at most once more.
PaidFor ==
  \A m \in Msg :
    /\ handled[m] + again[m] + Copies(m) <= 2 * delivered[m]
    /\ again[m] > 0 => m.prev \in ooo.resolvedBlocks \/ m.round \in ooo.resolvedRounds

\* What Handle does to the buffer keeps it well-formed.
LEMMA DeferType ==
  ASSUME NEW o \in BufferType, NEW m \in Msg
  PROVE  Defer(o, m) \in BufferType
BY MsgAssumption DEF BufferType, Defer

\* So do Resolve and ResolveRound.
LEMMA ResolveType ==
  ASSUME NEW o \in BufferType
  PROVE  /\ \A id \in BlockId : ResolveBlock(o, id) \in BufferType
         /\ \A nr \in RoundNr : ResolveNr(o, nr) \in BufferType
BY DEF BufferType, ResolveBlock, ResolveNr

\* The variables keep their types.
LEMMA TypeStep == TypeOK /\ [Next]_vars => TypeOK'
<1> SUFFICES ASSUME TypeOK, [Next]_vars PROVE TypeOK'
  OBVIOUS
<1> USE MsgAssumption DEF TypeOK, BufferType
<1>1. ASSUME NEW m \in Msg, Handle(m)
      PROVE  ooo' \in BufferType /\ handled' \in [Msg -> Nat]
  BY <1>1, DeferType DEF Handle
<1>2. ASSUME NEW m \in Msg, Deliver(m) PROVE TypeOK'
  BY <1>1, <1>2 DEF Deliver
<1>3. ASSUME NEW m \in Msg, Rehandle(m) PROVE TypeOK'
  BY <1>1, <1>3 DEF Rehandle
<1>4. ASSUME NEW ms, Take(ms) PROVE again' \in [Msg -> Nat]
  BY <1>4 DEF Take
<1>5. ASSUME NEW id \in BlockId, Resolve(id) PROVE TypeOK'
  BY <1>4, <1>5, ResolveType DEF Resolve
<1>6. ASSUME NEW nr \in RoundNr, ResolveRound(nr) PROVE TypeOK'
  BY <1>4, <1>6, ResolveType DEF ResolveRound
<1>7. CASE UNCHANGED vars
  BY <1>7 DEF vars
<1> QED
  BY <1>2, <1>3, <1>5, <1>6, <1>7 DEF Next

\* They have them at the start.
LEMMA TypeInit == Init => TypeOK
BY MsgAssumption DEF Init, TypeOK, BufferType, Empty

\* Handle, in terms of the buffer's fields.
LEMMA HandleFields ==
  ASSUME TypeOK, NEW m \in Msg, Handle(m)
  PROVE  /\ ooo'.resolvedBlocks = ooo.resolvedBlocks
         /\ ooo'.resolvedRounds = ooo.resolvedRounds
         /\ \A i \in BlockId : ooo'.onBlocks[i] =
              IF i = m.prev /\ i \notin ooo.resolvedBlocks /\ ooo.onBlocks[i] = {}
                THEN {m} ELSE ooo.onBlocks[i]
         /\ \A r \in RoundNr : ooo'.onRounds[r] =
              IF r = m.round /\ r \notin ooo.resolvedRounds /\ ooo.onRounds[r] = {}
                THEN {m} ELSE ooo.onRounds[r]
BY MsgAssumption DEF TypeOK, BufferType, Handle, Defer

\* Messages stay under their own dependencies.
LEMMA InPlaceStep == TypeOK /\ KeptInPlace /\ [Next]_vars => KeptInPlace'
<1> SUFFICES ASSUME TypeOK, KeptInPlace, [Next]_vars PROVE KeptInPlace'
  OBVIOUS
<1>1. ASSUME NEW m \in Msg, Handle(m) PROVE KeptInPlace'
  <2>1. ASSUME NEW i \in BlockId, NEW n \in ooo'.onBlocks[i] PROVE n.prev = i
    <3>1. \/ ooo'.onBlocks[i] = ooo.onBlocks[i]
          \/ i = m.prev /\ ooo'.onBlocks[i] = {m}
      BY <1>1, HandleFields
    <3>2. CASE ooo'.onBlocks[i] = ooo.onBlocks[i]
      BY <2>1, <3>2 DEF KeptInPlace
    <3>3. CASE i = m.prev /\ ooo'.onBlocks[i] = {m}
      BY <2>1, <3>3
    <3> QED
      BY <3>1, <3>2, <3>3
  <2>2. ASSUME NEW r \in RoundNr, NEW n \in ooo'.onRounds[r] PROVE n.round = r
    <3>1. \/ ooo'.onRounds[r] = ooo.onRounds[r]
          \/ r = m.round /\ ooo'.onRounds[r] = {m}
      BY <1>1, HandleFields
    <3>2. CASE ooo'.onRounds[r] = ooo.onRounds[r]
      BY <2>2, <3>2 DEF KeptInPlace
    <3>3. CASE r = m.round /\ ooo'.onRounds[r] = {m}
      BY <2>2, <3>3
    <3> QED
      BY <3>1, <3>2, <3>3
  <2> QED
    BY <2>1, <2>2 DEF KeptInPlace
<1>2. ASSUME NEW id \in BlockId, Resolve(id) PROVE KeptInPlace'
  BY <1>2 DEF Resolve, ResolveBlock, TypeOK, KeptInPlace
<1>3. ASSUME NEW nr \in RoundNr, ResolveRound(nr) PROVE KeptInPlace'
  BY <1>3 DEF ResolveRound, ResolveNr, TypeOK, KeptInPlace
<1>4. CASE UNCHANGED vars
  BY <1>4 DEF vars, KeptInPlace
<1> QED
  BY <1>1, <1>2, <1>3, <1>4 DEF Next, Deliver, Rehandle

\* What was handled in order stays so: nothing that is resolved is ever unresolved.
LEMMA InOrderStep == TypeOK /\ HandledInOrder /\ [Next]_vars => HandledInOrder'
<1> SUFFICES ASSUME TypeOK, HandledInOrder, [Next]_vars PROVE HandledInOrder'
  OBVIOUS
<1> USE DEF HandledInOrder, Ready
<1>1. ASSUME NEW m \in Msg, Handle(m) PROVE HandledInOrder'
  BY <1>1, HandleFields DEF Handle, TypeOK
<1>2. ASSUME NEW id \in BlockId, Resolve(id) PROVE HandledInOrder'
  BY <1>2 DEF Resolve, ResolveBlock, TypeOK
<1>3. ASSUME NEW nr \in RoundNr, ResolveRound(nr) PROVE HandledInOrder'
  BY <1>3 DEF ResolveRound, ResolveNr, TypeOK
<1>4. CASE UNCHANGED vars
  BY <1>4 DEF vars
<1> QED
  BY <1>1, <1>2, <1>3, <1>4 DEF Next, Deliver, Rehandle

\* Handle accounts for its message: if another one were kept in its place, the two
\* would have a dependency in common.
LEMMA HandleAccounts ==
  ASSUME TypeOK, KeptInPlace, NEW m \in Msg, Alone(m), Handle(m)
  PROVE  \/ handled'[m] > 0
         \/ m \in ooo'.onBlocks[m.prev]
         \/ m \in ooo'.onRounds[m.round]
<1>1. CASE Ready(ooo, m)
  BY <1>1 DEF Handle, TypeOK
<1>2. CASE m.prev \notin ooo.resolvedBlocks
  <2>1. \A n \in ooo.onBlocks[m.prev] : n = m
    BY MsgAssumption DEF Alone, KeptInPlace, TypeOK
  <2> QED
    BY <1>2, <2>1, HandleFields, MsgAssumption
<1>3. CASE m.round \notin ooo.resolvedRounds
  <2>1. \A n \in ooo.onRounds[m.round] : n = m
    BY MsgAssumption DEF Alone, KeptInPlace, TypeOK
  <2> QED
    BY <1>3, <2>1, HandleFields, MsgAssumption
<1> QED
  BY <1>1, <1>2, <1>3 DEF Ready

\* Every step keeps every message accounted for.
LEMMA AccountedStep == TypeOK /\ KeptInPlace /\ Accounted /\ [Next]_vars => Accounted'
<1> SUFFICES ASSUME TypeOK, KeptInPlace, Accounted, [Next]_vars,
                    NEW n \in Msg, Alone(n), delivered'[n] > 0
             PROVE  \/ handled'[n] > 0
                    \/ again'[n] > 0
                    \/ n \in ooo'.onBlocks[n.prev]
                    \/ n \in ooo'.onRounds[n.round]
  BY DEF Accounted, Alone
<1> USE MsgAssumption DEF Accounted
<1>1. ASSUME NEW m \in Msg, Handle(m), n # m
      PROVE  /\ handled'[n] = handled[n]
             /\ n \in ooo.onBlocks[n.prev] => n \in ooo'.onBlocks[n.prev]
             /\ n \in ooo.onRounds[n.round] => n \in ooo'.onRounds[n.round]
  BY <1>1, HandleFields DEF Handle, TypeOK
<1>2. ASSUME NEW m \in Msg, Deliver(m) \/ Rehandle(m) PROVE
               \/ handled'[n] > 0
               \/ again'[n] > 0
               \/ n \in ooo'.onBlocks[n.prev]
               \/ n \in ooo'.onRounds[n.round]
  <2>1. Handle(m)
    BY <1>2 DEF Deliver, Rehandle
  <2>2. CASE n = m
    BY <2>1, <2>2, HandleAccounts
  <2>3. CASE n # m
    <3>1. delivered'[n] = delivered[n] /\ again'[n] = again[n]
      BY <1>2, <2>3 DEF Deliver, Rehandle, TypeOK
    <3> QED
      BY <2>1, <2>3, <3>1, <1>1
  <2> QED
    BY <2>2, <2>3
<1>3. ASSUME NEW ms, Take(ms)
      PROVE  (n \in ms => again'[n] > 0) /\ (again[n] > 0 => again'[n] > 0)
  BY <1>3 DEF Take, TypeOK
<1>4. ASSUME NEW id \in BlockId, Resolve(id) PROVE
               \/ handled'[n] > 0
               \/ again'[n] > 0
               \/ n \in ooo'.onBlocks[n.prev]
               \/ n \in ooo'.onRounds[n.round]
  BY <1>3, <1>4 DEF Resolve, ResolveBlock, TypeOK
<1>5. ASSUME NEW nr \in RoundNr, ResolveRound(nr) PROVE
               \/ handled'[n] > 0
               \/ again'[n] > 0
               \/ n \in ooo'.onBlocks[n.prev]
               \/ n \in ooo'.onRounds[n.round]
  BY <1>3, <1>5 DEF ResolveRound, ResolveNr, TypeOK
<1>6. CASE UNCHANGED vars
  BY <1>6 DEF vars
<1> QED
  BY <1>2, <1>4, <1>5, <1>6 DEF Next

\* Every step is paid for.
LEMMA PaidForStep == TypeOK /\ KeptInPlace /\ PaidFor /\ [Next]_vars => PaidFor'
<1> SUFFICES ASSUME TypeOK, KeptInPlace, PaidFor, [Next]_vars, NEW n \in Msg
             PROVE  /\ handled'[n] + again'[n] + Copies(n)' <= 2 * delivered'[n]
                    /\ again'[n] > 0 => \/ n.prev \in ooo'.resolvedBlocks
                                       \/ n.round \in ooo'.resolvedRounds
  BY DEF PaidFor
<1>1. n.prev \in BlockId /\ n.round \in RoundNr
  BY MsgAssumption
<1>2. /\ handled[n] \in Nat /\ again[n] \in Nat /\ delivered[n] \in Nat
      /\ handled[n] + again[n] + Copies(n) <= 2 * delivered[n]
      /\ again[n] > 0 => n.prev \in ooo.resolvedBlocks \/ n.round \in ooo.resolvedRounds
  BY MsgAssumption DEF TypeOK, PaidFor
<1>3. ASSUME NEW m \in Msg, Handle(m), m # n
      PROVE  /\ handled'[n] = handled[n] /\ Copies(n)' <= Copies(n)
             /\ ooo'.resolvedBlocks = ooo.resolvedBlocks
             /\ ooo'.resolvedRounds = ooo.resolvedRounds
  <2>1. /\ ooo'.onBlocks[n.prev] \in {{m}, ooo.onBlocks[n.prev]}
        /\ ooo'.onRounds[n.round] \in {{m}, ooo.onRounds[n.round]}
        /\ ooo'.resolvedBlocks = ooo.resolvedBlocks
        /\ ooo'.resolvedRounds = ooo.resolvedRounds
    BY <1>1, <1>3, HandleFields
  <2>2. /\ n \in ooo'.onBlocks[n.prev] => n \in ooo.onBlocks[n.prev]
        /\ n \in ooo'.onRounds[n.round] => n \in ooo.onRounds[n.round]
    BY <1>3, <2>1
  <2>3. handled'[n] = handled[n]
    BY <1>3 DEF Handle, TypeOK
  <2> QED
    BY <2>1, <2>2, <2>3 DEF Copies
<1>4. ASSUME Handle(n)
      PROVE  /\ Ready(ooo, n) => handled'[n] = handled[n] + 1 /\ Copies(n)' = Copies(n)
             /\ ~Ready(ooo, n) => handled'[n] = handled[n]
             /\ \/ Copies(n)' <= Copies(n) + 1
                \/ /\ n.prev \notin ooo.resolvedBlocks /\ n.round \notin ooo.resolvedRounds
                   /\ Copies(n)' = Copies(n) + 2
             /\ ooo'.resolvedBlocks = ooo.resolvedBlocks
             /\ ooo'.resolvedRounds = ooo.resolvedRounds
  <2>1. /\ n \in ooo.onBlocks[n.prev] => n \in ooo'.onBlocks[n.prev]
        /\ n \in ooo'.onBlocks[n.prev] =>
             n \in ooo.onBlocks[n.prev] \/ n.prev \notin ooo.resolvedBlocks
    BY <1>1, <1>4, HandleFields
  <2>2. /\ n \in ooo.onRounds[n.round] => n \in ooo'.onRounds[n.round]
        /\ n \in ooo'.onRounds[n.round] =>
             n \in ooo.onRounds[n.round] \/ n.round \notin ooo.resolvedRounds
    BY <1>1, <1>4, HandleFields
  <2>3. handled'[n] = IF Ready(ooo, n) THEN handled[n] + 1 ELSE handled[n]
    BY <1>4 DEF Handle, TypeOK
  <2>4. /\ ooo'.resolvedBlocks = ooo.resolvedBlocks
        /\ ooo'.resolvedRounds = ooo.resolvedRounds
    BY <1>4, HandleFields
  <2> QED
    BY <2>1, <2>2, <2>3, <2>4 DEF Ready, Copies
<1>5. ASSUME NEW m \in Msg, Deliver(m) PROVE
               /\ handled'[n] + again'[n] + Copies(n)' <= 2 * delivered'[n]
               /\ again'[n] > 0 => \/ n.prev \in ooo'.resolvedBlocks
                                  \/ n.round \in ooo'.resolvedRounds
  <2>1. CASE m = n
    BY <1>2, <1>4, <1>5, <2>1 DEF Deliver, Ready, TypeOK, Copies
  <2>2. CASE m # n
    BY <1>2, <1>3, <1>5, <2>2 DEF Deliver, TypeOK, Copies
  <2> QED
    BY <2>1, <2>2
<1>6. ASSUME NEW m \in Msg, Rehandle(m) PROVE
               /\ handled'[n] + again'[n] + Copies(n)' <= 2 * delivered'[n]
               /\ again'[n] > 0 => \/ n.prev \in ooo'.resolvedBlocks
                                  \/ n.round \in ooo'.resolvedRounds
  <2>1. CASE m = n
    BY <1>2, <1>4, <1>6, <2>1 DEF Rehandle, Ready, TypeOK, Copies
  <2>2. CASE m # n
    BY <1>2, <1>3, <1>6, <2>2 DEF Rehandle, TypeOK, Copies
  <2> QED
    BY <2>1, <2>2
<1>7. ASSUME NEW id \in BlockId, Resolve(id) PROVE
               /\ handled'[n] + again'[n] + Copies(n)' <= 2 * delivered'[n]
               /\ again'[n] > 0 => \/ n.prev \in ooo'.resolvedBlocks
                                  \/ n.round \in ooo'.resolvedRounds
  BY <1>1, <1>2, <1>7 DEF Resolve, ResolveBlock, Take, KeptInPlace, TypeOK, Copies
<1>8. ASSUME NEW nr \in RoundNr, ResolveRound(nr) PROVE
               /\ handled'[n] + again'[n] + Copies(n)' <= 2 * delivered'[n]
               /\ again'[n] > 0 => \/ n.prev \in ooo'.resolvedBlocks
                                  \/ n.round \in ooo'.resolvedRounds
  BY <1>1, <1>2, <1>8 DEF ResolveRound, ResolveNr, Take, KeptInPlace, TypeOK, Copies
<1>9. CASE UNCHANGED vars
  BY <1>2, <1>9 DEF vars, Copies
<1> QED
  BY <1>5, <1>6, <1>7, <1>8, <1>9 DEF Next

\* The buffer's variables have their types in every state.
THEOREM TypeCorrect == Spec => []TypeOK
BY TypeInit, TypeStep, PTL DEF Spec

\* The handler is never called with a block before its predecessor is resolved and its
\* round is entered.
THEOREM InOrder == Spec => []HandledInOrder
<1>1. Init => HandledInOrder
  BY DEF Init, HandledInOrder
<1> QED
  BY <1>1, TypeInit, TypeStep, InOrderStep, PTL DEF Spec

\* The buffer loses no message that does not share a dependency with another one,
\* whatever the order of deliveries and resolves and whatever happens to the others.
THEOREM NothingLost == Spec => []NoMessageLost
<1>1. Init => KeptInPlace /\ Accounted
  BY DEF Init, Empty, KeptInPlace, Accounted
<1>2. Accounted => NoMessageLost
  BY MsgAssumption DEF Accounted, NoMessageLost, Kept
<1> QED
  BY <1>1, <1>2, TypeInit, TypeStep, InPlaceStep, AccountedStep, PTL DEF Spec

\* A delivery leads to at most two calls of the handler, although a message can be
\* taken out by both resolves before either hands it on.
THEOREM TwoCallsPerDelivery == Spec => []HandledPerDelivery
<1>1. Init => KeptInPlace /\ PaidFor
  BY MsgAssumption DEF Init, Empty, KeptInPlace, PaidFor, Copies
<1>2. TypeOK /\ PaidFor => HandledPerDelivery
  BY DEF TypeOK, PaidFor, Copies, HandledPerDelivery
<1> QED
  BY <1>1, <1>2, TypeInit, TypeStep, InPlaceStep, PaidForStep, PTL DEF Spec
==============================================================================
