----------------------------- MODULE AppendRetry -----------------------------
(***************************************************************************)
(* handleBlock of exp/onl/engine/engine.go: handlers append blocks at the  *)
(* same time.  An append whose transaction overlapped with one that        *)
(* committed is refused and tried again, up to MaxTry times; after that    *)
(* the handler goes on as if the block had been appended.  What an append  *)
(* does is OnlChain's subject; here it commits or it does not.             *)
(***************************************************************************)
EXTENDS RetryState, FiniteSets

VARIABLES
  pc,        \* where a handler is: between attempts, in one, or done
  tries,     \* its attempts that were refused
  stale      \* another append committed since its attempt started

vars == <<pc, tries, stale, appended, resolved>>

TypeOK ==
  /\ pc \in [Handler -> {"loop", "append", "done"}]
  /\ tries \in [Handler -> Nat]
  /\ stale \in [Handler -> BOOLEAN]
  /\ appended \subseteq Block
  /\ resolved \subseteq Block

Init ==
  /\ pc = [h \in Handler |-> "loop"]
  /\ tries = [h \in Handler |-> 0]
  /\ stale = [h \in Handler |-> FALSE]
  /\ appended = {}
  /\ resolved = {}

\* Append opens its transaction and finds the block missing.
Start(h) ==
  /\ pc[h] = "loop" /\ tries[h] < MaxTry
  /\ BlockOf[h] \notin appended
  /\ pc' = [pc EXCEPT ![h] = "append"]
  /\ stale' = [stale EXCEPT ![h] = FALSE]
  /\ UNCHANGED <<tries, appended, resolved>>

\* Slip: a block that exists is tried for ever.
ExistsRetry(h) ==
  /\ pc[h] = "loop" /\ tries[h] < MaxTry
  /\ BlockOf[h] \in appended
  /\ UNCHANGED <<pc, tries, stale, appended, resolved>>

\* ErrBlockExist: the handler returns.
Exists(h) ==
  /\ pc[h] = "loop" /\ tries[h] < MaxTry
  /\ BlockOf[h] \in appended
  /\ pc' = [pc EXCEPT ![h] = "done"]
  /\ UNCHANGED <<tries, stale, appended, resolved>>

\* The transaction commits; then Resolve and the relay follow.
Commit(h) ==
  /\ pc[h] = "append" /\ ~stale[h]
  /\ appended' = appended \cup {BlockOf[h]}
  /\ stale' = [g \in Handler |-> stale[g] \/ pc[g] = "append"]
  /\ resolved' = resolved \cup {BlockOf[h]}
  /\ pc' = [pc EXCEPT ![h] = "done"]
  /\ UNCHANGED tries

\* ErrAppendConflict: once more.
Conflict(h) ==
  /\ pc[h] = "append" /\ stale[h]
  /\ tries' = [tries EXCEPT ![h] = @ + 1]
  /\ stale' = [stale EXCEPT ![h] = FALSE]
  /\ pc' = [pc EXCEPT ![h] = "loop"]
  /\ UNCHANGED <<appended, resolved>>

\* Slip: one attempt less.
FallThroughEarly(h) ==
  /\ pc[h] = "loop" /\ tries[h] >= MaxTry - 1
  /\ resolved' = resolved \cup {BlockOf[h]}
  /\ pc' = [pc EXCEPT ![h] = "done"]
  /\ UNCHANGED <<tries, stale, appended>>

\* The loop is over without an append: Resolve and the relay follow all the same.
FallThrough(h) ==
  /\ pc[h] = "loop" /\ tries[h] >= MaxTry
  /\ resolved' = resolved \cup {BlockOf[h]}
  /\ pc' = [pc EXCEPT ![h] = "done"]
  /\ UNCHANGED <<tries, stale, appended>>

Next ==
  \E h \in Handler :
    Start(h) \/ Exists(h) \/ Commit(h) \/ Conflict(h) \/ FallThrough(h)

Spec == Init /\ [][Next]_vars /\ WF_vars(Next)

------------------------------------------------------------------------------

\* What handlers, which do not keep one another from getting through, come to: all end.
AllHandled == \A h \in Handler : pc[h] = "done"
==============================================================================
