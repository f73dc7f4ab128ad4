----------------------------- MODULE RetryState ------------------------------
(* The handlers of AppendRetry, the blocks they handle, and what came of them.  *)
EXTENDS Naturals

CONSTANTS
  Handler,   \* goroutines
  Block,     \* the blocks they handle
  BlockOf,   \* BlockOf[h]: the block that h handles
  MaxTry     \* attempts (5 in the code)

ASSUME RetryAssumption ==
  /\ BlockOf \in [Handler -> Block]
  /\ MaxTry \in Nat \ {0}

VARIABLES
  appended,  \* blocks in the chain
  resolved   \* blocks that handlers reported to the out of order buffer and relayed

\* engine.go:255 reports "appended block %s to our chain", and what waited on the block
\* is let through: it is in the chain.
ResolvedIsAppended == resolved \subseteq appended
==============================================================================
