------------------------------ MODULE MCLedger -------------------------------
(***************************************************************************)
(* Who owns what: a behaviour is one of the bank on the serializable       *)
(* database or of the key-value state of a block chain.  The part that a   *)
(* behaviour is not about stays as it is at first.                         *)
(***************************************************************************)
EXTENDS Bank, TLC

CONSTANTS Start, Word, Nonce, MaxWrites

VARIABLES design, state, pool

kv == INSTANCE KVState WITH State <- Account, Id <- Client

kvVars == <<state, pool>>
mcvars == <<design, vars, kvVars>>

MCInit == design \in {"bank", "kvstate"} /\ Init /\ kv!Init

MCNext ==
  /\ UNCHANGED design
  /\ \/ design = "bank" /\ Next /\ UNCHANGED kvVars
     \/ design = "kvstate" /\ kv!Next /\ UNCHANGED vars

MCSpec == MCInit /\ [][MCNext]_mcvars

Symmetry == Permutations(Account) \cup Permutations(Client) \cup Permutations(Nonce)

\* The currency of a state stays the same (TransferCurrency, DepositStake).
CurrencyConserved == kv!CurrencyConserved

\* What Pick chose Append can apply (MemPool.Pick, State.Apply).
PickedWritesApply == kv!PickedWritesApply

\* A stake is set once (DepositStake).
StakeSetOnce == kv!StakeSetOnce
==============================================================================
