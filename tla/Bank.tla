-------------------------------- MODULE Bank ---------------------------------
(***************************************************************************)
(* The bank of exp/onl/ssi/bank.go on top of the ssi database.  Every      *)
(* client runs one call at a time; a call is a transaction whose reads,    *)
(* writes and commit interleave with those of the other clients.           *)
(*                                                                         *)
(* The gob round trip in TransferFunds copies the transaction's data as    *)
(* it is, so the copy is the transaction.                                  *)
(***************************************************************************)
EXTENDS Integers, FiniteSetsExt

CONSTANTS
  Account,
  Client,
  Opening,   \* balances accounts are opened with
  Amount,    \* amounts clients transfer
  Half,      \* int64 ranges over -Half .. Half - 1
  NoVal, Unread, MaxTime

ASSUME BankAssumption ==
  /\ Half \in Nat \ {0}
  /\ Opening \cup Amount \subseteq (-Half)..(Half - 1)

Int64 == (-Half)..(Half - 1)

VARIABLES
  store, time, commits, begun, snapshot, timeStart, timeCommit,
  readRows, writeRows, reads, since,
  call,    \* the call a client is in
  pc,      \* how far it got
  opened   \* history: what the accounts that exist were opened with

dbVars == <<store, time, commits, begun, snapshot, timeStart, timeCommit,
            readRows, writeRows, reads, since>>
vars == <<dbVars, call, pc, opened>>

DB == INSTANCE SSI WITH Key <- Account, Val <- Int64, Tx <- Client

Open == [op : {"open"}, from : Account, amount : Opening]
Transfer == [op : {"transfer"}, from : Account, to : Account, amount : Amount]
Balance == [op : {"balance"}, from : Account]
Call == Open \cup Transfer \cup Balance

NoCall == [op |-> "none"]

Init ==
  /\ DB!Init
  /\ call = [c \in Client |-> NoCall]
  /\ pc = [c \in Client |-> "idle"]
  /\ opened = 0

\* Encoding a sum for storage keeps the 64 bits the addition leaves of it.
int64b(n) == ((n + Half) % (2 * Half)) - Half

Goto(c, l) == pc' = [pc EXCEPT ![c] = l]

At(c, op, l) == pc[c] = l /\ call[c].op = op

Begin(c, o) ==
  /\ pc[c] = "idle"
  /\ DB!NewTx(c)
  /\ call' = [call EXCEPT ![c] = o]
  /\ Goto(c, "from")
  /\ UNCHANGED opened

\* Slip: the account is read outside the transaction.
GetFromUnmarked(c) ==
  /\ pc[c] = "from"
  /\ UNCHANGED dbVars
  /\ Goto(c, IF call[c].op = "transfer" THEN "to" ELSE "decide")
  /\ UNCHANGED <<call, opened>>

GetFrom(c) ==
  /\ pc[c] = "from"
  /\ DB!Get(c, call[c].from)
  /\ Goto(c, IF call[c].op = "transfer" THEN "to" ELSE "decide")
  /\ UNCHANGED <<call, opened>>

GetTo(c) ==
  /\ pc[c] = "to"
  /\ DB!Get(c, call[c].to)
  /\ Goto(c, "decide")
  /\ UNCHANGED <<call, opened>>

\* The call returns without a commit that could change anything.
Return(c) ==
  /\ call' = [call EXCEPT ![c] = NoCall]
  /\ Goto(c, "idle")
  /\ UNCHANGED <<dbVars, opened>>

\* CurrentBalance: ErrAccountNotExist, or the balance and a read-only commit.
CurrentBalance(c) ==
  /\ At(c, "balance", "decide")
  /\ Return(c)

\* OpenAccount: ErrAccountExists, or set the balance.
OpenAccount(c) ==
  /\ At(c, "open", "decide")
  /\ \/ /\ snapshot[c][call[c].from] # NoVal
        /\ Return(c)
     \/ /\ snapshot[c][call[c].from] = NoVal
        /\ DB!Set(c, call[c].from, int64b(call[c].amount))
        /\ Goto(c, "commit")
        /\ UNCHANGED <<call, opened>>

\* Slip: the funds are not checked.
MayTransferUnfunded(c) ==
  /\ NoVal \notin {snapshot[c][call[c].from], snapshot[c][call[c].to]}
  /\ call[c].from # call[c].to

\* Otherwise TransferFunds returns early: ErrAccountNotExist, the no-op between
\* an account and itself, or ErrNotEnoughFunds.
MayTransfer(c) ==
  /\ NoVal \notin {snapshot[c][call[c].from], snapshot[c][call[c].to]}
  /\ call[c].from # call[c].to
  /\ snapshot[c][call[c].from] >= call[c].amount

\* TransferFunds up to its first Set.
TransferFunds(c) ==
  /\ At(c, "transfer", "decide")
  /\ \/ /\ ~MayTransfer(c)
        /\ Return(c)
     \/ /\ MayTransfer(c)
        /\ DB!Set(c, call[c].to, int64b(snapshot[c][call[c].to] + call[c].amount))
        /\ Goto(c, "set")
        /\ UNCHANGED <<call, opened>>

SetFrom(c) ==
  /\ pc[c] = "set"
  /\ DB!Set(c, call[c].from, int64b(snapshot[c][call[c].from] - call[c].amount))
  /\ Goto(c, "commit")
  /\ UNCHANGED <<call, opened>>

Commit(c) ==
  /\ pc[c] = "commit"
  /\ \/ /\ DB!CommitGranted(c, FALSE)
        /\ opened' = opened + (IF call[c].op = "open" THEN call[c].amount ELSE 0)
     \/ /\ DB!CommitConflict(c)
        /\ UNCHANGED opened
  /\ call' = [call EXCEPT ![c] = NoCall]
  /\ Goto(c, "idle")

Next ==
  \E c \in Client :
    \/ \E o \in Call : Begin(c, o)
    \/ GetFrom(c)
    \/ GetTo(c)
    \/ CurrentBalance(c)
    \/ OpenAccount(c)
    \/ TransferFunds(c)
    \/ SetFrom(c)
    \/ Commit(c)

Spec == Init /\ [][Next]_vars

------------------------------------------------------------------------------

Accounts == {a \in Account : store[a] # NoVal}

Total == MapThenSumSet(LAMBDA a : store[a], Accounts)

\* TestConcurrentBankFuzzing: whatever calls run at the same time, the accounts
\* together hold what they were opened with (to the width of an int64): a lost
\* update, or an account opened twice, breaks it.  As long as that total fits an
\* int64, "balance should be 0 or more": a transfer checks the funds in its snapshot
\* and pays at its commit, and no one gets to spend them in between.
FundsConserved ==
  /\ int64b(Total) = int64b(opened)
  /\ opened < Half /\ Amount \cup Opening \subseteq Nat =>
       \A a \in Accounts : store[a] >= 0
==============================================================================
