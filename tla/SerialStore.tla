----------------------------- MODULE SerialStore -----------------------------
(***************************************************************************)
(* What the ssi database promises its clients: a store on which whole      *)
(* transactions execute one at a time.  While it is prepared, a            *)
(* transaction shows what it read and what it means to write; it executes  *)
(* in one step, and only in a state in which every row it read still has   *)
(* the value it read.                                                      *)
(***************************************************************************)

CONSTANTS
  Key,      \* rows of the store
  Val,      \* values a row can be set to
  NoVal,    \* a row that was never set (Get returns nil)
  Unread,   \* marks a row that a transaction did not read
  Tx        \* transactions

Value == Val \cup {NoVal}

VARIABLES
  store,    \* committed value of every row
  reads,    \* per transaction: the value of every row it read
  writes    \* per transaction: the value of every row it writes, or NoVal

vars == <<store, reads, writes>>

Init ==
  /\ store = [k \in Key |-> NoVal]
  /\ reads = [t \in Tx |-> [k \in Key |-> Unread]]
  /\ writes = [t \in Tx |-> [k \in Key |-> NoVal]]

Prepare ==
  /\ reads' \in [Tx -> [Key -> Value \cup {Unread}]]
  /\ writes' \in [Tx -> [Key -> Value]]
  /\ UNCHANGED store

Execute(t) ==
  /\ \A k \in Key : reads[t][k] \in {Unread, store[k]}
  /\ store' = [k \in Key |-> IF writes[t][k] = NoVal THEN store[k]
                                                     ELSE writes[t][k]]
  /\ UNCHANGED <<reads, writes>>

Next == Prepare \/ \E t \in Tx : Execute(t)

Spec == Init /\ [][Next]_vars
==============================================================================
