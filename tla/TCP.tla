--------------------------------- MODULE TCP ---------------------------------
(***************************************************************************)
(* The tcp broadcast endpoint (onl/engine/broadcast/tcp.go): the goroutine *)
(* that accepts connections, one handler for each connection, the          *)
(* consumer that reads the messages, a writer, and Close.                  *)
(*                                                                         *)
(* Channels are counts and what a message says does not matter.  The other *)
(* end of a connection may send and hang up at any time; it reads what is  *)
(* written to it.  To is not called once the endpoint is closed.           *)
(***************************************************************************)
EXTENDS Naturals, FiniteSets

CONSTANTS
  Incoming, Outgoing,  \* connections that peers, and that To, may open
  MaxConn, MaxBuf,     \* capacities of conns and in
  MaxSent              \* bound: messages that come in on a connection

VARIABLES
  conn,     \* "new", "backlog", "accepted", "open", "eof" (the peer hung up) or "closed"
  sent,     \* messages sent on a connection, and those not yet decoded
  handler,  \* handleConn: "none", "start", "decode", "send" or "end"
  accept,   \* the accepting goroutine
  conns,    \* connections in the channel conns
  in,       \* messages in the channel in
  lock,     \* who has bc.mu: "free", "write" (Write, as reader) or "close"
  reader,   \* the consumer
  closer    \* Close: "idle", "conns", "lock", "wait" or "done"

vars == <<conn, sent, handler, accept, conns, in, lock, reader, closer>>

Conn == Incoming \cup Outgoing

Init ==
  /\ conn = [c \in Conn |-> "new"]
  /\ sent = [c \in Conn |-> [all |-> 0, left |-> 0]]
  /\ handler = [c \in Conn |-> "none"]
  /\ accept = "accept" /\ conns = {}
  /\ in = 0 /\ lock = "free" /\ reader = "read" /\ closer = "idle"

------------------------------------------------------------------------------
\* The peers

Dial(c) ==
  /\ c \in Incoming /\ conn[c] = "new" /\ closer = "idle"
  /\ conn' = [conn EXCEPT ![c] = "backlog"]
  /\ UNCHANGED <<sent, handler, accept, conns, in, lock, reader, closer>>

Send(c) ==
  /\ conn[c] = "open" /\ sent[c].all < MaxSent
  /\ sent' = [sent EXCEPT ![c] = [all |-> @.all + 1, left |-> @.left + 1]]
  /\ UNCHANGED <<conn, handler, accept, conns, in, lock, reader, closer>>

HangUp(c) ==
  /\ conn[c] = "open"
  /\ conn' = [conn EXCEPT ![c] = "eof"]
  /\ UNCHANGED <<sent, handler, accept, conns, in, lock, reader, closer>>

------------------------------------------------------------------------------
\* Connections of the endpoint

Accept(c) ==
  /\ accept = "accept" /\ closer = "idle"
  /\ conn[c] = "backlog" /\ \A d \in Conn : conn[d] # "accepted"
  /\ conn' = [conn EXCEPT ![c] = "accepted"]
  /\ UNCHANGED <<sent, handler, accept, conns, in, lock, reader, closer>>

\* The accepted connection gets a handler if there is room for it in conns.
Track(c) ==
  /\ conn[c] = "accepted"
  /\ IF Cardinality(conns) >= MaxConn
       THEN /\ conn' = [conn EXCEPT ![c] = "closed"]
            /\ UNCHANGED <<handler, conns>>
       ELSE /\ conn' = [conn EXCEPT ![c] = "open"]
            /\ conns' = conns \cup {c}
            /\ handler' = [handler EXCEPT ![c] = "start"]
  /\ UNCHANGED <<sent, accept, in, lock, reader, closer>>

\* The listener is closed; so are the connections nobody accepted.
AcceptEnds ==
  /\ accept = "accept" /\ closer # "idle"
  /\ \A c \in Conn : conn[c] # "accepted"
  /\ accept' = "end"
  /\ conn' = [c \in Conn |-> IF conn[c] = "backlog" THEN "closed" ELSE conn[c]]
  /\ UNCHANGED <<sent, handler, conns, in, lock, reader, closer>>

To(c) ==
  /\ c \in Outgoing /\ conn[c] = "new"
  /\ lock = "free" /\ closer \in {"idle", "conns"}
  /\ conn' = [conn EXCEPT ![c] = "open"]
  /\ handler' = [handler EXCEPT ![c] = "start"]
  /\ UNCHANGED <<sent, accept, conns, in, lock, reader, closer>>

\* handleConn joins the wait group, which Close may already wait for.
HandlerStarts(c) ==
  /\ handler[c] = "start"
  /\ handler' = [handler EXCEPT ![c] = "decode"]
  /\ UNCHANGED <<conn, sent, accept, conns, in, lock, reader, closer>>

\* Slip: the handler of a connection that was closed tries again.
DecodeFailsAtEOF(c) == conn[c] = "eof" /\ sent[c].left = 0

DecodeFails(c) == conn[c] = "closed" \/ (conn[c] = "eof" /\ sent[c].left = 0)

Decode(c) ==
  /\ handler[c] = "decode"
  /\ \/ /\ conn[c] \in {"open", "eof"} /\ sent[c].left > 0
        /\ sent' = [sent EXCEPT ![c].left = @ - 1]
        /\ handler' = [handler EXCEPT ![c] = "send"]
     \/ /\ DecodeFails(c)
        /\ handler' = [handler EXCEPT ![c] = "end"]
        /\ UNCHANGED sent
  /\ UNCHANGED <<conn, accept, conns, in, lock, reader, closer>>

\* The handler hands its message on when there is room.
HandOn(c) ==
  /\ handler[c] = "send"
  /\ in < MaxBuf
  /\ in' = in + 1
  /\ handler' = [handler EXCEPT ![c] = "decode"]
  /\ UNCHANGED <<conn, sent, accept, conns, lock, reader, closer>>

------------------------------------------------------------------------------
\* Read, Write and Close

ReadMsg ==
  /\ reader = "read"
  /\ \/ in > 0 /\ in' = in - 1 /\ UNCHANGED reader
     \/ in = 0 /\ closer = "done" /\ reader' = "eof" /\ UNCHANGED in
  /\ UNCHANGED <<conn, sent, handler, accept, conns, lock, closer>>

\* Write gets the read lock, unless Close holds or waits for the lock.
WriteLock ==
  /\ lock = "free" /\ closer \in {"idle", "conns"}
  /\ lock' = "write"
  /\ UNCHANGED <<conn, sent, handler, accept, conns, in, reader, closer>>

WriteEnds ==
  /\ lock = "write"
  /\ lock' = "free"
  /\ UNCHANGED <<conn, sent, handler, accept, conns, in, reader, closer>>

CloseListener ==
  /\ closer = "idle"
  /\ closer' = "conns"
  /\ UNCHANGED <<conn, sent, handler, accept, conns, in, lock, reader>>

\* Slip: Close goes on as soon as the channel is empty.
DrainedOnce == conns = {}

Drained == conns = {} /\ accept = "end"

\* The channel of connections is emptied until the accepting goroutine closes it.
CloseConns ==
  /\ closer = "conns"
  /\ \/ \E c \in conns :
          /\ conn' = [conn EXCEPT ![c] = "closed"]
          /\ conns' = conns \ {c}
          /\ UNCHANGED closer
     \/ /\ Drained
        /\ closer' = "lock"
        /\ UNCHANGED <<conn, conns>>
  /\ UNCHANGED <<sent, handler, accept, in, lock, reader>>

Peers == {c \in Outgoing : conn[c] # "new"}

ClosePeers ==
  /\ closer = "lock" /\ lock = "free"
  /\ lock' = "close"
  /\ conn' = [c \in Conn |-> IF c \in Peers THEN "closed" ELSE conn[c]]
  /\ closer' = "wait"
  /\ UNCHANGED <<sent, handler, accept, conns, in, reader>>

\* Slip: the handlers are not waited for.
HandlersEndedAlways == TRUE

HandlersEnded == \A c \in Conn : handler[c] \notin {"decode", "send"}

\* The wait group is empty: in is closed.
CloseIn ==
  /\ closer = "wait"
  /\ HandlersEnded
  /\ closer' = "done" /\ lock' = "free"
  /\ UNCHANGED <<conn, sent, handler, accept, conns, in, reader>>

Endpoint ==
  \/ \E c \in Conn : Accept(c) \/ Track(c) \/ HandlerStarts(c) \/ Decode(c) \/ HandOn(c)
  \/ AcceptEnds \/ ReadMsg \/ WriteEnds \/ CloseConns \/ ClosePeers \/ CloseIn

Next ==
  \/ Endpoint
  \/ \E c \in Conn : Dial(c) \/ Send(c) \/ HangUp(c) \/ To(c)
  \/ WriteLock \/ CloseListener

\* Every goroutine goes on while it can; nobody has to dial, send or close.
Fairness ==
  /\ \A c \in Conn :
       WF_vars(Track(c)) /\ WF_vars(HandlerStarts(c)) /\ WF_vars(Decode(c)) /\ SF_vars(HandOn(c))
  /\ WF_vars(AcceptEnds) /\ WF_vars(ReadMsg) /\ WF_vars(WriteEnds)
  /\ WF_vars(CloseConns) /\ WF_vars(ClosePeers) /\ WF_vars(CloseIn)
Spec == Init /\ [][Next]_vars /\ Fairness

------------------------------------------------------------------------------
\* No handler is left to send on in after Close closed it, although handlers join
\* the wait group by themselves and some have not when Close starts to wait
\* (handleConn, Close).
NoSendOnClosed == closer = "done" => \A c \in Conn : handler[c] # "send"

\* Close leaves no connection open, whether peers or To opened it, before or while
\* the endpoint is closed (NewTCP, To, Close).
NoConnLeft == closer = "done" => \A c \in Conn : conn[c] \notin {"backlog", "accepted", "open"}

\* Close returns and the consumer reads EOF, with the buffer full and connections
\* coming and going, as long as the consumer reads (Close, Read).
Asked == closer = "conns"
Returned == closer = "done" /\ reader = "eof"
CloseReturns == Asked ~> Returned
==============================================================================
