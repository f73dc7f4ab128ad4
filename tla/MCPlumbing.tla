----------------------------- MODULE MCPlumbing ------------------------------
(***************************************************************************)
(* How messages get from one goroutine to the next: a behaviour is one of  *)
(* the out of order buffer, of handlers that append blocks, of an engine   *)
(* that shuts down, of the TCP broadcast or of an in-memory broadcast.     *)
(* The buffer stays as it is at first in the others.  Variables that have  *)
(* one name are shared.                                                    *)
(***************************************************************************)
EXTENDS OutOfOrder, RetryState

CONSTANTS
  Peer, Buf,                                    \* of Shutdown; Buf of MemCast too
  Incoming, Outgoing, MaxConn, MaxBuf, MaxSent, \* of TCP
  Writer                                        \* of MemCast

VARIABLES
  design, pc, tries, stale,
  wall, buf, closed, writer, reader, handlers, tick, rounds, stopped, round, done, caller,
  conn, sent, handler, accept, conns, in, lock, closer,
  kind, queue, made, shut, write, todo, read

retry    == INSTANCE AppendRetry
shutdown == INSTANCE Shutdown
tcp      == INSTANCE TCP
mem      == INSTANCE MemCast

retryVars    == <<pc, tries, stale, appended, resolved>>
shutdownVars == <<wall, buf, closed, writer, handlers, tick, rounds, stopped, round,
                  done, caller>>
tcpVars      == <<conn, sent, handler, accept, conns, in, lock>>
memVars      == <<kind, queue, made, shut, write, todo, read>>
mcvars       == <<design, vars, retryVars, shutdownVars, tcpVars, memVars, reader, closer>>

\* Block 1, and two blocks that compete in the next round, on the same predecessor.
Fork ==
  {[id |-> 1, prev |-> 0, round |-> 1]} \cup
  {[id |-> i, prev |-> 1, round |-> 2] : i \in 2..3}

\* Handler h has block h; the last handler got the first block a second time.
Again == [h \in Handler |-> IF h \in Block THEN h ELSE 1]

Off == "off"
RetryOff    == pc = Off /\ tries = Off /\ stale = Off /\ appended = {} /\ resolved = {}
ShutdownOff == /\ wall = Off /\ buf = Off /\ closed = Off /\ writer = Off /\ handlers = Off
               /\ tick = Off /\ rounds = Off /\ stopped = Off /\ round = Off /\ done = Off
               /\ caller = Off
TCPOff      == /\ conn = Off /\ sent = Off /\ handler = Off /\ accept = Off /\ conns = Off
               /\ in = Off /\ lock = Off
MemOff      == /\ kind = Off /\ queue = Off /\ made = Off /\ shut = Off /\ write = Off
               /\ todo = Off /\ read = Off
EndsOff     == reader = Off /\ closer = Off

MCInit ==
  /\ Init
  /\ \/ design = "ooo" /\ RetryOff /\ ShutdownOff /\ TCPOff /\ MemOff /\ EndsOff
     \/ design = "retry" /\ retry!Init /\ ShutdownOff /\ TCPOff /\ MemOff /\ EndsOff
     \/ design = "shutdown" /\ shutdown!Init /\ RetryOff /\ TCPOff /\ MemOff /\ closer = Off
     \/ design = "tcp" /\ tcp!Init /\ RetryOff /\ ShutdownOff /\ MemOff
     \/ design = "mem" /\ mem!Init /\ RetryOff /\ ShutdownOff /\ TCPOff

\* A step A of one of them, which leaves the others alone.
OOO(A) ==
  /\ design = "ooo" /\ A
  /\ UNCHANGED <<design, retryVars, shutdownVars, tcpVars, memVars, reader, closer>>
Retry(A) ==
  /\ design = "retry" /\ A
  /\ UNCHANGED <<design, vars, shutdownVars, tcpVars, memVars, reader, closer>>
Shut(A) ==
  /\ design = "shutdown" /\ A
  /\ UNCHANGED <<design, vars, retryVars, tcpVars, memVars, closer>>
Net(A) ==
  /\ design = "tcp" /\ A
  /\ UNCHANGED <<design, vars, retryVars, shutdownVars, memVars>>
Mem(A) ==
  /\ design = "mem" /\ A
  /\ UNCHANGED <<design, vars, retryVars, shutdownVars, tcpVars>>

MCNext ==
  OOO(Next) \/ Retry(retry!Next) \/ Shut(shutdown!Next) \/ Net(tcp!Next) \/ Mem(mem!Next)

\* The fairness of each module.  A behaviour is about one of them throughout, so
\* fairness of a disjunction of their steps is fairness of the step of that one.  A
\* writer in memory has two endpoints to send to, each once.
SendAny(w) == mem!Send(w, "us") \/ mem!Send(w, "them")

Fairness ==
  /\ SF_mcvars(Shut(shutdown!CloseMemClock) \/ Net(tcp!HandOn(1)) \/ Mem(SendAny(1)))
  /\ SF_mcvars(Shut(shutdown!SignalWallClock) \/ Net(tcp!HandOn(2)) \/ Mem(SendAny(2)))
  /\ SF_mcvars(Net(tcp!HandOn(3)) \/ Mem(SendAny(3)))
  /\ WF_mcvars(Shut(shutdown!ReadMsg) \/ Net(tcp!ReadMsg) \/ Mem(mem!Read) \/ Retry(retry!Next))
  /\ WF_mcvars(Shut(shutdown!ReadEOF) \/ Net(tcp!AcceptEnds) \/ Mem(mem!ReadThem))
  /\ WF_mcvars(Shut(shutdown!HandlerEnds) \/ Net(tcp!WriteEnds) \/ Mem(mem!Close))
  /\ WF_mcvars(Shut(shutdown!CloseBroadcast) \/ Net(tcp!CloseConns) \/ Mem(mem!Collect))
  /\ WF_mcvars(Shut(shutdown!CloseWallClock) \/ Net(tcp!ClosePeers))
  /\ WF_mcvars(Shut(shutdown!Wait) \/ Net(tcp!CloseIn))
  /\ WF_mcvars(Shut(shutdown!TickSend)) /\ WF_mcvars(Shut(shutdown!TickExit))
  /\ WF_mcvars(Shut(shutdown!NextRound)) /\ WF_mcvars(Shut(shutdown!NextEOF))
  /\ WF_mcvars(Shut(shutdown!RoundEnds))
  /\ \A p \in Peer : WF_mcvars(Shut(shutdown!WriteSend(p)))
  /\ \A c \in Incoming \cup Outgoing :
       /\ WF_mcvars(Net(tcp!Track(c))) /\ WF_mcvars(Net(tcp!HandlerStarts(c)))
       /\ WF_mcvars(Net(tcp!Decode(c)))
  /\ \A m \in Msg : WF_mcvars(OOO(Rehandle(m)))

MCSpec == MCInit /\ [][MCNext]_mcvars /\ Fairness

\* What is handed in comes to an end: a message whose block and round are resolved is
\* handled, and handlers of blocks return (OutOfOrder.Handle, handleBlock).
HandlingEnds ==
  EventuallyHandled /\ <>(design = "retry" => retry!AllHandled)

\* Whoever closes a channel does so when no one sends on it any more, however senders
\* and the close interleave (Mem.Close, Fire, TCP.Close, Close in topn and slot).
NoSendOnClosed ==
  /\ design = "shutdown" => shutdown!NoSendOnClosed
  /\ design = "tcp" => tcp!NoSendOnClosed
  /\ design = "mem" => mem!NoSendOnClosed

\* A close that returned left nothing behind: all that was accepted was taken out
\* (Engine.Shutdown), no connection is open (TCP.Close), every message that was sent
\* is in what is collected (Injector.Collect).
NothingLeftOnReturn ==
  /\ design = "shutdown" => shutdown!DrainedOnReturn
  /\ design = "tcp" => tcp!NoConnLeft
  /\ design = "mem" => mem!CollectsAll

\* The one that was asked to close returns: Shutdown of an engine, Close of the TCP
\* broadcast (and its consumer reads EOF), Collect of an in-memory broadcast.
Asked ==
  \/ design = "shutdown" /\ shutdown!Asked
  \/ design = "tcp" /\ tcp!Asked
  \/ design = "mem" /\ mem!Asked
Returned ==
  \/ design = "shutdown" /\ shutdown!Returned
  \/ design = "tcp" /\ tcp!Returned
  \/ design = "mem" /\ mem!Returned
CloseReturns == Asked ~> Returned
==============================================================================
