--------------------------- MODULE PlumbingProofs ----------------------------
(***************************************************************************)
(* Closing while others send, for any number of peers, connections and     *)
(* writers and for buffers of any size: an engine that shuts down, the TCP *)
(* broadcast and the in-memory broadcasts never send on a channel that is  *)
(* closed, and leave nothing behind when the close returns.                *)
(***************************************************************************)
EXTENDS MCPlumbing, Sequences, TLAPS

------------------------------------------------------------------------------
\* Shutdown

\* How many of the two loops of New have put their token in Engine.done, and how many
\* tokens Shutdown has taken out.
Ended == (IF reader = "end" THEN 1 ELSE 0) + (IF round = "end" THEN 1 ELSE 0)
Taken == IF caller = "returned" THEN 2 ELSE IF caller = "wait2" THEN 1 ELSE 0

ShutdownType ==
  /\ buf \in Nat /\ rounds \in Nat /\ done \in Nat
  /\ writer \in [Peer -> {"start", "send", "end"}]

\* The ends are closed in their order, no one sends on them afterwards, a loop ends
\* when its channel is closed and empty, and tokens are not made up.
ShutdownInv ==
  /\ ShutdownType
  /\ shutdown!NoSendOnClosed
  /\ stopped => caller \in {"wait1", "wait2", "returned", "expired"}
  /\ reader = "end" => closed /\ buf = 0
  /\ round = "end" => stopped /\ rounds = 0
  /\ caller # "expired" => done + Taken = Ended

\* It holds in an engine that New started.
LEMMA ShutdownInit == shutdown!Init => ShutdownInv
BY DEF shutdown!Init, ShutdownInv, ShutdownType, shutdown!NoSendOnClosed, Taken, Ended

\* Every step of a writer, a loop of New, a clock or Shutdown keeps it.
LEMMA ShutdownStep == ShutdownInv /\ shutdown!Next => ShutdownInv'
<1> SUFFICES ASSUME ShutdownInv, shutdown!Next PROVE ShutdownInv'
  OBVIOUS
<1> USE DEF ShutdownInv, ShutdownType, shutdown!NoSendOnClosed, Taken, Ended
<1>1. ASSUME NEW p \in Peer, shutdown!WriteLock(p) PROVE ShutdownInv'
  BY <1>1 DEF shutdown!WriteLock
<1>2. ASSUME NEW p \in Peer, shutdown!WriteSend(p) PROVE ShutdownInv'
  BY <1>2 DEF shutdown!WriteSend
<1>3. CASE shutdown!ReadMsg
  BY <1>3 DEF shutdown!ReadMsg
<1>4. CASE shutdown!ReadEOF
  BY <1>4 DEF shutdown!ReadEOF
<1>5. CASE shutdown!HandlerEnds
  BY <1>5 DEF shutdown!HandlerEnds
<1>6. CASE shutdown!Tick \/ shutdown!TickExit
  BY <1>6 DEF shutdown!Tick, shutdown!TickExit
<1>7. CASE shutdown!TickSend
  BY <1>7 DEF shutdown!TickSend
<1>8. CASE shutdown!NextRound \/ shutdown!RoundEnds
  BY <1>8 DEF shutdown!NextRound, shutdown!RoundEnds
<1>9. CASE shutdown!NextEOF
  BY <1>9 DEF shutdown!NextEOF
<1>10. CASE shutdown!Call \/ shutdown!CloseBroadcast
  BY <1>10 DEF shutdown!Call, shutdown!CloseBroadcast
<1>11. CASE shutdown!CloseMemClock
  BY <1>11 DEF shutdown!CloseMemClock
<1>12. CASE shutdown!SignalWallClock \/ shutdown!CloseWallClock
  BY <1>12 DEF shutdown!SignalWallClock, shutdown!CloseWallClock
<1>13. CASE shutdown!Wait
  BY <1>13 DEF shutdown!Wait
<1>14. CASE shutdown!Expire
  BY <1>14 DEF shutdown!Expire
<1> QED
  BY <1>1, <1>2, <1>3, <1>4, <1>5, <1>6, <1>7, <1>8, <1>9, <1>10, <1>11, <1>12, <1>13,
     <1>14 DEF shutdown!Next

------------------------------------------------------------------------------
\* TCP

TCPType ==
  /\ conn \in [tcp!Conn -> {"new", "backlog", "accepted", "open", "eof", "closed"}]
  /\ handler \in [tcp!Conn -> {"none", "start", "decode", "send", "end"}]
  /\ conns \subseteq tcp!Conn
  /\ accept \in {"accept", "end"}
  /\ closer \in {"idle", "conns", "lock", "wait", "done"}

\* Each connection that can still be read is in the channel that Close empties or is
\* one that To opened.  Close goes past that channel only when no connection will be
\* put in it any more, and from then on a handler that starts late finds its
\* connection closed.
TCPInv ==
  /\ TCPType
  /\ accept = "end" => /\ closer # "idle"
                       /\ \A c \in tcp!Conn : conn[c] \notin {"backlog", "accepted"}
  /\ closer \in {"lock", "wait", "done"} => conns = {} /\ accept = "end"
  /\ \A c \in tcp!Conn : conn[c] \in {"open", "eof"} => c \in conns \cup Outgoing
  /\ closer \in {"wait", "done"} => \A c \in tcp!Conn : conn[c] \in {"new", "closed"}
  /\ tcp!NoSendOnClosed

\* It holds when NewTCP listens.
LEMMA TCPInit == tcp!Init => TCPInv
BY DEF tcp!Init, TCPInv, TCPType, tcp!NoSendOnClosed

\* Every step of a peer, a handler, the consumer, a writer or Close keeps it.
LEMMA TCPStep == TCPInv /\ tcp!Next => TCPInv'
<1> SUFFICES ASSUME TCPInv, tcp!Next PROVE TCPInv'
  OBVIOUS
<1> USE DEF TCPInv, TCPType, tcp!NoSendOnClosed
<1>1. ASSUME NEW c \in tcp!Conn, tcp!Dial(c) \/ tcp!Send(c) \/ tcp!HangUp(c) PROVE TCPInv'
  BY <1>1 DEF tcp!Dial, tcp!Send, tcp!HangUp
<1>2. ASSUME NEW c \in tcp!Conn, tcp!Accept(c) PROVE TCPInv'
  BY <1>2 DEF tcp!Accept
<1>3. ASSUME NEW c \in tcp!Conn, tcp!Track(c) PROVE TCPInv'
  BY <1>3 DEF tcp!Track
<1>4. CASE tcp!AcceptEnds
  BY <1>4 DEF tcp!AcceptEnds
<1>5. ASSUME NEW c \in tcp!Conn, tcp!To(c) PROVE TCPInv'
  BY <1>5 DEF tcp!To
<1>6. ASSUME NEW c \in tcp!Conn, tcp!HandlerStarts(c) PROVE TCPInv'
  BY <1>6 DEF tcp!HandlerStarts
<1>7. ASSUME NEW c \in tcp!Conn, tcp!Decode(c) PROVE TCPInv'
  BY <1>7 DEF tcp!Decode
<1>8. ASSUME NEW c \in tcp!Conn, tcp!HandOn(c) PROVE TCPInv'
  BY <1>8 DEF tcp!HandOn
<1>9. CASE tcp!ReadMsg \/ tcp!WriteLock \/ tcp!WriteEnds
  BY <1>9 DEF tcp!ReadMsg, tcp!WriteLock, tcp!WriteEnds
<1>10. CASE tcp!CloseListener
  BY <1>10 DEF tcp!CloseListener
<1>11. CASE tcp!CloseConns
  BY <1>11 DEF tcp!CloseConns, tcp!Drained
<1>12. CASE tcp!ClosePeers
  BY <1>12 DEF tcp!ClosePeers, tcp!Peers
<1>13. CASE tcp!CloseIn
  BY <1>13 DEF tcp!CloseIn, tcp!HandlersEnded
<1> QED
  BY <1>1, <1>2, <1>3, <1>4, <1>5, <1>6, <1>7, <1>8, <1>9, <1>10, <1>11, <1>12, <1>13
     DEF tcp!Next, tcp!Endpoint

------------------------------------------------------------------------------
\* MemCast

\* w is in s, and no element is in s twice.
In(w, s) == \E i \in DOMAIN s : s[i] = w
Once(s) == \A i, j \in DOMAIN s : s[i] = s[j] => i = j

\* To append an element adds it, and keeps the elements apart if it is new.
LEMMA AppendIn ==
  ASSUME NEW S, NEW s \in Seq(S), NEW w \in S
  PROVE  /\ \A v \in S : In(v, Append(s, w)) <=> In(v, s) \/ v = w
         /\ Once(s) /\ ~In(w, s) => Once(Append(s, w))
<1> DEFINE t == Append(s, w)
<1>1. /\ Len(s) \in Nat /\ DOMAIN s = 1..Len(s) /\ DOMAIN t = 1..(Len(s) + 1)
      /\ \A i \in DOMAIN s : t[i] = s[i]
      /\ t[Len(s) + 1] = w
  OBVIOUS
<1> HIDE DEF t
<1>2. \A i \in DOMAIN t : i \in DOMAIN s \/ i = Len(s) + 1
  BY <1>1
<1>3. \A i \in DOMAIN s : i \in DOMAIN t
  BY <1>1
<1>4. Len(s) + 1 \in DOMAIN t
  BY <1>1
<1>5. \A v \in S : In(v, t) <=> In(v, s) \/ v = w
  BY <1>1, <1>2, <1>3, <1>4 DEF In
<1>6. Once(s) /\ ~In(w, s) => Once(t)
  BY <1>1, <1>2 DEF In, Once
<1> QED
  BY <1>5, <1>6 DEF t

\* To drop the head of a sequence without duplicates takes that element out.
LEMMA TailIn ==
  ASSUME NEW S, NEW s \in Seq(S), s # <<>>, Once(s)
  PROVE  /\ Head(s) \in S /\ In(Head(s), s) /\ Once(Tail(s))
         /\ \A v \in S : In(v, Tail(s)) <=> In(v, s) /\ v # Head(s)
<1>1. Head(s) \in S /\ Head(s) = s[1] /\ 1 \in DOMAIN s
  OBVIOUS
<1>2. \A i \in DOMAIN Tail(s) : Tail(s)[i] = s[i + 1] /\ i + 1 \in DOMAIN s /\ i \in Nat /\ i # 0
  OBVIOUS
<1>3. \A i \in DOMAIN s : i # 1 => i - 1 \in DOMAIN Tail(s) /\ Tail(s)[i - 1] = s[i]
  OBVIOUS
<1>4. Once(Tail(s))
  BY <1>2 DEF Once
<1>5. ASSUME NEW v \in S PROVE In(v, Tail(s)) <=> In(v, s) /\ v # Head(s)
  <2>1. ASSUME In(v, Tail(s)) PROVE In(v, s) /\ v # Head(s)
    <3>1. PICK i \in DOMAIN Tail(s) : Tail(s)[i] = v
      BY <2>1 DEF In
    <3>2. s[i + 1] = v /\ i + 1 \in DOMAIN s /\ i + 1 # 1
      BY <1>2, <3>1
    <3> QED
      BY <1>1, <3>2 DEF In, Once
  <2>2. ASSUME In(v, s), v # Head(s) PROVE In(v, Tail(s))
    BY <1>1, <1>3, <2>2 DEF In
  <2> QED
    BY <2>1, <2>2
<1> QED
  BY <1>1, <1>4, <1>5 DEF In

\* The messages that were put in our channel, or read from it.
Queued(w) == In(w, queue["us"])
Read(w) == In(w, read)

MemType ==
  /\ queue \in [{"us", "them"} -> Seq(Writer)] /\ read \in Seq(Writer)
  /\ write \in [Writer -> {"new", "chan", "send", "panic", "sent", "dropped"}]
  /\ todo \in [Writer -> SUBSET {"us", "them"}]
  /\ closer \in {"idle", "lock", "collect", "done"}

\* A message is in our channel, or was read, once its writer is through with us, and
\* never twice.
MessagesKept ==
  /\ \A w \in Writer :
       /\ write[w] = "sent" => Queued(w) \/ Read(w)
       /\ write[w] \in {"chan", "send"} /\ "us" \notin todo[w] /\ ~mem!Closed =>
            Queued(w) \/ Read(w)
       /\ write[w] = "new" \/ "us" \in todo[w] => ~Queued(w) /\ ~Read(w)
       /\ write[w] = "new" => todo[w] = {}
       /\ Queued(w) => ~Read(w)
  /\ Once(queue["us"]) /\ Once(read)

\* A channel is closed by Close only, when no writer is about to send to it, unless
\* it is one of a round.  Nothing is put in it afterwards.
MemInv ==
  /\ MemType
  /\ MessagesKept
  /\ shut => mem!Closed
  /\ reader \in {"eof", "handed"} => shut /\ queue["us"] = <<>>
  /\ \A w \in Writer : write[w] = "chan" => kind = "rounds"
  /\ kind # "rounds" /\ shut => \A w \in Writer : write[w] = "send" => "us" \notin todo[w]
  /\ mem!NoSendOnClosed

\* It holds in a broadcast that was just made, of each kind.
LEMMA MemInit == mem!Init => MemInv
BY DEF mem!Init, mem!InitAs, MemInv, MemType, MessagesKept, Queued, Read, In, Once, mem!Closed,
       mem!NoSendOnClosed

\* Every step of a writer, the collecting goroutine or Close keeps it.
LEMMA MemStep == MemInv /\ mem!Next => MemInv'
<1> SUFFICES ASSUME MemInv, mem!Next PROVE MemInv'
  OBVIOUS
<1> USE DEF MemInv, MemType, mem!NoSendOnClosed
<1>1. ASSUME NEW w \in Writer, mem!WriteEnters(w) PROVE MemInv'
  BY <1>1 DEF mem!WriteEnters, mem!Endpoints, mem!Closed, MessagesKept, Queued, Read
<1>2. ASSUME NEW w \in Writer, mem!WriteRoundChan(w) PROVE MemInv'
  BY <1>2 DEF mem!WriteRoundChan, mem!Closed, MessagesKept, Queued, Read
<1>3. ASSUME NEW w \in Writer, mem!Send(w, "us") PROVE MemInv'
  <2>1. CASE shut
    BY <1>3, <2>1 DEF mem!Send, mem!Closed, MessagesKept, Queued, Read
  <2>2. CASE ~shut
    <3> DEFINE q == queue["us"]
    <3>1. /\ q \in Seq(Writer) /\ queue' = [queue EXCEPT !["us"] = Append(q, w)]
          /\ todo' = [todo EXCEPT ![w] = todo[w] \ {"us"}]
          /\ write' = [write EXCEPT ![w] = IF todo[w] # {"us"} THEN write[w] ELSE "sent"]
          /\ UNCHANGED <<kind, made, shut, read, reader, closer>>
      BY <1>3, <2>2 DEF mem!Send
    <3>2. queue'["us"] = Append(q, w) /\ MemType'
      BY <3>1
    <3>3. /\ \A v \in Writer : In(v, Append(q, w)) <=> In(v, q) \/ v = w
          /\ Once(q) /\ ~In(w, q) => Once(Append(q, w))
      BY <3>1, AppendIn
    <3>4. "us" \in todo[w] /\ write[w] = "send" /\ ~In(w, q) /\ ~In(w, read)
      BY <1>3 DEF mem!Send, MessagesKept, Queued, Read
    <3>5. MessagesKept'
      BY <3>1, <3>2, <3>3, <3>4 DEF mem!Closed, MessagesKept, Queued, Read
    <3>6. reader' \notin {"eof", "handed"} /\ (shut' => mem!Closed') /\ ~shut'
      BY <2>2, <3>1
    <3> QED
      BY <3>1, <3>2, <3>5, <3>6
  <2> QED
    BY <2>1, <2>2
<1>4. ASSUME NEW w \in Writer, mem!Send(w, "them") PROVE MemInv'
  <2> DEFINE q == queue["them"]
  <2>1. /\ q \in Seq(Writer) /\ queue' = [queue EXCEPT !["them"] = Append(q, w)]
        /\ "them" \in todo[w] /\ todo' = [todo EXCEPT ![w] = todo[w] \ {"them"}]
        /\ write[w] = "send"
        /\ write' = [write EXCEPT ![w] = IF todo[w] # {"them"} THEN write[w]
                                         ELSE IF mem!Closed THEN "dropped" ELSE "sent"]
        /\ UNCHANGED <<kind, made, shut, read, reader, closer>>
    BY <1>4 DEF mem!Send
  <2>2. queue'["us"] = queue["us"] /\ MemType'
    BY <2>1
  <2>3. MessagesKept'
    BY <2>1, <2>2 DEF mem!Closed, MessagesKept, Queued, Read
  <2> QED
    BY <2>1, <2>2, <2>3 DEF mem!Closed
<1>5. CASE mem!Read
  <2>1. CASE read' = read /\ queue' = queue
    BY <1>5, <2>1 DEF mem!Read, mem!AtEOF, mem!Closed, MessagesKept, Queued, Read
  <2>2. CASE queue["us"] # <<>> /\ read' = Append(read, Head(queue["us"]))
             /\ queue' = [queue EXCEPT !["us"] = Tail(@)] /\ reader' = reader
    <3> DEFINE q == queue["us"]
               h == Head(queue["us"])
    <3>1. /\ q \in Seq(Writer) /\ q # <<>> /\ Once(q) /\ Once(read)
          /\ UNCHANGED <<kind, shut, write, todo, closer, reader>>
      BY <1>5, <2>2 DEF mem!Read, MessagesKept
    <3>2. /\ h \in Writer /\ In(h, q) /\ Once(Tail(q))
          /\ \A v \in Writer : In(v, Tail(q)) <=> In(v, q) /\ v # h
      BY <3>1, TailIn
    <3>3. Tail(q) \in Seq(Writer) /\ queue'["us"] = Tail(q) /\ queue'["them"] = queue["them"]
      BY <2>2, <3>1
    <3>4. MemType'
      BY <2>2, <3>1, <3>2, <3>3
    <3>5. ~In(h, read)
      BY <3>2 DEF MessagesKept, Queued, Read
    <3>6. Once(read') /\ \A v \in Writer : In(v, read') <=> In(v, read) \/ v = h
      BY <2>2, <3>1, <3>2, <3>5, AppendIn
    <3>7. MessagesKept'
      BY <3>1, <3>2, <3>3, <3>5, <3>6 DEF mem!Closed, MessagesKept, Queued, Read
    <3>8. reader' \notin {"eof", "handed"}
      BY <2>2
    <3> QED
      BY <3>1, <3>4, <3>7, <3>8 DEF mem!Closed
  <2> QED
    BY <1>5, <2>1, <2>2 DEF mem!Read
<1>6. CASE mem!ReadThem
  <2>1. queue'["us"] = queue["us"] /\ MemType'
    BY <1>6 DEF mem!ReadThem
  <2> QED
    BY <1>6, <2>1 DEF mem!ReadThem, mem!Closed, MessagesKept, Queued, Read
<1>7. CASE mem!CloseAsks
  BY <1>7 DEF mem!CloseAsks, mem!Closed, MessagesKept, Queued, Read
<1>8. CASE mem!Close
  BY <1>8 DEF mem!Close, mem!CloseChans, mem!Unlocked, mem!Closed, MessagesKept, Queued, Read
<1>9. CASE mem!Collect
  BY <1>9 DEF mem!Collect, mem!Closed, MessagesKept, Queued, Read
<1> QED
  BY <1>1, <1>2, <1>3, <1>4, <1>5, <1>6, <1>7, <1>8, <1>9 DEF mem!Next

------------------------------------------------------------------------------
\* All of them

PlumbingInv ==
  /\ design = "shutdown" => ShutdownInv
  /\ design = "tcp" => TCPInv
  /\ design = "mem" => MemInv

\* The invariant of whichever endpoint the behaviour is about holds throughout.
LEMMA PlumbingHolds == MCSpec => []PlumbingInv
<1>1. MCInit => PlumbingInv
  BY ShutdownInit, TCPInit, MemInit DEF MCInit, PlumbingInv
<1>2. PlumbingInv /\ [MCNext]_mcvars => PlumbingInv'
  <2> SUFFICES ASSUME PlumbingInv, [MCNext]_mcvars PROVE PlumbingInv'
    OBVIOUS
  <2>1. CASE OOO(Next) \/ Retry(retry!Next)
    BY <2>1 DEF OOO, Retry, PlumbingInv
  <2>2. CASE Shut(shutdown!Next)
    BY <2>2, ShutdownStep DEF Shut, PlumbingInv
  <2>3. CASE Net(tcp!Next)
    BY <2>3, TCPStep DEF Net, PlumbingInv
  <2>4. CASE Mem(mem!Next)
    BY <2>4, MemStep DEF Mem, PlumbingInv
  <2>5. CASE UNCHANGED mcvars
    <3>1. UNCHANGED <<design, retryVars, shutdownVars, tcpVars, memVars, reader, closer>>
      BY <2>5 DEF mcvars
    <3>2. ShutdownInv => ShutdownInv'
      BY <3>1 DEF shutdownVars, ShutdownInv, ShutdownType, shutdown!NoSendOnClosed, Taken, Ended
    <3>3. TCPInv => TCPInv'
      BY <3>1 DEF tcpVars, TCPInv, TCPType, tcp!NoSendOnClosed
    <3>4. MemInv => MemInv'
      BY <3>1 DEF memVars, MemInv, MemType, MessagesKept, Queued, Read, mem!Closed,
                  mem!NoSendOnClosed
    <3> QED
      BY <3>1, <3>2, <3>3, <3>4 DEF PlumbingInv
  <2> QED
    BY <2>1, <2>2, <2>3, <2>4, <2>5 DEF MCNext
<1> QED
  BY <1>1, <1>2, PTL DEF MCSpec

\* Whoever closes a channel does so when no one sends on it any more, for any number of
\* peers, connections and writers (Mem.Close, Fire, TCP.Close, Close in topn and slot).
THEOREM ClosedByTheLast == MCSpec => []NoSendOnClosed
<1>1. PlumbingInv => NoSendOnClosed
  BY DEF PlumbingInv, NoSendOnClosed, ShutdownInv, TCPInv, MemInv
<1> QED
  BY <1>1, PlumbingHolds, PTL

\* A close that returned left nothing behind, however long the buffers are and however
\* many send: Shutdown returned after both loops emptied their channels, TCP.Close
\* after each connection was closed, and Collect has every message once.
THEOREM LeavesNothing == MCSpec => []NothingLeftOnReturn
<1>1. ShutdownInv => shutdown!DrainedOnReturn
  BY DEF ShutdownInv, ShutdownType, shutdown!DrainedOnReturn, Taken, Ended
<1>2. TCPInv => tcp!NoConnLeft
  BY DEF TCPInv, TCPType, tcp!NoConnLeft
<1>3. MemInv => mem!CollectsAll
  BY DEF MemInv, MemType, MessagesKept, Queued, Read, In, Once, mem!CollectsAll
<1>4. PlumbingInv => NothingLeftOnReturn
  BY <1>1, <1>2, <1>3 DEF PlumbingInv, NothingLeftOnReturn
<1> QED
  BY <1>4, PlumbingHolds, PTL
==============================================================================
