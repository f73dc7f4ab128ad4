------------------------------- MODULE MemCast -------------------------------
(***************************************************************************)
(* The broadcasts in memory that the tests of the designs collect from,    *)
(* and how an endpoint of each is closed while others write to it:         *)
(*                                                                         *)
(*  "peers"    topn/broadcast.go: a goroutine for each peer holds that     *)
(*             peer's read lock while it sends;                            *)
(*  "network"  slot/broadcast.go: Write holds the read lock of the whole   *)
(*             network while it sends to one endpoint after the other;     *)
(*  "rounds"   slot/broadcast2.go: a channel for each round, made when it  *)
(*             is first used, and no lock while a message is sent.         *)
(*                                                                         *)
(* "us" is the endpoint that is collected from and closed.  In a network   *)
(* there is another one, "them", that is read and never closed.            *)
(***************************************************************************)
EXTENDS Naturals, Sequences

CONSTANTS
  Writer,  \* messages, each written once by a goroutine of its own
  Buf      \* capacity of an endpoint's channel

VARIABLES
  kind,    \* which broadcast it is
  queue,   \* what is in the channel of each endpoint
  made,    \* our channel exists
  shut,    \* our channel is closed
  write,   \* each writer: "new", "chan", "send", "panic", and in the end "sent"
           \* or "dropped" (it found us closed)
  todo,    \* the endpoints a writer has still to send to
  read,    \* the messages the collecting goroutine has read
  reader,  \* that goroutine: "read", "eof" or "handed"
  closer   \* Collect: "idle", "lock", "collect" or "done"

vars == <<kind, queue, made, shut, write, todo, read, reader, closer>>

InitAs(k) ==
  /\ kind = k
  /\ queue = [e \in {"us", "them"} |-> <<>>]
  /\ made = (k # "rounds") /\ shut = FALSE
  /\ write = [w \in Writer |-> "new"]
  /\ todo = [w \in Writer |-> {}]
  /\ read = <<>> /\ reader = "read" /\ closer = "idle"

Init == \E k \in {"peers", "network", "rounds"} : InitAs(k)

\* Close has been called and its lock was given.
Closed == closer \in {"collect", "done"}

\* No writer has the read lock of the endpoint, or of the network.
\* Slip: writers give up the lock before they send.
UnlockedAlways == TRUE

Unlocked == kind = "rounds" \/ \A w \in Writer : write[w] # "send"

------------------------------------------------------------------------------
\* Writers

\* The endpoints a writer sends to: a network no longer has one that was closed.
\* Slip: the endpoint stays in the network.
EndpointsAll == IF kind = "network" THEN {"us", "them"} ELSE {"us"}

Endpoints == (IF kind = "network" THEN {"them"} ELSE {}) \cup (IF Closed THEN {} ELSE {"us"})

\* The writer gets a read lock, for which a Close that waits goes first.
WriteEnters(w) ==
  /\ write[w] = "new" /\ closer # "lock"
  /\ todo' = [todo EXCEPT ![w] = Endpoints]
  /\ write' = [write EXCEPT ![w] =
       IF Endpoints = {} THEN "dropped" ELSE IF kind = "rounds" THEN "chan" ELSE "send"]
  /\ UNCHANGED <<kind, queue, made, shut, read, reader, closer>>

\* roundChan, after the lock under which closed was read is given up.
WriteRoundChan(w) ==
  /\ write[w] = "chan"
  /\ made' = TRUE
  /\ write' = [write EXCEPT ![w] = "send"]
  /\ UNCHANGED <<kind, queue, shut, todo, read, reader, closer>>

\* A message goes into the channel of an endpoint that has room.  To send on a
\* channel that is closed is a panic, also for a sender that waits for room.
Send(w, e) ==
  /\ write[w] = "send" /\ e \in todo[w]
  /\ IF e = "us" /\ shut
       THEN /\ write' = [write EXCEPT ![w] = "panic"]
            /\ UNCHANGED <<queue, todo>>
       ELSE /\ Len(queue[e]) < Buf
            /\ queue' = [queue EXCEPT ![e] = Append(@, w)]
            /\ todo' = [todo EXCEPT ![w] = @ \ {e}]
            /\ write' = [write EXCEPT ![w] = 
                 IF todo[w] # {e} THEN @ ELSE IF e = "them" /\ Closed THEN "dropped" ELSE "sent"]
  /\ UNCHANGED <<kind, made, shut, read, reader, closer>>

------------------------------------------------------------------------------
\* Collecting and closing

\* Slip: the endpoint is closed and that is all there is to read.
AtEOFSoon == shut

AtEOF == queue["us"] = <<>> /\ shut

\* Read by the goroutine of the collector; the channel of the round is looked up,
\* and made, each time.
Read ==
  /\ reader = "read"
  /\ IF ~made
       THEN made' = TRUE /\ UNCHANGED <<queue, read, reader>>
       ELSE /\ \/ /\ queue["us"] # <<>>
                  /\ read' = Append(read, Head(queue["us"]))
                  /\ queue' = [queue EXCEPT !["us"] = Tail(@)]
                  /\ UNCHANGED reader
               \/ /\ AtEOF
                  /\ reader' = "eof"
                  /\ UNCHANGED <<queue, read>>
            /\ UNCHANGED made
  /\ UNCHANGED <<kind, shut, write, todo, closer>>

ReadThem ==
  /\ queue["them"] # <<>>
  /\ queue' = [queue EXCEPT !["them"] = Tail(@)]
  /\ UNCHANGED <<kind, made, shut, write, todo, read, reader, closer>>

CloseAsks ==
  /\ closer = "idle"
  /\ closer' = "lock"
  /\ UNCHANGED <<kind, queue, made, shut, write, todo, read, reader>>

\* Slip: the endpoint is marked closed and its channel is not.
CloseChansNever == FALSE

\* Only channels that exist are closed.
CloseChans == made

Close ==
  /\ closer = "lock" /\ Unlocked
  /\ shut' = CloseChans
  /\ closer' = "collect"
  /\ UNCHANGED <<kind, queue, made, write, todo, read, reader>>

\* The collector hands over what it read.
Collect ==
  /\ closer = "collect" /\ reader = "eof"
  /\ closer' = "done" /\ reader' = "handed"
  /\ UNCHANGED <<kind, queue, made, shut, write, todo, read>>

Next ==
  \/ \E w \in Writer : WriteEnters(w) \/ WriteRoundChan(w) \/ \E e \in {"us", "them"} : Send(w, e)
  \/ Read \/ ReadThem \/ CloseAsks \/ Close \/ Collect

\* Readers and senders go on; a sender that waits gets its turn, as channels are
\* first in, first out.
Fairness ==
  /\ \A w \in Writer, e \in {"us", "them"} : SF_vars(Send(w, e))
  /\ WF_vars(Read) /\ WF_vars(ReadThem) /\ WF_vars(Close) /\ WF_vars(Collect)

Spec == Init /\ [][Next]_vars /\ Fairness

------------------------------------------------------------------------------
\* Nobody sends on the channel that Close closed (Write and Close of the broadcasts
\* to peers and of the network, which hold the lock while they send).
NoSendOnClosed == kind # "rounds" => \A w \in Writer : write[w] # "panic"

\* What Collect returns is all that was sent to the endpoint: every writer that
\* found it open has its message in it, once (Injector, Collect, Close).
CollectsAll ==
  reader = "handed" =>
    /\ \A w \in Writer : write[w] = "sent" => \E i \in DOMAIN read : read[i] = w
    /\ \A i, j \in DOMAIN read : read[i] = read[j] => i = j
    /\ queue["us"] = <<>>

\* Collect returns whatever writers do meanwhile, in a network as long as the other
\* endpoints are read (Close, Read, Injector.Collect).
Asked == kind # "rounds" /\ closer = "lock"
Returned == closer = "done"
CollectReturns == Asked ~> Returned
==============================================================================
