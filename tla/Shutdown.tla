------------------------------ MODULE Shutdown -------------------------------
(***************************************************************************)
(* How an engine (exp/onl/engine) comes to a halt: the goroutines of New,  *)
(* which read the clock and the broadcast, the goroutines of peers that    *)
(* write to the broadcast's buffer (broadcast/mem.go), the one that ticks  *)
(* the clock (clock/mem.go or clock/wall.go), the handlers that were       *)
(* started for messages, and Shutdown, which closes both ends and waits.   *)
(*                                                                         *)
(* Channels are counts; what a message says does not matter.  A reader of  *)
(* the broadcast's RWMutex waits while Close waits for it, as Go has it.   *)
(***************************************************************************)
EXTENDS Naturals, FiniteSets

CONSTANTS
  Peer,   \* peerWrite goroutines, each with one message for this engine
  Buf     \* capacity of the broadcast's buffer (NewMem's bufn)

VARIABLES
  wall,      \* the engine has a WallClock, not a MemClock
  buf,       \* messages in the broadcast's buffer
  closed,    \* the broadcast is closed
  writer,    \* what each peerWrite is doing
  reader,    \* the goroutine that reads the broadcast
  handlers,  \* handlers that are running
  tick,      \* who ticks the clock: Fire, or the goroutine of NewWallClock
  rounds,    \* rounds in the clock's channel, which has room for one
  stopped,   \* the clock's channel is closed
  round,     \* the goroutine that reads the clock
  done,      \* tokens in Engine.done
  caller     \* where Shutdown is

vars == <<wall, buf, closed, writer, reader, handlers, tick, rounds, stopped, round,
          done, caller>>

Init ==
  /\ wall \in BOOLEAN
  /\ buf = 0 /\ closed = FALSE
  /\ writer = [p \in Peer |-> "start"]
  /\ reader = "read" /\ handlers = 0
  /\ tick = "idle" /\ rounds = 0 /\ stopped = FALSE
  /\ round = "next"
  /\ done = 0
  /\ caller = "running"

------------------------------------------------------------------------------

\* The read lock of the broadcast can be had.
CanRLock == caller # "close"

\* Slip: peerWrite does not look at closed.
WriteLockOnly(p) ==
  /\ writer[p] = "start"
  /\ CanRLock
  /\ writer' = [writer EXCEPT ![p] = "send"]
  /\ UNCHANGED <<wall, buf, closed, reader, handlers, tick, rounds, stopped, round, done,
                 caller>>

\* peerWrite takes the receiver's lock and gives up when it is closed.
WriteLock(p) ==
  /\ writer[p] = "start"
  /\ CanRLock
  /\ writer' = [writer EXCEPT ![p] = IF closed THEN "end" ELSE "send"]
  /\ UNCHANGED <<wall, buf, closed, reader, handlers, tick, rounds, stopped, round, done,
                 caller>>

\* It keeps the lock until there is room.
WriteSend(p) ==
  /\ writer[p] = "send"
  /\ buf < Buf
  /\ buf' = buf + 1
  /\ writer' = [writer EXCEPT ![p] = "end"]
  /\ UNCHANGED <<wall, closed, reader, handlers, tick, rounds, stopped, round, done, caller>>

\* Slip: nothing is read after the close.
ReadMsgOpen ==
  /\ reader = "read"
  /\ buf > 0 /\ ~closed
  /\ buf' = buf - 1
  /\ handlers' = handlers + 1
  /\ UNCHANGED <<wall, closed, writer, reader, tick, rounds, stopped, round, done, caller>>

\* The message loop: each message gets a handler of its own.
ReadMsg ==
  /\ reader = "read"
  /\ buf > 0
  /\ buf' = buf - 1
  /\ handlers' = handlers + 1
  /\ UNCHANGED <<wall, closed, writer, reader, tick, rounds, stopped, round, done, caller>>

\* Slip: the close is seen before what is in the buffer.
ReadEOFEarly ==
  /\ reader = "read"
  /\ closed
  /\ reader' = "end"
  /\ done' = done + 1
  /\ UNCHANGED <<wall, buf, closed, writer, handlers, tick, rounds, stopped, round, caller>>

ReadEOF ==
  /\ reader = "read"
  /\ buf = 0 /\ closed
  /\ reader' = "end"
  /\ done' = done + 1
  /\ UNCHANGED <<wall, buf, closed, writer, handlers, tick, rounds, stopped, round, caller>>

\* A handler ends with a write to its own broadcast, under the read lock.
HandlerEnds ==
  /\ handlers > 0
  /\ CanRLock
  /\ handlers' = handlers - 1
  /\ UNCHANGED <<wall, buf, closed, writer, reader, tick, rounds, stopped, round, done,
                 caller>>

------------------------------------------------------------------------------

\* A new round: the clock's mutex is held until its channel has room.  Fire skips
\* a clock that is closed.
Tick ==
  /\ tick = "idle"
  /\ ~stopped
  /\ tick' = "send"
  /\ UNCHANGED <<wall, buf, closed, writer, reader, handlers, rounds, stopped, round, done,
                 caller>>

TickSend ==
  /\ tick = "send"
  /\ rounds < 1
  /\ rounds' = rounds + 1
  /\ tick' = "idle"
  /\ UNCHANGED <<wall, buf, closed, writer, reader, handlers, stopped, round, done, caller>>

\* The wall clock's goroutine took the stop signal, and closes the channel it came on.
TickExit ==
  /\ tick = "exit"
  /\ tick' = "end"
  /\ UNCHANGED <<wall, buf, closed, writer, reader, handlers, rounds, stopped, round, done,
                 caller>>

\* The round loop.
NextRound ==
  /\ round = "next"
  /\ rounds > 0
  /\ rounds' = rounds - 1
  /\ round' = "handle"
  /\ UNCHANGED <<wall, buf, closed, writer, reader, handlers, tick, stopped, done, caller>>

NextEOF ==
  /\ round = "next"
  /\ rounds = 0 /\ stopped
  /\ round' = "end"
  /\ done' = done + 1
  /\ UNCHANGED <<wall, buf, closed, writer, reader, handlers, tick, rounds, stopped, caller>>

\* handleRound writes to the broadcast as well.
RoundEnds ==
  /\ round = "handle"
  /\ CanRLock
  /\ round' = "next"
  /\ UNCHANGED <<wall, buf, closed, writer, reader, handlers, tick, rounds, stopped, done,
                 caller>>

------------------------------------------------------------------------------

\* Shutdown is called and asks for the lock of the broadcast.
Call ==
  /\ caller = "running"
  /\ caller' = "close"
  /\ UNCHANGED <<wall, buf, closed, writer, reader, handlers, tick, rounds, stopped, round,
                 done>>

CloseBroadcast ==
  /\ caller = "close"
  /\ \A p \in Peer : writer[p] # "send"
  /\ closed' = TRUE
  /\ caller' = "clock"
  /\ UNCHANGED <<wall, buf, writer, reader, handlers, tick, rounds, stopped, round, done>>

\* MemClock.Close takes the mutex that Fire holds while it sends.
CloseMemClock ==
  /\ caller = "clock" /\ ~wall
  /\ tick = "idle"
  /\ stopped' = TRUE
  /\ caller' = "wait1"
  /\ UNCHANGED <<wall, buf, closed, writer, reader, handlers, tick, rounds, round, done>>

\* WallClock.Close hands the stop signal to the goroutine, which must be at its
\* select, waits for it to end, and then closes the channel.
SignalWallClock ==
  /\ caller = "clock" /\ wall
  /\ tick = "idle"
  /\ tick' = "exit"
  /\ caller' = "join"
  /\ UNCHANGED <<wall, buf, closed, writer, reader, handlers, rounds, stopped, round, done>>

CloseWallClock ==
  /\ caller = "join"
  /\ tick = "end"
  /\ stopped' = TRUE
  /\ caller' = "wait1"
  /\ UNCHANGED <<wall, buf, closed, writer, reader, handlers, tick, rounds, round, done>>

\* The two receives from Engine.done, each of which the context can end.
Wait ==
  /\ caller \in {"wait1", "wait2"}
  /\ done > 0
  /\ done' = done - 1
  /\ caller' = IF caller = "wait1" THEN "wait2" ELSE "returned"
  /\ UNCHANGED <<wall, buf, closed, writer, reader, handlers, tick, rounds, stopped, round>>

Expire ==
  /\ caller \in {"wait1", "wait2"}
  /\ caller' = "expired"
  /\ UNCHANGED <<wall, buf, closed, writer, reader, handlers, tick, rounds, stopped, round,
                 done>>

Next ==
  \/ \E p \in Peer : WriteLock(p) \/ WriteSend(p)
  \/ ReadMsg \/ ReadEOF \/ HandlerEnds
  \/ Tick \/ TickSend \/ TickExit
  \/ NextRound \/ NextEOF \/ RoundEnds
  \/ Call \/ CloseBroadcast
  \/ CloseMemClock \/ SignalWallClock \/ CloseWallClock
  \/ Wait \/ Expire

\* Goroutines that can run do.  Go's mutex goes to a goroutine that waited long, and
\* select does not pass over a case for ever: both make the close of the clock
\* strongly fair.  Nothing has to tick, to be sent or to expire.
Fairness ==
  /\ WF_vars(ReadMsg) /\ WF_vars(ReadEOF) /\ WF_vars(HandlerEnds)
  /\ WF_vars(TickSend) /\ WF_vars(TickExit)
  /\ WF_vars(NextRound) /\ WF_vars(NextEOF) /\ WF_vars(RoundEnds)
  /\ \A p \in Peer : WF_vars(WriteSend(p))
  /\ WF_vars(CloseBroadcast) /\ WF_vars(CloseWallClock) /\ WF_vars(Wait)
  /\ SF_vars(CloseMemClock) /\ SF_vars(SignalWallClock)

Spec == Init /\ [][Next]_vars /\ Fairness

------------------------------------------------------------------------------

\* Neither end sends on a channel that is closed, which would panic: peerWrite looks
\* at closed and sends under one lock, and so does Fire; the wall clock's channel is
\* closed after its goroutine ended.
NoSendOnClosed ==
  /\ closed => \A p \in Peer : writer[p] # "send"
  /\ stopped => tick \notin {"send", "exit"}

\* Shutdown returns, though peers wait for room in the buffer with the lock it needs
\* and the clock waits for room in its channel with the mutex it needs.
Asked == caller = "close"
Returned == caller \in {"returned", "expired"}
ShutdownReturns == Asked ~> Returned

\* When it returns without an error, both loops have ended and every message and
\* round that was accepted has been taken out.
DrainedOnReturn ==
  caller = "returned" => reader = "end" /\ round = "end" /\ buf = 0 /\ rounds = 0
==============================================================================
