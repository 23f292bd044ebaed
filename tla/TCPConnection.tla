--------------------------- MODULE TCPConnection ----------------------------
(***************************************************************************)
(* polaris/src/TCPConnection.cc with the parts of Channel, EPollPoller and *)
(* TCPServer that a connection's life goes through: one connection of a    *)
(* server, its I/O loop, the server's base loop (another thread), threads  *)
(* that use the connection, and the peer.                                  *)
(*                                                                         *)
(* The I/O loop alternates as EventLoop does: poll, handle the channel's   *)
(* events, swap the queued functors, run them. A message is MsgLen units   *)
(* of its identity, so that partial writes and their order can be told.    *)
(***************************************************************************)
EXTENDS Naturals, Sequences

CONSTANTS Threads,       \* the threads other than the two loops' own
          MaxMsgs,       \* bound: messages sent in a behaviour
          MaxPending,    \* bound: functors queued when a thread queues another
          MsgLen,        \* units in a message
          HighWaterMark, \* highWaterMark_, in units
          Callbacks,     \* which optional callbacks are set: writeComplete,
                         \* highWaterMark
          LoopOps,       \* what callbacks in the I/O loop may call
          ThreadOps,     \* what the other threads may call
          ServerStops,   \* whether ~TCPServer() may run
          PeerOps        \* what the peer may do: send, close, reset

Ops == {"send", "shutdown", "forceClose", "forceCloseWithDelay", "startRead", "stopRead"}

ASSUME ConnectionAssumption ==
  /\ MaxMsgs \in Nat /\ MaxPending \in Nat /\ HighWaterMark \in Nat
  /\ MsgLen \in Nat \ {0}
  /\ Callbacks \subseteq {"writeComplete", "highWaterMark"}
  /\ LoopOps \subseteq Ops /\ ThreadOps \subseteq Ops \ {"forceCloseWithDelay"}
  /\ ServerStops \in BOOLEAN /\ PeerOps \subseteq {"send", "close", "reset"}

VARIABLES
  state,          \* state_
  reading,        \* reading_
  events, index,  \* the channel's events_ and index_
  addedToLoop,    \* the channel's addedToLoop_
  outputBuffer,   \* outputBuffer_, a sequence of units
  pc,             \* the I/O loop: "poll", "event", "run"
  revents,        \* the channel's revents_, the part not yet handled
  pending, batch, \* the I/O loop's functors: queued; being run
  batchHolds,     \* the batch owns a shared_ptr to the connection
  removals,       \* removeConnectionInLoop() functors in the base loop
  inMap,          \* the connection is in the server's connections_
  serverAlive,    \* ~TCPServer() has not run
  delayed,        \* the forceCloseWithDelay() timer: "no", "armed", "fired"
                  \* (bound: one such call in a behaviour)
  tpc,            \* where each thread is in its call: <<operation, next step>>
  holds,          \* the threads that hold a shared_ptr to the connection
  inData, peerFin, reset, sockError,  \* the socket, as the peer left it
  finSent,        \* shutdown(SHUT_WR) was called
  wire,           \* history: the units written to the socket
  accepted,       \* history: the messages sendInLoop() wrote or buffered
  sends,          \* history: messages given to send()
  destroys,       \* history: how often connectDestroyed() ran
  dangling        \* history: uses of a destroyed object

channelVars == <<events, index, addedToLoop>>
connVars == <<state, reading, channelVars, outputBuffer>>
loopVars == <<pc, revents, pending, batch, batchHolds>>
serverVars == <<removals, inMap, serverAlive>>
threadVars == <<tpc, holds>>
socketVars == <<inData, peerFin, reset, sockError, finSent, wire>>
historyVars == <<accepted, sends, destroys, dangling>>
vars == <<connVars, loopVars, serverVars, delayed, threadVars, socketVars, historyVars>>

-----------------------------------------------------------------------------
(* Functors: name and, for send, the message.                              *)

Functor(name) == [name |-> name, msg |-> 0]
Send(m) == [name |-> "send", msg |-> m]

\* std::bind with a shared_ptr; the others bind this
OnlyForceCloseOwns(f) == f.name = "forceClose"
OwnsConnection(f) ==
  f.name \in {"connectEstablished", "forceClose", "connectDestroyed"} \cup Callbacks

SomeOwner(s) == \E i \in DOMAIN s : OwnsConnection(s[i])

\* The connection object exists: some shared_ptr to it does. (The one that
\* handleEvent() locks through tie_ never is the last.)
Alive == inMap \/ removals > 0 \/ holds # {} \/ batchHolds \/ SomeOwner(pending)

\* Counters of events that should happen once stop at 2.
Once(n) == IF n < 2 THEN n + 1 ELSE n

Idle == <<"none", "idle">>

Units(m) == [i \in 1..MsgLen |-> m]

Init ==
  /\ state = "kConnecting" /\ reading = FALSE
  /\ events = {} /\ index = "kNew" /\ addedToLoop = FALSE
  /\ outputBuffer = <<>>
  /\ pc = "poll" /\ revents = {}
  /\ pending = <<Functor("connectEstablished")>>  \* TCPServer::newConnection()
  /\ batch = <<>> /\ batchHolds = FALSE
  /\ removals = 0 /\ inMap = TRUE /\ serverAlive = TRUE
  /\ delayed = "no"
  /\ tpc = [t \in Threads |-> Idle] /\ holds = {}
  /\ inData = FALSE /\ peerFin = FALSE /\ reset = FALSE /\ sockError = FALSE
  /\ finSent = FALSE /\ wire = <<>>
  /\ accepted = <<>> /\ sends = 0 /\ destroys = 0 /\ dangling = {}

-----------------------------------------------------------------------------
(* Channel::update() and EPollPoller::updateChannel(). The kernel watches  *)
(* the channel while index_ is kAdded, for the events last given to it,    *)
(* which are always events_.                                               *)

UpdateChannel(ev) ==
  /\ events' = ev
  /\ addedToLoop' = TRUE
  /\ index' = IF index = "kAdded" /\ ev = {} THEN "kDeleted" ELSE "kAdded"

-----------------------------------------------------------------------------
(* What runs in the I/O loop, as operators on the connection's state.      *)

\* closeCallback_: TCPServer::removeConnection() queues the removal in the
\* base loop through a raw pointer to the server.
CloseCallback ==
  IF serverAlive
  THEN removals' = Once(removals) /\ UNCHANGED dangling
  ELSE dangling' = dangling \cup {"server"} /\ UNCHANGED removals

\* handleClose(); in a release build its assert is not compiled in
HandleCloseForgetsServer ==
  /\ state' = "kDisconnected"
  /\ UpdateChannel({})
  /\ UNCHANGED <<removals, dangling>>
HandleClose ==
  /\ state' = "kDisconnected"
  /\ UpdateChannel({})
  /\ CloseCallback

\* The socket accepts no more data from us.
Broken == reset \/ finSent

\* Write to the socket at once: not if the output buffer holds earlier data.
AlwaysDirect == TRUE
Direct == "write" \notin events /\ outputBuffer = <<>>

\* A rest is buffered: enableWriting() unless it is on
BufferUnwatched(rest) == UNCHANGED channelVars
WatchOutput(rest) ==
  IF rest > 0 /\ "write" \notin events
  THEN UpdateChannel(events \cup {"write"})
  ELSE UNCHANGED channelVars

\* sendInLoop(): write directly when nothing is queued, buffer the rest and
\* watch for writability, queue the callbacks; a message that meets a broken
\* socket (EPIPE, ECONNRESET) is dropped.
SendInLoop(m) ==
  IF state = "kDisconnected" \/ (Direct /\ Broken)
  THEN UNCHANGED <<channelVars, outputBuffer, wire, accepted, pending>>
  ELSE \E n \in IF Direct THEN 0..MsgLen ELSE {0} :
         LET old == Len(outputBuffer)
             new == old + MsgLen - n
             callback == IF n = MsgLen THEN "writeComplete" ELSE "highWaterMark"
         IN
         /\ wire' = wire \o SubSeq(Units(m), 1, n)
         /\ outputBuffer' = outputBuffer \o SubSeq(Units(m), n + 1, MsgLen)
         /\ accepted' = Append(accepted, m)
         /\ pending' = IF /\ callback \in Callbacks
                          /\ n = MsgLen \/ (old < HighWaterMark /\ new >= HighWaterMark)
                       THEN Append(pending, Functor(callback)) ELSE pending
         /\ WatchOutput(MsgLen - n)

\* shutdownInLoop(): send our FIN unless data is still to be written
ShutdownInLoopAtOnce == finSent' = TRUE
ShutdownInLoop ==
  finSent' = IF "write" \in events THEN finSent ELSE TRUE

\* startReadInLoop(), stopReadInLoop()
StartReadInLoop ==
  IF ~reading \/ "read" \notin events
  THEN UpdateChannel(events \cup {"read"}) /\ reading' = TRUE
  ELSE UNCHANGED <<channelVars, reading>>

StopReadInLoop ==
  IF reading \/ "read" \in events
  THEN UpdateChannel(events \ {"read"}) /\ reading' = FALSE
  ELSE UNCHANGED <<channelVars, reading>>

\* connectEstablished()
ConnectEstablished ==
  /\ state' = "kConnected"
  /\ UpdateChannel(events \cup {"read"})

\* connectDestroyed(): EPollPoller::removeChannel() forgets the channel,
\* whatever its events_ are
ConnectDestroyedKeepsChannel ==
  /\ state' = IF state = "kConnected" THEN "kDisconnected" ELSE state
  /\ destroys' = Once(destroys)
  /\ UNCHANGED channelVars
ConnectDestroyed ==
  /\ state' = IF state = "kConnected" THEN "kDisconnected" ELSE state
  /\ events' = IF state = "kConnected" THEN {} ELSE events
  /\ index' = "kNew"
  /\ addedToLoop' = FALSE
  /\ destroys' = Once(destroys)

Open == state \in {"kConnected", "kDisconnecting"}

Queue(f) == pending' = Append(pending, f)

-----------------------------------------------------------------------------
(* The I/O loop.                                                           *)

\* What epoll reports of the channel, level triggered. Hang-up and error are
\* reported whatever the interest; room is whether the socket has room.
Ready(room) ==
  IF index # "kAdded" THEN {} ELSE
    {e \in {"hup", "err", "in", "out"} :
       \/ e = "hup" /\ (reset \/ (peerFin /\ finSent))
       \/ e = "err" /\ sockError
       \/ e = "in" /\ "read" \in events /\ (inData \/ peerFin \/ reset)
       \/ e = "out" /\ "write" \in events /\ (room \/ reset)}

\* poll() returns; with no event on this channel, something else woke it.
Poll(room) ==
  /\ pc = "poll"
  /\ revents' = Ready(room)
  /\ dangling' = IF Ready(room) # {} /\ ~Alive THEN dangling \cup {"channel"} ELSE dangling
  /\ pc' = "event"
  /\ UNCHANGED <<connVars, pending, batch, batchHolds, serverVars, delayed, threadVars, socketVars,
                 accepted, sends, destroys>>

\* Channel::handleEventWithGuard(), callback by callback
HandleHupAtOnce ==
  /\ pc = "event" /\ "hup" \in revents
  /\ revents' = revents \ {"hup"}
  /\ HandleClose
  /\ UNCHANGED <<reading, outputBuffer, pc, pending, batch, batchHolds, inMap, serverAlive,
                 delayed, threadVars, socketVars, accepted, sends, destroys>>
HandleHup ==
  /\ pc = "event" /\ "hup" \in revents
  /\ revents' = revents \ {"hup"}
  /\ IF "in" \in revents
     THEN UNCHANGED <<state, channelVars, removals, dangling>>
     ELSE HandleClose
  /\ UNCHANGED <<reading, outputBuffer, pc, pending, batch, batchHolds, inMap, serverAlive,
                 delayed, threadVars, socketVars, accepted, sends, destroys>>

\* handleError(): getsockopt(SO_ERROR) clears the error
HandleError ==
  /\ pc = "event" /\ "err" \in revents /\ "hup" \notin revents
  /\ revents' = revents \ {"err"}
  /\ sockError' = FALSE
  /\ UNCHANGED <<connVars, pc, pending, batch, batchHolds, serverVars, delayed, threadVars,
                 inData, peerFin, reset, finSent, wire, historyVars>>

\* handleRead(): data, an error, or end of file
HandleRead ==
  /\ pc = "event" /\ "in" \in revents /\ revents \cap {"hup", "err"} = {}
  /\ revents' = revents \ {"in"}
  /\ \/ /\ inData /\ inData' = FALSE
        /\ UNCHANGED <<sockError, state, channelVars, removals, dangling>>
     \/ /\ ~inData /\ reset /\ sockError
        /\ sockError' = FALSE
        /\ UNCHANGED <<inData, state, channelVars, removals, dangling>>
     \/ /\ ~inData /\ ~sockError /\ (peerFin \/ reset)
        /\ HandleClose
        /\ UNCHANGED <<inData, sockError>>
  /\ UNCHANGED <<reading, outputBuffer, pc, pending, batch, batchHolds, inMap, serverAlive,
                 delayed, threadVars, peerFin, reset, finSent, wire, accepted, sends, destroys>>

\* if (state_ == kDisconnecting) shutdownInLoop(), writing being disabled
ForgetShutdown == UNCHANGED finSent
ResumeShutdown == finSent' = (finSent \/ state = "kDisconnecting")

\* handleWrite(): write what the socket takes; when the buffer is empty stop
\* watching, and go on with a shutdown() that waited for it
HandleWrite ==
  /\ pc = "event" /\ revents = {"out"}
  /\ revents' = {}
  /\ IF "write" \notin events \/ Broken
     THEN UNCHANGED <<channelVars, outputBuffer, wire, pending, finSent>>
     ELSE \E n \in 1..Len(outputBuffer) :
            /\ wire' = wire \o SubSeq(outputBuffer, 1, n)
            /\ outputBuffer' = SubSeq(outputBuffer, n + 1, Len(outputBuffer))
            /\ IF n = Len(outputBuffer)
               THEN /\ UpdateChannel(events \ {"write"})
                    /\ pending' = IF "writeComplete" \in Callbacks
                                  THEN Append(pending, Functor("writeComplete")) ELSE pending
                    /\ ResumeShutdown
               ELSE UNCHANGED <<channelVars, pending, finSent>>
  /\ UNCHANGED <<state, reading, pc, batch, batchHolds, serverVars, delayed, threadVars,
                 inData, peerFin, reset, sockError, historyVars>>

\* doPendingFunctors(): the batch owns its functors until all have run
SwapFunctors ==
  /\ pc = "event" /\ revents = {}
  /\ batch' = pending /\ pending' = <<>>
  /\ batchHolds' = SomeOwner(pending)
  /\ pc' = "run"
  /\ UNCHANGED <<connVars, revents, serverVars, delayed, threadVars, socketVars, historyVars>>

EndFunctors ==
  /\ pc = "run" /\ batch = <<>>
  /\ batchHolds' = FALSE
  /\ pc' = "poll"
  /\ UNCHANGED <<connVars, revents, pending, batch, serverVars, delayed, threadVars, socketVars,
                 historyVars>>

\* The effect of each functor on what it may change
Effect(f) ==
  CASE f.name = "connectEstablished" ->
         ConnectEstablished /\ UNCHANGED <<reading, outputBuffer, pending, removals, finSent, wire,
                                           accepted, destroys, dangling>>
    [] f.name = "connectDestroyed" ->
         ConnectDestroyed /\ UNCHANGED <<reading, outputBuffer, pending, removals, finSent, wire,
                                         accepted, dangling>>
    [] f.name = "forceClose" ->
         /\ IF Open THEN HandleClose ELSE UNCHANGED <<state, channelVars, removals, dangling>>
         /\ UNCHANGED <<reading, outputBuffer, pending, finSent, wire, accepted, destroys>>
    [] f.name = "send" ->
         SendInLoop(f.msg) /\ UNCHANGED <<state, reading, removals, finSent, destroys, dangling>>
    [] f.name = "shutdown" ->
         ShutdownInLoop /\ UNCHANGED <<state, reading, channelVars, outputBuffer, pending, removals,
                                       wire, accepted, destroys, dangling>>
    [] f.name = "startRead" ->
         StartReadInLoop /\ UNCHANGED <<state, outputBuffer, pending, removals, finSent, wire,
                                        accepted, destroys, dangling>>
    [] f.name = "stopRead" ->
         StopReadInLoop /\ UNCHANGED <<state, outputBuffer, pending, removals, finSent, wire,
                                       accepted, destroys, dangling>>
    [] OTHER ->   \* the user's callbacks
         UNCHANGED <<connVars, pending, removals, finSent, wire, accepted, destroys, dangling>>

\* A functor that bound this may find the connection gone.
RunFunctor ==
  /\ pc = "run" /\ batch # <<>>
  /\ batch' = Tail(batch)
  /\ IF Alive
     THEN Effect(Head(batch))
     ELSE /\ dangling' = dangling \cup {Head(batch).name}
          /\ UNCHANGED <<connVars, pending, removals, finSent, wire, accepted, destroys>>
  /\ UNCHANGED <<pc, revents, batchHolds, inMap, serverAlive, delayed, threadVars,
                 inData, peerFin, reset, sockError, sends>>

-----------------------------------------------------------------------------
(* Calls from callbacks in the I/O loop. They hold the connection, which   *)
(* is first handed to a callback by connectEstablished().                  *)

InLoop(op) ==
  /\ op \in LoopOps
  /\ pc \in {"event", "run"} /\ Alive /\ state # "kConnecting"

LoopSend ==
  /\ InLoop("send") /\ state = "kConnected" /\ sends < MaxMsgs
  /\ sends' = sends + 1
  /\ SendInLoop(sends + 1)
  /\ UNCHANGED <<state, reading, pc, revents, batch, batchHolds, serverVars, delayed, threadVars,
                 inData, peerFin, reset, sockError, finSent, destroys, dangling>>

LoopShutdown ==
  /\ InLoop("shutdown") /\ state = "kConnected"
  /\ state' = "kDisconnecting"
  /\ ShutdownInLoop
  /\ UNCHANGED <<reading, channelVars, outputBuffer, loopVars, serverVars, delayed, threadVars,
                 inData, peerFin, reset, sockError, wire, historyVars>>

\* forceClose(): kDisconnecting now, forceCloseInLoop() later. Bound: callbacks
\* do not call it again while one is queued.
ForceClose ==
  /\ Open
  /\ state' = "kDisconnecting"
  /\ Queue(Functor("forceClose"))

LoopForceClose ==
  /\ InLoop("forceClose") /\ ~\E i \in DOMAIN pending : pending[i].name = "forceClose"
  /\ ForceClose
  /\ UNCHANGED <<reading, channelVars, outputBuffer, pc, revents, batch, batchHolds, serverVars,
                 delayed, threadVars, socketVars, historyVars>>

LoopForceCloseWithDelay ==
  /\ InLoop("forceCloseWithDelay") /\ Open /\ delayed = "no"
  /\ state' = "kDisconnecting"
  /\ delayed' = "armed"
  /\ UNCHANGED <<reading, channelVars, outputBuffer, loopVars, serverVars, threadVars, socketVars,
                 historyVars>>

\* The timer's weak callback calls forceClose() if the connection exists.
DelayExpires ==
  /\ delayed = "armed" /\ pc = "event"
  /\ delayed' = "fired"
  /\ IF Alive /\ Open THEN ForceClose ELSE UNCHANGED <<state, pending>>
  /\ UNCHANGED <<reading, channelVars, outputBuffer, pc, revents, batch, batchHolds, serverVars,
                 threadVars, socketVars, historyVars>>

\* startRead() and stopRead() do not look at state_
LoopStartRead ==
  /\ InLoop("startRead")
  /\ StartReadInLoop
  /\ UNCHANGED <<state, outputBuffer, loopVars, serverVars, delayed, threadVars, socketVars, historyVars>>

LoopStopRead ==
  /\ InLoop("stopRead")
  /\ StopReadInLoop
  /\ UNCHANGED <<state, outputBuffer, loopVars, serverVars, delayed, threadVars, socketVars, historyVars>>

-----------------------------------------------------------------------------
(* Calls by other threads, through a shared_ptr they hold. Each read and   *)
(* each write of state_, and the push of the functor, is a step.           *)

GetConnection(t) ==
  /\ ThreadOps # {} /\ state = "kConnected" /\ inMap /\ t \notin holds
  /\ holds' = holds \cup {t}
  /\ UNCHANGED <<connVars, loopVars, serverVars, delayed, tpc, socketVars, historyVars>>

DropConnection(t) ==
  /\ t \in holds /\ tpc[t] = Idle
  /\ holds' = holds \ {t}
  /\ UNCHANGED <<connVars, loopVars, serverVars, delayed, tpc, socketVars, historyVars>>

\* The next step of the call, after its test of state_ (if it has one)
Call(t, op) ==
  /\ t \in holds /\ tpc[t] = Idle /\ op \in ThreadOps /\ Len(pending) < MaxPending
  /\ CASE op = "send" -> state = "kConnected" /\ sends < MaxMsgs
       [] op = "shutdown" -> state = "kConnected"
       [] op = "forceClose" -> Open
       [] OTHER -> TRUE
  /\ tpc' = [tpc EXCEPT ![t] =
       <<op, IF op \in {"shutdown", "forceClose"} THEN "setState" ELSE "push">>]
  /\ UNCHANGED <<connVars, loopVars, serverVars, delayed, holds, socketVars, historyVars>>

\* setState(kDisconnecting), without looking again
SetDisconnecting(t) ==
  /\ tpc[t][2] = "setState"
  /\ state' = "kDisconnecting"
  /\ tpc' = [tpc EXCEPT ![t][2] = "push"]
  /\ UNCHANGED <<reading, channelVars, outputBuffer, loopVars, serverVars, delayed, holds,
                 socketVars, historyVars>>

Push(t) ==
  /\ tpc[t][2] = "push"
  /\ IF tpc[t][1] = "send"
     THEN Queue(Send(sends + 1)) /\ sends' = sends + 1
     ELSE Queue(Functor(tpc[t][1])) /\ UNCHANGED sends
  /\ tpc' = [tpc EXCEPT ![t] = Idle]
  /\ UNCHANGED <<connVars, pc, revents, batch, batchHolds, serverVars, delayed, holds, socketVars,
                 accepted, destroys, dangling>>

-----------------------------------------------------------------------------
(* The server, in the base loop.                                           *)

\* removeConnectionInLoop(); after ~TCPServer() its this is dangling
RemoveConnection ==
  /\ removals > 0
  /\ removals' = removals - 1
  /\ IF serverAlive
     THEN inMap' = FALSE /\ Queue(Functor("connectDestroyed")) /\ UNCHANGED dangling
     ELSE dangling' = dangling \cup {"server"} /\ UNCHANGED <<inMap, pending>>
  /\ UNCHANGED <<connVars, pc, revents, batch, batchHolds, serverAlive, delayed, threadVars,
                 socketVars, accepted, sends, destroys>>

\* ~TCPServer()
StopServer ==
  /\ ServerStops /\ serverAlive
  /\ serverAlive' = FALSE
  /\ inMap' = FALSE
  /\ IF inMap THEN Queue(Functor("connectDestroyed")) ELSE UNCHANGED pending
  /\ UNCHANGED <<connVars, pc, revents, batch, batchHolds, removals, delayed, threadVars,
                 socketVars, historyVars>>

-----------------------------------------------------------------------------
(* The peer, as far as the socket shows it: the socket lives as long as    *)
(* the connection, and once the peer has reset it nothing more arrives.    *)

PeerSends ==
  /\ "send" \in PeerOps /\ Alive /\ ~peerFin /\ ~reset /\ ~inData
  /\ inData' = TRUE
  /\ UNCHANGED <<connVars, loopVars, serverVars, delayed, threadVars, peerFin, reset, sockError,
                 finSent, wire, historyVars>>

PeerCloses ==
  /\ "close" \in PeerOps /\ Alive /\ ~peerFin /\ ~reset
  /\ peerFin' = TRUE
  /\ UNCHANGED <<connVars, loopVars, serverVars, delayed, threadVars, inData, reset, sockError,
                 finSent, wire, historyVars>>

PeerResets ==
  /\ "reset" \in PeerOps /\ Alive /\ ~reset
  /\ reset' = TRUE /\ sockError' = TRUE /\ inData' = FALSE
  /\ UNCHANGED <<connVars, loopVars, serverVars, delayed, threadVars, peerFin, finSent, wire,
                 historyVars>>

-----------------------------------------------------------------------------
Peer == PeerSends \/ PeerCloses \/ PeerResets

HandleEvent == HandleHup \/ HandleError \/ HandleRead \/ HandleWrite

RunsFunctors == SwapFunctors \/ RunFunctor \/ EndFunctors

LoopCall ==
  \/ LoopSend \/ LoopShutdown \/ LoopForceClose \/ LoopForceCloseWithDelay
  \/ LoopStartRead \/ LoopStopRead

ThreadCall(t) ==
  GetConnection(t) \/ DropConnection(t) \/ \E op \in ThreadOps : Call(t, op)

Next ==
  \/ \E room \in BOOLEAN : Poll(room)
  \/ HandleEvent \/ RunsFunctors \/ DelayExpires \/ LoopCall
  \/ \E t \in Threads : ThreadCall(t) \/ SetDisconnecting(t) \/ Push(t)
  \/ RemoveConnection \/ StopServer
  \/ Peer

\* Both loops and the threads run. Strong fairness for room in the socket (the
\* peer reads, so that poll() does not find it full for ever) and for the
\* timer (every poll() after its expiration reports the timerfd).
Fairness ==
  /\ SF_vars(Poll(TRUE)) /\ WF_vars(HandleEvent) /\ WF_vars(RunsFunctors)
  /\ SF_vars(DelayExpires) /\ WF_vars(RemoveConnection)
  /\ \A t \in Threads : WF_vars(SetDisconnecting(t) \/ Push(t))

Spec == Init /\ [][Next]_vars

FairSpec == Spec /\ Fairness

-----------------------------------------------------------------------------
(* Properties.                                                             *)

Names == {"connectEstablished", "connectDestroyed", "forceClose", "send", "shutdown",
          "startRead", "stopRead", "writeComplete", "highWaterMark"}

Functors == [name : Names, msg : 0..sends]

\* The variables have their types; no queued, buffered or written message is
\* one that nobody sent, and poll() reports nothing but hang-up, error, input
\* and room for output.
TypeOK ==
  /\ state \in {"kConnecting", "kConnected", "kDisconnecting", "kDisconnected"}
  /\ events \subseteq {"read", "write"}
  /\ index \in {"kNew", "kAdded", "kDeleted"}
  /\ {reading, addedToLoop, batchHolds, inMap, serverAlive, inData, peerFin, reset,
      sockError, finSent} \subseteq BOOLEAN
  /\ delayed \in {"no", "armed", "fired"}
  /\ pc \in {"poll", "event", "run"}
  /\ revents \subseteq {"hup", "err", "in", "out"}
  /\ pending \in Seq(Functors) /\ batch \in Seq(Functors)
  /\ wire \in Seq(1..sends) /\ outputBuffer \in Seq(1..sends) /\ accepted \in Seq(1..sends)
  /\ {removals, destroys} \subseteq 0..2 /\ sends \in Nat
  /\ holds \subseteq Threads
  /\ tpc \in [Threads -> {Idle} \cup (ThreadOps \X {"setState", "push"})]

\* The byte stream of messages
Stream(msgs) == [i \in 1..(MsgLen * Len(msgs)) |-> msgs[(i - 1) \div MsgLen + 1]]

\* sendInLoop and handleWrite, "atomic" (line 90): what was written and what
\* is buffered is the accepted messages, whole and in order, however writes
\* are cut short and whichever threads send.
StreamIntact == wire \o outputBuffer = Stream(accepted)

\* handleClose() has not run: the server keeps the connection.
NeverClosed == inMap /\ removals = 0

\* Until the connection is closed the loop watches for writability exactly
\* when there is something to write: no stuck output, no busy loop
\* (sendInLoop, handleWrite).
WatchesWhenPending == NeverClosed => ("write" \in events <=> outputBuffer # <<>>)

\* shutdown() is graceful: our FIN follows everything accepted before it,
\* and nothing is accepted after it (shutdownInLoop, handleWrite).
FinAfterData == NeverClosed /\ finSent => wire = Stream(accepted)

\* connectDestroyed() runs at most once (TCPConnection.h:121, "should be
\* called only once"): of a hang-up, an end of file, a forceClose(), a delayed
\* one and an error of the same connection only one closes it.
DestroyedOnce == destroys <= 1

\* ~TCPConnection() and ~Channel(): when the last shared_ptr is gone the
\* connection is disconnected and its channel removed from the loop.
DestructorAsserts == ~Alive => state = "kDisconnected" /\ ~addedToLoop

\* No functor, event or callback uses a destroyed connection or server.
NothingDangles == dangling = {}

\* A shutdown() completes: the FIN goes out, or the connection closes.
ShutdownCompletes ==
  state = "kDisconnecting" ~> finSent \/ reset \/ state = "kDisconnected"

\* A closed connection is taken out of the server and of the loop.
ClosedIsDestroyed == state = "kDisconnected" ~> destroys > 0 /\ ~addedToLoop
=============================================================================
