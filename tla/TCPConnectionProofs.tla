------------------------ MODULE TCPConnectionProofs -------------------------
(***************************************************************************)
(* Proofs about TCPConnection.                                             *)
(***************************************************************************)
EXTENDS TCPConnection, SequenceTheorems, TLAPS

\* A queued send carries a message.
SendsCarry(s) == \A i \in DOMAIN s : s[i].name = "send" => s[i].msg # 0
CarryInv == SendsCarry(pending) /\ SendsCarry(batch)

TypeInv == TypeOK /\ CarryInv

\* The parts of TypeOK that no message is in
ScalarsOK ==
  /\ state \in {"kConnecting", "kConnected", "kDisconnecting", "kDisconnected"}
  /\ events \subseteq {"read", "write"}
  /\ index \in {"kNew", "kAdded", "kDeleted"}
  /\ {reading, addedToLoop, batchHolds, inMap, serverAlive, inData, peerFin, reset,
      sockError, finSent} \subseteq BOOLEAN
  /\ delayed \in {"no", "armed", "fired"}
  /\ pc \in {"poll", "event", "run"}
  /\ revents \subseteq {"hup", "err", "in", "out"}
  /\ {removals, destroys} \subseteq 0..2 /\ sends \in Nat
  /\ holds \subseteq Threads
  /\ tpc \in [Threads -> {Idle} \cup (ThreadOps \X {"setState", "push"})]

QueuesOK ==
  /\ pending \in Seq(Functors) /\ batch \in Seq(Functors)
  /\ SendsCarry(pending) /\ SendsCarry(batch)

BytesOK ==
  wire \in Seq(1..sends) /\ outputBuffer \in Seq(1..sends) /\ accepted \in Seq(1..sends)

\* The type invariant in parts.
LEMMA TypeParts == TypeInv <=> ScalarsOK /\ QueuesOK /\ BytesOK
  BY DEF TypeInv, TypeOK, CarryInv, ScalarsOK, QueuesOK, BytesOK

\* The same in the next state.
LEMMA TypePartsNext == TypeInv' <=> ScalarsOK' /\ QueuesOK' /\ BytesOK'
  BY DEF TypeInv, TypeOK, CarryInv, ScalarsOK, QueuesOK, BytesOK

\* A functor queued behind others leaves each sendInLoop() its message.
LEMMA AppendCarries ==
  ASSUME NEW S, NEW s \in Seq(S), SendsCarry(s), NEW f \in S, f.name = "send" => f.msg # 0
  PROVE  Append(s, f) \in Seq(S) /\ SendsCarry(Append(s, f))
  BY DEF SendsCarry

\* Taking the first functor leaves each sendInLoop() its message.
LEMMA TailCarries ==
  ASSUME NEW S, NEW s \in Seq(S), SendsCarry(s), s # <<>>
  PROVE  /\ Tail(s) \in Seq(S) /\ SendsCarry(Tail(s))
         /\ Head(s) \in S /\ (Head(s).name = "send" => Head(s).msg # 0)
<1>1. Len(s) \in Nat /\ Len(s) > 0 /\ Tail(s) \in Seq(S) /\ Len(Tail(s)) = Len(s) - 1
      /\ Head(s) = s[1] /\ 1 \in DOMAIN s
  OBVIOUS
<1>2. \A i \in DOMAIN Tail(s) : i + 1 \in DOMAIN s /\ Tail(s)[i] = s[i + 1]
  BY <1>1
<1> QED
  BY <1>1, <1>2 DEF SendsCarry

\* A functor without a message is a functor.
LEMMA FunctorTyped ==
  ASSUME NEW n \in Nat, NEW name \in Names
  PROVE  Functor(name) \in [name : Names, msg : 0..n]
  BY DEF Functor

\* What SendInLoop() does to the scalars
LEMMA SendInLoopScalars ==
  ASSUME ScalarsOK, NEW m, SendInLoop(m)
  PROVE  /\ events' \subseteq {"read", "write"}
         /\ index' \in {"kNew", "kAdded", "kDeleted"}
         /\ addedToLoop' \in BOOLEAN
<1>1. CASE UNCHANGED channelVars
  BY <1>1 DEF ScalarsOK, channelVars
<1>2. CASE UpdateChannel(events \cup {"write"})
  BY <1>2 DEF ScalarsOK, UpdateChannel
<1> QED
  BY <1>1, <1>2 DEF SendInLoop, WatchOutput, channelVars

\* What handleClose() does to state, channel and removals.
LEMMA HandleCloseScalars ==
  ASSUME ScalarsOK, HandleClose
  PROVE  /\ state' = "kDisconnected" /\ events' = {} /\ addedToLoop' = TRUE
         /\ index' \in {"kAdded", "kDeleted"}
         /\ removals' \in 0..2
  BY DEF ScalarsOK, HandleClose, UpdateChannel, CloseCallback, Once

\* States, flags and counters stay of their types.
LEMMA ScalarsNext ==
  ASSUME ScalarsOK, [Next]_vars
  PROVE  ScalarsOK'
<1> USE DEF vars, connVars, channelVars, loopVars, serverVars, threadVars, socketVars, historyVars
<1>1. CASE UNCHANGED vars
  BY <1>1 DEF ScalarsOK
<1>2. ASSUME NEW room \in BOOLEAN, Poll(room) PROVE ScalarsOK'
  BY <1>2 DEF ScalarsOK, Poll, Ready
<1>3. CASE HandleHup
  <2>1. CASE HandleClose
    BY <1>3, <2>1, HandleCloseScalars DEF ScalarsOK, HandleHup
  <2> QED
    BY <1>3, <2>1 DEF ScalarsOK, HandleHup
<1>4. CASE HandleError
  BY <1>4 DEF ScalarsOK, HandleError
<1>5. CASE HandleRead
  <2>1. CASE HandleClose /\ UNCHANGED <<inData, sockError>>
    BY <1>5, <2>1, HandleCloseScalars DEF ScalarsOK, HandleRead
  <2>2. CASE inData' = FALSE /\ UNCHANGED <<sockError, state, channelVars, removals, dangling>>
    BY <1>5, <2>2 DEF ScalarsOK, HandleRead
  <2>3. CASE sockError' = FALSE /\ UNCHANGED <<inData, state, channelVars, removals, dangling>>
    BY <1>5, <2>3 DEF ScalarsOK, HandleRead
  <2> QED
    BY <1>5, <2>1, <2>2, <2>3 DEF HandleRead
<1>6. CASE HandleWrite
  <2>1. CASE UNCHANGED <<channelVars, finSent>>
    BY <1>6, <2>1 DEF ScalarsOK, HandleWrite
  <2>2. CASE UpdateChannel(events \ {"write"}) /\ ResumeShutdown
    <3>1. /\ events' \subseteq {"read", "write"} /\ addedToLoop' = TRUE
          /\ index' \in {"kNew", "kAdded", "kDeleted"}
      BY <2>2 DEF ScalarsOK, UpdateChannel
    <3>2. finSent' \in BOOLEAN
      BY <2>2 DEF ScalarsOK, ResumeShutdown
    <3> QED
      BY <1>6, <3>1, <3>2 DEF ScalarsOK, HandleWrite
  <2> QED
    BY <1>6, <2>1, <2>2 DEF HandleWrite
<1>7. CASE SwapFunctors
  BY <1>7 DEF ScalarsOK, SwapFunctors, SomeOwner
<1>8. CASE EndFunctors
  BY <1>8 DEF ScalarsOK, EndFunctors
<1>9. CASE RunFunctor
  <2> DEFINE f == Head(batch)
  <2>0. UNCHANGED <<pc, revents, batchHolds, inMap, serverAlive, delayed, threadVars,
                    inData, peerFin, reset, sockError, sends>>
    BY <1>9 DEF RunFunctor
  <2>1. CASE ~Alive
    BY <1>9, <2>0, <2>1 DEF ScalarsOK, RunFunctor
  <2> SUFFICES ASSUME Effect(f) PROVE ScalarsOK'
    BY <1>9, <2>1 DEF RunFunctor
  <2> HIDE DEF f
  <2>2. CASE f.name = "connectEstablished"
    BY <2>0, <2>2 DEF ScalarsOK, Effect, ConnectEstablished, UpdateChannel
  <2>3. CASE f.name = "connectDestroyed"
    <3>1. ConnectDestroyed /\ UNCHANGED <<reading, removals, finSent>>
      BY <2>3 DEF Effect
    <3>2. /\ state' \in {"kConnecting", "kConnected", "kDisconnecting", "kDisconnected"}
          /\ events' \subseteq {"read", "write"}
      BY <3>1 DEF ScalarsOK, ConnectDestroyed
    <3>3. destroys \in 0..2
      BY DEF ScalarsOK
    <3>4. destroys' \in 0..2
      BY <3>1, <3>3 DEF ConnectDestroyed, Once
    <3>5. index' = "kNew" /\ addedToLoop' = FALSE
      BY <3>1 DEF ConnectDestroyed
    <3> QED
      BY <2>0, <3>1, <3>2, <3>4, <3>5 DEF ScalarsOK
  <2>4. CASE f.name = "forceClose"
    <3>1. CASE Open
      BY <2>0, <2>4, <3>1, HandleCloseScalars DEF ScalarsOK, Effect
    <3>2. CASE ~Open
      BY <2>0, <2>4, <3>2 DEF ScalarsOK, Effect
    <3> QED
      BY <3>1, <3>2
  <2>5. CASE f.name = "send"
    BY <2>0, <2>5, SendInLoopScalars DEF ScalarsOK, Effect
  <2>6. CASE f.name = "shutdown"
    BY <2>0, <2>6 DEF ScalarsOK, Effect, ShutdownInLoop
  <2>7. CASE f.name = "startRead"
    <3>1. StartReadInLoop /\ UNCHANGED <<state, removals, finSent, destroys>>
      BY <2>7 DEF Effect
    <3>2. /\ events' \subseteq {"read", "write"} /\ reading' \in BOOLEAN
          /\ index' \in {"kNew", "kAdded", "kDeleted"} /\ addedToLoop' \in BOOLEAN
      BY <3>1 DEF ScalarsOK, StartReadInLoop, UpdateChannel
    <3> QED
      BY <2>0, <3>1, <3>2 DEF ScalarsOK
  <2>8. CASE f.name = "stopRead"
    <3>1. StopReadInLoop /\ UNCHANGED <<state, removals, finSent, destroys>>
      BY <2>8 DEF Effect
    <3>2. /\ events' \subseteq {"read", "write"} /\ reading' \in BOOLEAN
          /\ index' \in {"kNew", "kAdded", "kDeleted"} /\ addedToLoop' \in BOOLEAN
      BY <3>1 DEF ScalarsOK, StopReadInLoop, UpdateChannel
    <3> QED
      BY <2>0, <3>1, <3>2 DEF ScalarsOK
  <2>9. CASE f.name \notin {"connectEstablished", "connectDestroyed", "forceClose", "send",
                             "shutdown", "startRead", "stopRead"}
    BY <2>0, <2>9 DEF ScalarsOK, Effect
  <2> QED
    BY <2>2, <2>3, <2>4, <2>5, <2>6, <2>7, <2>8, <2>9
<1>10. CASE DelayExpires
  BY <1>10 DEF ScalarsOK, DelayExpires, ForceClose
<1>11. CASE LoopSend
  BY <1>11, SendInLoopScalars DEF ScalarsOK, LoopSend
<1>12. CASE LoopShutdown
  BY <1>12 DEF ScalarsOK, LoopShutdown, ShutdownInLoop
<1>13. CASE LoopForceClose
  BY <1>13 DEF ScalarsOK, LoopForceClose, ForceClose
<1>14. CASE LoopForceCloseWithDelay
  BY <1>14 DEF ScalarsOK, LoopForceCloseWithDelay
<1>15. CASE LoopStartRead
  BY <1>15, ZenonT(40) DEF ScalarsOK, LoopStartRead, StartReadInLoop, UpdateChannel
<1>16. CASE LoopStopRead
  BY <1>16, ZenonT(40) DEF ScalarsOK, LoopStopRead, StopReadInLoop, UpdateChannel
<1>17. ASSUME NEW t \in Threads, GetConnection(t) \/ DropConnection(t) PROVE ScalarsOK'
  BY <1>17 DEF ScalarsOK, GetConnection, DropConnection
<1>18. ASSUME NEW t \in Threads, NEW op \in ThreadOps, Call(t, op) PROVE ScalarsOK'
  <2>1. tpc' \in [Threads -> {Idle} \cup (ThreadOps \X {"setState", "push"})]
    BY <1>18 DEF ScalarsOK, Call
  <2> QED
    BY <1>18, <2>1 DEF ScalarsOK, Call
<1>19. ASSUME NEW t \in Threads, SetDisconnecting(t) PROVE ScalarsOK'
  <2>1. tpc[t] \in ThreadOps \X {"setState", "push"}
    BY <1>19 DEF ScalarsOK, SetDisconnecting, Idle
  <2>2. [tpc[t] EXCEPT ![2] = "push"] \in ThreadOps \X {"setState", "push"}
    BY <2>1
  <2>3. tpc' \in [Threads -> {Idle} \cup (ThreadOps \X {"setState", "push"})]
    BY <1>19, <2>2 DEF ScalarsOK, SetDisconnecting
  <2> QED
    BY <1>19, <2>3 DEF ScalarsOK, SetDisconnecting
<1>20. ASSUME NEW t \in Threads, Push(t) PROVE ScalarsOK'
  BY <1>20 DEF ScalarsOK, Push
<1>21. CASE RemoveConnection
  <2>1. removals \in 0..2
    BY DEF ScalarsOK
  <2>2. removals' \in 0..2
    BY <1>21, <2>1 DEF RemoveConnection
  <2>3. inMap' \in BOOLEAN
    BY <1>21 DEF ScalarsOK, RemoveConnection
  <2> QED
    BY <1>21, <2>2, <2>3 DEF ScalarsOK, RemoveConnection
<1>22. CASE StopServer
  BY <1>22 DEF ScalarsOK, StopServer
<1>23. CASE Peer
  BY <1>23 DEF ScalarsOK, Peer, PeerSends, PeerCloses, PeerResets
<1> QED
  BY <1>1, <1>2, <1>3, <1>4, <1>5, <1>6, <1>7, <1>8, <1>9, <1>10, <1>11, <1>12, <1>13, <1>14,
     <1>15, <1>16, <1>17, <1>18, <1>19, <1>20, <1>21, <1>22, <1>23
  DEF Next, HandleEvent, RunsFunctors, LoopCall, ThreadCall

-----------------------------------------------------------------------------
(* What a step does to the messages and to the queues.                     *)

\* Messages are numbered upwards.
LEMMA SendsGrow ==
  ASSUME ScalarsOK, [Next]_vars
  PROVE  sends' \in Nat /\ sends <= sends'
<1> USE DEF vars, historyVars
<1>1. sends \in Nat
  BY DEF ScalarsOK
<1>2. sends' = sends \/ sends' = sends + 1
  BY DEF Next, HandleEvent, RunsFunctors, LoopCall, ThreadCall, Poll, HandleHup, HandleError,
         HandleRead, HandleWrite, SwapFunctors, EndFunctors, RunFunctor, DelayExpires, LoopSend,
         LoopShutdown, LoopForceClose, LoopForceCloseWithDelay, LoopStartRead, LoopStopRead,
         GetConnection, DropConnection, Call, SetDisconnecting, Push, RemoveConnection,
         StopServer, Peer, PeerSends, PeerCloses, PeerResets
<1> QED
  BY <1>1, <1>2

\* Only sendInLoop() and handleWrite() touch the messages.
LEMMA BytesStep ==
  ASSUME TypeInv, [Next]_vars
  PROVE  \/ UNCHANGED <<wire, outputBuffer, accepted>>
         \/ \E m \in 1..sends' : SendInLoop(m)
         \/ HandleWrite
<1> USE DEF vars, connVars, socketVars, historyVars
<1>1. CASE RunFunctor /\ Alive
  <2> DEFINE f == Head(batch)
  <2>1. f \in Functors /\ (f.name = "send" => f.msg # 0)
    BY <1>1, TailCarries, TypeParts DEF QueuesOK, RunFunctor
  <2>2. f.name = "send" => f.msg \in 1..sends'
    BY <1>1, <2>1, TypeParts DEF Functors, RunFunctor, ScalarsOK
  <2>3. Effect(f)
    BY <1>1 DEF RunFunctor
  <2> HIDE DEF f
  <2> QED
    BY <2>2, <2>3 DEF Effect
<1>2. CASE RunFunctor /\ ~Alive
  BY <1>2 DEF RunFunctor
<1>3. CASE LoopSend
  BY <1>3, TypeParts DEF LoopSend, ScalarsOK
<1> QED
  BY <1>1, <1>2, <1>3
     DEF Next, HandleEvent, RunsFunctors, LoopCall, ThreadCall, Poll, HandleHup, HandleError,
         HandleRead, SwapFunctors, EndFunctors, DelayExpires,
         LoopShutdown, LoopForceClose, LoopForceCloseWithDelay, LoopStartRead, LoopStopRead,
         GetConnection, DropConnection, Call, SetDisconnecting, Push, RemoveConnection,
         StopServer, Peer, PeerSends, PeerCloses, PeerResets

\* A functor is queued at the end; connectEstablished() is not queued again,
\* connectDestroyed() when the connection leaves the server's map.
Queues(f) ==
  /\ f \in Functors' /\ (f.name = "send" => f.msg # 0)
  /\ f.name # "connectEstablished" /\ (f.name = "connectDestroyed" => ~inMap')
  /\ pending' = Append(pending, f)

\* sendInLoop() queues at most a callback.
LEMMA SendInLoopQueues ==
  ASSUME TypeInv, sends' \in Nat, NEW m, SendInLoop(m)
  PROVE  pending' = pending \/ \E c \in Callbacks : Queues(Functor(c))
<1>1. pending' = pending \/ \E c \in Callbacks : pending' = Append(pending, Functor(c))
  BY DEF SendInLoop
<1>2. \A c \in Callbacks :
         /\ c \in Names /\ Functor(c).name = c
         /\ c \notin {"send", "connectEstablished", "connectDestroyed"}
  BY ConnectionAssumption DEF Names, Functor
<1>3. \A c \in Callbacks : Functor(c) \in Functors'
  BY <1>2, FunctorTyped DEF Functors
<1> QED
  BY <1>1, <1>2, <1>3 DEF Queues

\* The pending functors change by queueInLoop() and the swap alone.
LEMMA PendingStep ==
  ASSUME TypeInv, [Next]_vars
  PROVE  pending' = pending \/ (\E f : Queues(f)) \/ SwapFunctors
<1> USE DEF vars, connVars, loopVars, socketVars, historyVars
<1>0. sends \in Nat /\ sends' \in Nat /\ sends <= sends'
  BY SendsGrow, TypeParts DEF ScalarsOK
<1>1. \A name \in Names \ {"send", "connectEstablished"} :
         (name = "connectDestroyed" => ~inMap') /\ pending' = Append(pending, Functor(name)) => Queues(Functor(name))
  <2>1. \A name \in Names : Functor(name) \in Functors' /\ Functor(name).name = name
    BY <1>0, FunctorTyped DEF Functors, Functor
  <2> QED
    BY <2>1 DEF Queues
<1>2. CASE HandleWrite
  BY <1>1, <1>2 DEF HandleWrite, Names
<1>3. CASE RunFunctor
  <2>1. CASE ~Alive
    BY <1>3, <2>1 DEF RunFunctor
  <2>2. CASE Effect(Head(batch))
    <3> DEFINE f == Head(batch)
    <3>1. f.name = "send" => SendInLoop(f.msg)
      BY <2>2 DEF Effect
    <3>2. f.name # "send" => pending' = pending
      BY <2>2 DEF Effect
    <3> QED
      BY <1>0, <3>1, <3>2, SendInLoopQueues
  <2> QED
    BY <1>3, <2>1, <2>2 DEF RunFunctor
<1>4. CASE DelayExpires \/ LoopForceClose
  BY <1>1, <1>4 DEF DelayExpires, LoopForceClose, ForceClose, Queue, Names
<1>5. CASE LoopSend
  BY <1>0, <1>5, SendInLoopQueues DEF LoopSend
<1>6. ASSUME NEW t \in Threads, Push(t)
      PROVE  \E f : Queues(f)
  <2>1. CASE tpc[t][1] = "send"
    <3>1. pending' = Append(pending, Send(sends + 1)) /\ sends' = sends + 1
      BY <1>6, <2>1 DEF Push, Queue
    <3>2. /\ Send(sends + 1) \in Functors' /\ Send(sends + 1).msg # 0
          /\ Send(sends + 1).name = "send"
      BY <1>0, <3>1 DEF Send, Functors, Names
    <3> QED
      BY <3>1, <3>2 DEF Queues
  <2>2. CASE tpc[t][1] # "send"
    <3>1. pending' = Append(pending, Functor(tpc[t][1]))
      BY <1>6, <2>2 DEF Push, Queue
    <3>2. tpc[t] \in ThreadOps \X {"setState", "push"}
      BY <1>6, TypeParts DEF ScalarsOK, Push, Idle
    <3>3. tpc[t][1] \in Names \ {"send", "connectEstablished", "connectDestroyed"}
      BY <2>2, <3>2, ConnectionAssumption DEF Ops, Names
    <3> QED
      BY <1>1, <3>1, <3>3
  <2> QED
    BY <2>1, <2>2
<1>7. CASE RemoveConnection \/ StopServer
  BY <1>1, <1>7 DEF RemoveConnection, StopServer, Queue, Names
<1> QED
  BY <1>2, <1>3, <1>4, <1>5, <1>6, <1>7
     DEF Next, HandleEvent, RunsFunctors, LoopCall, ThreadCall, Poll, HandleHup, HandleError,
         HandleRead, EndFunctors,
         LoopShutdown, LoopForceCloseWithDelay, LoopStartRead, LoopStopRead,
         GetConnection, DropConnection, Call, SetDisconnecting,
         Peer, PeerSends, PeerCloses, PeerResets

\* The running functors change by the swap and by running one.
LEMMA BatchStep ==
  ASSUME [Next]_vars
  PROVE  batch' = batch \/ SwapFunctors \/ (batch # <<>> /\ batch' = Tail(batch))
  BY DEF vars, loopVars,
         Next, HandleEvent, RunsFunctors, LoopCall, ThreadCall, Poll, HandleHup, HandleError,
         HandleRead, HandleWrite, EndFunctors, RunFunctor, DelayExpires, LoopSend,
         LoopShutdown, LoopForceClose, LoopForceCloseWithDelay, LoopStartRead, LoopStopRead,
         GetConnection, DropConnection, Call, SetDisconnecting, Push, RemoveConnection,
         StopServer, Peer, PeerSends, PeerCloses, PeerResets

-----------------------------------------------------------------------------
(* Type correctness.                                                       *)

\* The queues stay of their type.
LEMMA QueuesNext ==
  ASSUME TypeInv, [Next]_vars
  PROVE  QueuesOK'
<1>0. sends \in Nat /\ sends' \in Nat /\ sends <= sends'
  BY SendsGrow, TypeParts DEF ScalarsOK
<1>1. Functors \subseteq Functors'
  BY <1>0 DEF Functors
<1>2. pending \in Seq(Functors') /\ batch \in Seq(Functors')
  BY <1>1, TypeParts, SeqMonotonic DEF QueuesOK
<1>3. SendsCarry(pending) /\ SendsCarry(batch)
  BY TypeParts DEF QueuesOK
<1>4. <<>> \in Seq(Functors') /\ SendsCarry(<<>>)
  BY DEF SendsCarry
<1> HIDE DEF Functors
<1>5. pending' \in Seq(Functors') /\ SendsCarry(pending')
  <2>1. CASE \E f : Queues(f)
    BY <1>2, <1>3, <2>1, AppendCarries DEF Queues
  <2>2. CASE SwapFunctors
    BY <1>4, <2>2 DEF SwapFunctors
  <2> QED
    BY <1>2, <1>3, <2>1, <2>2, PendingStep
<1>6. batch' \in Seq(Functors') /\ SendsCarry(batch')
  <2>1. CASE SwapFunctors
    BY <1>2, <1>3, <2>1 DEF SwapFunctors
  <2>2. CASE batch # <<>> /\ batch' = Tail(batch)
    BY <1>2, <1>3, <2>2, TailCarries
  <2> QED
    BY <1>2, <1>3, <2>1, <2>2, BatchStep
<1> QED
  BY <1>5, <1>6 DEF QueuesOK, SendsCarry

\* A message is its number, as often as it is long.
LEMMA UnitsTyped ==
  ASSUME NEW S, NEW m \in S
  PROVE  Units(m) \in Seq(S) /\ Len(Units(m)) = MsgLen /\ \A i \in 1..MsgLen : Units(m)[i] = m
  BY ConnectionAssumption DEF Units

\* A sequence cut at n
LEMMA Cut ==
  ASSUME NEW S, NEW s \in Seq(S), NEW n \in 0..Len(s)
  PROVE  /\ SubSeq(s, 1, n) \in Seq(S) /\ SubSeq(s, n + 1, Len(s)) \in Seq(S)
         /\ Len(SubSeq(s, n + 1, Len(s))) = Len(s) - n
         /\ SubSeq(s, 1, n) \o SubSeq(s, n + 1, Len(s)) = s
<1>1. Len(s) \in Nat
  OBVIOUS
<1>2. SubSeq(s, 1, Len(s)) = s
  BY SubSeqFull
<1>3. SubSeq(s, 1, n) \o SubSeq(s, n + 1, Len(s)) = SubSeq(s, 1, Len(s))
  <2>1. 1 \in 1..(Len(s) + 1) /\ n \in (1 - 1)..Len(s) /\ Len(s) \in n..Len(s)
    BY <1>1
  <2> QED
    BY <2>1, ConcatAdjacentSubSeq
<1>4. SubSeq(s, 1, n) \in Seq(S)
  BY <1>1, SubSeqProperties, ElementOfSeq
<1>5. /\ SubSeq(s, n + 1, Len(s)) \in Seq(S)
      /\ Len(SubSeq(s, n + 1, Len(s))) = Len(s) - n
  <2>1. \A i \in (n + 1)..Len(s) : s[i] \in S
    BY <1>1, ElementOfSeq
  <2> QED
    BY <1>1, <2>1, SubSeqProperties
<1> QED
  BY <1>2, <1>3, <1>4, <1>5

\* What sendInLoop() does to the bytes: the message is dropped, or its units
\* follow those written and buffered before it.
LEMMA SendInLoopBytes ==
  ASSUME NEW S, wire \in Seq(S), outputBuffer \in Seq(S), accepted \in Seq(S),
         NEW m \in S, SendInLoop(m)
  PROVE  \/ UNCHANGED <<wire, outputBuffer, accepted>>
         \/ /\ wire' \in Seq(S) /\ outputBuffer' \in Seq(S)
            /\ accepted' = Append(accepted, m)
            /\ wire' \o outputBuffer' = (wire \o outputBuffer) \o Units(m)
<1>1. CASE state = "kDisconnected" \/ (Direct /\ Broken)
  BY <1>1 DEF SendInLoop
<1>2. CASE ~(state = "kDisconnected" \/ (Direct /\ Broken))
  <2>1. PICK n \in IF Direct THEN 0..MsgLen ELSE {0} :
          /\ wire' = wire \o SubSeq(Units(m), 1, n)
          /\ outputBuffer' = outputBuffer \o SubSeq(Units(m), n + 1, MsgLen)
          /\ accepted' = Append(accepted, m)
    BY <1>2 DEF SendInLoop
  <2>2. n \in 0..MsgLen /\ (n # 0 => outputBuffer = <<>>)
    BY <2>1, ConnectionAssumption DEF Direct
  <2> DEFINE u == Units(m)
             a == SubSeq(u, 1, n)
             b == SubSeq(u, n + 1, MsgLen)
  <2>3. u \in Seq(S) /\ Len(u) = MsgLen
    BY UnitsTyped
  <2> HIDE DEF u
  <2>4. a \in Seq(S) /\ b \in Seq(S) /\ a \o b = u
    BY <2>2, <2>3, Cut
  <2>4a. a \in Seq(S) /\ b \in Seq(S)
    BY <2>4
  <2>3a. u \in Seq(S)
    BY <2>3
  <2>5. n = 0 => a = <<>>
    BY SubSeqEmpty
  <2>6. wire' = wire \o a /\ outputBuffer' = outputBuffer \o b
    BY <2>1 DEF u
  <2> HIDE DEF a, b
  <2>7. wire' \in Seq(S) /\ outputBuffer' \in Seq(S)
    BY <2>4, <2>6, ConcatProperties
  <2>8. wire' \o outputBuffer' = (wire \o outputBuffer) \o u
    <3>1. CASE n = 0
      <4>1. a = <<>> /\ b = u
        BY <2>3, <2>4, <2>5, <3>1, ConcatEmptySeq
      <4>2. wire' = wire
        BY <2>6, <4>1, ConcatEmptySeq
      <4>3. (wire \o outputBuffer) \o u = wire \o (outputBuffer \o u)
        BY <2>3a
      <4> QED
        BY <2>6, <4>1, <4>2, <4>3
    <3>2. CASE outputBuffer = <<>>
      <4>1. outputBuffer' = b /\ wire \o outputBuffer = wire
        BY <2>4, <2>6, <3>2, ConcatEmptySeq
      <4>2. (wire \o a) \o b = wire \o (a \o b)
        BY <2>4a
      <4> QED
        BY <2>4, <2>6, <4>1, <4>2
    <3> QED
      BY <2>2, <3>1, <3>2
  <2> QED
    BY <2>1, <2>7, <2>8 DEF u
<1> QED
  BY <1>1, <1>2

\* What handleWrite() does to the bytes: some move from the buffer to the wire.
LEMMA HandleWriteBytes ==
  ASSUME NEW S, wire \in Seq(S), outputBuffer \in Seq(S), HandleWrite
  PROVE  /\ wire' \in Seq(S) /\ outputBuffer' \in Seq(S) /\ accepted' = accepted
         /\ wire' \o outputBuffer' = wire \o outputBuffer
<1>0. accepted' = accepted
  BY DEF HandleWrite, historyVars
<1>1. CASE UNCHANGED <<wire, outputBuffer>>
  BY <1>0, <1>1
<1>2. ASSUME NEW n \in 1..Len(outputBuffer),
             wire' = wire \o SubSeq(outputBuffer, 1, n),
             outputBuffer' = SubSeq(outputBuffer, n + 1, Len(outputBuffer))
      PROVE  /\ wire' \in Seq(S) /\ outputBuffer' \in Seq(S)
             /\ wire' \o outputBuffer' = wire \o outputBuffer
  <2> DEFINE a == SubSeq(outputBuffer, 1, n)
             b == SubSeq(outputBuffer, n + 1, Len(outputBuffer))
  <2>1. a \in Seq(S) /\ b \in Seq(S) /\ a \o b = outputBuffer
    BY Cut
  <2>1a. a \in Seq(S) /\ b \in Seq(S)
    BY <2>1
  <2>2. wire' = wire \o a /\ outputBuffer' = b
    BY <1>2
  <2> HIDE DEF a, b
  <2>3. (wire \o a) \o b = wire \o (a \o b)
    BY <2>1a
  <2>4. wire \o a \in Seq(S)
    BY <2>1, ConcatProperties
  <2> QED
    BY <2>1, <2>2, <2>3, <2>4
<1> QED
  BY <1>0, <1>1, <1>2 DEF HandleWrite

\* The bytes sent, buffered and received stay of their types.
LEMMA BytesNext ==
  ASSUME TypeInv, [Next]_vars
  PROVE  BytesOK'
<1>0. sends \in Nat /\ sends' \in Nat /\ sends <= sends'
  BY SendsGrow, TypeParts DEF ScalarsOK
<1> DEFINE S == 1..sends'
<1>1. wire \in Seq(S) /\ outputBuffer \in Seq(S) /\ accepted \in Seq(S)
  <2>1. 1..sends \subseteq S
    BY <1>0
  <2> QED
    BY <2>1, TypeParts, SeqMonotonic DEF BytesOK
<1> HIDE DEF S
<1>2. ASSUME NEW m \in S, SendInLoop(m)
      PROVE  wire' \in Seq(S) /\ outputBuffer' \in Seq(S) /\ accepted' \in Seq(S)
  <2>1. Append(accepted, m) \in Seq(S)
    BY <1>1, AppendProperties
  <2>2. \/ UNCHANGED <<wire, outputBuffer, accepted>>
        \/ /\ wire' \in Seq(S) /\ outputBuffer' \in Seq(S)
           /\ accepted' = Append(accepted, m)
    BY <1>1, <1>2, SendInLoopBytes
  <2> QED
    BY <1>1, <2>1, <2>2
<1>3. CASE HandleWrite
  BY <1>1, <1>3, HandleWriteBytes DEF BytesOK, S
<1> QED
  BY <1>1, <1>2, <1>3, BytesStep DEF BytesOK, S

\* The type invariant holds initially.
LEMMA TypeInit == Init => TypeInv
<1> SUFFICES ASSUME Init PROVE TypeInv
  OBVIOUS
<1>1. ScalarsOK
  <2>1. tpc \in [Threads -> {Idle} \cup (ThreadOps \X {"setState", "push"})]
    BY DEF Init
  <2>2. {removals, destroys} \subseteq 0..2 /\ sends \in Nat
    BY DEF Init
  <2> QED
    BY <2>1, <2>2 DEF Init, ScalarsOK
<1>2. BytesOK
  BY DEF Init, BytesOK
<1>3. Functor("connectEstablished") \in Functors /\ Functor("connectEstablished").name # "send"
  BY DEF Functor, Functors, Names, Init
<1>4. QueuesOK
  BY <1>3 DEF Init, QueuesOK, SendsCarry
<1> QED
  BY <1>1, <1>2, <1>4, TypeParts

\* The type invariant is inductive.
LEMMA TypeNext == TypeInv /\ [Next]_vars => TypeInv'
  BY ScalarsNext, QueuesNext, BytesNext, TypeParts, TypePartsNext

\* The variables keep their types, whatever the constants: nothing is ever
\* queued, buffered or written that nobody gave to send().
THEOREM TypeCorrect == Spec => []TypeOK
<1>1. TypeInv => TypeOK
  BY DEF TypeInv
<1> QED
  BY <1>1, TypeInit, TypeNext, PTL DEF Spec

-----------------------------------------------------------------------------
(* The byte stream.                                                        *)

\* Unit i of k + 1 messages belongs to one of the first k, or to the last.
LEMMA DivBlock ==
  ASSUME NEW k \in Nat, NEW i \in 1..(MsgLen * (k + 1))
  PROVE  /\ i <= MsgLen * k => (i - 1) \div MsgLen + 1 \in 1..k
         /\ i > MsgLen * k => (i - 1) \div MsgLen = k
<1> DEFINE q == (i - 1) \div MsgLen
           r == (i - 1) % MsgLen
<1>1. MsgLen \in Nat /\ MsgLen > 0 /\ i \in Nat /\ i >= 1
  BY ConnectionAssumption
<1>2. q \in Int /\ r \in 0..(MsgLen - 1) /\ i - 1 = MsgLen * q + r
  BY <1>1
<1>3. q >= 0
  BY <1>1
<1> QED
  BY <1>1, <1>2, <1>3

\* The stream of some messages is as long as they are together.
LEMMA StreamTyped ==
  ASSUME NEW S, NEW s \in Seq(S)
  PROVE  Stream(s) \in Seq(S) /\ Len(Stream(s)) = MsgLen * Len(s)
<1>1. Len(s) \in Nat /\ MsgLen \in Nat /\ MsgLen > 0
  BY ConnectionAssumption
<1>2. MsgLen * Len(s) \in Nat
  BY <1>1
<1>3. \A i \in 1..(MsgLen * Len(s)) : s[(i - 1) \div MsgLen + 1] \in S
  <2> TAKE i \in 1..(MsgLen * Len(s))
  <2>1. Len(s) # 0
    BY <1>1
  <2>2. PICK k \in Nat : Len(s) = k + 1
    BY <1>1, <2>1
  <2>3. (i - 1) \div MsgLen + 1 \in 1..Len(s)
    BY <1>1, <2>2, DivBlock
  <2> QED
    BY <2>3, ElementOfSeq
<1> DEFINE n == MsgLen * Len(s)
           g(i) == s[(i - 1) \div MsgLen + 1]
<1>4. Stream(s) = [i \in 1..n |-> g(i)]
  BY DEF Stream
<1>5. n \in Nat /\ \A i \in 1..n : g(i) \in S
  BY <1>2, <1>3
<1> HIDE DEF n, g
<1>6. Stream(s) \in Seq(S) /\ Len(Stream(s)) = n
  BY <1>4, <1>5
<1> QED
  BY <1>6 DEF n

\* An accepted message extends the stream by its units.
LEMMA StreamAppend ==
  ASSUME NEW S, NEW s \in Seq(S), NEW m \in S
  PROVE  Stream(Append(s, m)) = Stream(s) \o Units(m)
<1> DEFINE t == Append(s, m)
           k == Len(s)
           left == Stream(t)
           right == Stream(s) \o Units(m)
<1>1. /\ t \in Seq(S) /\ Len(t) = k + 1 /\ k \in Nat /\ t[k + 1] = m
      /\ \A i \in 1..k : t[i] = s[i]
  BY AppendProperties
<1>2. MsgLen \in Nat /\ MsgLen > 0 /\ MsgLen * (k + 1) = MsgLen * k + MsgLen /\ MsgLen * k \in Nat
  BY <1>1, ConnectionAssumption
<1>3. left \in Seq(S) /\ Len(left) = MsgLen * (k + 1)
  BY <1>1, StreamTyped
<1>4. Stream(s) \in Seq(S) /\ Len(Stream(s)) = MsgLen * k
  BY StreamTyped
<1>5. Units(m) \in Seq(S) /\ Len(Units(m)) = MsgLen /\ \A i \in 1..MsgLen : Units(m)[i] = m
  BY UnitsTyped
<1>6. /\ right \in Seq(S) /\ Len(right) = MsgLen * k + MsgLen
      /\ \A i \in 1..(MsgLen * k + MsgLen) :
           right[i] = IF i <= MsgLen * k THEN Stream(s)[i] ELSE Units(m)[i - MsgLen * k]
  <2> DEFINE a == Stream(s)
             b == Units(m)
  <2>1. a \in Seq(S) /\ b \in Seq(S)
    BY <1>4, <1>5
  <2> HIDE DEF a, b
  <2>2. /\ a \o b \in Seq(S) /\ Len(a \o b) = Len(a) + Len(b)
        /\ \A i \in 1..(Len(a) + Len(b)) :
             (a \o b)[i] = IF i <= Len(a) THEN a[i] ELSE b[i - Len(a)]
    BY <2>1, ConcatProperties
  <2> QED
    BY <1>4, <1>5, <2>2 DEF a, b
<1>7. \A i \in 1..(MsgLen * (k + 1)) : left[i] = right[i]
  <2> TAKE i \in 1..(MsgLen * (k + 1))
  <2>1. left[i] = t[(i - 1) \div MsgLen + 1]
    BY <1>1 DEF Stream
  <2>2. CASE i <= MsgLen * k
    <3>1. i \in 1..(MsgLen * k)
      BY <1>2, <2>2
    <3>2. Stream(s)[i] = s[(i - 1) \div MsgLen + 1]
      BY <3>1 DEF Stream
    <3>3. (i - 1) \div MsgLen + 1 \in 1..k
      BY <1>1, <2>2, DivBlock
    <3>4. left[i] = s[(i - 1) \div MsgLen + 1]
      BY <1>1, <2>1, <3>3
    <3> QED
      BY <1>2, <1>6, <2>2, <3>2, <3>4
  <2>3. CASE i > MsgLen * k
    <3>1. (i - 1) \div MsgLen = k
      BY <1>1, <2>3, DivBlock
    <3>2. left[i] = m
      BY <1>1, <2>1, <3>1
    <3>3. i - MsgLen * k \in 1..MsgLen
      BY <1>2, <2>3
    <3> QED
      BY <1>2, <1>5, <1>6, <2>3, <3>2, <3>3
  <2>4. i \in Int /\ MsgLen * k \in Int
    BY <1>2
  <2>5. i <= MsgLen * k \/ i > MsgLen * k
    BY <2>4
  <2> QED
    BY <2>2, <2>3, <2>5
<1> QED
  BY <1>2, <1>3, <1>6, <1>7, SeqEqual

\* StreamIntact is inductive.
LEMMA StreamNext ==
  ASSUME TypeInv, StreamIntact, [Next]_vars
  PROVE  StreamIntact'
<1>0. sends \in Nat /\ sends' \in Nat /\ sends <= sends'
  BY SendsGrow, TypeParts DEF ScalarsOK
<1> DEFINE S == 1..sends'
<1>1. wire \in Seq(S) /\ outputBuffer \in Seq(S) /\ accepted \in Seq(S)
  <2>1. 1..sends \subseteq S
    BY <1>0
  <2> QED
    BY <2>1, TypeParts, SeqMonotonic DEF BytesOK
<1> HIDE DEF S
<1>2. CASE UNCHANGED <<wire, outputBuffer, accepted>>
  BY <1>2 DEF StreamIntact, Stream
<1>3. ASSUME NEW m \in S, SendInLoop(m)
      PROVE  StreamIntact'
  <2>1. CASE /\ accepted' = Append(accepted, m)
             /\ wire' \o outputBuffer' = (wire \o outputBuffer) \o Units(m)
    <3>1. Stream(accepted') = Stream(accepted) \o Units(m)
      BY <1>1, <2>1, StreamAppend
    <3> QED
      BY <2>1, <3>1 DEF StreamIntact, Stream
  <2> QED
    BY <1>1, <1>2, <1>3, <2>1, SendInLoopBytes
<1>4. CASE HandleWrite
  BY <1>1, <1>4, HandleWriteBytes DEF StreamIntact, Stream
<1> QED
  BY <1>2, <1>3, <1>4, BytesStep DEF S

\* sendInLoop() and handleWrite(): for any number of threads, messages and
\* units in a message, what was written and what is buffered is at every
\* moment the accepted messages, whole and in order.
THEOREM StreamAlwaysIntact == Spec => []StreamIntact
<1>1. Init => StreamIntact
  BY ConnectionAssumption DEF Init, StreamIntact, Stream
<1>2. TypeInv /\ StreamIntact /\ [Next]_vars => StreamIntact'
  BY StreamNext
<1> QED
  BY <1>1, <1>2, TypeInit, TypeNext, PTL DEF Spec

-----------------------------------------------------------------------------
(* Output is watched for, and FIN follows it.                              *)

None(s, name) == \A i \in DOMAIN s : s[i].name # name

\* The connection is in the map only of a server that exists, and until then
\* no connectDestroyed() is queued.
ClosedInv ==
  /\ ~serverAlive => ~inMap
  /\ inMap => None(pending, "connectDestroyed") /\ None(batch, "connectDestroyed")


\* A queue lacks a name if it lacked it and the new functor has another.
LEMMA AppendNone ==
  ASSUME NEW S, NEW s \in Seq(S), NEW f, NEW name
  PROVE  None(Append(s, f), name) <=> None(s, name) /\ f.name # name
<1>1. /\ Len(s) \in Nat /\ DOMAIN s = 1..Len(s) /\ DOMAIN Append(s, f) = 1..(Len(s) + 1)
      /\ Append(s, f)[Len(s) + 1] = f
      /\ \A i \in 1..Len(s) : Append(s, f)[i] = s[i]
  OBVIOUS
<1> DEFINE t == Append(s, f)
<1> HIDE DEF t
<1>2. /\ DOMAIN t = 1..(Len(s) + 1) /\ t[Len(s) + 1] = f
      /\ \A i \in 1..Len(s) : t[i] = s[i]
  BY <1>1 DEF t
<1>3. None(t, name) <=> None(s, name) /\ f.name # name
  BY <1>1, <1>2 DEF None
<1> QED
  BY <1>3 DEF t

\* A queue lacks a name if its first and the rest lack it.
LEMMA TailNone ==
  ASSUME NEW S, NEW s \in Seq(S), s # <<>>, NEW name
  PROVE  None(s, name) <=> None(Tail(s), name) /\ Head(s).name # name
<1> DEFINE t == Tail(s)
<1>1. /\ Len(s) \in Nat /\ Len(s) > 0 /\ DOMAIN t = 1..(Len(s) - 1) /\ DOMAIN s = 1..Len(s)
      /\ Head(s) = s[1]
      /\ \A i \in 1..(Len(s) - 1) : t[i] = s[i + 1]
  OBVIOUS
<1> HIDE DEF t
<1>2. ASSUME None(s, name) PROVE None(t, name) /\ Head(s).name # name
  BY <1>1, <1>2 DEF None
<1>3. ASSUME None(t, name), Head(s).name # name, NEW i \in 1..Len(s) PROVE s[i].name # name
  <2>1. CASE i = 1
    BY <1>1, <1>3, <2>1
  <2>2. CASE i - 1 \in 1..(Len(s) - 1)
    <3>1. t[i - 1].name # name
      BY <1>1, <1>3, <2>2 DEF None
    <3>2. t[i - 1] = s[(i - 1) + 1] /\ (i - 1) + 1 = i
      BY <1>1, <2>2
    <3> QED
      BY <3>1, <3>2
  <2> QED
    BY <1>1, <2>1, <2>2
<1> QED
  BY <1>1, <1>2, <1>3 DEF None, t

\* A connection erased by the server never returns to its map.
LEMMA ServerStep ==
  ASSUME [Next]_vars
  PROVE  /\ inMap' => inMap
         /\ serverAlive' = serverAlive \/ ~inMap'
  BY DEF vars, serverVars,
         Next, HandleEvent, RunsFunctors, LoopCall, ThreadCall, Poll, HandleHup, HandleError,
         HandleRead, HandleWrite, SwapFunctors, EndFunctors, RunFunctor, DelayExpires, LoopSend,
         LoopShutdown, LoopForceClose, LoopForceCloseWithDelay, LoopStartRead, LoopStopRead,
         GetConnection, DropConnection, Call, SetDisconnecting, Push, RemoveConnection,
         StopServer, Peer, PeerSends, PeerCloses, PeerResets

\* ClosedInv is inductive.
LEMMA ClosedNext ==
  ASSUME TypeInv, ClosedInv, [Next]_vars
  PROVE  ClosedInv'
<1>1. ~serverAlive' => ~inMap'
  BY ServerStep DEF ClosedInv
<1> SUFFICES ASSUME inMap' PROVE None(pending', "connectDestroyed") /\ None(batch', "connectDestroyed")
  BY <1>1 DEF ClosedInv, None
<1>2. /\ pending \in Seq(Functors) /\ batch \in Seq(Functors)
      /\ None(pending, "connectDestroyed") /\ None(batch, "connectDestroyed")
  BY ServerStep, TypeParts DEF ClosedInv, QueuesOK
<1> HIDE DEF Functors
<1>3. None(pending', "connectDestroyed")
  <2>1. CASE \E f : Queues(f)
    BY <1>2, <2>1, AppendNone DEF Queues
  <2>2. CASE SwapFunctors
    BY <2>2 DEF SwapFunctors, None
  <2> QED
    BY <1>2, <2>1, <2>2, PendingStep
<1>4. None(batch', "connectDestroyed")
  <2>1. CASE SwapFunctors
    BY <1>2, <2>1 DEF SwapFunctors
  <2>2. CASE batch # <<>> /\ batch' = Tail(batch)
    BY <1>2, <2>2, TailNone
  <2> QED
    BY <1>2, <2>1, <2>2, BatchStep
<1> QED
  BY <1>3, <1>4

\* Of a connection that is not closed: output is watched for while there is any,
\* and our FIN is sent when the buffer is empty, which it stays.
Drained ==
  /\ "write" \in events <=> outputBuffer # <<>>
  /\ finSent => outputBuffer = <<>>

\* A connection once closed stays closed.
LEMMA StaysClosed ==
  ASSUME TypeInv, ClosedInv, [Next]_vars, NeverClosed'
  PROVE  NeverClosed
<1>1. removals \in 0..2 /\ inMap' /\ removals' = 0 /\ inMap
  BY TypeParts, ServerStep DEF ScalarsOK, NeverClosed
<1>2. CASE HandleClose
  BY <1>1, <1>2 DEF HandleClose, CloseCallback, Once, NeverClosed, ClosedInv
<1>3. CASE RemoveConnection
  BY <1>1, <1>3 DEF RemoveConnection, ClosedInv
<1>4. CASE removals' = removals
  BY <1>1, <1>4 DEF NeverClosed
<1> QED
  BY <1>2, <1>3, <1>4
     DEF vars, serverVars,
         Next, HandleEvent, RunsFunctors, LoopCall, ThreadCall, Poll, HandleHup, HandleError,
         HandleRead, HandleWrite, SwapFunctors, EndFunctors, RunFunctor, DelayExpires, LoopSend,
         LoopShutdown, LoopForceClose, LoopForceCloseWithDelay, LoopStartRead, LoopStopRead,
         GetConnection, DropConnection, Call, SetDisconnecting, Push,
         StopServer, Peer, PeerSends, PeerCloses, PeerResets, Effect

\* handleClose() takes the connection from its server.
LEMMA HandleCloseCloses ==
  ASSUME TypeInv, ClosedInv, inMap, HandleClose
  PROVE  removals' > 0
<1>1. removals \in 0..2 /\ serverAlive
  BY TypeParts DEF ScalarsOK, ClosedInv
<1> QED
  BY <1>1 DEF HandleClose, CloseCallback, Once

\* sendInLoop() leaves write interest exactly when bytes are left.
LEMMA SendInLoopDrained ==
  ASSUME TypeInv, Drained, NEW m \in Nat, SendInLoop(m), finSent' = finSent
  PROVE  Drained'
<1>1. CASE state = "kDisconnected" \/ (Direct /\ Broken)
  BY <1>1 DEF SendInLoop, Drained, channelVars
<1>2. CASE ~(state = "kDisconnected" \/ (Direct /\ Broken))
  <2>0. ~finSent
    BY <1>2 DEF Drained, Direct, Broken
  <2>1. PICK n \in IF Direct THEN 0..MsgLen ELSE {0} :
          /\ outputBuffer' = outputBuffer \o SubSeq(Units(m), n + 1, MsgLen)
          /\ WatchOutput(MsgLen - n)
    BY <1>2 DEF SendInLoop
  <2>2. MsgLen \in Nat /\ MsgLen > 0 /\ n \in 0..MsgLen
    BY <2>1, ConnectionAssumption
  <2>3. Units(m) \in Seq(Nat) /\ Len(Units(m)) = MsgLen
    BY UnitsTyped
  <2>4. outputBuffer \in Seq(Nat)
    <3>1. 1..sends \subseteq Nat
      OBVIOUS
    <3> QED
      BY <3>1, TypeParts, SeqMonotonic DEF BytesOK
  <2> DEFINE b == SubSeq(Units(m), n + 1, MsgLen)
  <2>5. b \in Seq(Nat) /\ Len(b) = MsgLen - n
    BY <2>2, <2>3, Cut
  <2> HIDE DEF b
  <2>6. outputBuffer' = <<>> <=> outputBuffer = <<>> /\ n = MsgLen
    <3>1. outputBuffer' = outputBuffer \o b
      BY <2>1 DEF b
    <3>2. b = <<>> <=> n = MsgLen
      BY <2>2, <2>5
    <3>3. outputBuffer' = <<>> <=> outputBuffer = <<>> /\ b = <<>>
      BY <2>4, <2>5, <3>1, ConcatEqualIffEmpty
    <3> QED
      BY <3>2, <3>3
  <2>7. "write" \in events' <=> "write" \in events \/ n # MsgLen
    <3>1. MsgLen - n > 0 <=> n # MsgLen
      BY <2>2
    <3> QED
      BY <2>1, <3>1 DEF WatchOutput, UpdateChannel, channelVars
  <2> QED
    BY <2>0, <2>6, <2>7 DEF Drained
<1> QED
  BY <1>1, <1>2

\* So does handleWrite().
LEMMA HandleWriteDrained ==
  ASSUME TypeInv, Drained, HandleWrite
  PROVE  Drained'
<1>1. CASE UNCHANGED <<channelVars, outputBuffer, finSent>>
  BY <1>1 DEF Drained, channelVars
<1>2. ASSUME ~Broken, NEW n \in 1..Len(outputBuffer),
             outputBuffer' = SubSeq(outputBuffer, n + 1, Len(outputBuffer)),
             IF n = Len(outputBuffer)
               THEN UpdateChannel(events \ {"write"}) /\ ResumeShutdown
               ELSE UNCHANGED <<channelVars, finSent>>
      PROVE  Drained'
  <2>1. outputBuffer \in Seq(1..sends)
    BY TypeParts DEF BytesOK
  <2>2. Len(outputBuffer') = Len(outputBuffer) - n /\ outputBuffer' \in Seq(1..sends)
    <3> DEFINE b == SubSeq(outputBuffer, n + 1, Len(outputBuffer))
    <3>1. n \in 0..Len(outputBuffer)
      BY <2>1
    <3>2. Len(b) = Len(outputBuffer) - n /\ b \in Seq(1..sends)
      BY <2>1, <3>1, Cut
    <3> HIDE DEF b
    <3>3. outputBuffer' = b
      BY <1>2 DEF b
    <3> QED
      BY <3>2, <3>3
  <2>3. n \in Nat /\ n > 0 /\ Len(outputBuffer) \in Nat
    BY <2>1
  <2>4. outputBuffer' = <<>> <=> n = Len(outputBuffer)
    BY <2>2, <2>3
  <2>5. outputBuffer # <<>>
    BY <2>1, <2>3
  <2>6. CASE n = Len(outputBuffer)
    BY <1>2, <2>4, <2>6 DEF Drained, UpdateChannel
  <2>7. CASE n # Len(outputBuffer)
    BY <1>2, <2>4, <2>5, <2>7 DEF Drained, Broken, channelVars
  <2> QED
    BY <2>6, <2>7
<1> QED
  BY <1>1, <1>2 DEF HandleWrite

\* Drained is kept while the connection is not closed.
LEMMA DrainedNext ==
  ASSUME TypeInv, ClosedInv, NeverClosed, Drained, [Next]_vars, NeverClosed'
  PROVE  Drained'
<1> USE DEF vars, connVars, channelVars, loopVars, serverVars, threadVars, socketVars, historyVars
<1>1. CASE UNCHANGED <<events, outputBuffer, finSent>>
  BY <1>1 DEF Drained
<1>2. ~HandleClose
  BY HandleCloseCloses DEF NeverClosed
<1>3. CASE HandleWrite
  BY <1>3, HandleWriteDrained
<1>4. CASE LoopSend
  BY <1>4, SendInLoopDrained, TypeParts DEF LoopSend, ScalarsOK
<1>5. CASE RunFunctor
  <2> DEFINE f == Head(batch)
  <2>1. CASE ~Alive
    BY <1>1, <1>5, <2>1 DEF RunFunctor
  <2> SUFFICES ASSUME Effect(f) PROVE Drained'
    BY <1>5, <2>1 DEF RunFunctor
  <2>2. f \in Functors /\ f.name # "connectDestroyed"
    BY <1>5, TailCarries, TailNone, TypeParts DEF QueuesOK, RunFunctor, ClosedInv, NeverClosed
  <2>3. f.msg \in Nat
    BY <2>2, TypeParts DEF Functors, ScalarsOK
  <2> HIDE DEF f
  <2>4. CASE f.name = "connectEstablished"
    BY <2>4 DEF Effect, ConnectEstablished, UpdateChannel, Drained
  <2>5. CASE f.name = "forceClose"
    BY <1>1, <1>2, <2>5 DEF Effect
  <2>6. CASE f.name = "send"
    <3>1. SendInLoop(f.msg) /\ finSent' = finSent
      BY <2>6 DEF Effect
    <3> QED
      BY <2>3, <3>1, SendInLoopDrained
  <2>7. CASE f.name = "shutdown"
    BY <2>7 DEF Effect, ShutdownInLoop, Drained
  <2>8. CASE f.name = "startRead"
    BY <2>8 DEF Effect, StartReadInLoop, UpdateChannel, Drained
  <2>9. CASE f.name = "stopRead"
    BY <2>9 DEF Effect, StopReadInLoop, UpdateChannel, Drained
  <2>10. CASE f.name \notin {"connectEstablished", "connectDestroyed", "forceClose", "send",
                              "shutdown", "startRead", "stopRead"}
    BY <1>1, <2>10 DEF Effect
  <2> QED
    BY <2>2, <2>4, <2>5, <2>6, <2>7, <2>8, <2>9, <2>10
<1>6. CASE LoopShutdown
  BY <1>6 DEF LoopShutdown, ShutdownInLoop, Drained
<1>7. CASE LoopStartRead
  BY <1>7 DEF LoopStartRead, StartReadInLoop, UpdateChannel, Drained
<1>8. CASE LoopStopRead
  BY <1>8 DEF LoopStopRead, StopReadInLoop, UpdateChannel, Drained
<1>9. CASE HandleHup \/ HandleRead
  BY <1>1, <1>2, <1>9 DEF HandleHup, HandleRead
<1> QED
  BY <1>1, <1>3, <1>4, <1>5, <1>6, <1>7, <1>8, <1>9
     DEF Next, HandleEvent, RunsFunctors, LoopCall, ThreadCall, Poll, HandleError,
         SwapFunctors, EndFunctors, DelayExpires,
         LoopForceClose, LoopForceCloseWithDelay,
         GetConnection, DropConnection, Call, SetDisconnecting, Push, RemoveConnection,
         StopServer, Peer, PeerSends, PeerCloses, PeerResets

\* The invariants of the output side hold in every state.
LEMMA OutputInvariant == Spec => [](TypeInv /\ ClosedInv /\ (NeverClosed => Drained))
<1>1. Init => ClosedInv /\ Drained
  <2> SUFFICES ASSUME Init PROVE ClosedInv /\ Drained
    OBVIOUS
  <2>1. None(<<Functor("connectEstablished")>>, "connectDestroyed") /\ None(<<>>, "connectDestroyed")
    BY DEF None, Functor
  <2> QED
    BY <2>1 DEF Init, ClosedInv, Drained
<1>2. TypeInv /\ ClosedInv /\ (NeverClosed => Drained) /\ [Next]_vars
        => ClosedInv' /\ (NeverClosed => Drained)'
  BY ClosedNext, StaysClosed, DrainedNext
<1> QED
  BY <1>1, <1>2, TypeInit, TypeNext, PTL DEF Spec

\* sendInLoop() and handleWrite(): until the connection is closed the loop
\* watches for writability exactly when there is something to write, whatever
\* the threads, callbacks, the peer and ~TCPServer() do.
THEOREM AlwaysWatchesWhenPending == Spec => []WatchesWhenPending
<1>1. (NeverClosed => Drained) => WatchesWhenPending
  BY DEF Drained, WatchesWhenPending
<1> QED
  BY <1>1, OutputInvariant, PTL

\* shutdownInLoop() and handleWrite(): our FIN follows every accepted byte, for
\* any number of threads and messages.
THEOREM FinAlwaysAfterData == Spec => []FinAfterData
<1>1. TypeInv /\ StreamIntact /\ (NeverClosed => Drained) => FinAfterData
  <2> SUFFICES ASSUME TypeInv, StreamIntact, Drained, finSent PROVE wire = Stream(accepted)
    BY DEF FinAfterData
  <2>1. outputBuffer = <<>> /\ wire \in Seq(1..sends)
    BY TypeParts DEF Drained, BytesOK
  <2>2. wire \o outputBuffer = wire
    BY <2>1, ConcatEmptySeq
  <2> QED
    BY <2>2 DEF StreamIntact
<1> QED
  BY <1>1, OutputInvariant, StreamAlwaysIntact, PTL

-----------------------------------------------------------------------------
(* The life of a connection that only its own loop uses.                   *)

\* No other thread calls the connection, the server outlives it and no
\* callback calls startRead() or stopRead(): what the runs of the finding on
\* stopRead() and of the one on send() show to be needed.
LoopOnly ==
  /\ ThreadOps = {} /\ ServerStops = FALSE
  /\ LoopOps \cap {"startRead", "stopRead"} = {}

OwnersOnly(s) == \A i \in DOMAIN s : OwnsConnection(s[i])

\* Whatever is queued owns the connection; the batch does while it is run.
QuietInv ==
  /\ holds = {} /\ serverAlive /\ dangling = {}
  /\ \A t \in Threads : tpc[t] = Idle
  /\ OwnersOnly(pending) /\ OwnersOnly(batch)
  /\ batch # <<>> => batchHolds
  /\ pc # "event" => revents = {}
  /\ pc # "run" => batch = <<>>

Single(s, name) ==
  \E i \in DOMAIN s : s[i].name = name /\ \A j \in DOMAIN s \ {i} : s[j].name # name

Nowhere(name) == None(pending, name) /\ None(batch, name)

\* The phases of a connection's life, in their order
Connecting ==
  /\ inMap /\ removals = 0 /\ destroys = 0
  /\ index = "kNew" /\ events = {} /\ revents = {}
  /\ \/ pending = <<Functor("connectEstablished")>> /\ batch = <<>>
     \/ pending = <<>> /\ batch = <<Functor("connectEstablished")>>

InUse ==
  /\ inMap /\ removals = 0 /\ destroys = 0
  /\ index = "kAdded" /\ "read" \in events
  /\ Nowhere("connectDestroyed")

Closing ==
  /\ inMap /\ removals = 1 /\ destroys = 0 /\ index = "kDeleted"
  /\ Nowhere("connectDestroyed")

Removed ==
  /\ ~inMap /\ removals = 0 /\ destroys = 0 /\ index = "kDeleted"
  /\ \/ Single(pending, "connectDestroyed") /\ None(batch, "connectDestroyed")
     \/ None(pending, "connectDestroyed") /\ Single(batch, "connectDestroyed")

Destroyed ==
  /\ ~inMap /\ removals = 0 /\ destroys = 1 /\ index = "kNew" /\ ~addedToLoop
  /\ Nowhere("connectDestroyed")

Disconnected ==
  /\ revents \cap {"hup", "in"} = {} /\ events = {}
  /\ Closing \/ Removed \/ Destroyed

PhaseInv ==
  /\ state = "kConnecting" => Connecting
  /\ state # "kConnecting" => Nowhere("connectEstablished")
  /\ Open => InUse
  /\ state = "kDisconnected" => Disconnected

\* A functor queued once is there once.
LEMMA AppendSingle ==
  ASSUME NEW S, NEW s \in Seq(S), NEW f, NEW name
  PROVE  /\ Single(s, name) /\ f.name # name => Single(Append(s, f), name)
         /\ None(s, name) /\ f.name = name => Single(Append(s, f), name)
<1> DEFINE t == Append(s, f)
           n == Len(s)
<1>1. /\ n \in Nat /\ DOMAIN s = 1..n /\ DOMAIN t = 1..(n + 1) /\ t[n + 1] = f
      /\ \A i \in 1..n : t[i] = s[i]
  OBVIOUS
<1> HIDE DEF t, n
<1>2. ASSUME Single(s, name), f.name # name PROVE Single(t, name)
  <2>1. PICK i \in 1..n : s[i].name = name /\ \A j \in (1..n) \ {i} : s[j].name # name
    BY <1>1, <1>2 DEF Single
  <2>2. i \in 1..(n + 1) /\ t[i].name = name
    BY <1>1, <2>1
  <2>3. \A j \in (1..(n + 1)) \ {i} : t[j].name # name
    BY <1>1, <1>2, <2>1
  <2> QED
    BY <1>1, <2>2, <2>3 DEF Single
<1>3. ASSUME None(s, name), f.name = name PROVE Single(t, name)
  <2>1. n + 1 \in 1..(n + 1) /\ t[n + 1].name = name
    BY <1>1, <1>3
  <2>2. \A j \in (1..(n + 1)) \ {n + 1} : t[j].name # name
    BY <1>1, <1>3 DEF None
  <2> QED
    BY <1>1, <2>1, <2>2 DEF Single
<1> QED
  BY <1>2, <1>3 DEF t

\* A functor that was there once is gone when it is taken.
LEMMA TailSingle ==
  ASSUME NEW S, NEW s \in Seq(S), s # <<>>, NEW name, Single(s, name)
  PROVE  /\ Head(s).name = name => None(Tail(s), name)
         /\ Head(s).name # name => Single(Tail(s), name)
<1> DEFINE t == Tail(s)
           n == Len(s)
<1>1. /\ n \in Nat /\ n > 0 /\ DOMAIN t = 1..(n - 1) /\ DOMAIN s = 1..n /\ Head(s) = s[1]
      /\ \A i \in 1..(n - 1) : t[i] = s[i + 1]
  OBVIOUS
<1> HIDE DEF t, n
<1>2. PICK i \in 1..n : s[i].name = name /\ \A j \in (1..n) \ {i} : s[j].name # name
  BY <1>1 DEF Single
<1>3. ASSUME Head(s).name = name PROVE None(t, name)
  BY <1>1, <1>2, <1>3 DEF None
<1>4. ASSUME Head(s).name # name PROVE Single(t, name)
  <2>1. i - 1 \in 1..(n - 1) /\ t[i - 1].name = name
    BY <1>1, <1>2, <1>4
  <2>2. \A j \in (1..(n - 1)) \ {i - 1} : t[j].name # name
    BY <1>1, <1>2
  <2> QED
    BY <1>1, <2>1, <2>2 DEF Single
<1> QED
  BY <1>3, <1>4 DEF t

\* A queue of functors that own the connection, and one more.
LEMMA AppendOwners ==
  ASSUME NEW S, NEW s \in Seq(S), OwnersOnly(s), NEW f, OwnsConnection(f)
  PROVE  OwnersOnly(Append(s, f))
<1> DEFINE t == Append(s, f)
           n == Len(s)
<1>1. /\ n \in Nat /\ DOMAIN s = 1..n /\ DOMAIN t = 1..(n + 1) /\ t[n + 1] = f
      /\ \A i \in 1..n : t[i] = s[i]
  OBVIOUS
<1> HIDE DEF t, n
<1>2. \A i \in 1..(n + 1) : i \in 1..n \/ i = n + 1
  BY <1>1
<1>3. OwnersOnly(t)
  BY <1>1, <1>2 DEF OwnersOnly
<1> QED
  BY <1>3 DEF t

\* The rest of a queue of functors that own the connection.
LEMMA TailOwners ==
  ASSUME NEW S, NEW s \in Seq(S), s # <<>>, OwnersOnly(s)
  PROVE  OwnersOnly(Tail(s)) /\ OwnsConnection(Head(s))
<1> DEFINE t == Tail(s)
           n == Len(s)
<1>1. /\ n \in Nat /\ n > 0 /\ DOMAIN t = 1..(n - 1) /\ DOMAIN s = 1..n /\ Head(s) = s[1]
      /\ \A i \in 1..(n - 1) : t[i] = s[i + 1]
  OBVIOUS
<1> HIDE DEF t, n
<1>2. \A i \in 1..(n - 1) : i + 1 \in 1..n
  BY <1>1
<1>3. 1 \in 1..n
  BY <1>1
<1>4. OwnersOnly(t) /\ OwnsConnection(Head(s))
  BY <1>1, <1>2, <1>3 DEF OwnersOnly
<1> QED
  BY <1>4 DEF t

\* With LoopOnly, what a step can be
LEMMA QuietStep ==
  ASSUME LoopOnly, QuietInv, [Next]_vars
  PROVE  \/ UNCHANGED vars
         \/ \E room \in BOOLEAN : Poll(room)
         \/ HandleHup \/ HandleError \/ HandleRead \/ HandleWrite
         \/ SwapFunctors \/ RunFunctor \/ EndFunctors \/ DelayExpires
         \/ LoopSend \/ LoopShutdown \/ LoopForceClose \/ LoopForceCloseWithDelay
         \/ RemoveConnection \/ Peer
<1>1. ~LoopStartRead /\ ~LoopStopRead /\ ~StopServer
  BY DEF LoopOnly, LoopStartRead, LoopStopRead, StopServer, InLoop
<1>2. ASSUME NEW t \in Threads PROVE ~ThreadCall(t) /\ ~SetDisconnecting(t) /\ ~Push(t)
  <2>1. tpc[t] = <<"none", "idle">> /\ holds = {} /\ ThreadOps = {}
    BY DEF QuietInv, Idle, LoopOnly
  <2> QED
    BY <2>1 DEF ThreadCall, GetConnection, DropConnection, Call, SetDisconnecting, Push
<1> QED
  BY <1>1, <1>2 DEF Next, HandleEvent, RunsFunctors, LoopCall

\* The functor at the head of the batch finds the connection alive.
LEMMA QuietRun ==
  ASSUME TypeInv, QuietInv, RunFunctor
  PROVE  /\ Alive /\ Effect(Head(batch)) /\ OwnsConnection(Head(batch))
         /\ OwnersOnly(Tail(batch))
         /\ Head(batch).name \notin {"send", "shutdown", "startRead", "stopRead"}
<1>1. batch # <<>> /\ Alive
  BY DEF RunFunctor, QuietInv, Alive
<1>2. OwnsConnection(Head(batch)) /\ OwnersOnly(Tail(batch))
  BY <1>1, TailOwners, TypeParts DEF QueuesOK, QuietInv
<1>3. Head(batch).name \notin {"send", "shutdown", "startRead", "stopRead"}
  BY <1>2, ConnectionAssumption DEF OwnsConnection
<1> QED
  BY <1>1, <1>2, <1>3 DEF RunFunctor

\* What the loop itself queues owns the connection.
LEMMA QuietAppend ==
  ASSUME TypeInv, QuietInv,
         NEW name \in {"forceClose", "connectDestroyed"} \cup Callbacks,
         pending' = Append(pending, Functor(name))
  PROVE  OwnersOnly(pending')
<1>1. OwnsConnection(Functor(name))
  BY DEF OwnsConnection, Functor
<1>2. pending \in Seq(Functors) /\ OwnersOnly(pending)
  BY TypeParts DEF QueuesOK, QuietInv
<1> QED
  BY <1>1, <1>2, AppendOwners

\* QuietInv is inductive.
LEMMA QuietNext ==
  ASSUME LoopOnly, TypeInv, QuietInv, PhaseInv, [Next]_vars
  PROVE  QuietInv'
<1> USE DEF vars, connVars, channelVars, loopVars, serverVars, threadVars, socketVars, historyVars
<1>1. UNCHANGED <<holds, serverAlive, tpc>>
  BY QuietStep
     DEF Poll, HandleHup, HandleError, HandleRead, HandleWrite, SwapFunctors, RunFunctor,
         EndFunctors, DelayExpires, LoopSend, LoopShutdown, LoopForceClose,
         LoopForceCloseWithDelay, RemoveConnection, Peer, PeerSends, PeerCloses, PeerResets
<1>2. holds = {} /\ serverAlive /\ dangling = {} /\ \A t \in Threads : tpc[t] = Idle
  BY DEF QuietInv
<1>3. HandleClose => dangling' = dangling
  BY <1>2 DEF HandleClose, CloseCallback
<1>4. dangling' = {}
  <2>1. ASSUME NEW room \in BOOLEAN, Poll(room) PROVE dangling' = dangling
    <3>1. Ready(room) # {} => index = "kAdded"
      BY DEF Ready
    <3>2. index = "kAdded" => inMap
      BY TypeParts DEF PhaseInv, Connecting, InUse, Disconnected, Closing, Removed, Destroyed,
                       Open, ScalarsOK
    <3> QED
      BY <2>1, <3>1, <3>2 DEF Poll, Alive
  <2>2. CASE RunFunctor
    <3> DEFINE f == Head(batch)
    <3>1. Effect(f) /\ f.name # "send"
      BY <2>2, QuietRun
    <3> HIDE DEF f
    <3> QED
      BY <1>2, <1>3, <3>1 DEF Effect
  <2>3. CASE RemoveConnection
    BY <1>2, <2>3 DEF RemoveConnection
  <2> QED
    BY <1>2, <1>3, <2>1, <2>2, <2>3, QuietStep
       DEF HandleHup, HandleError, HandleRead, HandleWrite, SwapFunctors,
           EndFunctors, DelayExpires, LoopSend, LoopShutdown, LoopForceClose,
           LoopForceCloseWithDelay, Peer, PeerSends, PeerCloses, PeerResets
<1>5. /\ pending \in Seq(Functors) /\ batch \in Seq(Functors)
      /\ OwnersOnly(pending) /\ OwnersOnly(batch)
  BY TypeParts DEF QueuesOK, QuietInv
<1>6. ASSUME NEW m, SendInLoop(m)
      PROVE  pending' = pending \/ \E c \in Callbacks : pending' = Append(pending, Functor(c))
  BY <1>6 DEF SendInLoop
<1>7. OwnersOnly(pending')
  <2>1. CASE pending' = pending
    BY <1>5, <2>1
  <2>2. CASE \E name \in {"forceClose", "connectDestroyed"} \cup Callbacks :
               pending' = Append(pending, Functor(name))
    BY <2>2, QuietAppend
  <2>3. CASE SwapFunctors
    BY <2>3 DEF SwapFunctors, OwnersOnly
  <2>4. CASE RunFunctor
    <3> DEFINE f == Head(batch)
    <3>1. Effect(f) /\ f.name # "send"
      BY <2>4, QuietRun
    <3> HIDE DEF f
    <3> QED
      BY <2>1, <3>1 DEF Effect
  <2>5. CASE HandleWrite
    BY <2>1, <2>2, <2>5 DEF HandleWrite
  <2>6. CASE LoopSend
    BY <1>6, <2>1, <2>2, <2>6 DEF LoopSend
  <2>7. CASE DelayExpires \/ LoopForceClose
    BY <2>1, <2>2, <2>7 DEF DelayExpires, LoopForceClose, ForceClose, Queue
  <2>8. CASE RemoveConnection
    BY <2>1, <2>2, <2>8 DEF RemoveConnection, Queue
  <2> QED
    BY <2>1, <2>3, <2>4, <2>5, <2>6, <2>7, <2>8, QuietStep
       DEF Poll, HandleHup, HandleError, HandleRead, EndFunctors, LoopShutdown,
           LoopForceCloseWithDelay, Peer, PeerSends, PeerCloses, PeerResets
<1>8. /\ OwnersOnly(batch')
      /\ batch' # <<>> => batchHolds'
      /\ pc' # "event" => revents' = {}
      /\ pc' # "run" => batch' = <<>>
  <2>0. /\ batch # <<>> => batchHolds
        /\ pc # "event" => revents = {}
        /\ pc # "run" => batch = <<>>
    BY DEF QuietInv
  <2>1. CASE UNCHANGED <<batch, batchHolds, pc, revents>>
    BY <1>5, <2>0, <2>1
  <2>2. CASE \E room \in BOOLEAN : Poll(room)
    <3>1. UNCHANGED <<batch, batchHolds>> /\ pc = "poll" /\ pc' = "event"
      BY <2>2 DEF Poll
    <3> QED
      BY <1>5, <2>0, <3>1
  <2>3. CASE HandleHup \/ HandleError \/ HandleRead \/ HandleWrite
    <3>1. UNCHANGED <<batch, batchHolds, pc>> /\ pc = "event"
      BY <2>3 DEF HandleHup, HandleError, HandleRead, HandleWrite
    <3> QED
      BY <1>5, <2>0, <3>1
  <2>4. CASE SwapFunctors
    <3>1. pending # <<>> => SomeOwner(pending)
      BY <1>5 DEF SomeOwner, OwnersOnly
    <3> QED
      BY <1>5, <2>0, <2>4, <3>1 DEF SwapFunctors
  <2>5. CASE EndFunctors
    BY <1>5, <2>0, <2>5 DEF EndFunctors
  <2>6. CASE RunFunctor
    <3>1. UNCHANGED <<batchHolds, pc, revents>> /\ pc = "run" /\ batch # <<>> /\ batch' = Tail(batch)
      BY <2>6 DEF RunFunctor
    <3>2. OwnersOnly(Tail(batch))
      BY <2>6, QuietRun
    <3> QED
      BY <2>0, <3>1, <3>2
  <2>7. CASE \/ UNCHANGED vars \/ DelayExpires \/ LoopSend \/ LoopShutdown \/ LoopForceClose
             \/ LoopForceCloseWithDelay \/ RemoveConnection \/ Peer
    BY <2>1, <2>7
       DEF DelayExpires, LoopSend, LoopShutdown, LoopForceClose,
           LoopForceCloseWithDelay, RemoveConnection, Peer, PeerSends, PeerCloses, PeerResets
  <2> QED
    BY <2>2, <2>3, <2>4, <2>5, <2>6, <2>7, QuietStep
<1> QED
  BY <1>1, <1>2, <1>4, <1>7, <1>8 DEF QuietInv, OwnersOnly, OwnsConnection

\* The phase depends on this; pending may grow by another functor.
phaseVars == <<state, inMap, removals, destroys, index, events, addedToLoop>>

KeepsQueue ==
  \A name \in {"connectEstablished", "connectDestroyed"} :
    /\ None(pending, name) => None(pending', name)
    /\ Single(pending, name) => Single(pending', name)

\* Queueing a callback or a forced close leaves the place of connectDestroyed().
LEMMA QueueKept ==
  ASSUME TypeInv,
         pending' = pending \/ \E name \in {"forceClose"} \cup Callbacks :
                                 pending' = Append(pending, Functor(name))
  PROVE  KeepsQueue
<1>1. CASE pending' = pending
  BY <1>1 DEF KeepsQueue
<1>2. ASSUME NEW name \in {"forceClose"} \cup Callbacks, pending' = Append(pending, Functor(name))
      PROVE  KeepsQueue
  <2>1. Functor(name).name \notin {"connectEstablished", "connectDestroyed"}
    BY ConnectionAssumption DEF Functor
  <2>2. pending \in Seq(Functors)
    BY TypeParts DEF QueuesOK
  <2> QED
    BY <1>2, <2>1, <2>2, AppendNone, AppendSingle DEF KeepsQueue
<1> QED
  BY <1>1, <1>2

\* A step that keeps the phase
LEMMA PhaseKept ==
  ASSUME TypeInv, PhaseInv, UNCHANGED <<phaseVars, batch>>,
         pending' = pending \/ (state # "kConnecting" /\ KeepsQueue),
         revents' \subseteq revents \/ (revents' = {})
  PROVE  PhaseInv'
<1> USE DEF phaseVars
<1>1. CASE state = "kConnecting"
  BY <1>1 DEF PhaseInv, Connecting, Nowhere, Open
<1>2. CASE Open
  <2>1. InUse /\ Nowhere("connectEstablished") /\ state # "kConnecting" /\ state # "kDisconnected"
    BY <1>2 DEF PhaseInv, Open
  <2>2. InUse' /\ Nowhere("connectEstablished")'
    BY <2>1 DEF InUse, Nowhere, KeepsQueue, None
  <2> QED
    BY <1>2, <2>1, <2>2 DEF PhaseInv, Open
<1>3. CASE state = "kDisconnected"
  <2>1. Disconnected /\ Nowhere("connectEstablished")
    BY <1>3 DEF PhaseInv
  <2>2. Nowhere("connectEstablished")'
    BY <1>3, <2>1 DEF Nowhere, KeepsQueue, None
  <2>3. revents' \cap {"hup", "in"} = {} /\ events' = {}
    BY <2>1 DEF Disconnected
  <2>4. Closing => Closing'
    BY <1>3 DEF Closing, Nowhere, KeepsQueue, None
  <2>5. Removed => Removed'
    BY <1>3 DEF Removed, KeepsQueue, None, Single
  <2>6. Destroyed => Destroyed'
    BY <1>3 DEF Destroyed, Nowhere, KeepsQueue, None
  <2>7. Disconnected'
    BY <2>1, <2>3, <2>4, <2>5, <2>6 DEF Disconnected
  <2> QED
    BY <1>3, <2>2, <2>7 DEF PhaseInv, Open
<1> QED
  BY <1>1, <1>2, <1>3, TypeParts DEF ScalarsOK, Open

\* A step of a connection in use that leaves it in use
LEMMA StaysInUse ==
  ASSUME PhaseInv, Open, Open', UNCHANGED <<inMap, removals, destroys, index, batch>>,
         "read" \in events', KeepsQueue
  PROVE  PhaseInv'
<1>1. InUse /\ Nowhere("connectEstablished")
  BY DEF PhaseInv, Open
<1>2. InUse' /\ Nowhere("connectEstablished")'
  BY <1>1 DEF InUse, Nowhere, KeepsQueue, None
<1> QED
  BY <1>2 DEF PhaseInv, Open

\* handleClose() of a connection in use
LEMMA InUseCloses ==
  ASSUME QuietInv, PhaseInv, Open, HandleClose, UNCHANGED <<inMap, destroys, pending>>,
         None(batch, "connectEstablished") => None(batch', "connectEstablished"),
         None(batch, "connectDestroyed") => None(batch', "connectDestroyed"),
         revents' \cap {"hup", "in"} = {}
  PROVE  PhaseInv'
<1>1. InUse /\ Nowhere("connectEstablished") /\ serverAlive
  BY DEF PhaseInv, Open, QuietInv
<1>2. /\ state' = "kDisconnected" /\ events' = {} /\ index' = "kDeleted" /\ removals' = 1
  BY <1>1 DEF HandleClose, UpdateChannel, CloseCallback, Once, InUse
<1>3. Closing' /\ Nowhere("connectEstablished")'
  BY <1>1, <1>2 DEF Closing, InUse, Nowhere, None
<1>4. Disconnected'
  BY <1>2, <1>3 DEF Disconnected
<1> QED
  BY <1>2, <1>3, <1>4 DEF PhaseInv, Open

\* Running a functor keeps the phase of the connection's life.
LEMMA PhaseRun ==
  ASSUME TypeInv, QuietInv, PhaseInv, RunFunctor
  PROVE  PhaseInv'
<1> USE DEF phaseVars, channelVars, connVars
<1> DEFINE f == Head(batch)
           CE == "connectEstablished"
           CD == "connectDestroyed"
<1>1. /\ Effect(f) /\ f.name \notin {"send", "shutdown", "startRead", "stopRead"}
      /\ batch # <<>> /\ batch' = Tail(batch) /\ pc = "run" /\ UNCHANGED <<revents, inMap>>
  BY QuietRun DEF RunFunctor
<1>2. batch \in Seq(Functors) /\ revents = {}
  BY <1>1, TypeParts DEF QueuesOK, QuietInv
<1>3. \A name : None(batch, name) <=> None(Tail(batch), name) /\ f.name # name
  BY <1>1, <1>2, TailNone
<1>4. \A name : Single(batch, name) => /\ f.name = name => None(Tail(batch), name)
                                       /\ f.name # name => Single(Tail(batch), name)
  BY <1>1, <1>2, TailSingle
<1>5. CASE state = "kConnecting"
  <2>1. Connecting /\ batch = <<Functor(CE)>> /\ pending = <<>>
    BY <1>1, <1>5 DEF PhaseInv, Connecting
  <2>2. f.name = CE /\ Tail(batch) = <<>>
    BY <2>1 DEF Functor
  <2>3. ConnectEstablished /\ UNCHANGED <<pending, removals, destroys>>
    BY <1>1, <2>2 DEF Effect
  <2>4. state' = "kConnected" /\ "read" \in events' /\ index' = "kAdded"
    BY <2>1, <2>3 DEF ConnectEstablished, UpdateChannel, Connecting
  <2>5. pending' = <<>> /\ batch' = <<>>
    BY <1>1, <2>1, <2>2, <2>3
  <2>6. InUse' /\ Nowhere(CE)'
    BY <1>1, <2>1, <2>3, <2>4, <2>5 DEF InUse, Nowhere, None, Connecting
  <2> QED
    BY <2>4, <2>6 DEF PhaseInv, Open
<1>6. CASE Open
  <2>1. InUse /\ Nowhere(CE) /\ f.name # CE /\ f.name # CD
    BY <1>3, <1>6 DEF PhaseInv, Open, InUse, Nowhere
  <2>2. CASE f.name = "forceClose"
    <3>1. HandleClose /\ UNCHANGED <<pending, destroys>>
      BY <1>1, <1>6, <2>2 DEF Effect
    <3>2. None(batch, CE) => None(batch', CE)
      BY <1>1, <1>3
    <3>3. None(batch, CD) => None(batch', CD)
      BY <1>1, <1>3
    <3> QED
      BY <1>1, <1>2, <1>6, <3>1, <3>2, <3>3, InUseCloses
  <2>3. CASE f.name # "forceClose"
    <3>1. UNCHANGED <<phaseVars, pending>>
      BY <1>1, <2>1, <2>3 DEF Effect
    <3>2. InUse' /\ Nowhere(CE)'
      BY <1>1, <1>3, <2>1, <3>1 DEF InUse, Nowhere
    <3> QED
      BY <1>6, <3>1, <3>2 DEF PhaseInv, Open
  <2> QED
    BY <2>2, <2>3
<1>7. CASE state = "kDisconnected"
  <2>1. Disconnected /\ Nowhere(CE) /\ f.name # CE
    BY <1>3, <1>7 DEF PhaseInv, Nowhere
  <2>2. CASE f.name = CD
    <3>1. Removed /\ None(pending, CD) /\ Single(batch, CD)
      BY <1>3, <2>1, <2>2 DEF Disconnected, Closing, Removed, Destroyed, Nowhere
    <3>2. ConnectDestroyed /\ UNCHANGED <<pending, removals>>
      BY <1>1, <2>2 DEF Effect
    <3>3. None(batch', CD) /\ None(batch', CE)
      BY <1>1, <1>3, <1>4, <2>1, <2>2, <3>1 DEF Nowhere
    <3>4. /\ state' = "kDisconnected" /\ events' = {} /\ index' = "kNew" /\ ~addedToLoop'
          /\ destroys' = 1 /\ ~inMap' /\ removals' = 0
      BY <1>1, <1>7, <2>1, <3>1, <3>2 DEF ConnectDestroyed, Once, Removed, Disconnected
    <3>5. Destroyed' /\ Nowhere(CE)'
      BY <2>1, <3>1, <3>2, <3>3, <3>4 DEF Destroyed, Nowhere
    <3>6. Disconnected'
      BY <1>1, <1>2, <3>4, <3>5 DEF Disconnected
    <3> QED
      BY <3>4, <3>5, <3>6 DEF PhaseInv, Open
  <2>3. CASE f.name # CD
    <3>1. UNCHANGED <<phaseVars, pending>>
      BY <1>1, <1>7, <2>1, <2>3 DEF Effect, Open
    <3>2. None(batch', CE) /\ (None(batch, CD) => None(batch', CD))
          /\ (Single(batch, CD) => Single(batch', CD))
      BY <1>1, <1>3, <1>4, <2>1, <2>3 DEF Nowhere
    <3>3. Nowhere(CE)'
      BY <2>1, <3>1, <3>2 DEF Nowhere
    <3>4. Closing => Closing'
      BY <3>1, <3>2 DEF Closing, Nowhere
    <3>5. Removed => Removed'
      BY <3>1, <3>2 DEF Removed
    <3>6. Destroyed => Destroyed'
      BY <3>1, <3>2 DEF Destroyed, Nowhere
    <3>7. Disconnected'
      BY <1>1, <2>1, <3>1, <3>4, <3>5, <3>6 DEF Disconnected
    <3> QED
      BY <1>7, <3>1, <3>3, <3>7 DEF PhaseInv, Open
  <2> QED
    BY <2>2, <2>3
<1> QED
  BY <1>5, <1>6, <1>7, TypeParts DEF ScalarsOK, Open

\* PhaseInv is inductive.
LEMMA PhaseNext ==
  ASSUME LoopOnly, TypeInv, QuietInv, PhaseInv, [Next]_vars
  PROVE  PhaseInv'
<1> USE DEF phaseVars, vars, connVars, channelVars, loopVars, serverVars, threadVars, socketVars,
            historyVars
<1> DEFINE Grows == \E name \in {"forceClose"} \cup Callbacks :
                      pending' = Append(pending, Functor(name))
<1>0. state \in {"kConnecting", "kConnected", "kDisconnecting", "kDisconnected"}
  BY TypeParts DEF ScalarsOK
<1>1. CASE UNCHANGED <<phaseVars, batch, pending, revents>>
  BY <1>1, PhaseKept
<1>2. ASSUME NEW room \in BOOLEAN, Poll(room) PROVE PhaseInv'
  <2>1. UNCHANGED <<phaseVars, batch, pending>> /\ revents' = Ready(room)
    BY <1>2 DEF Poll
  <2>2. index # "kAdded" => Ready(room) = {}
    BY DEF Ready
  <2>3. CASE Open
    BY <1>0, <2>1, <2>3, StaysInUse DEF PhaseInv, Open, InUse, KeepsQueue
  <2>4. CASE ~Open
    <3>1. index # "kAdded"
      BY <1>0, <2>4 DEF PhaseInv, Open, Connecting, Disconnected, Closing, Removed, Destroyed
    <3> QED
      BY <2>1, <2>2, <3>1, PhaseKept
  <2> QED
    BY <2>3, <2>4
<1>3. CASE HandleHup \/ HandleRead
  <2>1. /\ UNCHANGED <<inMap, destroys, pending, batch>> /\ revents' \subseteq revents
        /\ "hup" \in revents \/ "in" \in revents
    BY <1>3 DEF HandleHup, HandleRead
  <2>2. Open
    BY <1>0, <2>1 DEF PhaseInv, Open, Connecting, Disconnected
  <2>3. CASE HandleClose
    <3>1. CASE HandleRead \/ "in" \notin revents
      <4>1. revents' \cap {"hup", "in"} = {}
        BY <1>3, <3>1 DEF HandleHup, HandleRead
      <4> QED
        BY <2>1, <2>2, <2>3, <4>1, InUseCloses
    <3>2. CASE HandleHup /\ "in" \in revents
      <4>1. UNCHANGED phaseVars
        BY <3>2 DEF HandleHup
      <4> QED
        BY <2>1, <4>1, PhaseKept
    <3> QED
      BY <1>3, <3>1, <3>2
  <2>4. CASE ~HandleClose
    <3>1. UNCHANGED phaseVars
      BY <1>3, <2>4 DEF HandleHup, HandleRead
    <3> QED
      BY <2>1, <3>1, PhaseKept
  <2> QED
    BY <2>3, <2>4
<1>4. CASE HandleError
  <2>1. UNCHANGED <<phaseVars, batch, pending>> /\ revents' \subseteq revents
    BY <1>4 DEF HandleError
  <2> QED
    BY <2>1, PhaseKept
<1>5. CASE HandleWrite
  <2>1. /\ UNCHANGED <<state, inMap, removals, destroys, batch>> /\ revents' = {}
        /\ revents # {} /\ (pending' = pending \/ Grows)
    BY <1>5 DEF HandleWrite
  <2>2. KeepsQueue
    BY <2>1, QueueKept
  <2>3. state # "kConnecting"
    BY <2>1 DEF PhaseInv, Connecting
  <2>4. CASE UNCHANGED phaseVars
    BY <2>1, <2>2, <2>3, <2>4, PhaseKept
  <2>5. CASE "write" \in events /\ UpdateChannel(events \ {"write"})
    <3>1. Open /\ InUse
      BY <1>0, <2>3, <2>5 DEF PhaseInv, Open, Disconnected
    <3>2. Open' /\ index' = index /\ "read" \in events'
      BY <2>1, <2>5, <3>1 DEF Open, InUse, UpdateChannel
    <3> QED
      BY <2>1, <2>2, <3>1, <3>2, StaysInUse
  <2> QED
    BY <1>5, <2>4, <2>5 DEF HandleWrite
<1>6. CASE SwapFunctors
  <2>1. /\ UNCHANGED <<phaseVars, revents>> /\ batch' = pending /\ pending' = <<>> /\ batch = <<>>
    BY <1>6 DEF SwapFunctors, QuietInv
  <2>2. \A name : None(<<>>, name) /\ ~Single(<<>>, name)
    BY DEF None, Single
  <2>3. \A name \in {"connectEstablished", "connectDestroyed"} : Nowhere(name) => Nowhere(name)'
    BY <2>1, <2>2 DEF Nowhere
  <2>4. Connecting => Connecting'
    BY <2>1 DEF Connecting
  <2>5. InUse => InUse'
    BY <2>1, <2>3 DEF InUse
  <2>6. Closing => Closing'
    BY <2>1, <2>3 DEF Closing
  <2>7. Removed => Removed'
    BY <2>1, <2>2 DEF Removed
  <2>8. Destroyed => Destroyed'
    BY <2>1, <2>3 DEF Destroyed
  <2>9. Disconnected => Disconnected'
    BY <2>1, <2>6, <2>7, <2>8 DEF Disconnected
  <2> QED
    BY <2>1, <2>3, <2>4, <2>5, <2>9 DEF PhaseInv, Open
<1>7. CASE RunFunctor
  BY <1>7, PhaseRun
<1>8. CASE LoopSend
  <2>1. /\ UNCHANGED <<state, inMap, removals, destroys, batch, revents>> /\ state = "kConnected"
        /\ SendInLoop(sends + 1)
    BY <1>8 DEF LoopSend
  <2>2. pending' = pending \/ Grows
    BY <2>1 DEF SendInLoop
  <2>3. KeepsQueue
    BY <2>2, QueueKept
  <2>4. Open /\ Open' /\ InUse
    BY <2>1 DEF PhaseInv, Open
  <2>5. index' = index /\ "read" \in events'
    <3>1. CASE UNCHANGED channelVars
      BY <2>4, <3>1 DEF InUse
    <3>2. CASE UpdateChannel(events \cup {"write"})
      BY <2>4, <3>2 DEF InUse, UpdateChannel
    <3> QED
      BY <2>1, <3>1, <3>2 DEF SendInLoop, WatchOutput
  <2> QED
    BY <2>1, <2>3, <2>4, <2>5, StaysInUse
<1>9. CASE LoopShutdown \/ LoopForceClose \/ LoopForceCloseWithDelay
  <2>1. /\ UNCHANGED <<inMap, removals, destroys, batch, index, events>> /\ Open /\ Open'
        /\ pending' = pending \/ Grows
    BY <1>9 DEF LoopShutdown, LoopForceClose, LoopForceCloseWithDelay, ForceClose, Queue, Open
  <2>2. KeepsQueue /\ InUse
    BY <2>1, QueueKept DEF PhaseInv, Open
  <2> QED
    BY <2>1, <2>2, StaysInUse DEF InUse
<1>10. CASE DelayExpires
  <2>1. CASE UNCHANGED <<state, pending>>
    BY <1>1, <1>10, <2>1 DEF DelayExpires
  <2>2. CASE ForceClose
    <3>1. /\ UNCHANGED <<inMap, removals, destroys, batch, index, events>> /\ Open /\ Open'
          /\ pending' = pending \/ Grows
      BY <1>10, <2>2 DEF DelayExpires, ForceClose, Queue, Open
    <3>2. KeepsQueue /\ InUse
      BY <3>1, QueueKept DEF PhaseInv, Open
    <3> QED
      BY <3>1, <3>2, StaysInUse DEF InUse
  <2> QED
    BY <1>10, <2>1, <2>2 DEF DelayExpires
<1>11. CASE RemoveConnection
  <2>1. /\ removals > 0 /\ removals' = removals - 1 /\ inMap' = FALSE
        /\ pending' = Append(pending, Functor("connectDestroyed"))
        /\ UNCHANGED <<state, destroys, index, events, addedToLoop, revents, batch>>
    BY <1>11 DEF RemoveConnection, QuietInv, Queue
  <2>2. state = "kDisconnected" /\ Closing /\ Disconnected /\ Nowhere("connectEstablished")
    <3>1. removals # 0
      BY <2>1
    <3>2. state = "kDisconnected"
      BY <1>0, <3>1 DEF PhaseInv, Open, Connecting, InUse
    <3> QED
      BY <3>1, <3>2 DEF PhaseInv, Disconnected, Removed, Destroyed
  <2>3. removals' = 0
    BY <2>1, <2>2 DEF Closing
  <2>4. pending \in Seq(Functors) /\ Functor("connectDestroyed").name = "connectDestroyed"
    BY TypeParts DEF QueuesOK, Functor
  <2>5. Single(pending', "connectDestroyed") /\ None(pending', "connectEstablished")
    BY <2>1, <2>2, <2>4, AppendSingle, AppendNone DEF Closing, Nowhere
  <2>6. Removed' /\ Nowhere("connectEstablished")'
    BY <2>1, <2>2, <2>3, <2>5 DEF Removed, Closing, Nowhere
  <2>7. Disconnected'
    BY <2>1, <2>2, <2>6 DEF Disconnected
  <2> QED
    BY <2>1, <2>2, <2>6, <2>7 DEF PhaseInv, Open
<1>12. CASE UNCHANGED vars \/ EndFunctors \/ Peer
  BY <1>1, <1>12 DEF EndFunctors, Peer, PeerSends, PeerCloses, PeerResets
<1> QED
  BY <1>2, <1>3, <1>4, <1>5, <1>6, <1>7, <1>8, <1>9, <1>10, <1>11, <1>12, QuietStep

\* The invariants of the connection's life hold initially.
LEMMA LifeInit ==
  ASSUME Init
  PROVE  QuietInv /\ PhaseInv
<1>1. OwnersOnly(<<Functor("connectEstablished")>>) /\ OwnersOnly(<<>>)
  BY DEF OwnersOnly, OwnsConnection, Functor
<1>2. QuietInv
  BY <1>1 DEF Init, QuietInv
<1>3. PhaseInv
  BY DEF Init, PhaseInv, Connecting, Open
<1> QED
  BY <1>2, <1>3

\* They hold in every state, if the connection is used in its loop only.
LEMMA LifeInvariant == ASSUME LoopOnly PROVE Spec => [](TypeInv /\ QuietInv /\ PhaseInv)
<1>1. Init => QuietInv /\ PhaseInv
  BY LifeInit
<1>2. TypeInv /\ QuietInv /\ PhaseInv /\ [Next]_vars => QuietInv' /\ PhaseInv'
  BY QuietNext, PhaseNext
<1> QED
  BY <1>1, <1>2, TypeInit, TypeNext, PTL DEF Spec

\* ~TCPConnection() and ~Channel(): when the last shared_ptr to a connection
\* that only its loop uses goes, it is disconnected and out of the loop.
THEOREM DestructorAssertsHold == ASSUME LoopOnly PROVE Spec => []DestructorAsserts
<1>1. TypeInv /\ QuietInv /\ PhaseInv => DestructorAsserts
  <2> SUFFICES ASSUME TypeInv, QuietInv, PhaseInv, ~Alive
               PROVE  state = "kDisconnected" /\ ~addedToLoop
    BY DEF DestructorAsserts
  <2>1. ~inMap /\ removals \in 0..2 /\ ~(removals > 0) /\ ~batchHolds /\ ~SomeOwner(pending)
    BY TypeParts DEF Alive, ScalarsOK
  <2>2. state = "kDisconnected" /\ Disconnected
    BY <2>1, TypeParts DEF PhaseInv, ScalarsOK, Connecting, InUse, Open
  <2>3. batch = <<>> /\ None(pending, "connectDestroyed")
    BY <2>1 DEF QuietInv, SomeOwner, None, OwnsConnection
  <2>4. ~Removed
    BY <2>3 DEF Removed, Single, None
  <2> QED
    BY <2>1, <2>2, <2>4 DEF Disconnected, Closing, Destroyed
<1> QED
  BY <1>1, LifeInvariant, PTL

\* No functor, event or callback uses a destroyed connection or server, as
\* long as only the connection's loop uses it and the server outlives it.
THEOREM NothingEverDangles == ASSUME LoopOnly PROVE Spec => []NothingDangles
<1>1. QuietInv => NothingDangles
  BY DEF QuietInv, NothingDangles
<1> QED
  BY <1>1, LifeInvariant, PTL

\* connectDestroyed() then runs at most once (TCPConnection.h:121).
THEOREM DestroyedAtMostOnce == ASSUME LoopOnly PROVE Spec => []DestroyedOnce
<1>1. TypeInv /\ PhaseInv => DestroyedOnce
  <2> SUFFICES ASSUME TypeInv, PhaseInv PROVE destroys = 0 \/ destroys = 1
    BY DEF DestroyedOnce
  <2> QED
    BY TypeParts DEF PhaseInv, ScalarsOK, Open, Connecting, InUse, Disconnected, Closing, Removed,
                     Destroyed
<1> QED
  BY <1>1, LifeInvariant, PTL
=============================================================================
