-------------------------- MODULE TCPClientProofs ---------------------------
(***************************************************************************)
(* Proofs about TCPClient and its Connector: one attempt at a time, the    *)
(* asserts, and nothing that calls the dead. The invariant follows the     *)
(* attempt from the call of connect() through the queue, the channel, the  *)
(* retry timer, the connection and the reconnect, of which one excludes    *)
(* the others, and the channel's deletion behind it.                       *)
(***************************************************************************)
EXTENDS TCPClient, TLAPS

Names == {"startInLoop", "stopInLoop", "resetChannel"}

\* A functor that is in a queue at most once
Once(f, q) == \A i, j \in DOMAIN q : q[i] = f /\ q[j] = f => i = j

Single(f) ==
  /\ Once(f, pending) /\ Once(f, batch)
  /\ ~(f \in Range(pending) /\ f \in Range(batch))

QueueInv == Single("startInLoop") /\ Single("resetChannel")

\* The loop handles events and runs functors in turn.
LoopInv ==
  /\ pc # "run" => batch = <<>>
  /\ pc # "event" => ready = {}
  /\ "timer" \in ready => timers = 1 /\ channel = "none"

\* A channel that is out of the loop waits for its resetChannel(), which has
\* run when poll() is called after the connection was made; a connector that
\* was destroyed before waits no more.
ChannelInv ==
  /\ state = "kConnecting" <=> channel = "watching"
  /\ Queued("resetChannel") => channel = "removed"
  /\ channel = "removed" => Queued("resetChannel") \/ hasty
  /\ connection = "new" /\ "resetChannel" \in Range(pending) => pc = "event"
  /\ connection = "up" => channel = "none"
  /\ reconnect # "no" => channel = "none"

Asking(t) == tpc[t] \in {"start", "pushStart"}

\* Of the ways to be connected or on the way to it, one excludes the others.
AttemptInv ==
  /\ \A t \in Threads : Asking(t) =>
       /\ ~Queued("startInLoop") /\ timers = 0 /\ connection = "none" /\ reconnect = "no"
       /\ state = "kDisconnected" /\ channel = "none"
       /\ \A u \in Threads : Asking(u) => u = t
  /\ Queued("startInLoop") =>
       /\ timers = 0 /\ connection = "none" /\ reconnect = "no"
       /\ state = "kDisconnected" /\ channel = "none"
  /\ channel = "watching" => timers = 0 /\ connection = "none" /\ reconnect = "no"
  /\ timers > 0 =>
       timers = 1 /\ connection = "none" /\ reconnect = "no" /\ state = "kDisconnected"
  /\ connection # "none" => reconnect = "no"
  /\ reconnect = "start" => state = "kDisconnected"
  /\ connects = 0 =>
       /\ \A t \in Threads : ~Asking(t)
       /\ ~Queued("startInLoop") /\ timers = 0 /\ connection = "none" /\ reconnect = "no"
       /\ state = "kDisconnected" /\ channel = "none"

\* The functors that may run on a destroyed connector
Late == {"stopInLoop"} \cup (IF hasty THEN {"resetChannel"} ELSE {})

\* What is left of the connector when the client is gone
DeadInv ==
  /\ clientAlive => owners = {"client"}
  /\ ~clientAlive =>
       /\ \A t \in Threads : tpc[t] = "idle"
       /\ reconnect = "no" /\ connection = "none" /\ owners \in {{}, {"timer"}}
       /\ connect => owners = {} /\ timers = 0
       /\ channel = "watching" => Queued("stopInLoop")
       /\ owners = {} => /\ channel = "none" \/ (hasty /\ channel = "removed")
                         /\ ~Queued("startInLoop")
  /\ hasty => ~clientAlive /\ owners = {} /\ timers = 0
  /\ ~lost /\ dangling \subseteq Late

IndInv ==
  /\ TypeOK /\ QueueInv /\ LoopInv /\ ChannelInv
  /\ AttemptInv /\ DeadInv /\ AssertsHold

-----------------------------------------------------------------------------
(* The queues of functors.                                                 *)

\* A functor appended to a queue that did not hold it is in it once.
LEMMA AppendOnce ==
  ASSUME NEW S, NEW q \in Seq(S), NEW f \in S
  PROVE  /\ Append(q, f) \in Seq(S) /\ Range(Append(q, f)) = Range(q) \cup {f}
         /\ \A g : Once(g, q) /\ (g = f => f \notin Range(q)) => Once(g, Append(q, f))
<1> DEFINE r == Append(q, f)
<1>1. /\ r \in Seq(S) /\ Len(r) = Len(q) + 1 /\ Len(q) \in Nat
      /\ \A i \in 1 .. Len(q) : r[i] = q[i]
      /\ r[Len(q) + 1] = f
  OBVIOUS
<1>2. DOMAIN q = 1 .. Len(q) /\ DOMAIN r = 1 .. Len(q) + 1
  BY <1>1
<1> HIDE DEF r
<1>3. Range(r) = Range(q) \cup {f}
  <2>1. Range(r) = {r[i] : i \in 1 .. Len(q) + 1} /\ Range(q) = {q[i] : i \in 1 .. Len(q)}
    BY <1>2 DEF Range
  <2>2. 1 .. Len(q) + 1 = (1 .. Len(q)) \cup {Len(q) + 1}
    BY <1>1
  <2> QED
    BY <1>1, <2>1, <2>2
<1>4. ASSUME NEW g, Once(g, q), g = f => f \notin Range(q)
      PROVE  Once(g, r)
  <2> SUFFICES ASSUME NEW i \in DOMAIN r, NEW j \in DOMAIN r, r[i] = g, r[j] = g
               PROVE  i = j
    BY DEF Once
  <2>1. CASE g = f
    <3>1. \A k \in 1 .. Len(q) : q[k] # g
      BY <1>2, <1>4, <2>1 DEF Range
    <3> QED
      BY <1>1, <1>2, <3>1
  <2>2. CASE g # f
    <3>1. i \in 1 .. Len(q) /\ j \in 1 .. Len(q)
      BY <1>1, <1>2, <2>2
    <3> QED
      BY <1>1, <1>2, <1>4, <3>1 DEF Once
  <2> QED
    BY <2>1, <2>2
<1> QED
  BY <1>1, <1>3, <1>4 DEF r

\* A functor that is in a queue once is gone when it has been taken.
LEMMA TailOnce ==
  ASSUME NEW S, NEW q \in Seq(S), q # <<>>
  PROVE  /\ Tail(q) \in Seq(S) /\ Head(q) \in S /\ Head(q) \in Range(q)
         /\ Range(q) = Range(Tail(q)) \cup {Head(q)}
         /\ \A g : Once(g, q) => Once(g, Tail(q)) /\ (g = Head(q) => g \notin Range(Tail(q)))
<1> DEFINE r == Tail(q)
<1>1. /\ r \in Seq(S) /\ Len(q) \in Nat /\ Len(q) > 0 /\ Len(r) = Len(q) - 1 /\ Head(q) = q[1]
      /\ \A i \in 1 .. Len(q) - 1 : r[i] = q[i + 1]
      /\ q[1] \in S
  OBVIOUS
<1>2. DOMAIN q = 1 .. Len(q) /\ DOMAIN r = 1 .. Len(q) - 1
  BY <1>1
<1> HIDE DEF r
<1>3. q[1] \in Range(q)
  BY <1>1, <1>2 DEF Range
<1>4. Range(q) = Range(r) \cup {q[1]}
  <2>1. ASSUME NEW x \in Range(q), x # q[1]
        PROVE  x \in Range(r)
    <3>1. PICK i \in 1 .. Len(q) : x = q[i]
      BY <1>2 DEF Range
    <3>2. i - 1 \in 1 .. Len(q) - 1 /\ r[i - 1] = q[i]
      BY <1>1, <2>1, <3>1
    <3> QED
      BY <1>2, <3>1, <3>2 DEF Range
  <2>2. ASSUME NEW x \in Range(r)
        PROVE  x \in Range(q)
    <3>1. PICK i \in 1 .. Len(q) - 1 : x = r[i]
      BY <1>2 DEF Range
    <3>2. i + 1 \in 1 .. Len(q) /\ x = q[i + 1]
      BY <1>1, <3>1
    <3> QED
      BY <1>2, <3>2 DEF Range
  <2> QED
    BY <1>3, <2>1, <2>2
<1>5. ASSUME NEW g, Once(g, q)
      PROVE  Once(g, r) /\ (g = q[1] => g \notin Range(r))
  <2>1. ASSUME NEW i \in 1 .. Len(q) - 1, NEW j \in 1 .. Len(q) - 1, r[i] = g, r[j] = g
        PROVE  i = j
    <3>1. i + 1 \in 1 .. Len(q) /\ j + 1 \in 1 .. Len(q) /\ q[i + 1] = g /\ q[j + 1] = g
      BY <1>1, <2>1
    <3>2. i + 1 = j + 1
      BY <1>2, <1>5, <3>1 DEF Once
    <3> QED
      BY <3>2
  <2>2. ASSUME g = q[1], g \in Range(r)
        PROVE  FALSE
    <3>1. PICK i \in 1 .. Len(q) - 1 : g = r[i]
      BY <1>2, <2>2 DEF Range
    <3>2. i + 1 \in 1 .. Len(q) /\ 1 \in 1 .. Len(q) /\ q[i + 1] = g
      BY <1>1, <3>1
    <3>3. i + 1 = 1
      BY <1>2, <1>5, <2>2, <3>2 DEF Once
    <3> QED
      BY <3>1, <3>3
  <2> QED
    BY <1>2, <2>1, <2>2 DEF Once
<1> QED
  BY <1>1, <1>3, <1>4, <1>5 DEF r

Queues == pending \in Seq(Names) /\ batch \in Seq(Names)

\* A functor is queued.
LEMMA PushQueues ==
  ASSUME Queues, QueueInv, NEW f \in Names, f = "stopInLoop" \/ ~Queued(f),
         pending' = Append(pending, f), batch' = batch
  PROVE  Queues' /\ QueueInv' /\ Range(pending') = Range(pending) \cup {f}
<1>1. /\ pending' \in Seq(Names) /\ Range(pending') = Range(pending) \cup {f}
      /\ \A g : Once(g, pending) /\ (g = f => f \notin Range(pending)) => Once(g, pending')
  BY AppendOnce DEF Queues
<1>2. f \in {"startInLoop", "resetChannel"} => f \notin Range(pending) /\ f \notin Range(batch)
  BY DEF Queued
<1> QED
  BY <1>1, <1>2 DEF Queues, QueueInv, Single

\* A functor is taken off, and stopInLoop() may queue resetChannel().
LEMMA PopQueues ==
  ASSUME Queues, QueueInv, batch # <<>>, batch' = Tail(batch),
         \/ pending' = pending
         \/ pending' = Append(pending, "resetChannel") /\ ~Queued("resetChannel")
  PROVE  /\ Queues' /\ QueueInv' /\ Head(batch) \in Names /\ Head(batch) \in Range(batch)
         /\ Range(batch) = Range(batch') \cup {Head(batch)}
         /\ Head(batch) # "stopInLoop" => Head(batch) \notin Range(batch')
         /\ \/ pending' = pending
            \/ Range(pending') = Range(pending) \cup {"resetChannel"}
<1> DEFINE h == Head(batch)
<1>1. /\ batch' \in Seq(Names) /\ h \in Names /\ h \in Range(batch)
      /\ Range(batch) = Range(batch') \cup {h}
      /\ \A g : Once(g, batch) => Once(g, batch') /\ (g = h => g \notin Range(batch'))
  BY TailOnce DEF Queues
<1>2. "resetChannel" \in Names
  BY DEF Names
<1> HIDE DEF h
<1>3. h # "stopInLoop" => h \notin Range(batch')
  BY <1>1 DEF QueueInv, Single, Names
<1>4. CASE pending' = pending
  BY <1>1, <1>3, <1>4 DEF Queues, QueueInv, Single, h
<1>5. CASE pending' = Append(pending, "resetChannel") /\ ~Queued("resetChannel")
  <2>1. /\ pending' \in Seq(Names) /\ Range(pending') = Range(pending) \cup {"resetChannel"}
        /\ \A g : Once(g, pending) /\ (g = "resetChannel" => "resetChannel" \notin Range(pending))
             => Once(g, pending')
    BY <1>2, <1>5, AppendOnce DEF Queues
  <2>2. "resetChannel" \notin Range(pending) /\ "resetChannel" \notin Range(batch)
    BY <1>5 DEF Queued
  <2> QED
    BY <1>1, <1>3, <2>1, <2>2 DEF Queues, QueueInv, Single, h
<1> QED
  BY <1>4, <1>5

\* The queues hold functors of the client.
LEMMA QueuesTyped == TypeOK => Queues
  BY DEF TypeOK, Queues, Names

\* retry() keeps the delay within its bounds.
LEMMA RetryEffect ==
  ASSUME TypeOK, NEW n \in Nat, Retry(n)
  PROVE  /\ state' = "kDisconnected" /\ retryDelayMs' \in kInitRetryDelayMs .. kMaxRetryDelayMs
         /\ connect => timers' = n + 1
         /\ ~connect => timers' = n
  BY DelayAssumption DEF TypeOK, Retry, Backoff

\* startInLoop() of a connector at rest
LEMMA StartEffect ==
  ASSUME TypeOK, AssertsHold, StartInLoop(0), state = "kDisconnected", channel = "none"
  PROVE  /\ ~failed' /\ failed' \in BOOLEAN /\ gaveUp' \in BOOLEAN
         /\ retryDelayMs' \in kInitRetryDelayMs .. kMaxRetryDelayMs
         /\ \/ connect /\ state' = "kConnecting" /\ channel' = "watching" /\ timers' = 0
            \/ connect /\ state' = "kDisconnected" /\ channel' = "none" /\ timers' = 1
            \/ state' = "kDisconnected" /\ channel' = "none" /\ timers' = 0
<1>1. ~failed /\ failed \in BOOLEAN /\ gaveUp \in BOOLEAN
      /\ retryDelayMs \in kInitRetryDelayMs .. kMaxRetryDelayMs
  BY DEF TypeOK, AssertsHold
<1>2. CASE /\ connect
           /\ state' = "kConnecting" /\ channel' = "watching" /\ timers' = 0
           /\ Assert(state = "kDisconnected" /\ channel = "none")
           /\ UNCHANGED <<retryDelayMs, gaveUp>>
  BY <1>1, <1>2 DEF Assert
<1>3. CASE /\ connect
           /\ Retry(0)
           /\ Assert(state = "kDisconnected")
           /\ UNCHANGED <<channel, gaveUp>>
  BY <1>1, <1>3, RetryEffect DEF Assert
<1>4. CASE /\ timers' = 0
           /\ gaveUp' = (gaveUp \/ connect)
           /\ Assert(state = "kDisconnected")
           /\ UNCHANGED <<state, channel, retryDelayMs>>
  <2>1. connect \in BOOLEAN
    BY DEF TypeOK
  <2> QED
    BY <1>1, <1>4, <2>1 DEF Assert
<1> QED
  BY <1>2, <1>3, <1>4 DEF StartInLoop

-----------------------------------------------------------------------------
(* The hypothesis: the client is asked to connect once, as its users do.   *)

OneCall == MaxConnects <= 1

\* The invariant holds initially.
LEMMA InitInd == Init => IndInv
<1> SUFFICES ASSUME Init PROVE IndInv
  OBVIOUS
<1> USE DEF Init, ConnectorInit
<1>1. TypeOK
  <2>1. <<>> \in Seq({"startInLoop", "stopInLoop", "resetChannel"})
    OBVIOUS
  <2>2. /\ retryDelayMs \in kInitRetryDelayMs .. kMaxRetryDelayMs
        /\ connects \in 0 .. MaxConnects /\ closes \in 0 .. MaxCloses /\ timers \in Nat
    BY DelayAssumption, ClientAssumption
  <2>3. tpc \in [Threads -> {"idle", "start", "stop", "pushStart", "pushStop"}]
    OBVIOUS
  <2> QED
    BY <2>1, <2>2, <2>3 DEF TypeOK
<1>2. Range(<<>>) = {} /\ \A f : Once(f, <<>>)
  BY DEF Range, Once
<1>3. QueueInv /\ LoopInv
  BY <1>2 DEF QueueInv, Single, LoopInv
<1>4. \A f : ~Queued(f)
  BY <1>2 DEF Queued
<1>5. ChannelInv
  BY <1>2, <1>4 DEF ChannelInv
<1>6. AttemptInv
  BY <1>4 DEF AttemptInv, Asking
<1>7. DeadInv /\ AssertsHold
  BY DEF DeadInv, Late, AssertsHold
<1> QED
  BY <1>1, <1>3, <1>5, <1>6, <1>7 DEF IndInv

-----------------------------------------------------------------------------
(* The calls of the threads.                                               *)

\* The calls of connect(), disconnect() and stop() keep the invariant.
LEMMA CallSteps ==
  ASSUME IndInv, OneCall, NEW t \in Threads, CallConnect(t) \/ CallDisconnect(t) \/ CallStop(t)
  PROVE  IndInv'
<1>1. TypeOK /\ QueueInv /\ LoopInv /\ ChannelInv /\ AttemptInv /\ DeadInv /\ AssertsHold
  BY DEF IndInv
<1>2. /\ UNCHANGED <<stateVars, loopVars, historyVars, retry, connection, clientAlive, reconnect,
                     closes, lost, hasty>>
      /\ clientAlive /\ wanted' \in BOOLEAN
  BY DEF CallConnect, CallDisconnect, CallStop, connectorVars
<1>3. /\ UNCHANGED <<connect, state, channel, retryDelayMs, timers, owners, pc, ready, pending, batch,
                     gaveUp, failed, dangling>>
  BY <1>2 DEF stateVars, loopVars, historyVars
<1>4. \/ tpc[t] = "idle" /\ tpc' = [tpc EXCEPT ![t] = "start"] /\ connects = 0 /\ connects' = 1 /\ 1 <= MaxConnects
      \/ tpc[t] = "idle" /\ tpc' = [tpc EXCEPT ![t] = "stop"] /\ connects' = connects
      \/ tpc' = tpc /\ connects' = connects
  BY <1>1, ClientAssumption DEF CallConnect, CallDisconnect, CallStop, OneCall, TypeOK, connectorVars
<1>5. tpc' \in [Threads -> {"idle", "start", "stop", "pushStart", "pushStop"}]
  BY <1>1, <1>4 DEF TypeOK
<1>6. connects' \in 0 .. MaxConnects
  BY <1>1, <1>4, ClientAssumption DEF TypeOK
<1>7. TypeOK'
  BY <1>1, <1>2, <1>3, <1>5, <1>6 DEF TypeOK
<1>8. QueueInv' /\ LoopInv' /\ ChannelInv'
  BY <1>1, <1>2, <1>3 DEF QueueInv, Single, LoopInv, ChannelInv, Queued
<1>9. AttemptInv'
  <2>1. tpc \in [Threads -> {"idle", "start", "stop", "pushStart", "pushStop"}]
    BY <1>1 DEF TypeOK
  <2>2. Queued("startInLoop")' = Queued("startInLoop")
    BY <1>3 DEF Queued
  <2> QED
    BY <1>1, <1>2, <1>3, <1>4, <2>1, <2>2 DEF AttemptInv, Asking
<1>10. DeadInv' /\ AssertsHold'
  BY <1>1, <1>2, <1>3 DEF DeadInv, Late, AssertsHold
<1> QED
  BY <1>7, <1>8, <1>9, <1>10 DEF IndInv

\* So do Connector::start() and stop() in the calling thread.
LEMMA StartStopSteps ==
  ASSUME IndInv, NEW t \in Threads, Start(t) \/ Stop(t), UNCHANGED clientVars
  PROVE  IndInv'
<1>1. TypeOK /\ QueueInv /\ LoopInv /\ ChannelInv /\ AttemptInv /\ DeadInv /\ AssertsHold
  BY DEF IndInv
<1>2. /\ UNCHANGED <<state, channel, retryDelayMs, timers, owners, pc, ready, pending, batch,
                     gaveUp, failed, dangling>>
      /\ UNCHANGED <<retry, wanted, connection, clientAlive, reconnect, connects, closes, lost, hasty>>
      /\ connect' \in BOOLEAN
  BY DEF Start, Stop, loopVars, historyVars, clientVars
<1>3. tpc \in [Threads -> {"idle", "start", "stop", "pushStart", "pushStop"}]
  BY <1>1 DEF TypeOK
<1>4. \/ tpc[t] = "start" /\ tpc' = [tpc EXCEPT ![t] = "pushStart"]
      \/ tpc[t] = "stop" /\ tpc' = [tpc EXCEPT ![t] = "pushStop"]
  BY DEF Start, Stop
<1>5. tpc' \in [Threads -> {"idle", "start", "stop", "pushStart", "pushStop"}] /\ clientAlive
  BY <1>1, <1>3, <1>4 DEF DeadInv
<1>6. TypeOK'
  BY <1>1, <1>2, <1>5 DEF TypeOK
<1>7. QueueInv' /\ LoopInv' /\ ChannelInv'
  BY <1>1, <1>2 DEF QueueInv, Single, LoopInv, ChannelInv, Queued
<1>8. AttemptInv'
  <2>1. Queued("startInLoop")' = Queued("startInLoop")
    BY <1>2 DEF Queued
  <2>2. \A u \in Threads : Asking(u)' <=> Asking(u)
    BY <1>3, <1>4 DEF Asking
  <2> QED
    BY <1>1, <1>2, <2>1, <2>2 DEF AttemptInv
<1>9. DeadInv' /\ AssertsHold'
  BY <1>1, <1>2, <1>5 DEF DeadInv, Late, AssertsHold
<1> QED
  BY <1>6, <1>7, <1>8, <1>9 DEF IndInv

\* So does queueInLoop().
LEMMA PushStep ==
  ASSUME IndInv, NEW t \in Threads, Push(t), UNCHANGED clientVars
  PROVE  IndInv'
<1>1. TypeOK /\ QueueInv /\ LoopInv /\ ChannelInv /\ AttemptInv /\ DeadInv /\ AssertsHold
  BY DEF IndInv
<1>2. /\ UNCHANGED <<connect, state, channel, retryDelayMs, timers, owners, pc, ready, batch,
                     gaveUp, failed, dangling>>
      /\ UNCHANGED <<retry, wanted, connection, clientAlive, reconnect, connects, closes, lost, hasty>>
      /\ tpc' = [tpc EXCEPT ![t] = "idle"] /\ tpc[t] \in {"pushStart", "pushStop"}
  BY DEF Push, stateVars, historyVars, clientVars
<1>3. tpc \in [Threads -> {"idle", "start", "stop", "pushStart", "pushStop"}] /\ Queues
  BY <1>1, QueuesTyped DEF TypeOK
<1>4. PICK f \in {"startInLoop", "stopInLoop"} :
        /\ pending' = Append(pending, f)
        /\ f = "startInLoop" <=> tpc[t] = "pushStart"
  BY <1>2 DEF Push
<1>5. f \in Names /\ (f = "stopInLoop" \/ ~Queued(f))
  BY <1>1, <1>4 DEF AttemptInv, Asking, Names
<1>6. Queues' /\ QueueInv' /\ Range(pending') = Range(pending) \cup {f}
  BY <1>1, <1>2, <1>3, <1>4, <1>5, PushQueues
<1>7. clientAlive /\ tpc' \in [Threads -> {"idle", "start", "stop", "pushStart", "pushStop"}]
  BY <1>1, <1>2, <1>3 DEF DeadInv
<1>8. TypeOK'
  BY <1>1, <1>2, <1>6, <1>7 DEF TypeOK, Queues, Names
<1>9. LoopInv' /\ ChannelInv'
  BY <1>1, <1>2, <1>4, <1>6 DEF LoopInv, ChannelInv, Queued
<1>10. AttemptInv'
  <2>1. Queued("startInLoop")' <=> Queued("startInLoop") \/ tpc[t] = "pushStart"
    BY <1>2, <1>4, <1>6 DEF Queued
  <2>2. \A u \in Threads : Asking(u)' <=> Asking(u) /\ u # t
    BY <1>2, <1>3 DEF Asking
  <2>3. tpc[t] = "pushStart" => Asking(t)
    BY DEF Asking
  <2> QED
    BY <1>1, <1>2, <2>1, <2>2, <2>3 DEF AttemptInv
<1>11. DeadInv' /\ AssertsHold'
  BY <1>1, <1>2, <1>7 DEF DeadInv, Late, AssertsHold
<1> QED
  BY <1>6, <1>8, <1>9, <1>10, <1>11 DEF IndInv

-----------------------------------------------------------------------------
(* The loop.                                                               *)

\* handleWrite() and newConnection()
LEMMA NewConnectionStep ==
  ASSUME IndInv, NewConnection
  PROVE  IndInv'
<1>1. TypeOK /\ QueueInv /\ LoopInv /\ ChannelInv /\ AttemptInv /\ DeadInv /\ AssertsHold
  BY DEF IndInv
<1>2. /\ reconnect = "no" /\ "attempt" \in ready /\ state = "kConnecting"
      /\ ready' = ready \ {"attempt"} /\ state' = "kConnected" /\ channel' = "removed"
      /\ pending' = Append(pending, "resetChannel")
      /\ UNCHANGED <<connect, retryDelayMs, timers, owners, pc, batch, tpc, gaveUp, failed, dangling,
                     retry, wanted, clientAlive, reconnect, connects, closes, hasty>>
      /\ connect => connection' = "new" /\ lost' = (lost \/ ~clientAlive \/ connection # "none")
      /\ ~connect => connection' = connection /\ lost' = lost
  BY DEF NewConnection, LoopFree, AttemptSucceeds, RemoveAndResetChannel, historyVars
<1>3. /\ channel = "watching" /\ connection = "none" /\ timers = 0 /\ pc = "event" /\ batch = <<>>
      /\ ~Queued("resetChannel") /\ ~Queued("startInLoop")
      /\ connect => clientAlive
  BY <1>1, <1>2 DEF LoopInv, ChannelInv, AttemptInv, DeadInv
<1>4. Queues' /\ QueueInv' /\ Range(pending') = Range(pending) \cup {"resetChannel"}
  BY <1>1, <1>2, <1>3, QueuesTyped, PushQueues DEF Names
<1>5. connection' \in {"none", "new"} /\ (connection' = "new" => connect) /\ ~lost' /\ lost' \in BOOLEAN
  BY <1>1, <1>2, <1>3 DEF DeadInv, TypeOK
<1>6. TypeOK'
  BY <1>1, <1>2, <1>4, <1>5 DEF TypeOK, Queues, Names
<1>7. LoopInv' /\ ChannelInv'
  BY <1>1, <1>2, <1>3, <1>4, <1>5 DEF LoopInv, ChannelInv, Queued
<1>8. ~Queued("startInLoop")'
  BY <1>2, <1>3, <1>4 DEF Queued
<1>9. \A t \in Threads : ~Asking(t)'
  BY <1>1, <1>2, <1>3 DEF AttemptInv, Asking
<1>10. AttemptInv'
  BY <1>1, <1>2, <1>3, <1>5, <1>8, <1>9 DEF AttemptInv
<1>11. DeadInv' /\ AssertsHold'
  BY <1>1, <1>2, <1>3, <1>5, <1>8 DEF DeadInv, Late, AssertsHold
<1> QED
  BY <1>4, <1>6, <1>7, <1>10, <1>11 DEF IndInv

\* So does the return of the poll.
LEMMA PollStep ==
  ASSUME IndInv, PollLoop
  PROVE  IndInv'
<1>1. TypeOK /\ QueueInv /\ LoopInv /\ ChannelInv /\ AttemptInv /\ DeadInv /\ AssertsHold
  BY DEF IndInv
<1>2. /\ pc = "poll" /\ pc' = "event" /\ ready' \subseteq Pollable \cup {"closed"}
      /\ UNCHANGED <<connect, state, channel, retryDelayMs, timers, owners, pending, batch, tpc,
                     gaveUp, failed, dangling, retry, wanted, clientAlive, reconnect, connects,
                     closes, lost, hasty>>
      /\ connection' = IF connection = "new" THEN "up" ELSE connection
  BY DEF PollLoop, Poll, stateVars, historyVars
<1>3. batch = <<>> /\ Range(batch) = {}
  BY <1>1, <1>2 DEF LoopInv, Range
<1>4. "timer" \in ready' => timers = 1 /\ channel = "none"
  BY <1>1, <1>2, <1>3 DEF Pollable, ChannelInv, AttemptInv, DeadInv, Queued, TypeOK
<1>5. connection' \in {"none", "up"} /\ (connection' = "none" <=> connection = "none")
  BY <1>1, <1>2 DEF TypeOK
<1>6. connection = "new" => channel = "none"
  BY <1>1, <1>2, <1>3 DEF ChannelInv, AttemptInv, DeadInv, Queued, TypeOK
<1>7. TypeOK'
  BY <1>1, <1>2, <1>5 DEF TypeOK, Pollable
<1>8. QueueInv' /\ LoopInv' /\ ChannelInv'
  BY <1>1, <1>2, <1>3, <1>4, <1>5, <1>6 DEF QueueInv, Single, LoopInv, ChannelInv, Queued
<1>9. AttemptInv'
  BY <1>1, <1>2, <1>5 DEF AttemptInv, Asking, Queued
<1>10. DeadInv' /\ AssertsHold'
  BY <1>1, <1>2, <1>5 DEF DeadInv, Late, AssertsHold, Queued
<1> QED
  BY <1>7, <1>8, <1>9, <1>10 DEF IndInv

\* handleError(), or handleWrite() on a socket that did not connect
LEMMA AttemptFailsStep ==
  ASSUME IndInv, AttemptFails, LoopFree, UNCHANGED clientVars
  PROVE  IndInv'
<1>1. TypeOK /\ QueueInv /\ LoopInv /\ ChannelInv /\ AttemptInv /\ DeadInv /\ AssertsHold
  BY DEF IndInv
<1>2. /\ "attempt" \in ready /\ state = "kConnecting" /\ ready' = ready \ {"attempt"}
      /\ channel' = "removed" /\ pending' = Append(pending, "resetChannel") /\ Retry(timers)
      /\ UNCHANGED <<connect, owners, pc, batch, tpc, gaveUp, failed, dangling>>
      /\ UNCHANGED <<retry, wanted, connection, clientAlive, reconnect, connects, closes, lost, hasty>>
  BY DEF AttemptFails, RemoveAndResetChannel, historyVars, clientVars
<1>3. /\ channel = "watching" /\ connection = "none" /\ reconnect = "no" /\ timers = 0
      /\ pc = "event" /\ "timer" \notin ready
      /\ ~Queued("resetChannel") /\ ~Queued("startInLoop")
      /\ \A t \in Threads : ~Asking(t)
  BY <1>1, <1>2 DEF LoopInv, ChannelInv, AttemptInv
<1>4. Queues' /\ QueueInv' /\ Range(pending') = Range(pending) \cup {"resetChannel"}
  BY <1>1, <1>2, <1>3, QueuesTyped, PushQueues DEF Names
<1>5. /\ state' = "kDisconnected" /\ retryDelayMs' \in kInitRetryDelayMs .. kMaxRetryDelayMs
      /\ timers' \in {0, 1} /\ (timers' = 1 => connect)
  BY <1>1, <1>2, <1>3, RetryEffect DEF TypeOK
<1>6. TypeOK'
  BY <1>1, <1>2, <1>4, <1>5 DEF TypeOK, Queues, Names
<1>7. ~Queued("startInLoop")' /\ Queued("resetChannel")' /\ (Queued("stopInLoop") => Queued("stopInLoop")')
      /\ \A t \in Threads : ~Asking(t)'
  BY <1>2, <1>3, <1>4 DEF Queued, Asking
<1>8. LoopInv' /\ ChannelInv'
  BY <1>1, <1>2, <1>3, <1>5, <1>7 DEF LoopInv, ChannelInv
<1>9. AttemptInv'
  BY <1>1, <1>2, <1>3, <1>5, <1>7 DEF AttemptInv
<1>10. DeadInv' /\ AssertsHold'
  BY <1>1, <1>2, <1>3, <1>5, <1>7 DEF DeadInv, Late, AssertsHold
<1> QED
  BY <1>4, <1>6, <1>8, <1>9, <1>10 DEF IndInv

\* The steps that call startInLoop() of a connector at rest: a retry timer,
\* restart() and a functor
LEMMA StartingInv ==
  ASSUME IndInv, StartInLoop(0), state = "kDisconnected", channel = "none",
         \A t \in Threads : ~Asking(t),
         connects # 0, connection = "none", clientAlive \/ ~connect \/ timers > 0, reconnect' = "no",
         ready' \subseteq ready, "timer" \notin ready', Queues', QueueInv', pc # "run" => batch' = <<>>,
         Range(pending') \subseteq Range(pending), Range(batch') \subseteq Range(batch),
         "startInLoop" \notin Range(pending') \cup Range(batch'),
         UNCHANGED <<connect, owners, pc, tpc, dangling,
                     retry, wanted, connection, clientAlive, connects, closes, lost, hasty>>
  PROVE  IndInv'
<1>1. TypeOK /\ QueueInv /\ LoopInv /\ ChannelInv /\ AttemptInv /\ DeadInv /\ AssertsHold
  BY DEF IndInv
<1>2. /\ ~failed' /\ failed' \in BOOLEAN /\ gaveUp' \in BOOLEAN
      /\ retryDelayMs' \in kInitRetryDelayMs .. kMaxRetryDelayMs
      /\ \/ connect /\ state' = "kConnecting" /\ channel' = "watching" /\ timers' = 0
         \/ connect /\ state' = "kDisconnected" /\ channel' = "none" /\ timers' = 1
         \/ state' = "kDisconnected" /\ channel' = "none" /\ timers' = 0
  BY <1>1, StartEffect
<1>3. ~Queued("startInLoop")' /\ ~Queued("resetChannel") /\ ~Queued("resetChannel")'
  BY <1>1 DEF ChannelInv, Queued
<1>4. TypeOK'
  BY <1>1, <1>2 DEF TypeOK, Queues, Names
<1>5. LoopInv'
  BY <1>1, <1>2 DEF LoopInv
<1>6. ChannelInv'
  BY <1>1, <1>2, <1>3 DEF ChannelInv, Queued
<1>7. AttemptInv'
  BY <1>1, <1>2, <1>3 DEF AttemptInv, Asking
<1>8. connect => clientAlive
  BY <1>1 DEF DeadInv, TypeOK
<1>9. DeadInv'
  BY <1>1, <1>2, <1>3, <1>8 DEF DeadInv, Late
<1> QED
  BY <1>2, <1>4, <1>5, <1>6, <1>7, <1>9 DEF IndInv, AssertsHold

\* So does the retry timer.
LEMMA RetryTimerStep ==
  ASSUME IndInv, RetryTimer, LoopFree, UNCHANGED clientVars
  PROVE  IndInv'
<1>1. TypeOK /\ QueueInv /\ LoopInv /\ ChannelInv /\ AttemptInv /\ DeadInv /\ AssertsHold
  BY DEF IndInv
<1>2. /\ "timer" \in ready /\ ready' = ready \ {"timer"} /\ StartInLoop(timers - 1)
      /\ UNCHANGED <<connect, owners, pc, pending, batch, tpc, dangling>>
      /\ UNCHANGED <<retry, wanted, connection, clientAlive, reconnect, connects, closes, lost, hasty>>
  BY DEF RetryTimer, clientVars
<1>3. /\ timers = 1 /\ channel = "none" /\ state = "kDisconnected" /\ connection = "none"
      /\ reconnect = "no" /\ connects # 0 /\ ~Queued("startInLoop")
      /\ \A t \in Threads : ~Asking(t)
  BY <1>1, <1>2 DEF LoopInv, AttemptInv
<1>4. timers - 1 = 0 /\ timers > 0
  BY <1>3
<1>5. StartInLoop(0)
  BY <1>2, <1>4
<1>6. Queues' /\ QueueInv'
  BY <1>1, <1>2, QueuesTyped DEF Queues, QueueInv, Single
<1>7. "startInLoop" \notin Range(pending') \cup Range(batch') /\ (pc # "run" => batch' = <<>>)
  BY <1>1, <1>2, <1>3 DEF Queued, LoopInv
<1> QED
  BY <1>2, <1>3, <1>4, <1>5, <1>6, <1>7, StartingInv

\* So does the queued restart.
LEMMA RestartInLoopStep ==
  ASSUME IndInv, RestartInLoop
  PROVE  IndInv'
<1>1. TypeOK /\ QueueInv /\ LoopInv /\ ChannelInv /\ AttemptInv /\ DeadInv /\ AssertsHold
  BY DEF IndInv
<1>2. /\ reconnect = "start" /\ reconnect' = "no" /\ StartInLoop(timers)
      /\ UNCHANGED <<connect, owners, pc, ready, pending, batch, tpc, dangling>>
      /\ UNCHANGED <<retry, wanted, connection, clientAlive, connects, closes, lost, hasty>>
  BY DEF RestartInLoop, loopVars
<1>3. /\ timers = 0 /\ channel = "none" /\ state = "kDisconnected" /\ connection = "none"
      /\ connects # 0 /\ ~Queued("startInLoop") /\ clientAlive
      /\ \A t \in Threads : ~Asking(t)
  BY <1>1, <1>2 DEF TypeOK, ChannelInv, AttemptInv, DeadInv
<1>4. StartInLoop(0) /\ "timer" \notin ready
  BY <1>1, <1>2, <1>3 DEF LoopInv
<1>5. Queues' /\ QueueInv'
  BY <1>1, <1>2, QueuesTyped DEF Queues, QueueInv, Single
<1>6. "startInLoop" \notin Range(pending') \cup Range(batch') /\ (pc # "run" => batch' = <<>>)
  BY <1>1, <1>2, <1>3 DEF Queued, LoopInv
<1> QED
  BY <1>2, <1>3, <1>4, <1>5, <1>6, StartingInv

\* So does Connector::restart().
LEMMA RestartStep ==
  ASSUME IndInv, Restart
  PROVE  IndInv'
<1>1. TypeOK /\ QueueInv /\ LoopInv /\ ChannelInv /\ AttemptInv /\ DeadInv /\ AssertsHold
  BY DEF IndInv
<1>2. /\ reconnect = "restart" /\ reconnect' = "start" /\ state' = "kDisconnected"
      /\ retryDelayMs' = kInitRetryDelayMs /\ connect' = TRUE
      /\ UNCHANGED <<channel, timers, owners, pc, ready, pending, batch, tpc, gaveUp, failed, dangling>>
      /\ UNCHANGED <<retry, wanted, connection, clientAlive, connects, closes, lost, hasty>>
  BY DEF Restart, loopVars, historyVars
<1>3. channel = "none" /\ clientAlive
  BY <1>1, <1>2 DEF ChannelInv, DeadInv
<1>4. TypeOK'
  BY <1>1, <1>2, DelayAssumption DEF TypeOK
<1>5. QueueInv' /\ LoopInv'
  BY <1>1, <1>2 DEF QueueInv, Single, LoopInv
<1>6. ChannelInv'
  BY <1>1, <1>2, <1>3 DEF ChannelInv, Queued
<1>7. AttemptInv'
  BY <1>1, <1>2, <1>3 DEF AttemptInv, Asking, Queued
<1>8. DeadInv' /\ AssertsHold'
  BY <1>1, <1>2, <1>3 DEF DeadInv, Late, AssertsHold
<1> QED
  BY <1>4, <1>5, <1>6, <1>7, <1>8 DEF IndInv

\* So does removeConnection(), with a reconnect or without.
LEMMA RemoveConnectionStep ==
  ASSUME IndInv, RemoveConnection
  PROVE  IndInv'
<1>1. TypeOK /\ QueueInv /\ LoopInv /\ ChannelInv /\ AttemptInv /\ DeadInv /\ AssertsHold
  BY DEF IndInv
<1>2. /\ reconnect = "no" /\ connection = "up" /\ connection' = "none" /\ closes < MaxCloses
      /\ closes' = closes + 1 /\ reconnect' \in {"restart", "no"} /\ ready' = ready \ {"closed"}
      /\ UNCHANGED <<connect, state, channel, retryDelayMs, timers, owners, pc, pending, batch, tpc,
                     gaveUp, failed, dangling, retry, wanted, clientAlive, connects, lost, hasty>>
  BY DEF RemoveConnection, LoopFree, stateVars, historyVars
<1>3. /\ channel = "none" /\ clientAlive /\ timers = 0 /\ ~Queued("startInLoop") /\ connects # 0
      /\ \A t \in Threads : ~Asking(t)
  BY <1>1, <1>2 DEF ChannelInv, DeadInv, AttemptInv, TypeOK
<1>4. TypeOK'
  BY <1>1, <1>2, ClientAssumption DEF TypeOK
<1>5. QueueInv' /\ LoopInv'
  BY <1>1, <1>2 DEF QueueInv, Single, LoopInv
<1>6. ChannelInv'
  BY <1>1, <1>2, <1>3 DEF ChannelInv, Queued
<1>7. AttemptInv'
  BY <1>1, <1>2, <1>3 DEF AttemptInv, Asking, Queued
<1>8. DeadInv' /\ AssertsHold'
  BY <1>1, <1>2, <1>3 DEF DeadInv, Late, AssertsHold
<1> QED
  BY <1>4, <1>5, <1>6, <1>7, <1>8 DEF IndInv

\* So do the ends of the loop's turn.
LEMMA TurnSteps ==
  ASSUME IndInv, LoopFree, UNCHANGED clientVars, SwapFunctors \/ EndFunctors
  PROVE  IndInv'
<1>1. TypeOK /\ QueueInv /\ LoopInv /\ ChannelInv /\ AttemptInv /\ DeadInv /\ AssertsHold
  BY DEF IndInv
<1>2. /\ UNCHANGED <<connect, state, channel, retryDelayMs, timers, owners, ready, tpc,
                     gaveUp, failed, dangling>>
      /\ UNCHANGED <<retry, wanted, connection, clientAlive, reconnect, connects, closes, lost, hasty>>
      /\ ready = {}
  BY <1>1 DEF SwapFunctors, EndFunctors, stateVars, historyVars, clientVars, LoopInv
<1>3. Range(<<>>) = {} /\ \A f : Once(f, <<>>)
  BY DEF Range, Once
<1>4. \/ pc = "event" /\ pc' = "run" /\ batch = <<>> /\ batch' = pending /\ pending' = <<>>
      \/ pc = "run" /\ pc' = "poll" /\ batch = <<>> /\ UNCHANGED <<pending, batch>>
  BY <1>1 DEF SwapFunctors, EndFunctors, LoopInv
<1>5. \A f : Queued(f)' <=> Queued(f)
  BY <1>3, <1>4 DEF Queued
<1>6. Queues' /\ QueueInv'
  <2>1. <<>> \in Seq(Names)
    OBVIOUS
  <2> QED
    BY <1>1, <1>3, <1>4, <2>1, QueuesTyped DEF Queues, QueueInv, Single
<1>7. TypeOK'
  BY <1>1, <1>2, <1>4, <1>6 DEF TypeOK, Queues, Names
<1>8. LoopInv'
  BY <1>1, <1>2, <1>4 DEF LoopInv
<1>9. ChannelInv'
  BY <1>1, <1>2, <1>3, <1>4, <1>5 DEF ChannelInv
<1>10. AttemptInv'
  BY <1>1, <1>2, <1>5 DEF AttemptInv, Asking
<1>11. DeadInv' /\ AssertsHold'
  BY <1>1, <1>2, <1>5 DEF DeadInv, Late, AssertsHold
<1> QED
  BY <1>6, <1>7, <1>8, <1>9, <1>10, <1>11 DEF IndInv

\* So does enableRetry().
LEMMA EnableRetryStep ==
  ASSUME IndInv, EnableRetry
  PROVE  IndInv'
<1>1. TypeOK /\ QueueInv /\ LoopInv /\ ChannelInv /\ AttemptInv /\ DeadInv /\ AssertsHold
  BY DEF IndInv
<1>2. /\ UNCHANGED <<connect, state, channel, retryDelayMs, timers, owners, pc, ready, pending, batch,
                     tpc, gaveUp, failed, dangling>>
      /\ UNCHANGED <<wanted, connection, clientAlive, reconnect, connects, closes, lost, hasty>>
      /\ retry' = TRUE
  BY DEF EnableRetry, connectorVars, stateVars, loopVars, historyVars
<1>3. TypeOK'
  BY <1>1, <1>2 DEF TypeOK
<1>4. QueueInv' /\ LoopInv' /\ ChannelInv'
  BY <1>1, <1>2 DEF QueueInv, Single, LoopInv, ChannelInv, Queued
<1>5. AttemptInv' /\ DeadInv' /\ AssertsHold'
  BY <1>1, <1>2 DEF AttemptInv, Asking, Queued, DeadInv, Late, AssertsHold
<1> QED
  BY <1>3, <1>4, <1>5 DEF IndInv

\* ~TCPClient(), in a callback, in a functor or between two calls of loop()
LEMMA DestroyStep ==
  ASSUME IndInv, Destroy
  PROVE  IndInv'
<1>1. TypeOK /\ QueueInv /\ LoopInv /\ ChannelInv /\ AttemptInv /\ DeadInv /\ AssertsHold
  BY DEF IndInv
<1>2. /\ reconnect = "no" /\ clientAlive /\ \A t \in Threads : tpc[t] = "idle"
      /\ clientAlive' = FALSE /\ connection' = "none" /\ ready' = ready \ {"closed"}
      /\ UNCHANGED <<state, channel, retryDelayMs, timers, pc, batch, tpc, gaveUp, failed, dangling,
                     retry, wanted, reconnect, connects, closes, lost>>
      /\ hasty' = (connection = "new")
  BY DEF Destroy, LoopFree, historyVars
<1>3. ~hasty /\ hasty' \in BOOLEAN /\ dangling \subseteq {"stopInLoop"}
  BY <1>1, <1>2 DEF DeadInv, Late
<1>4. CASE connection # "none"
  <2>1. owners' = {} /\ connect' = connect /\ pending' = pending
    BY <1>4 DEF Destroy
  <2>2. /\ channel = "none" \/ (hasty' /\ channel = "removed")
        /\ channel # "watching" /\ timers = 0 /\ ~Queued("startInLoop") /\ connects # 0
    <3>1. connection = "new" => hasty'
      BY <1>2
    <3> QED
      BY <1>1, <1>4, <3>1 DEF TypeOK, ChannelInv, AttemptInv
  <2>3. \A f : Queued(f)' <=> Queued(f)
    BY <1>2, <2>1 DEF Queued
  <2>4. TypeOK'
    <3>1. owners' \in SUBSET {"client", "timer"} /\ ready' \in SUBSET {"attempt", "timer", "closed"}
      BY <1>1, <1>2, <2>1 DEF TypeOK
    <3>2. connection' \in {"none", "new", "up"} /\ clientAlive' \in BOOLEAN
      BY <1>2
    <3>3. UNCHANGED <<state, channel, retryDelayMs, timers, pc, batch, tpc, gaveUp, failed, dangling,
                      retry, wanted, reconnect, connects, closes, lost>>
      BY <1>2
    <3> QED
      BY <1>1, <1>3, <2>1, <3>1, <3>2, <3>3 DEF TypeOK
  <2>5. QueueInv' /\ LoopInv'
    BY <1>1, <1>2, <2>1 DEF QueueInv, Single, LoopInv
  <2>6. ChannelInv'
    BY <1>1, <1>2, <1>3, <2>1, <2>2, <2>3 DEF ChannelInv
  <2>7. AttemptInv'
    BY <1>1, <1>2, <2>2, <2>3 DEF AttemptInv, Asking
  <2>8. DeadInv' /\ AssertsHold'
    BY <1>1, <1>2, <1>3, <2>1, <2>2, <2>3 DEF DeadInv, Late, AssertsHold
  <2> QED
    BY <2>4, <2>5, <2>6, <2>7, <2>8 DEF IndInv
<1>5. CASE connection = "none"
  <2>1. owners' = {"timer"} /\ connect' = FALSE /\ pending' = Append(pending, "stopInLoop")
    BY <1>5 DEF Destroy
  <2>2. Queues' /\ QueueInv' /\ Range(pending') = Range(pending) \cup {"stopInLoop"}
    BY <1>1, <1>2, <2>1, QueuesTyped, PushQueues DEF Names
  <2>3. /\ Queued("stopInLoop")' /\ Queued("startInLoop")' = Queued("startInLoop")
        /\ Queued("resetChannel")' = Queued("resetChannel")
    BY <1>2, <2>2 DEF Queued
  <2>4. TypeOK'
    BY <1>1, <1>2, <1>3, <2>1, <2>2 DEF TypeOK, Queues, Names
  <2>5. LoopInv' /\ ChannelInv'
    BY <1>1, <1>2, <1>3, <1>5, <2>3 DEF LoopInv, ChannelInv
  <2>6. AttemptInv'
    BY <1>1, <1>2, <1>5, <2>3 DEF AttemptInv, Asking
  <2>7. DeadInv' /\ AssertsHold'
    BY <1>1, <1>2, <1>3, <1>5, <2>1, <2>3 DEF DeadInv, Late, AssertsHold
  <2> QED
    BY <2>2, <2>4, <2>5, <2>6, <2>7 DEF IndInv
<1> QED
  BY <1>4, <1>5

\* The second for which the destructor keeps the connector is over.
LEMMA OwnerTimerStep ==
  ASSUME IndInv, OwnerTimer
  PROVE  IndInv'
<1>1. TypeOK /\ QueueInv /\ LoopInv /\ ChannelInv /\ AttemptInv /\ DeadInv /\ AssertsHold
  BY DEF IndInv
<1>2. /\ pc = "poll" /\ pending = <<>> /\ owners = {"timer"} /\ owners' = {}
      /\ UNCHANGED <<connect, state, channel, retryDelayMs, timers, pc, ready, pending, batch,
                     tpc, gaveUp, failed, dangling>>
      /\ UNCHANGED <<retry, wanted, connection, clientAlive, reconnect, connects, closes, lost, hasty>>
  BY DEF OwnerTimer, loopVars, historyVars, clientVars
<1>3. /\ ~clientAlive /\ batch = <<>>
  BY <1>1, <1>2 DEF DeadInv, LoopInv
<1>4. \A f : ~Queued(f)
  BY <1>2, <1>3 DEF Queued, Range
<1>5. channel = "none" /\ ~connect
  BY <1>1, <1>2, <1>3, <1>4 DEF ChannelInv, DeadInv, TypeOK
<1>6. TypeOK'
  BY <1>1, <1>2 DEF TypeOK
<1>7. QueueInv' /\ LoopInv' /\ ChannelInv'
  BY <1>1, <1>2 DEF QueueInv, Single, LoopInv, ChannelInv, Queued
<1>8. AttemptInv' /\ AssertsHold'
  BY <1>1, <1>2 DEF AttemptInv, Asking, Queued, AssertsHold
<1>9. ~Queued("startInLoop")'
  BY <1>2, <1>4 DEF Queued
<1>10. DeadInv'
  BY <1>1, <1>2, <1>3, <1>5, <1>9 DEF DeadInv, Late
<1> QED
  BY <1>6, <1>7, <1>8, <1>10 DEF IndInv

\* The loop runs a functor of the connector, dead or alive.
LEMMA RunFunctorStep ==
  ASSUME IndInv, RunFunctor, LoopFree, UNCHANGED clientVars
  PROVE  IndInv'
<1>1. TypeOK /\ QueueInv /\ LoopInv /\ ChannelInv /\ AttemptInv /\ DeadInv /\ AssertsHold
  BY DEF IndInv
<1> DEFINE h == Head(batch)
<1>2. /\ pc = "run" /\ batch # <<>> /\ batch' = Tail(batch)
      /\ UNCHANGED <<connect, owners, pc, ready, tpc>>
      /\ UNCHANGED <<retry, wanted, connection, clientAlive, reconnect, connects, closes, lost, hasty>>
      /\ ready = {} /\ reconnect = "no"
  BY <1>1 DEF RunFunctor, clientVars, LoopFree, LoopInv
<1>3. Alive =>
        /\ \/ h = "startInLoop" /\ StartInLoop(timers) /\ UNCHANGED pending
           \/ h = "stopInLoop" /\ StopInLoop /\ UNCHANGED <<gaveUp, failed>>
           \/ /\ h = "resetChannel" /\ ResetChannel
              /\ UNCHANGED <<state, retryDelayMs, timers, pending, gaveUp>>
        /\ UNCHANGED dangling
  BY DEF RunFunctor
<1>4. ~Alive => /\ dangling' = dangling \cup {h}
                /\ UNCHANGED <<state, channel, retryDelayMs, timers, pending, gaveUp, failed>>
  BY DEF RunFunctor
<1>5. StopInLoop =>
        \/ /\ state = "kConnecting" /\ channel' = "removed" /\ Retry(timers)
           /\ pending' = Append(pending, "resetChannel")
        \/ state # "kConnecting" /\ UNCHANGED <<state, channel, retryDelayMs, timers, pending>>
  BY DEF StopInLoop, RemoveAndResetChannel
<1>6. \/ pending' = pending
      \/ pending' = Append(pending, "resetChannel") /\ ~Queued("resetChannel")
  BY <1>1, <1>3, <1>4, <1>5 DEF ChannelInv
<1>7. /\ Queues' /\ QueueInv' /\ h \in Names /\ h \in Range(batch)
      /\ Range(batch) = Range(batch') \cup {h}
      /\ h # "stopInLoop" => h \notin Range(batch')
      /\ \/ pending' = pending
         \/ Range(pending') = Range(pending) \cup {"resetChannel"}
  BY <1>1, <1>2, <1>6, QueuesTyped, PopQueues
<1>8. Queued(h) /\ (h # "stopInLoop" => h \notin Range(pending))
  BY <1>1, <1>7 DEF Queued, QueueInv, Single, Names
<1> HIDE DEF h
<1>9. CASE ~Alive
  <2>1. owners = {} /\ ~clientAlive
    BY <1>1, <1>9 DEF Alive, DeadInv
  <2>2. h = "stopInLoop" \/ (h = "resetChannel" /\ hasty)
    BY <1>1, <1>7, <1>8, <2>1 DEF DeadInv, ChannelInv, Names
  <2>3. /\ pending' = pending /\ (Queued("startInLoop")' => Queued("startInLoop"))
        /\ Queued("resetChannel")' => Queued("resetChannel")
        /\ Queued("resetChannel") => Queued("resetChannel")' \/ hasty
    BY <1>4, <1>7, <1>9, <2>2 DEF Queued
  <2>4. /\ dangling' = dangling \cup {h} /\ dangling' \subseteq Late'
        /\ UNCHANGED <<state, channel, retryDelayMs, timers, gaveUp, failed>>
    BY <1>1, <1>2, <1>4, <1>9, <2>2 DEF DeadInv, Late
  <2>5. TypeOK'
    <3>1. dangling' \subseteq {"startInLoop", "stopInLoop", "resetChannel"}
      BY <1>1, <1>7, <2>4 DEF TypeOK, Names
    <3>2. batch' \in Seq({"startInLoop", "stopInLoop", "resetChannel"})
      BY <1>7 DEF Queues, Names
    <3> QED
      BY <1>1, <1>2, <2>3, <2>4, <3>1, <3>2 DEF TypeOK
  <2>6. LoopInv' /\ ChannelInv'
    BY <1>1, <1>2, <1>4, <1>9, <2>3 DEF LoopInv, ChannelInv
  <2>7. AttemptInv'
    BY <1>1, <1>2, <1>4, <1>9, <2>3 DEF AttemptInv, Asking
  <2>8. DeadInv' /\ AssertsHold'
    BY <1>1, <1>2, <2>1, <2>3, <2>4 DEF DeadInv, Late, AssertsHold
  <2> QED
    BY <1>7, <2>5, <2>6, <2>7, <2>8 DEF IndInv
<1>10. CASE Alive /\ h = "startInLoop"
  <2>1. StartInLoop(timers) /\ pending' = pending /\ dangling' = dangling
    BY <1>3, <1>10
  <2>2. /\ timers = 0 /\ connection = "none" /\ state = "kDisconnected" /\ channel = "none" /\ connects # 0
        /\ \A t \in Threads : ~Asking(t)
    BY <1>1, <1>8, <1>10 DEF AttemptInv
  <2>3. StartInLoop(0)
    BY <2>1, <2>2
  <2>4. clientAlive \/ ~connect
    BY <1>1, <1>8, <1>10 DEF DeadInv
  <2>5. /\ "startInLoop" \notin Range(pending') \cup Range(batch')
        /\ Range(pending') \subseteq Range(pending) /\ Range(batch') \subseteq Range(batch)
    BY <1>7, <1>8, <1>10, <2>1
  <2> QED
    BY <1>2, <1>7, <2>1, <2>2, <2>3, <2>4, <2>5, StartingInv
<1>11. CASE Alive /\ h = "resetChannel"
  <2>1. /\ channel' = "none" /\ failed' = (failed \/ ~(channel # "watching"))
        /\ UNCHANGED <<state, retryDelayMs, timers, pending, gaveUp, dangling>>
    BY <1>3, <1>11 DEF ResetChannel, Assert
  <2>2. channel = "removed"
    BY <1>1, <1>8, <1>11 DEF ChannelInv
  <2>3. /\ ~Queued("resetChannel")' /\ Queued("startInLoop")' = Queued("startInLoop")
        /\ Queued("stopInLoop")' = Queued("stopInLoop")
    BY <1>7, <1>8, <1>11, <2>1 DEF Queued
  <2>4. ~failed' /\ failed' \in BOOLEAN
    BY <1>1, <2>1, <2>2 DEF AssertsHold, TypeOK
  <2>5. TypeOK'
    BY <1>1, <1>2, <1>7, <2>1, <2>4 DEF TypeOK, Queues, Names
  <2>6. LoopInv'
    BY <1>1, <1>2, <2>1 DEF LoopInv
  <2>7. ChannelInv'
    BY <1>1, <1>2, <2>1, <2>2, <2>3 DEF ChannelInv, Queued
  <2>8. AttemptInv'
    BY <1>1, <1>2, <2>1, <2>2, <2>3 DEF AttemptInv, Asking
  <2>9. DeadInv'
    BY <1>1, <1>2, <2>1, <2>3 DEF DeadInv, Late
  <2> QED
    BY <1>7, <2>4, <2>5, <2>6, <2>7, <2>8, <2>9 DEF IndInv, AssertsHold
<1>12. CASE Alive /\ h = "stopInLoop" /\ state # "kConnecting"
  <2>1. UNCHANGED <<state, channel, retryDelayMs, timers, pending, gaveUp, failed, dangling>>
    BY <1>3, <1>5, <1>12
  <2>2. /\ Queued("startInLoop")' = Queued("startInLoop")
        /\ Queued("resetChannel")' = Queued("resetChannel")
    BY <1>7, <1>12, <2>1 DEF Queued
  <2>3. channel # "watching"
    BY <1>1, <1>12 DEF ChannelInv
  <2>4. TypeOK'
    BY <1>1, <1>2, <1>7, <2>1 DEF TypeOK, Queues, Names
  <2>5. LoopInv' /\ ChannelInv'
    BY <1>1, <1>2, <2>1, <2>2 DEF LoopInv, ChannelInv
  <2>6. AttemptInv'
    BY <1>1, <1>2, <2>1, <2>2 DEF AttemptInv, Asking
  <2>7. DeadInv' /\ AssertsHold'
    BY <1>1, <1>2, <2>1, <2>2, <2>3 DEF DeadInv, Late, AssertsHold
  <2> QED
    BY <1>7, <2>4, <2>5, <2>6, <2>7 DEF IndInv
<1>13. CASE Alive /\ h = "stopInLoop" /\ state = "kConnecting"
  <2>1. /\ channel' = "removed" /\ Retry(timers) /\ UNCHANGED <<gaveUp, failed, dangling>>
        /\ pending' = Append(pending, "resetChannel")
    BY <1>3, <1>5, <1>13
  <2>2. /\ channel = "watching" /\ timers = 0 /\ connection = "none" /\ ~Queued("startInLoop")
        /\ \A t \in Threads : ~Asking(t)
        /\ connects # 0
    BY <1>1, <1>13 DEF ChannelInv, AttemptInv
  <2>3. Range(pending') = Range(pending) \cup {"resetChannel"}
    <3>1. "resetChannel" \in Names
      BY DEF Names
    <3>2. pending \in Seq(Names)
      BY <1>1, QueuesTyped DEF Queues
    <3> QED
      BY <2>1, <3>1, <3>2, AppendOnce
  <2>4. Queued("resetChannel")' /\ ~Queued("startInLoop")' /\ \A t \in Threads : ~Asking(t)'
    BY <1>2, <1>7, <2>2, <2>3 DEF Queued, Asking
  <2>5. /\ state' = "kDisconnected" /\ retryDelayMs' \in kInitRetryDelayMs .. kMaxRetryDelayMs
        /\ timers' \in {0, 1} /\ (timers' = 1 => connect)
    BY <1>1, <2>1, <2>2, RetryEffect DEF TypeOK
  <2>6. TypeOK'
    BY <1>1, <1>2, <1>7, <2>1, <2>5 DEF TypeOK, Queues, Names
  <2>7. LoopInv' /\ ChannelInv'
    BY <1>1, <1>2, <2>1, <2>2, <2>4, <2>5 DEF LoopInv, ChannelInv
  <2>8. AttemptInv'
    BY <1>1, <1>2, <2>1, <2>2, <2>4, <2>5 DEF AttemptInv
  <2>9. DeadInv' /\ AssertsHold'
    BY <1>1, <1>2, <2>1, <2>2, <2>4, <2>5 DEF DeadInv, Late, AssertsHold
  <2> QED
    BY <1>7, <2>6, <2>7, <2>8, <2>9 DEF IndInv
<1> QED
  BY <1>7, <1>9, <1>10, <1>11, <1>12, <1>13 DEF Names

-----------------------------------------------------------------------------
(* The theorems.                                                           *)

\* Every step of the client, its connector and their callers preserves the
\* invariant.
LEMMA NextInd ==
  ASSUME IndInv, OneCall, [Next]_vars
  PROVE  IndInv'
<1>1. CASE NewConnection
  BY <1>1, NewConnectionStep
<1>2. CASE ConnectorStep
  BY <1>2, AttemptFailsStep, RetryTimerStep, TurnSteps, RunFunctorStep DEF ConnectorStep
<1>3. CASE PollLoop
  BY <1>3, PollStep
<1>4. CASE Restart
  BY <1>4, RestartStep
<1>5. CASE RestartInLoop
  BY <1>5, RestartInLoopStep
<1>6. CASE RemoveConnection
  BY <1>6, RemoveConnectionStep
<1>7. CASE EnableRetry
  BY <1>7, EnableRetryStep
<1>8. CASE Destroy
  BY <1>8, DestroyStep
<1>9. CASE OwnerTimer
  BY <1>9, OwnerTimerStep
<1>10. ASSUME NEW t \in Threads, ConnectorCall(t)
       PROVE  IndInv'
  BY <1>10, StartStopSteps, PushStep DEF ConnectorCall
<1>11. ASSUME NEW t \in Threads, CallConnect(t) \/ CallDisconnect(t) \/ CallStop(t)
       PROVE  IndInv'
  BY <1>11, CallSteps
<1>12. CASE UNCHANGED vars
  <2>1. /\ UNCHANGED <<connect, state, channel, retryDelayMs, timers, owners, pc, ready, pending, batch,
                       tpc, gaveUp, failed, dangling>>
        /\ UNCHANGED <<retry, wanted, connection, clientAlive, reconnect, connects, closes, lost, hasty>>
    BY <1>12 DEF vars, connectorVars, stateVars, loopVars, historyVars, clientVars
  <2> QED
    BY <2>1 DEF IndInv, TypeOK, QueueInv, Single, LoopInv, ChannelInv, AttemptInv, Asking, DeadInv,
       Late, AssertsHold, Queued
<1> QED
  BY <1>1, <1>2, <1>3, <1>4, <1>5, <1>6, <1>7, <1>8, <1>9, <1>10, <1>11, <1>12 DEF Next, LoopStep

\* The invariant holds in every state of a client that is asked to connect once.
THEOREM Inductive ==
  ASSUME OneCall
  PROVE  Spec => []IndInv
<1>1. Init => IndInv
  BY InitInd
<1>2. IndInv /\ [Next]_vars => IndInv'
  BY NextInd
<1> QED
  BY <1>1, <1>2, PTL DEF Spec

\* The variables keep their types; the delay of the retries stays between
\* kInitRetryDelayMs and kMaxRetryDelayMs (Connector.cc:185).
THEOREM TypeCorrect ==
  ASSUME OneCall
  PROVE  Spec => []TypeOK
<1>1. IndInv => TypeOK
  BY DEF IndInv
<1> QED
  BY <1>1, Inductive, PTL

\* A client that is asked once to connect never makes two attempts at a time,
\* whatever any number of threads that call stop() and disconnect(), the
\* retries, the reconnects and the destructor do (Connector.cc:113-189).
THEOREM AlwaysOneAttempt ==
  ASSUME OneCall
  PROVE  Spec => []OneAttempt
<1>1. IndInv => OneAttempt
  <2> SUFFICES ASSUME IndInv PROVE OneAttempt
    OBVIOUS
  <2>1. AttemptInv /\ timers \in Nat
    BY DEF IndInv, TypeOK
  <2>2. timers \in {0, 1}
    BY <2>1 DEF AttemptInv
  <2> DEFINE asking == \E t \in Threads : tpc[t] \in {"start", "pushStart"}
  <2>3. /\ asking => /\ ~Queued("startInLoop") /\ timers = 0 /\ connection = "none"
                     /\ reconnect = "no" /\ channel # "watching"
        /\ Queued("startInLoop") => /\ timers = 0 /\ connection = "none"
                                    /\ reconnect = "no" /\ channel # "watching"
        /\ channel = "watching" => timers = 0 /\ connection = "none" /\ reconnect = "no"
        /\ timers = 1 => connection = "none" /\ reconnect = "no"
        /\ connection # "none" => reconnect = "no"
    BY <2>1 DEF AttemptInv, Asking
  <2> HIDE DEF asking
  <2>4. Count(channel = "watching") + timers + Count(connection # "none")
          + Count(reconnect # "no") + Count(Queued("startInLoop")) + Count(asking) <= 1
    BY <2>2, <2>3 DEF Count
  <2> QED
    BY <2>4 DEF OneAttempt, asking
<1> QED
  BY <1>1, Inductive, PTL

\* The asserts of startInLoop(), connecting() and ~Channel() hold of a client
\* that is asked once to connect (Connector.cc:40, 115).
THEOREM AssertsAlwaysHold ==
  ASSUME OneCall
  PROVE  Spec => []AssertsHold
<1>1. IndInv => AssertsHold
  BY DEF IndInv
<1> QED
  BY <1>1, Inductive, PTL

\* Of a client that is asked once to connect and destroyed anywhere in the
\* loop thread, nothing but a late stopInLoop(), and the resetChannel() of a
\* client destroyed in the iteration that connected it, reaches the destroyed
\* connector, no channel in the loop outlives it, and newConnection() of a
\* destroyed client is not called (the FIXMEs at Connector.cc:35, 51, 133).
THEOREM NothingEverCallsTheDead ==
  ASSUME OneCall
  PROVE  Spec => []NothingCallsTheDead
<1>1. IndInv => NothingCallsTheDead
  BY DEF IndInv, DeadInv, Late, NothingCallsTheDead, Alive
<1> QED
  BY <1>1, Inductive, PTL
=============================================================================
