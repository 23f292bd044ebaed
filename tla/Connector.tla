----------------------------- MODULE Connector ------------------------------
(***************************************************************************)
(* polaris/src/Connector.cc: non-blocking connect with retries. start()    *)
(* and stop() may be called by any thread; the work is done in the loop    *)
(* thread: in functors, in the callbacks of the connecting socket's        *)
(* channel and of the retry timer. The loop alternates as EventLoop does:  *)
(* poll, handle the events, swap the queued functors, run them. TCPClient  *)
(* owns a connector and completes the actions here with its own part.      *)
(* A retry timer is taken to expire no sooner than in the iteration after  *)
(* the one that runs resetChannel(): its delay is 500 ms or more.          *)
(***************************************************************************)
EXTENDS Naturals, Sequences, Functions

CONSTANTS Threads,   \* the threads other than the loop's own
          kInitRetryDelayMs, kMaxRetryDelayMs

ASSUME DelayAssumption ==
  /\ kInitRetryDelayMs \in Nat \ {0}
  /\ kMaxRetryDelayMs \in Nat /\ kMaxRetryDelayMs >= kInitRetryDelayMs

VARIABLES
  connect,         \* connect_
  state,           \* state_
  channel,         \* channel_: "none", "watching", or "removed" (out of the
                   \* loop, to be deleted by resetChannel())
  retryDelayMs,    \* retryDelayMs_
  timers,          \* retry timers armed, each with a shared_ptr to this
  owners,          \* the other shared_ptrs: the "client", its 1 s "timer"
  pc,              \* the loop: "poll", "event", "run"
  ready,           \* what poll() returned and is not handled yet
  pending, batch,  \* the loop's functors: queued; being run
  tpc,             \* where each other thread is in its call
  gaveUp,          \* history: a connect() failed for good (EACCES, ...)
  failed,          \* history: an assert of Connector or ~Channel failed
  dangling         \* history: functors that ran on a destroyed connector

stateVars == <<connect, state, channel, retryDelayMs, timers, owners>>
loopVars == <<pc, ready, pending, batch>>
historyVars == <<gaveUp, failed, dangling>>
connectorVars == <<stateVars, loopVars, tpc, historyVars>>

ConnectorInit ==
  /\ connect = FALSE /\ state = "kDisconnected" /\ channel = "none"
  /\ retryDelayMs = kInitRetryDelayMs /\ timers = 0 /\ owners = {"client"}
  /\ pc = "poll" /\ ready = {} /\ pending = <<>> /\ batch = <<>>
  /\ tpc = [t \in Threads |-> "idle"]
  /\ gaveUp = FALSE /\ failed = FALSE /\ dangling = {}

Alive == owners # {} \/ timers > 0

-----------------------------------------------------------------------------
(* What runs in the loop thread, as operators on the connector's state.    *)

\* A failed assert is recorded; the release build goes on.
Assert(holds) == failed' = (failed \/ ~holds)

Backoff(d) == IF d * 2 < kMaxRetryDelayMs THEN d * 2 ELSE kMaxRetryDelayMs

\* retry(): the socket is closed and, if still wanted, a timer armed; n
\* timers are armed already
RetryNever(n) ==
  /\ state' = "kDisconnected" /\ timers' = n
  /\ UNCHANGED retryDelayMs
Retry(n) ==
  /\ state' = "kDisconnected"
  /\ IF connect THEN timers' = n + 1 /\ retryDelayMs' = Backoff(retryDelayMs)
                ELSE timers' = n /\ UNCHANGED retryDelayMs

\* startInLoop(), connect(), connecting(): the attempt is under way, has
\* failed for now, or (as when it is not wanted) nothing more is done
StartInLoop(n) ==
  \/ /\ connect
     /\ state' = "kConnecting" /\ channel' = "watching" /\ timers' = n
     /\ Assert(state = "kDisconnected" /\ channel = "none")
     /\ UNCHANGED <<retryDelayMs, gaveUp>>
  \/ /\ connect
     /\ Retry(n)
     /\ Assert(state = "kDisconnected")
     /\ UNCHANGED <<channel, gaveUp>>
  \/ /\ timers' = n
     /\ gaveUp' = (gaveUp \/ connect)
     /\ Assert(state = "kDisconnected")
     /\ UNCHANGED <<state, channel, retryDelayMs>>

\* removeAndResetChannel(): the channel can only be deleted later
RemoveOnly ==
  /\ channel' = "removed"
  /\ UNCHANGED pending
RemoveAndResetChannel ==
  /\ channel' = "removed"
  /\ pending' = Append(pending, "resetChannel")

\* stopInLoop(): the delay is that of the retry which start() may still want
StopInLoopLeavesIt == UNCHANGED <<state, channel, retryDelayMs, timers, pending>>
StopInLoop ==
  IF state = "kConnecting"
  THEN RemoveAndResetChannel /\ Retry(timers)
  ELSE UNCHANGED <<state, channel, retryDelayMs, timers, pending>>

\* resetChannel(): ~Channel() asserts that the channel is out of the loop
ResetChannel ==
  /\ channel' = "none"
  /\ Assert(channel # "watching")

-----------------------------------------------------------------------------
(* The loop.                                                               *)

\* What a poll() may find: the socket has connected or failed, a timer has
\* expired.
Pollable ==
  {e \in {"attempt", "timer"} :
     \/ e = "attempt" /\ channel = "watching"
     \/ e = "timer" /\ timers > 0 /\ "resetChannel" \notin Range(pending)}

Poll(found) ==
  /\ pc = "poll"
  /\ ready' = found
  /\ pc' = "event"
  /\ UNCHANGED <<stateVars, pending, batch, tpc, historyVars>>

\* handleWrite() on a socket with an error or connected to itself, and
\* handleError(); the handleWrite() that may follow handleError() in the same
\* event finds kDisconnected and does nothing.
AttemptFailsTwice ==
  /\ "attempt" \in ready /\ state = "kConnecting"
  /\ ready' = ready \ {"attempt"}
  /\ RemoveAndResetChannel
  /\ Retry(timers + 1)
  /\ UNCHANGED <<connect, owners, pc, batch, tpc, historyVars>>
AttemptFails ==
  /\ "attempt" \in ready /\ state = "kConnecting"
  /\ ready' = ready \ {"attempt"}
  /\ RemoveAndResetChannel
  /\ Retry(timers)
  /\ UNCHANGED <<connect, owners, pc, batch, tpc, historyVars>>

\* handleWrite() on a connected socket: handed over if still wanted, else
\* closed
AttemptSucceeds ==
  /\ "attempt" \in ready /\ state = "kConnecting"
  /\ ready' = ready \ {"attempt"}
  /\ RemoveAndResetChannel
  /\ state' = "kConnected"
  /\ UNCHANGED <<connect, retryDelayMs, timers, owners, pc, batch, tpc, historyVars>>

\* The retry timer calls startInLoop().
RetryTimer ==
  /\ "timer" \in ready
  /\ ready' = ready \ {"timer"}
  /\ StartInLoop(timers - 1)
  /\ UNCHANGED <<connect, owners, pc, pending, batch, tpc, dangling>>

SwapFunctors ==
  /\ pc = "event" /\ ready = {}
  /\ batch' = pending /\ pending' = <<>>
  /\ pc' = "run"
  /\ UNCHANGED <<stateVars, ready, tpc, historyVars>>

\* The functors bind this: the connector may be gone.
RunFunctor ==
  /\ pc = "run" /\ batch # <<>>
  /\ batch' = Tail(batch)
  /\ IF Alive
     THEN /\ \/ Head(batch) = "startInLoop" /\ StartInLoop(timers) /\ UNCHANGED pending
             \/ Head(batch) = "stopInLoop" /\ StopInLoop /\ UNCHANGED <<gaveUp, failed>>
             \/ /\ Head(batch) = "resetChannel" /\ ResetChannel
                /\ UNCHANGED <<state, retryDelayMs, timers, pending, gaveUp>>
          /\ UNCHANGED dangling
     ELSE /\ dangling' = dangling \cup {Head(batch)}
          /\ UNCHANGED <<state, channel, retryDelayMs, timers, pending, gaveUp, failed>>
  /\ UNCHANGED <<connect, owners, pc, ready, tpc>>

EndFunctors ==
  /\ pc = "run" /\ batch = <<>>
  /\ pc' = "poll"
  /\ UNCHANGED <<stateVars, ready, pending, batch, tpc, historyVars>>

-----------------------------------------------------------------------------
(* start() and stop() of another thread: set connect_, then queue.         *)

Start(t) ==
  /\ tpc[t] = "start"
  /\ connect' = TRUE
  /\ tpc' = [tpc EXCEPT ![t] = "pushStart"]
  /\ UNCHANGED <<state, channel, retryDelayMs, timers, owners, loopVars, historyVars>>

Stop(t) ==
  /\ tpc[t] = "stop"
  /\ connect' = FALSE
  /\ tpc' = [tpc EXCEPT ![t] = "pushStop"]
  /\ UNCHANGED <<state, channel, retryDelayMs, timers, owners, loopVars, historyVars>>

Push(t) ==
  /\ tpc[t] \in {"pushStart", "pushStop"}
  /\ pending' = Append(pending, IF tpc[t] = "pushStart" THEN "startInLoop" ELSE "stopInLoop")
  /\ tpc' = [tpc EXCEPT ![t] = "idle"]
  /\ UNCHANGED <<stateVars, pc, ready, batch, historyVars>>
=============================================================================
