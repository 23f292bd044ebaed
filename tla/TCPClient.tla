----------------------------- MODULE TCPClient ------------------------------
(***************************************************************************)
(* polaris/src/TCPClient.cc: a client that connects through a Connector,   *)
(* has at most one connection, and connects again when that is closed and  *)
(* retries are enabled. Any thread may call connect(), disconnect() and    *)
(* stop(); the client is destroyed in the loop thread (from another thread *)
(* the destructor is "not 100% safe", line 74), when no call is under way. *)
(* A connection's own life is the subject of TCPConnection: here it is up, *)
(* or being shut down, until its close callback runs.                      *)
(***************************************************************************)
EXTENDS Connector

CONSTANTS MaxConnects,   \* bound: calls of connect()
          MaxCloses      \* bound: connections that are closed

ASSUME ClientAssumption == MaxConnects \in Nat /\ MaxCloses \in Nat

VARIABLES
  retry, wanted,   \* retry_, and connect_ of the client
  connection,      \* connection_: "none"; "new", since the last poll();
                   \* "up"
  clientAlive,     \* ~TCPClient() has not run
  reconnect,       \* removeConnection() is between its test of retry_ and
                   \* connect_ and restart(): "restart"; after restart() set
                   \* connect_, before startInLoop(): "start"; else "no"
  connects, closes,  \* counts for the bounds
  lost,            \* history: the connector called a destroyed client, or
                   \* replaced a connection that was not closed
  hasty            \* history: ~TCPClient() ran in the iteration that made
                   \* the connection

clientVars == <<retry, wanted, connection, clientAlive, reconnect, connects, closes, lost,
                hasty>>
vars == <<connectorVars, clientVars>>

Init ==
  /\ ConnectorInit
  /\ retry = FALSE /\ wanted = TRUE /\ connection = "none" /\ clientAlive = TRUE
  /\ reconnect = "no" /\ connects = 0 /\ closes = 0 /\ lost = FALSE /\ hasty = FALSE

-----------------------------------------------------------------------------
(* The loop thread. It does nothing else between the steps of              *)
(* removeConnection().                                                     *)

LoopFree == reconnect = "no"

\* handleWrite() goes on: newConnection(), if connect_ is still set
NewConnectionUnasked ==
  /\ LoopFree /\ AttemptSucceeds
  /\ connection' = "new"
  /\ lost' = (lost \/ ~clientAlive \/ connection # "none")
  /\ UNCHANGED <<retry, wanted, clientAlive, reconnect, connects, closes, hasty>>
NewConnection ==
  /\ LoopFree /\ AttemptSucceeds
  /\ IF connect
     THEN connection' = "new" /\ lost' = (lost \/ ~clientAlive \/ connection # "none")
     ELSE UNCHANGED <<connection, lost>>
  /\ UNCHANGED <<retry, wanted, clientAlive, reconnect, connects, closes, hasty>>

\* poll() may also find that the peer has closed the connection.
PollLoop ==
  /\ LoopFree
  /\ \E found \in SUBSET (Pollable \cup {e \in {"closed"} : connection # "none" /\ closes < MaxCloses}) : Poll(found)
  /\ connection' = IF connection = "new" THEN "up" ELSE connection
  /\ UNCHANGED <<retry, wanted, clientAlive, reconnect, connects, closes, lost, hasty>>

ConnectorStep ==
  /\ LoopFree
  /\ AttemptFails \/ RetryTimer \/ SwapFunctors \/ RunFunctor \/ EndFunctors
  /\ UNCHANGED clientVars

\* removeConnection(), the connection's close callback, called by
\* handleClose() or by a forceCloseInLoop(), which runs no sooner than the
\* functors queued before the connection was made: forget the connection,
\* and look whether to connect again. A destroyed client is not called.
RemoveConnection ==
  /\ LoopFree /\ connection = "up" /\ closes < MaxCloses
  /\ "closed" \in ready \/ pc = "run"
  /\ ready' = ready \ {"closed"}
  /\ connection' = "none"
  /\ closes' = closes + 1
  /\ reconnect' = IF retry /\ wanted THEN "restart" ELSE "no"
  /\ UNCHANGED <<stateVars, pc, pending, batch, tpc, historyVars,
                 retry, wanted, clientAlive, connects, lost, hasty>>

\* Connector::restart() ...
Restart ==
  /\ reconnect = "restart"
  /\ state' = "kDisconnected" /\ retryDelayMs' = kInitRetryDelayMs /\ connect' = TRUE
  /\ reconnect' = "start"
  /\ UNCHANGED <<channel, timers, owners, loopVars, tpc, historyVars,
                 retry, wanted, connection, clientAlive, connects, closes, lost, hasty>>

\* ... and its startInLoop()
RestartInLoop ==
  /\ reconnect = "start"
  /\ StartInLoop(timers)
  /\ reconnect' = "no"
  /\ UNCHANGED <<connect, owners, loopVars, tpc, dangling,
                 retry, wanted, connection, clientAlive, connects, closes, lost, hasty>>

\* enableRetry()
EnableRetry ==
  /\ clientAlive /\ ~retry
  /\ retry' = TRUE
  /\ UNCHANGED <<connectorVars, wanted, connection, clientAlive, reconnect, connects, closes,
                 lost, hasty>>

\* ~TCPClient(), in a callback, in a functor or between two calls of loop():
\* with a connection, the close callback is exchanged and the connector goes
\* with the client; without, the connector is stopped and kept for a second.
Destroy ==
  /\ LoopFree /\ clientAlive /\ \A t \in Threads : tpc[t] = "idle"
  /\ clientAlive' = FALSE
  /\ connection' = "none"
  /\ IF connection # "none"
     THEN owners' = {} /\ UNCHANGED <<connect, pending>>
     ELSE /\ connect' = FALSE /\ pending' = Append(pending, "stopInLoop")
          /\ owners' = {"timer"}
  /\ ready' = ready \ {"closed"}
  /\ hasty' = (connection = "new")
  /\ UNCHANGED <<state, channel, retryDelayMs, timers, pc, batch, tpc, historyVars,
                 retry, wanted, reconnect, connects, closes, lost>>

\* The second is over. The functors queued before it have long been run.
OwnerTimer ==
  /\ LoopFree /\ pc = "poll" /\ pending = <<>> /\ owners = {"timer"}
  /\ owners' = {}
  /\ UNCHANGED <<connect, state, channel, retryDelayMs, timers, loopVars, tpc, historyVars,
                 clientVars>>

-----------------------------------------------------------------------------
(* Calls of the threads. disconnect() shuts the connection down, whose     *)
(* close is RemoveConnection.                                              *)

CallConnect(t) ==
  /\ clientAlive /\ tpc[t] = "idle" /\ connects < MaxConnects
  /\ wanted' = TRUE
  /\ connects' = connects + 1
  /\ tpc' = [tpc EXCEPT ![t] = "start"]
  /\ UNCHANGED <<stateVars, loopVars, historyVars, retry, connection, clientAlive, reconnect,
                 closes, lost, hasty>>

CallDisconnect(t) ==
  /\ clientAlive /\ tpc[t] = "idle" /\ wanted
  /\ wanted' = FALSE
  /\ UNCHANGED <<connectorVars, retry, connection, clientAlive, reconnect, connects, closes,
                 lost, hasty>>

\* Bound: a thread does not stop a client that is stopped already.
CallStop(t) ==
  /\ clientAlive /\ tpc[t] = "idle" /\ (wanted \/ connect)
  /\ wanted' = FALSE
  /\ tpc' = [tpc EXCEPT ![t] = "stop"]
  /\ UNCHANGED <<stateVars, loopVars, historyVars, retry, connection, clientAlive, reconnect,
                 connects, closes, lost, hasty>>

ConnectorCall(t) == (Start(t) \/ Stop(t) \/ Push(t)) /\ UNCHANGED clientVars

-----------------------------------------------------------------------------
LoopStep == NewConnection \/ ConnectorStep \/ PollLoop \/ Restart \/ RestartInLoop

Next ==
  \/ LoopStep \/ RemoveConnection \/ EnableRetry \/ Destroy \/ OwnerTimer
  \/ \E t \in Threads :
       ConnectorCall(t) \/ CallConnect(t) \/ CallDisconnect(t) \/ CallStop(t)

Spec == Init /\ [][Next]_vars

\* The loop thread and a thread inside a call go on, and armed timers expire
\* in the end: poll() is called again and again, so that one of the polls
\* comes after the expiry. Nothing is assumed of the network here: an attempt
\* may hang for ever.
Fairness ==
  /\ WF_vars(LoopStep) /\ \A t \in Threads : WF_vars(ConnectorCall(t))
  /\ SF_vars(PollLoop /\ "timer" \in ready')

FairSpec == Init /\ [][Next]_vars /\ Fairness

-----------------------------------------------------------------------------
Queued(f) == f \in Range(pending) \cup Range(batch)
Count(b) == IF b THEN 1 ELSE 0

\* The variables have their types, and the delay of the retries stays
\* between its bounds (Connector.cc:185).
TypeOK ==
  /\ connect \in BOOLEAN /\ state \in {"kDisconnected", "kConnecting", "kConnected"}
  /\ channel \in {"none", "watching", "removed"}
  /\ retryDelayMs \in kInitRetryDelayMs .. kMaxRetryDelayMs
  /\ timers \in Nat /\ owners \in SUBSET {"client", "timer"}
  /\ pc \in {"poll", "event", "run"} /\ ready \in SUBSET {"attempt", "timer", "closed"}
  /\ pending \in Seq({"startInLoop", "stopInLoop", "resetChannel"})
  /\ batch \in Seq({"startInLoop", "stopInLoop", "resetChannel"})
  /\ tpc \in [Threads -> {"idle", "start", "stop", "pushStart", "pushStop"}]
  /\ gaveUp \in BOOLEAN /\ failed \in BOOLEAN
  /\ dangling \in SUBSET {"startInLoop", "stopInLoop", "resetChannel"}
  /\ retry \in BOOLEAN /\ wanted \in BOOLEAN /\ connection \in {"none", "new", "up"}
  /\ clientAlive \in BOOLEAN /\ reconnect \in {"no", "restart", "start"}
  /\ connects \in 0 .. MaxConnects /\ closes \in 0 .. MaxCloses
  /\ lost \in BOOLEAN /\ hasty \in BOOLEAN

\* However stop(), the retries, a reconnect and the destructor interleave,
\* the client that is asked once to connect is at any time about to connect,
\* connecting, waiting for the retry timer or connected: one of these only
\* (Connector.cc:113-189). Two at once would be two connections.
OneAttempt ==
  Count(channel = "watching") + timers + Count(connection # "none")
  + Count(reconnect # "no") + Count(Queued("startInLoop"))
  + Count(\E t \in Threads : tpc[t] \in {"start", "pushStart"}) <= 1

\* Of a client that is asked once to connect, startInLoop() finds
\* kDisconnected (Connector.cc:40), connecting() finds that the previous
\* channel is gone (Connector.cc:115), and resetChannel() never deletes a
\* channel that is in the loop (Channel's destructor). It rests on the delay
\* of the retries: their timer expires after resetChannel() has run.
AssertsHold == ~failed

\* Of a client that is asked once to connect and destroyed anywhere in the
\* loop thread, no retry timer, event or queued start reaches a destroyed
\* connector or client: no channel in the loop outlives its connector, a dead
\* client gets no newConnection(), and of the functors that bind this (the
\* FIXMEs at Connector.cc:35, 51, 133) a stopInLoop() can come too late, and
\* a resetChannel() if the client died in the iteration that connected it.
NothingCallsTheDead ==
  /\ ~lost
  /\ ~Alive => channel = "none" \/ (hasty /\ channel = "removed")
  /\ dangling \subseteq {"stopInLoop"} \cup (IF hasty THEN {"resetChannel"} ELSE {})

\* What ~Connector() asserts (Connector.cc:29): the connector is destroyed
\* without a channel.
DestroyedWithoutChannel == ~Alive => channel = "none"

\* After stop() the attempt ends, whatever the network does: its channel is
\* taken out of the loop and deleted and no timer is left, unless somebody
\* asked to connect again (Connector.cc:48-62) or the client was destroyed
\* before resetChannel() ran.
StopStops ==
  ~connect ~>
    (connect \/ hasty \/ (channel = "none" /\ timers = 0 /\ ~Queued("startInLoop")))

\* The network is kind: of endlessly many calls of connect(2) some get under
\* way, are answered, and with success.
Reachable ==
  /\ SF_vars(ConnectorStep /\ channel # "watching" /\ channel' = "watching")
  /\ SF_vars(PollLoop /\ "attempt" \in ready')
  /\ SF_vars(NewConnection)

\* Who asks to connect to a server that can be reached, with connect() or by
\* closing a connection with retries enabled, is connected in the end, unless
\* stop() or the destructor intervenes or connect(2) fails for good
\* (Connector.cc:84-101).
EventuallyConnected ==
  Reachable =>
    ((reconnect = "start" \/ \E t \in Threads : tpc[t] = "pushStart")
       ~> (connection # "none" \/ ~connect \/ gaveUp \/ ~clientAlive))
=============================================================================
