----------------------------- MODULE TCPServer ------------------------------
(***************************************************************************)
(* polaris/src/TCPServer.cc with its Acceptor and EventLoopThreadPool: the *)
(* base loop accepts clients, also when the process has no descriptors     *)
(* left, and deals the connections out to the I/O loops; a connection that *)
(* its I/O loop closes goes through the base loop and back to be           *)
(* destroyed; at the end the server meets whatever is under way.           *)
(*                                                                         *)
(* A loop here is a FIFO queue of functors, which is what EventLoop is     *)
(* shown to implement (Executor). A connection is reduced to its life; its *)
(* traffic is the subject of TCPConnection.                                *)
(***************************************************************************)
EXTENDS Naturals, SequencesExt

CONSTANTS Clients,      \* the clients that may connect
          MaxThreads,   \* bound: threads of the pool
          Limit,        \* descriptors the process may have for connections,
                        \* for idleFd_ and for its other threads
          MaxTaken      \* bound: descriptors other threads have at a time

ASSUME ServerAssumption ==
  /\ IsFiniteSet(Clients) /\ MaxThreads \in Nat /\ MaxTaken \in Nat
  /\ Limit \in Nat /\ Limit >= 1 /\ MaxTaken < Limit

VARIABLES
  server,        \* "up"; "joining", in the destructor; "gone"
  started,       \* started_, of the server, of the pool, and listenning_
  numThreads,    \* numThreads_; once started the size of loops_
  next,          \* next_
  connections,   \* connections_
  client,        \* clients: "away", in the "backlog", "served" or "refused"
  state,         \* of a client's connection: "none", state_ while it lives,
                 \* "removed" after connectDestroyed(), "deleted"
  ioLoop,        \* the connection's loop: 0 is the base loop
  queue,         \* functors of each loop
  idle,          \* idleFd_ is open
  emfile,        \* the step of handleRead() on EMFILE, or "no"
  free, taken,   \* descriptors: unused, in use by other threads
  joined,        \* loops 1..joined have ended
  stolen,        \* history: another thread got the descriptor of idleFd_
  failed,        \* history: an assert failed
  orphaned,      \* history: connections whose connectDestroyed() was dropped
  dangling       \* history: a functor ran on the destroyed server

poolVars == <<started, numThreads, next, joined>>
connVars == <<connections, client, state, ioLoop, queue>>
fdVars == <<idle, emfile, free, taken, stolen>>
historyVars == <<failed, orphaned, dangling>>
vars == <<server, poolVars, connVars, fdVars, historyVars>>

\* The base loop and those the pool may have.
Loops == 0 .. MaxThreads
Functor == {"connectEstablished", "removeConnectionInLoop", "connectDestroyed"} \X Clients

Init ==
  /\ server = "up" /\ started = FALSE /\ numThreads = 0 /\ next = 0 /\ joined = 0
  /\ connections = {} /\ client = [c \in Clients |-> "away"]
  /\ state = [c \in Clients |-> "none"] /\ ioLoop = [c \in Clients |-> 0]
  /\ queue = [l \in Loops |-> <<>>]
  /\ idle = TRUE /\ emfile = "no" /\ free = Limit - 1 /\ taken = 0 /\ stolen = FALSE
  /\ failed = FALSE /\ orphaned = {} /\ dangling = FALSE

\* The base loop's thread is not inside handleRead() or the destructor.
BaseFree == emfile = "no" /\ server # "joining"

Pending(q) == UNION {{f[2] : f \in Range(q[l])} : l \in Loops}

\* Connections nobody refers to any more are deleted, which closes their
\* sockets; ~TCPConnection() asserts that they were destroyed.
Settle(st, fds) ==
  LET dying == {c \in Clients : /\ st[c] \notin {"none", "deleted"}
                                /\ c \notin connections' /\ c \notin Pending(queue')}
  IN /\ state' = [c \in Clients |-> IF c \in dying THEN "deleted" ELSE st[c]]
     /\ free' = fds + Cardinality(dying)
     /\ orphaned' = orphaned \cup {c \in dying : st[c] # "removed"}

-----------------------------------------------------------------------------
(* The server and its pool.                                                *)

SetThreadNum(n) ==
  /\ ~started /\ server = "up" /\ n # numThreads
  /\ numThreads' = n
  /\ UNCHANGED <<server, started, next, joined, connVars, fdVars, historyVars>>

\* EventLoopThreadPool::start(): loops 1 .. numThreads run, each in its thread
StartPool == started' = TRUE

\* start(), in the base loop's thread: the pool, and listen()
Start ==
  /\ ~started /\ server = "up"
  /\ StartPool
  /\ UNCHANGED <<server, numThreads, next, joined, connVars, fdVars, historyVars>>

\* getNextLoop()
Wrap == IF next + 1 >= numThreads THEN 0 ELSE next + 1
GetNextLoop == IF numThreads = 0 THEN 0 ELSE next + 1

\* newConnection(): runInLoop() in the base loop is a call
NewConnection(c) ==
  LET l == GetNextLoop
  IN /\ next' = IF numThreads = 0 THEN next ELSE Wrap
     /\ connections' = connections \cup {c}
     /\ ioLoop' = [ioLoop EXCEPT ![c] = l]
     /\ IF l = 0
        THEN state' = [state EXCEPT ![c] = "kConnected"] /\ UNCHANGED queue
        ELSE /\ state' = [state EXCEPT ![c] = "kConnecting"]
             /\ queue' = [queue EXCEPT ![l] = Append(@, <<"connectEstablished", c>>)]

\* removeConnectionInLoop(): assert(n == 1)
RemoveWithoutDestroying(c) ==
  /\ connections' = connections \ {c}
  /\ failed' = (failed \/ c \notin connections)
  /\ queue' = [queue EXCEPT ![0] = Tail(@)]
RemoveConnectionInLoop(c) ==
  /\ connections' = connections \ {c}
  /\ failed' = (failed \/ c \notin connections)
  /\ queue' = [queue EXCEPT ![0] = Tail(@),
                            ![ioLoop[c]] = Append(@, <<"connectDestroyed", c>>)]

-----------------------------------------------------------------------------
(* The acceptor: handleRead(), by the base loop.                           *)

Accept(c) ==
  /\ server = "up" /\ started /\ BaseFree /\ client[c] = "backlog" /\ free > 0
  /\ client' = [client EXCEPT ![c] = "served"]
  /\ free' = free - 1
  /\ NewConnection(c)
  /\ UNCHANGED <<server, started, numThreads, joined, idle, emfile, taken, stolen, historyVars>>

\* EMFILE: idleFd_ is closed ...
EmfileIgnored == FALSE /\ UNCHANGED vars
Emfile ==
  /\ server = "up" /\ started /\ BaseFree /\ free = 0
  /\ \E c \in Clients : client[c] = "backlog"
  /\ free' = IF idle THEN free + 1 ELSE free
  /\ idle' = FALSE
  /\ emfile' = "accept"
  /\ UNCHANGED <<server, poolVars, connVars, taken, stolen, historyVars>>

\* ... a client is accepted in its place, unless another thread was faster ...
EmfileAccept ==
  /\ emfile = "accept"
  /\ \/ /\ free > 0
        /\ \E c \in Clients : /\ client[c] = "backlog"
                              /\ client' = [client EXCEPT ![c] = "refused"]
        /\ free' = free - 1 /\ emfile' = "close"
        /\ UNCHANGED stolen
     \/ /\ free = 0
        /\ emfile' = "open" /\ stolen' = TRUE
        /\ UNCHANGED <<client, free>>
  /\ UNCHANGED <<server, poolVars, connections, state, ioLoop, queue, idle, taken, historyVars>>

\* ... and closed again ...
EmfileLeak ==
  /\ emfile = "close"
  /\ emfile' = "open"
  /\ UNCHANGED <<server, poolVars, connVars, idle, free, taken, stolen, historyVars>>
EmfileClose ==
  /\ emfile = "close"
  /\ emfile' = "open" /\ free' = free + 1
  /\ UNCHANGED <<server, poolVars, connVars, idle, taken, stolen, historyVars>>

\* ... and idleFd_ opened, if there still is a descriptor.
EmfileOpen ==
  /\ emfile = "open"
  /\ emfile' = "no"
  /\ IF free > 0 THEN idle' = TRUE /\ free' = free - 1 /\ UNCHANGED stolen
                 ELSE stolen' = TRUE /\ UNCHANGED <<idle, free>>
  /\ UNCHANGED <<server, poolVars, connVars, taken, historyVars>>

-----------------------------------------------------------------------------
(* The loops run their functors and close connections.                     *)

Runs(l) ==
  \/ l = 0 /\ BaseFree
  \/ started /\ l \in joined + 1 .. numThreads

ConnectEstablished(l, c) ==
  /\ queue' = [queue EXCEPT ![l] = Tail(@)]
  /\ failed' = (failed \/ state[c] # "kConnecting")
  /\ UNCHANGED <<connections, dangling>>
  /\ Settle([state EXCEPT ![c] = "kConnected"], free)

\* connectDestroyed(): Channel::remove() of a channel that is in the loop
ConnectDestroyed(l, c) ==
  /\ queue' = [queue EXCEPT ![l] = Tail(@)]
  /\ failed' = (failed \/ state[c] \notin {"kConnected", "kDisconnected"})
  /\ UNCHANGED <<connections, dangling>>
  /\ Settle([state EXCEPT ![c] = "removed"], free)

\* a removeConnectionInLoop() binds the server's this
RemoveFunctor(c) ==
  \/ /\ server = "up"
     /\ RemoveConnectionInLoop(c)
     /\ Settle(state, free)
     /\ UNCHANGED dangling
  \/ /\ server = "gone"
     /\ dangling' = TRUE
     /\ queue' = [queue EXCEPT ![0] = Tail(@)]
     /\ UNCHANGED <<connections, failed>>
     /\ Settle(state, free)

RunFunctor(l) ==
  /\ Runs(l) /\ queue[l] # <<>>
  /\ LET f == Head(queue[l])
     IN \/ f[1] = "connectEstablished" /\ ConnectEstablished(l, f[2])
        \/ f[1] = "connectDestroyed" /\ ConnectDestroyed(l, f[2])
        \/ f[1] = "removeConnectionInLoop" /\ RemoveFunctor(f[2])
  /\ UNCHANGED <<server, poolVars, client, ioLoop, idle, emfile, taken, stolen>>

\* handleClose() of an established connection and, as its close callback,
\* removeConnection(), which in the base loop is a call
HandleCloseUnnoticed(c) ==
  /\ Runs(ioLoop[c]) /\ state[c] = "kConnected"
  /\ state' = [state EXCEPT ![c] = "kDisconnected"]
  /\ UNCHANGED <<server, poolVars, connections, client, ioLoop, queue, fdVars, historyVars>>
HandleCloseAgain(c) ==
  /\ Runs(ioLoop[c]) /\ state[c] = "kConnected" /\ ioLoop[c] # 0
  /\ queue' = [queue EXCEPT ![0] = Append(@, <<"removeConnectionInLoop", c>>)]
  /\ UNCHANGED <<server, poolVars, connections, client, state, ioLoop, fdVars, historyVars>>
HandleClose(c) ==
  /\ Runs(ioLoop[c]) /\ state[c] = "kConnected"
  /\ state' = [state EXCEPT ![c] = "kDisconnected"]
  /\ IF ioLoop[c] # 0
     THEN /\ queue' = [queue EXCEPT ![0] = Append(@, <<"removeConnectionInLoop", c>>)]
          /\ UNCHANGED <<connections, failed>>
     ELSE /\ connections' = connections \ {c}
          /\ failed' = (failed \/ c \notin connections)
          /\ queue' = [queue EXCEPT ![0] = Append(@, <<"connectDestroyed", c>>)]
  /\ UNCHANGED <<server, poolVars, client, ioLoop, fdVars, orphaned, dangling>>

-----------------------------------------------------------------------------
(* ~TCPServer(), by the base loop's thread.                                *)

\* The acceptor closes its socket, with the clients in its backlog, and
\* idleFd_.
CloseAcceptor(fds) ==
  /\ client' = [c \in Clients |-> IF client[c] = "backlog" THEN "refused" ELSE client[c]]
  /\ idle' = FALSE
  /\ Settle([c \in Clients |-> IF ioLoop[c] = 0 /\ c \in connections THEN "removed" ELSE state[c]],
            IF idle THEN fds + 1 ELSE fds)

\* Every connection still in connections_ is destroyed in its loop. Without
\* threads the loop is the base loop and all is done at once.
Destroy ==
  /\ server = "up" /\ BaseFree
  /\ connections' = {}
  /\ queue' = [l \in Loops |->
       IF l = 0 THEN queue[0]
       ELSE queue[l] \o SetToSeq({<<"connectDestroyed", c>> : c \in {d \in connections : ioLoop[d] = l}})]
  /\ IF started /\ numThreads > 0
     THEN /\ server' = "joining"
          /\ UNCHANGED <<client, state, idle, free, orphaned>>
     ELSE /\ server' = "gone"
          /\ CloseAcceptor(free)
  /\ UNCHANGED <<poolVars, ioLoop, emfile, taken, stolen, failed, dangling>>

\* ~EventLoopThreadPool(): quit() and join(), thread by thread. A loop that
\* sees quit_ drops the functors it has not run.
Join(l) ==
  /\ server = "joining" /\ l = joined + 1
  /\ joined' = l
  /\ queue' = [queue EXCEPT ![l] = <<>>]
  /\ UNCHANGED connections
  /\ IF l = numThreads
     THEN /\ server' = "gone"
          /\ CloseAcceptor(free)
     ELSE /\ UNCHANGED <<server, client, idle>>
          /\ Settle(state, free)
  /\ UNCHANGED <<started, numThreads, next, ioLoop, emfile, taken, stolen, failed, dangling>>

-----------------------------------------------------------------------------
(* The clients, and the other threads of the process.                      *)

Connect(c) ==
  /\ started /\ server = "up" /\ client[c] = "away"
  /\ client' = [client EXCEPT ![c] = "backlog"]
  /\ UNCHANGED <<server, poolVars, connections, state, ioLoop, queue, fdVars, historyVars>>

TakeDescriptor ==
  /\ free > 0 /\ taken < MaxTaken
  /\ free' = free - 1 /\ taken' = taken + 1
  /\ UNCHANGED <<server, poolVars, connVars, idle, emfile, stolen, historyVars>>

ReturnDescriptor ==
  /\ taken > 0
  /\ free' = free + 1 /\ taken' = taken - 1
  /\ UNCHANGED <<server, poolVars, connVars, idle, emfile, stolen, historyVars>>

-----------------------------------------------------------------------------
HandleRead == Emfile \/ EmfileAccept \/ EmfileClose \/ EmfileOpen \/ \E c \in Clients : Accept(c)

Next ==
  \/ \E n \in 0 .. MaxThreads : SetThreadNum(n)
  \/ Start \/ HandleRead \/ Destroy
  \/ \E l \in Loops : RunFunctor(l) \/ Join(l)
  \/ \E c \in Clients : Connect(c) \/ HandleClose(c)
  \/ TakeDescriptor \/ ReturnDescriptor

Spec == Init /\ [][Next]_vars

\* Every loop goes on: it handles the events of the acceptor and, before it
\* polls again, runs its functors, so that a base loop that is in and out of
\* handleRead() gets to them (hence strong fairness). Nothing is assumed of
\* clients, peers or other threads.
Fairness == WF_vars(HandleRead) /\ \A l \in Loops : SF_vars(RunFunctor(l))

FairSpec == Spec /\ Fairness

-----------------------------------------------------------------------------
\* The variables have their types; next_ indexes loops_, and no descriptor is
\* counted twice.
TypeOK ==
  /\ server \in {"up", "joining", "gone"} /\ started \in BOOLEAN
  /\ numThreads \in 0 .. MaxThreads /\ joined \in 0 .. numThreads
  /\ next = 0 \/ next \in 0 .. numThreads - 1
  /\ connections \in SUBSET Clients
  /\ client \in [Clients -> {"away", "backlog", "served", "refused"}]
  /\ state \in [Clients -> {"none", "kConnecting", "kConnected", "kDisconnected",
                            "removed", "deleted"}]
  /\ ioLoop \in [Clients -> Loops] /\ queue \in [Loops -> Seq(Functor)]
  /\ idle \in BOOLEAN /\ emfile \in {"no", "accept", "close", "open"}
  /\ free \in 0 .. Limit /\ taken \in 0 .. MaxTaken /\ stolen \in BOOLEAN
  /\ failed \in BOOLEAN /\ orphaned \in SUBSET Clients /\ dangling \in BOOLEAN

\* A connection is established once, erased from connections_ once (the
\* assert at TCPServer.cc:96) and its channel removed once, in this order,
\* through three hops between two loops and with the destructor at any time.
OnceInOrder == ~failed

\* No descriptor leaks: those of connections that live, idleFd_, one accepted
\* in its place, those of other threads and the unused ones are all there
\* are (Acceptor.cc:70-77 and the destruction of connections).
DescriptorsAccounted ==
  free + taken + (IF idle THEN 1 ELSE 0) + (IF emfile = "close" THEN 1 ELSE 0)
    + Cardinality({c \in Clients : state[c] \notin {"none", "deleted"}}) = Limit

\* While the server is up nothing is destroyed behind its back: a connection
\* that lives is in connections_ or on its way to connectDestroyed(), and it
\* is dropped without connectDestroyed() only by the end of its loop.
HeldWhileUp ==
  server = "up" =>
    /\ orphaned = {} /\ ~dangling
    /\ \A c \in Clients : state[c] \in {"kConnecting", "kConnected"} => c \in connections

\* A client that waits is accepted or turned away, also when the process has
\* no descriptors left, unless the server ends or another thread snatched the
\* descriptor of idleFd_ (Acceptor.cc:73-76).
ClientsServed ==
  \A c \in Clients : client[c] = "backlog" ~> (client[c] # "backlog" \/ server # "up" \/ stolen)

\* A closed connection is deleted and its descriptor given back, unless the
\* server ends before (TCPServer.cc:85-99).
ClosedIsDeleted ==
  \A c \in Clients : state[c] = "kDisconnected" ~> (state[c] = "deleted" \/ server # "up")
=============================================================================
