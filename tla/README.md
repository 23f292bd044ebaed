# A TLA+ model of Lute

Lute is a C++ network library (`polaris`: one event loop per thread, timers, TCP
connections, a server, a client) with an HTTP server on top of it
(`app/http`). This directory holds TLA+ modules that model the library's
control, TLC configurations that check them on small instances, and TLAPS
proofs of all the safety properties of the passing runs for every size of the
instance. `PROJECT.json` maps every definition to the lines it models and lists
runs, mutants, hazards, findings and theorems.

Run a check with `tlc -config MCEventLoop.cfg MCEventLoop`, the proofs with
`tlapm EventLoopProofs.tla` (each `*Proofs` module by itself; one to six minutes).

## 1. The system

Everything runs in event loops. A thread has at most one `EventLoop`; the loop
polls, calls the handlers of the active `Channel`s, then runs the functors that
other threads, or its own handlers, queued. All other classes keep their
state in one loop's thread and reach it from elsewhere by queueing functors.

| Component | State | Operations | Talks to |
|---|---|---|---|
| EventLoop | `looping_`, `quit_`, `pendingFunctors_`, `callingPendingFunctors_`, eventfd | loop, quit, runInLoop, queueInLoop, wakeup, doPendingFunctors | every class below, any thread |
| EventLoopThread | `loop_`, the thread, mutex and condition | startLoop, threadFunc, destructor | EventLoop |
| EventLoopThreadPool | `loops_`, `next_` | start, getNextLoop, getLoopForHash, destructor | EventLoopThread |
| TimerQueue, Timer, TimerId | `timers_`, `activeTimers_`, `cancelingTimers_`, timerfd, Timer objects | addTimer, cancel, handleRead, getExpired, reset, insert | EventLoop |
| Channel, EPollPoller | `events_`, `revents_`, `index_`, `addedToLoop_`, `tied_` | enable*, disable*, remove, handleEvent; poll, updateChannel, removeChannel | EventLoop, owners of channels |
| TCPConnection | `state_`, `reading_`, output and input buffers, channel | send, shutdown, forceClose, forceCloseWithDelay, startRead, stopRead, connectEstablished, connectDestroyed, handleRead/Write/Close/Error | its I/O loop, TCPServer or TCPClient, users' threads |
| Acceptor | listening socket, `idleFd_` | listen, handleRead, destructor | base loop, TCPServer |
| TCPServer | `started_`, `nextConnId_`, `connections_` | setThreadNum, start, newConnection, removeConnection(InLoop), destructor | Acceptor, pool, connections |
| Connector | `connect_`, `state_`, `channel_`, `retryDelayMs_` | start, stop, restart, handleWrite, handleError, retry | loop, timers, TCPClient |
| TCPClient | `retry_`, `connect_`, `connection_` | connect, disconnect, stop, newConnection, removeConnection, destructor | Connector, connection |
| Buffer | bytes, reader and writer index | append, retrieve, prepend, unwrite, makeSpace, readFd, integers | TCPConnection, HTTP, CDN |
| HttpContext, HttpRequest | parser state, the request so far | parseRequest, reset | Buffer, HttpServer |
| HttpServer, HttpResponse | a context per connection | onConnection, onMessage, onRequest | TCPServer, Application |
| Application | `realFile_`, `fileStat_`, the connections to MySQL and Redis | constructor, onRequest, getHtml | HttpServer, database, cache, files |
| CDN | a file | onMessage | TCPServer, Buffer |
| Sockets, InetAddress | none | wrappers of system calls | all |

What is hard about it: threads queue and quit while the loop goes to sleep;
functors bind raw `this` pointers or `shared_ptr`s, so that what they find when
they run depends on the order of several queues; a connection travels between
two loops to be destroyed; timers are raw pointers shared by two sets, a batch
and queued functors, and their addresses are reused; partial writes, half
closed sockets and hang-ups come in any order; a request comes in pieces cut
anywhere and a connection that is shutting down still reads; callbacks of several
I/O threads share one application object, and a registration is two writes to
two stores between which the process may end; retries race with stop; the
process runs out of descriptors while other threads open and close some;
destructors meet all of this half done. The `hazards` of `PROJECT.json` give
each with its line.

## 2. Modules

| Module | Models | Notes |
|---|---|---|
| `Executor` | what queueInLoop promises | abstract: a FIFO of functors, each run once |
| `EventLoop` | EventLoop.cc, the wakeup part of EPollPoller | any number of threads |
| `EventLoopThread` | EventLoopThread.cc | EXTENDS EventLoop: composes owner, thread function and loop |
| `TimerQueue` | TimerQueue.cc, Timer, TimerId | functors in the order EventLoop runs them |
| `TCPConnection` | TCPConnection.cc, Channel.cc, updateChannel/removeChannel, the server's half of a connection's life | one connection, its I/O loop, the base loop, user threads, the peer |
| `TCPServer` | TCPServer.cc, Acceptor.cc, EventLoopThreadPool.cc | several connections and loops; a loop is an Executor |
| `Connector` | Connector.cc | the part of the client that has no state of TCPClient |
| `TCPClient` | TCPClient.cc | EXTENDS Connector |
| `ByteQueue` | what Buffer promises | abstract: a string of bytes used at both ends |
| `Buffer` | Buffer.h, Buffer.cc, the byte order of Sockets.h | operators only |
| `BufferUser` | any caller of Buffer | EXTENDS Buffer; refines ByteQueue |
| `CDN` | CDN/src/main.cc | EXTENDS Buffer |
| `HttpContext` | HttpContext.cc, HttpRequest.h | operators only, over Buffer |
| `HttpServer` | HttpServer.cc, HttpResponse.cc, clients and network | EXTENDS HttpContext |
| `Application` | app.cc, with MySQL, Redis and the files | EXTENDS HttpServer |
| `EventLoopProofs`, `TimerQueueProofs`, `TCPConnectionProofs`, `TCPServerProofs`, `TCPClientProofs`, `BufferProofs`, `ApplicationProofs`, `AnswersProofs` | | the theorems, see section 4; `EventLoopProofs` is about EventLoop and EventLoopThread, `BufferProofs` about BufferUser and CDN, `ApplicationProofs` about HttpServer and Application, `AnswersProofs` about the parser and what it makes of a client's bytes |
| `MC*` | | instances for TLC; `MCEventLoop` has a loop by itself and one inside an EventLoopThread, `MCPrograms` the three users of Buffer, one chosen at the start |

Names are the source's (without the trailing underscore). An action is a handler
or, where another thread can come between, one step of it. Next to a definition
stands, where a run needs one, a variant with a plausible bug (`SwapByCopy`
next to `SwapPendingFunctors`); it is used by nothing but `mutants`, which
names the property that catches it.

**EventLoop.** `pc` is the place of the loop thread, `tpc[t]` that of another
thread inside its call; `pendingFunctors`, `functors` (the swapped batch),
`wakeupFd` (the eventfd's count with its limit), `active` are the code's. A
thread's `queueInLoop()` is two steps (push under the mutex; wakeup), `quit()`
three (read `looping_`; set `quit_`; wakeup), and `loop()` sets `looping_` and
`quit_` in separate steps, because another thread can see each. Calls of the
loop thread itself, from handlers, from functors and outside `loop()`, are
actions of their own (`OwnQueueInLoop`, `OwnRunInLoop`, `OwnQuit`). Accesses to
`quit_` (atomic) and `looping_` (a plain `bool` that `quit()` reads from other
threads) are taken to be sequentially consistent.

**EventLoopThread** adds the owner (`startLoop()`, the destructor) and
`threadFunc()`, and restricts the loop's actions to the phases in which they
can happen; other threads do not call the loop there. `startLoop()` tests `loop_` under the mutex and waits on the condition
in one step; it tests again when `Publish` notifies it, or for no reason (`SpuriousWakeup`).

**TimerQueue.** Time is a counter in units of 100 microseconds, the least delay
`resetTimerfd()` asks for; it advances at any point. `heap` holds the Timer at
each address; `delete` frees the address for the next `new`. `handleRead()` is
split at every callback, in which the loop thread may add and cancel. A read
through a dangling pointer gives any sequence.

**TCPConnection.** The channel's `events`, `index`, `addedToLoop` and the
kernel's view of the socket are modelled, and `revents` is computed as epoll
does (hang-up and error whatever the interest). A message is `MsgLen` units of
its identity, so that partial writes and interleaved messages show.
`shared_ptr`s are counted by where they are (`inMap`, functors that own,
`holds` of threads, `batchHolds` for the event being handled): `Alive` says that
one is left; whatever runs otherwise is recorded in `dangling`. Input is reduced to
whether there is data, an end of file or an error; the content of buffers
belongs to Buffer.

**TCPServer.** A loop is the FIFO that `EventLoop` is proved to implement, with
the one way it loses functors: when it is ended. The clients' connections go
through `NewConnection`, `ConnectEstablished`, `HandleClose`,
`RemoveConnectionInLoop`, `ConnectDestroyed`; deletion, and with it the
descriptor, follows the last reference (`Settle`). `Acceptor::handleRead()` at
EMFILE is four steps between which other threads use descriptors. The
destructor is `Destroy`, then one `Join` per thread of the pool.
`getLoopForHash()` and `getAllLoops()` change nothing and have no caller.

**Connector and TCPClient.** The connector's channel is `"none"`, `"watching"`
or `"removed"` (out of the loop, to be deleted by the queued `resetChannel()`).
connect(2) gets under way, fails for now or fails for good (`StartInLoop`).
`ready` is what poll() returned, so that a socket, a timer or a connection made in
one iteration has its events in a later one. `removeConnection()` is split where
`stop()` of another thread can come between its test of `connect_` and
`restart()`. Two assumptions: a retry timer (500 ms or more) does not expire
before the `resetChannel()` queued with it has run, and the client is destroyed
in the loop thread with no call of another thread under way; the code itself calls
other threads "not 100% safe". In the loop thread `Destroy` can come anywhere: in a
callback, in a functor or between two iterations. `hasty` records that it came in
the iteration that made the connection, when the connector goes with its channel.

**Buffer, BufferUser, ByteQueue.** A buffer is a record of `data` (a function on
the indices below `size`), `reader` and `writer`, and an operation an operator,
index by index as in Buffer.h: `MakeSpace` moves or grows as the code does,
`ReadFd` fills the vector and appends what spilled onto the stack. `BufferUser`
calls them in any order within the preconditions the asserts state; the bytes
nobody may read are set to `Zero` after each call (`Forget`), which merges states that
differ in them only. Its variable `last` records argument or result of a call, so that the
refinement of `ByteQueue` compares what goes in and comes out. Integers are
converted to the memory of a little-endian host and reversed (`HostBytes`,
`HostToNetwork`); `ByteQueue` says most significant byte first.

**HttpContext, HttpServer.** A byte of an HTTP stream is CR, LF or a whole word (a
word of the request line, a header, a part of a body): the parser looks for CR LF
before it looks into a line, so that a cut inside a word is to it like one
before the word. `Iteration` is one pass of `parseRequest()`'s loop by state, and
`ParseRequest(t)` one step of thread `t`; what the code stores before it refuses
a line stays stored. A connection is what `TCPConnection` shows it to be:
`send()` is dropped unless `kConnected`, `shutdown()` leaves it `kDisconnecting`
and reading. `job[t]` is the callback a thread is in, with its local variables.
The client's plan says whether it waits for answers and whether the network cuts
its bytes; `PlanAssumption` says what makes the words of a request a request line, headers
and a body: none is CR or LF, a header has a field and a value, and the second word of a line
of three is a target. Nothing is assumed of the method, the version, the number of words, of headers or of
requests. The default build has no asserts (`CMAKE_BUILD_TYPE Release`), so the
model goes on where `setMethod()` asserts.

**Application.** A callback is split wherever it touches what other threads share:
asking Redis, INSERT, setHField, the write of `realFile_`, stat() into `fileStat_`,
and the test and read that follow. While another thread writes `realFile_`, a
reader or a second writer may also get a mixture of both (`Garbled`), which names no file.
MySQL and Redis are external: atomic calls, of which INSERT and setHField may
fail (whether a name can be inserted twice depends on a schema that is not
in the repository, so that it may succeed or fail); both outlive a `Crash`, after
which `Start` copies the table to Redis again. Paths are model values; which of them contain
".jpg" or "/login", as `find()` tells, are the constants `Jpgs` and `Logins`. `alone` in a response records that no other
callback overlapped, `failed` that its INSERT failed.

**CDN.** The integers are counted before the first is read; the file gets the
byte at the address of each.

## 3. Runs

Passing runs:

| Run | Bounds | Properties |
|---|---|---|
| `eventloop` | 2 threads and their loop, or an owner and its EventLoopThread; 3 functors, eventfd limit 2 | `NoLostWakeup`, `NoLostQuit`, `OnlyWakeupTouchesDeadLoop`, `ImplementsExecutor`; `FunctorsEventuallyRun`, `QuitStopsLoop`, `StartLoopTerminates`, `DestructorTerminates` |
| `timerqueue` | 1 thread, 2 addresses, 3 timers, delays 0 and 2, one-shot and repeating, 3 time units, 2 functors queued | `SetsAgree`, `PointersExact`, `ArmedForEarliest`, `CancelIsFinal`, `OnlyDueOrCancelledLeave` |
| `tcp_loop` | calls from the loop only; 2 messages of 2 units; the peer sends, closes, resets | `DestructorAsserts`, `NothingDangles`, `DestroyedOnce`; `ShutdownCompletes`, `ClosedIsDestroyed` |
| `tcp_stream` | a thread and the loop send; shutdown, forceClose, startRead, stopRead, the server's end | `StreamIntact`, `WatchesWhenPending`, `FinAfterData` |
| `tcpserver` | 3 clients, 0 to 2 I/O loops, 3 descriptors of which another thread takes 1 | `OnceInOrder`, `DescriptorsAccounted`, `HeldWhileUp`; `ClientsServed`, `ClosedIsDeleted` |
| `tcpclient` | 2 threads, 1 connect, 2 closes, delays 500, 1000, 1500 | `OneAttempt`, `AssertsHold`, `NothingCallsTheDead`; `StopStops`, `EventuallyConnected` |
| `programs` | a prefix of 2 and a content of 2 bytes, 4 readable; 5 bytes to the CDN; 2 clients on 2 I/O threads with 2 and 1 requests, 1 crash, 7 bytes on readFd()'s stack | `SpaceIsMade`, `ImplementsByteQueue`; `FileIndependentOfCuts`; `AnswersInOrder`, `ClosesWithItsAnswer`, `MethodIsClear`, `OwnPageWhenAlone`, `WelcomeIsEarned`, `RedisFollowsTable` |

The modules' `TypeOK` (`BufferTypeOK` of BufferUser) is no property of a run: it
says nothing the others do not, and is part of the inductive invariants of the proofs.

Why these bounds: two threads and three functors let a push fall before, into
and behind a swap while another thread is between push and wakeup, and a limit of
two makes the eventfd full. Three timers at two addresses reuse an address
while an old TimerId is still in use; two delays and two intervals put timers
before, at and after the clock, and a batch of two can cancel each other. Two
messages of two units are enough for a message cut short followed by another.
Three clients on two loops wrap the round robin; with three descriptors, one
of them `idleFd_`, the third client meets EMFILE. One connect with two closes
has a retry, a reconnect and a retry of the reconnect; three delays reach the
maximum of the backoff.

In `programs` the prefix and the vector are so small that prepending, moving,
growing and spilling onto the stack all happen within four bytes; bytes are bits
(`Base = 2`) and integers one or two of them wide, signed and not, which keeps carry and
sign. The clients' plans are pairs of requests: every pair of five well-formed
requests (with and without headers, HTTP/1.0 and 1.1, closing and not) and three
malformed ones, from a client that waits and whose bytes are cut anywhere, so that
CR LF, headers and the border between two requests are split in every way; pipelined
requests and bodies in pieces; and registrations, logins and files of two clients
on two threads whose callbacks overlap at every step, with a failing Redis and a crash
at every point. A second crash or a third client would repeat what two do: the
state that outlives a crash is one table and one hash.

Runs that end in a violation, each of what the repository says of itself:

* `eventloopthread_quit`: "quit() must be called after loop()!!!" (EventLoop.cc:122).
  `~EventLoopThread()` calls it as soon as `loop_` is set, which is before
  `loop()`; the request is refused and the join waits for ever.
* `timerqueue_sequence`: addTimer "must be thread safe" (TimerQueue.h:40). It
  reads `timer->sequence()` after it handed the timer to the loop, which may
  have run and deleted it.
* `tcp_stopread`: connectDestroyed "should be called only once"
  (TCPConnection.h:121). `updateChannel()` of a `kDeleted` channel always adds
  it to epoll, so that `disableAll()` after `stopRead()` puts a closed socket back
  and its hang-up closes the connection a second time.
* `tcp_send`: send is "NonBlocking, thread safe, atomic" (TCPConnection.cc:90).
  From another thread it binds the raw `this`, and `sendInLoop()` can run on a
  destroyed connection.
* `tcpclient_destroy`: `assert(!channel_)` in `~Connector()` (Connector.cc:29). A client
  destroyed by a callback of the iteration that made its connection lets the connector
  go while its channel is still there; the queued `resetChannel()` ("FIXME: unsafe",
  Connector.cc:133) then runs on a destroyed connector.

Met while modelling, and left out of the passing properties by an exception
that names the case:

* `quit()` of another thread between lines 92 and 93 of EventLoop.cc is
  overwritten by `quit_ = false` (`quitLost`).
* A refused `quit()` clears another thread's `quit_` (`QuitStopsLoop`).
* A functor the loop thread queues before `loop()` waits for the first event or
  the 10 s timeout (`early`).
* `cancel()` in the loop thread overtakes the queued `addTimerInLoop()` of the
  same timer (`overtaken`).
* `forceClose()` of another thread tests `state_` and sets it in two steps and
  can revive a closed connection (TCPConnection.cc:244).
* `~TCPServer()` with a connection in `kDisconnecting` leaves the state as it
  is, against the assert of `~TCPConnection()` (`DestructorAsserts` is checked
  without the server's end); its I/O loops may end before they ran
  `connectDestroyed()` (`orphaned`); a queued `removeConnectionInLoop()` runs on
  the destroyed server (`dangling`).
* Another thread can take the descriptor of `idleFd_` (`stolen`).
* `stop()` inside `removeConnection()` is undone by `restart()`; `stop()` and
  `connect()` again reach the asserts of `startInLoop()` or `connecting()`
  (`MaxConnects = 2`); a client destroyed in the iteration that made its
  connection leaves a `resetChannel()` behind (`hasty`; run `tcpclient_destroy`); errors such as
  EACCES end the attempts silently (`gaveUp`); after a close without retry the
  connector stays `kConnected`, so that `connect()` fails its assert.
* `makeSpace()` says in Chinese that `readerIndex_` points wrongly and is to be fixed
  (Buffer.h:405): `ImplementsByteQueue` and `SpaceIsMade` hold, the indices are right.
* `parseRequest()` takes whatever has arrived behind the blank line for the body,
  without Content-Length: a body that comes later is parsed as the next request
  line and answered with 400 (one CR LF in it is enough: `PlanAssumption` has none
  in a body, or `AnswersInOrder` would count an answer too many), one that comes in part is used as it is (a user ""
  with password "" is registered), and pipelined requests are swallowed as a body
  (`AnswersInOrder` says nothing after a request with a body).
* `addHeader()` lets a later header replace an earlier one of the same name, so that
  only the last `Connection` of a request counts (`AsksToClose`); a request of the run
  carries both "close" and "Keep-Alive".
* A refused request line stays in the buffer, with its method in the request: when
  more bytes arrive it is parsed again, and the assert of `setMethod()`
  (HttpRequest.h:39) fails. `MethodIsClear` is about open connections: a refused
  line always finds the connection shutting down afterwards. It was first stated
  as "unless a 400 was written", which the attempt to prove it showed to be wrong:
  a malformed line pipelined behind a request that closes is refused without a 400.
* After shutdown() requests that still arrive are executed, registrations
  included, and their answers dropped.
* Callbacks that overlap serve each other's page, or a file whose own mode would
  have refused it, through the shared `realFile_` and `fileStat_` (`alone`); after a failed
  INSERT the page of an earlier request is served (`failed`).
* The result of setHField() is ignored: a user whose write failed is welcomed
  but cannot log in until the next start (`unsaved`).
* `TCPServer::start()` is documented as thread safe but the pool aborts outside
  the base loop's thread.

### Fairness

Weak fairness stands for a scheduler that runs every thread that can run and
for callbacks that return. The poll timeout is never relied on: `eventloop`
assumes that poll() returns only when the eventfd is readable. Strong fairness is used
where a thing is possible in every iteration of a loop but not in between:
an armed timer that has expired is reported by some poll(), the base loop
runs its functors between two calls of `handleRead()`, a peer that reads makes
room in the socket. Nothing is assumed of users, clients and peers otherwise;
`EventuallyConnected` states its assumption about the network (`Reachable`) in
the property. `eventloop` is checked without deadlock: when the thread of an EventLoopThread
is joined there is nothing left to do. `programs` is a run of safety properties,
checked without deadlock because clients may have asked all they want; that no
request is left lying about is part of the invariant `AnswersInOrder`: a thread
that has nothing to do has answered everything it has read.

## 4. Proofs

Every `*Proofs` module proves its theorems for all values of the constants that
satisfy the module's assumptions: any number of threads, functors, timers,
clients, connections, messages and requests, and every bound of the runs. The
properties were checked by TLC on the instances of section 3 before they were
proved. The pattern is the same everywhere: an inductive invariant, one lemma per
action (or group of actions) that it is kept, and theorems that draw the properties from it.

**EventLoop** (`EventfdAssumption`: the limit of the eventfd is positive).
`TypeCorrect`; `WakeupNeverLost` (`NoLostWakeup`): the property speaks of `pc = "poll"`
only, while a push can come much earlier, so `WakeupInv` says that outside "handle" and
"swap", where the swap is still to come, a functor that is pending and not early has a
wakeup written or about to be, and that `callingPendingFunctors` is set while functors
run, which is why the loop thread wakes itself; the delicate step is `HandleRead`,
which clears the count before the swap. `QuitNeverLost` (`NoLostQuit`) is inductive
with the types. `ImplementationOfExecutor`: `EventLoop` refines `Executor` under
`queue <- functors \o pendingFunctors`, `done <- executed`; it needs `BatchInv` (the batch is
empty outside "run"), so that the swap is a stutter.

**EventLoopThread.** `RunsAnEventLoop`: `TSpec => Spec`, so that the theorems above
hold of the loop inside the thread (`ThreadNeverOversleeps`).
`DeadLoopOnlyWokenUp` (`OnlyWakeupTouchesDeadLoop`): `OwnerInv` follows the one quit request
from the owner to the loop's exit (`QuitCameThrough`) and says where the owner is while the
loop is being left (`Leaving`).

**TimerQueue.** `SequenceInv`: no TimerId, queued, kept or read from freed memory, is ahead
of the counter, so that a new timer at an old address has an id nobody has seen.
`OwnerInv` (`EntriesInv`, `QueueInv`, `PointersExact`): each entry carries the
expiration of its object and is the only one for its address. From it `SetsAlwaysAgree`
and `PointersAlwaysExact`. `AlwaysArmed` needs that `begin()` is the earliest
(`WellFoundedInduction`). `CancelAlwaysFinal`: `CancelInv` finds a cancelled timer
that still exists in the batch and in `cancelingTimers`, where reset() will look.
`LeavesOnlyDueOrCancelled` is an action property and follows from the same invariants.

**TCPConnection.** For every choice of calls and threads: `TypeCorrect`,
`StreamAlwaysIntact` (partial writes against the arithmetic of `Stream`),
`AlwaysWatchesWhenPending` and `FinAlwaysAfterData`, from `ClosedInv` (an erased connection never
returns to the map) and `Drained`, which holds until the connection is closed. Under the
hypothesis `LoopOnly` (no thread but the loop's calls the connection, the server outlives it, no callback
calls startRead() or stopRead()): `DestructorAssertsHold`, `NothingEverDangles`, `DestroyedAtMostOnce`,
from `QuietInv` (all that is queued owns the connection) and `PhaseInv` (which functors may be
queued, and what the channel is, in each phase of the life). Each part of the
hypothesis is needed: `tcp_send` and `tcp_stopread` are its counterexamples, and the server's end is the
case of the `kDisconnecting` connection in section 3. It is what `tcp_loop` checks, and how the
HTTP and CDN servers use their connections.

**TCPServer** (`ServerAssumption`: finitely many clients, and other threads leave a descriptor).
`AlwaysOnceInOrder`, `DescriptorsAlwaysAccounted`, `AlwaysHeldWhileUp`. `IndInv` says which functors may be queued
for a connection in which loop and in which state of its life, that none is
queued twice, that connectEstablished() precedes connectDestroyed(), and that while the
server is up whatever a connection waits for is queued; descriptors are counted by the
cardinality of the connections that live (`SettleEffect`).

**TCPClient**, under the hypothesis `OneCall` (connect() is called at most once: the bound of the run,
without which the asserts do fail, see section 3), for a client destroyed anywhere in its loop thread: `AlwaysOneAttempt`, `AssertsAlwaysHold`, `NothingEverCallsTheDead`. `AttemptInv` follows the
attempt through the calling thread, the queue, the channel, the retry timer, the connection and the
reconnect, of which each excludes the others; `ChannelInv` says where a channel's
resetChannel() is; `DeadInv` what is left of a connector without its client, and that a channel and its
`resetChannel()` are left only of a client destroyed in the iteration that connected it (`hasty`), which
`NothingCallsTheDead` names and `tcpclient_destroy` shows.

**Buffer and CDN.** Lemmas state what each operation does to the content
(`AppendEffect`, `PrependEffect`, `RetrieveEffect`, `UnwriteEffect`, `ReadFdEffect`, `EnsureEffect`); from them
`BufferTypeCorrect`, `SpaceIsAlwaysMade` and `BufferIsByteQueue`, the refinement of `ByteQueue` step by step, for
every prefix, size and stack buffer. `FileAlwaysIndependentOfCuts`: `CDNInv` says that the
file is that of the integers read so far and that buffer and iterations left make
up the rest of what has arrived. Two facts of arithmetic would need induction over the width and are
assumptions, which TLC evaluates on the instance: powers of `Base` are positive and every
memory of `w` bytes is that of an integer of the width (`MemoryAssumption`), and
`Base^0`, `Base^1` and `Base^2` are what they are (`CDNAssumption`).

**HTTP and Application** (`SiteAssumption`: the six pages of app/HTML are there and readable, none
of the callback's own paths contains ".jpg", of the site's paths only "/login" and "/loginFailed.html"
contain "/login", and the table has pairs of strings).
`CallSteps` sums up the thirteen branches of onRequest() in ten kinds of steps, `IterationEffect`
what an iteration of parseRequest() may do to the context. `AppInv` then has, per connection,
`ClosesWithItsAnswer` and `MethodIsClear`; for the two stores, that a form about to be copied to
Redis is in the table (`CacheInv`) with `RedisFollowsTable`; for the threads, that a request is
alone only while no other is in the callback (`AloneInv`), that the page chosen belongs to its path
and that a request that is alone finds `realFile` and `fileStat` as it left them (`PageInv`); and of the
answers written, `OwnPageWhenAlone` and `WelcomeIsEarned`. The five theorems are these properties.

**Answers** (`PlanAssumption`, section 2). `AnswersAlwaysInOrder` (`AnswersInOrder`) relates the
parser, which sees a buffer, to the client, which asked whole requests. The bytes a
connection still has before it, in the buffer and then in the network, are the end of the
encodings of the requests asked, one after the other: `Placed(start, s, rs)` says so index by index, with
`start[q]` the place of request `q`, at or below zero once its first bytes are gone. With the
places as a witness no induction over requests or headers is needed: asking appends one place, and
retrieving `n` bytes subtracts `n` from all. On this stand

* `Stream`, on an open connection: which requests must be gone in the parser's state for the answers
  written (`Position`: a parser in the headers or behind them is at a request beyond those answered, also when
  requests are pipelined), and, for a client that waits and had no body in an earlier request, that the
  parser is exactly in the last one and what context and job know of it (`Progress`: its method, path and
  version, the last `Connection` among the headers read, the answer decided on);
* `Staged`: which thread works on a connection in which state of the parser, and that a thread which has
  left a connection has left no whole line in its buffer, so that what rests unread is not a request;
* `Counted`: the answers written are those to the requests, no more than these, and with a client that
  waits at most one fewer;
* `ThreadInv` and `WireTypes`: a thread works for its own connections, and what the parser reads is a client's.

`LineBegins` and `HeaderBegins` show that the first CR LF in the buffer is that of the line or header the
parser expects, wherever the network cut, since no other word is CR or LF; `LineParsed`,
`HeaderParsed` and `BodyParsed` are the three kinds of iteration. Then there is one lemma per action, with `AppInv` of the
previous paragraph for `ClosesWithItsAnswer` (a refused line ends a connection, so that no later answer is
counted) and the kinds of steps of onRequest().

Left to TLC: everything under fairness (liveness: `FunctorsEventuallyRun`, `QuitStopsLoop`,
`StartLoopTerminates`, `DestructorTerminates`, `ShutdownCompletes`, `ClosedIsDestroyed`,
`ClientsServed`, `ClosedIsDeleted`, `StopStops`, `EventuallyConnected`), which the prover does not handle.

## 5. Not modelled

Of Sockets and InetAddress, address formatting and socket options (system calls
are modelled where they are made); logging; the submodules Base and DataBase
(threads, MySQL and Redis clients: not in the repository). Of EPollPoller, the
growth of the event list and the map of descriptors, which the handlers do not
depend on. Of Buffer, `findEOL()` and `internalCapacity()`, which change nothing. Of
TCPConnection, the input buffer: its content is in the HTTP and CDN modules. Of
Application, the text of SQL statements, regular expressions and responses, failures of
Redis other than of a write, and the length of `realFile_` (200 bytes, paths are
model values). `redisConn_` is one connection used by all threads; its calls are
taken to be atomic, since its class is not in the repository. `HttpServer::start()`
and the main programs only wire the components.
Reads and writes of plain `bool`s shared by threads (`Connector::connect_`,
`TCPClient::connect_`, both commented "atomic") are taken to be atomic.

## 6. Plan

1. Modelled: Executor, EventLoop, EventLoopThread, TimerQueue, TCPConnection,
   TCPServer with Acceptor and pool, Connector and TCPClient, Buffer, CDN, HTTP and
   Application.
2. Proved: every invariant and safety action property of the passing runs, and both
   refinements.
3. Next: `NothingDangles` and `DestructorAsserts` with calls of other threads other than
   send(), that is, with a weaker hypothesis than `LoopOnly`; `AlwaysOneAttempt` with several calls
   of connect() that do not overlap.
