----------------------------- MODULE EventLoop ------------------------------
(***************************************************************************)
(* polaris/src/EventLoop.cc: one loop thread that polls, handles the       *)
(* active channels and runs the functors other threads (or its own         *)
(* callbacks) queued; any thread may queue a functor or quit the loop.     *)
(*                                                                         *)
(* The loop thread's program counter pc is at                              *)
(*   "idle"      outside loop(): before it, or after it returned           *)
(*   "starting"  looping_ is true, quit_ = false (line 93) not yet done    *)
(*   "check"     while (!quit_)                                            *)
(*   "poll"      inside poller_->poll(10000 ms)                            *)
(*   "handle"    calling handleEvent() of the channels in active           *)
(*   "swap"      doPendingFunctors() before the swap                       *)
(*   "run"       running the batch functors; its head is being executed    *)
(*   "stopping"  the while ended, looping_ = false not yet done            *)
(* Between two such points the loop thread touches only state of its own,  *)
(* or commutes with what the other threads do.                             *)
(***************************************************************************)
EXTENDS Naturals, Sequences, Functions

CONSTANTS Threads,     \* the threads other than the loop's own
          Functors,    \* the callbacks; each is queued or run at most once
          MaxEventfd   \* largest count an eventfd holds (2^64-2 in Linux)

ASSUME EventfdAssumption == MaxEventfd \in Nat \ {0}

VARIABLES
  pc,                       \* where the loop thread is
  looping, quit,            \* looping_, quit_
  callingPendingFunctors,   \* callingPendingFunctors_
  pendingFunctors,          \* pendingFunctors_
  functors,                 \* the swapped-out batch: what is left to run
  wakeupFd,                 \* the eventfd's count
  active,                   \* activeChannels_ still to be handled
  tpc,                      \* where each other thread is in its call
  early,                    \* queued by the loop thread outside loop()
  executed                  \* history: the functors run so far, in order

loopVars == <<looping, quit>>
queueVars == <<callingPendingFunctors, pendingFunctors, functors, early, executed>>
pollVars == <<wakeupFd, active>>
vars == <<pc, loopVars, queueVars, pollVars, tpc>>

-----------------------------------------------------------------------------
\* The channels poll() can report: the eventfd's, and one that stands for
\* every socket and the timerfd.
Channels == {"wakeup", "io"}

Fresh(f) ==
  f \notin Range(pendingFunctors) \cup Range(functors) \cup Range(executed)

\* wakeup(): write 1 to the non-blocking eventfd. At its limit the write
\* fails with EAGAIN and leaves the count, still non-zero, as it was.
Wakeup(n) == IF n < MaxEventfd THEN n + 1 ELSE n

Init ==
  /\ pc = "idle"
  /\ looping = FALSE /\ quit = FALSE
  /\ callingPendingFunctors = FALSE
  /\ pendingFunctors = <<>> /\ functors = <<>> /\ early = {} /\ executed = <<>>
  /\ wakeupFd = 0 /\ active = {}
  /\ tpc = [t \in Threads |-> "idle"]

-----------------------------------------------------------------------------
(* loop(), step by step.                                                   *)

\* looping_ = true
Loop ==
  /\ pc = "idle"
  /\ looping' = TRUE
  /\ pc' = "starting"
  /\ UNCHANGED <<quit, queueVars, pollVars, tpc>>

\* quit_ = false, after looping_ was set
Start ==
  /\ pc = "starting"
  /\ quit' = FALSE
  /\ pc' = "check"
  /\ UNCHANGED <<looping, queueVars, pollVars, tpc>>

\* while (!quit_), activeChannels_.clear()
CheckIgnoringQuit ==
  /\ pc = "check"
  /\ active' = {}
  /\ pc' = "poll"
  /\ UNCHANGED <<loopVars, queueVars, wakeupFd, tpc>>
CheckExitsWhenIdle ==
  /\ pc = "check"
  /\ active' = {}
  /\ pc' = IF quit \/ pendingFunctors = <<>> THEN "stopping" ELSE "poll"
  /\ UNCHANGED <<loopVars, queueVars, wakeupFd, tpc>>
Check ==
  /\ pc = "check"
  /\ IF quit THEN pc' = "stopping" /\ UNCHANGED active
             ELSE pc' = "poll" /\ active' = {}
  /\ UNCHANGED <<loopVars, queueVars, wakeupFd, tpc>>

\* looping_ = false
Stop ==
  /\ pc = "stopping"
  /\ looping' = FALSE
  /\ pc' = "idle"
  /\ UNCHANGED <<quit, queueVars, pollVars, tpc>>

\* poll() returns these active channels. The wakeup channel is level
\* triggered: it is reported whenever the eventfd's count is not zero.
PollReturns(channels) ==
  /\ pc = "poll"
  /\ "wakeup" \in channels <=> wakeupFd > 0
  /\ active' = channels
  /\ pc' = "handle"
  /\ UNCHANGED <<loopVars, queueVars, wakeupFd, tpc>>

PollReady == \E channels \in SUBSET Channels \ {{}} : PollReturns(channels)

\* The 10 s timeout, or EINTR: nothing is active.
PollTimeout == PollReturns({})

\* handleRead(): the wakeup channel's callback reads, and so clears, the count
HandleRead ==
  /\ pc = "handle" /\ "wakeup" \in active
  /\ wakeupFd' = 0
  /\ active' = active \ {"wakeup"}
  /\ UNCHANGED <<pc, loopVars, queueVars, tpc>>

\* The callbacks of the other active channels return.
HandleEvent ==
  /\ pc = "handle" /\ "io" \in active
  /\ active' = active \ {"io"}
  /\ UNCHANGED <<pc, loopVars, queueVars, wakeupFd, tpc>>

\* All handled: doPendingFunctors() sets callingPendingFunctors_
BeginPendingFunctors ==
  /\ pc = "handle" /\ active = {}
  /\ callingPendingFunctors' = TRUE
  /\ pc' = "swap"
  /\ UNCHANGED <<loopVars, pendingFunctors, functors, early, executed, pollVars, tpc>>

\* functors.swap(pendingFunctors_), under the mutex
SwapByCopy ==
  /\ pc = "swap"
  /\ functors' = pendingFunctors
  /\ early' = {}
  /\ pc' = "run"
  /\ UNCHANGED <<loopVars, callingPendingFunctors, pendingFunctors, executed, pollVars, tpc>>
SwapPendingFunctors ==
  /\ pc = "swap"
  /\ functors' = pendingFunctors
  /\ pendingFunctors' = <<>>
  /\ early' = {}
  /\ pc' = "run"
  /\ UNCHANGED <<loopVars, callingPendingFunctors, executed, pollVars, tpc>>

\* The functor at the head of the batch returns.
RunFunctor ==
  /\ pc = "run" /\ functors # <<>>
  /\ executed' = Append(executed, Head(functors))
  /\ functors' = Tail(functors)
  /\ UNCHANGED <<pc, loopVars, callingPendingFunctors, pendingFunctors, early, pollVars, tpc>>

\* callingPendingFunctors_ = false, and back to the while
EndByDrainingEventfd ==
  /\ pc = "run" /\ functors = <<>>
  /\ callingPendingFunctors' = FALSE
  /\ wakeupFd' = 0
  /\ pc' = "check"
  /\ UNCHANGED <<loopVars, pendingFunctors, functors, early, executed, active, tpc>>
EndPendingFunctors ==
  /\ pc = "run" /\ functors = <<>>
  /\ callingPendingFunctors' = FALSE
  /\ pc' = "check"
  /\ UNCHANGED <<loopVars, pendingFunctors, functors, early, executed, pollVars, tpc>>

-----------------------------------------------------------------------------
(* Calls the loop thread itself makes: from a channel's callback, from a   *)
(* running functor, or before or after loop().                             *)

InCallback ==
  \/ pc = "handle" /\ "io" \in active
  \/ pc = "run" /\ functors # <<>>

OwnThreadRuns == InCallback \/ pc = "idle"

\* queueInLoop() in the loop thread wakes only if functors are being run
OwnQueueWithoutWakeup(f) ==
  /\ OwnThreadRuns /\ Fresh(f)
  /\ pendingFunctors' = Append(pendingFunctors, f)
  /\ early' = IF pc = "idle" THEN early \cup {f} ELSE early
  /\ UNCHANGED <<pc, loopVars, callingPendingFunctors, functors, executed, pollVars, tpc>>
OwnQueueInLoop(f) ==
  /\ OwnThreadRuns /\ Fresh(f)
  /\ pendingFunctors' = Append(pendingFunctors, f)
  /\ wakeupFd' = IF callingPendingFunctors THEN Wakeup(wakeupFd) ELSE wakeupFd
  /\ early' = IF pc = "idle" THEN early \cup {f} ELSE early
  /\ UNCHANGED <<pc, loopVars, callingPendingFunctors, functors, executed, active, tpc>>

\* runInLoop() in the loop thread calls the functor at once
OwnRunInLoop(f) ==
  /\ OwnThreadRuns /\ Fresh(f)
  /\ executed' = Append(executed, f)
  /\ UNCHANGED <<pc, loopVars, callingPendingFunctors, pendingFunctors, functors, early,
                 pollVars, tpc>>

\* quit() in the loop thread: no wakeup; refused outside loop()
OwnQuit ==
  /\ OwnThreadRuns
  /\ quit' = looping
  /\ UNCHANGED <<pc, looping, queueVars, pollVars, tpc>>

-----------------------------------------------------------------------------
(* Calls of the other threads.                                             *)

\* queueInLoop(), or runInLoop(), which queues when called from elsewhere:
\* push under the mutex, then wakeup() after the mutex is released.
QueueInLoop(t, f) ==
  /\ tpc[t] = "idle" /\ Fresh(f)
  /\ pendingFunctors' = Append(pendingFunctors, f)
  /\ tpc' = [tpc EXCEPT ![t] = "wakeup"]
  /\ UNCHANGED <<pc, loopVars, callingPendingFunctors, functors, early, executed, pollVars>>

WriteWakeupFd(t) ==
  /\ tpc[t] = "wakeup"
  /\ wakeupFd' = Wakeup(wakeupFd)
  /\ tpc' = [tpc EXCEPT ![t] = "idle"]
  /\ UNCHANGED <<pc, loopVars, queueVars, active>>

\* quit(): read looping_ ...
Quit(t) ==
  /\ tpc[t] = "idle"
  /\ tpc' = [tpc EXCEPT ![t] = IF looping THEN "quitSet" ELSE "quitReset"]
  /\ UNCHANGED <<pc, loopVars, queueVars, pollVars>>

\* ... not looping: quit_ = false, warn and return
QuitRefused(t) ==
  /\ tpc[t] = "quitReset"
  /\ quit' = FALSE
  /\ tpc' = [tpc EXCEPT ![t] = "idle"]
  /\ UNCHANGED <<pc, looping, queueVars, pollVars>>

\* ... looping: quit_ = true, then wakeup()
QuitWithoutWakeup(t) ==
  /\ tpc[t] = "quitSet"
  /\ quit' = TRUE
  /\ tpc' = [tpc EXCEPT ![t] = "idle"]
  /\ UNCHANGED <<pc, looping, queueVars, pollVars>>
QuitAccepted(t) ==
  /\ tpc[t] = "quitSet"
  /\ quit' = TRUE
  /\ tpc' = [tpc EXCEPT ![t] = "wakeup"]
  /\ UNCHANGED <<pc, looping, queueVars, pollVars>>

-----------------------------------------------------------------------------
\* The steps loop() takes by itself once poll() has something to report
LoopStep ==
  \/ Start \/ Check \/ Stop \/ PollReady
  \/ HandleRead \/ HandleEvent
  \/ BeginPendingFunctors \/ SwapPendingFunctors \/ RunFunctor \/ EndPendingFunctors

OwnCall == OwnQuit \/ \E f \in Functors : OwnQueueInLoop(f) \/ OwnRunInLoop(f)

Finish(t) == WriteWakeupFd(t) \/ QuitRefused(t) \/ QuitAccepted(t)

ThreadStep(t) == Finish(t) \/ Quit(t) \/ \E f \in Functors : QueueInLoop(t, f)

Next ==
  \/ Loop \/ PollTimeout \/ LoopStep \/ OwnCall
  \/ \E t \in Threads : ThreadStep(t)

\* poll() reports the eventfd once its count is not zero
PollWokenUp == wakeupFd > 0 /\ PollReady

\* The scheduler runs every runnable thread and callbacks return. Nothing is
\* assumed of the poll timeout, of input on the sockets or of the callers.
Fairness ==
  /\ WF_vars(Start \/ Check \/ Stop)
  /\ WF_vars(PollWokenUp)
  /\ WF_vars(HandleRead) /\ WF_vars(HandleEvent)
  /\ WF_vars(BeginPendingFunctors \/ SwapPendingFunctors \/ RunFunctor \/ EndPendingFunctors)
  /\ \A t \in Threads : WF_vars(Finish(t))

Spec == Init /\ [][Next]_vars

FairSpec == Spec /\ Fairness

-----------------------------------------------------------------------------
(* Properties.                                                             *)

\* The variables have their types; the eventfd's count stays within its limit.
TypeOK ==
  /\ pc \in {"idle", "starting", "check", "poll", "handle", "swap", "run", "stopping"}
  /\ looping \in BOOLEAN /\ quit \in BOOLEAN /\ callingPendingFunctors \in BOOLEAN
  /\ pendingFunctors \in Seq(Functors) /\ functors \in Seq(Functors)
  /\ executed \in Seq(Functors)
  /\ early \in SUBSET Functors
  /\ wakeupFd \in 0..MaxEventfd
  /\ active \in SUBSET Channels
  /\ tpc \in [Threads -> {"idle", "wakeup", "quitSet", "quitReset"}]

\* The next poll() returns at once, or will as soon as a thread that is
\* between its push (or its quit_ = true) and its wakeup() goes on.
WakeupComing == wakeupFd > 0 \/ \E t \in Threads : tpc[t] = "wakeup"

\* No lost wakeup (queueInLoop, doPendingFunctors, handleRead): the loop
\* thread never sleeps in poll() on a functor nobody will wake it for. The
\* one exception is a functor the loop thread itself queued outside loop().
NoLostWakeup ==
  pc = "poll" /\ Range(pendingFunctors) \ early # {} => WakeupComing

\* No lost quit: the loop thread never sleeps in poll() with quit_ true and
\* no wakeup coming (quit, lines 126-130).
NoLostQuit == pc = "poll" /\ quit => WakeupComing

\* queueInLoop and doPendingFunctors together implement the executor: every
\* functor runs at most once, in the order of queueing, and none vanishes,
\* not even across two calls of loop().
Abstract == INSTANCE Executor WITH queue <- functors \o pendingFunctors, done <- executed
ImplementsExecutor == Abstract!Spec

\* A functor queued from another thread, or from a callback, is run while
\* the loop keeps running, whether or not poll() ever times out; one that the
\* loop thread queued before loop() waits for the first wakeup and no longer.
FunctorsEventuallyRun ==
  \A f \in Functors :
    /\ f \in Range(pendingFunctors)
    /\ f \notin early \/ (pc = "poll" /\ wakeupFd > 0)
    ~> f \in Range(executed) \/ pc = "idle"

\* A quit request ends the loop unless some thread's refused quit() call
\* overwrites it (line 121, stale looping_).
QuitStopsLoop ==
  quit /\ pc \notin {"idle", "starting"} ~> pc = "idle" \/ ~quit
=============================================================================
