-------------------------- MODULE EventLoopThread ---------------------------
(***************************************************************************)
(* polaris/src/EventLoopThread.cc: an owner starts a thread whose stack    *)
(* holds an EventLoop, learns the loop's address through loop_ and stops   *)
(* the thread in the destructor. Composes EventLoop: the owner is one of   *)
(* the threads that may queue functors and quit, and the only one to do so *)
(* here.                                                                   *)
(***************************************************************************)
EXTENDS EventLoop

CONSTANT Owner   \* the thread that owns the EventLoopThread object

ASSUME OwnerAssumption == Owner \in Threads

VARIABLES
  loopSet,    \* loop_ # nullptr
  owner,      \* the owner: "new"; in startLoop() "testing" loop_ or
              \* "waiting" on cond_; "started"; in the destructor "quit",
              \* "quitting", "join"; "done"
  thread,     \* threadFunc: "none", "init", "published", "looping",
              \* "cleared", "dead" (the EventLoop is destroyed)
  selfQuit,   \* history: a callback of the loop has called quit()
  quitLost    \* history: the owner's quit() was refused, or overwritten by
              \* the quit_ = false at the start of loop()

threadVars == <<loopSet, owner, thread, selfQuit, quitLost>>
allVars == <<vars, threadVars>>

TInit ==
  /\ Init
  /\ loopSet = FALSE /\ owner = "new" /\ thread = "none"
  /\ selfQuit = FALSE /\ quitLost = FALSE

-----------------------------------------------------------------------------
(* The owner.                                                              *)

\* startLoop(): thread_.start(), then wait for loop_
StartLoop ==
  /\ owner = "new"
  /\ owner' = "testing"
  /\ thread' = "init"
  /\ UNCHANGED <<vars, loopSet, selfQuit, quitLost>>

\* while (loop_ == nullptr) cond_.wait(): the test and the falling asleep are
\* one step under the mutex
WaitForLoop ==
  /\ owner = "testing"
  /\ owner' = IF loopSet THEN "started" ELSE "waiting"
  /\ UNCHANGED <<vars, loopSet, thread, selfQuit, quitLost>>

\* pthread_cond_wait() may return without a notify().
SpuriousWakeup ==
  /\ owner = "waiting"
  /\ owner' = "testing"
  /\ UNCHANGED <<vars, loopSet, thread, selfQuit, quitLost>>

\* The owner uses the loop it was given.
OwnerQueues(f) ==
  /\ owner = "started"
  /\ QueueInLoop(Owner, f)
  /\ UNCHANGED threadVars

\* ~EventLoopThread(): if (loop_ != nullptr), read without the mutex
Destruct ==
  /\ owner \in {"new", "started"} /\ tpc[Owner] = "idle"
  /\ owner' = IF loopSet THEN "quit" ELSE "done"
  /\ UNCHANGED <<vars, loopSet, thread, selfQuit, quitLost>>

\* loop_->quit() ...
CallQuit ==
  /\ owner = "quit"
  /\ Quit(Owner)
  /\ owner' = "quitting"
  /\ UNCHANGED <<loopSet, thread, selfQuit, quitLost>>

FinishCall ==
  /\ Finish(Owner)
  /\ quitLost' = (quitLost \/ tpc[Owner] = "quitReset")
  /\ UNCHANGED <<loopSet, owner, thread, selfQuit>>

\* ... then thread_.join()
QuitReturns ==
  /\ owner = "quitting" /\ tpc[Owner] = "idle"
  /\ owner' = "join"
  /\ UNCHANGED <<vars, loopSet, thread, selfQuit, quitLost>>

Join ==
  /\ owner = "join" /\ thread = "dead"
  /\ owner' = "done"
  /\ UNCHANGED <<vars, loopSet, thread, selfQuit, quitLost>>

-----------------------------------------------------------------------------
(* threadFunc().                                                           *)

\* callback_(&loop): the init callback may use the loop
InitCallback ==
  /\ thread = "init"
  /\ OwnCall
  /\ UNCHANGED threadVars

\* loop_ = &loop; cond_.notify(), under the mutex: a waiting owner wakes up
PublishSilently ==
  /\ thread = "init"
  /\ loopSet' = TRUE
  /\ thread' = "published"
  /\ UNCHANGED <<vars, owner, selfQuit, quitLost>>
Publish ==
  /\ thread = "init"
  /\ loopSet' = TRUE
  /\ owner' = IF owner = "waiting" THEN "testing" ELSE owner
  /\ thread' = "published"
  /\ UNCHANGED <<vars, selfQuit, quitLost>>

\* loop.loop()
CallLoop ==
  /\ thread = "published"
  /\ Loop
  /\ thread' = "looping"
  /\ UNCHANGED <<loopSet, owner, selfQuit, quitLost>>

LoopThreadRuns ==
  /\ thread = "looping"
  /\ LoopStep
  /\ quitLost' = (quitLost \/ (pc = "starting" /\ quit))
  /\ UNCHANGED <<loopSet, owner, thread, selfQuit>>

LoopTimesOut ==
  /\ thread = "looping"
  /\ PollTimeout
  /\ UNCHANGED threadVars

\* Callbacks run by the loop may queue functors and quit it.
LoopCallback ==
  /\ thread = "looping" /\ InCallback
  /\ OwnCall
  /\ selfQuit' = (selfQuit \/ quit' # quit)
  /\ UNCHANGED <<loopSet, owner, thread, quitLost>>

\* loop() returned: loop_ = nullptr, under the mutex
ClearLoop ==
  /\ thread = "looping" /\ pc = "idle"
  /\ loopSet' = FALSE
  /\ thread' = "cleared"
  /\ UNCHANGED <<vars, owner, selfQuit, quitLost>>

\* threadFunc() returns: ~EventLoop()
DestroyLoop ==
  /\ thread = "cleared"
  /\ thread' = "dead"
  /\ UNCHANGED <<vars, loopSet, owner, selfQuit, quitLost>>

-----------------------------------------------------------------------------
OwnerStep == CallQuit \/ FinishCall \/ QuitReturns \/ Join

ThreadRuns == Publish \/ CallLoop \/ ClearLoop \/ DestroyLoop

TNext ==
  \/ StartLoop \/ WaitForLoop \/ SpuriousWakeup \/ Destruct \/ OwnerStep
  \/ \E f \in Functors : OwnerQueues(f)
  \/ InitCallback \/ ThreadRuns \/ LoopThreadRuns \/ LoopTimesOut \/ LoopCallback

\* The scheduler runs both threads; a callback returns; poll() returns once
\* the eventfd is readable. The timeout, the sockets and spurious wakeups are
\* not relied on.
TFairness ==
  /\ WF_allVars(WaitForLoop) /\ WF_allVars(OwnerStep)
  /\ WF_allVars(ThreadRuns)
  /\ WF_allVars(LoopThreadRuns /\ pc # "poll")
  /\ WF_allVars(LoopThreadRuns /\ pc = "poll" /\ wakeupFd > 0)

TSpec == TInit /\ [][TNext]_allVars /\ TFairness

-----------------------------------------------------------------------------
(* Properties.                                                             *)

\* startLoop() returns the loop, whether it tests loop_ before or after the
\* thread sets it and without the help of a spurious wakeup, unless a callback
\* of the loop quit it (and loop_ was cleared again) before the owner got the
\* mutex back.
StartLoopTerminates == owner = "testing" ~> owner = "started" \/ selfQuit

\* As long as no callback of the loop calls quit(), the owner touches a
\* destroyed EventLoop in one place only: the wakeup() that ends quit(),
\* the access the comment at EventLoop.cc:127-129 admits.
OnlyWakeupTouchesDeadLoop ==
  thread \in {"cleared", "dead"} /\ ~selfQuit =>
    owner # "quit" /\ tpc[Owner] \in {"idle", "wakeup"}

\* The destructor's join() returns, unless the owner's quit() came before
\* loop() had got past its first two statements.
DestructorTerminates == owner = "quit" ~> owner = "done" \/ quitLost

\* What the warning at EventLoop.cc:122 demands, "quit() must be called after
\* loop()!!!", of the one caller in the library, ~EventLoopThread(): its
\* quit() is refused only because the loop has quit itself.
QuitAfterLoop == tpc[Owner] = "quitReset" => selfQuit
=============================================================================
