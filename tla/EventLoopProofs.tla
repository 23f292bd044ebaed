-------------------------- MODULE EventLoopProofs ---------------------------
(***************************************************************************)
(* Proofs about EventLoop, for every set of threads and of functors and    *)
(* every eventfd limit, and about EventLoopThread: it drives its EventLoop *)
(* as EventLoop allows, so that what is proved of that holds of the        *)
(* thread's loop too, and its owner reaches into a destroyed loop in one   *)
(* place only.                                                             *)
(***************************************************************************)
EXTENDS EventLoopThread, SequenceTheorems, TLAPS

-----------------------------------------------------------------------------
(* EventLoop.                                                              *)

\* wakeup() leaves a count the eventfd can hold and that is not zero.
LEMMA WakeupCount ==
  ASSUME NEW n \in 0..MaxEventfd
  PROVE  Wakeup(n) \in 0..MaxEventfd /\ Wakeup(n) > 0
  BY EventfdAssumption DEF Wakeup

\* The eventfd never holds more than its limit and every variable keeps its
\* type, whatever the threads do.
THEOREM TypeCorrect == Spec => []TypeOK
<1>1. Init => TypeOK
  <2> SUFFICES ASSUME Init PROVE TypeOK
    OBVIOUS
  <2>1. <<>> \in Seq(Functors)
    BY EmptySeq
  <2>2. 0 \in 0..MaxEventfd
    BY EventfdAssumption
  <2> QED
    BY <2>1, <2>2 DEF Init, TypeOK
<1>2. TypeOK /\ [Next]_vars => TypeOK'
  <2> SUFFICES ASSUME TypeOK, [Next]_vars PROVE TypeOK'
    OBVIOUS
  <2> USE EventfdAssumption DEF TypeOK, loopVars, queueVars, pollVars
  <2>1. CASE Loop \/ Start \/ Check \/ Stop
    BY <2>1 DEF Loop, Start, Check, Stop
  <2>2. CASE PollTimeout \/ PollReady
    BY <2>2 DEF PollTimeout, PollReady, PollReturns, Channels
  <2>3. CASE HandleRead \/ HandleEvent
    BY <2>3 DEF HandleRead, HandleEvent
  <2>4. CASE BeginPendingFunctors \/ SwapPendingFunctors
    BY <2>4, EmptySeq DEF BeginPendingFunctors, SwapPendingFunctors
  <2>5. CASE RunFunctor
    <3>1. Head(functors) \in Functors /\ Tail(functors) \in Seq(Functors)
      BY <2>5, HeadTailProperties DEF RunFunctor
    <3>2. Append(executed, Head(functors)) \in Seq(Functors)
      BY <3>1, AppendProperties
    <3> QED
      BY <2>5, <3>1, <3>2 DEF RunFunctor
  <2>11. CASE EndPendingFunctors
    BY <2>11 DEF EndPendingFunctors
  <2>6. CASE OwnQuit
    BY <2>6 DEF OwnQuit
  <2>7. ASSUME NEW f \in Functors, OwnQueueInLoop(f) \/ OwnRunInLoop(f)
        PROVE  TypeOK'
    <3>1. Append(pendingFunctors, f) \in Seq(Functors) /\ Append(executed, f) \in Seq(Functors)
      BY AppendProperties
    <3>2. Wakeup(wakeupFd) \in 0..MaxEventfd
      BY WakeupCount
    <3>3. CASE OwnQueueInLoop(f)
      BY <3>1, <3>2, <3>3 DEF OwnQueueInLoop
    <3>4. CASE OwnRunInLoop(f)
      BY <3>1, <3>4 DEF OwnRunInLoop
    <3> QED
      BY <2>7, <3>3, <3>4
  <2>8. ASSUME NEW t \in Threads, NEW f \in Functors, QueueInLoop(t, f)
        PROVE  TypeOK'
    BY <2>8 DEF QueueInLoop
  <2>9. ASSUME NEW t \in Threads, Quit(t) \/ Finish(t)
        PROVE  TypeOK'
    BY <2>9, WakeupCount DEF Quit, Finish, WriteWakeupFd, QuitRefused, QuitAccepted
  <2>10. CASE UNCHANGED vars
    BY <2>10 DEF vars
  <2> QED
    BY <2>1, <2>2, <2>3, <2>4, <2>5, <2>11, <2>6, <2>7, <2>8, <2>9, <2>10
    DEF Next, LoopStep, OwnCall, ThreadStep
<1> QED
  BY <1>1, <1>2, PTL DEF Spec

-----------------------------------------------------------------------------
\* The strengthening of NoLostWakeup. A functor pushed while the loop thread
\* is between reading the eventfd and the swap needs no wakeup, because the
\* swap will take it; from the swap on, every functor in pendingFunctors_
\* has its wakeup coming. For that the loop thread's own pushes have to see
\* callingPendingFunctors_ true for as long as the batch runs.
WakeupInv ==
  /\ pc \in {"swap", "run"} => callingPendingFunctors
  /\ pc \notin {"handle", "swap"} /\ Range(pendingFunctors) \ early # {}
       => WakeupComing

\* Pushing a functor adds that functor and no other.
LEMMA RangeAppend ==
  ASSUME NEW S, NEW s \in Seq(S), NEW e \in S
  PROVE  Range(Append(s, e)) = Range(s) \cup {e}
<1>1. Len(Append(s, e)) = Len(s) + 1 /\ DOMAIN s = 1..Len(s) /\ Len(s) \in Nat
  BY LenProperties
<1>2. DOMAIN Append(s, e) = 1..(Len(s) + 1)
  BY <1>1
<1>3. \A i \in 1..(Len(s) + 1) : Append(s, e)[i] = IF i = Len(s) + 1 THEN e ELSE s[i]
  BY <1>1
<1> QED
  BY <1>1, <1>2, <1>3 DEF Range

\* A finished or refused call never takes a wakeup away.
LEMMA WakeupStays ==
  ASSUME TypeOK, NEW t \in Threads, Quit(t) \/ Finish(t)
  PROVE  /\ WakeupComing => WakeupComing'
         /\ UNCHANGED <<pc, queueVars>>
  BY EventfdAssumption
  DEF TypeOK, Quit, Finish, WriteWakeupFd, QuitRefused, QuitAccepted, Wakeup,
      WakeupComing, loopVars, pollVars

\* queueInLoop, doPendingFunctors and the wakeup channel never leave the
\* loop asleep on a queued functor.
THEOREM WakeupNeverLost == Spec => []NoLostWakeup
<1>1. Init => WakeupInv
  BY DEF Init, WakeupInv, Range
<1>2. TypeOK /\ TypeOK' /\ WakeupInv /\ [Next]_vars => WakeupInv'
  <2> SUFFICES ASSUME TypeOK, TypeOK', WakeupInv, [Next]_vars PROVE WakeupInv'
    OBVIOUS
  <2> USE EventfdAssumption
  <2>1. CASE Loop \/ Start \/ Check \/ Stop
    BY <2>1 DEF Loop, Start, Check, Stop, WakeupInv, WakeupComing, queueVars, pollVars, loopVars
  <2>2. CASE PollTimeout \/ PollReady
    BY <2>2 DEF PollTimeout, PollReady, PollReturns, WakeupInv
  <2>3. CASE HandleRead \/ HandleEvent
    BY <2>3 DEF HandleRead, HandleEvent, WakeupInv
  <2>4. CASE BeginPendingFunctors
    BY <2>4 DEF BeginPendingFunctors, WakeupInv
  <2>5. CASE SwapPendingFunctors
    <3>1. callingPendingFunctors
      BY <2>5 DEF SwapPendingFunctors, WakeupInv
    <3>2. Range(<<>>) = {}
      BY DEF Range
    <3> QED
      BY <2>5, <3>1, <3>2 DEF SwapPendingFunctors, WakeupInv
  <2>6. CASE RunFunctor \/ EndPendingFunctors
    BY <2>6 DEF RunFunctor, EndPendingFunctors, WakeupInv, WakeupComing, pollVars
  <2>7. CASE OwnQuit
    BY <2>7 DEF OwnQuit, WakeupInv, WakeupComing, queueVars, pollVars
  <2>8. ASSUME NEW f \in Functors, OwnQueueInLoop(f)
        PROVE  WakeupInv'
    <3>1. Range(pendingFunctors') = Range(pendingFunctors) \cup {f}
      BY <2>8, RangeAppend DEF OwnQueueInLoop, TypeOK
    <3>2. CASE pc = "run"
      BY <2>8, <3>2 DEF OwnQueueInLoop, Wakeup, WakeupInv, WakeupComing, TypeOK
    <3>3. CASE pc = "idle"
      BY <2>8, <3>1, <3>3 DEF OwnQueueInLoop, Wakeup, WakeupInv, WakeupComing, TypeOK
    <3>4. CASE pc = "handle"
      BY <2>8, <3>4 DEF OwnQueueInLoop, WakeupInv
    <3> QED
      BY <2>8, <3>2, <3>3, <3>4 DEF OwnQueueInLoop, OwnThreadRuns, InCallback
  <2>9. ASSUME NEW f \in Functors, OwnRunInLoop(f)
        PROVE  WakeupInv'
    BY <2>9 DEF OwnRunInLoop, WakeupInv, WakeupComing, pollVars
  <2>10. ASSUME NEW t \in Threads, NEW f \in Functors, QueueInLoop(t, f)
         PROVE  WakeupInv'
    <3>1. tpc'[t] = "wakeup"
      BY <2>10 DEF QueueInLoop, TypeOK
    <3> QED
      BY <2>10, <3>1 DEF QueueInLoop, WakeupInv, WakeupComing
  <2>11. ASSUME NEW t \in Threads, Quit(t) \/ Finish(t)
         PROVE  WakeupInv'
    BY <2>11, WakeupStays DEF WakeupInv, queueVars
  <2>12. CASE UNCHANGED vars
    BY <2>12 DEF vars, WakeupInv, WakeupComing, queueVars, pollVars
  <2> QED
    BY <2>1, <2>2, <2>3, <2>4, <2>5, <2>6, <2>7, <2>8, <2>9, <2>10, <2>11, <2>12
    DEF Next, LoopStep, OwnCall, ThreadStep
<1>3. WakeupInv => NoLostWakeup
  BY DEF WakeupInv, NoLostWakeup
<1> QED
  BY <1>1, <1>2, <1>3, TypeCorrect, PTL DEF Spec

-----------------------------------------------------------------------------
\* quit() from any thread never leaves the loop asleep with quit_ set: the
\* while tests quit_ before every poll, and only threads whose wakeup is
\* still to come set it while the loop thread is in poll.
THEOREM QuitNeverLost == Spec => []NoLostQuit
<1>1. Init => NoLostQuit
  BY DEF Init, NoLostQuit
<1>2. TypeOK /\ NoLostQuit /\ [Next]_vars => NoLostQuit'
  <2> SUFFICES ASSUME TypeOK, NoLostQuit, [Next]_vars PROVE NoLostQuit'
    OBVIOUS
  <2>1. CASE Loop \/ Start \/ Check \/ Stop
    BY <2>1 DEF Loop, Start, Check, Stop, NoLostQuit, loopVars
  <2>2. CASE PollTimeout \/ PollReady
    BY <2>2 DEF PollTimeout, PollReady, PollReturns, NoLostQuit
  <2>3. CASE HandleRead \/ HandleEvent \/ BeginPendingFunctors
    BY <2>3 DEF HandleRead, HandleEvent, BeginPendingFunctors, NoLostQuit
  <2>4. CASE SwapPendingFunctors \/ RunFunctor \/ EndPendingFunctors
    BY <2>4 DEF SwapPendingFunctors, RunFunctor, EndPendingFunctors, NoLostQuit
  <2>5. CASE OwnCall
    BY <2>5 DEF OwnCall, OwnQuit, OwnQueueInLoop, OwnRunInLoop, OwnThreadRuns, InCallback,
                NoLostQuit
  <2>6. ASSUME NEW t \in Threads, NEW f \in Functors, QueueInLoop(t, f)
        PROVE  NoLostQuit'
    <3>1. tpc'[t] = "wakeup"
      BY <2>6 DEF QueueInLoop, TypeOK
    <3> QED
      BY <3>1 DEF NoLostQuit, WakeupComing
  <2>7. ASSUME NEW t \in Threads, Quit(t) \/ WriteWakeupFd(t)
        PROVE  NoLostQuit'
    <3>1. quit' = quit /\ pc' = pc /\ (WakeupComing => WakeupComing')
      BY <2>7, WakeupStays DEF Finish, Quit, WriteWakeupFd, loopVars
    <3> QED
      BY <3>1 DEF NoLostQuit
  <2>8. ASSUME NEW t \in Threads, QuitRefused(t)
        PROVE  NoLostQuit'
    BY <2>8 DEF QuitRefused, NoLostQuit
  <2>9. ASSUME NEW t \in Threads, QuitAccepted(t)
        PROVE  NoLostQuit'
    <3>1. tpc'[t] = "wakeup"
      BY <2>9 DEF QuitAccepted, TypeOK
    <3> QED
      BY <3>1 DEF NoLostQuit, WakeupComing
  <2>10. CASE UNCHANGED vars
    BY <2>10 DEF vars, NoLostQuit, WakeupComing, loopVars, pollVars
  <2> QED
    BY <2>1, <2>2, <2>3, <2>4, <2>5, <2>6, <2>7, <2>8, <2>9, <2>10
    DEF Next, LoopStep, ThreadStep, Finish
<1> QED
  BY <1>1, <1>2, TypeCorrect, PTL DEF Spec

-----------------------------------------------------------------------------
\* Nothing is left of a batch once doPendingFunctors() has run it, so that a
\* swap never overwrites functors still to be run.
BatchInv == pc # "run" => functors = <<>>

\* BatchInv holds in every state.
LEMMA BatchFinished == Spec => []BatchInv
<1>1. Init => BatchInv
  BY DEF Init, BatchInv
<1>2. BatchInv /\ [Next]_vars => BatchInv'
  <2> SUFFICES ASSUME BatchInv, [Next]_vars PROVE BatchInv'
    OBVIOUS
  <2>1. CASE Loop \/ Start \/ Check \/ Stop \/ PollTimeout \/ PollReady
    BY <2>1 DEF Loop, Start, Check, Stop, PollTimeout, PollReady, PollReturns, BatchInv, queueVars
  <2>2. CASE HandleRead \/ HandleEvent \/ BeginPendingFunctors \/ SwapPendingFunctors
    BY <2>2 DEF HandleRead, HandleEvent, BeginPendingFunctors, SwapPendingFunctors,
                BatchInv, queueVars
  <2>3. CASE RunFunctor \/ EndPendingFunctors
    BY <2>3 DEF RunFunctor, EndPendingFunctors, BatchInv
  <2>4. CASE OwnCall
    BY <2>4 DEF OwnCall, OwnQuit, OwnQueueInLoop, OwnRunInLoop, BatchInv, queueVars
  <2>5. ASSUME NEW t \in Threads, ThreadStep(t)
        PROVE  BatchInv'
    BY <2>5 DEF ThreadStep, Finish, Quit, QueueInLoop, WriteWakeupFd, QuitRefused, QuitAccepted,
                BatchInv, queueVars
  <2>6. CASE UNCHANGED vars
    BY <2>6 DEF vars, queueVars, BatchInv
  <2> QED
    BY <2>1, <2>2, <2>3, <2>4, <2>5, <2>6 DEF Next, LoopStep
<1> QED
  BY <1>1, <1>2, PTL DEF Spec

\* A queued functor goes to the end of what is left of the batch followed by
\* pendingFunctors_; the head of that sequence is the batch's.
LEMMA BatchThenPending ==
  ASSUME NEW S, NEW s \in Seq(S), NEW t \in Seq(S), NEW e \in S
  PROVE  /\ s \o Append(t, e) = Append(s \o t, e)
         /\ s # <<>> => /\ s \o t # <<>>
                        /\ Head(s \o t) = Head(s)
                        /\ Tail(s \o t) = Tail(s) \o t
<1>1. s \o Append(t, e) = Append(s \o t, e)
  <2>1. Append(t, e) \in Seq(S) /\ s \o t \in Seq(S)
    BY AppendProperties, ConcatProperties
  <2>2. Append(t, e) = t \o <<e>> /\ Append(s \o t, e) = (s \o t) \o <<e>>
    BY <2>1, AppendIsConcat
  <2>3. <<e>> \in Seq(S)
    OBVIOUS
  <2> QED
    BY <2>1, <2>2, <2>3, ConcatAssociative
<1>2. ASSUME s # <<>>
      PROVE  /\ s \o t # <<>>
             /\ Head(s \o t) = Head(s)
             /\ Tail(s \o t) = Tail(s) \o t
  <2>1. /\ Len(s) \in Nat \ {0} /\ Len(t) \in Nat
        /\ s \o t \in Seq(S) /\ Len(s \o t) = Len(s) + Len(t)
    BY <1>2, EmptySeq, LenProperties, ConcatProperties
  <2>2. s \o t # <<>>
    BY <2>1, EmptySeq
  <2>3. (s \o t)[1] = s[1]
    BY <2>1, ConcatProperties
  <2>4. /\ Tail(s) \in Seq(S) /\ Len(Tail(s)) = Len(s) - 1
        /\ \A i \in 1..Len(Tail(s)) : Tail(s)[i] = s[i + 1]
    BY <1>2, HeadTailProperties
  <2>5. /\ Tail(s \o t) \in Seq(S) /\ Len(Tail(s \o t)) = Len(s) + Len(t) - 1
        /\ \A i \in 1..(Len(s) + Len(t) - 1) : Tail(s \o t)[i] = (s \o t)[i + 1]
    BY <2>1, <2>2, HeadTailProperties
  <2>6. /\ Tail(s) \o t \in Seq(S) /\ Len(Tail(s) \o t) = Len(s) - 1 + Len(t)
        /\ \A i \in 1..(Len(s) - 1 + Len(t)) :
             (Tail(s) \o t)[i] = IF i <= Len(s) - 1 THEN Tail(s)[i] ELSE t[i - (Len(s) - 1)]
    BY <2>1, <2>4, ConcatProperties
  <2>7. ASSUME NEW i \in 1..(Len(s) + Len(t) - 1)
        PROVE  Tail(s \o t)[i] = (Tail(s) \o t)[i]
    <3>1. (s \o t)[i + 1] = IF i + 1 <= Len(s) THEN s[i + 1] ELSE t[i + 1 - Len(s)]
      BY <2>1, ConcatProperties
    <3> QED
      BY <2>1, <2>4, <2>5, <2>6, <3>1
  <2>8. Tail(s \o t) = Tail(s) \o t
    BY <2>1, <2>5, <2>6, <2>7, SeqEqual
  <2> QED
    BY <2>1, <2>2, <2>3, <2>8
<1> QED
  BY <1>1, <1>2

\* EventLoop implements the executor: the functors of the batch and the
\* pending ones form its queue, so that each functor runs at most once, in
\* the order of queueing, and none is dropped by the swap.
THEOREM ImplementationOfExecutor == Spec => ImplementsExecutor
<1> DEFINE Q == functors \o pendingFunctors
<1>1. Init => Abstract!Init
  BY DEF Init, Abstract!Init
<1>2. TypeOK /\ BatchInv /\ [Next]_vars => [Abstract!Next]_<<Q, executed>>
  <2> SUFFICES ASSUME TypeOK, BatchInv, [Next]_vars PROVE [Abstract!Next]_<<Q, executed>>
    OBVIOUS
  <2>t. functors \in Seq(Functors) /\ pendingFunctors \in Seq(Functors)
    BY DEF TypeOK
  <2>f. ASSUME NEW f \in Functors, Fresh(f)
        PROVE  Abstract!Fresh(f)
    BY <2>t, <2>f, RangeConcatenation DEF Fresh, Abstract!Fresh, Range, Abstract!Range
  <2>a. ASSUME NEW f \in Functors
        PROVE  functors \o Append(pendingFunctors, f) = Append(Q, f)
    BY <2>t, BatchThenPending
  <2>1. CASE Loop \/ Start \/ Check \/ Stop \/ PollTimeout \/ PollReady
    BY <2>1 DEF Loop, Start, Check, Stop, PollTimeout, PollReady, PollReturns, queueVars
  <2>2. CASE HandleRead \/ HandleEvent \/ BeginPendingFunctors \/ EndPendingFunctors
    BY <2>2 DEF HandleRead, HandleEvent, BeginPendingFunctors, EndPendingFunctors, queueVars
  <2>3. CASE SwapPendingFunctors
    <3>1. functors = <<>>
      BY <2>3 DEF SwapPendingFunctors, BatchInv
    <3>2. <<>> \o pendingFunctors = pendingFunctors /\ pendingFunctors \o <<>> = pendingFunctors
      BY <2>t, ConcatEmptySeq
    <3> QED
      BY <2>3, <3>1, <3>2 DEF SwapPendingFunctors
  <2>4. CASE RunFunctor
    <3>1. PICK e \in Functors : e = Head(functors)
      BY <2>4, <2>t, HeadTailProperties DEF RunFunctor
    <3>2. Q # <<>> /\ Head(Q) = Head(functors) /\ Tail(Q) = Tail(functors) \o pendingFunctors
      BY <2>4, <2>t, <3>1, BatchThenPending DEF RunFunctor
    <3> QED
      BY <2>4, <3>2 DEF RunFunctor, Abstract!Next, Abstract!Run
  <2>5. CASE OwnQuit
    BY <2>5 DEF OwnQuit, queueVars
  <2>6. ASSUME NEW f \in Functors, OwnQueueInLoop(f)
        PROVE  Abstract!Next
    BY <2>6, <2>f, <2>a DEF OwnQueueInLoop, Abstract!Next, Abstract!Queue
  <2>7. ASSUME NEW f \in Functors, OwnRunInLoop(f)
        PROVE  Abstract!Next
    BY <2>7, <2>f DEF OwnRunInLoop, Abstract!Next, Abstract!RunNow
  <2>8. ASSUME NEW t \in Threads, NEW f \in Functors, QueueInLoop(t, f)
        PROVE  Abstract!Next
    BY <2>8, <2>f, <2>a DEF QueueInLoop, Abstract!Next, Abstract!Queue
  <2>9. ASSUME NEW t \in Threads, Quit(t) \/ Finish(t)
        PROVE  UNCHANGED <<Q, executed>>
    BY <2>9 DEF Quit, Finish, WriteWakeupFd, QuitRefused, QuitAccepted, queueVars
  <2>10. CASE UNCHANGED vars
    BY <2>10 DEF vars, queueVars
  <2> QED
    BY <2>1, <2>2, <2>3, <2>4, <2>5, <2>6, <2>7, <2>8, <2>9, <2>10
    DEF Next, LoopStep, OwnCall, ThreadStep
<1> QED
  BY <1>1, <1>2, TypeCorrect, BatchFinished, PTL DEF Spec, ImplementsExecutor, Abstract!Spec

-----------------------------------------------------------------------------
(* EventLoopThread.                                                        *)


\* Every step of the owner and of threadFunc() is a step of the EventLoop, made
\* by its own thread or by another, or one that it does not see.
LEMMA EventLoopStep == ASSUME [TNext]_allVars PROVE [Next]_vars
<1>1. CASE UNCHANGED allVars
  BY <1>1 DEF allVars
<1>2. CASE StartLoop \/ WaitForLoop \/ SpuriousWakeup \/ Destruct \/ QuitReturns \/ Join
  BY <1>2 DEF StartLoop, WaitForLoop, SpuriousWakeup, Destruct, QuitReturns, Join
<1>3. CASE Publish \/ ClearLoop \/ DestroyLoop
  BY <1>3 DEF Publish, ClearLoop, DestroyLoop
<1>4. CASE CallQuit \/ FinishCall
  <2>1. Owner \in Threads
    BY OwnerAssumption
  <2>2. Quit(Owner) \/ Finish(Owner)
    BY <1>4 DEF CallQuit, FinishCall
  <2> QED
    BY <2>1, <2>2 DEF Next, ThreadStep
<1>5. CASE \E f \in Functors : OwnerQueues(f)
  <2>1. Owner \in Threads
    BY OwnerAssumption
  <2>2. \E f \in Functors : QueueInLoop(Owner, f)
    BY <1>5 DEF OwnerQueues
  <2> QED
    BY <2>1, <2>2 DEF Next, ThreadStep
<1>6. CASE InitCallback \/ LoopCallback
  BY <1>6 DEF InitCallback, LoopCallback, Next
<1>7. CASE CallLoop \/ LoopThreadRuns \/ LoopTimesOut
  BY <1>7 DEF CallLoop, LoopThreadRuns, LoopTimesOut, Next
<1> QED
  BY <1>1, <1>2, <1>3, <1>4, <1>5, <1>6, <1>7 DEF TNext, OwnerStep, ThreadRuns

\* EventLoopThread uses its EventLoop as EventLoop says a loop may be used: a
\* behaviour of the two threads is one of the loop.
THEOREM RunsAnEventLoop == TSpec => Spec
<1>1. TInit => Init
  BY DEF TInit
<1>2. [TNext]_allVars => [Next]_vars
  BY EventLoopStep
<1> QED
  BY <1>1, <1>2, PTL DEF TSpec, Spec

\* So no functor the owner queues, and no quit() of the destructor that came
\* through, leaves the thread asleep in poll().
THEOREM ThreadNeverOversleeps == TSpec => [](NoLostWakeup /\ NoLostQuit)
  BY RunsAnEventLoop, WakeupNeverLost, QuitNeverLost, PTL

-----------------------------------------------------------------------------
\* The owner is past the store to quit_ in the destructor's quit(): what is
\* left is its wakeup().
QuitCameThrough ==
  owner \in {"quitting", "join", "done"} /\ tpc[Owner] \in {"idle", "wakeup"}

\* The loop is on its way out
Leaving ==
  \/ quit \/ pc = "stopping"
  \/ thread = "looping" /\ pc = "idle"
  \/ thread \in {"cleared", "dead"}

\* Without a quit() of a callback, only the destructor's quit() makes the loop
\* leave. quit() finds looping_ true only once loop() was called, and is called
\* in the destructor only.
OwnerInv ==
  /\ tpc \in [Threads -> {"idle", "wakeup", "quitSet", "quitReset"}]
  /\ owner = "new" => thread = "none"
  /\ thread \in {"none", "init", "published"} => ~looping
  /\ tpc[Owner] \in {"quitSet", "quitReset"} => owner = "quitting"
  /\ Leaving /\ ~selfQuit => QuitCameThrough

\* The owner's steps keep the invariant.
LEMMA OwnerSteps ==
  ASSUME OwnerInv,
         \/ StartLoop \/ WaitForLoop \/ SpuriousWakeup \/ Destruct \/ OwnerStep
         \/ \E f \in Functors : OwnerQueues(f)
  PROVE  OwnerInv'
<1> USE OwnerAssumption
    DEF OwnerInv, QuitCameThrough, Leaving, vars, loopVars, queueVars, pollVars, threadVars
<1>1. CASE StartLoop
  BY <1>1 DEF StartLoop
<1>2. CASE WaitForLoop \/ SpuriousWakeup
  BY <1>2 DEF WaitForLoop, SpuriousWakeup
<1>3. CASE Destruct
  BY <1>3 DEF Destruct
<1>4. CASE CallQuit
  BY <1>4 DEF CallQuit, Quit
<1>5. CASE FinishCall
  BY <1>5 DEF FinishCall, Finish, WriteWakeupFd, QuitRefused, QuitAccepted
<1>6. CASE QuitReturns \/ Join
  BY <1>6 DEF QuitReturns, Join
<1>7. CASE \E f \in Functors : OwnerQueues(f)
  BY <1>7 DEF OwnerQueues, QueueInLoop
<1> QED
  BY <1>1, <1>2, <1>3, <1>4, <1>5, <1>6, <1>7 DEF OwnerStep

\* The steps of the loop's own thread keep the invariant.
LEMMA LoopThreadSteps ==
  ASSUME OwnerInv,
         InitCallback \/ ThreadRuns \/ LoopThreadRuns \/ LoopTimesOut \/ LoopCallback
  PROVE  OwnerInv'
<1> USE OwnerAssumption
    DEF OwnerInv, QuitCameThrough, Leaving, vars, loopVars, queueVars, pollVars, threadVars
<1>1. CASE InitCallback
  BY <1>1 DEF InitCallback, OwnCall, OwnQuit, OwnQueueInLoop, OwnRunInLoop
<1>2. CASE Publish
  BY <1>2 DEF Publish
<1>3. CASE CallLoop
  BY <1>3 DEF CallLoop, Loop
<1>4. CASE ClearLoop
  BY <1>4 DEF ClearLoop
<1>5. CASE DestroyLoop
  BY <1>5 DEF DestroyLoop
<1>6. CASE LoopThreadRuns
  <2>1. thread = "looping" /\ LoopStep /\ UNCHANGED <<loopSet, owner, thread, selfQuit>>
    BY <1>6 DEF LoopThreadRuns
  <2>2. CASE Start \/ Check \/ Stop
    BY <2>1, <2>2 DEF Start, Check, Stop
  <2>3. CASE PollReady
    BY <2>1, <2>3 DEF PollReady, PollReturns
  <2>4. CASE HandleRead \/ HandleEvent
    BY <2>1, <2>4 DEF HandleRead, HandleEvent
  <2>5. CASE BeginPendingFunctors \/ SwapPendingFunctors \/ RunFunctor \/ EndPendingFunctors
    BY <2>1, <2>5 DEF BeginPendingFunctors, SwapPendingFunctors, RunFunctor, EndPendingFunctors
  <2> QED
    BY <2>1, <2>2, <2>3, <2>4, <2>5 DEF LoopStep
<1>7. CASE LoopTimesOut
  BY <1>7 DEF LoopTimesOut, PollTimeout, PollReturns
<1>8. CASE LoopCallback
  <2>1. /\ thread = "looping" /\ OwnCall /\ UNCHANGED <<loopSet, owner, thread, quitLost>>
        /\ selfQuit' = (selfQuit \/ quit' # quit)
    BY <1>8 DEF LoopCallback
  <2>2. pc' = pc /\ tpc' = tpc /\ looping' = looping /\ pc # "idle"
    BY <1>8 DEF LoopCallback, InCallback, OwnCall, OwnQuit, OwnQueueInLoop, OwnRunInLoop
  <2>3. CASE quit' = quit
    BY <2>1, <2>2, <2>3
  <2>4. CASE quit' # quit
    BY <2>1, <2>2, <2>4
  <2> QED
    BY <2>3, <2>4
<1> QED
  BY <1>1, <1>2, <1>3, <1>4, <1>5, <1>6, <1>7, <1>8 DEF ThreadRuns

\* Whatever the owner and the loop's callbacks do, short of a quit() of a
\* callback, the owner touches the destroyed EventLoop only in the wakeup() at
\* the end of its quit(), for any number of functors and any eventfd.
THEOREM DeadLoopOnlyWokenUp == TSpec => []OnlyWakeupTouchesDeadLoop
<1>1. TInit => OwnerInv
  BY OwnerAssumption DEF TInit, Init, OwnerInv, Leaving
<1>2. OwnerInv /\ [TNext]_allVars => OwnerInv'
  <2> SUFFICES ASSUME OwnerInv, [TNext]_allVars PROVE OwnerInv'
    OBVIOUS
  <2>1. CASE UNCHANGED allVars
    BY <2>1 DEF allVars, vars, loopVars, queueVars, pollVars, threadVars,
                OwnerInv, QuitCameThrough, Leaving
  <2> QED
    BY <2>1, OwnerSteps, LoopThreadSteps DEF TNext
<1>3. OwnerInv => OnlyWakeupTouchesDeadLoop
  BY DEF OwnerInv, QuitCameThrough, Leaving, OnlyWakeupTouchesDeadLoop
<1> QED
  BY <1>1, <1>2, <1>3, PTL DEF TSpec
=============================================================================
