------------------------------ MODULE Executor ------------------------------
(***************************************************************************)
(* What an EventLoop promises to the callers of runInLoop() and            *)
(* queueInLoop() (polaris/include/polaris/EventLoop.h:89-97): functors     *)
(* are run once each, in the order of queueing; a functor that the         *)
(* loop thread hands to runInLoop() is run at once.                        *)
(***************************************************************************)
EXTENDS Sequences, Functions

CONSTANT Functors   \* the callbacks; each is submitted at most once

VARIABLES queue,    \* submitted and not yet finished, in order
          done      \* finished, in order

Fresh(f) == f \notin Range(queue) \cup Range(done)

Init == queue = <<>> /\ done = <<>>

Queue(f) == Fresh(f) /\ queue' = Append(queue, f) /\ UNCHANGED done

RunNow(f) == Fresh(f) /\ done' = Append(done, f) /\ UNCHANGED queue

Run == /\ queue # <<>>
       /\ done' = Append(done, Head(queue))
       /\ queue' = Tail(queue)

Next == Run \/ \E f \in Functors : Queue(f) \/ RunNow(f)

Spec == Init /\ [][Next]_<<queue, done>>
=============================================================================
