--------------------------- MODULE MCEventLoop ------------------------------
(***************************************************************************)
(* An EventLoop for TLC: one that a thread of its own runs and any thread  *)
(* calls, or the one inside an EventLoopThread.                            *)
(***************************************************************************)
EXTENDS EventLoopThread

VARIABLE owned   \* the loop is an EventLoopThread's; chosen at the start

MCInit == owned \in BOOLEAN /\ TInit

MCNext ==
  /\ \/ ~owned /\ Next /\ UNCHANGED threadVars
     \/ owned /\ TNext
  /\ UNCHANGED owned

\* Of the two fairness conditions one is about actions that cannot happen, or
\* follows from the other.
MCSpec == MCInit /\ [][MCNext]_<<owned, allVars>> /\ Fairness /\ TFairness
=============================================================================
