------------------------ MODULE MCEventLoopThread ---------------------------
(* Model of EventLoopThread for TLC.                                       *)
EXTENDS EventLoopThread
=============================================================================
