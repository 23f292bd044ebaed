--------------------------- MODULE MCTimerQueue -----------------------------
(* Model of TimerQueue for TLC.                                            *)
EXTENDS TimerQueue
=============================================================================
