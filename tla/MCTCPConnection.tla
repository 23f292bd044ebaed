-------------------------- MODULE MCTCPConnection ---------------------------
(* Model of TCPConnection for TLC.                                         *)
EXTENDS TCPConnection
=============================================================================
