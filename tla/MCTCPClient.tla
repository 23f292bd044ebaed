---------------------------- MODULE MCTCPClient -----------------------------
(***************************************************************************)
(* TCPClient for TLC: the threads are model values.                        *)
(***************************************************************************)
EXTENDS TCPClient
=============================================================================
