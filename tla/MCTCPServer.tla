---------------------------- MODULE MCTCPServer -----------------------------
(***************************************************************************)
(* TCPServer for TLC: the clients are model values.                        *)
(***************************************************************************)
EXTENDS TCPServer
=============================================================================
