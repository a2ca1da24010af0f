---------------------------- MODULE MCTCPStream -----------------------------
(* TCPStream with a few calls, for TLC. *)
EXTENDS TCPStream
=============================================================================
