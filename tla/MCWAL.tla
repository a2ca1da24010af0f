------------------------------- MODULE MCWAL --------------------------------
(* WAL on small instances. *)
EXTENDS WAL
=============================================================================
