----------------------------- MODULE MCMemTable -----------------------------
(* MemTable on small instances. *)
EXTENDS MemTable
=============================================================================
