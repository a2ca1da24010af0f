-------------------------- MODULE MCMergeIterator ---------------------------
(* MergeIterator with concrete keys, for the model checker. *)
EXTENDS MergeIterator
=============================================================================
