---------------------------- MODULE MCRangeRead -----------------------------
(* RangeRead on small stores, for TLC. *)
EXTENDS RangeRead

(* Every stack of two SSTables an earlier life may have left; only the     *)
(* upper one has tombstones, below which they hide something.              *)
Two == {p \in [1..2 -> Table \ {EmptyTable}] : \A k \in Keys : p[1][k] # Tombstone}

(* The range from the first key to the last. *)
Whole == {<<1, 2>>}
=============================================================================
