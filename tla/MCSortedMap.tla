---------------------------- MODULE MCSortedMap -----------------------------
(* SortedMap on small instances. *)
EXTENDS SortedMap

(* One key in the middle is overwritten with another value; the shape of   *)
(* the tree does not depend on the values of the rest.                     *)
OneChanges == [k \in Keys |-> IF k = 5 THEN Values ELSE {1}]
=============================================================================
