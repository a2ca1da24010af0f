--------------------------- MODULE MCReplication ----------------------------
(* Replication on small instances. *)
EXTENDS Replication, TLC

(* Connections are only told apart by what happens on them. *)
ConnSymmetry == Permutations(Conns)
=============================================================================
