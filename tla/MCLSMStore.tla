----------------------------- MODULE MCLSMStore -----------------------------
(* Instances of LSMStore for TLC. *)
EXTENDS LSMStore, TLC

(* A store that starts with an empty data directory. *)
Fresh == {<< >>}

(* A store that starts with n SSTables of earlier lives, in every possible *)
(* distribution of values and tombstones over them.                        *)
Stacks(n) == [1..n -> Table \ {EmptyTable}]

Two == Stacks(2)

ValueSymmetry == Permutations(Values)
=============================================================================
