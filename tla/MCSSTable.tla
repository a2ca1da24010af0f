----------------------------- MODULE MCSSTable ------------------------------
(* SSTable with small hash functions, under which keys collide, a filter   *)
(* of two bytes, and two entries that readEntryAt cannot read: too few     *)
(* bytes are set aside for one, too many for the other.                    *)
EXTENDS SSTable

MCHash1 == [k \in Probes |-> (5 * k) % 16]
MCHash2 == [k \in Probes |-> (7 * k + 3) % 16]
MCReserved ==
    [e \in DataEntry |-> IF e = [key |-> 2, size |-> 2] THEN 1
                         ELSE IF e = [key |-> 5, size |-> 2] THEN 9 ELSE 3]
=============================================================================
