----------------------------- MODULE BloomFilter -----------------------------
(***************************************************************************)
(* The Bloom filter an SSTable carries (BloomFilter): an array of bytes in *)
(* which a key sets the bits that double hashing gives it.  The two hash   *)
(* functions of a string, fnv1a and djb2, are constants: any functions     *)
(* will do.  So are the sizes that calculateOptimalParams computes from    *)
(* the number of keys and the rate of false positives.                     *)
(***************************************************************************)
EXTENDS Integers

CONSTANTS
    Word,              \* 2^32, what ">>> 0" wraps at
    Hash1, Hash2,      \* fnv1a and djb2 of every key
    NumBits,           \* numBits
    NumHashFunctions   \* numHashFunctions

ASSUME BloomAssumption ==
    /\ Word \in Nat \ {0}
    /\ DOMAIN Hash1 = DOMAIN Hash2
    /\ \A k \in DOMAIN Hash1 : Hash1[k] \in Nat /\ Hash2[k] \in Nat
    /\ NumBits \in Nat \ {0}
    /\ NumHashFunctions \in Nat \ {0}

(* The bytes of the filter; a byte is the set of its bits that are set. *)
Bytes == 0..((NumBits + 7) \div 8 - 1)

Bits == [Bytes -> SUBSET (0..7)]

NoBits == [b \in Bytes |-> {}]

(* getCombinedHash: hash1 + i * hash2, unsigned, modulo numBits. *)
CombinedHash(key, i) == ((Hash1[key] + i * Hash2[key]) % Word) % NumBits

BitsOf(key) == {CombinedHash(key, i) : i \in 0..(NumHashFunctions - 1)}

(* add: setBit for each of the key's bits. *)
AddKey(bits, key) ==
    [b \in Bytes |->
        bits[b] \cup {n \in 0..7 : \E p \in BitsOf(key) : p \div 8 = b /\ p % 8 = n}]

GetBit(bits, p) == p % 8 \in bits[p \div 8]

(* mightContain: all of the key's bits are set. *)
MightContain(bits, key) == \A p \in BitsOf(key) : GetBit(bits, p)
=============================================================================
