--------------------------- MODULE SSTableProofs ----------------------------
(***************************************************************************)
(* The Bloom filter of an SSTable denies no key the file holds, and a file *)
(* under its final name is complete, for every choice of keys, sizes, hash *)
(* functions, filter size and index interval.                              *)
(***************************************************************************)
EXTENDS SSTable, WellFoundedInduction, TLAPS

-----------------------------------------------------------------------------
(* Induction and recursion up to a number *)

(* A set of numbers has a least one. *)
LEMMA LeastNumber ==
    ASSUME NEW T \in SUBSET Nat, T # {}
    PROVE  \E m \in T : \A n \in T : m <= n
<1> DEFINE R == {p \in Nat \X Nat : p[1] < p[2]}
<1>1. IsWellFoundedOn(R, Nat)
  BY NatLessThanWellFounded DEF OpToRel
<1>2. \A i, j \in Nat : i < j => <<i, j>> \in R
  OBVIOUS
<1> HIDE DEF R
<1>3. PICK m \in T : \A n \in T : ~ (<<n, m>> \in R)
  BY <1>1, WFMin
<1>4. \A n \in T : ~ (n < m)
  BY <1>2, <1>3
<1>5. \A n \in T : m <= n
  BY <1>4
<1> QED
  BY <1>5

(* What holds of 0, and of the next number whenever it holds of a number   *)
(* below n, holds up to n.                                                 *)
LEMMA UptoInduction ==
    ASSUME NEW n \in Nat, NEW Good, 0 \in Good,
           \A i \in 0..(n - 1) : i \in Good => i + 1 \in Good
    PROVE  0..n \subseteq Good
<1> SUFFICES ASSUME NEW bad \in 0..n, bad \notin Good PROVE FALSE
  OBVIOUS
<1> DEFINE T == {i \in 0..n : i \notin Good}
<1>1. PICK m \in T : \A i \in T : m <= i
  <2>1. T \in SUBSET Nat /\ T # {}
    OBVIOUS
  <2> HIDE DEF T
  <2> QED
    BY <2>1, LeastNumber
<1>2. m \in 0..n /\ m \notin Good /\ m # 0
  OBVIOUS
<1>3. m - 1 \in 0..(n - 1) /\ m - 1 \in 0..n /\ ~ (m <= m - 1)
      /\ (m - 1) + 1 = m
  BY <1>2
<1>4. m - 1 \in Good
  BY <1>1, <1>3
<1> QED
  BY <1>2, <1>3, <1>4

(* f is defined on 0..n by its value at 0 and the step from each value to  *)
(* the next; step[i] is the step to i.                                     *)
DefinedUpto(f, n, V, base, step) ==
    /\ f \in [0..n -> V]
    /\ f[0] = base
    /\ \A i \in 1..n : f[i] = step[i][f[i - 1]]

(* There is a function defined in this way.                                *)
LEMMA RecursionUpto ==
    ASSUME NEW n \in Nat, NEW V, NEW base \in V,
           NEW step \in [1..n -> [V -> V]]
    PROVE  \E f : DefinedUpto(f, n, V, base, step)
<1> DEFINE Defined(f, m) == /\ f[0] = base
                            /\ \A i \in 1..m : f[i] = step[i][f[i - 1]]
           Good == {m \in 0..n : \E f \in [0..n -> V] : Defined(f, m)}
<1>1. 0 \in Good
  <2> DEFINE f == [i \in 0..n |-> base]
  <2>1. f \in [0..n -> V] /\ f[0] = base /\ 0 \in 0..n
    OBVIOUS
  <2> HIDE DEF f
  <2> QED
    BY <2>1
<1>2. ASSUME NEW m \in 0..(n - 1), m \in Good PROVE m + 1 \in Good
  <2>1. PICK f \in [0..n -> V] : Defined(f, m)
    BY <1>2
  <2>2. m + 1 \in 1..n /\ m + 1 \in 0..n /\ m \in 0..n
    OBVIOUS
  <2> DEFINE next == step[m + 1][f[m]]
             g == [f EXCEPT ![m + 1] = next]
  <2>3. next \in V
    BY <2>1, <2>2
  <2>4. g \in [0..n -> V] /\ g[m + 1] = next
        /\ \A i \in 0..m : g[i] = f[i]
    BY <2>1, <2>2, <2>3
  <2> HIDE DEF g
  <2>5. ASSUME NEW i \in 1..(m + 1) PROVE g[i] = step[i][g[i - 1]]
    <3>1. i - 1 \in 0..m
      OBVIOUS
    <3>2. g[i - 1] = f[i - 1]
      BY <2>4, <3>1
    <3>3. CASE i = m + 1
      BY <2>4, <3>2, <3>3
    <3>4. CASE i \in 1..m
      <4>1. g[i] = f[i]
        BY <2>4, <3>4
      <4> QED
        BY <2>1, <3>2, <3>4, <4>1
    <3> QED
      BY <3>3, <3>4
  <2>6. g[0] = base
    BY <2>1, <2>4
  <2>7. Defined(g, m + 1)
    BY <2>5, <2>6
  <2> QED
    BY <2>2, <2>4, <2>7
<1>3. n \in Good
  <2>1. \A i \in 0..(n - 1) : i \in Good => i + 1 \in Good
    BY <1>2
  <2>2. 0..n \subseteq Good
    <3> HIDE DEF Good
    <3> QED
      BY <1>1, <2>1, UptoInduction, Zenon
  <2>3. n \in 0..n
    OBVIOUS
  <2> QED
    BY <2>2, <2>3
<1>4. PICK f \in [0..n -> V] : Defined(f, n)
  BY <1>3
<1>5. DefinedUpto(f, n, V, base, step)
  BY <1>4 DEF DefinedUpto
<1> QED
  BY <1>5

-----------------------------------------------------------------------------
(* A key's bits lie inside the byte array. *)
LEMMA BitsInside ==
    ASSUME NEW key \in DOMAIN Hash1, NEW p \in BitsOf(key)
    PROVE  p \div 8 \in Bytes /\ p % 8 \in 0..7
<1>1. PICK i \in 0..(NumHashFunctions - 1) : p = CombinedHash(key, i)
  BY DEF BitsOf
<1>2. Hash1[key] \in Nat /\ Hash2[key] \in Nat /\ i \in Nat
  BY BloomAssumption
<1> DEFINE sum == Hash1[key] + i * Hash2[key]
<1>3. sum \in Nat
  BY <1>2
<1> DEFINE word == sum % Word
<1>4. word \in Nat
  <2> HIDE DEF sum
  <2> QED BY <1>3, BloomAssumption
<1>5. word % NumBits \in 0..(NumBits - 1)
  <2> HIDE DEF word
  <2> QED BY <1>4, BloomAssumption
<1>6. p \in 0..(NumBits - 1)
  BY <1>1, <1>5 DEF CombinedHash
<1> QED
  BY <1>6, BloomAssumption DEF Bytes

(* The filter of a new file is a byte array. *)
LEMMA NoBitsType == NoBits \in Bits
BY DEF NoBits, Bits

(* Adding a key sets bits inside the bytes of the array. *)
LEMMA AddKeyType ==
    ASSUME NEW bits \in Bits, NEW key
    PROVE  AddKey(bits, key) \in Bits
BY DEF AddKey, Bits

(* A key that was added might be contained. *)
LEMMA AddKeyFound ==
    ASSUME NEW bits \in Bits, NEW key \in DOMAIN Hash1
    PROVE  MightContain(AddKey(bits, key), key)
<1> SUFFICES ASSUME NEW p \in BitsOf(key)
             PROVE  p % 8 \in AddKey(bits, key)[p \div 8]
  BY DEF MightContain, GetBit
<1>1. p \div 8 \in Bytes /\ p % 8 \in 0..7
  BY BitsInside
<1> QED
  BY <1>1 DEF AddKey

(* Adding a key takes no other away. *)
LEMMA AddKeyKeeps ==
    ASSUME NEW bits \in Bits, NEW key, NEW other \in DOMAIN Hash1,
           MightContain(bits, other)
    PROVE  MightContain(AddKey(bits, key), other)
<1> SUFFICES ASSUME NEW p \in BitsOf(other)
             PROVE  p % 8 \in AddKey(bits, key)[p \div 8]
  BY DEF MightContain, GetBit
<1>1. p \div 8 \in Bytes
  BY BitsInside
<1>2. p % 8 \in bits[p \div 8]
  BY DEF MightContain, GetBit
<1> QED
  BY <1>1, <1>2 DEF AddKey

-----------------------------------------------------------------------------
(* The entries a writer holds and what the file holds of them. *)
FileType ==
    /\ entries \in Seq(DataEntry)
    /\ file.data \in Seq(DataEntry)
    /\ file.bits \in Bits
    /\ file = [name |-> file.name, data |-> file.data,
               index |-> file.index, bits |-> file.bits]

FilterInv == FileType /\ NoFalseNegatives

(* Every key that can be in a file has its two hashes. *)
LEMMA KeysHashed ==
    ASSUME NEW e \in DataEntry
    PROVE  e.key \in DOMAIN Hash1
BY SSTableAssumption DEF DataEntry, Probes

(* A removed temporary file holds no key. *)
LEMMA NoFileInv ==
    ASSUME FilterInv, entries' \in Seq(DataEntry), file' = NoFile
    PROVE  FilterInv'
BY NoBitsType DEF FilterInv, FileType, NoFalseNegatives, NoFile

(* A change of the file's name alone. *)
LEMMA RenameInv ==
    ASSUME FilterInv, NEW name, file' = [file EXCEPT !.name = name],
           UNCHANGED entries
    PROVE  FilterInv'
BY DEF FilterInv, FileType, NoFalseNegatives

(* The loop of build() adds the key of the entry it writes to the filter. *)
LEMMA WriteEntryInv == FilterInv /\ WriteEntry => FilterInv'
<1> SUFFICES ASSUME FilterInv, WriteEntry PROVE FilterInv'
  OBVIOUS
<1> DEFINE e == entries[Len(file.data) + 1]
<1>1. e \in DataEntry
  BY DEF FilterInv, FileType, WriteEntry
<1>2. file' = [file EXCEPT !.data = Append(file.data, e), !.index = Indexed(e),
                           !.bits = AddKey(file.bits, e.key)]
  BY DEF WriteEntry, Filtered
<1> HIDE DEF e
<1>3. file'.data = Append(file.data, e) /\ file'.bits = AddKey(file.bits, e.key)
  BY <1>2 DEF FilterInv, FileType
<1>4. FileType'
  <2>1. entries' \in Seq(DataEntry)
    BY DEF WriteEntry, FilterInv, FileType
  <2>2. file'.data \in Seq(DataEntry)
    BY <1>1, <1>3 DEF FilterInv, FileType
  <2>3. file'.bits \in Bits
    BY <1>3, AddKeyType DEF FilterInv, FileType
  <2>4. file' = [name |-> file'.name, data |-> file'.data,
                 index |-> file'.index, bits |-> file'.bits]
    BY <1>2 DEF FilterInv, FileType
  <2> QED
    BY <2>1, <2>2, <2>3, <2>4 DEF FileType
<1>5. NoFalseNegatives'
  <2> SUFFICES ASSUME NEW i \in 1..Len(file'.data)
               PROVE  MightContain(file'.bits, file'.data[i].key)
    BY DEF NoFalseNegatives, MightContain, GetBit
  <2>1. CASE i = Len(file.data) + 1
    <3>1. file'.data[i] = e
      BY <1>1, <1>3, <2>1 DEF FilterInv, FileType
    <3> QED
      BY <1>1, <1>3, <3>1, KeysHashed, AddKeyFound DEF FilterInv, FileType
  <2>2. CASE i \in 1..Len(file.data)
    <3>1. file'.data[i] = file.data[i] /\ file.data[i] \in DataEntry
      BY <1>1, <1>3, <2>2 DEF FilterInv, FileType
    <3>2. MightContain(file.bits, file.data[i].key)
      BY <2>2 DEF FilterInv, NoFalseNegatives
    <3> QED
      BY <1>3, <3>1, <3>2, KeysHashed, AddKeyKeeps DEF FilterInv, FileType
  <2> QED
    BY <1>1, <1>3, <2>1, <2>2 DEF FilterInv, FileType
<1> QED
  BY <1>4, <1>5 DEF FilterInv

(* No other step changes the data or the filter but to begin or end a file. *)
LEMMA NextInv == FilterInv /\ [Next]_vars => FilterInv'
<1> SUFFICES ASSUME FilterInv, [Next]_vars PROVE FilterInv'
  OBVIOUS
<1>1. CASE UNCHANGED <<entries, file>>
  BY <1>1 DEF FilterInv, FileType, NoFalseNegatives
<1>2. ASSUME NEW e \in DataEntry, Add(e) PROVE FilterInv'
  BY <1>2 DEF Add, FilterInv, FileType, NoFalseNegatives
<1>3. CASE Build
  <2>1. file' = [NoFile EXCEPT !.name = "tmp"] /\ entries' = entries
    BY <1>3 DEF Build
  <2> QED
    BY <2>1, NoBitsType DEF NoFile, FilterInv, FileType, NoFalseNegatives
<1>4. CASE WriteEntry
  BY <1>4, WriteEntryInv
<1>5. CASE Finish
  BY <1>5, RenameInv DEF Finish
<1>6. CASE BuildFails
  BY <1>6, NoFileInv DEF BuildFails, FilterInv, FileType
<1>7. CASE \/ Crash \/ Open \/ Scan \/ ReadFails \/ ScanEnds \/ Close
           \/ Answered \/ Ended
  BY <1>1, <1>7 DEF Crash, Open, Scan, ReadFails, ScanEnds,
                    Close, Answered, Ended, vars
<1>8. ASSUME NEW k \in Keys, Get(k) PROVE FilterInv'
  BY <1>1, <1>8 DEF Get, Ask
<1>9. ASSUME NEW from, NEW to, Iterate(from, to) PROVE FilterInv'
  BY <1>1, <1>9 DEF Iterate, Ask
<1> QED
  BY <1>1, <1>2, <1>3, <1>4, <1>5, <1>6, <1>7, <1>8, <1>9 DEF Next, vars

(* Whatever is built, interrupted, opened, read and closed, the filter of  *)
(* the file answers "maybe" for every key the file holds.                  *)
THEOREM FilterComplete == Spec => []NoFalseNegatives
<1>1. Init => FilterInv
  BY NoBitsType DEF Init, NoFile, FilterInv, FileType, NoFalseNegatives
<1>2. FilterInv /\ [Next]_vars => FilterInv'
  BY NextInv
<1>3. FilterInv => NoFalseNegatives
  BY DEF FilterInv
<1> QED
  BY <1>1, <1>2, <1>3, PTL DEF Spec

-----------------------------------------------------------------------------
(* A file under its final name is complete. *)

(* What the file holds at each stage of build(): nothing before it, the    *)
(* entries written so far while it runs, all of them when it has its final *)
(* name; what is left of a build that failed never has that name.          *)
Stages ==
    /\ writer = "adding" => file.name = "none"
    /\ writer = "building" =>
         /\ file.name = "tmp"
         /\ Len(file.data) <= Len(entries)
         /\ \A i \in 1..Len(file.data) : file.data[i] = entries[i]
    /\ writer = "failed" => file.name # "final"

CompleteInv ==
    /\ FileType
    /\ writer \in {"adding", "building", "built", "failed"}
    /\ Stages
    /\ FinalIsComplete

(* While entries are added there is no file. *)
LEMMA AddComplete ==
    ASSUME CompleteInv, FilterInv', NEW e \in DataEntry, Add(e)
    PROVE  CompleteInv'
BY DEF Add, CompleteInv, FilterInv, FileType, Stages, FinalIsComplete

(* The temporary file starts without entries. *)
LEMMA BuildComplete ==
    ASSUME CompleteInv, FilterInv', Build
    PROVE  CompleteInv'
<1>1. file'.name = "tmp" /\ file'.data = << >>
  BY DEF Build, NoFile
<1> QED
  BY <1>1 DEF Build, CompleteInv, FilterInv, FileType, Stages, FinalIsComplete

(* The entry that is written is the next one of those that were added. *)
LEMMA WriteEntryComplete ==
    ASSUME CompleteInv, FilterInv', WriteEntry
    PROVE  CompleteInv'
<1> DEFINE e == entries[Len(file.data) + 1]
<1>1. e \in DataEntry
  BY DEF CompleteInv, FileType, WriteEntry
<1>2. file'.data = Append(file.data, e) /\ file'.name = file.name
  BY DEF WriteEntry, CompleteInv, FileType
<1>3. /\ Len(file'.data) = Len(file.data) + 1
      /\ file'.data[Len(file.data) + 1] = e
      /\ \A i \in 1..Len(file.data) : file'.data[i] = file.data[i]
  <2> HIDE DEF e
  <2> QED
    BY <1>1, <1>2 DEF CompleteInv, FileType
<1>4. writer = "building" /\ writer' = writer /\ entries' = entries
      /\ Len(file.data) < Len(entries)
  BY DEF WriteEntry
<1>5. Len(file.data) \in Nat /\ Len(entries) \in Nat
  BY DEF CompleteInv, FileType
<1>6. Stages'
  BY <1>2, <1>3, <1>4, <1>5 DEF CompleteInv, Stages
<1>7. FinalIsComplete'
  BY <1>2, <1>4 DEF CompleteInv, Stages, FinalIsComplete
<1> QED
  BY <1>4, <1>6, <1>7 DEF CompleteInv, FilterInv

(* A file is renamed when as many entries are written as were added; they  *)
(* are those entries, in their order.                                      *)
LEMMA FinishComplete ==
    ASSUME CompleteInv, FilterInv', Finish
    PROVE  CompleteInv'
<1>1. file'.data = file.data /\ file'.name = "final" /\ entries' = entries
  BY DEF Finish, CompleteInv, FileType
<1>2. file.data = entries
  BY DEF Finish, CompleteInv, FileType, Stages
<1> QED
  BY <1>1, <1>2 DEF Finish, CompleteInv, FilterInv, Stages, FinalIsComplete

(* A build that fails or is cut off leaves no file or a temporary one. *)
LEMMA FailComplete ==
    ASSUME CompleteInv, FilterInv', BuildFails \/ Crash
    PROVE  CompleteInv'
<1>1. file'.name # "final"
  BY DEF BuildFails, Crash, NoFile, CompleteInv, Stages
<1> QED
  BY <1>1
  DEF BuildFails, Crash, CompleteInv, FilterInv, Stages, FinalIsComplete

(* Readers and failed builders leave the file as it is. *)
LEMMA NextComplete == CompleteInv /\ FilterInv' /\ [Next]_vars => CompleteInv'
<1> SUFFICES ASSUME CompleteInv, FilterInv', [Next]_vars
             PROVE  CompleteInv'
  OBVIOUS
<1>1. CASE UNCHANGED <<entries, file, writer>>
  BY <1>1 DEF CompleteInv, FileType, Stages, FinalIsComplete
<1>2. CASE \/ Open \/ Scan \/ ReadFails \/ ScanEnds \/ Close \/ Answered
           \/ Ended
  BY <1>1, <1>2
  DEF Open, Scan, ReadFails, ScanEnds, Close, Answered, Ended, vars
<1>3. ASSUME NEW k \in Keys, Get(k) PROVE CompleteInv'
  BY <1>1, <1>3 DEF Get, Ask
<1>4. ASSUME NEW from, NEW to, Iterate(from, to) PROVE CompleteInv'
  BY <1>1, <1>4 DEF Iterate, Ask
<1> QED
  BY <1>1, <1>2, <1>3, <1>4, AddComplete, BuildComplete, WriteEntryComplete,
     FinishComplete, FailComplete DEF Next, vars

(* Whatever fails and whenever the process ends, what a reader can open    *)
(* holds exactly the entries that were added: build() writes under a       *)
(* temporary name and renames at the end.                                  *)
THEOREM FinalFilesAreComplete == Spec => []FinalIsComplete
<1>1. Init => CompleteInv /\ FilterInv
  BY NoBitsType DEF Init, NoFile, CompleteInv, FilterInv, FileType, Stages,
     FinalIsComplete, NoFalseNegatives
<1>2. CompleteInv /\ FilterInv /\ [Next]_vars => CompleteInv' /\ FilterInv'
  BY NextInv, NextComplete
<1>3. CompleteInv => FinalIsComplete
  BY DEF CompleteInv
<1> QED
  BY <1>1, <1>2, <1>3, PTL DEF Spec

-----------------------------------------------------------------------------
(* Offsets *)

(* The offsets are what their recursive definition says. *)
LEMMA StartsDefined ==
    ASSUME NEW data \in Seq(DataEntry)
    PROVE  /\ Starts(data) \in [0..Len(data) -> Nat]
           /\ Starts(data)[0] = 0
           /\ \A i \in 1..Len(data) :
                  Starts(data)[i] = Starts(data)[i - 1] + data[i].size
<1> DEFINE n == Len(data)
           Def(f) == [i \in 0..n |-> IF i = 0 THEN 0
                                     ELSE f[i - 1] + data[i].size]
           start == CHOOSE f : f = Def(f)
           step == [i \in 1..n |-> [v \in Nat |-> v + data[i].size]]
<1>1. Starts(data) = start
  BY DEF Starts
<1>2. n \in Nat /\ 0 \in Nat
  OBVIOUS
<1>3. \A i \in 1..n : data[i].size \in Nat
  <2>1. \A i \in 1..n : data[i] \in DataEntry
    OBVIOUS
  <2> QED
    BY <2>1, SSTableAssumption DEF DataEntry
<1>4. step \in [1..n -> [Nat -> Nat]]
  BY <1>3
<1>5. PICK f : DefinedUpto(f, n, Nat, 0, step)
  <2> HIDE DEF step, n
  <2> QED
    BY <1>2, <1>4, RecursionUpto
<1>6. /\ f \in [0..n -> Nat] /\ f[0] = 0
       /\ \A i \in 1..n : f[i] = step[i][f[i - 1]]
  BY <1>5 DEF DefinedUpto
<1>7. \A i \in 1..n : f[i] = f[i - 1] + data[i].size
  <2> SUFFICES ASSUME NEW i \in 1..n PROVE f[i] = f[i - 1] + data[i].size
    OBVIOUS
  <2>1. f[i - 1] \in Nat
    BY <1>2, <1>6
  <2> QED
    BY <1>6, <2>1
<1>8. f = Def(f)
  BY <1>2, <1>6, <1>7
<1>9. start = Def(start)
  <2> HIDE DEF Def
  <2> QED
    BY <1>8
<1> HIDE DEF start
<1>10. start[0] = 0 /\ \A i \in 1..n : start[i] = start[i - 1] + data[i].size
  <2>1. \A i \in 0..n :
            start[i] = IF i = 0 THEN 0 ELSE start[i - 1] + data[i].size
    BY <1>9
  <2>2. 0 \in 0..n /\ \A i \in 1..n : i \in 0..n /\ i # 0
    BY <1>2
  <2> QED
    BY <2>1, <2>2
<1>11. start \in [0..n -> Nat]
  <2> DEFINE Good == {i \in 0..n : start[i] \in Nat}
  <2>1. 0 \in Good
    BY <1>2, <1>10
  <2>2. \A i \in 0..(n - 1) : i \in Good => i + 1 \in Good
    <3> SUFFICES ASSUME NEW i \in 0..(n - 1), start[i] \in Nat
                 PROVE  start[i + 1] \in Nat /\ i + 1 \in 0..n
      OBVIOUS
    <3>1. i + 1 \in 1..n /\ (i + 1) - 1 = i
      BY <1>2
    <3>2. start[i + 1] = start[i] + data[i + 1].size
      BY <1>10, <3>1
    <3> QED
      BY <1>3, <3>1, <3>2
  <2>3. 0..n \subseteq Good
    <3> HIDE DEF Good, n
    <3> QED
      BY <1>2, <2>1, <2>2, UptoInduction, Zenon
  <2>4. \A i \in 0..n : start[i] \in Nat
    BY <2>3
  <2> QED
    BY <1>9, <2>4
<1> QED
  BY <1>1, <1>10, <1>11

(* Entries start one behind the other. *)
LEMMA StartNext ==
    ASSUME NEW data \in Seq(DataEntry)
    PROVE  /\ Start(data, 1) = 0
           /\ \A i \in 1..(Len(data) + 1) : Start(data, i) \in Nat
           /\ \A i \in 1..Len(data) :
                  /\ Start(data, i + 1) = Start(data, i) + data[i].size
                  /\ Start(data, i) < Start(data, i + 1)
<1>1. \A i \in 1..(Len(data) + 1) : i - 1 \in 0..Len(data)
  OBVIOUS
<1>2. \A i \in 1..Len(data) : (i + 1) - 1 = i /\ i \in 0..Len(data)
  OBVIOUS
<1>3. \A i \in 1..Len(data) : data[i].size \in Nat \ {0}
  <2>1. \A i \in 1..Len(data) : data[i] \in DataEntry
    OBVIOUS
  <2> QED
    BY <2>1, SSTableAssumption DEF DataEntry
<1>4. \A i \in 1..(Len(data) + 1) : Start(data, i) \in Nat
  BY <1>1, StartsDefined DEF Start
<1>5. Start(data, 1) = 0
  BY StartsDefined DEF Start
<1>6. ASSUME NEW i \in 1..Len(data)
      PROVE  Start(data, i + 1) = Start(data, i) + data[i].size
  BY <1>2, StartsDefined DEF Start
<1>7. ASSUME NEW i \in 1..Len(data)
      PROVE  Start(data, i) < Start(data, i + 1)
  BY <1>3, <1>4, <1>6, SMTT(30)
<1> QED
  BY <1>4, <1>5, <1>6, <1>7

(* Later entries start later. *)
LEMMA StartAscends ==
    ASSUME NEW data \in Seq(DataEntry),
           NEW i \in 1..(Len(data) + 1), NEW j \in 1..(Len(data) + 1), i < j
    PROVE  Start(data, i) < Start(data, j)
<1> DEFINE Good == {d \in Nat : i + d > Len(data)
                                \/ Start(data, i) < Start(data, i + d + 1)}
           n == Len(data)
<1>1. 0 \in Good
  <2>1. i <= n => i \in 1..n
    OBVIOUS
  <2> QED
    BY <2>1, StartNext
<1>2. ASSUME NEW d \in 0..(n - 1), d \in Good PROVE d + 1 \in Good
  <2>1. CASE i + (d + 1) > n
    BY <2>1
  <2>2. CASE i + (d + 1) <= n
    <3>1. i + d + 1 \in 1..n /\ i + d + 1 \in 1..(n + 1)
          /\ (i + d + 1) + 1 \in 1..(n + 1) /\ ~ (i + d > n)
      BY <2>2
    <3>2. Start(data, i + d + 1) < Start(data, (i + d + 1) + 1)
          /\ Start(data, i + d + 1) \in Nat
          /\ Start(data, (i + d + 1) + 1) \in Nat
          /\ Start(data, i) \in Nat
      BY <3>1, StartNext
    <3>3. Start(data, i) < Start(data, i + d + 1)
      BY <1>2, <3>1
    <3>4. Start(data, i) < Start(data, (i + d + 1) + 1)
      BY <3>2, <3>3
    <3>5. (i + d + 1) + 1 = i + (d + 1) + 1
      OBVIOUS
    <3> QED
      BY <3>4, <3>5
  <2> QED
    BY <2>1, <2>2
<1>3. j - i - 1 \in 0..n /\ n \in Nat /\ ~ (i + (j - i - 1) > n)
      /\ i + (j - i - 1) + 1 = j
  OBVIOUS
<1>4. 0..n \subseteq Good
  <2>1. \A d \in 0..(n - 1) : d \in Good => d + 1 \in Good
    BY <1>2
  <2> HIDE DEF Good, n
  <2> QED
    BY <1>1, <1>3, <2>1, UptoInduction, Zenon
<1>5. i + (j - i - 1) > n \/ Start(data, i) < Start(data, i + (j - i - 1) + 1)
  BY <1>3, <1>4
<1> QED
  BY <1>3, <1>5

(* Data that is added at the end leaves the offsets before it alone. *)
LEMMA StartKept ==
    ASSUME NEW data \in Seq(DataEntry), NEW more \in Seq(DataEntry),
           Len(data) <= Len(more),
           \A i \in 1..Len(data) : more[i] = data[i]
    PROVE  \A i \in 1..(Len(data) + 1) : Start(more, i) = Start(data, i)
<1> DEFINE n == Len(data)
           Good == {i \in 0..n : Start(more, i + 1) = Start(data, i + 1)}
<1>1. 0 \in Good
  BY StartNext
<1>2. ASSUME NEW i \in 0..(n - 1), i \in Good PROVE i + 1 \in Good
  <2>1. /\ i + 1 \in 1..Len(data) /\ i + 1 \in 1..Len(more)
        /\ i + 1 \in 0..n
    OBVIOUS
  <2>2. /\ Start(more, (i + 1) + 1) = Start(more, i + 1) + more[i + 1].size
        /\ Start(data, (i + 1) + 1) = Start(data, i + 1) + data[i + 1].size
    BY <2>1, StartNext
  <2>3. Start(more, i + 1) = Start(data, i + 1) /\ more[i + 1] = data[i + 1]
    BY <1>2, <2>1
  <2> QED
    BY <2>1, <2>2, <2>3
<1>3. 0..n \subseteq Good
  <2>1. \A i \in 0..(n - 1) : i \in Good => i + 1 \in Good
    BY <1>2
  <2>2. n \in Nat
    OBVIOUS
  <2> HIDE DEF Good, n
  <2> QED
    BY <1>1, <2>1, <2>2, UptoInduction, Zenon
<1>4. \A i \in 1..(Len(data) + 1) : i - 1 \in 0..n /\ (i - 1) + 1 = i
  OBVIOUS
<1>5. \A i \in 1..(Len(data) + 1) : i - 1 \in Good
  BY <1>3, <1>4
<1> QED
  BY <1>4, <1>5

(* What the bytes from the start of an entry hold is that entry. *)
LEMMA EntryAtStart ==
    ASSUME file.data \in Seq(DataEntry), NEW p \in 1..Len(file.data)
    PROVE  EntryAt(Start(file.data, p)) = file.data[p]
<1> DEFINE q == CHOOSE i \in 1..Len(file.data) :
                    Start(file.data, i) = Start(file.data, p)
<1>1. q \in 1..Len(file.data) /\ Start(file.data, q) = Start(file.data, p)
  OBVIOUS
<1>2. q = p
  <2> HIDE DEF q
  <2>1. /\ q \in 1..(Len(file.data) + 1) /\ p \in 1..(Len(file.data) + 1)
        /\ Start(file.data, q) \in Nat
    BY <1>1, StartNext
  <2>2. ~ (q < p) /\ ~ (p < q)
    BY <1>1, <2>1, StartAscends
  <2> QED
    BY <2>1, <2>2
<1> QED
  BY <1>2 DEF EntryAt

-----------------------------------------------------------------------------
(* What lies within bounds *)

(* The keys within the bounds are what their recursive definition says. *)
LEMMA HitsDefined ==
    ASSUME entries \in Seq(DataEntry), NEW from, NEW to
    PROVE  /\ Hits(from, to) \in [0..Len(entries) -> Seq(Keys)]
           /\ Hits(from, to)[0] = << >>
           /\ \A i \in 1..Len(entries) :
                  Hits(from, to)[i] =
                      IF Inside(entries[i], from, to)
                      THEN Append(Hits(from, to)[i - 1], entries[i].key)
                      ELSE Hits(from, to)[i - 1]
<1> DEFINE n == Len(entries)
           in(i) == Inside(entries[i], from, to)
           Def(f) == [i \in 0..n |->
                         IF i = 0 THEN << >>
                         ELSE IF in(i) THEN Append(f[i - 1], entries[i].key)
                              ELSE f[i - 1]]
           hits == CHOOSE f : f = Def(f)
           step == [i \in 1..n |-> [v \in Seq(Keys) |->
                       IF in(i) THEN Append(v, entries[i].key) ELSE v]]
<1>1. Hits(from, to) = hits
  BY DEF Hits
<1>2. n \in Nat /\ << >> \in Seq(Keys)
  OBVIOUS
<1>3. \A i \in 1..n : entries[i].key \in Keys
  <2>1. \A i \in 1..n : entries[i] \in DataEntry
    OBVIOUS
  <2> QED
    BY <2>1 DEF DataEntry
<1> HIDE DEF in
<1>4. step \in [1..n -> [Seq(Keys) -> Seq(Keys)]]
  BY <1>3
<1>5. PICK f : DefinedUpto(f, n, Seq(Keys), << >>, step)
  <2> HIDE DEF step, n
  <2> QED
    BY <1>2, <1>4, RecursionUpto
<1>6. /\ f \in [0..n -> Seq(Keys)] /\ f[0] = << >>
      /\ \A i \in 1..n : f[i] = step[i][f[i - 1]]
  BY <1>5 DEF DefinedUpto
<1>7. ASSUME NEW i \in 1..n
      PROVE  f[i] = IF in(i) THEN Append(f[i - 1], entries[i].key)
                    ELSE f[i - 1]
  <2>1. f[i - 1] \in Seq(Keys)
    BY <1>2, <1>6
  <2> QED
    BY <1>6, <2>1
<1>8. f = Def(f)
  <2>1. \A i \in 0..n :
            f[i] = IF i = 0 THEN << >>
                   ELSE IF in(i) THEN Append(f[i - 1], entries[i].key)
                        ELSE f[i - 1]
    <3>1. \A i \in 0..n : i = 0 \/ (i # 0 /\ i \in 1..n)
      BY <1>2
    <3> QED
      BY <1>6, <1>7, <3>1, Zenon
  <2> QED
    BY <1>6, <2>1
<1>9. hits = Def(hits)
  <2> HIDE DEF Def
  <2> QED
    BY <1>8
<1> HIDE DEF hits
<1>10. /\ hits[0] = << >>
       /\ \A i \in 1..n :
              hits[i] = IF in(i) THEN Append(hits[i - 1], entries[i].key)
                        ELSE hits[i - 1]
  <2>1. \A i \in 0..n :
            hits[i] = IF i = 0 THEN << >>
                      ELSE IF in(i) THEN Append(hits[i - 1], entries[i].key)
                           ELSE hits[i - 1]
    BY <1>9
  <2>2. 0 \in 0..n /\ \A i \in 1..n : i \in 0..n /\ i # 0
    BY <1>2
  <2> QED
    BY <2>1, <2>2
<1>11. hits \in [0..n -> Seq(Keys)]
  <2> DEFINE Good == {i \in 0..n : hits[i] \in Seq(Keys)}
  <2>1. 0 \in Good
    <3>1. hits[0] \in Seq(Keys)
      BY <1>2, <1>10
    <3> QED
      BY <1>2, <3>1
  <2>2. \A i \in 0..(n - 1) : i \in Good => i + 1 \in Good
    <3> SUFFICES ASSUME NEW i \in 0..(n - 1), hits[i] \in Seq(Keys)
                 PROVE  hits[i + 1] \in Seq(Keys) /\ i + 1 \in 0..n
      OBVIOUS
    <3>1. i + 1 \in 1..n /\ (i + 1) - 1 = i
      BY <1>2
    <3>2. \/ hits[i + 1] = Append(hits[i], entries[i + 1].key)
          \/ hits[i + 1] = hits[i]
      BY <1>10, <3>1
    <3>3. entries[i + 1].key \in Keys
      BY <1>3, <3>1
    <3>4. Append(hits[i], entries[i + 1].key) \in Seq(Keys)
      BY <3>3
    <3>5. i + 1 \in 0..n
      BY <3>1
    <3> QED
      BY <3>2, <3>4, <3>5, Zenon
  <2>3. 0..n \subseteq Good
    <3> HIDE DEF Good, n
    <3> QED
      BY <1>2, <2>1, <2>2, UptoInduction, Zenon
  <2>4. \A i \in 0..n : hits[i] \in Seq(Keys)
    BY <2>3
  <2> QED
    BY <1>9, <2>4
<1> QED
  BY <1>1, <1>10, <1>11 DEF in

(* What is delivered only grows, at its end. *)
LEMMA HitsGrow ==
    ASSUME entries \in Seq(DataEntry), NEW from, NEW to,
           NEW p \in 0..Len(entries)
    PROVE  LET some == Hits(from, to)[p]
               all == Stored(from, to)
           IN  /\ Len(some) <= Len(all)
               /\ some = SubSeq(all, 1, Len(some))
<1> DEFINE n == Len(entries)
           H == Hits(from, to)
           Extends(long, short) ==
               /\ Len(short) <= Len(long)
               /\ \A i \in 1..Len(short) : long[i] = short[i]
           Good == {d \in 0..n : p + d > n \/ Extends(H[p + d], H[p])}
<1>1. n \in Nat /\ H \in [0..n -> Seq(Keys)]
  BY HitsDefined
<1>2. \A i \in 1..n : \/ H[i] = Append(H[i - 1], entries[i].key)
                      \/ H[i] = H[i - 1]
  BY HitsDefined
<1> HIDE DEF n, H
<1>3. p \in 0..n
  BY DEF n
<1>4. 0 \in Good
  <2>1. p + 0 = p /\ 0 \in 0..n /\ H[p] \in Seq(Keys)
    BY <1>1, <1>3
  <2>2. Extends(H[p], H[p])
    BY <2>1
  <2> QED
    BY <2>1, <2>2
<1>5. ASSUME NEW d \in 0..(n - 1), d \in Good PROVE d + 1 \in Good
  <2>1. CASE p + (d + 1) > n
    BY <1>1, <2>1
  <2>2. CASE p + (d + 1) <= n
    <3>1. /\ p + d \in 0..n /\ p + (d + 1) \in 1..n
          /\ (p + (d + 1)) - 1 = p + d /\ ~ (p + d > n) /\ d + 1 \in 0..n
      BY <1>1, <1>3, <2>2
    <3>2. Extends(H[p + d], H[p])
      BY <1>5, <3>1
    <3>3. /\ H[p + d] \in Seq(Keys) /\ H[p] \in Seq(Keys)
          /\ H[p + (d + 1)] \in Seq(Keys)
      BY <1>1, <1>3, <3>1
    <3>4. Extends(H[p + (d + 1)], H[p + d])
      <4>1. CASE H[p + (d + 1)] = H[p + d]
        BY <3>3, <4>1
      <4>2. CASE H[p + (d + 1)] = Append(H[p + d], entries[p + (d + 1)].key)
        BY <3>3, <4>2
      <4> QED
        BY <1>2, <3>1, <4>1, <4>2
    <3>5. Extends(H[p + (d + 1)], H[p])
      BY <3>2, <3>3, <3>4
    <3> QED
      BY <3>1, <3>5
  <2> QED
    BY <1>1, <1>3, <2>1, <2>2
<1>6. 0..n \subseteq Good
  <2>1. \A d \in 0..(n - 1) : d \in Good => d + 1 \in Good
    BY <1>5
  <2> HIDE DEF Good
  <2> QED
    BY <1>1, <1>4, <2>1, UptoInduction, Zenon
<1>7. n - p \in 0..n /\ p + (n - p) = n /\ n \in 0..n
  BY <1>1, <1>3
<1>8. Extends(H[n], H[p]) /\ H[n] \in Seq(Keys) /\ H[p] \in Seq(Keys)
  <2>1. n - p \in Good
    <3> HIDE DEF Good
    <3> QED
      BY <1>6, <1>7
  <2>2. ~ (p + (n - p) > n)
    BY <1>1, <1>7
  <2>3. Extends(H[p + (n - p)], H[p])
    BY <2>1, <2>2
  <2> QED
    BY <1>1, <1>3, <1>7, <2>3
<1>9. H[p] = SubSeq(H[n], 1, Len(H[p]))
  BY <1>8
<1> QED
  BY <1>8, <1>9 DEF H, n, Stored

(* Entries outside the bounds add nothing. *)
LEMMA HitsSame ==
    ASSUME entries \in Seq(DataEntry), NEW from, NEW to,
           NEW p \in 0..Len(entries), NEW q \in 0..Len(entries), p <= q,
           \A i \in 1..Len(entries) :
               p < i /\ i <= q => ~ Inside(entries[i], from, to)
    PROVE  Hits(from, to)[q] = Hits(from, to)[p]
<1> DEFINE n == Len(entries)
           H == Hits(from, to)
           Good == {d \in 0..n : p + d > q \/ H[p + d] = H[p]}
<1>1. n \in Nat /\ p \in 0..n /\ q \in 0..n
  OBVIOUS
<1>2. \A i \in 1..n : p < i /\ i <= q => H[i] = H[i - 1]
  BY HitsDefined
<1> HIDE DEF n, H
<1>3. 0 \in Good
  BY <1>1
<1>4. ASSUME NEW d \in 0..(n - 1), d \in Good PROVE d + 1 \in Good
  <2>1. CASE p + (d + 1) > q
    BY <1>1, <2>1
  <2>2. CASE p + (d + 1) <= q
    <3>1. /\ p + (d + 1) \in 1..n /\ p < p + (d + 1)
          /\ (p + (d + 1)) - 1 = p + d /\ ~ (p + d > q) /\ d + 1 \in 0..n
      BY <1>1, <2>2
    <3>2. H[p + d] = H[p]
      BY <1>4, <3>1
    <3> QED
      BY <1>2, <2>2, <3>1, <3>2
  <2> QED
    BY <1>1, <2>1, <2>2
<1>5. 0..n \subseteq Good
  <2>1. \A d \in 0..(n - 1) : d \in Good => d + 1 \in Good
    BY <1>4
  <2> HIDE DEF Good
  <2> QED
    BY <1>1, <1>3, <2>1, UptoInduction, Zenon
<1>6. q - p \in 0..n /\ p + (q - p) = q /\ ~ (q > q)
  BY <1>1
<1> QED
  BY <1>5, <1>6 DEF H

-----------------------------------------------------------------------------
(* The search in the sparse index *)

IndexEntry == [key : Keys, offset : Nat]

(* Each entry of the index is the key of an entry of the data and where    *)
(* that entry starts, and the keys of the index ascend.                    *)
IndexRight ==
    /\ file.index \in Seq(IndexEntry)
    /\ \A j \in 1..Len(file.index) : \E p \in 1..Len(file.data) :
           file.index[j] = [key |-> file.data[p].key,
                            offset |-> Start(file.data, p)]
    /\ \A i, j \in 1..Len(file.index) :
           i < j => file.index[i].key < file.index[j].key

(* The entries of the index between the bounds of a search that are not    *)
(* above key, and the last of them.                                        *)
NotAbove(s, key) == {j \in s.left..s.right : file.index[j].key <= key}

LastNotAbove(s, key) ==
    CHOOSE m \in NotAbove(s, key) : \A j \in NotAbove(s, key) : j <= m

Found(s, key) == IF NotAbove(s, key) = {} THEN s.result
                 ELSE file.index[LastNotAbove(s, key)].offset

(* One turn of the loop of the search, from the answers of later ones. *)
Turn(search, s, key) ==
    IF s.left > s.right THEN s.result
    ELSE LET mid == file.index[Middle(s)]
         IN  IF mid.key <= key
             THEN search[[s EXCEPT !.left = Middle(s) + 1,
                                   !.result = mid.offset]]
             ELSE search[[s EXCEPT !.right = Middle(s) - 1]]

(* The middle of the search lies between its bounds, and so do the bounds  *)
(* of the searches that go on from it.                                     *)
LEMMA MiddleBetween ==
    ASSUME file.index \in Seq(IndexEntry), NEW s \in Search,
           s.left <= s.right
    PROVE  LET m == Middle(s)
               mid == file.index[m]
               above == [s EXCEPT !.left = m + 1, !.result = mid.offset]
               below == [s EXCEPT !.right = m - 1]
           IN  /\ m \in 1..Len(file.index) /\ s.left <= m /\ m <= s.right
               /\ mid \in IndexEntry /\ mid.key \in Nat
               /\ above \in Search /\ above.left = m + 1
               /\ above.right = s.right /\ above.result = mid.offset
               /\ below \in Search /\ below.left = s.left
               /\ below.right = m - 1 /\ below.result = s.result
<1> DEFINE m == Middle(s)
           mid == file.index[m]
           n == Len(file.index)
<1>1. /\ n \in Nat /\ s.left \in 1..(n + 1) /\ s.right \in 0..n
      /\ s.result \in Nat
      /\ s = [left |-> s.left, right |-> s.right, result |-> s.result]
  BY DEF Search
<1>2. s.left <= m /\ m <= s.right /\ m \in Nat
  BY <1>1 DEF Middle
<1>3. m \in 1..n
  BY <1>1, <1>2
<1>4. mid \in IndexEntry
  BY <1>3
<1> HIDE DEF m, mid
<1>5. mid.key \in Nat /\ mid.offset \in Nat
  BY <1>4, SSTableAssumption DEF IndexEntry
<1>6. m + 1 \in 1..(n + 1) /\ m - 1 \in 0..n
  BY <1>1, <1>3
<1> DEFINE above == [s EXCEPT !.left = m + 1, !.result = mid.offset]
           below == [s EXCEPT !.right = m - 1]
<1>7. above.left = m + 1 /\ above.right = s.right /\ above.result = mid.offset
  BY <1>1
<1>8. below.left = s.left /\ below.right = m - 1 /\ below.result = s.result
  BY <1>1
<1>9. above \in Search /\ below \in Search
  BY <1>5, <1>6 DEF Search
<1> QED
  BY <1>2, <1>3, <1>4, <1>5, <1>7, <1>8, <1>9 DEF m, mid

(* The last entry that is not above the key is what the loop finds. *)
LEMMA FoundTurn ==
    ASSUME IndexRight, NEW key \in Nat, NEW s \in Search
    PROVE  LET above == [s EXCEPT !.left = Middle(s) + 1,
                                  !.result = file.index[Middle(s)].offset]
               below == [s EXCEPT !.right = Middle(s) - 1]
           IN  Found(s, key) =
                   IF s.left > s.right THEN s.result
                   ELSE IF file.index[Middle(s)].key <= key
                        THEN Found(above, key) ELSE Found(below, key)
<1> DEFINE m == Middle(s)
           mid == file.index[m]
           above == [s EXCEPT !.left = m + 1, !.result = mid.offset]
           below == [s EXCEPT !.right = m - 1]
           n == Len(file.index)
<1>1. /\ n \in Nat /\ s.left \in 1..(n + 1) /\ s.right \in 0..n
      /\ file.index \in Seq(IndexEntry)
  BY DEF Search, IndexRight
<1>2. \A j \in 1..n : file.index[j].key \in Nat
  <2>1. \A j \in 1..n : file.index[j] \in IndexEntry
    BY <1>1
  <2> QED
    BY <2>1, SSTableAssumption DEF IndexEntry
<1>3. CASE s.left > s.right
  <2>1. NotAbove(s, key) = {}
    BY <1>1, <1>3 DEF NotAbove
  <2> QED
    BY <1>3, <2>1 DEF Found
<1>4. CASE s.left <= s.right /\ mid.key <= key
  <2>1. /\ m \in 1..n /\ s.left <= m /\ m <= s.right
        /\ above.left = m + 1 /\ above.right = s.right
        /\ above.result = mid.offset
    BY <1>1, <1>4, MiddleBetween
  <2> HIDE DEF m, above
  <2>2. m \in NotAbove(s, key)
    BY <1>1, <1>4, <2>1 DEF NotAbove
  <2>3. \A j \in NotAbove(s, key) : j <= m \/ j \in NotAbove(above, key)
    BY <1>1, <2>1 DEF NotAbove
  <2>4. \A j \in NotAbove(above, key) : j \in NotAbove(s, key) /\ j > m
    BY <1>1, <2>1 DEF NotAbove
  <2>5. ASSUME NotAbove(above, key) = {}
        PROVE  Found(s, key) = Found(above, key)
    <3>1. \A j \in NotAbove(s, key) : j <= m
      BY <2>3, <2>5
    <3>2. LastNotAbove(s, key) = m
      <4>1. \A x \in NotAbove(s, key) :
                (\A j \in NotAbove(s, key) : j <= x) => x = m
        BY <1>1, <2>1, <2>2, <3>1 DEF NotAbove
      <4> QED
        BY <2>2, <3>1, <4>1 DEF LastNotAbove
    <3> QED
      BY <2>1, <2>2, <2>5, <3>2 DEF Found
  <2>6. ASSUME NotAbove(above, key) # {}
        PROVE  Found(s, key) = Found(above, key)
    <3>1. \A x : x \in NotAbove(s, key)
                 /\ (\A j \in NotAbove(s, key) : j <= x)
                 <=> x \in NotAbove(above, key)
                     /\ (\A j \in NotAbove(above, key) : j <= x)
      BY <1>1, <2>1, <2>3, <2>4, <2>6, SMTT(30) DEF NotAbove
    <3>2. LastNotAbove(s, key) = LastNotAbove(above, key)
      BY <3>1 DEF LastNotAbove
    <3> QED
      BY <2>2, <2>6, <3>2 DEF Found
  <2>7. ~ (s.left > s.right)
    BY <1>1, <1>4
  <2> QED
    BY <1>4, <2>5, <2>6, <2>7 DEF m, above
<1>5. CASE s.left <= s.right /\ ~ (mid.key <= key)
  <2>1. /\ m \in 1..n /\ s.left <= m /\ m <= s.right
        /\ below.left = s.left /\ below.right = m - 1
        /\ below.result = s.result
    BY <1>1, <1>5, MiddleBetween
  <2>2. \A j \in 1..n : m <= j => ~ (file.index[j].key <= key)
    <3> SUFFICES ASSUME NEW j \in 1..n, m <= j
                 PROVE  ~ (file.index[j].key <= key)
      OBVIOUS
    <3>1. m = j \/ mid.key < file.index[j].key
      BY <2>1 DEF IndexRight
    <3> QED
      BY <1>2, <1>5, <2>1, <3>1
  <2> HIDE DEF m, below
  <2>3. NotAbove(s, key) = NotAbove(below, key)
    BY <1>1, <2>1, <2>2 DEF NotAbove
  <2>4. ~ (s.left > s.right)
    BY <1>1, <1>5
  <2> QED
    BY <1>5, <2>1, <2>3, <2>4 DEF Found, LastNotAbove, m, below
<1> QED
  BY <1>1, <1>3, <1>4, <1>5

(* The loop of the search is what its recursive definition says. *)
LEMMA SearchDefined ==
    ASSUME IndexRight, NEW key \in Nat
    PROVE  \E search : /\ FindStartOffset(key) = search[FullSearch]
                       /\ \A s \in Search : search[s] = Turn(search, s, key)
<1> DEFINE Def(f) == [s \in Search |->
                         IF s.left > s.right THEN s.result
                         ELSE LET mid == file.index[Middle(s)]
                              IN  IF mid.key <= key
                                  THEN f[[s EXCEPT !.left = Middle(s) + 1,
                                                   !.result = mid.offset]]
                                  ELSE f[[s EXCEPT !.right = Middle(s) - 1]]]
           search == CHOOSE f : f = Def(f)
           found == [s \in Search |-> Found(s, key)]
<1>1. FindStartOffset(key) = search[FullSearch]
  BY DEF FindStartOffset
<1>2. \A f, s : s \in Search => Def(f)[s] = Turn(f, s, key)
  BY DEF Turn
<1>3. \A f : DOMAIN Def(f) = Search /\ Def(f) = [s \in Search |-> Def(f)[s]]
  OBVIOUS
<1>4. ASSUME NEW s \in Search PROVE found[s] = Turn(found, s, key)
  <2>1. s.left \in Nat /\ s.right \in Nat
    BY DEF Search
  <2>2. CASE s.left > s.right
    BY <2>2, FoundTurn DEF Turn
  <2>3. CASE s.left <= s.right
    <3>1. /\ [s EXCEPT !.left = Middle(s) + 1,
                       !.result = file.index[Middle(s)].offset] \in Search
          /\ [s EXCEPT !.right = Middle(s) - 1] \in Search
      BY <2>3, MiddleBetween DEF IndexRight
    <3> QED
      BY <2>1, <2>3, <3>1, FoundTurn DEF Turn
  <2> QED
    BY <2>1, <2>2, <2>3
<1> HIDE DEF Def
<1>5. found = Def(found)
  BY <1>2, <1>3, <1>4
<1>6. search = Def(search)
  BY <1>5
<1> HIDE DEF search
<1>7. \A s \in Search : search[s] = Turn(search, s, key)
  BY <1>2, <1>6
<1> QED
  BY <1>1, <1>7

(* The search finds the start of the file or an indexed entry that is not  *)
(* above the key.                                                          *)
LEMMA FindsNotAbove ==
    ASSUME IndexRight, NEW key \in Nat
    PROVE  \/ FindStartOffset(key) = 0
           \/ \E j \in 1..Len(file.index) :
                  /\ file.index[j].key <= key
                  /\ FindStartOffset(key) = file.index[j].offset
<1>1. PICK search : /\ FindStartOffset(key) = search[FullSearch]
                    /\ \A s \in Search : search[s] = Turn(search, s, key)
  BY SearchDefined
<1> DEFINE n == Len(file.index)
           Right(s) == \/ search[s] = s.result
                       \/ \E j \in 1..n : /\ file.index[j].key <= key
                                          /\ search[s] = file.index[j].offset
           measure(s) == s.right + (n + 1) - s.left
           T == {d \in Nat : \E s \in Search : measure(s) = d /\ ~ Right(s)}
<1>2. file.index \in Seq(IndexEntry) /\ n \in Nat
  BY DEF IndexRight
<1>3. \A s \in Search : /\ s.left \in 1..(n + 1) /\ s.right \in 0..n
                        /\ measure(s) \in Nat
  BY <1>2 DEF Search
<1>4. T = {}
  <2> SUFFICES ASSUME T # {} PROVE FALSE
    OBVIOUS
  <2>1. PICK d \in T : \A c \in T : d <= c
    <3>1. T \in SUBSET Nat
      OBVIOUS
    <3> HIDE DEF T
    <3> QED
      BY <3>1, LeastNumber
  <2>2. PICK s \in Search : measure(s) = d /\ ~ Right(s)
    OBVIOUS
  <2> DEFINE m == Middle(s)
             mid == file.index[m]
             above == [s EXCEPT !.left = m + 1, !.result = mid.offset]
             below == [s EXCEPT !.right = m - 1]
  <2>3. search[s] = Turn(search, s, key)
    BY <1>1
  <2>4. s.left <= s.right
    <3>1. ~ (s.left > s.right)
      BY <2>2, <2>3 DEF Turn
    <3> QED
      BY <1>3, <3>1
  <2>5. /\ m \in 1..n /\ s.left <= m /\ m <= s.right
        /\ above \in Search /\ above.left = m + 1
        /\ above.right = s.right /\ above.result = mid.offset
        /\ below \in Search /\ below.left = s.left
        /\ below.right = m - 1 /\ below.result = s.result
    BY <1>2, <2>4, MiddleBetween
  <2>6. search[s] = IF mid.key <= key THEN search[above] ELSE search[below]
    BY <1>3, <2>3, <2>4 DEF Turn
  <2> HIDE DEF m, above, below
  <2>7. \A t \in Search : measure(t) < measure(s) => Right(t)
    <3> SUFFICES ASSUME NEW t \in Search, measure(t) < measure(s), ~ Right(t)
                 PROVE  FALSE
      OBVIOUS
    <3>1. measure(t) \in T /\ measure(t) \in Nat /\ d \in Nat
      BY <1>3
    <3>2. d <= measure(t) /\ measure(t) < d
      BY <2>1, <2>2, <3>1
    <3> QED
      BY <3>1, <3>2
  <2>8. measure(above) < measure(s) /\ measure(below) < measure(s)
    <3>1. /\ s.left \in Nat /\ s.right \in Nat /\ m \in Nat /\ n \in Nat
          /\ s.left <= m /\ m <= s.right
      BY <1>2, <1>3, <2>5
    <3> HIDE DEF n
    <3>2. s.right + (n + 1) - (m + 1) < s.right + (n + 1) - s.left
          /\ (m - 1) + (n + 1) - s.left < s.right + (n + 1) - s.left
      BY <3>1
    <3> QED
      BY <2>5, <3>2
  <2>9. Right(above) /\ Right(below)
    BY <2>5, <2>7, <2>8
  <2> HIDE DEF mid
  <2>10. CASE mid.key <= key
    <3>1. search[s] = search[above]
      BY <2>6, <2>10
    <3> QED
      BY <2>2, <2>5, <2>9, <2>10, <3>1 DEF mid
  <2>11. CASE ~ (mid.key <= key)
    <3>1. search[s] = search[below]
      BY <2>6, <2>11
    <3> QED
      BY <2>2, <2>5, <2>9, <3>1
  <2> QED
    BY <2>10, <2>11
<1>5. FullSearch \in Search /\ FullSearch.result = 0
  BY <1>2 DEF FullSearch, Search
<1>6. Right(FullSearch)
  BY <1>3, <1>4, <1>5
<1> QED
  BY <1>1, <1>5, <1>6

(* Where a lookup or a scan begins to read is the start of an entry, or    *)
(* the end of the data, and every entry before it is below the key.        *)
LEMMA FindStart ==
    ASSUME IndexRight, file.data \in Seq(DataEntry), NEW key \in Nat,
           \A i, j \in 1..Len(file.data) :
               i < j => file.data[i].key < file.data[j].key
    PROVE  \E p \in 1..(Len(file.data) + 1) :
               /\ FindStartOffset(key) = Start(file.data, p)
               /\ \A i \in 1..Len(file.data) :
                      i < p => file.data[i].key < key
<1>1. Len(file.data) \in Nat
  OBVIOUS
<1>2. \A i \in 1..Len(file.data) : file.data[i].key \in Nat
  <2>1. \A i \in 1..Len(file.data) : file.data[i] \in DataEntry
    OBVIOUS
  <2> QED
    BY <2>1, SSTableAssumption DEF DataEntry
<1>3. CASE FindStartOffset(key) = 0
  <2>1. /\ FindStartOffset(key) = Start(file.data, 1)
        /\ 1 \in 1..(Len(file.data) + 1)
    BY <1>1, <1>3, StartNext
  <2>2. \A i \in 1..Len(file.data) : ~ (i < 1)
    BY <1>1
  <2> QED
    BY <2>1, <2>2
<1>4. CASE FindStartOffset(key) # 0
  <2>1. PICK j \in 1..Len(file.index) :
            /\ file.index[j].key <= key
            /\ FindStartOffset(key) = file.index[j].offset
    BY <1>4, FindsNotAbove
  <2>2. PICK p \in 1..Len(file.data) :
            file.index[j] = [key |-> file.data[p].key,
                             offset |-> Start(file.data, p)]
    BY DEF IndexRight
  <2>3. file.data[p].key <= key /\ FindStartOffset(key) = Start(file.data, p)
    BY <2>1, <2>2
  <2>4. \A i \in 1..Len(file.data) : i < p => file.data[i].key < key
    BY <1>2, <2>3
  <2>5. p \in 1..(Len(file.data) + 1)
    BY <1>1
  <2> QED
    BY <2>3, <2>4, <2>5
<1> QED
  BY <1>3, <1>4

-----------------------------------------------------------------------------
(* What a reader relies on *)

(* Entries are added in the order of their keys. *)
Sorted ==
    \A i, j \in 1..Len(entries) : i < j => entries[i].key < entries[j].key

(* Only complete files that hold something are read. *)
Readable ==
    /\ writer \in {"building", "built"} => entries # << >>
    /\ isOpen \/ query.kind # "none" => file.name = "final"

QueryType ==
    /\ query \in Query
    /\ query.kind = "get" => query.from \in Keys /\ query.to = query.from
    /\ query.pc = "scan" => query.kind # "none"

(* The loop has delivered what lies within the bounds before the entry     *)
(* that is read next, and has ended only when nothing is left to deliver.  *)
DeliveredBefore(p) ==
    /\ out = Hits(query.from, query.to)[p - 1]
    /\ query.pc = "scan" => query.offset = Start(file.data, p)
    /\ query.pc = "done" => out = Stored(query.from, query.to)

Delivered ==
    query.kind # "none" =>
        \E p \in 1..(Len(file.data) + 1) : DeliveredBefore(p)

ReadInv == Sorted /\ IndexRight /\ Readable /\ QueryType /\ Delivered

FileInv == FilterInv /\ CompleteInv

(* An entry has a key and a size that can be compared. *)
LEMMA EntryType ==
    ASSUME NEW data \in Seq(DataEntry), NEW i \in 1..Len(data)
    PROVE  /\ data[i] \in DataEntry /\ data[i].key \in Keys
           /\ data[i].key \in Nat /\ data[i].size \in Nat
<1>1. data[i] \in DataEntry
  OBVIOUS
<1> QED
  BY <1>1, SSTableAssumption DEF DataEntry

(* What is read of a file under its final name. *)
LEMMA FinalFile ==
    ASSUME FileInv, ReadInv, file.name = "final"
    PROVE  /\ file.data = entries /\ entries \in Seq(DataEntry)
           /\ Len(entries) \in Nat \ {0} /\ writer = "built"
           /\ FirstKey \in Nat /\ LastKey \in Nat
           /\ \A i \in 1..Len(entries) :
                  FirstKey <= entries[i].key /\ entries[i].key <= LastKey
<1>1. file.data = entries /\ entries \in Seq(DataEntry)
  BY DEF FileInv, CompleteInv, FinalIsComplete, FileType
<1>2. writer = "built"
  BY DEF FileInv, CompleteInv, Stages
<1>3. Len(entries) \in Nat \ {0}
  BY <1>1, <1>2 DEF ReadInv, Readable
<1>4. 1 \in 1..Len(entries) /\ Len(entries) \in 1..Len(entries)
  BY <1>3
<1>5. FirstKey = entries[1].key /\ LastKey = entries[Len(entries)].key
  BY <1>1 DEF FirstKey, LastKey
<1>6. FirstKey \in Nat /\ LastKey \in Nat
  BY <1>1, <1>4, <1>5, EntryType
<1>7. ASSUME NEW i \in 1..Len(entries)
      PROVE  FirstKey <= entries[i].key /\ entries[i].key <= LastKey
  <2>1. entries[i].key \in Nat
    BY <1>1, EntryType
  <2>2. i = 1 \/ 1 < i
    OBVIOUS
  <2>3. i = Len(entries) \/ i < Len(entries)
    OBVIOUS
  <2>4. FirstKey <= entries[i].key
    BY <1>4, <1>5, <1>6, <2>1, <2>2 DEF ReadInv, Sorted
  <2>5. entries[i].key <= LastKey
    BY <1>4, <1>5, <1>6, <2>1, <2>3 DEF ReadInv, Sorted
  <2> QED
    BY <2>4, <2>5
<1> QED
  BY <1>1, <1>2, <1>3, <1>6, <1>7

(* A key that is refused unless it is above the last one keeps the order.  *)
LEMMA AddSorted ==
    ASSUME FileInv, Sorted, NEW e \in DataEntry, Add(e)
    PROVE  Sorted'
<1> DEFINE n == Len(entries)
<1>1. /\ entries \in Seq(DataEntry) /\ n \in Nat
      /\ entries' = Append(entries, e) /\ InOrder(e.key)
  BY DEF FileInv, CompleteInv, FileType, Add
<1>2. /\ Len(entries') = n + 1 /\ entries'[n + 1] = e
      /\ \A i \in 1..n : entries'[i] = entries[i]
  BY <1>1
<1>3. \A i \in 1..n : entries[i].key \in Nat /\ e.key \in Nat
  BY <1>1, EntryType, SSTableAssumption DEF DataEntry
<1>4. ASSUME NEW i \in 1..n PROVE entries[i].key < e.key
  <2>1. n \in 1..n /\ (i = n \/ i < n) /\ entries # << >>
    BY <1>1
  <2>2. entries[n].key < e.key
    BY <1>1, <2>1 DEF InOrder
  <2>3. i = n \/ entries[i].key < entries[n].key
    BY <2>1 DEF Sorted
  <2> QED
    BY <1>3, <2>1, <2>2, <2>3
<1> SUFFICES ASSUME NEW i \in 1..(n + 1), NEW j \in 1..(n + 1), i < j
             PROVE  entries'[i].key < entries'[j].key
  BY <1>2 DEF Sorted
<1>5. i \in 1..n /\ (j \in 1..n \/ j = n + 1)
  BY <1>1
<1> QED
  BY <1>2, <1>4, <1>5 DEF Sorted

(* The index of a file that begins or is removed is empty. *)
LEMMA NoFileIndex ==
    ASSUME file'.index = << >>, file'.data = << >>
    PROVE  IndexRight'
BY DEF IndexRight, IndexEntry, Start, Starts

(* An entry that is indexed starts where the data ends, and its key is     *)
(* above all that were written before.                                     *)
LEMMA WriteEntryIndex ==
    ASSUME FileInv, FileInv', Sorted, IndexRight, WriteEntry
    PROVE  IndexRight'
<1> DEFINE d == Len(file.data)
           n == Len(file.index)
           e == entries[d + 1]
           x == [key |-> e.key, offset |-> End(file.data)]
<1>1. /\ file.data \in Seq(DataEntry) /\ file.index \in Seq(IndexEntry)
      /\ entries \in Seq(DataEntry) /\ d \in Nat /\ n \in Nat
      /\ file'.data \in Seq(DataEntry)
  BY DEF FileInv, CompleteInv, FileType, IndexRight
<1>2. d + 1 \in 1..Len(entries) /\ \A p \in 1..d : p \in 1..Len(entries)
  BY <1>1 DEF WriteEntry
<1>3. e \in DataEntry /\ e.key \in Keys /\ e.key \in Nat
  BY <1>1, <1>2, EntryType
<1>4. file'.data = Append(file.data, e) /\ file'.index = Indexed(e)
  BY DEF WriteEntry, FileInv, CompleteInv, FileType
<1>5. \A p \in 1..d : file.data[p].key < e.key
  <2>1. \A p \in 1..d : file.data[p] = entries[p]
    BY DEF WriteEntry, FileInv, CompleteInv, Stages
  <2>2. \A p \in 1..d : p < d + 1
    BY <1>1
  <2> QED
    BY <1>2, <2>1, <2>2 DEF Sorted
<1> HIDE DEF e
<1>6. /\ Len(file'.data) = d + 1 /\ file'.data[d + 1] = e
      /\ \A p \in 1..d : file'.data[p] = file.data[p]
  BY <1>1, <1>3, <1>4
<1>7. \A p \in 1..(d + 1) : Start(file'.data, p) = Start(file.data, p)
  <2>1. Len(file.data) <= Len(file'.data)
    BY <1>1, <1>6
  <2> QED
    BY <1>1, <1>6, <2>1, StartKept
<1>8. End(file.data) = Start(file'.data, d + 1) /\ End(file.data) \in Nat
  BY <1>1, <1>7, StartNext DEF End
<1>9. x \in IndexEntry
  BY <1>3, <1>8 DEF IndexEntry
<1>10. \A j \in 1..n : \E p \in 1..(d + 1) :
           file.index[j] = [key |-> file'.data[p].key,
                            offset |-> Start(file'.data, p)]
  <2> SUFFICES ASSUME NEW j \in 1..n
               PROVE  \E p \in 1..(d + 1) :
                          file.index[j] = [key |-> file'.data[p].key,
                                           offset |-> Start(file'.data, p)]
    OBVIOUS
  <2>1. PICK p \in 1..d : file.index[j] = [key |-> file.data[p].key,
                                           offset |-> Start(file.data, p)]
    BY DEF IndexRight
  <2>2. p \in 1..(d + 1)
    BY <1>1
  <2> QED
    BY <1>6, <1>7, <2>1, <2>2
<1>11. CASE file'.index = file.index
  BY <1>1, <1>6, <1>10, <1>11, SMTT(30) DEF IndexRight
<1>12. CASE file'.index = Append(file.index, x)
  <2>1. \A j \in 1..n : file.index[j].key < e.key
    <3> SUFFICES ASSUME NEW j \in 1..n PROVE file.index[j].key < e.key
      OBVIOUS
    <3>1. PICK p \in 1..d : file.index[j] = [key |-> file.data[p].key,
                                             offset |-> Start(file.data, p)]
      BY DEF IndexRight
    <3> QED
      BY <1>5, <3>1
  <2> DEFINE index == file'.index
  <2>2. x = [key |-> file'.data[d + 1].key, offset |-> Start(file'.data, d + 1)]
        /\ x.key = e.key /\ d + 1 \in 1..(d + 1)
    BY <1>1, <1>6, <1>8
  <2> HIDE DEF x
  <2>3. /\ index \in Seq(IndexEntry) /\ Len(index) = n + 1
        /\ index[n + 1] = x /\ \A j \in 1..n : index[j] = file.index[j]
    BY <1>1, <1>9, <1>12
  <2>4. \A j \in 1..(n + 1) : j \in 1..n \/ j = n + 1
    BY <1>1
  <2>5. ASSUME NEW i \in 1..(n + 1), NEW j \in 1..(n + 1), i < j
        PROVE  index[i].key < index[j].key
    <3>1. i \in 1..n
      BY <1>1, <2>5
    <3>2. CASE j \in 1..n
      BY <2>3, <2>5, <3>1, <3>2 DEF IndexRight
    <3>3. CASE j = n + 1
      BY <2>1, <2>2, <2>3, <3>1, <3>3
    <3> QED
      BY <2>4, <3>2, <3>3
  <2>6. ASSUME NEW j \in 1..(n + 1)
        PROVE  \E p \in 1..(d + 1) :
                   index[j] = [key |-> file'.data[p].key,
                               offset |-> Start(file'.data, p)]
    <3>1. CASE j \in 1..n
      BY <1>10, <2>3, <3>1
    <3>2. CASE j = n + 1
      BY <2>2, <2>3, <3>2
    <3> QED
      BY <2>4, <3>1, <3>2
  <2> QED
    BY <1>6, <2>3, <2>5, <2>6 DEF IndexRight
<1> QED
  BY <1>4, <1>11, <1>12 DEF Indexed

(* What the steps of the writer leave of a reader: there is none yet. *)
LEMMA WriterRead ==
    ASSUME FileInv, FileInv', ReadInv, file.name # "final",
           UNCHANGED <<isOpen, query, out>>, Sorted', IndexRight',
           writer' \in {"building", "built"} => entries' # << >>
    PROVE  ReadInv'
BY DEF ReadInv, Readable, QueryType, Delivered

(* Adding an entry keeps the order; there is no file to read yet. *)
LEMMA AddRead ==
    ASSUME FileInv, FileInv', ReadInv, NEW e \in DataEntry, Add(e)
    PROVE  ReadInv'
<1>1. Sorted'
  BY AddSorted DEF ReadInv
<1>2. IndexRight'
  BY DEF Add, ReadInv, IndexRight
<1>3. file.name # "final"
  BY DEF Add, FileInv, CompleteInv, Stages
<1>4. writer' = "adding"
  BY DEF Add
<1>5. UNCHANGED <<isOpen, query, out>>
  BY DEF Add
<1> QED
  BY <1>1, <1>2, <1>3, <1>4, <1>5, WriterRead

(* Building a file, whether it succeeds or not, keeps the index right.     *)
LEMMA BuildStepsRead ==
    ASSUME FileInv, FileInv', ReadInv,
           Build \/ WriteEntry \/ Finish \/ BuildFails \/ Crash
    PROVE  ReadInv'
<1>1. Sorted'
  BY DEF Build, WriteEntry, Finish, BuildFails, Crash, ReadInv, Sorted
<1>2. IndexRight'
  <2>1. CASE WriteEntry
    BY <2>1, WriteEntryIndex DEF ReadInv
  <2>2. CASE Build \/ BuildFails
    BY <2>2, NoFileIndex DEF Build, BuildFails, NoFile
  <2>3. CASE Finish \/ Crash
    <3>1. file'.index = file.index /\ file'.data = file.data
      BY <2>3 DEF Finish, Crash, FileInv, CompleteInv, FileType
    <3> QED
      BY <3>1 DEF ReadInv, IndexRight
  <2> QED
    BY <2>1, <2>2, <2>3
<1>3. file.name # "final"
  BY DEF Build, WriteEntry, Finish, BuildFails, Crash, FileInv, CompleteInv,
         Stages
<1>4. writer' \in {"building", "built"} => entries' # << >>
  BY DEF Build, WriteEntry, Finish, BuildFails, Crash, ReadInv, Readable
<1>5. UNCHANGED <<isOpen, query, out>>
  BY DEF Build, WriteEntry, Finish, BuildFails, Crash
<1> QED
  BY <1>1, <1>2, <1>3, <1>4, <1>5, WriterRead

-----------------------------------------------------------------------------
(* Lookups and scans *)

(* What a step of a reader must show. *)
LEMMA ReaderRead ==
    ASSUME FileInv, ReadInv, UNCHANGED <<entries, writer, file>>,
           isOpen' => file.name = "final",
           query'.kind # "none" => file.name = "final",
           QueryType', Delivered'
    PROVE  ReadInv'
<1>1. Sorted' /\ IndexRight'
  BY DEF ReadInv, Sorted, IndexRight
<1>2. Readable'
  BY DEF ReadInv, Readable
<1> QED
  BY <1>1, <1>2 DEF ReadInv

(* A query starts with nothing delivered, at an entry before which nothing *)
(* lies within the bounds, or it is answered at once, when nothing does.   *)
LEMMA AskRead ==
    ASSUME FileInv, ReadInv, isOpen, NEW kind \in {"get", "iterate"},
           NEW from \in Probes \cup {Unset}, NEW to \in Probes \cup {Unset},
           NEW start \in Nat, NEW pc \in {"scan", "done"},
           kind = "get" => from \in Keys /\ to = from,
           \A i \in 1..Len(entries) :
               entries[i].key < start => ~ Inside(entries[i], from, to),
           pc = "done" =>
               \A i \in 1..Len(entries) : ~ Inside(entries[i], from, to),
           Ask(kind, from, to, FindStartOffset(start), pc)
    PROVE  ReadInv'
<1>1. /\ file.name = "final" /\ UNCHANGED <<entries, writer, file, isOpen>>
      /\ query' = [kind |-> kind, from |-> from, to |-> to,
                   offset |-> FindStartOffset(start), pc |-> pc]
      /\ out' = << >>
  BY DEF ReadInv, Readable, Ask
<1>2. /\ file.data = entries /\ entries \in Seq(DataEntry)
      /\ Len(entries) \in Nat
  BY <1>1, FinalFile
<1>3. PICK p \in 1..(Len(entries) + 1) :
          /\ FindStartOffset(start) = Start(entries, p)
          /\ \A i \in 1..Len(entries) : i < p => entries[i].key < start
  <2>1. IndexRight /\ Sorted
    BY DEF ReadInv
  <2> QED
    BY <1>2, <2>1, FindStart DEF Sorted
<1>4. FindStartOffset(start) \in Nat
  BY <1>2, <1>3, StartNext
<1>5. p - 1 \in 0..Len(entries) /\ 0 \in 0..Len(entries)
      /\ Len(entries) \in 0..Len(entries)
  BY <1>2
<1>6. Hits(from, to)[0] = << >>
  BY <1>2, HitsDefined
<1>7. Hits(from, to)[p - 1] = << >>
  <2>1. \A i \in 1..Len(entries) :
            0 < i /\ i <= p - 1 => ~ Inside(entries[i], from, to)
    <3>1. \A i \in 1..Len(entries) : i <= p - 1 => i < p
      BY <1>2
    <3> QED
      BY <1>3, <3>1
  <2>2. 0 <= p - 1
    BY <1>2
  <2> QED
    BY <1>2, <1>5, <1>6, <2>1, <2>2, HitsSame
<1>8. pc = "done" => Stored(from, to) = << >>
  <2> SUFFICES ASSUME pc = "done" PROVE Stored(from, to) = << >>
    OBVIOUS
  <2>1. 0 <= Len(entries)
    BY <1>2
  <2> QED
    BY <1>2, <1>5, <1>6, <2>1, HitsSame DEF Stored
<1>9. QueryType'
  BY <1>1, <1>4 DEF QueryType, Query
<1>10. DeliveredBefore(p)'
  BY <1>1, <1>2, <1>3, <1>7, <1>8 DEF DeliveredBefore, Hits, Stored, Inside
<1>11. Delivered'
  BY <1>1, <1>2, <1>10 DEF Delivered
<1> QED
  BY <1>1, <1>9, <1>11, ReaderRead

(* get(): the key range and the filter refuse only keys the file has not. *)
LEMMA GetRead ==
    ASSUME FileInv, ReadInv, NEW k \in Keys, Get(k)
    PROVE  ReadInv'
<1> DEFINE pc == IF IsInRange(k) /\ MightContain(file.bits, k) THEN "scan"
                 ELSE "done"
<1>1. isOpen /\ Ask("get", k, k, FindStartOffset(k), pc)
  BY DEF Get
<1>2. k \in Nat /\ k \in Probes /\ k # Unset
  BY SSTableAssumption DEF Probes
<1>3. file.name = "final"
  BY <1>1 DEF ReadInv, Readable
<1>4. \A i \in 1..Len(entries) : entries[i].key \in Nat
  BY <1>3, FinalFile, EntryType
<1>5. ASSUME NEW i \in 1..Len(entries), Inside(entries[i], k, k)
      PROVE  ~ (entries[i].key < k) /\ pc = "scan"
  <2>1. entries[i].key = k
    BY <1>2, <1>4, <1>5 DEF Inside
  <2>2. MightContain(file.bits, k)
    BY <1>3, <2>1, FinalFile DEF FileInv, FilterInv, NoFalseNegatives
  <2>3. IsInRange(k)
    BY <1>3, <2>1, FinalFile DEF IsInRange
  <2> QED
    BY <1>2, <2>1, <2>2, <2>3
<1>6. pc \in {"scan", "done"} /\ "scan" # "done"
  OBVIOUS
<1> HIDE DEF pc
<1> QED
  BY <1>1, <1>2, <1>5, <1>6, AskRead

(* iterate(): a range is taken for empty only when nothing lies in it. *)
LEMMA IterateRead ==
    ASSUME FileInv, ReadInv, NEW from \in Probes \cup {Unset},
           NEW to \in Probes \cup {Unset}, Iterate(from, to)
    PROVE  ReadInv'
<1> DEFINE start == IF from = Unset THEN FirstKey ELSE from
           end == IF to = Unset THEN LastKey ELSE to
           pc == IF start > LastKey \/ end < FirstKey THEN "done" ELSE "scan"
<1>1. isOpen /\ Ask("iterate", from, to, FindStartOffset(start), pc)
  BY DEF Iterate
<1>2. Probes \subseteq Nat
  BY SSTableAssumption DEF Probes
<1>3. file.name = "final"
  BY <1>1 DEF ReadInv, Readable
<1>4. /\ FirstKey \in Nat /\ LastKey \in Nat
      /\ \A i \in 1..Len(entries) :
             /\ entries[i].key \in Nat
             /\ FirstKey <= entries[i].key /\ entries[i].key <= LastKey
  BY <1>3, FinalFile, EntryType
<1>5. start \in Nat /\ end \in Nat
  BY <1>2, <1>4
<1>6. ASSUME NEW i \in 1..Len(entries), Inside(entries[i], from, to)
      PROVE  ~ (entries[i].key < start) /\ pc = "scan"
  <2>1. start <= entries[i].key /\ entries[i].key <= end
    BY <1>4, <1>6 DEF Inside
  <2> QED
    BY <1>4, <1>5, <2>1
<1>7. pc \in {"scan", "done"} /\ "scan" # "done"
  OBVIOUS
<1> HIDE DEF pc, start
<1> QED
  BY <1>1, <1>5, <1>6, <1>7, AskRead

(* What a turn of the loop starts from: a complete file, and an entry of   *)
(* it, or its end, before which everything has been delivered.             *)
LEMMA Scanning ==
    ASSUME FileInv, ReadInv, isOpen, query.pc = "scan"
    PROVE  /\ file.name = "final" /\ file.data = entries
           /\ entries \in Seq(DataEntry) /\ Len(entries) \in Nat
           /\ \E p \in 1..(Len(entries) + 1) :
                  /\ DeliveredBefore(p)
                  /\ query.offset = Start(entries, p)
<1>1. file.name = "final"
  BY DEF ReadInv, Readable
<1>2. file.data = entries /\ entries \in Seq(DataEntry) /\ Len(entries) \in Nat
  BY <1>1, FinalFile
<1> QED
  BY <1>1, <1>2 DEF ReadInv, QueryType, Delivered, DeliveredBefore

(* The bounds that a turn of the loop compares a key with are those given, *)
(* or let every key of the file pass.                                      *)
LEMMA Bounds ==
    ASSUME FileInv, ReadInv, file.name = "final", NEW i \in 1..Len(entries)
    PROVE  /\ EffectiveStart \in Nat /\ EffectiveEnd \in Nat
           /\ EffectiveStart <= entries[i].key /\ entries[i].key <= EffectiveEnd
              <=> Inside(entries[i], query.from, query.to)
           /\ entries[i].key > EffectiveEnd =>
                  /\ query.to # Unset /\ EffectiveEnd = query.to
<1>1. /\ entries[i].key \in Nat /\ FirstKey \in Nat /\ LastKey \in Nat
      /\ FirstKey <= entries[i].key /\ entries[i].key <= LastKey
  BY FinalFile, EntryType
<1>2. /\ query.from \in Probes \cup {Unset} /\ query.to \in Probes \cup {Unset}
      /\ Probes \subseteq Nat
  BY SSTableAssumption DEF ReadInv, QueryType, Query, Probes
<1>3. EffectiveStart = IF query.from = Unset THEN FirstKey ELSE query.from
  BY DEF EffectiveStart
<1>4. EffectiveEnd = IF query.to = Unset THEN LastKey ELSE query.to
  BY DEF EffectiveEnd
<1>5. EffectiveStart \in Nat /\ EffectiveEnd \in Nat
  BY <1>1, <1>2, <1>3, <1>4
<1>6. EffectiveStart <= entries[i].key <=>
          (query.from # Unset => query.from <= entries[i].key)
  BY <1>1, <1>2, <1>3
<1>7. entries[i].key <= EffectiveEnd <=>
          (query.to # Unset => entries[i].key <= query.to)
  BY <1>1, <1>2, <1>4
<1>8. ASSUME entries[i].key > EffectiveEnd
      PROVE  query.to # Unset /\ EffectiveEnd = query.to
  BY <1>1, <1>4, <1>5, <1>8
<1> QED
  BY <1>5, <1>6, <1>7, <1>8 DEF Inside

(* A turn of the loop delivers the entry it reads if it lies within the    *)
(* bounds, and ends the loop only when nothing behind it does.             *)
LEMMA ScanRead ==
    ASSUME FileInv, ReadInv, Scan
    PROVE  ReadInv'
<1>1. /\ isOpen /\ query.pc = "scan" /\ query.offset < End(file.data)
      /\ UNCHANGED <<entries, writer, file, isOpen>>
  BY DEF Scan
<1>2. /\ file.name = "final" /\ file.data = entries
      /\ entries \in Seq(DataEntry) /\ Len(entries) \in Nat
  BY <1>1, Scanning
<1>3. PICK p \in 1..(Len(entries) + 1) :
          DeliveredBefore(p) /\ query.offset = Start(entries, p)
  BY <1>1, Scanning
<1> DEFINE n == Len(entries)
           e == entries[p]
           H == Hits(query.from, query.to)
           hit == EffectiveStart <= e.key /\ e.key <= EffectiveEnd
           pc == IF e.key > EffectiveEnd \/ (hit /\ query.kind = "get")
                 THEN "done" ELSE "scan"
<1>4. p \in 1..n
  <2>1. p # n + 1
    <3>1. Start(entries, n + 1) \in Nat
      BY <1>2, StartNext
    <3> QED
      BY <1>1, <1>2, <1>3, <3>1 DEF End
  <2> QED
    BY <1>2, <2>1
<1>5. EntryAt(query.offset) = e
  BY <1>2, <1>3, <1>4, EntryAtStart
<1>6. /\ out' = IF hit THEN Append(out, e.key) ELSE out
      /\ query' = [query EXCEPT !.offset = query.offset + e.size, !.pc = pc]
  BY <1>5 DEF Scan
<1>7. e.key \in Nat /\ e.key \in Keys /\ e.size \in Nat
  BY <1>2, <1>4, EntryType
<1>8. /\ hit <=> Inside(e, query.from, query.to)
      /\ e.key > EffectiveEnd => query.to # Unset /\ EffectiveEnd = query.to
      /\ EffectiveEnd \in Nat
  BY <1>2, <1>4, Bounds
<1>9. /\ query \in Query /\ query.offset \in Nat
      /\ query.kind = "get" =>
             query.from \in Keys /\ query.to = query.from
      /\ query.kind # "none"
  BY <1>1 DEF ReadInv, QueryType, Query
<1> HIDE DEF hit, pc
<1>10. /\ query'.kind = query.kind /\ query'.from = query.from
       /\ query'.to = query.to /\ query'.pc = pc
       /\ query'.offset = query.offset + e.size
  BY <1>6, <1>9 DEF Query
<1>11. out' = H[p]
  <2>1. out = H[p - 1]
    BY <1>3 DEF DeliveredBefore
  <2> QED
    BY <1>2, <1>4, <1>6, <1>8, <2>1, HitsDefined
<1>12. query'.offset = Start(entries, p + 1)
  BY <1>2, <1>3, <1>4, <1>10, StartNext
<1>13. pc = "done" => H[p] = H[n]
  <2> SUFFICES ASSUME pc = "done" PROVE H[p] = H[n]
    OBVIOUS
  <2>1. \/ query.to # Unset /\ query.to \in Nat /\ e.key > query.to
        \/ /\ hit /\ query.from # Unset /\ query.from \in Nat
           /\ query.to = query.from
    <3>1. Keys \subseteq Nat /\ Unset \notin Keys
      BY SSTableAssumption DEF Probes
    <3> QED
      BY <1>8, <1>9, <3>1 DEF pc
  <2>2. ASSUME NEW i \in 1..n, p < i /\ i <= n
        PROVE  ~ Inside(entries[i], query.from, query.to)
    <3>1. e.key < entries[i].key /\ entries[i].key \in Nat
      BY <1>2, <1>4, <2>2, EntryType DEF ReadInv, Sorted
    <3>2. CASE query.to # Unset /\ query.to \in Nat /\ e.key > query.to
      BY <1>7, <3>1, <3>2 DEF Inside
    <3>3. CASE /\ hit /\ query.from # Unset /\ query.from \in Nat
               /\ query.to = query.from
      <4>1. query.from <= e.key
        BY <1>8, <3>3 DEF Inside
      <4> QED
        BY <1>7, <3>1, <3>3, <4>1 DEF Inside
    <3> QED
      BY <2>1, <3>2, <3>3
  <2>3. p \in 0..n /\ n \in 0..n /\ p <= n
    BY <1>2, <1>4
  <2> QED
    BY <1>2, <2>2, <2>3, HitsSame
<1>14. p + 1 \in 1..(n + 1) /\ (p + 1) - 1 = p
  BY <1>2, <1>4
<1>15. Hits(query.from, query.to)' = H
  BY <1>1, <1>10 DEF Hits, Inside
<1>16. DeliveredBefore(p + 1)'
  <2>1. out' = Hits(query.from, query.to)'[(p + 1) - 1]
    BY <1>11, <1>14, <1>15
  <2>2. query'.offset = Start(file'.data, p + 1)
    BY <1>1, <1>2, <1>12
  <2>3. query'.pc = "done" =>
            out' = Hits(query.from, query.to)'[Len(entries')]
    BY <1>1, <1>10, <1>11, <1>13, <1>15
  <2> QED
    BY <2>1, <2>2, <2>3 DEF DeliveredBefore, Stored
<1>17. Delivered'
  BY <1>1, <1>2, <1>14, <1>16 DEF Delivered
<1>18. QueryType'
  <2>1. query'.offset \in Nat
    BY <1>7, <1>9, <1>10
  <2>2. pc \in {"scan", "done"}
    BY DEF pc
  <2>3. query' \in Query
    BY <1>6, <1>7, <1>9, <2>1, <2>2 DEF Query
  <2> QED
    BY <1>9, <1>10, <2>3 DEF QueryType
<1> QED
  BY <1>1, <1>2, <1>17, <1>18, ReaderRead

(* The loop that has reached the end of the data has delivered everything. *)
LEMMA ScanEndsRead ==
    ASSUME FileInv, ReadInv, ScanEnds
    PROVE  ReadInv'
<1>1. /\ isOpen /\ query.pc = "scan" /\ query.offset >= End(file.data)
      /\ query' = [query EXCEPT !.pc = "done"]
      /\ UNCHANGED <<entries, writer, file, isOpen, out>>
  BY DEF ScanEnds
<1>2. /\ file.name = "final" /\ file.data = entries
      /\ entries \in Seq(DataEntry) /\ Len(entries) \in Nat
  BY <1>1, Scanning
<1>3. PICK p \in 1..(Len(entries) + 1) :
          DeliveredBefore(p) /\ query.offset = Start(entries, p)
  BY <1>1, Scanning
<1> DEFINE n == Len(entries)
<1>4. p = n + 1
  <2>1. n + 1 \in 1..(n + 1) /\ (p = n + 1 \/ p < n + 1)
    BY <1>2
  <2>2. Start(entries, n + 1) \in Nat /\ Start(entries, p) \in Nat
    BY <1>2, <2>1, StartNext
  <2>3. ~ (Start(entries, p) < Start(entries, n + 1))
    BY <1>1, <1>2, <1>3, <2>2 DEF End
  <2> QED
    BY <1>2, <2>1, <2>3, StartAscends
<1>5. /\ query \in Query
      /\ query.kind = "get" => query.from \in Keys /\ query.to = query.from
      /\ query.kind # "none"
  BY <1>1 DEF ReadInv, QueryType
<1>6. /\ query' \in Query /\ query'.kind = query.kind
      /\ query'.from = query.from /\ query'.to = query.to
      /\ query'.pc = "done"
  BY <1>1, <1>5 DEF Query
<1>7. out = Hits(query.from, query.to)[n]
  <2>1. p - 1 = n
    BY <1>2, <1>4
  <2> QED
    BY <1>3, <2>1 DEF DeliveredBefore
<1>8. Hits(query.from, query.to)' = Hits(query.from, query.to)
  <2>1. entries' = entries
    BY <1>1
  <2> QED
    BY <1>6, <2>1 DEF Hits, Inside
<1>9. DeliveredBefore(p)'
  <2>1. p - 1 = n
    BY <1>2, <1>4
  <2> QED
    BY <1>1, <1>6, <1>7, <1>8, <2>1 DEF DeliveredBefore, Stored
<1>10. Delivered'
  BY <1>1, <1>2, <1>9 DEF Delivered
<1>11. QueryType'
  BY <1>5, <1>6 DEF QueryType
<1> QED
  BY <1>1, <1>2, <1>10, <1>11, ReaderRead

(* Closing the file and an entry that cannot be read cut a query short;    *)
(* opening the file, and the caller taking an answer, leave none behind.   *)
LEMMA OpenCloseRead ==
    ASSUME FileInv, ReadInv, Open \/ Close \/ ReadFails \/ Answered
    PROVE  ReadInv'
<1>1. UNCHANGED <<entries, writer, file>>
  BY DEF Open, Close, ReadFails, Answered
<1>2. (isOpen' => file.name = "final") /\ file.name = "final"
  BY DEF Open, Close, ReadFails, Answered, ReadInv, Readable
<1>3. CASE Open
  <2>1. query' = query /\ query.kind = "none"
    BY <1>3 DEF Open
  <2> QED
    BY <1>1, <1>2, <2>1, ReaderRead DEF ReadInv, QueryType, Delivered
<1>4. CASE Answered
  <2>1. query' = NoQuery
    BY <1>4 DEF Answered
  <2>2. QueryType'
    BY <2>1 DEF QueryType, Query, NoQuery
  <2>3. Delivered'
    BY <2>1 DEF Delivered, NoQuery
  <2> QED
    BY <1>1, <1>2, <2>2, <2>3, ReaderRead
<1>5. CASE Close \/ ReadFails
  <2> DEFINE pc == IF query.pc = "scan" THEN "failed" ELSE query.pc
  <2>1. query' = [query EXCEPT !.pc = pc] /\ out' = out
    BY <1>5 DEF Close, ReadFails
  <2>2. /\ query \in Query
        /\ query.kind = "get" => query.from \in Keys /\ query.to = query.from
    BY DEF ReadInv, QueryType
  <2>3. pc \in {"scan", "done", "failed"} /\ pc # "scan"
        /\ (pc = "done" => query.pc = "done")
    BY <2>2 DEF Query
  <2> HIDE DEF pc
  <2>4. /\ query' \in Query /\ query'.kind = query.kind
        /\ query'.from = query.from /\ query'.to = query.to
        /\ query'.pc = pc
    BY <2>1, <2>2, <2>3 DEF Query
  <2>5. QueryType'
    BY <2>2, <2>3, <2>4 DEF QueryType
  <2>6. Hits(query.from, query.to)' = Hits(query.from, query.to)
    BY <1>1, <2>4 DEF Hits, Inside
  <2>7. ASSUME NEW p, DeliveredBefore(p) PROVE DeliveredBefore(p)'
    BY <1>1, <2>1, <2>3, <2>4, <2>6, <2>7 DEF DeliveredBefore, Stored
  <2>8. Delivered'
    BY <1>1, <2>4, <2>7 DEF ReadInv, Delivered
  <2> QED
    BY <1>1, <1>2, <2>5, <2>8, ReaderRead
<1> QED
  BY <1>3, <1>4, <1>5

(* Every step keeps what a reader relies on. *)
LEMMA NextRead == FileInv /\ FileInv' /\ ReadInv /\ [Next]_vars => ReadInv'
<1> SUFFICES ASSUME FileInv, FileInv', ReadInv, [Next]_vars PROVE ReadInv'
  OBVIOUS
<1>1. CASE UNCHANGED vars
  <2>1. UNCHANGED <<entries, writer, file, isOpen, query, out>>
    BY <1>1 DEF vars
  <2>2. QueryType' /\ Readable'
    BY <2>1 DEF ReadInv, QueryType, Readable
  <2>3. Hits(query.from, query.to)' = Hits(query.from, query.to)
    BY <2>1 DEF Hits, Inside
  <2>4. Delivered'
    BY <2>1, <2>3 DEF ReadInv, Delivered, DeliveredBefore, Stored
  <2>5. Sorted' /\ IndexRight'
    BY <2>1 DEF ReadInv, Sorted, IndexRight
  <2> QED
    BY <2>2, <2>4, <2>5 DEF ReadInv
<1>2. ASSUME NEW e \in DataEntry, Add(e) PROVE ReadInv'
  BY <1>2, AddRead
<1>3. CASE Build \/ WriteEntry \/ Finish \/ BuildFails \/ Crash
  BY <1>3, BuildStepsRead
<1>4. CASE Open \/ Close \/ ReadFails \/ Answered
  BY <1>4, OpenCloseRead
<1>5. ASSUME NEW k \in Keys, Get(k) PROVE ReadInv'
  BY <1>5, GetRead
<1>6. ASSUME NEW from \in Probes \cup {Unset}, NEW to \in Probes \cup {Unset},
             Iterate(from, to)
      PROVE  ReadInv'
  BY <1>6, IterateRead
<1>7. CASE Scan
  BY <1>7, ScanRead
<1>8. CASE ScanEnds
  BY <1>8, ScanEndsRead
<1>9. CASE Ended
  BY <1>1, <1>9 DEF Ended
<1> QED
  BY <1>1, <1>2, <1>3, <1>4, <1>5, <1>6, <1>7, <1>8, <1>9 DEF Next

(* The reader has right answers and right partial answers. *)
LEMMA ReadRight ==
    ASSUME FileInv, ReadInv
    PROVE  LookupRight /\ ScanRight
<1>1. LookupRight
  BY DEF LookupRight, ReadInv, Delivered, DeliveredBefore
<1>2. ScanRight
  <2> SUFFICES ASSUME query.kind = "iterate", query.to # EmptyKey
               PROVE  LET all == Stored(query.from, query.to)
                      IN  /\ Len(out) <= Len(all)
                          /\ out = SubSeq(all, 1, Len(out))
                          /\ query.pc = "done" => out = all
    BY DEF ScanRight
  <2>1. file.name = "final"
    BY DEF ReadInv, Readable
  <2>2. /\ file.data = entries /\ entries \in Seq(DataEntry)
        /\ Len(entries) \in Nat
    BY <2>1, FinalFile
  <2>3. PICK p \in 1..(Len(entries) + 1) : DeliveredBefore(p)
    BY <2>2 DEF ReadInv, Delivered
  <2>4. p - 1 \in 0..Len(entries) /\ out = Hits(query.from, query.to)[p - 1]
    BY <2>2, <2>3 DEF DeliveredBefore
  <2>5. query.pc = "done" => out = Stored(query.from, query.to)
    BY <2>3 DEF DeliveredBefore
  <2> QED
    BY <2>2, <2>4, <2>5, HitsGrow
<1> QED
  BY <1>1, <1>2

(* Nothing is written, read or asked in the beginning. *)
LEMMA InitRead == Init => FileInv /\ ReadInv
<1> SUFFICES ASSUME Init PROVE FileInv /\ ReadInv
  OBVIOUS
<1>1. FileInv
  BY NoBitsType DEF Init, NoFile, FileInv, CompleteInv, FilterInv, FileType,
     Stages, FinalIsComplete, NoFalseNegatives
<1>2. Sorted /\ IndexRight
  BY DEF Init, NoFile, Sorted, IndexRight
<1>3. Readable /\ QueryType /\ Delivered
  BY DEF Init, NoFile, NoQuery, Readable, QueryType, Query, Delivered
<1> QED
  BY <1>1, <1>2, <1>3 DEF ReadInv

(* What a reader relies on holds always. *)
LEMMA ReadInvariant == Spec => [](FileInv /\ ReadInv)
<1>1. FileInv /\ [Next]_vars => FileInv'
  BY NextInv, NextComplete DEF FileInv
<1> QED
  BY <1>1, InitRead, NextRead, PTL DEF Spec

(* A lookup that ends without an error has found the key exactly when it    *)
(* was added, whatever the keys, the sizes of the entries, the filter, the  *)
(* index interval and the bytes readEntryAt sets aside: mayContain(), the   *)
(* key range, the sparse index and the scan lose none.                      *)
THEOREM LookupsAreRight == Spec => []LookupRight
<1>1. FileInv /\ ReadInv => LookupRight
  BY ReadRight
<1> QED
  BY <1>1, ReadInvariant, PTL

(* A scan has delivered the first of the entries between its bounds, in     *)
(* order, and all of them when it ends by itself, also when close() or an   *)
(* entry it cannot read cuts it short (iterate); an empty end bound is left *)
(* out.                                                                     *)
THEOREM ScansAreRight == Spec => []ScanRight
<1>1. FileInv /\ ReadInv => ScanRight
  BY ReadRight
<1> QED
  BY <1>1, ReadInvariant, PTL
=============================================================================
