--------------------------- MODULE LSMStoreProofs ---------------------------
(***************************************************************************)
(* Theorems about the storage engine, for every value of its constants.    *)
(* LSMStore: its types and its log in every store, what flushes keep in a  *)
(* store that neither compacts nor meets an I/O error, and what            *)
(* compactions keep in a store whose active MemTable never fills up,       *)
(* whatever compactions, writes, gets, I/O errors and kills interleave.    *)
(* RangeRead: a range query answers as of the moment it was called, for    *)
(* every number of keys, tables and queries, in a store that only flushes  *)
(* and in one that only compacts: once it has copied the MemTables and the *)
(* list of readers, no step of the store changes what it merges.           *)
(***************************************************************************)
EXTENDS RangeRead, FiniteSetTheorems, SequenceTheorems,
        WellFoundedInduction, TLAPS

-----------------------------------------------------------------------------
(* Sets of numbers *)

(* A set of numbers has a least one. *)
LEMMA LeastNumber ==
    ASSUME NEW T \in SUBSET Nat, T # {}
    PROVE  \E m \in T : \A n \in T : m <= n
<1> DEFINE R == {p \in Nat \X Nat : p[1] < p[2]}
<1>1. IsWellFoundedOn(R, Nat)
  BY NatLessThanWellFounded DEF OpToRel
<1>2. \A i, j \in Nat : i < j => <<i, j>> \in R
  OBVIOUS
<1> HIDE DEF R
<1>3. PICK m \in T : \A n \in T : ~ (<<n, m>> \in R)
  BY <1>1, WFMin
<1>4. \A n \in T : ~ (n < m)
  BY <1>2, <1>3
<1>5. \A n \in T : m <= n
  BY <1>4
<1> QED
  BY <1>5

(* s lists the n elements of S upwards. *)
ListsUpwards(s, n, S) ==
    /\ s \in [1..n -> S]
    /\ \A i, j \in 1..n : i < j => s[i] < s[j]

(* A finite set of numbers can be listed upwards. *)
LEMMA UpwardsExists ==
    ASSUME NEW S \in SUBSET Nat, IsFiniteSet(S)
    PROVE  \E s : ListsUpwards(s, Cardinality(S), S)
<1> DEFINE Bad(U) == ~ \E s : ListsUpwards(s, Cardinality(U), U)
           T == {n \in Nat : \E U \in SUBSET Nat :
                    IsFiniteSet(U) /\ Cardinality(U) = n /\ Bad(U)}
<1> SUFFICES ASSUME Bad(S) PROVE FALSE
  OBVIOUS
<1>1. T # {}
  <2>1. Cardinality(S) \in Nat
    BY FS_CardinalityType
  <2> QED
    BY <2>1
<1>2. PICK n \in T : \A m \in T : n <= m
  <2>1. T \in SUBSET Nat
    OBVIOUS
  <2> HIDE DEF T
  <2> QED
    BY <1>1, <2>1, LeastNumber
<1>3. PICK U \in SUBSET Nat : IsFiniteSet(U) /\ Cardinality(U) = n /\ Bad(U)
  OBVIOUS
<1>4. U # {}
  <2> SUFFICES ASSUME U = {} PROVE FALSE
    OBVIOUS
  <2> DEFINE s == [i \in 1..0 |-> 0]
  <2>1. n = 0
    BY <1>3, FS_EmptySet
  <2>2. 1..0 = {}
    OBVIOUS
  <2>3. ListsUpwards(s, 0, U)
    BY <2>2 DEF ListsUpwards
  <2> HIDE DEF s
  <2> QED
    BY <1>3, <2>1, <2>3
<1>5. PICK l \in U : \A u \in U : l <= u
  BY <1>4, LeastNumber
<1> DEFINE rest == U \ {l}
<1>6. /\ IsFiniteSet(rest) /\ Cardinality(rest) = n - 1
      /\ rest \in SUBSET Nat /\ n \in Nat
  BY <1>3, <1>5, FS_RemoveElement
<1>7. n - 1 \in Nat
  BY <1>6, FS_CardinalityType
<1>8. ~ Bad(rest)
  <2>1. n - 1 \notin T
    <3>1. ~ (n <= n - 1)
      BY <1>6
    <3> HIDE DEF T
    <3> QED
      BY <1>2, <3>1
  <2> QED
    BY <1>6, <1>7, <2>1
<1>9. PICK r : ListsUpwards(r, n - 1, rest)
  BY <1>6, <1>8
<1> DEFINE s == [i \in 1..n |-> IF i = 1 THEN l ELSE r[i - 1]]
<1>10. \A i \in 1..n : i # 1 => i - 1 \in 1..(n - 1)
  BY <1>6
<1>11. \A i \in 1..(n - 1) : r[i] \in rest
  BY <1>9 DEF ListsUpwards
<1>12. s \in [1..n -> U]
  BY <1>10, <1>11
<1>13. ASSUME NEW i \in 1..n, NEW j \in 1..n, i < j
       PROVE  s[i] < s[j]
  <2>1. j # 1 /\ j - 1 \in 1..(n - 1)
    BY <1>6, <1>13
  <2>2. s[j] = r[j - 1] /\ r[j - 1] \in rest
    BY <1>11, <2>1
  <2>3. CASE i = 1
    <3>1. s[i] = l /\ l <= r[j - 1] /\ l # r[j - 1]
      BY <1>5, <2>2, <2>3
    <3>2. l \in Nat /\ r[j - 1] \in Nat
      BY <1>6, <2>2
    <3>3. l < r[j - 1]
      BY <3>1, <3>2
    <3> QED
      BY <2>2, <3>1, <3>3
  <2>4. CASE i # 1
    <3>1. i - 1 \in 1..(n - 1) /\ i - 1 < j - 1 /\ s[i] = r[i - 1]
      BY <1>10, <1>13, <2>4
    <3> QED
      BY <1>9, <2>1, <2>2, <3>1 DEF ListsUpwards
  <2> QED
    BY <2>3, <2>4
<1>14. ListsUpwards(s, n, U)
  BY <1>12, <1>13 DEF ListsUpwards
<1> HIDE DEF s
<1> QED
  BY <1>3, <1>14

(* Such a list leaves no element out. *)
LEMMA UpwardsAll ==
    ASSUME NEW S \in SUBSET Nat, IsFiniteSet(S), NEW s,
           ListsUpwards(s, Cardinality(S), S), NEW v \in S
    PROVE  \E i \in 1..Cardinality(S) : s[i] = v
<1> DEFINE n == Cardinality(S)
           rest == S \ {v}
<1> SUFFICES ASSUME \A i \in 1..n : s[i] # v PROVE FALSE
  OBVIOUS
<1>1. n \in Nat
  BY FS_CardinalityType
<1>2. IsFiniteSet(rest) /\ Cardinality(rest) = n - 1
  BY FS_RemoveElement
<1>3. IsFiniteSet(1..n) /\ Cardinality(1..n) = n
  BY <1>1, FS_Interval
<1>4. s \in [1..n -> rest]
  BY DEF ListsUpwards
<1>5. Cardinality(rest) < Cardinality(1..n)
  BY <1>1, <1>2, <1>3
<1> HIDE DEF n, rest
<1>6. PICK i, j \in 1..n : i # j /\ s[i] = s[j]
  BY <1>2, <1>3, <1>4, <1>5, FS_PigeonHole
<1>7. s[i] \in Nat /\ s[j] \in Nat
  BY <1>4 DEF rest
<1>8. i < j \/ j < i
  BY <1>1, <1>6
<1>9. s[i] < s[j] \/ s[j] < s[i]
  BY <1>8 DEF ListsUpwards, n
<1> QED
  BY <1>6, <1>7, <1>9

-----------------------------------------------------------------------------
(* Types of the operators *)

(* The empty table is a table. *)
LEMMA EmptyTableType == EmptyTable \in Table
BY DEF EmptyTable, Table

(* Putting entries into a table gives a table. *)
LEMMA OverrideType ==
    ASSUME NEW t \in Table, NEW d \in Table
    PROVE  Override(t, d) \in Table
BY DEF Override, Table

(* Every write operation is a table. *)
LEMMA WriteOpsType == WriteOps \subseteq Table
BY DEF WriteOps, PutOps, DeleteOps, Table, Entry

(* get() answers a value or null. *)
LEMMA ResolveType == \A e : Resolve(e) \in Values \cup {Null}
BY DEF Resolve

(* Stacking tables gives a table. *)
LEMMA HighestWinsType ==
    ASSUME NEW D, NEW f \in [D -> Table]
    PROVE  HighestWins(f) \in Table
<1> SUFFICES ASSUME NEW k \in Keys
             PROVE  HighestWins(f)[k] \in Entry \cup {Absent}
  BY DEF HighestWins, Table
<1> DEFINE hits == {i \in DOMAIN f : f[i][k] # Absent}
           top == {i \in hits : \A j \in hits : j <= i}
<1>1. HighestWins(f)[k] =
        IF top = {} THEN Absent ELSE f[CHOOSE i \in top : TRUE][k]
  BY DEF HighestWins
<1>2. CASE top = {}
  BY <1>1, <1>2
<1>3. CASE top # {}
  <2>1. (CHOOSE i \in top : TRUE) \in top
    BY <1>3
  <2>2. (CHOOSE i \in top : TRUE) \in D
    BY <2>1
  <2> QED
    BY <1>1, <1>3, <2>2 DEF Table
<1> QED
  BY <1>2, <1>3

(* The same for a list of tables. *)
LEMMA FirstWinsType ==
    ASSUME NEW D, NEW f \in [D -> Table]
    PROVE  FirstWins(f) \in Table
<1> SUFFICES ASSUME NEW k \in Keys
             PROVE  FirstWins(f)[k] \in Entry \cup {Absent}
  BY DEF FirstWins, Table
<1> DEFINE hits == {i \in DOMAIN f : f[i][k] # Absent}
           first == {i \in hits : \A j \in hits : i <= j}
<1>1. FirstWins(f)[k] =
        IF first = {} THEN Absent ELSE f[CHOOSE i \in first : TRUE][k]
  BY DEF FirstWins
<1>2. CASE first = {}
  BY <1>1, <1>2
<1>3. CASE first # {}
  <2>1. (CHOOSE i \in first : TRUE) \in first
    BY <1>3
  <2>2. (CHOOSE i \in first : TRUE) \in D
    BY <2>1
  <2> QED
    BY <1>1, <1>3, <2>2 DEF Table
<1> QED
  BY <1>2, <1>3

(* A manifest edit that adds a table gives a manifest. *)
LEMMA AddSSTableType ==
    ASSUME NEW m \in Manifest, NEW n \in Nat
    PROVE  AddSSTable(m, n) \in Manifest
<1>1. IsFiniteSet(m.tables \cup {n})
  BY FS_AddElement DEF Manifest
<1> QED
  BY <1>1 DEF Manifest, AddSSTable

(* A manifest edit that removes tables gives a manifest. *)
LEMMA RemoveSSTablesType ==
    ASSUME NEW m \in Manifest, NEW nums
    PROVE  RemoveSSTables(m, nums) \subseteq Manifest
<1>1. IsFiniteSet(m.tables \ nums)
  BY FS_Subset DEF Manifest
<1>2. m.tables \ nums \subseteq Nat /\ m.next - 1 \in Nat
  BY DEF Manifest
<1> SUFFICES ASSUME NEW r \in RemoveSSTables(m, nums)
             PROVE  r \in Manifest
  OBVIOUS
<1>3. PICK top \in (m.tables \ nums) \cup {m.next - 1} :
        r = [tables |-> m.tables \ nums, next |-> top + 1]
  BY DEF RemoveSSTables
<1>4. top + 1 \in Nat \ {0}
  BY <1>2
<1> QED
  BY <1>1, <1>2, <1>3, <1>4 DEF Manifest

(* The empty manifest is a manifest. *)
LEMMA EmptyManifestType == EmptyManifest \in Manifest
<1>1. IsFiniteSet({})
  BY FS_EmptySet
<1> QED
  BY <1>1 DEF Manifest, EmptyManifest
-----------------------------------------------------------------------------
(* Type correctness *)

(* A function on 1..n is a sequence of length n. *)
LEMMA FunctionIsSeq ==
    ASSUME NEW T, NEW n \in Nat, NEW s \in [1..n -> T]
    PROVE  s \in Seq(T) /\ Len(s) = n
OBVIOUS

(* An update outside its domain does not change a function. *)
LEMMA ExceptOutside ==
    ASSUME NEW D, NEW T, NEW s \in [D -> T], NEW i, i \notin D, NEW e
    PROVE  [s EXCEPT ![i] = e] = s
OBVIOUS

(* A slice of a sequence has elements of the same type. *)
LEMMA SubSeqInType ==
    ASSUME NEW S, NEW s \in Seq(S), NEW m \in Nat \ {0}, NEW n \in Int,
           n <= Len(s)
    PROVE  SubSeq(s, m, n) \in Seq(S)
<1>1. \A i \in m..n : s[i] \in S
  BY ElementOfSeq
<1> QED
  BY <1>1, SubSeqProperties

(* Sorting readers by file number gives a list of readers. *)
LEMMA SortedByNumberType ==
    ASSUME NEW s \in Seq(Reader), NEW t \in SortedByNumber(s)
    PROVE  t \in Seq(Reader)
<1>1. PICK p \in [DOMAIN s -> DOMAIN s] : t = [i \in DOMAIN s |-> s[p[i]]]
  BY DEF SortedByNumber
<1>2. DOMAIN s = 1..Len(s) /\ Len(s) \in Nat
  BY LenProperties
<1>3. \A i \in 1..Len(s) : s[p[i]] \in Reader
  BY <1>2, ElementOfSeq
<1> QED
  BY <1>1, <1>2, <1>3

(* The idle states of the activities are well typed. *)
LEMMA IdleTypes ==
    /\ IdleFlush \in FlushState
    /\ IdleCompaction \in CompactionState
    /\ IdleGet \in GetState
<1>1. (CHOOSE k \in Keys : TRUE) \in Keys
  BY DataAssumption
<1> QED
  BY <1>1, EmptyTableType, EmptyManifestType
  DEF IdleFlush, IdleCompaction, IdleGet, FlushState, CompactionState,
      GetState, FlushPC, CompactionPC

(* What a restarted store would answer is a map from keys to values. *)
LEMMA DiskViewType == DiskView \in [Keys -> Values \cup {Null}]
BY ResolveType DEF DiskView, Recovered

(* The initial states are well typed. *)
LEMMA InitType == Init => TypeOK
<1> SUFFICES ASSUME Init PROVE TypeOK
  OBVIOUS
<1>1. PICK p \in Preloads :
        files = p /\ manifestFile = [tables |-> DOMAIN p, next |-> Len(p) + 1]
  BY DEF Init
<1>2. p \in Seq(Table)
  BY LSMAssumption
<1>3. /\ DOMAIN p = 1..Len(p)
      /\ Len(p) \in Nat
      /\ p \in [1..Len(p) -> Table]
  BY <1>2
<1>4. IsFiniteSet(1..Len(p))
  BY <1>3, FS_Interval
<1>5. manifestFile \in Manifest
  BY <1>1, <1>3, <1>4 DEF Manifest
<1>6. DOMAIN files \subseteq Nat /\ files \in [DOMAIN files -> Table]
  BY <1>1, <1>3
<1>7. latest \in [Keys -> Values \cup {Null}]
  BY DiskViewType DEF Init
<1>8. manifestTmp \subseteq Manifest /\ closed \subseteq Nat
  BY DEF Init
<1>9. wal \in Seq(Table) /\ sstables \in Seq(Reader)
  BY DEF Init
<1>10. used \in [Bounds -> Nat] /\ up \in BOOLEAN /\ opened \in Nat
  BY DEF Init
<1>11. /\ inflight \in Table /\ active \in Table /\ immutable \in Table
       /\ manifest \in Manifest
  BY EmptyTableType, EmptyManifestType DEF Init
<1>12. /\ flush \in FlushState
       /\ compaction \in CompactionState
       /\ get \in GetState
  BY IdleTypes DEF Init
<1> QED
  BY <1>5, <1>6, <1>7, <1>8, <1>9, <1>10, <1>11, <1>12 DEF TypeOK

(* FlushBuild preserves the types. *)
LEMMA FlushBuildType ==
    ASSUME TypeOK, FlushBuild
    PROVE  TypeOK'
BY EmptyTableType, EmptyManifestType, IdleTypes
DEF TypeOK, FlushBuild, FlushAt, FlushState, FlushPC, memVars, readerVars,
    manifestVars

(* FlushAdd preserves the types. *)
LEMMA FlushAddType ==
    ASSUME TypeOK, FlushAdd
    PROVE  TypeOK'
BY AddSSTableType, EmptyTableType, EmptyManifestType, IdleTypes
DEF TypeOK, FlushAdd, FlushAt, FlushState, FlushPC, memVars, readerVars,
    manifestVars

(* FlushSave preserves the types. *)
LEMMA FlushSaveType ==
    ASSUME TypeOK, FlushSave
    PROVE  TypeOK'
BY EmptyTableType, EmptyManifestType, IdleTypes
DEF TypeOK, FlushSave, FlushAt, FlushState, FlushPC, SaveTmp, memVars,
    readerVars, manifestVars

(* FlushRename preserves the types. *)
LEMMA FlushRenameType ==
    ASSUME TypeOK, FlushRename
    PROVE  TypeOK'
BY EmptyTableType, EmptyManifestType, IdleTypes
DEF TypeOK, FlushRename, FlushAt, FlushState, FlushPC, RenameTmp, memVars,
    readerVars, manifestVars

(* FlushOpen preserves the types. *)
LEMMA FlushOpenType ==
    ASSUME TypeOK, FlushOpen
    PROVE  TypeOK'
BY EmptyTableType, EmptyManifestType, IdleTypes
DEF TypeOK, FlushOpen, FlushAt, FlushState, FlushPC, memVars, readerVars,
    manifestVars

(* FlushPublish preserves the types. *)
LEMMA FlushPublishType ==
    ASSUME TypeOK, FlushPublish
    PROVE  TypeOK'
<1> DEFINE r == [id |-> opened + 1, num |-> flush.num, data |-> flush.data]
<1>1. r \in Reader
  BY DEF TypeOK, FlushState, Reader
<1>2. sstables' \in Seq(Reader)
  <2>1. <<r>> \in Seq(Reader) /\ sstables \in Seq(Reader)
    BY <1>1 DEF TypeOK
  <2>2. <<r>> \o sstables \in Seq(Reader)
    BY <2>1, ConcatProperties
  <2> QED
    BY <2>2 DEF FlushPublish, Unshift
<1>3. flush' \in FlushState
  BY EmptyTableType DEF TypeOK, FlushPublish, FlushState, FlushPC
<1> QED
  BY <1>2, <1>3 DEF TypeOK, FlushPublish, memVars, manifestVars

(* Checkpoint preserves the types. *)
LEMMA CheckpointType ==
    ASSUME TypeOK, Checkpoint
    PROVE  TypeOK'
<1>1. wal' \in Seq(Table)
  BY EmptyTableType, AppendProperties DEF TypeOK, Checkpoint
<1>2. flush' \in FlushState
  BY DEF TypeOK, Checkpoint, FlushState, FlushPC
<1> QED
  BY <1>1, <1>2 DEF TypeOK, Checkpoint, memVars, readerVars, manifestVars

(* CheckpointList preserves the types. *)
LEMMA CheckpointListType ==
    ASSUME TypeOK, CheckpointList
    PROVE  TypeOK'
BY DEF TypeOK, CheckpointList, FlushState, FlushPC, memVars, readerVars,
       manifestVars

(* Unlinking a log leaves a list of logs that is shorter by one. *)
LEMMA WithoutLogType ==
    ASSUME NEW w \in Seq(Table), NEW i \in Nat \ {0}, i <= Len(w)
    PROVE  /\ WithoutLog(w, i) \in Seq(Table)
           /\ Len(WithoutLog(w, i)) = Len(w) - 1
<1> DEFINE a == SubSeq(w, 1, i - 1)
           b == SubSeq(w, i + 1, Len(w))
<1>1. Len(w) \in Nat /\ i - 1 \in Nat /\ i + 1 \in Nat \ {0}
      /\ i - 1 <= Len(w)
  BY LenProperties
<1>2. a \in Seq(Table) /\ Len(a) = i - 1
  BY <1>1, SubSeqInType, SubSeqProperties, ElementOfSeq
<1>3. b \in Seq(Table) /\ Len(b) = Len(w) - i
  BY <1>1, SubSeqInType, SubSeqProperties, ElementOfSeq
<1>4. WithoutLog(w, i) = a \o b
  BY DEF WithoutLog
<1> HIDE DEF a, b
<1>5. a \o b \in Seq(Table) /\ Len(a \o b) = (i - 1) + (Len(w) - i)
  BY <1>2, <1>3, ConcatProperties
<1> QED
  BY <1>1, <1>4, <1>5

(* Unlinking the oldest log leaves the others. *)
LEMMA WithoutOldest ==
    ASSUME NEW w \in Seq(Table), w # << >>
    PROVE  WithoutLog(w, 1) = Tail(w)
<1>1. Len(w) \in Nat \ {0}
  OBVIOUS
<1>2. SubSeq(w, 1, 1 - 1) = << >>
  BY SubSeqProperties
<1>3. SubSeq(w, 1 + 1, Len(w)) = Tail(w)
  <2>1. SubSeq(w, 2, Len(w)) \in Seq(Table)
    BY <1>1, SubSeqInType
  <2> QED
    BY <1>1, <2>1
<1>4. Tail(w) \in Seq(Table)
  BY <1>1
<1> QED
  BY <1>2, <1>3, <1>4 DEF WithoutLog

(* Spending one unit of a bound leaves the others counted. *)
LEMMA SpendType ==
    ASSUME TypeOK, NEW b \in Bounds, Spend(b)
    PROVE  used' \in [Bounds -> Nat]
<1>1. used \in [Bounds -> Nat] /\ used[b] + 1 \in Nat
  BY DEF TypeOK
<1> QED
  BY <1>1 DEF Spend

(* CheckpointUnlink preserves the types. *)
LEMMA CheckpointUnlinkType ==
    ASSUME TypeOK, CheckpointUnlink
    PROVE  TypeOK'
<1>1. wal \in Seq(Table) /\ flush.kept \in Nat /\ flush \in FlushState
  BY DEF TypeOK, FlushState
<1>2. wal' \in Seq(Table)
  BY <1>1, WithoutLogType DEF CheckpointUnlink
<1>3. flush' \in FlushState
  BY <1>1 DEF CheckpointUnlink, FlushState
<1>4. used' \in [Bounds -> Nat]
  <2>1. UNCHANGED used \/ Spend("leftovers")
    BY DEF CheckpointUnlink
  <2>2. "leftovers" \in Bounds
    BY DEF Bounds
  <2> QED
    BY <2>1, <2>2, SpendType DEF TypeOK
<1> QED
  BY <1>2, <1>3, <1>4
  DEF TypeOK, CheckpointUnlink, memVars, readerVars, manifestVars

(* FlushDone preserves the types. *)
LEMMA FlushDoneType ==
    ASSUME TypeOK, FlushDone
    PROVE  TypeOK'
BY EmptyTableType, EmptyManifestType, IdleTypes
DEF TypeOK, FlushDone, FlushAt, memVars, readerVars, manifestVars

(* FlushReject preserves the types. *)
LEMMA FlushRejectType ==
    ASSUME TypeOK, FlushReject
    PROVE  TypeOK'
BY EmptyTableType, EmptyManifestType, IdleTypes
DEF TypeOK, FlushReject, FailFlush, memVars, readerVars, manifestVars

(* CompactRead preserves the types. *)
LEMMA CompactReadType ==
    ASSUME TypeOK, CompactRead
    PROVE  TypeOK'
<1>1. OnDisk(compaction.metas) \in Table
  <2> DEFINE f == [n \in compaction.metas \cap DOMAIN files |-> files[n]]
  <2>1. f \in [compaction.metas \cap DOMAIN files -> Table]
    BY DEF TypeOK
  <2> QED
    BY <2>1, HighestWinsType DEF OnDisk
<1>2. Compacted(compaction.metas) \in Table
  BY <1>1 DEF Compacted, Table
<1>3. compaction' \in CompactionState
  BY <1>2 DEF TypeOK, CompactRead, CompactionState, CompactionPC, Manifest
<1> QED
  BY <1>3 DEF TypeOK, CompactRead, memVars, readerVars, manifestVars

(* CompactBuild preserves the types. *)
LEMMA CompactBuildType ==
    ASSUME TypeOK, CompactBuild
    PROVE  TypeOK'
BY EmptyTableType, EmptyManifestType, IdleTypes
DEF TypeOK, CompactBuild, CompactionAt, CompactionState, CompactionPC,
    memVars, readerVars, manifestVars

(* CompactAdd preserves the types. *)
LEMMA CompactAddType ==
    ASSUME TypeOK, CompactAdd
    PROVE  TypeOK'
BY AddSSTableType, EmptyTableType, EmptyManifestType, IdleTypes
DEF TypeOK, CompactAdd, CompactionAt, CompactionState, CompactionPC, memVars,
    readerVars, manifestVars

(* CompactRemove preserves the types. *)
LEMMA CompactRemoveType ==
    ASSUME TypeOK, CompactRemove
    PROVE  TypeOK'
BY RemoveSSTablesType, EmptyTableType, EmptyManifestType, IdleTypes
DEF TypeOK, CompactRemove, CompactionAt, CompactionState, CompactionPC,
    memVars, readerVars, manifestVars

(* CompactSave preserves the types. *)
LEMMA CompactSaveType ==
    ASSUME TypeOK, CompactSave
    PROVE  TypeOK'
BY EmptyTableType, EmptyManifestType, IdleTypes
DEF TypeOK, CompactSave, CompactionAt, CompactionState, CompactionPC, SaveTmp,
    memVars, readerVars, manifestVars

(* CompactRename preserves the types. *)
LEMMA CompactRenameType ==
    ASSUME TypeOK, CompactRename
    PROVE  TypeOK'
BY EmptyTableType, EmptyManifestType, IdleTypes
DEF TypeOK, CompactRename, CompactionAt, CompactionState, CompactionPC,
    RenameTmp, memVars, readerVars, manifestVars

(* CompactUnlink preserves the types. *)
LEMMA CompactUnlinkType ==
    ASSUME TypeOK, CompactUnlink
    PROVE  TypeOK'
<1>1. compaction' \in CompactionState
  BY DEF TypeOK, CompactUnlink, CompactionState
<1>2. DOMAIN files' \subseteq Nat /\ files' \in [DOMAIN files' -> Table]
  BY DEF TypeOK, CompactUnlink
<1>3. used' \in [Bounds -> Nat]
  <2>1. UNCHANGED used \/ Spend("faults")
    BY DEF CompactUnlink
  <2>2. "faults" \in Bounds
    BY DEF Bounds
  <2> QED
    BY <2>1, <2>2, SpendType DEF TypeOK
<1> QED
  BY <1>1, <1>2, <1>3
  DEF TypeOK, CompactUnlink, memVars, readerVars, manifestVars

(* CompactUnlinked preserves the types. *)
LEMMA CompactUnlinkedType ==
    ASSUME TypeOK, CompactUnlinked
    PROVE  TypeOK'
BY EmptyTableType, EmptyManifestType, IdleTypes
DEF TypeOK, CompactUnlinked, CompactionAt, CompactionState, CompactionPC,
    memVars, readerVars, manifestVars

(* CompactScan preserves the types. *)
LEMMA CompactScanType ==
    ASSUME TypeOK, CompactScan
    PROVE  TypeOK'
<1>1. PICK j \in compaction.idx..Len(sstables) :
        /\ closed' = closed \cup {sstables[j].id}
        /\ compaction' = MovePast(j)
  BY DEF CompactScan
<1>2. /\ compaction.idx \in Nat \ {0}
      /\ sstables \in Seq(Reader)
      /\ compaction.kept \in Seq(Reader)
      /\ Len(sstables) \in Nat
  BY DEF TypeOK, CompactionState
<1>3. j \in Nat \ {0} /\ j <= Len(sstables) /\ compaction.idx <= j
  BY <1>2
<1>4. closed' \subseteq Nat
  <2>1. sstables[j] \in Reader
    BY <1>2, <1>3
  <2> QED
    BY <1>1, <2>1 DEF TypeOK, Reader
<1>5. SubSeq(sstables, compaction.idx, j - 1) \in Seq(Reader)
  BY <1>2, <1>3, SubSeqInType
<1>6. compaction.kept \o SubSeq(sstables, compaction.idx, j - 1)
        \in Seq(Reader)
  BY <1>2, <1>5, ConcatProperties
<1> DEFINE kept == compaction.kept \o SubSeq(sstables, compaction.idx, j - 1)
<1>7. compaction' = [compaction EXCEPT !.idx = j + 1, !.kept = kept]
  BY <1>1 DEF MovePast
<1>8. kept \in Seq(Reader)
  BY <1>6
<1> HIDE DEF kept
<1>9. compaction' \in CompactionState
  <2> DEFINE c == [compaction EXCEPT !.idx = j + 1]
  <2>1. c \in CompactionState
    <3>1. compaction \in CompactionState
      BY DEF TypeOK
    <3>2. j + 1 \in Nat \ {0}
      BY <1>3
    <3> QED
      BY <3>1, <3>2 DEF CompactionState
  <2>2. compaction' = [c EXCEPT !.kept = kept]
    BY <1>7
  <2> HIDE DEF c
  <2> QED
    BY <1>8, <2>1, <2>2 DEF CompactionState
<1> QED
  BY <1>4, <1>9 DEF TypeOK, CompactScan, memVars, readerVars, manifestVars

(* CompactScanEnd preserves the types. *)
LEMMA CompactScanEndType ==
    ASSUME TypeOK, CompactScanEnd
    PROVE  TypeOK'
<1>1. /\ compaction.idx \in Nat \ {0}
      /\ sstables \in Seq(Reader)
      /\ compaction.kept \in Seq(Reader)
      /\ Len(sstables) \in Nat
  BY DEF TypeOK, CompactionState
<1>2. SubSeq(sstables, compaction.idx, Len(sstables)) \in Seq(Reader)
  BY <1>1, SubSeqInType
<1>3. compaction.kept \o SubSeq(sstables, compaction.idx, Len(sstables))
        \in Seq(Reader)
  BY <1>1, <1>2, ConcatProperties
<1>4. compaction' \in CompactionState
  BY <1>3 DEF CompactScanEnd, TypeOK, CompactionState, CompactionPC
<1> QED
  BY <1>4 DEF TypeOK, CompactScanEnd, memVars, readerVars, manifestVars

(* CompactSwap preserves the types. *)
LEMMA CompactSwapType ==
    ASSUME TypeOK, CompactSwap
    PROVE  TypeOK'
<1> DEFINE r == [id |-> opened + 1, num |-> compaction.num,
                 data |-> files[compaction.num]]
           s == Append(compaction.kept, r)
<1>1. r \in Reader
  BY DEF TypeOK, CompactSwap, CompactionState, Reader
<1>2. s \in Seq(Reader)
  BY <1>1, AppendProperties DEF TypeOK, CompactionState
<1>3. sstables' \in Seq(Reader)
  BY <1>2, SortedByNumberType DEF CompactSwap
<1> QED
  BY <1>3, IdleTypes DEF TypeOK, CompactSwap, memVars, manifestVars

(* CompactReject preserves the types. *)
LEMMA CompactRejectType ==
    ASSUME TypeOK, CompactReject
    PROVE  TypeOK'
BY EmptyTableType, EmptyManifestType, IdleTypes
DEF TypeOK, CompactReject, FailCompaction, memVars, readerVars, manifestVars

-----------------------------------------------------------------------------
(***************************************************************************)
(* What initialize() opens: files that MANIFEST names and that exist, all  *)
(* of them unless one cannot be opened.  The names it drops leave the next *)
(* file number above the others.                                           *)
(***************************************************************************)
LEMMA InitializeOpens ==
    ASSUME TypeOK, Initialize
    PROVE  /\ manifest' \in Manifest /\ manifestFile' = manifest'
           /\ manifest'.tables \subseteq manifestFile.tables
           /\ manifest'.tables \subseteq DOMAIN files
           /\ (\A n \in manifestFile.tables : n < manifestFile.next)
                => \A n \in manifest'.tables : n < manifest'.next
           /\ used' \in [Bounds -> Nat]
           /\ used'["drops"] = used["drops"]
                => manifest'.tables = manifestFile.tables \cap DOMAIN files
<1>1. PICK bad \in SUBSET manifestFile.tables :
        /\ Unopened(bad)
        /\ IF bad = {} THEN manifest' = manifestFile
           ELSE manifest' \in RemoveSSTables(manifestFile, bad)
  BY DEF Initialize
<1>2. /\ manifestFile \in Manifest /\ manifestFile.tables \subseteq Nat
      /\ manifestFile.next \in Nat \ {0} /\ used \in [Bounds -> Nat]
      /\ used["drops"] \in Nat /\ "drops" \in Bounds
  BY DEF TypeOK, Manifest, Bounds
<1>3. manifest' \in Manifest /\ manifestFile' = manifest'
  BY <1>1, <1>2, RemoveSSTablesType DEF Initialize
<1>4. /\ manifest'.tables = manifestFile.tables \ bad
      /\ (\A n \in manifestFile.tables : n < manifestFile.next)
           => \A n \in manifest'.tables : n < manifest'.next
  <2>1. CASE bad = {}
    BY <1>1, <2>1
  <2>2. CASE bad # {}
    <3> DEFINE rest == manifestFile.tables \ bad
               known == rest \cup {manifestFile.next - 1}
    <3>1. PICK top \in known :
            /\ manifest' = [tables |-> rest, next |-> top + 1]
            /\ \A o \in known : o <= top
      BY <1>1, <2>2, Zenon DEF RemoveSSTables
    <3>2. known \subseteq Int
      BY <1>2
    <3>3. \A n \in rest : n < top + 1
      BY <3>1, <3>2
    <3> QED
      BY <3>1, <3>3
  <2> QED
    BY <2>1, <2>2
<1>5. manifestFile.tables \ DOMAIN files \subseteq bad
  BY <1>1 DEF Unopened
<1>6. used' \in [Bounds -> Nat]
  BY <1>1, <1>2 DEF Unopened, Spend
<1>7. ASSUME used'["drops"] = used["drops"]
      PROVE  bad = manifestFile.tables \ DOMAIN files
  BY <1>1, <1>2, <1>7 DEF Unopened, Spend
<1> QED
  BY <1>3, <1>4, <1>5, <1>6, <1>7

(* What the logs and any SSTables add up to is a map. *)
LEMMA RecoveredType ==
    ASSUME NEW nums
    PROVE  Recovered(nums) \in [Keys -> Values \cup {Null}]
BY ResolveType DEF Recovered

(* Initialize preserves the types. *)
LEMMA InitializeType ==
    ASSUME TypeOK, Initialize
    PROVE  TypeOK'
<1> DEFINE S == manifest'.tables
<1>0. /\ S \subseteq DOMAIN files /\ S \subseteq Nat /\ IsFiniteSet(S)
      /\ manifest' \in Manifest /\ manifestFile' \in Manifest
      /\ used' \in [Bounds -> Nat]
  BY InitializeOpens DEF Manifest
<1>1. PICK s \in Descending(S) :
        /\ sstables' = [i \in DOMAIN s |->
                          [id |-> i, num |-> s[i], data |-> files[s[i]]]]
        /\ opened' = Len(s)
  BY DEF Initialize
<1>2. PICK n \in Nat : n = Cardinality(S)
  BY <1>0, FS_CardinalityType
<1>3. s \in [1..n -> S]
  BY <1>2 DEF Descending
<1>4. Len(s) = n /\ DOMAIN s = 1..n
  BY <1>3, FunctionIsSeq
<1>5. ASSUME NEW i \in 1..n
      PROVE  [id |-> i, num |-> s[i], data |-> files[s[i]]] \in Reader
  <2>1. s[i] \in S /\ i \in Nat
    BY <1>3
  <2>2. s[i] \in Nat /\ files[s[i]] \in Table
    BY <1>0, <2>1 DEF TypeOK
  <2> QED
    BY <2>1, <2>2 DEF Reader
<1>6. sstables' \in Seq(Reader) /\ opened' \in Nat
  <2>1. sstables' \in [1..n -> Reader]
    BY <1>1, <1>4, <1>5
  <2> QED
    BY <1>1, <1>4, <2>1, FunctionIsSeq
<1>7. wal' \in Seq(Table)
  BY EmptyTableType DEF TypeOK, Initialize
<1>8. active' \in Table
  <2>1. wal \in [1..Len(wal) -> Table]
    BY DEF TypeOK
  <2> QED
    BY <2>1, HighestWinsType DEF Initialize, Replayed
<1>9. latest' \in [Keys -> Values \cup {Null}]
  BY RecoveredType DEF Initialize
<1> QED
  BY <1>0, <1>6, <1>7, <1>8, <1>9 DEF TypeOK, Initialize

(* A write that is handed to the log preserves the types. *)
LEMMA AppendType ==
    ASSUME TypeOK, NEW d \in WriteOps, Append_(d)
    PROVE  TypeOK'
BY WriteOpsType
DEF TypeOK, Append_, Spend, memVars, readerVars, manifestVars, Bounds

(* Writing an operation to the current log gives a list of logs. *)
LEMMA WriteLogType ==
    ASSUME TypeOK, WriteLog(inflight)
    PROVE  wal' \in Seq(Table)
<1>1. wal \in Seq(Table)
  BY DEF TypeOK
<1>2. CASE Len(wal) \in 1..Len(wal)
  <2>1. Override(wal[Len(wal)], inflight) \in Table
    BY <1>1, <1>2, ElementOfSeq, OverrideType DEF TypeOK
  <2> QED
    BY <1>1, <1>2, <2>1, ExceptSeq DEF WriteLog
<1>3. CASE Len(wal) \notin 1..Len(wal)
  <2>1. wal \in [1..Len(wal) -> Table]
    BY <1>1
  <2>2. [wal EXCEPT ![Len(wal)] = Override(wal[Len(wal)], inflight)] = wal
    BY <1>3, <2>1, ExceptOutside
  <2> QED
    BY <1>1, <2>2 DEF WriteLog
<1> QED
  BY <1>2, <1>3

(* The map of acknowledged writes stays a map. *)
LEMMA AcknowledgeType ==
    ASSUME TypeOK, Acknowledge(inflight)
    PROVE  latest' \in [Keys -> Values \cup {Null}]
BY ResolveType DEF TypeOK, Acknowledge

(* An acknowledged write preserves the types. *)
LEMMA CommitType ==
    ASSUME TypeOK, Commit
    PROVE  TypeOK'
<1>1. wal' \in Seq(Table)
  BY WriteLogType DEF Commit
<1>2. latest' \in [Keys -> Values \cup {Null}]
  BY AcknowledgeType DEF Commit
<1>3. inflight' \in Table /\ Override(active, inflight) \in Table
  BY EmptyTableType, OverrideType DEF TypeOK, Commit
<1>4. active' \in Table /\ immutable' \in Table
  BY <1>3, EmptyTableType DEF TypeOK, Commit, TriggerFlush
<1>5. flush' \in FlushState
  <2>1. manifest.next \in Nat
    BY DEF TypeOK, Manifest
  <2> QED
    BY <2>1, IdleTypes DEF TypeOK, Commit, TriggerFlush, FlushState, FlushPC
<1>6. used' \in [Bounds -> Nat]
  BY DEF TypeOK, Commit, Spend, Bounds
<1> QED
  BY <1>1, <1>2, <1>3, <1>4, <1>5, <1>6
  DEF TypeOK, Commit, readerVars, manifestVars

(* A get preserves the types. *)
LEMMA GetStartType ==
    ASSUME TypeOK, NEW k \in Keys, GetStart(k)
    PROVE  TypeOK'
<1>1. get' \in GetState
  BY ResolveType DEF TypeOK, GetStart, GetState
<1>2. used' \in [Bounds -> Nat]
  BY DEF TypeOK, GetStart, Spend, Bounds
<1> QED
  BY <1>1, <1>2 DEF TypeOK, GetStart, memVars, readerVars, manifestVars

(* A probe of one reader preserves the types. *)
LEMMA GetStepType ==
    ASSUME TypeOK, GetStep
    PROVE  TypeOK'
<1>1. get \in GetState /\ get.rest \in Seq(Reader)
  BY DEF TypeOK, GetState
<1>2. get' \in GetState
  <2>1. CASE get' = [get EXCEPT !.st = "failed", !.rest = << >>]
    BY <1>1, <2>1, EmptySeq DEF GetState
  <2>2. CASE \E e : get' = [get EXCEPT !.st = "done", !.rest = << >>,
                                       !.result = Resolve(e)]
    BY <1>1, <2>2, EmptySeq, ResolveType, ZenonT(60) DEF GetState
  <2>3. CASE Len(get.rest) > 1 /\ get' = [get EXCEPT !.rest = Tail(@)]
    <3>1. Tail(get.rest) \in Seq(Reader)
      BY <1>1, <2>3
    <3> QED
      BY <1>1, <2>3, <3>1 DEF GetState
  <2> QED
    BY <2>1, <2>2, <2>3 DEF GetStep
<1> QED
  BY <1>2 DEF TypeOK, GetStep, memVars, readerVars, manifestVars

(* Losing the memory of the process preserves the types. *)
LEMMA LoseMemoryType ==
    ASSUME TypeOK, LoseMemory, wal' \in Seq(Table),
           latest' \in [Keys -> Values \cup {Null}],
           used' \in [Bounds -> Nat]
    PROVE  TypeOK'
BY EmptyTableType, EmptyManifestType, IdleTypes, EmptySeq
DEF TypeOK, LoseMemory

(***************************************************************************)
(* The store keeps its types, whatever the keys, the values, the bounds    *)
(* and the SSTables it starts with.                                        *)
(***************************************************************************)
THEOREM TypeCorrect == Spec => []TypeOK
<1>1. TypeOK /\ [Next]_vars => TypeOK'
  <2> SUFFICES ASSUME TypeOK, [Next]_vars PROVE TypeOK'
    OBVIOUS
  <2>1. CASE Initialize
    BY <2>1, InitializeType
  <2>2. CASE \E d \in WriteOps : Append_(d)
    BY <2>2, AppendType
  <2>3. CASE Commit
    BY <2>3, CommitType
  <2>4. CASE FlushStep
    BY <2>4, FlushBuildType, FlushAddType, FlushSaveType, FlushRenameType,
       FlushOpenType, FlushPublishType, CheckpointType, CheckpointListType,
       CheckpointUnlinkType, FlushDoneType, FlushRejectType
    DEF FlushStep
  <2>5. CASE FlushError
    BY <2>5, IdleTypes
    DEF TypeOK, FlushError, FailFlush, Spend, Bounds, memVars, readerVars,
        manifestVars
  <2>6. CASE CompactStart
    <3>1. manifest.tables \subseteq Nat
      BY DEF TypeOK, Manifest
    <3>2. compaction' \in CompactionState
      BY <2>6, <3>1, IdleTypes DEF CompactStart, CompactionState, CompactionPC
    <3>3. used' \in [Bounds -> Nat]
      BY <2>6 DEF TypeOK, CompactStart, Spend, Bounds
    <3> QED
      BY <2>6, <3>2, <3>3
      DEF TypeOK, CompactStart, memVars, readerVars, manifestVars
  <2>7. CASE CompactStep
    BY <2>7, CompactReadType, CompactBuildType, CompactAddType,
       CompactRemoveType, CompactSaveType, CompactRenameType,
       CompactUnlinkType, CompactUnlinkedType, CompactScanType,
       CompactScanEndType, CompactSwapType, CompactRejectType
    DEF CompactStep
  <2>8. CASE CompactError
    BY <2>8, IdleTypes
    DEF TypeOK, CompactError, FailCompaction, Spend, Bounds, memVars,
        readerVars, manifestVars
  <2>9. CASE \E k \in Keys : GetStart(k)
    BY <2>9, GetStartType
  <2>10. CASE GetStep
    BY <2>10, GetStepType
  <2>11. CASE Crash
    <3>1. wal' \in Seq(Table)
      BY <2>11, WriteLogType DEF Crash, TypeOK
    <3>2. latest' \in [Keys -> Values \cup {Null}]
      BY <2>11, AcknowledgeType DEF Crash, TypeOK
    <3>3. used' \in [Bounds -> Nat]
      BY <2>11 DEF Crash, TypeOK, Spend, Bounds
    <3> QED
      BY <2>11, <3>1, <3>2, <3>3, LoseMemoryType DEF Crash
  <2>12. CASE Close
    <3>1. wal' \in Seq(Table)
      BY <2>12, WriteLogType DEF Close, TypeOK
    <3>2. latest' \in [Keys -> Values \cup {Null}]
      BY <2>12, AcknowledgeType DEF Close, TypeOK
    <3>3. used' \in [Bounds -> Nat]
      BY <2>12 DEF Close, TypeOK, Spend, Bounds
    <3> QED
      BY <2>12, <3>1, <3>2, <3>3, LoseMemoryType DEF Close
  <2>13. CASE UNCHANGED vars
    BY <2>13 DEF vars, TypeOK, memVars, readerVars, manifestVars
  <2> QED
    BY <2>1, <2>2, <2>3, <2>4, <2>5, <2>6, <2>7, <2>8, <2>9, <2>10, <2>11,
       <2>12, <2>13
    DEF Next, Quiescent
<1> QED
  BY <1>1, InitType, PTL DEF Spec

-----------------------------------------------------------------------------
(* Reading a stack of tables *)

(* Index i is the first, or the highest, with an entry for key k. *)
FirstHit(f, k, i) ==
    /\ i \in DOMAIN f /\ f[i][k] # Absent
    /\ \A j \in DOMAIN f : f[j][k] # Absent => i <= j

TopHit(f, k, i) ==
    /\ i \in DOMAIN f /\ f[i][k] # Absent
    /\ \A j \in DOMAIN f : f[j][k] # Absent => j <= i

(* The entry found is the one at the first index that has one. *)
LEMMA FirstWinsAt ==
    ASSUME NEW f, DOMAIN f \subseteq Int, NEW k \in Keys, NEW i,
           FirstHit(f, k, i)
    PROVE  FirstWins(f)[k] = f[i][k]
<1> DEFINE hits == {n \in DOMAIN f : f[n][k] # Absent}
           first == {n \in hits : \A j \in hits : n <= j}
<1>1. first = {i}
  BY DEF FirstHit
<1>2. (CHOOSE n \in first : TRUE) = i
  BY <1>1
<1>3. FirstWins(f)[k] =
        IF first = {} THEN Absent ELSE f[CHOOSE n \in first : TRUE][k]
  BY DEF FirstWins
<1> QED
  BY <1>1, <1>2, <1>3

(* The entry found is the one at the highest index that has one. *)
LEMMA HighestWinsAt ==
    ASSUME NEW f, DOMAIN f \subseteq Int, NEW k \in Keys, NEW i,
           TopHit(f, k, i)
    PROVE  HighestWins(f)[k] = f[i][k]
<1> DEFINE hits == {n \in DOMAIN f : f[n][k] # Absent}
           top == {n \in hits : \A j \in hits : j <= n}
<1>1. top = {i}
  BY DEF TopHit
<1>2. (CHOOSE n \in top : TRUE) = i
  BY <1>1
<1>3. HighestWins(f)[k] =
        IF top = {} THEN Absent ELSE f[CHOOSE n \in top : TRUE][k]
  BY DEF HighestWins
<1> QED
  BY <1>1, <1>2, <1>3

(* Without a first entry nothing is found. *)
LEMMA FirstWinsNone ==
    ASSUME NEW f, NEW k \in Keys, \A i \in DOMAIN f : ~FirstHit(f, k, i)
    PROVE  FirstWins(f)[k] = Absent
BY DEF FirstWins, FirstHit

(* The same for the highest index. *)
LEMMA HighestWinsNone ==
    ASSUME NEW f, NEW k \in Keys, \A i \in DOMAIN f : ~TopHit(f, k, i)
    PROVE  HighestWins(f)[k] = Absent
BY DEF HighestWins, TopHit

(* A table in front that has no entry for a key does not hide the others. *)
LEMMA FirstWinsSkip ==
    ASSUME NEW n \in Nat, NEW f \in [1..n -> Table],
           NEW g \in [1..(n + 1) -> Table],
           \A i \in 1..n : g[i + 1] = f[i],
           NEW k \in Keys, g[1][k] = Absent
    PROVE  FirstWins(g)[k] = FirstWins(f)[k]
<1>1. /\ DOMAIN f = 1..n /\ DOMAIN f \subseteq Int
      /\ DOMAIN g = 1..(n + 1) /\ DOMAIN g \subseteq Int
  OBVIOUS
<1>2. CASE \E i \in 1..n : FirstHit(f, k, i)
  <2>1. PICK i \in 1..n : FirstHit(f, k, i)
    BY <1>2
  <2>2. FirstWins(f)[k] = f[i][k]
    BY <1>1, <2>1, FirstWinsAt
  <2>3. i + 1 \in 1..(n + 1) /\ g[i + 1][k] # Absent /\ g[i + 1] = f[i]
    BY <2>1 DEF FirstHit
  <2>4. ASSUME NEW j \in 1..(n + 1), g[j][k] # Absent
        PROVE  i + 1 <= j
    <3>1. j # 1
      BY <2>4
    <3>2. j - 1 \in 1..n /\ g[j] = f[j - 1]
      BY <3>1
    <3> QED
      BY <2>1, <2>4, <3>2 DEF FirstHit
  <2>5. FirstHit(g, k, i + 1)
    BY <1>1, <2>3, <2>4 DEF FirstHit
  <2>6. FirstWins(g)[k] = g[i + 1][k]
    BY <1>1, <2>5, FirstWinsAt
  <2> QED
    BY <2>2, <2>3, <2>6
<1>3. CASE ~ \E i \in 1..n : FirstHit(f, k, i)
  <2>1. FirstWins(f)[k] = Absent
    BY <1>1, <1>3, FirstWinsNone
  <2>2. ASSUME NEW i \in 1..(n + 1), FirstHit(g, k, i)
        PROVE  FALSE
    <3>1. i # 1
      BY <2>2 DEF FirstHit
    <3>2. i - 1 \in 1..n /\ f[i - 1] = g[i]
      BY <3>1
    <3>3. ASSUME NEW j \in 1..n, f[j][k] # Absent
          PROVE  i - 1 <= j
      <4>1. j + 1 \in 1..(n + 1) /\ g[j + 1][k] # Absent
        BY <3>3
      <4>2. i <= j + 1
        BY <2>2, <4>1 DEF FirstHit
      <4> QED
        BY <4>2
    <3>4. FirstHit(f, k, i - 1)
      BY <1>1, <2>2, <3>2, <3>3 DEF FirstHit
    <3> QED
      BY <1>3, <3>2, <3>4
  <2>3. FirstWins(g)[k] = Absent
    BY <1>1, <2>2, FirstWinsNone
  <2> QED
    BY <2>1, <2>3
<1> QED
  BY <1>2, <1>3

(* The list g holds the tables of f by descending number. *)
Ranked(f, g) ==
    \E n \in Nat : \E s \in [1..n -> DOMAIN f] :
        /\ DOMAIN f \subseteq Nat /\ f \in [DOMAIN f -> Table]
        /\ g \in [1..n -> Table] /\ \A i \in 1..n : g[i] = f[s[i]]
        /\ \A m \in DOMAIN f : \E i \in 1..n : s[i] = m
        /\ \A i, j \in 1..n : i < j => s[i] > s[j]

(* Readers opened in descending file number find what the file with the    *)
(* highest number holds.                                                   *)
LEMMA DescendingReads ==
    ASSUME NEW f, NEW g, Ranked(f, g), NEW k \in Keys
    PROVE  FirstWins(g)[k] = HighestWins(f)[k]
<1> DEFINE S == DOMAIN f
<1> DEFINE IsRank(n, s) ==
             /\ S \subseteq Nat /\ f \in [S -> Table]
             /\ g \in [1..n -> Table] /\ \A i \in 1..n : g[i] = f[s[i]]
             /\ \A m \in S : \E i \in 1..n : s[i] = m
             /\ \A i, j \in 1..n : i < j => s[i] > s[j]
<1>0a. PICK n \in Nat : \E s \in [1..n -> S] : IsRank(n, s)
  BY DEF Ranked
<1>0. PICK s \in [1..n -> S] : IsRank(n, s)
  BY <1>0a
<1> USE <1>0
<1> HIDE DEF S
<1>1. /\ DOMAIN g = 1..n /\ DOMAIN g \subseteq Int
      /\ DOMAIN f = S /\ DOMAIN f \subseteq Int
  BY DEF S
<1>2. ASSUME NEW i \in 1..n, FirstHit(g, k, i)
      PROVE  s[i] \in S /\ TopHit(f, k, s[i])
  <2>1. s[i] \in S /\ f[s[i]][k] # Absent
    BY <1>2 DEF FirstHit
  <2>2. ASSUME NEW o \in S, f[o][k] # Absent
        PROVE  o <= s[i]
    <3>1. PICK j \in 1..n : s[j] = o
      OBVIOUS
    <3>2. i <= j
      BY <1>2, <2>2, <3>1 DEF FirstHit
    <3>3. i = j \/ s[i] > s[j]
      BY <3>2
    <3>4. s[i] \in Nat /\ s[j] \in Nat
      OBVIOUS
    <3> QED
      BY <3>1, <3>3, <3>4
  <2> QED
    BY <1>1, <2>1, <2>2 DEF TopHit
<1>3. ASSUME NEW m \in S, TopHit(f, k, m)
      PROVE  \E i \in 1..n : FirstHit(g, k, i)
  <2>1. PICK i \in 1..n : s[i] = m
    OBVIOUS
  <2>2. ASSUME NEW j \in 1..n, g[j][k] # Absent
        PROVE  i <= j
    <3>1. s[j] \in S /\ f[s[j]][k] # Absent
      BY <2>2
    <3>2. s[j] <= s[i]
      BY <1>3, <2>1, <3>1 DEF TopHit
    <3>3. ~(j < i)
      <4>1. s[i] \in Nat /\ s[j] \in Nat
        OBVIOUS
      <4>2. j < i => s[j] > s[i]
        OBVIOUS
      <4> QED
        BY <3>2, <4>1, <4>2
    <3> QED
      BY <3>3
  <2>3. g[i][k] # Absent
    BY <1>3, <2>1 DEF TopHit
  <2> QED
    BY <1>1, <2>2, <2>3 DEF FirstHit
<1>4. CASE \E i \in 1..n : FirstHit(g, k, i)
  <2>1. PICK i \in 1..n : FirstHit(g, k, i)
    BY <1>4
  <2>2. FirstWins(g)[k] = g[i][k]
    BY <1>1, <2>1, FirstWinsAt
  <2>3. s[i] \in S /\ TopHit(f, k, s[i])
    BY <2>1, <1>2
  <2>4. PICK m \in S : m = s[i]
    BY <2>3
  <2>5. TopHit(f, k, m)
    BY <2>3, <2>4
  <2>6. HighestWins(f)[k] = f[m][k]
    <3>1. DOMAIN f \subseteq Int
      BY <1>1
    <3> QED
      BY <3>1, <2>5, HighestWinsAt
  <2> QED
    BY <2>2, <2>4, <2>6
<1>5. CASE ~ \E i \in 1..n : FirstHit(g, k, i)
  <2>1. FirstWins(g)[k] = Absent
    BY <1>1, <1>5, FirstWinsNone
  <2>2. HighestWins(f)[k] = Absent
    BY <1>1, <1>3, <1>5, HighestWinsNone
  <2> QED
    BY <2>1, <2>2
<1> QED
  BY <1>4, <1>5

-----------------------------------------------------------------------------
(* A store that neither compacts nor meets an I/O error *)

FlushOnly == MaxCompactions = 0 /\ MaxFaults = 0

ReadInv == TypeOK /\ FrozenTracked /\ ReadLatest

(* What get() answers depends on the MemTables and the readers only. *)
LEMMA ViewUnchanged ==
    ASSUME UNCHANGED <<active, immutable, sstables>>
    PROVE  View' = View
BY DEF View, MemTableEntry

(* The answer for one key. *)
LEMMA ViewAt ==
    ASSUME NEW k \in Keys
    PROVE  View[k] = Resolve(IF MemTableEntry(k) # Absent
                             THEN MemTableEntry(k)
                             ELSE FirstWins(SSTableData(sstables))[k])
BY DEF View

(* The readers of a typed store are a list of tables. *)
LEMMA SSTableDataType ==
    ASSUME NEW s \in Seq(Reader)
    PROVE  /\ SSTableData(s) \in [1..Len(s) -> Table]
           /\ \A i \in 1..Len(s) : SSTableData(s)[i] = s[i].data
<1>1. DOMAIN s = 1..Len(s) /\ \A i \in 1..Len(s) : s[i] \in Reader
  OBVIOUS
<1>2. \A i \in 1..Len(s) : s[i].data \in Table
  BY <1>1 DEF Reader
<1> QED
  BY <1>1, <1>2 DEF SSTableData

(* A store that is not up yet has nothing in memory. *)
LEMMA InitRead == Init => FrozenTracked /\ ReadLatest
BY DEF Init, FrozenTracked, ReadLatest, IdleCompaction, IdleFlush

(* A write that does not fill the MemTable, or that freezes it, is what    *)
(* get() then answers.                                                     *)
LEMMA CommitRead ==
    ASSUME ReadInv, Commit
    PROVE  FrozenTracked' /\ ReadLatest'
<1> USE DEF ReadInv
<1>1. inflight \in Table /\ active \in Table /\ immutable \in Table
  BY DEF TypeOK
<1>2. ASSUME NEW k \in Keys
      PROVE  MemTableEntry(k)' = IF inflight[k] # Absent THEN inflight[k]
                                 ELSE MemTableEntry(k)
  <2>1. CASE active' = Override(active, inflight) /\ UNCHANGED immutable
    BY <2>1 DEF MemTableEntry, Override
  <2>2. CASE /\ flush.pc = "idle" /\ immutable' = Override(active, inflight)
             /\ active' = EmptyTable
    <3>1. immutable[k] = Absent
      BY <2>2 DEF FrozenTracked, EmptyTable
    <3>2. active'[k] = Absent
      BY <2>2 DEF EmptyTable
    <3>3. immutable'[k] = IF inflight[k] # Absent THEN inflight[k]
                          ELSE active[k]
      BY <2>2 DEF Override
    <3> QED
      BY <3>1, <3>2, <3>3 DEF MemTableEntry
  <2> QED
    BY <2>1, <2>2 DEF Commit, TriggerFlush
<1>3. ReadLatest'
  <2> SUFFICES ASSUME up' PROVE View' = latest'
    BY DEF ReadLatest
  <2>1. up /\ View = latest /\ sstables' = sstables
    BY DEF Commit, readerVars, ReadLatest
  <2>2. ASSUME NEW k \in Keys PROVE View'[k] = latest'[k]
    <3>1. latest'[k] = IF inflight[k] # Absent THEN Resolve(inflight[k])
                       ELSE View[k]
      BY <2>1 DEF Commit, Acknowledge
    <3>2. View'[k] = Resolve(IF MemTableEntry(k)' # Absent
                             THEN MemTableEntry(k)'
                             ELSE FirstWins(SSTableData(sstables))[k])
      BY <2>1 DEF View
    <3> QED
      BY <1>2, <3>1, <3>2, ViewAt
  <2>3. /\ latest' = [k \in Keys |-> latest'[k]]
        /\ View' = [k \in Keys |-> View'[k]]
    BY DEF Commit, Acknowledge, View
  <2> QED
    BY <2>2, <2>3
<1>4. FrozenTracked'
  <2>1. CASE UNCHANGED <<immutable, flush>>
    BY <2>1 DEF Commit, FrozenTracked, readerVars, manifestVars
  <2>2. CASE TriggerFlush(Override(active, inflight)) /\ flush.pc = "idle"
    <3>1. flush'.pc = "build"
      BY <2>2 DEF TriggerFlush, IdleFlush
    <3>2. up'
      BY DEF Commit, FrozenTracked
    <3> QED
      BY <3>1, <3>2 DEF Commit, FrozenTracked
  <2> QED
    BY <2>1, <2>2 DEF Commit
<1> QED
  BY <1>3, <1>4

(* A step that leaves the MemTables, the readers and the acknowledged map  *)
(* alone leaves the answers alone.                                         *)
LEMMA SameAnswers ==
    ASSUME ReadLatest, up, UNCHANGED <<memVars, readerVars, latest>>
    PROVE  ReadLatest'
BY ViewUnchanged DEF ReadLatest, memVars, readerVars

(* Publishing the flushed file's reader in front changes no answer: it     *)
(* holds what the immutable MemTable, searched before it, holds.           *)
LEMMA FlushPublishRead ==
    ASSUME ReadInv, FlushPublish
    PROVE  FrozenTracked' /\ ReadLatest'
<1> USE DEF ReadInv
<1> DEFINE r == [id |-> opened + 1, num |-> flush.num, data |-> flush.data]
           f == SSTableData(sstables)
           g == SSTableData(sstables')
           n == Len(sstables)
<1>1. /\ up /\ up' /\ flush.pc = "publish" /\ flush'.pc = "checkpoint"
      /\ sstables' = <<r>> \o sstables
      /\ UNCHANGED <<active, immutable, latest, compaction>>
  BY DEF FlushPublish, FlushAt, Unshift, memVars, TypeOK, FlushState
<1>2. flush.data = immutable
  BY <1>1 DEF FrozenTracked
<1>3. sstables \in Seq(Reader) /\ n \in Nat
  BY DEF TypeOK
<1>4. r \in Reader /\ sstables' \in Seq(Reader)
  BY <1>1, <1>3 DEF TypeOK, FlushState, Reader
<1>5. Len(sstables') = n + 1 /\ sstables'[1] = r
  BY <1>1, <1>3, <1>4
<1>6. \A i \in 1..n : sstables'[i + 1] = sstables[i]
  BY <1>1, <1>3, <1>4
<1>7. f \in [1..n -> Table] /\ \A i \in 1..n : f[i] = sstables[i].data
  BY <1>3, SSTableDataType
<1>8. /\ g \in [1..(n + 1) -> Table]
      /\ \A i \in 1..(n + 1) : g[i] = sstables'[i].data
  BY <1>4, <1>5, SSTableDataType
<1>9. /\ \A i \in 1..n : g[i + 1] = f[i]
      /\ g[1] = immutable
  <2>1. \A i \in 1..n : i + 1 \in 1..(n + 1)
    BY <1>3
  <2>2. 1 \in 1..(n + 1)
    BY <1>3
  <2> QED
    BY <1>2, <1>5, <1>6, <1>7, <1>8, <2>1, <2>2
<1>10. ASSUME NEW k \in Keys PROVE View'[k] = View[k]
  <2>1. MemTableEntry(k)' = MemTableEntry(k)
    BY <1>1 DEF MemTableEntry
  <2>2. CASE MemTableEntry(k) # Absent
    BY <2>1, <2>2 DEF View
  <2>3. CASE MemTableEntry(k) = Absent
    <3>1. g[1][k] = Absent
      BY <1>9, <2>3 DEF MemTableEntry
    <3> HIDE DEF f, g, n
    <3>2. FirstWins(g)[k] = FirstWins(f)[k]
      BY <1>3, <1>7, <1>8, <1>9, <3>1, FirstWinsSkip
    <3> QED
      BY <2>1, <3>2 DEF View, f, g
  <2> QED
    BY <2>2, <2>3
<1>11. View' = View
  BY <1>10 DEF View
<1>12. ReadLatest'
  BY <1>1, <1>11 DEF ReadLatest
<1>13. FrozenTracked'
  <2>1. sstables' # << >> /\ sstables'[1].data = immutable
    BY <1>2, <1>4, <1>5
  <2> QED
    BY <1>1, <2>1 DEF FrozenTracked
<1> QED
  BY <1>12, <1>13

(* Releasing the immutable MemTable changes no answer: the first reader    *)
(* holds the same entries.                                                 *)
LEMMA FlushDoneRead ==
    ASSUME ReadInv, FlushDone
    PROVE  FrozenTracked' /\ ReadLatest'
<1> USE DEF ReadInv
<1> DEFINE f == SSTableData(sstables)
<1>1. /\ up /\ up' /\ flush.pc = "unlink" /\ flush' = IdleFlush
      /\ immutable' = EmptyTable
      /\ UNCHANGED <<active, sstables, latest, compaction>>
  BY DEF FlushDone, FlushAt, readerVars
<1>2. sstables # << >> /\ sstables[1].data = immutable
  BY <1>1 DEF FrozenTracked
<1>3. sstables \in Seq(Reader) /\ 1 \in 1..Len(sstables)
  BY <1>2 DEF TypeOK
<1>4. f \in [1..Len(sstables) -> Table] /\ f[1] = immutable
  BY <1>2, <1>3, SSTableDataType
<1>5. ASSUME NEW k \in Keys PROVE View'[k] = View[k]
  <2>1. MemTableEntry(k)' = active[k]
    BY <1>1 DEF MemTableEntry, EmptyTable
  <2>2. View'[k] = Resolve(IF active[k] # Absent THEN active[k]
                           ELSE FirstWins(f)[k])
    BY <1>1, <2>1 DEF View
  <2>3. CASE active[k] # Absent \/ immutable[k] = Absent
    BY <2>2, <2>3 DEF View, MemTableEntry
  <2>4. CASE active[k] = Absent /\ immutable[k] # Absent
    <3>1. DOMAIN f = 1..Len(sstables) /\ DOMAIN f \subseteq Int
      BY <1>4
    <3>2. FirstHit(f, k, 1)
      BY <1>3, <1>4, <2>4, <3>1 DEF FirstHit
    <3> HIDE DEF f
    <3>3. FirstWins(f)[k] = f[1][k]
      BY <3>1, <3>2, FirstWinsAt
    <3>4. MemTableEntry(k) = immutable[k]
      BY <2>4 DEF MemTableEntry
    <3> QED
      BY <1>4, <2>2, <2>4, <3>3, <3>4 DEF View
  <2> QED
    BY <2>3, <2>4
<1>6. View' = View
  BY <1>5 DEF View
<1>7. FrozenTracked'
  BY <1>1 DEF FrozenTracked, IdleFlush
<1> QED
  BY <1>1, <1>6, <1>7 DEF ReadLatest

(* The other steps of a flush only move the frozen table along. *)
LEMMA FlushStepRead ==
    ASSUME ReadInv, FlushStep
    PROVE  FrozenTracked' /\ ReadLatest'
<1> USE DEF ReadInv
<1>1. CASE FlushBuild
  <2>1. flush'.pc = "add" /\ flush'.num = flush.num
    BY <1>1 DEF FlushBuild, TypeOK, FlushState
  <2>2. flush'.num \in DOMAIN files' /\ files'[flush'.num] = immutable'
    BY <1>1, <2>1 DEF FlushBuild, memVars
  <2> QED
    BY <1>1, <2>1, <2>2, SameAnswers
    DEF FlushBuild, FlushAt, FrozenTracked
<1>2. CASE FlushAdd
  <2>1. flush'.pc = "save" /\ flush'.num = flush.num
    BY <1>2 DEF FlushAdd, TypeOK, FlushState
  <2> QED
    BY <1>2, <2>1, SameAnswers
    DEF FlushAdd, FlushAt, FrozenTracked, memVars
<1>3. CASE FlushSave
  <2>1. flush'.pc = "rename" /\ flush'.num = flush.num
    BY <1>3 DEF FlushSave, TypeOK, FlushState
  <2>2. manifestTmp' # {}
    BY <1>3 DEF FlushSave, SaveTmp
  <2> QED
    BY <1>3, <2>1, <2>2, SameAnswers
    DEF FlushSave, FlushAt, FrozenTracked, memVars
<1>4. CASE FlushRename
  <2>1. flush'.pc = "open" /\ flush'.num = flush.num
    BY <1>4 DEF FlushRename, TypeOK, FlushState
  <2> QED
    BY <1>4, <2>1, SameAnswers
    DEF FlushRename, FlushAt, FrozenTracked, memVars
<1>5. CASE FlushOpen
  <2>1. flush'.pc = "publish" /\ flush'.data = files[flush.num]
    BY <1>5 DEF FlushOpen, TypeOK, FlushState
  <2> QED
    BY <1>5, <2>1, SameAnswers
    DEF FlushOpen, FlushAt, FrozenTracked, memVars
<1>6. CASE FlushPublish
  BY <1>6, FlushPublishRead
<1>7. CASE Checkpoint \/ CheckpointList \/ CheckpointUnlink
  <2>1. /\ flush.pc \in {"checkpoint", "list", "unlink"}
        /\ flush'.pc \in {"list", "unlink"} /\ up /\ UNCHANGED up
        /\ UNCHANGED <<inflight, memVars, readerVars, compaction, latest>>
    BY <1>7
    DEF Checkpoint, CheckpointList, CheckpointUnlink, FlushAt, TypeOK,
        FlushState
  <2>2. ReadLatest'
    BY <2>1, SameAnswers
  <2>3. FrozenTracked'
    BY <2>1 DEF FrozenTracked, memVars, readerVars
  <2> QED
    BY <2>2, <2>3
<1>8. CASE FlushDone
  BY <1>8, FlushDoneRead
<1>9. CASE FlushReject
  BY <1>9 DEF FlushReject, FlushRejects, FlushAt, FrozenTracked
<1> QED
  BY <1>1, <1>2, <1>3, <1>4, <1>5, <1>6, <1>7, <1>8, <1>9 DEF FlushStep

(* The readers that initialize() opens hold what their files hold. *)
LEMMA InitializeReaders ==
    ASSUME TypeOK, Initialize
    PROVE  FirstWins(SSTableData(sstables')) = OnDisk(manifest'.tables)
<1> DEFINE S == manifest'.tables
           n == Cardinality(S)
           f == [m \in S |-> files[m]]
           g == SSTableData(sstables')
<1>0. S \subseteq DOMAIN files /\ S \subseteq Nat /\ IsFiniteSet(S)
  BY InitializeOpens DEF Manifest
<1>1. n \in Nat /\ f \in [S -> Table]
  BY <1>0, FS_CardinalityType DEF TypeOK
<1>2. PICK s \in Descending(S) :
        sstables' = [i \in DOMAIN s |->
                       [id |-> i, num |-> s[i], data |-> files[s[i]]]]
  BY DEF Initialize
<1>3. /\ s \in [1..n -> S]
      /\ \A m \in S : \E i \in 1..n : s[i] = m
      /\ \A i, j \in 1..n : i < j => s[i] > s[j]
  BY DEF Descending
<1>4. g = [i \in 1..n |-> files[s[i]]]
  BY <1>2, <1>3 DEF SSTableData
<1>5. g \in [1..n -> Table] /\ \A i \in 1..n : g[i] = f[s[i]]
  BY <1>0, <1>3, <1>4 DEF TypeOK
<1>6. HighestWins(f) = OnDisk(S)
  <2>1. S \cap DOMAIN files = S
    BY <1>0
  <2> QED
    BY <2>1 DEF OnDisk
<1> HIDE DEF S, n, f, g
<1>7. Ranked(f, g)
  <2>1. DOMAIN f = S
    BY <1>1
  <2> QED
    BY <1>0, <1>1, <1>3, <1>5, <2>1 DEF Ranked
<1>8. \A k \in Keys : FirstWins(g)[k] = HighestWins(f)[k]
  BY <1>7, DescendingReads
<1>9. FirstWins(g) = HighestWins(f)
  BY <1>8 DEF FirstWins, HighestWins
<1> QED
  BY <1>6, <1>9 DEF g, S

(* After initialize() the store answers what the logs and the files that   *)
(* could be opened held.                                                   *)
LEMMA InitializeRead ==
    ASSUME ReadInv, Initialize
    PROVE  FrozenTracked' /\ ReadLatest'
<1> USE DEF ReadInv
<1> DEFINE f == FirstWins(SSTableData(sstables'))
<1>1. /\ up' /\ active' = Replayed /\ immutable' = EmptyTable
      /\ latest' = Recovered(manifest'.tables)
      /\ UNCHANGED <<flush, compaction>> /\ flush.pc = "idle"
  BY DEF Initialize, FrozenTracked
<1>2. f = OnDisk(manifest'.tables)
  BY InitializeReaders
<1>3. ASSUME NEW k \in Keys PROVE View'[k] = latest'[k]
  <2>1. MemTableEntry(k)' = Replayed[k]
    BY <1>1 DEF MemTableEntry, EmptyTable
  <2>2. View'[k] = Resolve(IF Replayed[k] # Absent THEN Replayed[k]
                           ELSE f[k])
    BY <2>1 DEF View
  <2>3. latest'[k] = Resolve(IF Replayed[k] # Absent THEN Replayed[k]
                             ELSE OnDisk(manifest'.tables)[k])
    BY <1>1 DEF Recovered, Override
  <2> QED
    BY <1>2, <2>2, <2>3
<1>4. View' = latest'
  BY <1>1, <1>3 DEF View, Recovered
<1>5. ReadLatest'
  BY <1>1, <1>4 DEF ReadLatest
<1>6. FrozenTracked'
  BY <1>1 DEF FrozenTracked
<1> QED
  BY <1>5, <1>6

(* Forgetting what is in memory establishes the invariant. *)
LEMMA LoseMemoryRead ==
    ASSUME LoseMemory
    PROVE  FrozenTracked' /\ ReadLatest'
BY DEF LoseMemory, FrozenTracked, ReadLatest, IdleFlush, IdleCompaction

(* One step preserves the invariant. *)
LEMMA NextRead ==
    ASSUME FlushOnly, ReadInv, [Next]_vars
    PROVE  FrozenTracked' /\ ReadLatest'
<1> USE DEF ReadInv
<1>0. used["compactions"] \in Nat /\ used["faults"] \in Nat
  BY DEF TypeOK, Bounds
<1>1. CASE Initialize
  BY <1>1, InitializeRead
<1>2. CASE \E d \in WriteOps : Append_(d)
  BY <1>2, SameAnswers
  DEF Append_, FrozenTracked, memVars, readerVars, manifestVars
<1>3. CASE Commit
  BY <1>3, CommitRead
<1>4. CASE FlushStep
  BY <1>4, FlushStepRead
<1>5. CASE FlushError
  BY <1>0, <1>5 DEF FlushError, FlushOnly
<1>6. CASE CompactStart
  BY <1>0, <1>6 DEF CompactStart, FlushOnly
<1>7. CASE CompactStep
  BY <1>7
  DEF CompactStep, CompactRead, CompactBuild, CompactAdd, CompactRemove,
      CompactSave, CompactRename, CompactUnlink, CompactUnlinked,
      CompactScan, CompactScanEnd, CompactSwap, CompactReject,
      CompactRejects, CompactionAt, FrozenTracked
<1>8. CASE CompactError
  BY <1>0, <1>8 DEF CompactError, FlushOnly
<1>9. CASE \E k \in Keys : GetStart(k)
  BY <1>9, SameAnswers
  DEF GetStart, FrozenTracked, memVars, readerVars, manifestVars
<1>10. CASE GetStep
  BY <1>10, SameAnswers
  DEF GetStep, FrozenTracked, memVars, readerVars, manifestVars
<1>11. CASE Crash
  BY <1>11, LoseMemoryRead DEF Crash
<1>12. CASE Close
  BY <1>12, LoseMemoryRead DEF Close
<1>13. CASE UNCHANGED vars
  <2>1. FrozenTracked'
    BY <1>13 DEF vars, FrozenTracked, memVars, readerVars, manifestVars
  <2>2. ReadLatest'
    BY <1>13, ViewUnchanged DEF vars, memVars, readerVars, ReadLatest
  <2> QED
    BY <2>1, <2>2
<1> QED
  BY <1>1, <1>2, <1>3, <1>4, <1>5, <1>6, <1>7, <1>8, <1>9, <1>10, <1>11,
     <1>12, <1>13
  DEF Next, Quiescent

(* While flushes, writes, gets, crashes and restarts interleave in any     *)
(* order, but nothing is compacted and no I/O error occurs, a running      *)
(* store answers every key with its last acknowledged write, whatever the  *)
(* keys, values, files left by earlier runs and bounds.  The inductive     *)
(* invariant says where the frozen table is at every step of doFlush.      *)
THEOREM FlushKeepsReads ==
    ASSUME FlushOnly
    PROVE  Spec => [](FrozenTracked /\ ReadLatest)
<1>1. Init => ReadInv
  BY InitType, InitRead DEF ReadInv
<1>2. TypeOK /\ TypeOK' /\ ReadInv /\ [Next]_vars => ReadInv'
  BY NextRead DEF ReadInv
<1>3. ReadInv => FrozenTracked /\ ReadLatest
  BY DEF ReadInv
<1> QED
  BY <1>1, <1>2, <1>3, TypeCorrect, PTL DEF Spec

-----------------------------------------------------------------------------
(* What replay() reads *)

(* Stacks in which the same tables decide answer the same. *)
LEMMA HighestWinsAgree ==
    ASSUME NEW f, NEW g, DOMAIN f \subseteq Int, DOMAIN g \subseteq Int,
           NEW k \in Keys,
           \A i : TopHit(f, k, i) <=> TopHit(g, k, i),
           \A i : TopHit(f, k, i) => f[i][k] = g[i][k]
    PROVE  HighestWins(f)[k] = HighestWins(g)[k]
<1>1. CASE \E i \in DOMAIN f : TopHit(f, k, i)
  <2>1. PICK i \in DOMAIN f : TopHit(f, k, i)
    BY <1>1
  <2> QED
    BY <2>1, HighestWinsAt
<1>2. CASE \A i \in DOMAIN f : ~TopHit(f, k, i)
  <2>1. \A i : ~TopHit(f, k, i)
    BY <1>2 DEF TopHit
  <2> QED
    BY <2>1, HighestWinsNone
<1> QED
  BY <1>1, <1>2

(* The entry found is one of the highest table that has one. *)
LEMMA HighestWinsFound ==
    ASSUME NEW f, DOMAIN f \subseteq Int, NEW k \in Keys,
           HighestWins(f)[k] # Absent
    PROVE  \E i \in DOMAIN f : TopHit(f, k, i) /\ HighestWins(f)[k] = f[i][k]
BY HighestWinsAt, HighestWinsNone

(* A written entry is the last one that replay finds for its keys. *)
LEMMA ReplayedAfterWrite ==
    ASSUME wal \in Seq(Table), wal # << >>, NEW d \in Table, WriteLog(d),
           NEW k \in Keys
    PROVE  Replayed'[k] = IF d[k] # Absent THEN d[k] ELSE Replayed[k]
<1> DEFINE n == Len(wal)
<1>1. n \in 1..n /\ n \in Nat /\ DOMAIN wal = 1..n /\ wal \in [1..n -> Table]
  OBVIOUS
<1>2. Override(wal[n], d) \in Table
  BY <1>1, OverrideType
<1>3. /\ DOMAIN wal' = 1..n
      /\ wal'[n] = Override(wal[n], d)
      /\ \A i \in 1..n : i # n => wal'[i] = wal[i]
  BY <1>1 DEF WriteLog
<1>4. wal'[n][k] = IF d[k] # Absent THEN d[k] ELSE wal[n][k]
  BY <1>3 DEF Override
<1> HIDE DEF n
<1>5. CASE d[k] # Absent
  <2>1. TopHit(wal', k, n)
    BY <1>1, <1>3, <1>4, <1>5 DEF TopHit
  <2> QED
    BY <1>1, <1>3, <1>4, <1>5, <2>1, HighestWinsAt DEF Replayed
<1>6. CASE d[k] = Absent
  <2>1. \A i \in 1..n : wal'[i][k] = wal[i][k]
    BY <1>1, <1>3, <1>4, <1>6
  <2>2. \A i : TopHit(wal', k, i) <=> TopHit(wal, k, i)
    BY <1>1, <1>3, <2>1 DEF TopHit
  <2>3. \A i : TopHit(wal', k, i) => wal'[i][k] = wal[i][k]
    BY <1>3, <2>1 DEF TopHit
  <2>4. DOMAIN wal \subseteq Int /\ DOMAIN wal' \subseteq Int
    BY <1>1, <1>3
  <2> QED
    BY <1>6, <2>2, <2>3, <2>4, HighestWinsAgree DEF Replayed
<1> QED
  BY <1>5, <1>6

(* A new, empty log changes nothing that replay finds. *)
LEMMA ReplayedAfterAppend ==
    ASSUME wal \in Seq(Table), wal' = Append(wal, EmptyTable)
    PROVE  Replayed' = Replayed
<1> DEFINE n == Len(wal)
<1>1. n \in Nat /\ DOMAIN wal = 1..n
  OBVIOUS
<1>2. /\ DOMAIN wal' = 1..(n + 1)
      /\ wal'[n + 1] = EmptyTable
      /\ \A i \in 1..n : wal'[i] = wal[i]
  BY EmptyTableType, AppendProperties
<1> HIDE DEF n
<1> SUFFICES ASSUME NEW k \in Keys PROVE Replayed'[k] = Replayed[k]
  BY DEF Replayed, HighestWins
<1>3. wal'[n + 1][k] = Absent
  BY <1>2 DEF EmptyTable
<1>4. \A i : TopHit(wal', k, i) <=> TopHit(wal, k, i)
  BY <1>1, <1>2, <1>3 DEF TopHit
<1>5. \A i : TopHit(wal', k, i) => wal'[i][k] = wal[i][k]
  BY <1>1, <1>2, <1>4 DEF TopHit
<1>6. DOMAIN wal \subseteq Int /\ DOMAIN wal' \subseteq Int
  BY <1>1, <1>2
<1> QED
  BY <1>4, <1>5, <1>6, HighestWinsAgree DEF Replayed

(* Without the oldest log replay finds the same entry for a key or none. *)
LEMMA ReplayedAfterUnlink ==
    ASSUME wal \in Seq(Table), wal # << >>, wal' = Tail(wal),
           NEW k \in Keys, Replayed'[k] # Absent
    PROVE  Replayed'[k] = Replayed[k]
<1> DEFINE n == Len(wal)
<1>1. n \in Nat \ {0} /\ DOMAIN wal = 1..n
  OBVIOUS
<1>2. /\ DOMAIN wal' = 1..(n - 1)
      /\ \A i \in 1..(n - 1) : wal'[i] = wal[i + 1]
  BY HeadTailProperties
<1> HIDE DEF n
<1>3. DOMAIN wal \subseteq Int /\ DOMAIN wal' \subseteq Int
  BY <1>1, <1>2
<1>4. PICK i \in DOMAIN wal' : TopHit(wal', k, i) /\ Replayed'[k] = wal'[i][k]
  BY <1>3, HighestWinsFound DEF Replayed
<1>5. i + 1 \in DOMAIN wal /\ wal[i + 1][k] # Absent
  BY <1>1, <1>2, <1>4 DEF TopHit
<1>6. ASSUME NEW j \in DOMAIN wal, wal[j][k] # Absent
      PROVE  j <= i + 1
  <2>1. CASE j = 1
    BY <1>1, <1>2, <1>4, <2>1
  <2>2. CASE j # 1
    <3>1. j - 1 \in DOMAIN wal' /\ wal'[j - 1] = wal[j]
      BY <1>1, <1>2, <2>2
    <3>2. j - 1 <= i
      BY <1>4, <1>6, <3>1 DEF TopHit
    <3> QED
      BY <1>1, <1>2, <1>4, <3>2
  <2> QED
    BY <2>1, <2>2
<1>7. TopHit(wal, k, i + 1)
  BY <1>5, <1>6 DEF TopHit
<1>8. Replayed[k] = wal[i + 1][k]
  BY <1>3, <1>7, HighestWinsAt DEF Replayed
<1> QED
  BY <1>2, <1>4, <1>8

-----------------------------------------------------------------------------
(* The log never goes back in time *)

(* The log in use stays, and as long as checkpoint() could unlink every    *)
(* old log it has passed none over.                                        *)
LogInv ==
    /\ up => wal # << >>
    /\ ~up => inflight = EmptyTable
    /\ used["leftovers"] = 0 => flush.kept = 0
    /\ LogNeverStale

(* The failed unlinks are counted and never forgotten. *)
LEMMA LeftoversStay ==
    ASSUME TypeOK, [Next]_vars, used'["leftovers"] = 0
    PROVE  /\ used["leftovers"] = 0
           /\ flush.kept = 0 => flush'.kept = 0
<1>0. /\ used \in [Bounds -> Nat] /\ flush \in FlushState
      /\ used["leftovers"] \in Nat /\ "leftovers" \in Bounds
  BY DEF TypeOK, Bounds
<1>1. ASSUME \/ UNCHANGED used
             \/ \E b \in Bounds \ {"leftovers"} : Spend(b)
      PROVE  used["leftovers"] = 0
  BY <1>0, <1>1 DEF Spend
<1>2. CASE CheckpointUnlink
  BY <1>0, <1>2 DEF CheckpointUnlink, Spend, Bounds
<1>3. CASE \/ Initialize \/ (\E d \in WriteOps : Append_(d)) \/ Commit
           \/ (\E k \in Keys : GetStart(k)) \/ GetStep \/ UNCHANGED vars
  <2>1. used["leftovers"] = 0
    BY <1>1, <1>3
    DEF Initialize, Unopened, Append_, Commit, GetStart, GetStep, vars,
        Bounds
  <2>2. UNCHANGED flush \/ flush'.kept = 0
    BY <1>3
    DEF Initialize, Append_, Commit, TriggerFlush, IdleFlush, GetStart,
        GetStep, vars
  <2> QED
    BY <2>1, <2>2
<1>4. CASE \/ FlushBuild \/ FlushAdd \/ FlushSave \/ FlushRename
           \/ FlushOpen \/ FlushPublish \/ Checkpoint \/ CheckpointList
           \/ FlushDone \/ FlushReject \/ FlushError
  <2>1. used["leftovers"] = 0
    BY <1>1, <1>4
    DEF FlushBuild, FlushAdd, FlushSave, FlushRename, FlushOpen,
        FlushPublish, Checkpoint, CheckpointList, FlushDone, FlushReject,
        FlushError, Bounds
  <2>2. flush'.kept = flush.kept \/ flush'.kept = 0
    <3>1. CASE FlushDone \/ FlushReject \/ FlushError
      BY <3>1 DEF FlushDone, FlushReject, FlushError, FailFlush, IdleFlush
    <3>2. CASE FlushBuild \/ Checkpoint \/ CheckpointList
      BY <1>0, <3>2 DEF FlushBuild, Checkpoint, CheckpointList, FlushState
    <3>3. CASE FlushAdd \/ FlushSave
      BY <1>0, <3>3 DEF FlushAdd, FlushSave, FlushState
    <3>4. CASE FlushRename \/ FlushOpen \/ FlushPublish
      BY <1>0, <3>4 DEF FlushRename, FlushOpen, FlushPublish, FlushState
    <3> QED
      BY <1>4, <3>1, <3>2, <3>3, <3>4
  <2> QED
    BY <2>1, <2>2
<1>5. CASE CompactStart \/ CompactStep \/ CompactError
  <2>1. used["leftovers"] = 0
    BY <1>1, <1>5
    DEF CompactStart, CompactStep, CompactRead, CompactBuild, CompactAdd,
        CompactRemove, CompactSave, CompactRename, CompactUnlink,
        CompactUnlinked, CompactScan, CompactScanEnd, CompactSwap,
        CompactReject, CompactError, Bounds
  <2>2. UNCHANGED flush
    BY <1>5
    DEF CompactStart, CompactStep, CompactRead, CompactBuild, CompactAdd,
        CompactRemove, CompactSave, CompactRename, CompactUnlink,
        CompactUnlinked, CompactScan, CompactScanEnd, CompactSwap,
        CompactReject, CompactError, FailCompaction
  <2> QED
    BY <2>1, <2>2
<1>6. CASE Crash \/ Close
  <2>1. used["leftovers"] = 0
    BY <1>1, <1>6 DEF Crash, Close, Bounds
  <2>2. flush'.kept = 0
    BY <1>6 DEF Crash, Close, LoseMemory, IdleFlush
  <2> QED
    BY <2>1, <2>2
<1> QED
  BY <1>2, <1>3, <1>4, <1>5, <1>6 DEF Next, FlushStep, Quiescent

(* The steps that touch neither the log nor the acknowledged map. *)
LEMMA LogUntouched ==
    ASSUME TypeOK, LogInv, [Next]_vars,
           \/ \E d \in WriteOps : Append_(d)
           \/ FlushBuild \/ FlushAdd \/ FlushSave \/ FlushRename \/ FlushOpen
           \/ FlushPublish \/ CheckpointList \/ FlushDone \/ FlushReject
           \/ FlushError \/ CompactStart \/ CompactStep \/ CompactError
           \/ \E k \in Keys : GetStart(k)
           \/ GetStep \/ UNCHANGED vars
    PROVE  LogInv'
<1>1. UNCHANGED <<up, wal, latest>> /\ (~up => UNCHANGED inflight)
  <2>1. CASE \E d \in WriteOps : Append_(d)
    BY <2>1 DEF Append_
  <2>2. CASE \/ FlushBuild \/ FlushAdd \/ FlushSave \/ FlushRename
             \/ FlushOpen \/ FlushPublish \/ CheckpointList \/ FlushDone
             \/ FlushReject \/ FlushError
    BY <2>2
    DEF FlushBuild, FlushAdd, FlushSave, FlushRename, FlushOpen,
        FlushPublish, CheckpointList, FlushDone, FlushReject, FlushError,
        FailFlush
  <2>3. CASE CompactStart \/ CompactStep \/ CompactError
    BY <2>3
    DEF CompactStart, CompactStep, CompactRead, CompactBuild, CompactAdd,
        CompactRemove, CompactSave, CompactRename, CompactUnlink,
        CompactUnlinked, CompactScan, CompactScanEnd, CompactSwap,
        CompactReject, CompactError, FailCompaction
  <2>4. CASE (\E k \in Keys : GetStart(k)) \/ GetStep
    BY <2>4 DEF GetStart, GetStep
  <2>5. CASE UNCHANGED vars
    BY <2>5 DEF vars
  <2> QED
    BY <2>1, <2>2, <2>3, <2>4, <2>5
<1>2. Replayed' = Replayed
  BY <1>1 DEF Replayed
<1> QED
  BY <1>1, <1>2, LeftoversStay DEF LogInv, LogNeverStale

(* A write that is logged and acknowledged keeps the log current. *)
LEMMA LogWritten ==
    ASSUME TypeOK, LogInv, [Next]_vars, inflight # EmptyTable,
           WriteLog(inflight), Acknowledge(inflight)
    PROVE  wal' # << >> /\ LogNeverStale'
<1>1. wal # << >> /\ wal \in Seq(Table) /\ inflight \in Table
  BY DEF LogInv, TypeOK
<1>2. wal' # << >>
  BY <1>1 DEF WriteLog
<1>3. ASSUME NEW k \in Keys, Replayed'[k] # Absent,
             used["leftovers"] = 0
      PROVE  Resolve(Replayed'[k]) = latest'[k]
  BY <1>1, <1>3, ReplayedAfterWrite DEF Acknowledge, LogInv, LogNeverStale
<1> QED
  BY <1>2, <1>3, LeftoversStay DEF LogNeverStale

(* A kill, before or after the write in progress reached the log. *)
LEMMA LogCrash ==
    ASSUME TypeOK, LogInv, Crash \/ Close
    PROVE  LogInv'
<1>0. [Next]_vars
  BY DEF Next
<1>1. ~up' /\ inflight' = EmptyTable /\ flush'.kept = 0
  BY DEF Crash, Close, LoseMemory, IdleFlush
<1>2. CASE UNCHANGED <<wal, latest>>
  BY <1>0, <1>1, <1>2, LeftoversStay DEF LogInv, LogNeverStale, Replayed
<1>3. CASE inflight # EmptyTable /\ WriteLog(inflight) /\ Acknowledge(inflight)
  BY <1>0, <1>1, <1>3, LogWritten DEF LogInv
<1> QED
  BY <1>2, <1>3 DEF Crash, Close

(* One step keeps the log current. *)
LEMMA LogNext ==
    ASSUME TypeOK, LogInv, [Next]_vars
    PROVE  LogInv'
<1>0. used'["leftovers"] = 0 => used["leftovers"] = 0 /\ flush'.kept = 0
  BY LeftoversStay DEF LogInv
<1>1. CASE Initialize
  <2>1. up' /\ wal' # << >> /\ latest' = Recovered(manifest'.tables)
    BY <1>1 DEF Initialize
  <2>2. Replayed' = Replayed
    <3>1. CASE wal = << >>
      <4>1. wal' = Append(wal, EmptyTable)
        BY <1>1, <3>1 DEF Initialize
      <4> QED
        BY <4>1, ReplayedAfterAppend DEF TypeOK
    <3>2. CASE wal # << >>
      BY <1>1, <3>2 DEF Initialize, Replayed
    <3> QED
      BY <3>1, <3>2
  <2>3. ASSUME NEW k \in Keys, Replayed[k] # Absent
        PROVE  latest'[k] = Resolve(Replayed[k])
    BY <2>1, <2>3 DEF Recovered, Override
  <2> QED
    BY <1>0, <2>1, <2>2, <2>3 DEF LogInv, LogNeverStale
<1>2. CASE Commit
  <2>1. up /\ up'
    BY <1>2 DEF LogInv, Commit
  <2> QED
    BY <1>0, <1>2, <2>1, LogWritten DEF LogInv, Commit
<1>3. CASE Checkpoint
  <2>1. wal' = Append(wal, EmptyTable) /\ wal \in Seq(Table)
    BY <1>3 DEF Checkpoint, TypeOK
  <2>2. wal' # << >>
    BY <2>1, EmptyTableType, AppendProperties
  <2>3. Replayed' = Replayed
    BY <2>1, ReplayedAfterAppend
  <2> QED
    BY <1>0, <1>3, <2>2, <2>3 DEF Checkpoint, LogInv, LogNeverStale
<1>4. CASE CheckpointUnlink
  <2>1. /\ wal \in Seq(Table) /\ flush.kept \in Nat
        /\ flush.kept + 1 < Len(wal) /\ Len(wal) \in Nat
        /\ wal # << >>
    BY <1>4 DEF CheckpointUnlink, TypeOK, FlushState
  <2>2. UNCHANGED <<up, inflight, latest>>
    BY <1>4 DEF CheckpointUnlink
  <2>3. CASE UNCHANGED wal
    <3>1. used["leftovers"] \in Nat /\ "leftovers" \in Bounds
          /\ used \in [Bounds -> Nat]
      BY DEF TypeOK, Bounds
    <3>2. Replayed' = Replayed
      BY <2>3 DEF Replayed
    <3> QED
      BY <1>0, <2>1, <2>2, <2>3, <3>2 DEF LogInv, LogNeverStale
  <2>4. CASE wal' = WithoutLog(wal, flush.kept + 1)
    <3>1. Len(wal') = Len(wal) - 1
      BY <2>1, <2>4, WithoutLogType
    <3>2. wal' # << >>
      BY <2>1, <3>1, EmptySeq
    <3>3. ASSUME used'["leftovers"] = 0
          PROVE  \A k \in Keys : Replayed'[k] # Absent
                                   => Replayed'[k] = Replayed[k]
      <4>1. flush.kept = 0
        BY <1>0, <3>3 DEF LogInv
      <4>2. wal' = Tail(wal)
        BY <2>1, <2>4, <4>1, WithoutOldest
      <4> QED
        BY <2>1, <4>2, ReplayedAfterUnlink
    <3> QED
      BY <1>0, <2>2, <3>2, <3>3 DEF LogInv, LogNeverStale
  <2> QED
    BY <1>4, <2>3, <2>4 DEF CheckpointUnlink
<1>5. CASE Crash \/ Close
  BY <1>5, LogCrash
<1>6. CASE \/ \E d \in WriteOps : Append_(d)
           \/ FlushBuild \/ FlushAdd \/ FlushSave \/ FlushRename \/ FlushOpen
           \/ FlushPublish \/ CheckpointList \/ FlushDone \/ FlushReject
           \/ FlushError \/ CompactStart \/ CompactStep \/ CompactError
           \/ \E k \in Keys : GetStart(k)
           \/ GetStep \/ UNCHANGED vars
  BY <1>6, LogUntouched
<1> QED
  BY <1>1, <1>2, <1>3, <1>4, <1>5, <1>6 DEF Next, FlushStep, Quiescent

(* Initially there is no log. *)
LEMMA InitLog == Init => LogInv
<1> SUFFICES ASSUME Init PROVE LogInv
  OBVIOUS
<1>1. \A k \in Keys : Replayed[k] = Absent
  BY HighestWinsNone DEF Init, Replayed, TopHit
<1> QED
  BY <1>1 DEF Init, LogInv, LogNeverStale, IdleFlush

(* Whatever flushes, compactions, I/O errors and kills happen in between,  *)
(* as long as no unlink of an old log has failed the newest mention of a   *)
(* key in the logs is its last acknowledged write: checkpoint() unlinks    *)
(* the oldest log first (WAL.ts), so a kill between two unlinks leaves no  *)
(* older record above a newer one.                                         *)
THEOREM LogCurrent == Spec => []LogNeverStale
<1>1. Init => LogInv
  BY InitLog
<1>2. TypeOK /\ LogInv /\ [Next]_vars => LogInv'
  BY LogNext
<1>3. LogInv => LogNeverStale
  BY DEF LogInv
<1> QED
  BY <1>1, <1>2, <1>3, TypeCorrect, PTL DEF Spec

-----------------------------------------------------------------------------
(* A get answers for the moment it was called *)

(* What the readers a get still has to ask would answer is what the key    *)
(* held when the get was called.                                           *)
GetInv ==
    /\ get.st = "reading" =>
          /\ get.rest # << >>
          /\ Resolve(FirstWins(SSTableData(get.rest))[get.key]) = get.want
    /\ GetReturnsSnapshot

(* A get starts with the value get() would answer then. *)
LEMMA GetStartSnapshot ==
    ASSUME TypeOK, ReadLatest, NEW k \in Keys, GetStart(k)
    PROVE  GetInv'
<1> DEFINE found == MemTableEntry(k)
           f == SSTableData(sstables)
<1>1. latest[k] = Resolve(IF found # Absent THEN found ELSE FirstWins(f)[k])
  BY DEF GetStart, ReadLatest, View
<1>2. /\ get'.st = IF found # Absent \/ sstables = << >> THEN "done"
                   ELSE "reading"
      /\ get'.key = k
      /\ get'.rest = IF found # Absent THEN << >> ELSE sstables
      /\ get'.want = latest[k]
      /\ get'.result = Resolve(found)
  BY DEF GetStart
<1>3. CASE found # Absent
  BY <1>1, <1>2, <1>3 DEF GetInv, GetReturnsSnapshot
<1>4. CASE found = Absent /\ sstables = << >>
  <2>1. DOMAIN f = {}
    BY <1>4 DEF SSTableData
  <2>2. FirstWins(f)[k] = Absent
    BY <2>1, FirstWinsNone
  <2> QED
    BY <1>1, <1>2, <1>4, <2>2 DEF GetInv, GetReturnsSnapshot
<1>5. CASE found = Absent /\ sstables # << >>
  <2>1. SSTableData(get.rest)' = f
    BY <1>2, <1>5 DEF SSTableData
  <2> QED
    BY <1>1, <1>2, <1>5, <2>1 DEF GetInv, GetReturnsSnapshot
<1> QED
  BY <1>3, <1>4, <1>5

(* Asking the first of the remaining readers answers with its entry, or    *)
(* leaves readers that would answer the same.                              *)
LEMMA GetStepSnapshot ==
    ASSUME TypeOK, GetInv, GetStep
    PROVE  GetInv'
<1> DEFINE rest == get.rest
           k == get.key
           g == SSTableData(rest)
           n == Len(rest)
<1>1. /\ get \in GetState /\ get.st = "reading" /\ rest \in Seq(Reader)
      /\ rest # << >> /\ k \in Keys
      /\ Resolve(FirstWins(g)[k]) = get.want
  BY DEF TypeOK, GetStep, GetInv, GetState
<1>2. n \in Nat \ {0} /\ Head(rest) = rest[1]
  BY <1>1
<1>3. /\ g \in [1..n -> Table] /\ g[1] = Head(rest).data
      /\ DOMAIN g = 1..n /\ DOMAIN g \subseteq Int
  BY <1>1, <1>2, SSTableDataType
<1>4. CASE get' = [get EXCEPT !.st = "failed", !.rest = << >>]
  BY <1>1, <1>4 DEF GetInv, GetReturnsSnapshot, GetState
<1>5. CASE /\ g[1][k] # Absent \/ n = 1
           /\ get' = [get EXCEPT !.st = "done", !.rest = << >>,
                                 !.result = Resolve(g[1][k])]
  <2>1. FirstWins(g)[k] = g[1][k]
    <3>1. CASE g[1][k] # Absent
      <4>1. FirstHit(g, k, 1)
        BY <1>2, <1>3, <3>1 DEF FirstHit
      <4> HIDE DEF g, k
      <4> QED
        BY <1>1, <1>3, <4>1, FirstWinsAt
    <3>2. CASE g[1][k] = Absent
      <4> HIDE DEF g, k, n
      <4>1. n = 1 /\ DOMAIN g = 1..n
        BY <1>3, <1>5, <3>2
      <4>2. \A i \in DOMAIN g : ~FirstHit(g, k, i)
        BY <4>1, <3>2 DEF FirstHit
      <4> QED
        BY <1>1, <3>2, <4>2, FirstWinsNone
    <3> QED
      BY <3>1, <3>2
  <2>2. /\ get'.st = "done" /\ get'.result = Resolve(g[1][k])
        /\ get'.want = get.want
    BY <1>1, <1>5 DEF GetState
  <2> QED
    BY <1>1, <2>1, <2>2 DEF GetInv, GetReturnsSnapshot
<1>6. CASE /\ g[1][k] = Absent /\ n > 1
           /\ get' = [get EXCEPT !.rest = Tail(rest)]
  <2> DEFINE f == SSTableData(Tail(rest))
  <2>1. /\ Tail(rest) \in Seq(Reader) /\ Len(Tail(rest)) = n - 1
        /\ \A i \in 1..(n - 1) : Tail(rest)[i] = rest[i + 1]
    BY <1>1, HeadTailProperties
  <2>2. /\ f \in [1..(n - 1) -> Table]
        /\ \A i \in 1..(n - 1) : f[i] = Tail(rest)[i].data
    BY <2>1, SSTableDataType
  <2>3. /\ \A i \in 1..(n - 1) : i + 1 \in 1..n
        /\ \A i \in 1..n : g[i] = rest[i].data
    BY <1>1, <1>2, SSTableDataType
  <2>4. \A i \in 1..(n - 1) : g[i + 1] = f[i]
    BY <2>1, <2>2, <2>3
  <2>5. FirstWins(g)[k] = FirstWins(f)[k]
    <3>1. n - 1 \in Nat /\ n = (n - 1) + 1
      BY <1>2
    <3>2. g \in [1..((n - 1) + 1) -> Table]
      BY <1>3, <3>1
    <3> HIDE DEF f, g, k, n
    <3> QED
      BY <1>1, <1>6, <2>2, <2>4, <3>1, <3>2, FirstWinsSkip
  <2>6. Tail(rest) # << >>
    BY <1>2, <1>6, <2>1, EmptySeq
  <2>7. /\ get'.st = "reading" /\ get'.rest = Tail(rest)
        /\ get'.key = k /\ get'.want = get.want
    BY <1>1, <1>6 DEF GetState
  <2>8. SSTableData(get.rest)' = f
    BY <2>7 DEF SSTableData
  <2> QED
    BY <1>1, <2>5, <2>6, <2>7, <2>8 DEF GetInv, GetReturnsSnapshot
<1> QED
  BY <1>3, <1>4, <1>5, <1>6 DEF GetStep

(* While the store answers right, so does every get that has begun. *)
LEMMA GetNext ==
    ASSUME TypeOK, ReadLatest, GetInv, [Next]_vars
    PROVE  GetInv'
<1>1. CASE \E k \in Keys : GetStart(k)
  BY <1>1, GetStartSnapshot
<1>2. CASE GetStep
  BY <1>2, GetStepSnapshot
<1>3. CASE UNCHANGED get
  <2>1. SSTableData(get.rest)' = SSTableData(get.rest)
    BY <1>3 DEF SSTableData
  <2> QED
    BY <1>3, <2>1 DEF GetInv, GetReturnsSnapshot
<1>4. CASE get' = IdleGet
  BY <1>4 DEF IdleGet, GetInv, GetReturnsSnapshot
<1> QED
  <2>1. CASE Initialize \/ (\E d \in WriteOps : Append_(d)) \/ Commit
    BY <1>3, <2>1 DEF Initialize, Append_, Commit
  <2>2. CASE FlushStep \/ FlushError
    BY <1>3, <2>2
    DEF FlushStep, FlushBuild, FlushAdd, FlushSave, FlushRename, FlushOpen,
        FlushPublish, Checkpoint, CheckpointList, CheckpointUnlink,
        FlushDone, FlushReject, FlushError, FailFlush
  <2>3. CASE CompactStart \/ CompactStep \/ CompactError
    BY <1>3, <2>3
    DEF CompactStart, CompactStep, CompactRead, CompactBuild, CompactAdd,
        CompactRemove, CompactSave, CompactRename, CompactUnlink,
        CompactUnlinked, CompactScan, CompactScanEnd, CompactSwap,
        CompactReject, CompactError, FailCompaction
  <2>4. CASE Crash \/ Close
    BY <1>4, <2>4 DEF Crash, Close, LoseMemory
  <2>5. CASE UNCHANGED vars
    BY <1>3, <2>5 DEF vars
  <2> QED
    BY <1>1, <1>2, <2>1, <2>2, <2>3, <2>4, <2>5 DEF Next, Quiescent

(* Initially no get runs. *)
LEMMA GetInit == Init => GetInv
BY DEF Init, IdleGet, GetInv, GetReturnsSnapshot

(* A get that runs while flushes freeze the MemTable, publish a reader and *)
(* release the frozen table answers the value its key had when it was      *)
(* called: it reads the list of readers it copied then (LSMStore.get).     *)
THEOREM FlushKeepsSnapshots ==
    ASSUME FlushOnly
    PROVE  Spec => []GetReturnsSnapshot
<1>1. TypeOK /\ (FrozenTracked /\ ReadLatest) /\ GetInv /\ [Next]_vars
        => GetInv'
  BY GetNext
<1>2. GetInv => GetReturnsSnapshot
  BY DEF GetInv
<1> QED
  BY <1>1, <1>2, GetInit, TypeCorrect, FlushKeepsReads, PTL DEF Spec

-----------------------------------------------------------------------------
(* Reading the files a manifest names *)

(* Files that agree on the named numbers answer the same. *)
LEMMA SameFilesRead ==
    ASSUME NEW S, S \subseteq DOMAIN files, S \subseteq DOMAIN files',
           \A n \in S : files'[n] = files[n]
    PROVE  HighestWins([n \in S \cap DOMAIN files' |-> files'[n]]) = OnDisk(S)
<1>1. [n \in S \cap DOMAIN files' |-> files'[n]]
        = [n \in S \cap DOMAIN files |-> files[n]]
  BY Zenon
<1> QED
  BY <1>1 DEF OnDisk

(* A file above all others is put over what they hold together. *)
LEMMA OnDiskTop ==
    ASSUME NEW S, S \subseteq DOMAIN files, DOMAIN files \subseteq Nat,
           NEW n \in DOMAIN files, \A m \in S : m < n
    PROVE  OnDisk(S \cup {n}) = Override(OnDisk(S), files[n])
<1> DEFINE f == [m \in S \cap DOMAIN files |-> files[m]]
           g == [m \in (S \cup {n}) \cap DOMAIN files |-> files[m]]
<1>1. /\ OnDisk(S) = HighestWins(f) /\ OnDisk(S \cup {n}) = HighestWins(g)
      /\ DOMAIN f = S /\ DOMAIN g = S \cup {n}
      /\ DOMAIN f \subseteq Int /\ DOMAIN g \subseteq Int
      /\ \A m \in S : f[m] = files[m] /\ g[m] = files[m]
      /\ g[n] = files[n]
  BY DEF OnDisk
<1> HIDE DEF f, g
<1> SUFFICES ASSUME NEW k \in Keys
             PROVE  HighestWins(g)[k] = IF files[n][k] # Absent
                                        THEN files[n][k]
                                        ELSE HighestWins(f)[k]
  BY <1>1 DEF Override, HighestWins
<1>2. CASE files[n][k] # Absent
  <2>1. TopHit(g, k, n)
    BY <1>1, <1>2 DEF TopHit
  <2> QED
    BY <1>1, <1>2, <2>1, HighestWinsAt
<1>3. CASE files[n][k] = Absent
  <2>1. \A i : TopHit(g, k, i) <=> TopHit(f, k, i)
    BY <1>1, <1>3 DEF TopHit
  <2>2. \A i : TopHit(g, k, i) => g[i][k] = f[i][k]
    BY <1>1, <2>1 DEF TopHit
  <2> QED
    BY <1>1, <1>3, <2>1, <2>2, HighestWinsAgree
<1> QED
  BY <1>2, <1>3

(* A table in front is put over what the list behind it holds. *)
LEMMA FirstWinsFront ==
    ASSUME NEW n \in Nat, NEW f \in [1..n -> Table],
           NEW g \in [1..(n + 1) -> Table],
           \A i \in 1..n : g[i + 1] = f[i]
    PROVE  FirstWins(g) = Override(FirstWins(f), g[1])
<1>0. FirstWins(g) \in Table
  BY FirstWinsType
<1> SUFFICES ASSUME NEW k \in Keys
             PROVE  FirstWins(g)[k] = IF g[1][k] # Absent THEN g[1][k]
                                      ELSE FirstWins(f)[k]
  BY <1>0 DEF Override, Table
<1>1. DOMAIN g = 1..(n + 1) /\ DOMAIN g \subseteq Int /\ 1 \in DOMAIN g
  OBVIOUS
<1>2. CASE g[1][k] # Absent
  <2>1. FirstHit(g, k, 1)
    BY <1>1, <1>2 DEF FirstHit
  <2> QED
    BY <1>1, <1>2, <2>1, FirstWinsAt
<1>3. CASE g[1][k] = Absent
  BY <1>3, FirstWinsSkip
<1> QED
  BY <1>2, <1>3

-----------------------------------------------------------------------------
(* Files and manifest of a store that only flushes *)

(* What the readers answer together, and what the files in MANIFEST do. *)
ReaderTable == FirstWins(SSTableData(sstables))
NamedTable == OnDisk(manifestFile.tables)

(* MANIFEST names files that exist, all below the next file number. *)
NamesFiles ==
    /\ manifestFile.tables \subseteq DOMAIN files
    /\ \A n \in manifestFile.tables : n < manifestFile.next

(* The edit that names the flushed file is in memory from addSSTable on    *)
(* and in MANIFEST from the rename on.                                     *)
EditTracked ==
    /\ flush.pc \in {"build", "add"} => flush.num = manifest.next
    /\ flush.pc \in {"save", "rename"} =>
          /\ flush.num = manifestFile.next
          /\ manifest = AddSSTable(manifestFile, flush.num)
    /\ flush.pc \notin {"save", "rename"} => manifest = manifestFile
    /\ flush.pc = "save" => flush.edit = manifest
    /\ flush.pc = "rename" => manifestTmp = {manifest}

(* The readers hold what the named files hold; between the rename and the  *)
(* moment the new reader is searched the files are one flush ahead.        *)
ReadersTracked ==
    /\ flush.pc \in {"open", "publish"} =>
          NamedTable = Override(ReaderTable, immutable)
    /\ flush.pc \notin {"open", "publish"} => NamedTable = ReaderTable

FilesInv == NamesFiles /\ (up => EditTracked /\ ReadersTracked)

(* initialize() opens what the manifest then names. *)
LEMMA InitializeFiles ==
    ASSUME ReadInv, FilesInv, Initialize
    PROVE  FilesInv'
<1>1. /\ manifestFile' = manifest'
      /\ manifest'.tables \subseteq DOMAIN files
      /\ \A n \in manifest'.tables : n < manifest'.next
  BY InitializeOpens DEF ReadInv, FilesInv, NamesFiles
<1>2. UNCHANGED <<files, flush>> /\ flush.pc = "idle"
  BY DEF Initialize, ReadInv, FrozenTracked
<1>3. ReaderTable' = OnDisk(manifest'.tables)
  BY InitializeReaders DEF ReadInv, ReaderTable
<1>4. NamedTable' = OnDisk(manifest'.tables)
  BY <1>1, <1>2 DEF NamedTable, OnDisk
<1> QED
  BY <1>1, <1>2, <1>3, <1>4
  DEF FilesInv, NamesFiles, EditTracked, ReadersTracked

(* Steps that leave files, manifest, readers and flush alone, or swap the  *)
(* MemTables with no flush under way.                                      *)
LEMMA SameFiles ==
    ASSUME FilesInv, UNCHANGED <<up, files, manifestVars, sstables>>,
           \/ UNCHANGED <<flush, immutable>>
           \/ /\ flush.pc = "idle" /\ flush'.pc = "build"
              /\ flush'.num = manifest.next
           \/ flush.pc \in {"checkpoint", "list", "unlink"}
              /\ flush'.pc \in {"list", "unlink", "idle"}
    PROVE  FilesInv'
<1>1. UNCHANGED <<NamedTable, ReaderTable, manifest, manifestFile,
                  manifestTmp>>
  BY DEF NamedTable, ReaderTable, OnDisk, SSTableData, manifestVars
<1> QED
  BY <1>1 DEF FilesInv, NamesFiles, EditTracked, ReadersTracked

(* The flush writes its file under a number that no manifest names. *)
LEMMA FlushBuildFiles ==
    ASSUME ReadInv, FilesInv, FlushBuild
    PROVE  FilesInv'
<1>1. /\ up /\ flush.pc = "build" /\ flush'.pc = "add"
      /\ flush'.num = flush.num
      /\ UNCHANGED <<sstables, manifest, manifestFile>>
  BY DEF FlushBuild, FlushAt, readerVars, manifestVars, ReadInv, TypeOK,
         FlushState
<1>2. flush.num = manifestFile.next
  BY <1>1 DEF FilesInv, EditTracked
<1>3. manifestFile.tables \subseteq Nat /\ manifestFile.next \in Nat
  BY DEF ReadInv, TypeOK, Manifest
<1>4. flush.num \notin manifestFile.tables
  BY <1>2, <1>3 DEF FilesInv, NamesFiles
<1>5. /\ manifestFile.tables \subseteq DOMAIN files
      /\ manifestFile.tables \subseteq DOMAIN files'
      /\ \A n \in manifestFile.tables : files'[n] = files[n]
  BY <1>4 DEF FlushBuild, FilesInv, NamesFiles
<1>6. NamedTable' = NamedTable
  <2>1. NamedTable' = HighestWins([n \in manifestFile.tables \cap DOMAIN files'
                                     |-> files'[n]])
    BY <1>1 DEF NamedTable, OnDisk
  <2> QED
    BY <1>5, <2>1, SameFilesRead DEF NamedTable
<1>7. ReaderTable' = ReaderTable
  BY <1>1 DEF ReaderTable, SSTableData
<1> QED
  BY <1>1, <1>5, <1>6, <1>7
  DEF FilesInv, NamesFiles, EditTracked, ReadersTracked

(* The rename makes MANIFEST name the flushed file, above all others. *)
LEMMA FlushRenameFiles ==
    ASSUME ReadInv, FilesInv, FlushRename
    PROVE  FilesInv'
<1> DEFINE S == manifestFile.tables
           n == flush.num
<1>1. /\ up /\ flush.pc = "rename" /\ flush'.pc = "open"
      /\ UNCHANGED <<sstables, immutable, manifest, files>>
      /\ manifestFile' = manifest
  BY DEF FlushRename, FlushAt, RenameTmp, memVars, readerVars, ReadInv,
         TypeOK, FlushState, FilesInv, EditTracked
<1>2. /\ n = manifestFile.next
      /\ manifestFile' = [tables |-> S \cup {n}, next |-> n + 1]
  BY <1>1 DEF FilesInv, EditTracked, AddSSTable
<1>3. n \in DOMAIN files /\ files[n] = immutable
  BY <1>1 DEF ReadInv, FrozenTracked
<1>4. /\ S \subseteq DOMAIN files /\ \A m \in S : m < n
      /\ DOMAIN files \subseteq Nat
  BY <1>2 DEF FilesInv, NamesFiles, ReadInv, TypeOK
<1>5. NamesFiles'
  <2>1. \A m \in S \cup {n} : m < n + 1
    BY <1>3, <1>4
  <2> QED
    BY <1>1, <1>2, <1>3, <1>4, <2>1 DEF NamesFiles
<1>6. NamedTable' = Override(NamedTable, immutable)
  <2>1. OnDisk(S \cup {n}) = Override(OnDisk(S), immutable)
    BY <1>3, <1>4, OnDiskTop
  <2>2. NamedTable' = OnDisk(S \cup {n})
    BY <1>1, <1>2 DEF NamedTable, OnDisk
  <2> QED
    BY <2>1, <2>2 DEF NamedTable
<1>7. NamedTable = ReaderTable /\ ReaderTable' = ReaderTable
  BY <1>1 DEF FilesInv, ReadersTracked, ReaderTable, SSTableData
<1> QED
  BY <1>1, <1>5, <1>6, <1>7 DEF FilesInv, EditTracked, ReadersTracked

(* Publishing the reader brings the readers up to the files again. *)
LEMMA FlushPublishFiles ==
    ASSUME ReadInv, FilesInv, FlushPublish
    PROVE  FilesInv'
<1> DEFINE r == [id |-> opened + 1, num |-> flush.num, data |-> flush.data]
           n == Len(sstables)
<1>1. /\ up /\ flush.pc = "publish" /\ flush'.pc = "checkpoint"
      /\ sstables' = <<r>> \o sstables
      /\ UNCHANGED <<manifest, manifestFile, files>>
  BY DEF FlushPublish, FlushAt, Unshift, manifestVars, ReadInv, TypeOK,
         FlushState
<1>2. /\ sstables \in Seq(Reader) /\ n \in Nat /\ r \in Reader
      /\ flush.data = immutable
  BY <1>1 DEF ReadInv, TypeOK, FlushState, Reader, FrozenTracked
<1>3. /\ sstables' \in Seq(Reader) /\ Len(sstables') = n + 1
      /\ sstables'[1] = r
      /\ \A i \in 1..n : sstables'[i + 1] = sstables[i]
  BY <1>1, <1>2
<1>4. /\ SSTableData(sstables) \in [1..n -> Table]
      /\ \A i \in 1..n : SSTableData(sstables)[i] = sstables[i].data
      /\ SSTableData(sstables') \in [1..(n + 1) -> Table]
      /\ \A i \in 1..(n + 1) : SSTableData(sstables')[i] = sstables'[i].data
  BY <1>2, <1>3, SSTableDataType
<1>5. /\ SSTableData(sstables')[1] = immutable
      /\ \A i \in 1..n : SSTableData(sstables')[i + 1] = SSTableData(sstables)[i]
  <2>1. 1 \in 1..(n + 1) /\ \A i \in 1..n : i + 1 \in 1..(n + 1)
    BY <1>2
  <2> QED
    BY <1>2, <1>3, <1>4, <2>1
<1> HIDE DEF n, r
<1>6. ReaderTable' = Override(ReaderTable, immutable)
  BY <1>2, <1>4, <1>5, FirstWinsFront DEF ReaderTable
<1>7. NamedTable' = NamedTable
  BY <1>1 DEF NamedTable, OnDisk
<1> QED
  BY <1>1, <1>6, <1>7
  DEF FilesInv, NamesFiles, EditTracked, ReadersTracked

(* One step of a flush. *)
LEMMA FlushStepFiles ==
    ASSUME ReadInv, FilesInv, FlushStep
    PROVE  FilesInv'
<1>0. flush \in FlushState
  BY DEF ReadInv, TypeOK
<1>1. CASE FlushBuild
  BY <1>1, FlushBuildFiles
<1>2. CASE FlushAdd
  <2>1. /\ up /\ flush.pc = "add" /\ flush'.pc = "save"
        /\ flush'.num = flush.num /\ flush'.edit = manifest'
        /\ UNCHANGED <<sstables, files, manifestFile>>
        /\ manifest' = AddSSTable(manifest, flush.num)
    BY <1>0, <1>2 DEF FlushAdd, FlushAt, readerVars, FlushState
  <2>2. manifest = manifestFile /\ flush.num = manifest.next
    BY <2>1 DEF FilesInv, EditTracked
  <2>3. UNCHANGED <<NamedTable, ReaderTable>>
    BY <2>1 DEF NamedTable, ReaderTable, OnDisk, SSTableData
  <2> QED
    BY <2>1, <2>2, <2>3
    DEF FilesInv, NamesFiles, EditTracked, ReadersTracked
<1>3. CASE FlushSave
  <2>1. /\ up /\ flush.pc = "save" /\ flush'.pc = "rename"
        /\ flush'.num = flush.num /\ manifestTmp' = {flush.edit}
        /\ UNCHANGED <<sstables, files, manifest, manifestFile>>
    BY <1>0, <1>3 DEF FlushSave, SaveTmp, FlushAt, readerVars, FlushState
  <2>2. UNCHANGED <<NamedTable, ReaderTable>>
    BY <2>1 DEF NamedTable, ReaderTable, OnDisk, SSTableData
  <2> QED
    BY <2>1, <2>2 DEF FilesInv, NamesFiles, EditTracked, ReadersTracked
<1>4. CASE FlushRename
  BY <1>4, FlushRenameFiles
<1>5. CASE FlushOpen
  <2>1. /\ up /\ flush.pc = "open" /\ flush'.pc = "publish"
        /\ UNCHANGED <<sstables, immutable, files, manifest, manifestFile>>
    BY <1>0, <1>5
    DEF FlushOpen, FlushAt, readerVars, memVars, manifestVars, FlushState
  <2>2. UNCHANGED <<NamedTable, ReaderTable>>
    BY <2>1 DEF NamedTable, ReaderTable, OnDisk, SSTableData
  <2> QED
    BY <2>1, <2>2 DEF FilesInv, NamesFiles, EditTracked, ReadersTracked
<1>6. CASE FlushPublish
  BY <1>6, FlushPublishFiles
<1>7. CASE Checkpoint \/ CheckpointList \/ CheckpointUnlink \/ FlushDone
  <2>1. /\ flush.pc \in {"checkpoint", "list", "unlink"}
        /\ flush'.pc \in {"list", "unlink", "idle"}
    BY <1>0, <1>7
    DEF Checkpoint, CheckpointList, CheckpointUnlink, FlushDone, FlushAt,
        FlushState, IdleFlush
  <2>2. UNCHANGED <<up, files, manifestVars, sstables>>
    BY <1>7
    DEF Checkpoint, CheckpointList, CheckpointUnlink, FlushDone, readerVars
  <2> QED
    BY <2>1, <2>2, SameFiles
<1>8. CASE FlushReject
  BY <1>8 DEF FlushReject, FlushRejects, FlushAt, ReadInv, FrozenTracked
<1> QED
  BY <1>1, <1>2, <1>3, <1>4, <1>5, <1>6, <1>7, <1>8 DEF FlushStep

(* One step keeps the files and the manifest together. *)
LEMMA NextFiles ==
    ASSUME FlushOnly, ReadInv, FilesInv, [Next]_vars
    PROVE  FilesInv'
<1>0. used["compactions"] \in Nat /\ used["faults"] \in Nat
  BY DEF ReadInv, TypeOK, Bounds
<1>1. CASE Initialize
  BY <1>1, InitializeFiles
<1>2. CASE (\E d \in WriteOps : Append_(d)) \/ (\E k \in Keys : GetStart(k))
             \/ GetStep \/ UNCHANGED vars
  BY <1>2, SameFiles
  DEF Append_, GetStart, GetStep, vars, memVars, readerVars
<1>3. CASE Commit
  <2>1. CASE UNCHANGED <<flush, immutable>>
    BY <1>3, <2>1, SameFiles DEF Commit, readerVars
  <2>2. CASE /\ flush.pc = "idle"
             /\ TriggerFlush(Override(active, inflight))
    <3>1. flush'.pc = "build" /\ flush'.num = manifest.next
      BY <2>2 DEF TriggerFlush, IdleFlush
    <3> QED
      BY <1>3, <2>2, <3>1, SameFiles DEF Commit, readerVars
  <2> QED
    BY <1>3, <2>1, <2>2 DEF Commit
<1>4. CASE FlushStep
  BY <1>4, FlushStepFiles
<1>5. CASE FlushError \/ CompactStart \/ CompactError
  BY <1>0, <1>5 DEF FlushError, CompactStart, CompactError, FlushOnly
<1>6. CASE CompactStep
  BY <1>6
  DEF CompactStep, CompactRead, CompactBuild, CompactAdd, CompactRemove,
      CompactSave, CompactRename, CompactUnlink, CompactUnlinked,
      CompactScan, CompactScanEnd, CompactSwap, CompactReject,
      CompactRejects, CompactionAt, ReadInv, FrozenTracked
<1>7. CASE Crash \/ Close
  <2>1. ~up' /\ UNCHANGED <<manifestFile, files>>
    BY <1>7 DEF Crash, Close, LoseMemory
  <2> QED
    BY <2>1 DEF FilesInv, NamesFiles
<1> QED
  BY <1>1, <1>2, <1>3, <1>4, <1>5, <1>6, <1>7 DEF Next, Quiescent

(* The files an earlier life left are those its manifest names. *)
LEMMA InitFiles == Init => FilesInv
<1> SUFFICES ASSUME Init PROVE FilesInv
  OBVIOUS
<1>1. PICK p \in Preloads :
        files = p /\ manifestFile = [tables |-> DOMAIN p, next |-> Len(p) + 1]
  BY DEF Init
<1>2. p \in Seq(Table)
  BY LSMAssumption
<1>3. \A n \in DOMAIN p : n < Len(p) + 1
  BY <1>2
<1>4. ~up
  BY DEF Init
<1> QED
  BY <1>1, <1>3, <1>4 DEF FilesInv, NamesFiles

(* Files, manifest and readers move together through every flush, crash    *)
(* and restart of a store that does not compact and meets no I/O error.    *)
LEMMA FlushKeepsFiles ==
    ASSUME FlushOnly
    PROVE  Spec => [](ReadInv /\ FilesInv)
<1>1. TypeOK /\ (FrozenTracked /\ ReadLatest) /\ FilesInv /\ [Next]_vars
        => FilesInv'
  BY NextFiles DEF ReadInv
<1>2. TypeOK /\ (FrozenTracked /\ ReadLatest) => ReadInv
  BY DEF ReadInv
<1> QED
  BY <1>1, <1>2, InitFiles, TypeCorrect, FlushKeepsReads, PTL DEF Spec

(* A flush, and a kill at any of its steps, leaves no name without a file  *)
(* in MANIFEST: the file is written before it is named (doFlush).          *)
THEOREM FlushNamesFiles ==
    ASSUME FlushOnly
    PROVE  Spec => []ManifestFilesExist
<1>1. ReadInv /\ FilesInv => ManifestFilesExist
  BY DEF FilesInv, NamesFiles, ManifestFilesExist
<1> QED
  BY <1>1, FlushKeepsFiles, PTL

(* As long as checkpoint() could unlink every old log, it never discards   *)
(* the only copy of a flushed write: what neither MemTable holds any more  *)
(* recovers from the logs or from the files that MANIFEST names, whenever  *)
(* the process is killed.                                                  *)
THEOREM FlushedIsDurable ==
    ASSUME FlushOnly
    PROVE  Spec => []FlushedSurvives
<1>1. ReadInv /\ FilesInv /\ LogNeverStale => FlushedSurvives
  <2> SUFFICES ASSUME ReadInv, FilesInv, LogNeverStale, up,
                      used["leftovers"] = 0,
                      NEW k \in Keys, active[k] = Absent,
                      immutable[k] = Absent
               PROVE  DiskView[k] = latest[k]
    BY DEF FlushedSurvives
  <2>1. latest[k] = Resolve(ReaderTable[k])
    BY DEF ReadInv, ReadLatest, View, MemTableEntry, ReaderTable
  <2>2. NamedTable[k] = ReaderTable[k]
    BY DEF FilesInv, ReadersTracked, Override
  <2>3. DiskView[k] = Resolve(IF Replayed[k] # Absent THEN Replayed[k]
                              ELSE NamedTable[k])
    BY DEF DiskView, Recovered, Override, NamedTable
  <2> QED
    BY <2>1, <2>2, <2>3 DEF LogNeverStale
<1> QED
  BY <1>1, FlushKeepsFiles, LogCurrent, PTL

-----------------------------------------------------------------------------
(* What a merge leaves *)

(* What get() answers for every key when table t holds its entries. *)
Answers(t) == [k \in Keys |-> Resolve(t[k])]

(* No files, no entries. *)
LEMMA OnDiskNone ==
    ASSUME NEW k \in Keys
    PROVE  OnDisk({})[k] = Absent
<1> DEFINE f == [n \in {} \cap DOMAIN files |-> files[n]]
<1>1. \A i \in DOMAIN f : ~TopHit(f, k, i)
  OBVIOUS
<1>2. OnDisk({}) = HighestWins(f)
  BY DEF OnDisk
<1> HIDE DEF f
<1> QED
  BY <1>1, <1>2, HighestWinsNone

(* Several files are read as a table. *)
LEMMA OnDiskType ==
    ASSUME TypeOK, NEW S
    PROVE  OnDisk(S) \in Table
<1> DEFINE f == [n \in S \cap DOMAIN files |-> files[n]]
<1>1. f \in [S \cap DOMAIN files -> Table]
  BY DEF TypeOK
<1> QED
  BY <1>1, HighestWinsType DEF OnDisk

(* One file is read as what it holds. *)
LEMMA OnDiskOne ==
    ASSUME TypeOK, NEW n \in DOMAIN files
    PROVE  OnDisk({n}) = files[n]
<1>1. DOMAIN files \subseteq Nat /\ files[n] \in Table
  BY DEF TypeOK
<1>2. OnDisk({} \cup {n}) = Override(OnDisk({}), files[n])
  BY <1>1, OnDiskTop
<1>3. {} \cup {n} = {n}
  OBVIOUS
<1>4. \A k \in Keys : Override(OnDisk({}), files[n])[k] = files[n][k]
  BY OnDiskNone DEF Override
<1>5. Override(OnDisk({}), files[n]) \in Table
  BY <1>1, OnDiskNone DEF Override, Table
<1> QED
  BY <1>1, <1>2, <1>3, <1>4, <1>5 DEF Table

(* Dropping tombstones changes no answer. *)
LEMMA CompactedAnswers ==
    ASSUME NEW S
    PROVE  Answers(Compacted(S)) = Answers(OnDisk(S))
<1>1. ASSUME NEW k \in Keys
      PROVE  Resolve(Compacted(S)[k]) = Resolve(OnDisk(S)[k])
  BY DataAssumption DEF Compacted, Resolve
<1> QED
  BY <1>1 DEF Answers

(* The merged file answers like its inputs, with or without them.          *)
LEMMA MergedFileAnswers ==
    ASSUME TypeOK, NEW S, S \subseteq DOMAIN files,
           NEW n \in DOMAIN files, \A m \in S : m < n,
           files[n] = Compacted(S)
    PROVE  /\ Answers(OnDisk(S \cup {n})) = Answers(OnDisk(S))
           /\ Answers(OnDisk({n})) = Answers(OnDisk(S))
<1>1. DOMAIN files \subseteq Nat
  BY DEF TypeOK
<1>2. OnDisk(S \cup {n}) = Override(OnDisk(S), files[n])
  BY <1>1, OnDiskTop
<1>3. ASSUME NEW k \in Keys
      PROVE  Resolve(OnDisk(S \cup {n})[k]) = Resolve(OnDisk(S)[k])
  <2>1. OnDisk(S \cup {n})[k] = IF files[n][k] # Absent THEN files[n][k]
                                ELSE OnDisk(S)[k]
    BY <1>2 DEF Override
  <2>2. files[n][k] # Absent => files[n][k] = OnDisk(S)[k]
    BY DEF Compacted
  <2> QED
    BY <2>1, <2>2
<1>4. Answers(OnDisk(S \cup {n})) = Answers(OnDisk(S))
  BY <1>3 DEF Answers
<1>5. Answers(OnDisk({n})) = Answers(OnDisk(S))
  BY OnDiskOne, CompactedAnswers
<1> QED
  BY <1>4, <1>5

(* Inputs of which nothing remains answer like no file at all. *)
LEMMA EmptyMergeAnswers ==
    ASSUME NEW S, Compacted(S) = EmptyTable
    PROVE  Answers(OnDisk({})) = Answers(OnDisk(S))
<1>1. ASSUME NEW k \in Keys
      PROVE  Resolve(OnDisk({})[k]) = Resolve(Compacted(S)[k])
  BY OnDiskNone DEF EmptyTable
<1>2. Answers(OnDisk({})) = Answers(Compacted(S))
  BY <1>1 DEF Answers
<1> QED
  BY <1>2, CompactedAnswers

(* A list of one table is read as what it holds. *)
LEMMA FirstWinsOne ==
    ASSUME NEW g \in [1..1 -> Table]
    PROVE  FirstWins(g) = g[1]
<1>1. DOMAIN g = {1} /\ DOMAIN g \subseteq Int /\ g[1] \in Table
  OBVIOUS
<1>2. ASSUME NEW k \in Keys PROVE FirstWins(g)[k] = g[1][k]
  <2>1. CASE g[1][k] # Absent
    <3>1. FirstHit(g, k, 1)
      BY <1>1, <2>1 DEF FirstHit
    <3> QED
      BY <1>1, <3>1, FirstWinsAt
  <2>2. CASE g[1][k] = Absent
    <3>1. \A i \in DOMAIN g : ~FirstHit(g, k, i)
      BY <1>1, <2>2 DEF FirstHit
    <3> QED
      BY <2>2, <3>1, FirstWinsNone
  <2> QED
    BY <2>1, <2>2
<1>3. FirstWins(g) \in Table
  BY FirstWinsType
<1> QED
  BY <1>1, <1>2, <1>3 DEF Table

(* An edit that removes tables keeps the next file number. *)
LEMMA RemoveLeaves ==
    ASSUME NEW m \in Manifest, NEW nums, NEW r \in RemoveSSTables(m, nums),
           \A n \in m.tables : n < m.next
    PROVE  r.tables = m.tables \ nums /\ r.next = m.next
<1> DEFINE known == (m.tables \ nums) \cup {m.next - 1}
<1>1. m.tables \subseteq Nat /\ m.next \in Nat \ {0}
  BY DEF Manifest
<1>2. PICK top \in known : /\ \A o \in known : o <= top
                           /\ r = [tables |-> m.tables \ nums,
                                   next |-> top + 1]
  BY DEF RemoveSSTables
<1>3. m.next - 1 <= top /\ top < m.next /\ top \in Int
  BY <1>1, <1>2
<1> QED
  BY <1>1, <1>2, <1>3

(* Sorting one reader gives that reader. *)
LEMMA SortOne ==
    ASSUME NEW r \in Reader, NEW t \in SortedByNumber(Append(<< >>, r))
    PROVE  /\ t \in Seq(Reader) /\ Len(t) = 1 /\ t[1] = r
<1> DEFINE s == Append(<< >>, r)
<1>1. s \in Seq(Reader) /\ DOMAIN s = {1} /\ s[1] = r
  OBVIOUS
<1>2. PICK p \in [DOMAIN s -> DOMAIN s] : t = [i \in DOMAIN s |-> s[p[i]]]
  BY DEF SortedByNumber
<1>3. p[1] = 1
  BY <1>1
<1>4. DOMAIN t = {1} /\ t[1] = r
  BY <1>1, <1>2, <1>3
<1>5. t \in Seq(Reader)
  BY <1>1, SortedByNumberType
<1>6. Len(t) = 1
  <2>1. DOMAIN t = 1..Len(t) /\ Len(t) \in Nat
    BY <1>5
  <2> QED
    BY <1>4, <2>1
<1> QED
  BY <1>4, <1>5, <1>6

-----------------------------------------------------------------------------
(* A store that does not flush *)

CompactOnly == MaxFlushes = 0

(* Nothing is frozen, and a store that is down does nothing.               *)
NothingFrozen ==
    /\ flush.pc = "idle"
    /\ immutable = EmptyTable
    /\ ~up => compaction.pc = "idle"

ReadersOf(S) == \A i \in 1..Len(sstables) : sstables[i].num \in S

(* The MemTable is the log; the manifest in memory, the one on disk and    *)
(* the readers answer alike, and the next file number is above both.       *)
AllAgree ==
    /\ active = Replayed
    /\ manifest.tables \subseteq DOMAIN files
    /\ \A n \in manifest.tables \cup manifestFile.tables : n < manifest.next
    /\ Answers(OnDisk(manifest.tables)) = Answers(ReaderTable)
    /\ Answers(NamedTable) = Answers(ReaderTable)

(* Phases of a compaction: before its output is named, after that, and     *)
(* after its inputs are not named any more.                                *)
Merging == compaction.pc \in {"read", "build", "add"}
NothingLeft == compaction.pc = "remove" /\ compaction.num = 0
Named == \/ compaction.pc \in {"saveAdd", "renameAdd"}
         \/ compaction.pc = "remove" /\ compaction.num # 0
Removed == compaction.pc \in {"saveRemove", "renameRemove", "unlink",
                              "scan", "swap"}

MergeTracked ==
    LET inputs == compaction.metas
        n == compaction.num
    IN  /\ Merging \/ NothingLeft => inputs = manifest.tables
        /\ compaction.pc \in {"build", "add"} => n = manifest.next
        /\ compaction.pc = "build" => compaction.data = Compacted(inputs)
        /\ compaction.pc = "add" \/ Named =>
              n \in DOMAIN files /\ files[n] = Compacted(inputs)
        /\ NothingLeft => Compacted(inputs) = EmptyTable
        /\ Named => /\ manifest.tables = inputs \cup {n}
                    /\ \A m \in inputs : m < n
        /\ Removed => /\ manifest.tables = {n} \ {0}
                      /\ manifest.tables \cap inputs = {}
        /\ Named \/ compaction.pc \in {"scan", "swap"} => n # 0
        /\ compaction.pc = "unlink" => compaction.left \subseteq inputs

SaveTracked ==
    /\ compaction.pc \in {"saveAdd", "saveRemove"} =>
          compaction.edit = manifest
    /\ compaction.pc \in {"renameAdd", "renameRemove"} =>
          manifestTmp = {manifest}
    /\ compaction.pc \in {"unlink", "scan", "swap"} =>
          manifestFile = manifest

(* A compaction replaces every reader, so the swap keeps none; when one    *)
(* failed half way there is at most one SSTable left to compact.           *)
ReplacesAll ==
    /\ compaction.pc # "idle" =>
          ReadersOf(compaction.metas) /\ compaction.kept = << >>
    /\ compaction.pc = "idle" =>
          \/ ReadersOf(manifest.tables)
          \/ \E n \in Nat : manifest.tables \subseteq {n}

CompactInv ==
    /\ NothingFrozen
    /\ NamesFiles
    /\ CrashSafe
    /\ up => AllAgree /\ MergeTracked /\ SaveTracked /\ ReplacesAll

CBase == TypeOK /\ LogInv /\ CompactInv

(* What a restarted store answers depends on the logs, then on the files.  *)
DiskAnswers ==
    [k \in Keys |-> IF Replayed[k] # Absent THEN Resolve(Replayed[k])
                    ELSE Answers(NamedTable)[k]]

(* That is what DiskView says. *)
LEMMA DiskViewAnswers == DiskView = DiskAnswers
BY DEF DiskAnswers, DiskView, Recovered, Override, Answers, NamedTable

(* What a running store answers depends on the MemTable, then the readers. *)
LEMMA ViewAnswers ==
    ASSUME CompactInv, up
    PROVE  View = DiskView
<1>1. active = Replayed /\ Answers(NamedTable) = Answers(ReaderTable)
  BY DEF CompactInv, AllAgree
<1>2. ASSUME NEW k \in Keys PROVE View[k] = DiskView[k]
  <2>1. MemTableEntry(k) = Replayed[k]
    BY <1>1 DEF MemTableEntry, EmptyTable, CompactInv, NothingFrozen
  <2>2. View[k] = IF Replayed[k] # Absent THEN Resolve(Replayed[k])
                  ELSE Answers(ReaderTable)[k]
    BY <2>1 DEF View, Answers, ReaderTable
  <2> QED
    BY <1>1, <2>2, DiskViewAnswers DEF DiskAnswers
<1> QED
  BY <1>2 DEF View, DiskView, Recovered

(* A step of a compaction leaves logs and acknowledged writes alone; it is *)
(* safe when the files that MANIFEST names go on answering alike.          *)
LEMMA CompactFrame ==
    ASSUME CompactInv, up,
           UNCHANGED <<up, memVars, flush, wal, latest>>,
           Answers(ReaderTable)' = Answers(ReaderTable),
           NamesFiles', AllAgree', MergeTracked', SaveTracked', ReplacesAll'
    PROVE  CompactInv'
<1>1. Replayed' = Replayed
  BY DEF Replayed
<1>2. Answers(NamedTable)' = Answers(NamedTable)
  BY DEF CompactInv, AllAgree
<1>3. DiskView' = DiskView
  <2>1. DiskView' = DiskAnswers'
    BY DEF DiskAnswers, DiskView, Recovered, Override, Answers, NamedTable
  <2>2. DiskAnswers' = DiskAnswers
    BY <1>1, <1>2 DEF DiskAnswers
  <2> QED
    BY <2>1, <2>2, DiskViewAnswers
<1> QED
  BY <1>3 DEF CompactInv, NothingFrozen, CrashSafe, memVars

(* The same when files, readers and manifests stay what they are. *)
LEMMA CompactSame ==
    ASSUME CompactInv, up,
           UNCHANGED <<up, memVars, sstables, flush, wal, latest, files,
                       manifest, manifestFile>>,
           MergeTracked', SaveTracked', ReplacesAll'
    PROVE  CompactInv'
<1>1. UNCHANGED <<ReaderTable, NamedTable, Replayed,
                  OnDisk(manifest.tables)>>
  BY DEF ReaderTable, SSTableData, NamedTable, Replayed, OnDisk
<1>2. /\ Answers(ReaderTable)' = Answers(ReaderTable)
      /\ Answers(NamedTable)' = Answers(NamedTable)
      /\ Answers(OnDisk(manifest.tables))' = Answers(OnDisk(manifest.tables))
  BY <1>1 DEF Answers
<1>3. NamesFiles'
  BY DEF CompactInv, NamesFiles
<1>4. AllAgree'
  BY <1>1, <1>2 DEF CompactInv, AllAgree, memVars
<1> QED
  BY <1>2, <1>3, <1>4, CompactFrame

(* What the inputs hold does not change while the files stay. *)
LEMMA SameCompacted ==
    ASSUME UNCHANGED <<files, compaction.metas>>
    PROVE  UNCHANGED Compacted(compaction.metas)
BY DEF Compacted, OnDisk

-----------------------------------------------------------------------------
(* The steps of a compaction *)

(* Starting needs two SSTables, so no failed compaction is in the way. *)
LEMMA CompactStartSafe ==
    ASSUME CBase, CompactStart
    PROVE  CompactInv'
<1>1. /\ up /\ compaction.pc = "idle"
      /\ Cardinality(manifest.tables) >= Threshold
      /\ compaction'.pc = "read" /\ compaction'.metas = manifest.tables
      /\ compaction'.kept = << >>
      /\ UNCHANGED <<up, memVars, sstables, flush, wal, latest, files,
                     manifest, manifestFile>>
  BY DEF CompactStart, CompactionAt, IdleCompaction, readerVars, manifestVars
<1>2. ReadersOf(manifest.tables)
  <2>1. ASSUME NEW n \in Nat, manifest.tables \subseteq {n} PROVE FALSE
    <3>1. IsFiniteSet({n}) /\ Cardinality({n}) = 1
      BY FS_Singleton
    <3>2. Cardinality(manifest.tables) <= 1
      BY <2>1, <3>1, FS_Subset
    <3>3. Cardinality(manifest.tables) \in Nat
      BY <2>1, <3>1, FS_Subset, FS_CardinalityType
    <3> QED
      BY <1>1, <3>2, <3>3, LSMAssumption
  <2> QED
    BY <1>1, <2>1 DEF CBase, CompactInv, ReplacesAll
<1>3. MergeTracked' /\ SaveTracked' /\ ReplacesAll'
  BY <1>1, <1>2
  DEF MergeTracked, SaveTracked, ReplacesAll, ReadersOf, Merging,
      NothingLeft, Named, Removed
<1> QED
  BY <1>1, <1>3, CompactSame DEF CBase

(* The inputs are merged; the file number is read. *)
LEMMA CompactReadSafe ==
    ASSUME CBase, CompactRead
    PROVE  CompactInv'
<1> DEFINE merged == Compacted(compaction.metas)
<1>1. /\ up /\ compaction.pc = "read"
      /\ compaction'.metas = compaction.metas
      /\ compaction'.kept = compaction.kept
      /\ compaction'.data = merged
      /\ compaction'.num = IF merged = EmptyTable THEN 0 ELSE manifest.next
      /\ compaction'.pc = IF merged = EmptyTable THEN "remove" ELSE "build"
      /\ UNCHANGED <<up, memVars, sstables, flush, wal, latest, files,
                     manifest, manifestFile>>
  BY DEF CompactRead, CompactionAt, readerVars, manifestVars, CBase, TypeOK,
         CompactionState
<1>2. Compacted(compaction.metas)' = merged
  BY <1>1, SameCompacted
<1>3. compaction.metas = manifest.tables
  BY <1>1 DEF CBase, CompactInv, MergeTracked, Merging
<1>4. MergeTracked'
  BY <1>1, <1>2, <1>3
  DEF MergeTracked, Merging, NothingLeft, Named, Removed
<1>5. SaveTracked' /\ ReplacesAll'
  BY <1>1
  DEF CBase, CompactInv, SaveTracked, ReplacesAll, ReadersOf
<1> QED
  BY <1>1, <1>4, <1>5, CompactSame DEF CBase

(* The output is written under a number that no manifest names. *)
LEMMA CompactBuildSafe ==
    ASSUME CBase, CompactBuild
    PROVE  CompactInv'
<1> DEFINE n == compaction.num
           inputs == compaction.metas
<1>1. /\ up /\ compaction.pc = "build" /\ compaction'.pc = "add"
      /\ compaction'.metas = inputs /\ compaction'.num = n
      /\ compaction'.kept = compaction.kept
      /\ UNCHANGED <<up, memVars, sstables, flush, wal, latest, manifest,
                     manifestFile>>
  BY DEF CompactBuild, CompactionAt, readerVars, manifestVars, CBase, TypeOK,
         CompactionState
<1>2. /\ inputs = manifest.tables /\ n = manifest.next
      /\ compaction.data = Compacted(inputs)
  BY <1>1 DEF CBase, CompactInv, MergeTracked, Merging
<1>3. /\ manifest.tables \subseteq Nat /\ manifestFile.tables \subseteq Nat
      /\ n \in Nat
  BY DEF CBase, TypeOK, Manifest, CompactionState
<1>4. n \notin manifest.tables /\ n \notin manifestFile.tables
  BY <1>1, <1>2, <1>3 DEF CBase, CompactInv, AllAgree
<1>5. /\ manifest.tables \subseteq DOMAIN files
      /\ manifestFile.tables \subseteq DOMAIN files
  BY <1>1 DEF CBase, CompactInv, AllAgree, NamesFiles
<1>6. /\ DOMAIN files \subseteq DOMAIN files' /\ n \in DOMAIN files'
      /\ files'[n] = compaction.data
      /\ \A m \in DOMAIN files : m # n => files'[m] = files[m]
  BY DEF CompactBuild
<1>7. /\ OnDisk(manifest.tables)' = OnDisk(manifest.tables)
      /\ OnDisk(inputs)' = OnDisk(inputs)
      /\ NamedTable' = NamedTable
  <2>1. HighestWins([m \in manifest.tables \cap DOMAIN files' |-> files'[m]])
          = OnDisk(manifest.tables)
    BY <1>4, <1>5, <1>6, SameFilesRead
  <2>2. HighestWins([m \in manifestFile.tables \cap DOMAIN files'
                       |-> files'[m]])
          = OnDisk(manifestFile.tables)
    BY <1>4, <1>5, <1>6, SameFilesRead
  <2> QED
    BY <1>1, <1>2, <2>1, <2>2 DEF OnDisk, NamedTable
<1>8. ReaderTable' = ReaderTable
  BY <1>1 DEF ReaderTable, SSTableData
<1>9. NamesFiles' /\ AllAgree'
  BY <1>1, <1>5, <1>6, <1>7, <1>8
  DEF CBase, CompactInv, NamesFiles, AllAgree, memVars, Replayed, Answers
<1>10. MergeTracked'
  <2>1. Compacted(inputs)' = Compacted(inputs)
    BY <1>7 DEF Compacted
  <2> QED
    BY <1>1, <1>2, <1>6, <2>1
    DEF MergeTracked, Merging, NothingLeft, Named, Removed
<1>11. SaveTracked' /\ ReplacesAll'
  BY <1>1 DEF CBase, CompactInv, SaveTracked, ReplacesAll, ReadersOf
<1>12. Answers(ReaderTable)' = Answers(ReaderTable)
  BY <1>8 DEF Answers
<1> QED
  BY <1>1, <1>9, <1>10, <1>11, <1>12, CompactFrame DEF CBase

(* The output is named next to its inputs: the answers are the same. *)
LEMMA CompactAddSafe ==
    ASSUME CBase, CompactAdd
    PROVE  CompactInv'
<1> DEFINE n == compaction.num
           inputs == compaction.metas
<1>1. /\ up /\ compaction.pc = "add" /\ compaction'.pc = "saveAdd"
      /\ compaction'.metas = inputs /\ compaction'.num = n
      /\ compaction'.kept = compaction.kept
      /\ compaction'.edit = manifest'
      /\ manifest' = AddSSTable(manifest, n)
      /\ UNCHANGED <<up, memVars, sstables, flush, wal, latest, files,
                     manifestFile>>
  BY DEF CompactAdd, CompactionAt, readerVars, CBase, TypeOK,
         CompactionState
<1>2. /\ inputs = manifest.tables /\ n = manifest.next
      /\ n \in DOMAIN files /\ files[n] = Compacted(inputs)
  BY <1>1 DEF CBase, CompactInv, MergeTracked, Merging
<1>3. /\ manifest.tables \subseteq Nat /\ manifestFile.tables \subseteq Nat
      /\ n \in Nat \ {0}
      /\ \A m \in manifest.tables \cup manifestFile.tables : m < n
      /\ manifest.tables \subseteq DOMAIN files
  BY <1>1, <1>2
  DEF CBase, TypeOK, Manifest, CompactionState, CompactInv, AllAgree
<1>4. manifest'.tables = inputs \cup {n} /\ manifest'.next = n + 1
  BY <1>1, <1>2 DEF AddSSTable
<1>5. Answers(OnDisk(inputs \cup {n})) = Answers(OnDisk(inputs))
  BY <1>2, <1>3, MergedFileAnswers DEF CBase
<1>6. UNCHANGED <<ReaderTable, NamedTable, Replayed>>
  BY <1>1 DEF ReaderTable, SSTableData, NamedTable, OnDisk, Replayed
<1>7. Answers(OnDisk(manifest.tables))' = Answers(OnDisk(inputs \cup {n}))
  BY <1>1, <1>4 DEF Answers, OnDisk
<1>8. /\ Answers(ReaderTable)' = Answers(ReaderTable)
      /\ Answers(NamedTable)' = Answers(NamedTable)
  BY <1>6 DEF Answers
<1>9. \A m \in manifest'.tables \cup manifestFile.tables : m < n + 1
  BY <1>2, <1>3, <1>4
<1>10. AllAgree'
  BY <1>1, <1>2, <1>3, <1>4, <1>5, <1>6, <1>7, <1>8, <1>9
  DEF CBase, CompactInv, AllAgree, memVars
<1>11. MergeTracked'
  <2>1. Compacted(inputs)' = Compacted(inputs)
    BY <1>1 DEF Compacted, OnDisk
  <2> QED
    BY <1>1, <1>2, <1>3, <1>4, <2>1
    DEF MergeTracked, Merging, NothingLeft, Named, Removed
<1>12. NamesFiles' /\ SaveTracked' /\ ReplacesAll'
  BY <1>1
  DEF CBase, CompactInv, NamesFiles, SaveTracked, ReplacesAll, ReadersOf
<1> QED
  BY <1>1, <1>8, <1>10, <1>11, <1>12, CompactFrame DEF CBase

(* The inputs are not named any more: the output alone answers the same.   *)
LEMMA CompactRemoveSafe ==
    ASSUME CBase, CompactRemove
    PROVE  CompactInv'
<1> DEFINE n == compaction.num
           inputs == compaction.metas
<1>1. /\ up /\ compaction.pc = "remove" /\ compaction'.pc = "saveRemove"
      /\ compaction'.metas = inputs /\ compaction'.num = n
      /\ compaction'.kept = compaction.kept
      /\ compaction'.edit = manifest'
      /\ manifest' \in RemoveSSTables(manifest, inputs)
      /\ UNCHANGED <<up, memVars, sstables, flush, wal, latest, files,
                     manifestFile>>
  BY DEF CompactRemove, CompactionAt, readerVars, CBase, TypeOK,
         CompactionState
<1>2. /\ manifest \in Manifest
      /\ \A m \in manifest.tables : m < manifest.next
      /\ inputs \subseteq Nat /\ n \in Nat
      /\ manifest.tables \subseteq DOMAIN files
  BY <1>1 DEF CBase, TypeOK, CompactInv, AllAgree, CompactionState
<1>3. manifest'.tables = manifest.tables \ inputs
      /\ manifest'.next = manifest.next
  BY <1>1, <1>2, RemoveLeaves
<1>4. /\ manifest'.tables = {n} \ {0}
      /\ manifest'.tables \subseteq manifest.tables
      /\ Answers(OnDisk({n} \ {0})) = Answers(OnDisk(manifest.tables))
  <2>1. CASE n = 0
    <3>1. inputs = manifest.tables /\ Compacted(inputs) = EmptyTable
      BY <1>1, <2>1 DEF CBase, CompactInv, MergeTracked, NothingLeft
    <3>2. {n} \ {0} = {}
      BY <2>1
    <3> QED
      BY <1>3, <3>1, <3>2, EmptyMergeAnswers
  <2>2. CASE n # 0
    <3>1. /\ n \in DOMAIN files /\ files[n] = Compacted(inputs)
          /\ manifest.tables = inputs \cup {n} /\ \A m \in inputs : m < n
      BY <1>1, <2>2 DEF CBase, CompactInv, MergeTracked, Named
    <3>2. n \notin inputs
      BY <1>2, <3>1
    <3>3. manifest'.tables = {n} /\ {n} \ {0} = {n}
      BY <1>3, <2>2, <3>1, <3>2
    <3>4. /\ Answers(OnDisk(inputs \cup {n})) = Answers(OnDisk(inputs))
          /\ Answers(OnDisk({n})) = Answers(OnDisk(inputs))
      BY <1>2, <3>1, MergedFileAnswers DEF CBase
    <3> QED
      BY <3>1, <3>3, <3>4
  <2> QED
    BY <2>1, <2>2
<1>5. UNCHANGED <<ReaderTable, NamedTable, Replayed>>
  BY <1>1 DEF ReaderTable, SSTableData, NamedTable, OnDisk, Replayed
<1>6. Answers(OnDisk(manifest.tables))' = Answers(OnDisk({n} \ {0}))
  BY <1>1, <1>4 DEF Answers, OnDisk
<1>7. /\ Answers(ReaderTable)' = Answers(ReaderTable)
      /\ Answers(NamedTable)' = Answers(NamedTable)
  BY <1>5 DEF Answers
<1>8. AllAgree'
  BY <1>1, <1>2, <1>3, <1>4, <1>5, <1>6, <1>7
  DEF CBase, CompactInv, AllAgree, memVars
<1>9. MergeTracked'
  BY <1>1, <1>3, <1>4
  DEF MergeTracked, Merging, NothingLeft, Named, Removed
<1>10. NamesFiles' /\ SaveTracked' /\ ReplacesAll'
  BY <1>1
  DEF CBase, CompactInv, NamesFiles, SaveTracked, ReplacesAll, ReadersOf
<1> QED
  BY <1>1, <1>7, <1>8, <1>9, <1>10, CompactFrame DEF CBase

(* Writing MANIFEST.tmp. *)
LEMMA CompactSaveSafe ==
    ASSUME CBase, CompactSave
    PROVE  CompactInv'
<1>1. /\ up
      /\ \/ compaction.pc = "saveAdd" /\ compaction'.pc = "renameAdd"
         \/ compaction.pc = "saveRemove" /\ compaction'.pc = "renameRemove"
      /\ compaction'.metas = compaction.metas
      /\ compaction'.num = compaction.num
      /\ compaction'.kept = compaction.kept
      /\ manifestTmp' = {compaction.edit}
      /\ UNCHANGED <<up, memVars, sstables, flush, wal, latest, files,
                     manifest, manifestFile>>
  BY DEF CompactSave, SaveTmp, CompactionAt, readerVars, CBase, TypeOK,
         CompactionState
<1>2. Compacted(compaction.metas)' = Compacted(compaction.metas)
  BY <1>1, SameCompacted
<1>3. MergeTracked'
  BY <1>1, <1>2
  DEF CBase, CompactInv, MergeTracked, Merging, NothingLeft, Named, Removed
<1>4. SaveTracked' /\ ReplacesAll'
  BY <1>1 DEF CBase, CompactInv, SaveTracked, ReplacesAll, ReadersOf
<1> QED
  BY <1>1, <1>3, <1>4, CompactSame DEF CBase

(* The rename makes MANIFEST what the manifest in memory is. *)
LEMMA CompactRenameSafe ==
    ASSUME CBase, CompactRename
    PROVE  CompactInv'
<1>1. /\ up
      /\ \/ compaction.pc = "renameAdd" /\ compaction'.pc = "remove"
         \/ compaction.pc = "renameRemove" /\ compaction'.pc = "unlink"
      /\ compaction'.metas = compaction.metas
      /\ compaction'.num = compaction.num
      /\ compaction'.kept = compaction.kept
      /\ compaction'.left = compaction.metas
      /\ manifestFile' \in manifestTmp
      /\ UNCHANGED <<up, memVars, sstables, flush, wal, latest, files,
                     manifest>>
  BY DEF CompactRename, RenameTmp, CompactionAt, readerVars, CBase, TypeOK,
         CompactionState
<1>2. manifestFile' = manifest
  BY <1>1 DEF CBase, CompactInv, SaveTracked
<1>3. /\ manifest.tables \subseteq DOMAIN files
      /\ \A n \in manifest.tables : n < manifest.next
      /\ Answers(OnDisk(manifest.tables)) = Answers(ReaderTable)
  BY <1>1 DEF CBase, CompactInv, AllAgree
<1>4. UNCHANGED <<ReaderTable, Replayed, OnDisk(manifest.tables)>>
  BY <1>1 DEF ReaderTable, SSTableData, OnDisk, Replayed
<1>5. NamedTable' = OnDisk(manifest.tables)
  BY <1>1, <1>2 DEF NamedTable, OnDisk
<1>6. /\ Answers(ReaderTable)' = Answers(ReaderTable)
      /\ Answers(NamedTable)' = Answers(ReaderTable)
      /\ Answers(OnDisk(manifest.tables))' = Answers(ReaderTable)
  BY <1>3, <1>4, <1>5 DEF Answers
<1>7. AllAgree'
  BY <1>1, <1>2, <1>3, <1>4, <1>6 DEF CBase, CompactInv, AllAgree, memVars
<1>8. NamesFiles'
  BY <1>1, <1>2, <1>3 DEF NamesFiles
<1>9. MergeTracked'
  <2>1. Compacted(compaction.metas)' = Compacted(compaction.metas)
    BY <1>1, SameCompacted
  <2>2. compaction.pc = "renameAdd" => compaction.num # 0
    BY <1>1 DEF CBase, CompactInv, MergeTracked, Named
  <2> QED
    BY <1>1, <2>1, <2>2
    DEF CBase, CompactInv, MergeTracked, Merging, NothingLeft, Named, Removed
<1>10. SaveTracked' /\ ReplacesAll'
  BY <1>1, <1>2 DEF CBase, CompactInv, SaveTracked, ReplacesAll, ReadersOf
<1> QED
  BY <1>1, <1>6, <1>7, <1>8, <1>9, <1>10, CompactFrame DEF CBase

(* Only files that no manifest names are deleted. *)
LEMMA CompactUnlinkSafe ==
    ASSUME CBase, CompactUnlink
    PROVE  CompactInv'
<1> DEFINE inputs == compaction.metas
<1>0. PICK n \in compaction.left :
        /\ compaction' = [compaction EXCEPT !.left = @ \ {n}]
        /\ \/ files' = [o \in DOMAIN files \ {n} |-> files[o]]
           \/ UNCHANGED files
  BY DEF CompactUnlink
<1>1. /\ up /\ compaction.pc = "unlink" /\ compaction'.pc = "unlink"
      /\ compaction'.metas = inputs /\ compaction'.num = compaction.num
      /\ compaction'.kept = compaction.kept
      /\ compaction'.left \subseteq compaction.left
      /\ UNCHANGED <<up, memVars, sstables, flush, wal, latest, manifest,
                     manifestFile>>
  BY <1>0
  DEF CompactUnlink, CompactionAt, readerVars, manifestVars, CBase, TypeOK,
      CompactionState
<1>2. n \in inputs
  BY <1>0, <1>1 DEF CBase, CompactInv, MergeTracked
<1>3. /\ manifest.tables \cap inputs = {} /\ manifestFile = manifest
      /\ manifest.tables \subseteq DOMAIN files
  BY <1>1
  DEF CBase, CompactInv, MergeTracked, Removed, SaveTracked, AllAgree
<1>4. /\ manifest.tables \subseteq DOMAIN files'
      /\ \A m \in manifest.tables : files'[m] = files[m]
  BY <1>0, <1>2, <1>3
<1>5. HighestWins([m \in manifest.tables \cap DOMAIN files' |-> files'[m]])
        = OnDisk(manifest.tables)
  BY <1>3, <1>4, SameFilesRead
<1>6. UNCHANGED <<ReaderTable, Replayed, OnDisk(manifest.tables), NamedTable>>
  BY <1>1, <1>3, <1>5
  DEF ReaderTable, SSTableData, OnDisk, Replayed, NamedTable
<1>7. /\ Answers(ReaderTable)' = Answers(ReaderTable)
      /\ Answers(NamedTable)' = Answers(NamedTable)
      /\ Answers(OnDisk(manifest.tables))' = Answers(OnDisk(manifest.tables))
  BY <1>6 DEF Answers
<1>8. AllAgree'
  BY <1>1, <1>4, <1>6, <1>7 DEF CBase, CompactInv, AllAgree, memVars
<1>9. NamesFiles'
  BY <1>1, <1>3, <1>4 DEF CBase, CompactInv, NamesFiles
<1>10. MergeTracked' /\ SaveTracked' /\ ReplacesAll'
  BY <1>1
  DEF CBase, CompactInv, MergeTracked, Merging, NothingLeft, Named, Removed,
      SaveTracked, ReplacesAll, ReadersOf
<1> QED
  BY <1>1, <1>7, <1>8, <1>9, <1>10, CompactFrame DEF CBase

(* A compaction that failed or ended, with at most one SSTable left.       *)
LEMMA CompactOver ==
    ASSUME CBase, up, compaction.pc # "idle", compaction' = IdleCompaction,
           UNCHANGED <<up, memVars, sstables, flush, wal, latest, files,
                       manifest, manifestFile>>
    PROVE  CompactInv'
<1>1. compaction'.pc = "idle"
  BY DEF IdleCompaction
<1>2. compaction \in CompactionState
  BY DEF CBase, TypeOK
<1>3. MergeTracked' /\ SaveTracked'
  BY <1>1 DEF MergeTracked, Merging, NothingLeft, Named, Removed, SaveTracked
<1>4. ReplacesAll'
  <2>1. ReadersOf(compaction.metas)
    BY DEF CBase, CompactInv, ReplacesAll
  <2>2. \/ compaction.metas \subseteq manifest.tables
        \/ manifest.tables \subseteq {compaction.num}
    <3>1. Merging \/ NothingLeft \/ Named \/ Removed
      BY <1>2
      DEF CompactionState, CompactionPC, Merging, NothingLeft, Named, Removed
    <3> QED
      BY <3>1 DEF CBase, CompactInv, MergeTracked
  <2>3. compaction.num \in Nat
    BY <1>2 DEF CompactionState
  <2> QED
    BY <1>1, <2>1, <2>2, <2>3 DEF ReplacesAll, ReadersOf
<1> QED
  BY <1>3, <1>4, CompactSame DEF CBase

(* All inputs are deleted. *)
LEMMA CompactUnlinkedSafe ==
    ASSUME CBase, CompactUnlinked
    PROVE  CompactInv'
<1>1. /\ up /\ compaction.pc = "unlink"
      /\ UNCHANGED <<up, memVars, sstables, flush, wal, latest, files,
                     manifest, manifestFile>>
  BY DEF CompactUnlinked, CompactionAt, readerVars, manifestVars
<1>2. CASE compaction.num = 0
  BY <1>1, <1>2, CompactOver DEF CompactUnlinked
<1>3. CASE compaction.num # 0
  <2>1. /\ compaction'.pc = "scan"
        /\ compaction'.metas = compaction.metas
        /\ compaction'.num = compaction.num
        /\ compaction'.kept = compaction.kept
    BY <1>3 DEF CompactUnlinked, CBase, TypeOK, CompactionState
  <2>2. MergeTracked' /\ SaveTracked' /\ ReplacesAll'
    BY <1>1, <1>3, <2>1
    DEF CBase, CompactInv, MergeTracked, Merging, NothingLeft, Named,
        Removed, SaveTracked, ReplacesAll, ReadersOf
  <2> QED
    BY <1>1, <2>2, CompactSame DEF CBase
<1> QED
  BY <1>2, <1>3

(* Every reader is one of a compacted file: the scan keeps none. *)
LEMMA CompactScanSafe ==
    ASSUME CBase, CompactScan
    PROVE  CompactInv'
<1>1. PICK j \in compaction.idx..Len(sstables) :
        /\ \A i \in compaction.idx..(j - 1) : Keeps(i)
        /\ compaction' = MovePast(j)
  BY DEF CompactScan
<1>2. /\ up /\ compaction.pc = "scan"
      /\ UNCHANGED <<up, memVars, sstables, flush, wal, latest, files,
                     manifest, manifestFile>>
  BY DEF CompactScan, CompactionAt, manifestVars
<1>3. /\ compaction \in CompactionState
      /\ compaction.idx \in Nat \ {0} /\ sstables \in Seq(Reader)
      /\ Len(sstables) \in Nat
  BY DEF CBase, TypeOK, CompactionState
<1>4. ReadersOf(compaction.metas) /\ compaction.kept = << >>
  BY <1>2 DEF CBase, CompactInv, ReplacesAll
<1>5. j = compaction.idx
  <2>1. CASE compaction.idx < j
    <3>1. /\ compaction.idx \in compaction.idx..(j - 1)
          /\ compaction.idx \in 1..Len(sstables)
      BY <1>1, <1>3, <2>1
    <3> QED
      BY <1>1, <1>4, <3>1 DEF Keeps, ReadersOf
  <2> QED
    BY <1>1, <1>3, <2>1
<1>6. compaction.kept \o SubSeq(sstables, compaction.idx, j - 1) = << >>
  <2>1. SubSeq(sstables, compaction.idx, j - 1) = << >>
    BY <1>3, <1>5
  <2> QED
    BY <1>4, <2>1
<1>7. /\ compaction'.pc = "scan" /\ compaction'.kept = << >>
      /\ compaction'.metas = compaction.metas
      /\ compaction'.num = compaction.num
  BY <1>1, <1>2, <1>3, <1>6 DEF MovePast, CompactionState
<1>8. MergeTracked' /\ SaveTracked' /\ ReplacesAll'
  BY <1>2, <1>4, <1>7
  DEF CBase, CompactInv, MergeTracked, Merging, NothingLeft, Named, Removed,
      SaveTracked, ReplacesAll, ReadersOf
<1> QED
  BY <1>2, <1>8, CompactSame DEF CBase

(* The end of the list is reached with no reader kept. *)
LEMMA CompactScanEndSafe ==
    ASSUME CBase, CompactScanEnd
    PROVE  CompactInv'
<1> DEFINE tail == SubSeq(sstables, compaction.idx, Len(sstables))
<1>1. /\ up /\ compaction.pc = "scan"
      /\ \A i \in compaction.idx..Len(sstables) : Keeps(i)
      /\ UNCHANGED <<up, memVars, sstables, flush, wal, latest, files,
                     manifest, manifestFile>>
  BY DEF CompactScanEnd, CompactionAt, readerVars, manifestVars
<1>2. /\ compaction \in CompactionState
      /\ compaction.idx \in Nat \ {0} /\ sstables \in Seq(Reader)
      /\ Len(sstables) \in Nat
  BY DEF CBase, TypeOK, CompactionState
<1>3. ReadersOf(compaction.metas) /\ compaction.kept = << >>
  BY <1>1 DEF CBase, CompactInv, ReplacesAll
<1>4. ~(compaction.idx <= Len(sstables))
  BY <1>1, <1>2, <1>3 DEF Keeps, ReadersOf
<1>5. compaction.kept \o tail = << >>
  <2>1. tail = << >>
    BY <1>2, <1>4
  <2> QED
    BY <1>3, <2>1
<1>6. /\ compaction'.pc = "swap" /\ compaction'.kept = << >>
      /\ compaction'.metas = compaction.metas
      /\ compaction'.num = compaction.num
  BY <1>2, <1>5 DEF CompactScanEnd, CompactionState
<1>7. MergeTracked' /\ SaveTracked' /\ ReplacesAll'
  BY <1>1, <1>3, <1>6
  DEF CBase, CompactInv, MergeTracked, Merging, NothingLeft, Named, Removed,
      SaveTracked, ReplacesAll, ReadersOf
<1> QED
  BY <1>1, <1>7, CompactSame DEF CBase

(* The reader of the output answers what all readers answered before.      *)
LEMMA CompactSwapSafe ==
    ASSUME CBase, CompactSwap
    PROVE  CompactInv'
<1> DEFINE n == compaction.num
           r == [id |-> opened + 1, num |-> n, data |-> files[n]]
<1>1. /\ up /\ compaction.pc = "swap" /\ n \in DOMAIN files
      /\ sstables' \in SortedByNumber(Append(compaction.kept, r))
      /\ compaction' = IdleCompaction
      /\ UNCHANGED <<up, memVars, flush, wal, latest, files, manifest,
                     manifestFile>>
  BY DEF CompactSwap, CompactionAt, manifestVars
<1>2. /\ compaction.kept = << >> /\ n # 0
      /\ manifest.tables = {n} \ {0}
      /\ Answers(OnDisk(manifest.tables)) = Answers(ReaderTable)
      /\ Answers(NamedTable) = Answers(ReaderTable)
  BY <1>1
  DEF CBase, CompactInv, ReplacesAll, MergeTracked, Removed, AllAgree
<1>3. r \in Reader
  BY <1>1 DEF CBase, TypeOK, CompactionState, Reader
<1>4. /\ sstables' \in Seq(Reader) /\ Len(sstables') = 1
      /\ sstables'[1] = r
  BY <1>1, <1>2, <1>3, SortOne
<1>5. ReaderTable' = files[n]
  <2>1. /\ SSTableData(sstables') \in [1..1 -> Table]
        /\ SSTableData(sstables')[1] = files[n]
    BY <1>4, SSTableDataType
  <2> QED
    BY <2>1, FirstWinsOne DEF ReaderTable
<1>6. OnDisk(manifest.tables) = files[n]
  <2>1. manifest.tables = {n}
    BY <1>2
  <2> QED
    BY <1>1, <2>1, OnDiskOne DEF CBase
<1>7. Answers(ReaderTable)' = Answers(ReaderTable)
  BY <1>2, <1>5, <1>6 DEF Answers
<1>8. UNCHANGED <<Replayed, OnDisk(manifest.tables), NamedTable>>
  BY <1>1 DEF OnDisk, Replayed, NamedTable
<1>9. /\ Answers(NamedTable)' = Answers(NamedTable)
      /\ Answers(OnDisk(manifest.tables))' = Answers(OnDisk(manifest.tables))
  BY <1>8 DEF Answers
<1>10. AllAgree'
  BY <1>1, <1>7, <1>8, <1>9 DEF CBase, CompactInv, AllAgree, memVars
<1>11. NamesFiles'
  BY <1>1 DEF CBase, CompactInv, NamesFiles
<1>12. MergeTracked' /\ SaveTracked' /\ ReplacesAll'
  <2>1. compaction'.pc = "idle"
    BY <1>1 DEF IdleCompaction
  <2>2. n \in Nat /\ manifest.tables \subseteq {n}
    BY <1>2 DEF CBase, TypeOK, CompactionState
  <2> QED
    BY <1>1, <2>1, <2>2
    DEF MergeTracked, Merging, NothingLeft, Named, Removed, SaveTracked,
        ReplacesAll
<1> QED
  BY <1>1, <1>7, <1>10, <1>11, <1>12, CompactFrame DEF CBase

(* One step of a compaction, also one that fails. *)
LEMMA CompactStepSafe ==
    ASSUME CBase, CompactStep \/ CompactError
    PROVE  CompactInv'
<1>1. CASE CompactReject \/ CompactError
  <2>1. /\ up /\ compaction.pc # "idle" /\ compaction' = IdleCompaction
        /\ UNCHANGED <<up, memVars, sstables, flush, wal, latest, files,
                       manifest, manifestFile>>
    BY <1>1
    DEF CompactReject, CompactRejects, CompactError, FailCompaction,
        CompactionAt, readerVars, manifestVars
  <2> QED
    BY <2>1, CompactOver
<1> QED
  BY <1>1, CompactReadSafe, CompactBuildSafe, CompactAddSafe,
     CompactRemoveSafe, CompactSaveSafe, CompactRenameSafe,
     CompactUnlinkSafe, CompactUnlinkedSafe, CompactScanSafe,
     CompactScanEndSafe, CompactSwapSafe
  DEF CompactStep

-----------------------------------------------------------------------------
(* Writes, restarts and the other steps *)

(* A write that is logged and acknowledged is what a restart answers. *)
LEMMA WrittenIsSafe ==
    ASSUME TypeOK, LogInv, CrashSafe, up, WriteLog(inflight),
           Acknowledge(inflight), UNCHANGED <<files, manifestFile>>
    PROVE  CrashSafe'
<1>1. wal \in Seq(Table) /\ wal # << >> /\ inflight \in Table
  BY DEF TypeOK, LogInv
<1>2. Answers(NamedTable)' = Answers(NamedTable)
  BY DEF Answers, NamedTable, OnDisk
<1>3. DiskView' = DiskAnswers'
  BY DEF DiskAnswers, DiskView, Recovered, Override, Answers, NamedTable
<1>4. DiskView = DiskAnswers /\ DiskView = latest
  BY DiskViewAnswers DEF CrashSafe
<1>5. ASSUME NEW k \in Keys PROVE DiskAnswers'[k] = latest'[k]
  <2>1. Replayed'[k] = IF inflight[k] # Absent THEN inflight[k]
                       ELSE Replayed[k]
    BY <1>1, ReplayedAfterWrite
  <2>2. latest'[k] = IF inflight[k] # Absent THEN Resolve(inflight[k])
                     ELSE DiskAnswers[k]
    BY <1>4 DEF Acknowledge
  <2> QED
    BY <1>2, <2>1, <2>2 DEF DiskAnswers
<1>6. /\ latest' = [k \in Keys |-> latest'[k]]
      /\ DiskAnswers' = [k \in Keys |-> DiskAnswers'[k]]
  BY DEF Acknowledge, DiskAnswers
<1> QED
  BY <1>3, <1>5, <1>6 DEF CrashSafe

(* A write that does not fill the MemTable. *)
LEMMA CommitSafe ==
    ASSUME CompactOnly, CBase, Commit
    PROVE  CompactInv'
<1>0. used["flushes"] \in Nat
  BY DEF CBase, TypeOK, Bounds
<1>1. /\ up /\ WriteLog(inflight) /\ Acknowledge(inflight)
      /\ active' = Override(active, inflight)
      /\ UNCHANGED <<up, immutable, flush, compaction, sstables, files,
                     manifest, manifestFile, manifestTmp>>
  BY <1>0 DEF Commit, CompactOnly, readerVars, manifestVars, CBase, LogInv
<1>2. CrashSafe'
  BY <1>1, WrittenIsSafe DEF CBase, CompactInv
<1>3. wal \in Seq(Table) /\ wal # << >> /\ inflight \in Table
      /\ active = Replayed
  BY <1>1 DEF CBase, TypeOK, LogInv, CompactInv, AllAgree
<1>4. active' = Replayed'
  <2>1. \A k \in Keys : Replayed'[k] = Override(active, inflight)[k]
    BY <1>1, <1>3, ReplayedAfterWrite DEF Override
  <2>2. Replayed' = [k \in Keys |-> Replayed'[k]]
    BY DEF Replayed, HighestWins
  <2> QED
    BY <1>1, <2>1, <2>2 DEF Override
<1>5. UNCHANGED <<ReaderTable, NamedTable, OnDisk(manifest.tables),
                  Compacted(compaction.metas)>>
  BY <1>1 DEF ReaderTable, SSTableData, NamedTable, OnDisk, Compacted
<1>6. /\ Answers(ReaderTable)' = Answers(ReaderTable)
      /\ Answers(NamedTable)' = Answers(NamedTable)
      /\ Answers(OnDisk(manifest.tables))' = Answers(OnDisk(manifest.tables))
  BY <1>5 DEF Answers
<1>7. AllAgree' /\ NamesFiles' /\ NothingFrozen'
  BY <1>1, <1>4, <1>6
  DEF CBase, CompactInv, AllAgree, NamesFiles, NothingFrozen
<1>8. MergeTracked' /\ SaveTracked' /\ ReplacesAll'
  BY <1>1, <1>5
  DEF CBase, CompactInv, MergeTracked, Merging, NothingLeft, Named, Removed,
      SaveTracked, ReplacesAll, ReadersOf
<1> QED
  BY <1>2, <1>7, <1>8 DEF CompactInv

(* Steps that leave everything but the write in progress and get() alone. *)
LEMMA OtherStepSafe ==
    ASSUME CBase,
           UNCHANGED <<up, memVars, sstables, flush, compaction,
                       manifestVars, files, wal, latest>>
    PROVE  CompactInv'
<1>1. UNCHANGED <<ReaderTable, NamedTable, Replayed, OnDisk(manifest.tables),
                  Compacted(compaction.metas)>>
  BY DEF ReaderTable, SSTableData, NamedTable, Replayed, OnDisk, Compacted,
         manifestVars
<1>2. /\ Answers(ReaderTable)' = Answers(ReaderTable)
      /\ Answers(NamedTable)' = Answers(NamedTable)
      /\ Answers(OnDisk(manifest.tables))' = Answers(OnDisk(manifest.tables))
  BY <1>1 DEF Answers
<1>3. DiskView' = DiskView
  BY <1>1 DEF DiskView, Recovered, NamedTable
<1>4. NothingFrozen' /\ NamesFiles' /\ CrashSafe'
  BY <1>3
  DEF CBase, CompactInv, NothingFrozen, NamesFiles, CrashSafe, memVars,
      manifestVars
<1>5. up => AllAgree'
  BY <1>1, <1>2 DEF CBase, CompactInv, AllAgree, memVars, manifestVars
<1>6. up => MergeTracked' /\ SaveTracked' /\ ReplacesAll'
  BY <1>1
  DEF CBase, CompactInv, MergeTracked, Merging, NothingLeft, Named, Removed,
      SaveTracked, ReplacesAll, ReadersOf, manifestVars
<1> QED
  BY <1>4, <1>5, <1>6 DEF CompactInv

(* The readers that initialize() opens are those of named files. *)
LEMMA InitializeNumbers ==
    ASSUME TypeOK, Initialize
    PROVE  \A i \in 1..Len(sstables') :
              sstables'[i].num \in manifest'.tables
<1> DEFINE S == manifest'.tables
<1>1. PICK s \in Descending(S) :
        sstables' = [i \in DOMAIN s |->
                       [id |-> i, num |-> s[i], data |-> files[s[i]]]]
  BY DEF Initialize
<1>2. PICK n \in Nat : n = Cardinality(S)
  BY InitializeOpens, FS_CardinalityType DEF Manifest
<1>3. s \in [1..n -> S]
  BY <1>2 DEF Descending
<1>4. DOMAIN s = 1..n /\ Len(sstables') = n
  <2>1. DOMAIN sstables' = 1..n
    BY <1>1, <1>3
  <2>2. sstables' \in Seq(Reader)
    BY InitializeType DEF TypeOK
  <2> QED
    BY <1>3, <2>1, <2>2, LenProperties
<1>5. \A i \in 1..n : sstables'[i].num \in S
  BY <1>1, <1>3, <1>4
<1> QED
  BY <1>4, <1>5

(* initialize() establishes the invariant from the files alone. *)
LEMMA InitializeSafe ==
    ASSUME CBase, Initialize
    PROVE  CompactInv'
<1>0. /\ manifestFile' = manifest' /\ manifest'.tables \subseteq DOMAIN files
      /\ \A n \in manifest'.tables : n < manifest'.next
  BY InitializeOpens DEF CBase, CompactInv, NamesFiles
<1>1. /\ up' /\ active' = Replayed /\ latest' = Recovered(manifest'.tables)
      /\ compaction.pc = "idle"
      /\ UNCHANGED <<files, flush, immutable, compaction, manifestTmp>>
  BY DEF Initialize, CBase, CompactInv, NothingFrozen
<1>2. ReaderTable' = OnDisk(manifest'.tables)
  BY InitializeReaders DEF CBase, ReaderTable
<1>3. NamedTable' = ReaderTable' /\ OnDisk(manifest.tables)' = ReaderTable'
  BY <1>0, <1>1, <1>2 DEF NamedTable, OnDisk
<1>4. Replayed' = Replayed
  <2>1. CASE wal = << >>
    <3>1. wal' = Append(wal, EmptyTable) /\ wal \in Seq(Table)
      BY <2>1 DEF Initialize
    <3> QED
      BY <3>1, ReplayedAfterAppend
  <2>2. CASE wal # << >>
    BY <2>2 DEF Initialize, Replayed
  <2> QED
    BY <2>1, <2>2
<1>5. AllAgree'
  BY <1>0, <1>1, <1>3, <1>4 DEF AllAgree, Answers
<1>6. MergeTracked' /\ SaveTracked'
  BY <1>1 DEF MergeTracked, Merging, NothingLeft, Named, Removed, SaveTracked
<1>7. ReplacesAll'
  BY <1>1, InitializeNumbers DEF ReplacesAll, ReadersOf, CBase
<1>8. CrashSafe'
  <2>1. OnDisk(manifestFile.tables)' = OnDisk(manifest'.tables)
    BY <1>2, <1>3 DEF NamedTable
  <2> QED
    BY <1>1, <1>4, <2>1 DEF CrashSafe, DiskView, Recovered
<1>9. NothingFrozen' /\ NamesFiles'
  BY <1>0, <1>1 DEF NothingFrozen, NamesFiles, CBase, CompactInv
<1> QED
  BY <1>5, <1>6, <1>7, <1>8, <1>9 DEF CompactInv

(* A kill, before or after the write in progress reached the log. *)
LEMMA RestartSafe ==
    ASSUME CBase, Crash \/ Close
    PROVE  CompactInv'
<1>1. /\ up /\ ~up' /\ UNCHANGED <<files, manifestFile>>
      /\ flush'.pc = "idle" /\ compaction'.pc = "idle"
      /\ immutable' = EmptyTable
  BY DEF Crash, Close, LoseMemory, IdleFlush, IdleCompaction
<1>2. CrashSafe'
  <2>1. CASE UNCHANGED <<wal, latest>>
    BY <1>1, <2>1
    DEF CBase, CompactInv, CrashSafe, DiskView, Recovered, OnDisk, Replayed
  <2>2. CASE WriteLog(inflight) /\ Acknowledge(inflight)
    BY <1>1, <2>2, WrittenIsSafe DEF CBase, CompactInv
  <2> QED
    BY <2>1, <2>2 DEF Crash, Close
<1> QED
  BY <1>1, <1>2 DEF CompactInv, NothingFrozen, NamesFiles, CBase

(* One step loses nothing. *)
LEMMA NextSafe ==
    ASSUME CompactOnly, CBase, [Next]_vars
    PROVE  CompactInv'
<1>1. CASE Initialize
  BY <1>1, InitializeSafe
<1>2. CASE \/ \E d \in WriteOps : Append_(d)
           \/ \E k \in Keys : GetStart(k)
           \/ GetStep \/ UNCHANGED vars
  <2>1. UNCHANGED <<up, memVars, sstables, flush, compaction, manifestVars,
                    files, wal, latest>>
    BY <1>2 DEF Append_, GetStart, GetStep, vars, readerVars
  <2> QED
    BY <2>1, OtherStepSafe
<1>3. CASE Commit
  BY <1>3, CommitSafe
<1>4. CASE FlushStep \/ FlushError
  BY <1>4
  DEF FlushStep, FlushBuild, FlushAdd, FlushSave, FlushRename, FlushOpen,
      FlushPublish, Checkpoint, CheckpointList, CheckpointUnlink, FlushDone,
      FlushReject, FlushRejects, FlushError, FlushAt, CBase, CompactInv,
      NothingFrozen
<1>5. CASE CompactStart
  BY <1>5, CompactStartSafe
<1>6. CASE CompactStep \/ CompactError
  BY <1>6, CompactStepSafe
<1>7. CASE Crash \/ Close
  BY <1>7, RestartSafe
<1> QED
  BY <1>1, <1>2, <1>3, <1>4, <1>5, <1>6, <1>7 DEF Next, Quiescent

(* Initially every answer comes from the files that MANIFEST names. *)
LEMMA InitSafe == Init => CompactInv
<1> SUFFICES ASSUME Init PROVE CompactInv
  OBVIOUS
<1>1. NamesFiles
  BY InitFiles DEF FilesInv
<1>2. ~up /\ CrashSafe /\ NothingFrozen
  BY DEF Init, CrashSafe, NothingFrozen, IdleFlush, IdleCompaction
<1> QED
  BY <1>1, <1>2 DEF CompactInv

(* The invariant of a store that does not flush. *)
LEMMA CompactKeeps ==
    ASSUME CompactOnly
    PROVE  Spec => []CBase
<1>1. TypeOK /\ LogInv /\ CompactInv /\ [Next]_vars => CompactInv'
  BY NextSafe DEF CBase
<1>2. Init => LogInv
  BY InitLog
<1>3. TypeOK /\ LogInv /\ [Next]_vars => LogInv'
  BY LogNext
<1>4. TypeOK /\ LogInv /\ CompactInv => CBase
  BY DEF CBase
<1> QED
  BY <1>1, <1>2, <1>3, <1>4, InitSafe, TypeCorrect, PTL DEF Spec

(* No compaction loses or brings back a write: whatever step of it a kill  *)
(* or an I/O error falls into, MANIFEST, the files it names and the logs   *)
(* recover every acknowledged write (executeCompaction writes the output   *)
(* before it names it, and names it before it deletes the inputs).         *)
THEOREM CompactionIsCrashSafe ==
    ASSUME CompactOnly
    PROVE  Spec => []CrashSafe
<1>1. CBase => CrashSafe
  BY DEF CBase, CompactInv
<1> QED
  BY <1>1, CompactKeeps, PTL

(* A compaction deletes only files that no manifest names any more.        *)
THEOREM CompactionNamesFiles ==
    ASSUME CompactOnly
    PROVE  Spec => []ManifestFilesExist
<1>1. CBase => ManifestFilesExist
  BY DEF CBase, CompactInv, NamesFiles, ManifestFilesExist
<1> QED
  BY <1>1, CompactKeeps, PTL

(* While compactions replace the readers, a running store answers every    *)
(* key with its last acknowledged write.                                   *)
THEOREM CompactionKeepsReads ==
    ASSUME CompactOnly
    PROVE  Spec => []ReadLatest
<1>1. CBase => ReadLatest
  BY ViewAnswers DEF CBase, CompactInv, CrashSafe, ReadLatest
<1> QED
  BY <1>1, CompactKeeps, PTL

(* A get that is running when a compaction replaces the readers answers,   *)
(* if it answers, the value its key had when it was called.                *)
THEOREM CompactionKeepsSnapshots ==
    ASSUME CompactOnly
    PROVE  Spec => []GetReturnsSnapshot
<1>1. TypeOK /\ ReadLatest /\ GetInv /\ [Next]_vars => GetInv'
  BY GetNext
<1>2. GetInv => GetReturnsSnapshot
  BY DEF GetInv
<1> QED
  BY <1>1, <1>2, GetInit, TypeCorrect, CompactionKeepsReads, PTL DEF Spec

-----------------------------------------------------------------------------
(* The engine is a map *)

(* The map that the engine is for its callers, when what was acknowledged  *)
(* is what the running store answers, or what the disk of a stopped one    *)
(* would.                                                                  *)
Mapped == (IF up THEN View ELSE DiskView) = latest

(* A step calls a write, acknowledges it, stops or starts the store, or    *)
(* changes nothing that its callers were told; a store that is down does   *)
(* nothing but start.                                                      *)
LEMMA StepKinds ==
    ASSUME LogInv, [Next]_vars
    PROVE  \/ Initialize
           \/ up /\ \E d \in WriteOps : Append_(d)
           \/ up /\ Commit
           \/ up /\ (Crash \/ Close)
           \/ up /\ UNCHANGED <<up, inflight, latest>>
           \/ UNCHANGED vars
<1>1. CASE (\E d \in WriteOps : Append_(d)) \/ Crash \/ Close
  BY <1>1 DEF Append_, Crash, Close
<1>2. CASE Commit
  BY <1>2 DEF Commit, LogInv
<1>3. CASE FlushStep \/ FlushError
  BY <1>3
  DEF FlushStep, FlushBuild, FlushAdd, FlushSave, FlushRename, FlushOpen,
      FlushPublish, Checkpoint, CheckpointList, CheckpointUnlink, FlushDone,
      FlushReject, FlushRejects, FlushError, FailFlush, FlushAt
<1>4. CASE CompactStart \/ CompactStep \/ CompactError
  BY <1>4
  DEF CompactStart, CompactStep, CompactRead, CompactBuild, CompactAdd,
      CompactRemove, CompactSave, CompactRename, CompactUnlink,
      CompactUnlinked, CompactScan, CompactScanEnd, CompactSwap,
      CompactReject, CompactRejects, CompactError, FailCompaction,
      CompactionAt
<1>5. CASE (\E k \in Keys : GetStart(k)) \/ GetStep
  BY <1>5 DEF GetStart, GetStep
<1> QED
  BY <1>1, <1>2, <1>3, <1>4, <1>5 DEF Next, Quiescent

(* The acknowledged map after a write is the abstract one after it. *)
LEMMA AcknowledgedIs ==
    ASSUME Acknowledge(inflight)
    PROVE  latest' = KV!Applied(latest, inflight)
BY DEF Acknowledge, KV!Applied, KV!Resolve, Resolve

(* A start that could open every file that exists answers what the disk    *)
(* held.                                                                   *)
LEMMA StartKeeps ==
    ASSUME TypeOK, Initialize, used'["drops"] = used["drops"]
    PROVE  latest' = DiskView
<1>1. manifest'.tables = manifestFile.tables \cap DOMAIN files
  BY InitializeOpens
<1>2. manifest'.tables \cap DOMAIN files
        = manifestFile.tables \cap DOMAIN files
  BY <1>1
<1>3. OnDisk(manifest'.tables) = OnDisk(manifestFile.tables)
  BY <1>2 DEF OnDisk
<1> QED
  BY <1>3 DEF Initialize, DiskView, Recovered

(***************************************************************************)
(* A step between two states in which callers are answered what was        *)
(* acknowledged is one of the abstract map or none.                        *)
(***************************************************************************)
LEMMA StepMaps ==
    ASSUME TypeOK, LogInv, Mapped, Mapped', [Next]_vars,
           Initialize => used'["drops"] = used["drops"]
    PROVE  [KV!KVNext]_(KV!kvVars)
<1> DEFINE kv == IF up THEN View ELSE DiskView
<1>0. kv = latest /\ kv' = latest'
  BY DEF Mapped
<1>1. KV!kvVars = <<kv, inflight, up>>
  BY DEF KV!kvVars
<1>2. KV!EmptyTable = EmptyTable /\ KV!WriteOps = WriteOps
  BY DEF WriteOps, PutOps, DeleteOps, EmptyTable, KV!WriteOps, KV!PutOps,
         KV!DeleteOps, KV!EmptyTable
<1>3. CASE Initialize
  <2>1. latest' = latest
    <3>1. ~up
      BY <1>3 DEF Initialize
    <3> QED
      BY <1>0, <1>3, <3>1, StartKeeps
  <2>2. KV!Start
    BY <1>0, <1>3, <2>1 DEF KV!Start, Initialize
  <2> QED
    BY <2>2 DEF KV!KVNext
<1>4. CASE up /\ \E d \in WriteOps : Append_(d)
  <2>1. PICK d \in WriteOps : Append_(d)
    BY <1>4
  <2>2. KV!Call(d)
    BY <1>0, <1>2, <2>1 DEF KV!Call, Append_
  <2> QED
    BY <1>2, <2>2 DEF KV!KVNext
<1>5. CASE up /\ Commit
  <2>1. /\ inflight # EmptyTable /\ inflight' = EmptyTable /\ up' = up
        /\ latest' = KV!Applied(latest, inflight)
    BY <1>5, AcknowledgedIs DEF Commit
  <2>2. KV!Return
    BY <1>0, <1>2, <1>5, <2>1 DEF KV!Return
  <2> QED
    BY <2>2 DEF KV!KVNext
<1>6. CASE up /\ (Crash \/ Close)
  <2>1. /\ up' = FALSE /\ inflight' = EmptyTable
        /\ latest' \in {latest, KV!Applied(latest, inflight)}
    BY <1>6, AcknowledgedIs DEF Crash, Close, LoseMemory
  <2>2. KV!Stop
    BY <1>0, <1>2, <1>6, <2>1 DEF KV!Stop
  <2> QED
    BY <2>2 DEF KV!KVNext
<1>7. CASE UNCHANGED <<up, inflight, latest>>
  BY <1>0, <1>7 DEF KV!kvVars
<1>8. CASE UNCHANGED vars
  BY <1>7, <1>8 DEF vars
<1> QED
  BY <1>3, <1>4, <1>5, <1>6, <1>7, <1>8, StepKinds

(* The engine starts as the abstract map does, with what is on disk. *)
LEMMA InitMaps ==
    ASSUME Init
    PROVE  KV!KVInit
<1>1. DiskView \in [Keys -> Values \cup {Null}]
  BY DiskViewType
<1> QED
  BY <1>1 DEF Init, KV!KVInit, EmptyTable, KV!EmptyTable

(* Through writes, gets, compactions, I/O errors, kills and restarts the   *)
(* engine is the map its callers were promised: a write takes effect in    *)
(* the one step that acknowledges it, or in the stop that cuts it short,   *)
(* and no other step changes what callers see.  A start that cannot open a *)
(* file is left out: initialize() drops such a file for good.              *)
THEOREM CompactionImplementsMap ==
    ASSUME CompactOnly, MaxDrops = 0
    PROVE  Spec => ImplementsKVStore
<1>1. CBase => TypeOK /\ LogInv /\ Mapped
  BY ViewAnswers DEF CBase, CompactInv, CrashSafe, Mapped
<1>2. TypeOK /\ Initialize => used'["drops"] = used["drops"]
  <2> SUFFICES ASSUME TypeOK, Initialize
               PROVE  used'["drops"] = used["drops"]
    OBVIOUS
  <2>1. used["drops"] \in Nat
    BY DEF TypeOK, Bounds
  <2>2. ~(used["drops"] < MaxDrops)
    BY <2>1
  <2> QED
    BY <2>2 DEF Initialize, Unopened
<1>3. TypeOK /\ LogInv /\ Mapped /\ Mapped' /\ [Next]_vars
        => [KV!KVNext]_(KV!kvVars)
  BY <1>2, StepMaps
<1> QED
  BY <1>1, <1>3, InitMaps, CompactKeeps, PTL
  DEF Spec, ImplementsKVStore, KV!KVSpec

(* What a step of a store that answers reads right does to its callers.    *)
LEMMA StepLoses ==
    ASSUME TypeOK, LogInv, ReadLatest, ReadLatest', [Next]_vars
    PROVE  \/ up /\ ~up' /\ ~CrashSafe
           \/ used'["drops"] # used["drops"]
           \/ [KV!KVNext]_(KV!kvVars)
<1> DEFINE kv == IF up THEN View ELSE DiskView
<1> SUFFICES ASSUME used'["drops"] = used["drops"],
                    up /\ ~up' => CrashSafe
             PROVE  [KV!KVNext]_(KV!kvVars)
  OBVIOUS
<1>1. KV!kvVars = <<kv, inflight, up>>
  BY DEF KV!kvVars
<1>2. KV!EmptyTable = EmptyTable
  BY DEF EmptyTable, KV!EmptyTable
<1>3. CASE Initialize
  <2>1. ~up /\ up' /\ inflight' = inflight
    BY <1>3 DEF Initialize
  <2>2. kv' = kv
    BY <1>3, <2>1, StartKeeps DEF ReadLatest
  <2>3. KV!Start
    BY <2>1, <2>2 DEF KV!Start
  <2> QED
    BY <2>3 DEF KV!KVNext
<1>4. CASE up /\ up'
  BY <1>4, StepMaps DEF Mapped, ReadLatest, Initialize
<1>5. CASE up /\ (Crash \/ Close)
  <2>1. ~up' /\ CrashSafe /\ UNCHANGED <<files, manifestFile>>
    BY <1>5 DEF Crash, Close, LoseMemory
  <2>2. CrashSafe'
    <3>1. CASE UNCHANGED <<wal, latest>>
      BY <2>1, <3>1 DEF CrashSafe, DiskView, Recovered, OnDisk, Replayed
    <3>2. CASE WriteLog(inflight) /\ Acknowledge(inflight)
      BY <1>5, <2>1, <3>2, WrittenIsSafe
    <3> QED
      BY <1>5, <3>1, <3>2 DEF Crash, Close
  <2>3. Mapped /\ Mapped'
    BY <1>5, <2>1, <2>2 DEF Mapped, CrashSafe, ReadLatest
  <2> QED
    BY <2>3, StepMaps
<1>6. CASE UNCHANGED vars
  <2>1. kv' = kv
    BY <1>6
    DEF vars, View, MemTableEntry, SSTableData, DiskView, Recovered, OnDisk,
        Replayed, memVars, readerVars, manifestVars
  <2> QED
    BY <1>6, <2>1 DEF vars, KV!kvVars
<1> QED
  <2>1. CASE up /\ ((\E d \in WriteOps : Append_(d)) \/ Commit)
    BY <1>4, <2>1 DEF Append_, Commit
  <2>2. CASE up /\ UNCHANGED <<up, inflight, latest>>
    BY <1>4, <2>2
  <2> QED
    BY <1>3, <1>5, <1>6, <2>1, <2>2, StepKinds

(* In a store that only flushes and in one that only compacts, whatever    *)
(* kills, restarts, failing unlinks and unreadable files interleave with   *)
(* its writes, nothing but a stop whose disk does not hold every           *)
(* acknowledged write, and a start that drops a file it cannot open, makes *)
(* it differ from the map its callers were promised.                       *)
THEOREM LosesNothingElse ==
    ASSUME FlushOnly \/ CompactOnly
    PROVE  Spec => LosesOnlyAtStops
<1>1. Spec => []ReadLatest
  <2>1. CASE FlushOnly
    <3>1. FrozenTracked /\ ReadLatest => ReadLatest
      OBVIOUS
    <3> QED
      BY <2>1, <3>1, FlushKeepsReads, PTL
  <2>2. CASE CompactOnly
    BY <2>2, CompactionKeepsReads
  <2> QED
    BY <2>1, <2>2
<1>2. TypeOK /\ LogInv /\ ReadLatest /\ ReadLatest' /\ [Next]_vars
        => [ \/ up /\ ~up' /\ ~CrashSafe
             \/ used'["drops"] # used["drops"]
             \/ KV!KVNext \/ UNCHANGED KV!kvVars ]_vars
  BY StepLoses
<1>3. Spec => []LogInv
  <2>1. TypeOK /\ LogInv /\ [Next]_vars => LogInv'
    BY LogNext
  <2> QED
    BY <2>1, InitLog, TypeCorrect, PTL DEF Spec
<1> QED
  BY <1>1, <1>2, <1>3, TypeCorrect, PTL DEF Spec, LosesOnlyAtStops

-----------------------------------------------------------------------------
(* Numbers in order *)

(* Ascending lists the numbers of a finite set upwards and leaves none out. *)
LEMMA AscendingLists ==
    ASSUME NEW S \in SUBSET Nat, IsFiniteSet(S)
    PROVE  /\ Cardinality(S) \in Nat
           /\ Ascending(S) \in [1..Cardinality(S) -> S]
           /\ \A i, j \in 1..Cardinality(S) :
                  i < j => Ascending(S)[i] < Ascending(S)[j]
           /\ \A v \in S : \E i \in 1..Cardinality(S) : Ascending(S)[i] = v
<1> DEFINE n == Cardinality(S)
           Lists(s) == \A i, j \in 1..n : i < j => s[i] < s[j]
<1>1. n \in Nat
  BY FS_CardinalityType
<1>2. PICK s : ListsUpwards(s, n, S)
  BY UpwardsExists
<1>3. s \in [1..n -> S] /\ Lists(s)
  BY <1>2 DEF ListsUpwards
<1>4. Ascending(S) = CHOOSE t \in [1..n -> S] : Lists(t)
  BY DEF Ascending
<1>5. Ascending(S) \in [1..n -> S] /\ Lists(Ascending(S))
  <2> HIDE DEF Lists, n
  <2> QED
    BY <1>3, <1>4
<1>6. ListsUpwards(Ascending(S), n, S)
  BY <1>5 DEF ListsUpwards
<1>7. \A v \in S : \E i \in 1..n : Ascending(S)[i] = v
  BY <1>6, UpwardsAll
<1> QED
  BY <1>1, <1>5, <1>7

(* A set of keys is a finite set of numbers. *)
LEMMA KeySets ==
    ASSUME NEW S \in SUBSET Keys
    PROVE  S \in SUBSET Nat /\ IsFiniteSet(S)
BY RangeAssumption, FS_Subset

(* So is a set of positions in a sequence. *)
LEMMA PositionSets ==
    ASSUME NEW n \in Nat, NEW S \in SUBSET (1..n)
    PROVE  S \in SUBSET Nat /\ IsFiniteSet(S)
<1>1. IsFiniteSet(1..n)
  BY FS_Interval
<1>2. IsFiniteSet(S)
  BY <1>1, FS_Subset
<1> QED
  BY <1>2

-----------------------------------------------------------------------------
(* The first entry for a key *)

(* e is the entry of the first source that has one for key k, Absent if    *)
(* none has.                                                               *)
Finds(q, k, e) ==
    \/ /\ e # Absent
       /\ \E i \in 1..Len(q) :
              /\ q[i].data[k] = e
              /\ \A j \in 1..Len(q) : j < i => q[j].data[k] = Absent
    \/ /\ e = Absent
       /\ \A i \in 1..Len(q) : q[i].data[k] = Absent

(* What a stack of sources answers for every key. *)
Answer(q) == [k \in Keys |-> Resolve(FirstWins(SSTableData(q))[k])]

(* Reading a stack of sources finds the first entry. *)
LEMMA FindsFirst ==
    ASSUME NEW q, Len(q) \in Nat, DOMAIN q = 1..Len(q), NEW k \in Keys, NEW e,
           Finds(q, k, e)
    PROVE  FirstWins(SSTableData(q))[k] = e
<1> DEFINE f == SSTableData(q)
<1>1. DOMAIN f = 1..Len(q) /\ \A i \in 1..Len(q) : f[i] = q[i].data
  BY DEF SSTableData
<1>2. DOMAIN f \subseteq Int
  BY <1>1
<1> HIDE DEF f
<1>3. CASE e # Absent
  <2>1. PICK i \in 1..Len(q) :
            /\ q[i].data[k] = e
            /\ \A j \in 1..Len(q) : j < i => q[j].data[k] = Absent
    BY <1>3 DEF Finds
  <2>2. FirstHit(f, k, i)
    BY <1>1, <1>3, <2>1 DEF FirstHit
  <2> QED
    BY <1>1, <1>2, <2>1, <2>2, FirstWinsAt DEF f
<1>4. CASE e = Absent
  <2>1. \A i \in DOMAIN f : ~FirstHit(f, k, i)
    BY <1>1, <1>4 DEF Finds, FirstHit
  <2> QED
    BY <1>4, <2>1, FirstWinsNone DEF f
<1> QED
  BY <1>3, <1>4

(* There always is one. *)
LEMMA FindsSome ==
    ASSUME NEW q, Len(q) \in Nat, NEW k
    PROVE  \E e : Finds(q, k, e)
<1> DEFINE hits == {i \in 1..Len(q) : q[i].data[k] # Absent}
<1>1. CASE hits = {}
  <2>1. Finds(q, k, Absent)
    BY <1>1 DEF Finds
  <2> QED
    BY <2>1
<1>2. CASE hits # {}
  <2>1. PICK i \in hits : \A j \in hits : i <= j
    <3>1. hits \in SUBSET Nat
      OBVIOUS
    <3> HIDE DEF hits
    <3> QED
      BY <1>2, <3>1, LeastNumber
  <2>2. \A j \in 1..Len(q) : j < i => q[j].data[k] = Absent
    BY <2>1
  <2>3. Finds(q, k, q[i].data[k])
    BY <2>1, <2>2 DEF Finds
  <2> QED
    BY <2>3
<1> QED
  BY <1>1, <1>2

-----------------------------------------------------------------------------
(* What a query reads when it is called *)

(* Table t holds an entry for k, and k lies between the bounds. *)
Holds(t, from, to, k) == from <= k /\ k <= to /\ t[k] # Absent

(* What is read, one source after the other. *)
LEMMA LayersAre ==
    ASSUME TypeOK, NEW from \in Keys, NEW to \in Keys
    PROVE  LET all == Layers(from, to)
           IN  /\ all \in Seq(Source)
               /\ Len(all) = Len(sstables) + 2
               /\ \A i \in 1..Len(all) : all[i].at = 0 /\ all[i].head = 0
               /\ all[1].data = InRange(active, from, to)
               /\ all[2].data = InRange(immutable, from, to)
               /\ \A i \in 1..Len(sstables) :
                      all[i + 2].data = sstables[i].data
<1> DEFINE n == Len(sstables)
           first == <<MakeSource(0, InRange(active, from, to)),
                      MakeSource(0, InRange(immutable, from, to))>>
           rest == [i \in 1..n |-> MakeSource(sstables[i].id, sstables[i].data)]
<1>1. n \in Nat /\ DOMAIN sstables = 1..n
      /\ \A i \in 1..n : sstables[i] \in Reader
  BY DEF TypeOK
<1>2. ASSUME NEW t \in Table PROVE InRange(t, from, to) \in Table
  BY DEF InRange, Table
<1>3. active \in Table /\ immutable \in Table
  BY DEF TypeOK
<1>4. ASSUME NEW id \in Nat, NEW t \in Table
      PROVE  /\ MakeSource(id, t) \in Source /\ MakeSource(id, t).data = t
             /\ MakeSource(id, t).at = 0 /\ MakeSource(id, t).head = 0
  BY DEF MakeSource, Source
<1>5. /\ first \in Seq(Source) /\ Len(first) = 2
      /\ \A i \in 1..2 : first[i].at = 0 /\ first[i].head = 0
      /\ first[1].data = InRange(active, from, to)
      /\ first[2].data = InRange(immutable, from, to)
  BY <1>2, <1>3, <1>4
<1>6. /\ rest \in Seq(Source) /\ Len(rest) = n
      /\ \A i \in 1..n : /\ rest[i].at = 0 /\ rest[i].head = 0
                         /\ rest[i].data = sstables[i].data
  <2>1. \A i \in 1..n : sstables[i].id \in Nat /\ sstables[i].data \in Table
    BY <1>1 DEF Reader
  <2>2. rest \in [1..n -> Source]
    BY <1>4, <2>1
  <2>3. rest \in Seq(Source) /\ Len(rest) = n
    BY <1>1, <2>2
  <2> QED
    BY <1>4, <2>1, <2>3
<1>7. Layers(from, to) = first \o rest
  BY <1>1 DEF Layers
<1> HIDE DEF first, rest
<1> DEFINE all == first \o rest
<1>8. /\ all \in Seq(Source) /\ Len(all) = n + 2
      /\ all[1] = first[1] /\ all[2] = first[2]
      /\ \A i \in 1..n : all[i + 2] = rest[i]
  <2> HIDE DEF n
  <2>1. /\ all \in Seq(Source) /\ Len(all) = 2 + n
        /\ \A i \in 1..(2 + n) :
               all[i] = IF i <= 2 THEN first[i] ELSE rest[i - 2]
    <3>1. /\ all \in Seq(Source) /\ Len(all) = Len(first) + Len(rest)
          /\ \A i \in 1..(Len(first) + Len(rest)) :
                 all[i] = IF i <= Len(first) THEN first[i]
                          ELSE rest[i - Len(first)]
      <4>1. first \in Seq(Source) /\ rest \in Seq(Source)
        BY <1>5, <1>6
      <4> QED
        BY <4>1, ConcatProperties, Zenon
    <3> HIDE DEF all
    <3>2. Len(first) = 2 /\ Len(rest) = n
      BY <1>5, <1>6
    <3> QED
      BY <3>1, <3>2, Zenon
  <2>2. \A i \in 1..n : i + 2 \in 1..(2 + n) /\ ~ (i + 2 <= 2)
                       /\ (i + 2) - 2 = i
    BY <1>1
  <2>3. 1 \in 1..(2 + n) /\ 2 \in 1..(2 + n) /\ 2 + n = n + 2
    BY <1>1
  <2> HIDE DEF all
  <2> QED
    BY <2>1, <2>2, <2>3
<1>9. ASSUME NEW i \in 1..(n + 2) PROVE all[i].at = 0 /\ all[i].head = 0
  <2>1. i = 1 \/ i = 2 \/ (i - 2 \in 1..n /\ (i - 2) + 2 = i)
    BY <1>1
  <2> QED
    BY <1>5, <1>6, <1>8, <2>1
<1> QED
  BY <1>5, <1>6, <1>7, <1>8, <1>9

(* Its first entry for a key between the bounds is what get() would find. *)
LEMMA LayersFind ==
    ASSUME TypeOK, NEW from \in Keys, NEW to \in Keys,
           NEW k \in Keys, from <= k, k <= to
    PROVE  \E e : Finds(Layers(from, to), k, e) /\ Resolve(e) = View[k]
<1> DEFINE all == Layers(from, to)
           n == Len(sstables)
<1>1. /\ Len(all) = n + 2 /\ n \in Nat /\ sstables \in Seq(Reader)
      /\ all[1].data[k] = active[k] /\ all[2].data[k] = immutable[k]
      /\ \A i \in 1..n : all[i + 2].data[k] = sstables[i].data[k]
  <2>1. n \in Nat /\ sstables \in Seq(Reader)
    BY DEF TypeOK
  <2>2. /\ Len(all) = n + 2
        /\ all[1].data = InRange(active, from, to)
        /\ all[2].data = InRange(immutable, from, to)
        /\ \A i \in 1..n : all[i + 2].data = sstables[i].data
    BY LayersAre
  <2>3. /\ InRange(active, from, to)[k] = active[k]
        /\ InRange(immutable, from, to)[k] = immutable[k]
    BY DEF InRange
  <2> QED
    BY <2>1, <2>2, <2>3
<1>2. View[k] = Resolve(IF MemTableEntry(k) # Absent THEN MemTableEntry(k)
                        ELSE FirstWins(SSTableData(sstables))[k])
  BY ViewAt
<1> HIDE DEF all
<1>3. CASE active[k] # Absent
  <2>1. 1 \in 1..(n + 2) /\ \A j \in 1..(n + 2) : ~ (j < 1)
    BY <1>1
  <2>2. Finds(all, k, active[k])
    BY <1>1, <1>3, <2>1 DEF Finds
  <2> QED
    BY <1>2, <1>3, <2>2 DEF MemTableEntry, all
<1>4. CASE active[k] = Absent /\ immutable[k] # Absent
  <2>1. 2 \in 1..(n + 2) /\ \A j \in 1..(n + 2) : j < 2 => j = 1
    BY <1>1
  <2>2. Finds(all, k, immutable[k])
    BY <1>1, <1>4, <2>1 DEF Finds
  <2> QED
    BY <1>2, <1>4, <2>2 DEF MemTableEntry, all
<1>5. CASE active[k] = Absent /\ immutable[k] = Absent
  <2>1. PICK e : Finds(sstables, k, e)
    BY <1>1, FindsSome
  <2>2. FirstWins(SSTableData(sstables))[k] = e
    BY <1>1, <2>1, FindsFirst
  <2>3. \A i \in 1..(n + 2) :
            i = 1 \/ i = 2 \/ (i - 2 \in 1..n /\ (i - 2) + 2 = i)
    BY <1>1
  <2>4. CASE e = Absent
    <3>1. \A i \in 1..n : sstables[i].data[k] = Absent
      BY <2>1, <2>4 DEF Finds
    <3>2. ASSUME NEW i \in 1..(n + 2) PROVE all[i].data[k] = Absent
      <4>1. CASE i = 1 \/ i = 2
        BY <1>1, <1>5, <4>1
      <4>2. CASE i - 2 \in 1..n /\ (i - 2) + 2 = i
        <5>1. all[(i - 2) + 2].data[k] = sstables[i - 2].data[k]
          BY <1>1, <4>2
        <5> QED
          BY <3>1, <4>2, <5>1
      <4> QED
        BY <2>3, <4>1, <4>2
    <3>3. Finds(all, k, e)
      BY <1>1, <2>4, <3>2 DEF Finds
    <3> QED
      BY <1>2, <1>5, <2>2, <3>3 DEF MemTableEntry, all
  <2>5. CASE e # Absent
    <3>1. PICK i \in 1..n :
              /\ sstables[i].data[k] = e
              /\ \A j \in 1..n : j < i => sstables[j].data[k] = Absent
      BY <2>1, <2>5 DEF Finds
    <3>2. i + 2 \in 1..(n + 2) /\ all[i + 2].data[k] = e
      BY <1>1, <3>1
    <3>3. ASSUME NEW j \in 1..(n + 2), j < i + 2
          PROVE  all[j].data[k] = Absent
      <4>1. CASE j = 1 \/ j = 2
        BY <1>1, <1>5, <4>1
      <4>2. CASE j - 2 \in 1..n /\ (j - 2) + 2 = j
        <5>1. j - 2 < i
          BY <3>3
        <5> QED
          BY <1>1, <3>1, <4>2, <5>1
      <4> QED
        BY <2>3, <4>1, <4>2
    <3>4. Finds(all, k, e)
      BY <1>1, <2>5, <3>2, <3>3 DEF Finds
    <3> QED
      BY <1>2, <1>5, <2>2, <3>4 DEF MemTableEntry, all
  <2> QED
    BY <2>4, <2>5
<1> QED
  BY <1>3, <1>4, <1>5

(* Sources without a key between the bounds may be left out. *)
LEMMA AtFinds ==
    ASSUME NEW all, Len(all) \in Nat, NEW S \in SUBSET (1..Len(all)),
           NEW k, NEW e, Finds(all, k, e),
           \A i \in 1..Len(all) : all[i].data[k] # Absent => i \in S
    PROVE  Finds(At(all, S), k, e)
<1> DEFINE n == Cardinality(S)
           order == Ascending(S)
           some == At(all, S)
<1>1. /\ n \in Nat /\ order \in [1..n -> S]
      /\ \A i, j \in 1..n : i < j => order[i] < order[j]
      /\ \A v \in S : \E i \in 1..n : order[i] = v
  BY PositionSets, AscendingLists
<1>2. some = [i \in 1..n |-> all[order[i]]]
  BY DEF At
<1> HIDE DEF n, order, some
<1>3. Len(some) = n /\ \A i \in 1..n : some[i] = all[order[i]]
  BY <1>1, <1>2
<1>4. CASE e = Absent
  <2>1. \A i \in 1..n : order[i] \in 1..Len(all)
    BY <1>1
  <2>2. \A i \in 1..n : some[i].data[k] = Absent
    BY <1>3, <1>4, <2>1 DEF Finds
  <2> QED
    BY <1>3, <1>4, <2>2 DEF Finds, some
<1>5. CASE e # Absent
  <2>1. PICK i \in 1..Len(all) :
            /\ all[i].data[k] = e
            /\ \A j \in 1..Len(all) : j < i => all[j].data[k] = Absent
    BY <1>5 DEF Finds
  <2>2. PICK p \in 1..n : order[p] = i
    BY <1>1, <1>5, <2>1
  <2>3. ASSUME NEW q \in 1..n, q < p PROVE some[q].data[k] = Absent
    <3>1. order[q] < i /\ order[q] \in 1..Len(all)
      BY <1>1, <2>2, <2>3
    <3> QED
      BY <1>3, <2>1, <3>1
  <2>4. some[p].data[k] = e
    BY <1>3, <2>1, <2>2
  <2> QED
    BY <1>3, <1>5, <2>3, <2>4 DEF Finds, some
<1> QED
  BY <1>4, <1>5

-----------------------------------------------------------------------------
(* What a query has yielded *)

(* The keys between two bounds that have a value. *)
LiveKeys(m, from, to) == {k \in Keys : from <= k /\ k <= to /\ m[k] # Null}

(* The pairs between two keys are listed with their keys upwards. *)
LEMMA PairsAre ==
    ASSUME NEW m, NEW from, NEW to
    PROVE  LET S == LiveKeys(m, from, to)
               p == Pairs(m, from, to)
           IN  /\ S \in SUBSET Nat /\ IsFiniteSet(S) /\ Cardinality(S) \in Nat
               /\ Len(p) = Cardinality(S) /\ DOMAIN p = 1..Cardinality(S)
               /\ p = [i \in 1..Cardinality(S) |->
                          <<Ascending(S)[i], m[Ascending(S)[i]]>>]
<1> DEFINE S == LiveKeys(m, from, to)
<1>1. S \in SUBSET Nat /\ IsFiniteSet(S)
  BY KeySets DEF LiveKeys
<1>2. DOMAIN Ascending(S) = 1..Cardinality(S) /\ Cardinality(S) \in Nat
  BY <1>1, AscendingLists
<1>3. Pairs(m, from, to) = [i \in 1..Cardinality(S) |->
                               <<Ascending(S)[i], m[Ascending(S)[i]]>>]
  BY <1>2 DEF Pairs, LiveKeys
<1> HIDE DEF S
<1>4. Len(Pairs(m, from, to)) = Cardinality(S)
  BY <1>2, <1>3
<1> QED
  BY <1>1, <1>2, <1>3, <1>4 DEF S

(* They are pairs of a key and a value. *)
LEMMA PairsType ==
    ASSUME NEW m \in [Keys -> Values \cup {Null}], NEW from, NEW to
    PROVE  Pairs(m, from, to) \in Seq(Keys \X Values)
<1> DEFINE S == LiveKeys(m, from, to)
           n == Cardinality(S)
<1>1. /\ n \in Nat /\ S \in SUBSET Nat /\ IsFiniteSet(S)
      /\ Pairs(m, from, to) = [i \in 1..n |->
                                  <<Ascending(S)[i], m[Ascending(S)[i]]>>]
  BY PairsAre
<1>2. \A i \in 1..n : Ascending(S)[i] \in S
  BY <1>1, AscendingLists
<1>3. \A k \in S : k \in Keys /\ m[k] \in Values
  BY DEF LiveKeys
<1> HIDE DEF S, n
<1> DEFINE pair(i) == <<Ascending(S)[i], m[Ascending(S)[i]]>>
<1>4. \A i \in 1..n : pair(i) \in Keys \X Values
  BY <1>2, <1>3
<1> HIDE DEF pair
<1>5. [i \in 1..n |-> pair(i)] \in Seq(Keys \X Values)
  BY <1>1, <1>4
<1>6. Pairs(m, from, to) = [i \in 1..n |-> pair(i)]
  BY <1>1 DEF pair
<1> QED
  BY <1>5, <1>6, Zenon

(* Maps that agree between the bounds have the same pairs between them. *)
LEMMA PairsSame ==
    ASSUME NEW m, NEW o, NEW from, NEW to,
           \A k \in Keys : from <= k /\ k <= to => m[k] = o[k]
    PROVE  Pairs(m, from, to) = Pairs(o, from, to)
<1> DEFINE S == LiveKeys(m, from, to)
           n == Cardinality(S)
<1>1. S = LiveKeys(o, from, to)
  BY DEF LiveKeys
<1>2. /\ n \in Nat /\ S \in SUBSET Nat /\ IsFiniteSet(S)
      /\ Pairs(m, from, to) = [i \in 1..n |->
                                  <<Ascending(S)[i], m[Ascending(S)[i]]>>]
      /\ Pairs(o, from, to) = [i \in 1..n |->
                                  <<Ascending(S)[i], o[Ascending(S)[i]]>>]
  BY <1>1, PairsAre
<1>3. \A i \in 1..n : Ascending(S)[i] \in S
  BY <1>2, AscendingLists
<1>4. \A k \in S : m[k] = o[k]
  BY DEF LiveKeys
<1> HIDE DEF S, n
<1> QED
  BY <1>2, <1>3, <1>4

(* The sources of r answer what was asked for; what r has yielded are the  *)
(* pairs of the keys below c.                                              *)
Live(r) == LiveKeys(Answer(r.sources), r.from, r.to)

Yielded(r, c) ==
    /\ r.want = Pairs(Answer(r.sources), r.from, r.to)
    /\ Len(r.out) <= Len(r.want)
    /\ \A i \in 1..Len(r.out) : r.out[i] = r.want[i]
    /\ \A i \in 1..Len(r.want) :
           i <= Len(r.out) <=> Ascending(Live(r))[i] < c

(* q is r further on: the question and the tables are the same. *)
SameQuery(q, r) ==
    /\ q.from = r.from /\ q.to = r.to /\ q.limit = r.limit
    /\ q.want = r.want
    /\ SSTableData(q.sources) = SSTableData(r.sources)

(* What the want of a query is made of. *)
LEMMA WantIs ==
    ASSUME NEW r, NEW c, Yielded(r, c)
    PROVE  LET S == Live(r)
           IN  /\ S \in SUBSET Keys /\ S \in SUBSET Nat
               /\ Len(r.want) \in Nat /\ DOMAIN r.want = 1..Len(r.want)
               /\ \A i \in 1..Len(r.want) :
                      /\ Ascending(S)[i] \in S
                      /\ r.want[i] = <<Ascending(S)[i],
                                       Answer(r.sources)[Ascending(S)[i]]>>
               /\ \A i, j \in 1..Len(r.want) :
                      i < j => Ascending(S)[i] < Ascending(S)[j]
               /\ \A k \in S : \E i \in 1..Len(r.want) : Ascending(S)[i] = k
<1> DEFINE S == Live(r)
           n == Cardinality(S)
<1>1. /\ n \in Nat /\ S \in SUBSET Nat /\ IsFiniteSet(S)
      /\ Len(r.want) = n /\ DOMAIN r.want = 1..n
      /\ r.want = [i \in 1..n |->
                      <<Ascending(S)[i], Answer(r.sources)[Ascending(S)[i]]>>]
  BY PairsAre DEF Yielded, Live
<1>2. S \in SUBSET Keys
  BY DEF Live, LiveKeys
<1> HIDE DEF S
<1>3. /\ \A i \in 1..n : Ascending(S)[i] \in S
      /\ \A i, j \in 1..n : i < j => Ascending(S)[i] < Ascending(S)[j]
      /\ \A k \in S : \E i \in 1..n : Ascending(S)[i] = k
  BY <1>1, AscendingLists
<1> QED
  BY <1>1, <1>2, <1>3 DEF S

(* Keys without a value yield nothing. *)
LEMMA YieldSkip ==
    ASSUME NEW r, NEW q, NEW b \in Nat, NEW c \in Nat, b <= c,
           SameQuery(q, r), q.out = r.out, Yielded(r, b),
           \A k \in Live(r) : ~ (b <= k /\ k < c)
    PROVE  Yielded(q, c)
<1>1. Answer(q.sources) = Answer(r.sources) /\ Live(q) = Live(r)
  BY DEF SameQuery, Answer, Live
<1>2. Live(r) \in SUBSET Nat /\ \A i \in 1..Len(r.want) :
                                    Ascending(Live(r))[i] \in Live(r)
  BY WantIs
<1>3. \A k \in Live(r) : k < b <=> k < c
  BY <1>2
<1>4. \A i \in 1..Len(r.want) :
          Ascending(Live(r))[i] < b <=> Ascending(Live(r))[i] < c
  BY <1>2, <1>3
<1> QED
  BY <1>1, <1>4 DEF Yielded, SameQuery

(* The pair of the next key with a value is the next one that is wanted. *)
LEMMA YieldNext ==
    ASSUME NEW r, NEW q, NEW b \in Live(r), Len(r.out) \in Nat,
           DOMAIN r.out = 1..Len(r.out), Yielded(r, b), SameQuery(q, r),
           Len(q.out) = Len(r.out) + 1,
           \A i \in 1..Len(r.out) : q.out[i] = r.out[i],
           q.out[Len(r.out) + 1] = <<b, Answer(r.sources)[b]>>
    PROVE  Yielded(q, b + 1)
<1> DEFINE S == Live(r)
           order == Ascending(S)
           m == Len(r.out)
           n == Len(r.want)
<1>1. Answer(q.sources) = Answer(r.sources) /\ Live(q) = S /\ q.want = r.want
  BY DEF SameQuery, Answer, Live
<1>2. /\ S \in SUBSET Nat /\ n \in Nat /\ m \in Nat /\ m <= n
      /\ \A i \in 1..n : /\ order[i] \in S
                         /\ r.want[i] = <<order[i],
                                          Answer(r.sources)[order[i]]>>
      /\ \A i, j \in 1..n : i < j => order[i] < order[j]
      /\ \A k \in S : \E i \in 1..n : order[i] = k
  BY WantIs DEF Yielded
<1>3. \A i \in 1..n : i <= m <=> order[i] < b
  BY DEF Yielded
<1> HIDE DEF S, order, m, n
<1>4. b \in S /\ b \in Nat
  BY <1>2 DEF S
<1>5. PICK p \in 1..n : order[p] = b
  BY <1>2, <1>4
<1>6. p = m + 1
  <2>1. ~ (p <= m)
    BY <1>3, <1>4, <1>5
  <2>2. ~ (m + 1 < p)
    <3> SUFFICES ASSUME m + 1 < p PROVE FALSE
      OBVIOUS
    <3>1. m + 1 \in 1..n
      BY <1>2, <1>5
    <3>2. order[m + 1] < b
      BY <1>2, <1>5, <3>1
    <3>3. m + 1 <= m
      BY <1>3, <3>1, <3>2
    <3> QED
      BY <1>2, <3>3
  <2> QED
    BY <1>2, <1>5, <2>1, <2>2
<1>7. \A i \in 1..n : i <= m + 1 <=> order[i] < b + 1
  <2> SUFFICES ASSUME NEW i \in 1..n
               PROVE  i <= m + 1 <=> order[i] < b + 1
    OBVIOUS
  <2>1. order[i] \in Nat
    BY <1>2
  <2>2. CASE i < p
    BY <1>2, <1>4, <1>5, <1>6, <2>1, <2>2
  <2>3. CASE i = p
    BY <1>4, <1>5, <1>6, <2>1, <2>3
  <2>4. CASE p < i
    BY <1>2, <1>4, <1>5, <1>6, <2>1, <2>4
  <2> QED
    BY <1>5, <2>2, <2>3, <2>4
<1>8. \A i \in 1..(m + 1) : q.out[i] = r.want[i]
  <2>1. q.out[m + 1] = r.want[m + 1]
    BY <1>2, <1>5, <1>6 DEF m
  <2>2. \A i \in 1..m : q.out[i] = r.want[i]
    BY DEF m, Yielded
  <2>3. \A i \in 1..(m + 1) : i = m + 1 \/ i \in 1..m
    BY <1>2
  <2> QED
    BY <2>1, <2>2, <2>3
<1>9. q.want = Pairs(Answer(q.sources), q.from, q.to)
  BY <1>1 DEF Yielded, SameQuery
<1>10. Len(q.out) = m + 1 /\ m + 1 <= n /\ Len(q.want) = n
  BY <1>1, <1>5, <1>6 DEF m, n
<1> QED
  BY <1>1, <1>7, <1>8, <1>9, <1>10 DEF Yielded, order, S

(* When no key with a value is left, everything has been yielded. *)
LEMMA YieldAll ==
    ASSUME NEW r, NEW c \in Nat, r.out \in Seq(Keys \X Values),
           r.want \in Seq(Keys \X Values), Yielded(r, c),
           \A k \in Live(r) : k < c
    PROVE  r.out = r.want
<1>1. \A i \in 1..Len(r.want) : i <= Len(r.out)
  BY WantIs DEF Yielded
<1>2. Len(r.out) \in Nat /\ Len(r.want) \in Nat /\ Len(r.out) <= Len(r.want)
  BY DEF Yielded
<1>3. Len(r.out) = Len(r.want)
  <2>1. Len(r.want) = 0 \/ Len(r.want) \in 1..Len(r.want)
    BY <1>2
  <2> QED
    BY <1>1, <1>2, <2>1
<1>4. \A i \in 1..Len(r.out) : r.out[i] = r.want[i]
  BY DEF Yielded
<1> DEFINE o == r.out
           w == r.want
<1>5. o \in Seq(Keys \X Values) /\ w \in Seq(Keys \X Values)
  OBVIOUS
<1> HIDE DEF o, w
<1>6. Len(o) = Len(w) /\ \A i \in 1..Len(o) : o[i] = w[i]
  BY <1>3, <1>4 DEF o, w
<1>7. o = w
  BY <1>5, <1>6, SeqEqual, Zenon
<1> QED
  BY <1>7 DEF o, w

-----------------------------------------------------------------------------
(* The steps of a query *)

Heads(r) == {r.sources[i].head : i \in DOMAIN r.sources} \ {0}

(* The sources that have the key low in the heap. *)
Tied(r, low) == {i \in DOMAIN r.sources : r.sources[i].head = low}

(* One round advances the sources due, each once, that have the key low    *)
(* in the heap, the first of them last.                                    *)
DueFor(r, due, low) ==
    /\ due \in Seq(1..Len(r.sources))
    /\ Len(due) \in Nat /\ Len(due) >= 1
    /\ \A m, n \in 1..Len(due) : due[m] = due[n] => m = n
    /\ \A i \in 1..Len(r.sources) :
           r.sources[i].head = low <=> \E n \in 1..Len(due) : due[n] = i
    /\ \A i \in 1..Len(r.sources) :
           r.sources[i].head = low => due[Len(due)] <= i

(* Moving the first of a list to its end keeps its elements. *)
LEMMA RotateList ==
    ASSUME NEW n \in Nat, NEW k \in Nat, k >= 1, NEW s \in [1..k -> 1..n]
    PROVE  LET due == Tail(s) \o <<Head(s)>>
           IN  /\ due \in Seq(1..n) /\ Len(due) = k
               /\ \A i \in 1..k : due[i] = IF i = k THEN s[1] ELSE s[i + 1]
<1> DEFINE t == Tail(s)
           h == <<Head(s)>>
<1>1. s \in Seq(1..n) /\ Len(s) = k
  OBVIOUS
<1>2. /\ t \in Seq(1..n) /\ Len(t) = k - 1
      /\ \A i \in 1..(k - 1) : t[i] = s[i + 1]
  BY <1>1
<1>3. h \in Seq(1..n) /\ Len(h) = 1 /\ h[1] = s[1]
  BY <1>1
<1> HIDE DEF t, h
<1>4. /\ t \o h \in Seq(1..n) /\ Len(t \o h) = Len(t) + Len(h)
      /\ \A i \in 1..(Len(t) + Len(h)) :
             (t \o h)[i] = IF i <= Len(t) THEN t[i] ELSE h[i - Len(t)]
  <2>1. t \in Seq(1..n) /\ h \in Seq(1..n)
    BY <1>2, <1>3
  <2> QED
    BY <2>1, ConcatProperties, Zenon
<1> DEFINE due == t \o h
<1> HIDE DEF due
<1>5. /\ due \in Seq(1..n) /\ Len(due) = k
      /\ \A i \in 1..k : due[i] = IF i <= k - 1 THEN t[i] ELSE h[i - (k - 1)]
  BY <1>2, <1>3, <1>4 DEF due
<1>6. \A i \in 1..k : due[i] = IF i = k THEN s[1] ELSE s[i + 1]
  <2> SUFFICES ASSUME NEW i \in 1..k
               PROVE  due[i] = IF i = k THEN s[1] ELSE s[i + 1]
    OBVIOUS
  <2>1. CASE i = k
    <3>1. ~ (k <= k - 1) /\ k - (k - 1) = 1
      OBVIOUS
    <3> QED
      BY <1>3, <1>5, <2>1, <3>1
  <2>2. CASE i # k
    <3>1. i \in 1..(k - 1) /\ i <= k - 1
      BY <2>2
    <3> QED
      BY <1>2, <1>5, <2>2, <3>1
  <2> QED
    BY <2>1, <2>2
<1> QED
  BY <1>5, <1>6 DEF due, t, h

(* The loop of iterate ends when the heap is empty, and otherwise begins a *)
(* round for the least key in it.                                          *)
LEMMA MergeStepIs ==
    ASSUME NEW r \in RangeState
    PROVE  \/ /\ \A i \in 1..Len(r.sources) : r.sources[i].head = 0
              /\ MergeStep(r) = End(r, "done")
           \/ \E low \in Keys, due \in Seq(1..Len(r.sources)) :
                  /\ DueFor(r, due, low)
                  /\ \A i \in 1..Len(r.sources) :
                         r.sources[i].head # 0 => low <= r.sources[i].head
                  /\ MergeStep(r) = [r EXCEPT !.due = due]
<1> DEFINE n == Len(r.sources)
           heads == Heads(r)
           Lowest(k) == \A j \in heads : k <= j
           low == CHOOSE k \in heads : Lowest(k)
           tied == Tied(r, low)
           order == Ascending(tied)
<1>1. /\ n \in Nat /\ DOMAIN r.sources = 1..n
      /\ \A i \in 1..n : r.sources[i].head \in {0} \cup Keys
  <2>1. r.sources \in Seq(Source)
    BY DEF RangeState
  <2>2. n \in Nat /\ DOMAIN r.sources = 1..n
        /\ \A i \in 1..n : r.sources[i] \in Source
    BY <2>1
  <2>3. \A s \in Source : s.head \in {0} \cup Keys
    BY DEF Source
  <2> QED
    BY <2>2, <2>3
<1>2. MergeStep(r) = IF heads = {} THEN End(r, "done")
                     ELSE [r EXCEPT !.due = Tail(order) \o <<Head(order)>>]
  BY DEF MergeStep, Heads, Tied
<1>3. CASE heads = {}
  <2>1. \A i \in 1..n : r.sources[i].head = 0
    BY <1>1, <1>3 DEF Heads
  <2> QED
    BY <1>2, <1>3, <2>1
<1>4. CASE heads # {}
  <2>1. heads \in SUBSET Nat /\ heads \subseteq Keys
    BY <1>1, RangeAssumption DEF Heads
  <2>2. \E k \in heads : Lowest(k)
    <3> HIDE DEF heads
    <3> QED
      BY <1>4, <2>1, LeastNumber
  <2>3. low \in heads /\ Lowest(low)
    <3> HIDE DEF heads, Lowest
    <3> QED
      BY <2>2
  <2> HIDE DEF low
  <2>4. tied \in SUBSET (1..n) /\ tied # {}
    BY <1>1, <2>3 DEF Tied, Heads
  <2> DEFINE k == Cardinality(tied)
  <2>5. /\ k \in Nat /\ order \in [1..k -> tied]
        /\ \A i, j \in 1..k : i < j => order[i] < order[j]
        /\ \A v \in tied : \E i \in 1..k : order[i] = v
    <3>1. tied \in SUBSET Nat /\ IsFiniteSet(tied)
      BY <1>1, <2>4, PositionSets
    <3> HIDE DEF tied
    <3> QED
      BY <3>1, AscendingLists
  <2>6. k >= 1
    BY <2>4, <2>5
  <2> DEFINE due == Tail(order) \o <<Head(order)>>
  <2>7. order \in [1..k -> 1..n]
    BY <2>4, <2>5
  <2>8. /\ due \in Seq(1..n) /\ Len(due) = k
        /\ \A i \in 1..k : due[i] = IF i = k THEN order[1] ELSE order[i + 1]
    <3>1. n \in Nat /\ k \in Nat
      BY <1>1, <2>5
    <3> HIDE DEF heads, tied, order, k, n
    <3>2. k >= 1
      BY <2>6
    <3>3. order \in [1..k -> 1..n]
      BY <2>7
    <3> QED
      BY <3>1, <3>2, <3>3, RotateList
  <2> HIDE DEF due, k, order
  <2>9. \A i, j \in 1..k : order[i] = order[j] => i = j
    <3> SUFFICES ASSUME NEW i \in 1..k, NEW j \in 1..k, order[i] = order[j]
                 PROVE  i = j
      OBVIOUS
    <3>1. order[i] \in Nat /\ order[j] \in Nat
      BY <2>7
    <3>2. i < j \/ j < i \/ i = j
      BY <2>5
    <3> QED
      BY <2>5, <3>1, <3>2
  <2>10. \A i, j \in 1..k : due[i] = due[j] => i = j
    BY <2>5, <2>6, <2>8, <2>9, SMTT(30)
  <2>11. ASSUME NEW v \in 1..n
         PROVE  r.sources[v].head = low <=> \E i \in 1..k : due[i] = v
    <3>1. v \in tied <=> r.sources[v].head = low
      BY <1>1 DEF Tied
    <3>2. ASSUME v \in tied PROVE \E i \in 1..k : due[i] = v
      <4>1. PICK j \in 1..k : order[j] = v
        BY <2>5, <3>2
      <4>2. CASE j = 1
        BY <2>6, <2>8, <4>1, <4>2
      <4>3. CASE j # 1
        <5>1. j - 1 \in 1..k /\ j - 1 # k /\ (j - 1) + 1 = j
          BY <2>5, <4>3
        <5> QED
          BY <2>8, <4>1, <5>1
      <4> QED
        BY <4>2, <4>3
    <3>3. ASSUME NEW i \in 1..k, due[i] = v PROVE v \in tied
      <4>1. CASE i = k
        BY <2>5, <2>6, <2>8, <3>3, <4>1
      <4>2. CASE i # k
        <5>1. i + 1 \in 1..k
          BY <2>5, <4>2
        <5> QED
          BY <2>5, <2>8, <3>3, <4>2, <5>1
      <4> QED
        BY <4>1, <4>2
    <3> QED
      BY <3>1, <3>2, <3>3
  <2>12. ASSUME NEW v \in 1..n, r.sources[v].head = low
         PROVE  due[k] <= v
    <3>1. v \in tied
      BY <1>1, <2>12 DEF Tied
    <3>2. PICK j \in 1..k : order[j] = v
      BY <2>5, <3>1
    <3>3. j = 1 \/ 1 < j
      BY <2>5
    <3>4. due[k] = order[1] /\ 1 \in 1..k /\ order[1] \in Nat
      BY <2>5, <2>6, <2>7, <2>8
    <3> QED
      BY <2>5, <3>2, <3>3, <3>4
  <2>13. DueFor(r, due, low)
    BY <2>5, <2>6, <2>8, <2>10, <2>11, <2>12 DEF DueFor
  <2>14. low \in Keys
    BY <2>1, <2>3
  <2>15. \A i \in 1..n : r.sources[i].head # 0 => low <= r.sources[i].head
    BY <1>1, <2>3 DEF Heads
  <2>16. MergeStep(r) = [r EXCEPT !.due = due]
    BY <1>2, <1>4 DEF due
  <2> QED
    BY <2>8, <2>13, <2>14, <2>15, <2>16
<1> QED
  BY <1>3, <1>4

-----------------------------------------------------------------------------
(* Types *)

Typed(r) == r \in RangeState /\ r.due \in Seq(1..Len(r.sources))

(* The parts of a query. *)
LEMMA TypedParts ==
    ASSUME NEW r, Typed(r)
    PROVE  /\ r.from \in {0} \cup Keys /\ r.to \in {0} \cup Keys
           /\ r.limit \in Nat
           /\ r.sources \in Seq(Source) /\ Len(r.sources) \in Nat
           /\ DOMAIN r.sources = 1..Len(r.sources)
           /\ \A i \in 1..Len(r.sources) :
                  /\ r.sources[i] \in Source
                  /\ r.sources[i].data \in Table
                  /\ r.sources[i].at \in {0} \cup Keys
                  /\ r.sources[i].head \in {0} \cup Keys
           /\ Len(r.due) \in Nat
           /\ \A n \in 1..Len(r.due) : r.due[n] \in 1..Len(r.sources)
           /\ r.out \in Seq(Keys \X Values) /\ Len(r.out) \in Nat
           /\ DOMAIN r.out = 1..Len(r.out)
           /\ r.want \in Seq(Keys \X Values)
<1>1. /\ r.from \in {0} \cup Keys /\ r.to \in {0} \cup Keys
      /\ r.limit \in {0} \cup Limits
      /\ r.sources \in Seq(Source) /\ r.due \in Seq(1..Len(r.sources))
      /\ r.out \in Seq(Keys \X Values) /\ r.want \in Seq(Keys \X Values)
  BY DEF Typed, RangeState
<1>2. ASSUME NEW s \in Source
      PROVE  /\ s.data \in Table /\ s.at \in {0} \cup Keys
             /\ s.head \in {0} \cup Keys
  BY DEF Source
<1>3. r.limit \in Nat
  <2>1. \A l \in {0} \cup Limits : l \in Nat
    BY RangeAssumption
  <2>2. r.limit \in {0} \cup Limits
    BY <1>1
  <2> QED
    BY <2>1, <2>2
<1>4. /\ Len(r.sources) \in Nat /\ DOMAIN r.sources = 1..Len(r.sources)
      /\ \A i \in 1..Len(r.sources) : r.sources[i] \in Source
  BY <1>1
<1>5. /\ Len(r.due) \in Nat
      /\ \A n \in 1..Len(r.due) : r.due[n] \in 1..Len(r.sources)
  BY <1>1
<1>6. Len(r.out) \in Nat /\ DOMAIN r.out = 1..Len(r.out)
  BY <1>1
<1> QED
  BY <1>1, <1>2, <1>3, <1>4, <1>5, <1>6

(* What a query that has ended keeps. *)
LEMMA EndIs ==
    ASSUME NEW r, Typed(r), NEW st \in {"done", "failed"}
    PROVE  /\ Typed(End(r, st)) /\ End(r, st).st = st
           /\ End(r, st).out = r.out /\ End(r, st).want = r.want
           /\ End(r, st).limit = r.limit
<1>1. << >> \in Seq(Source) /\ << >> \in Seq(Nat) /\ << >> \in Seq(1..0)
      /\ Len(<< >>) = 0
  OBVIOUS
<1>2. /\ End(r, st) \in RangeState
      /\ End(r, st).sources = << >> /\ End(r, st).due = << >>
      /\ End(r, st).st = st /\ End(r, st).out = r.out
      /\ End(r, st).want = r.want /\ End(r, st).limit = r.limit
  BY <1>1 DEF End, Typed, RangeState
<1> QED
  BY <1>1, <1>2 DEF Typed

(* A new list of sources to advance. *)
LEMMA DueIs ==
    ASSUME NEW r, Typed(r), NEW due \in Seq(1..Len(r.sources))
    PROVE  LET q == [r EXCEPT !.due = due]
           IN  /\ Typed(q) /\ q.due = due /\ q.sources = r.sources
               /\ q.st = r.st /\ q.from = r.from /\ q.to = r.to
               /\ q.limit = r.limit /\ q.out = r.out /\ q.want = r.want
<1> DEFINE q == [r EXCEPT !.due = due]
<1>1. due \in Seq(Nat)
  <2>1. Len(r.sources) \in Nat
    BY TypedParts
  <2> QED
    BY <2>1
<1>2. /\ q \in RangeState /\ q.due = due /\ q.sources = r.sources
      /\ q.st = r.st /\ q.from = r.from /\ q.to = r.to
      /\ q.limit = r.limit /\ q.out = r.out /\ q.want = r.want
  BY <1>1 DEF Typed, RangeState
<1> QED
  BY <1>2 DEF Typed

(* The next round is one of the same query. *)
LEMMA MergeStepType ==
    ASSUME NEW r, Typed(r)
    PROVE  Typed(MergeStep(r))
<1>1. r \in RangeState
  BY DEF Typed
<1>2. CASE MergeStep(r) = End(r, "done")
  BY <1>2, EndIs
<1>3. ASSUME NEW due \in Seq(1..Len(r.sources)),
             MergeStep(r) = [r EXCEPT !.due = due]
      PROVE  Typed(MergeStep(r))
  <2>1. Typed([r EXCEPT !.due = due])
    BY DueIs
  <2> QED
    BY <1>3, <2>1, Zenon
<1> QED
  BY <1>1, <1>2, <1>3, MergeStepIs

(* reader.iterate delivers the next key between the bounds. *)
LEMMA NextEntryIs ==
    ASSUME Typed(range), NEW s \in Source
    PROVE  LET t == NextEntry(s)
           IN  /\ t \in Source /\ t.data = s.data
               /\ t.head # 0 =>
                      /\ s.at < t.head /\ t.at = t.head
                      /\ Holds(s.data, range.from, range.to, t.head)
               /\ \A k \in Keys :
                      /\ Holds(s.data, range.from, range.to, k)
                      /\ s.at < k
                      => t.head # 0 /\ t.head <= k
<1> DEFINE from == range.from
           to == range.to
           left == {k \in Keys : k > s.at
                                 /\ InRange(s.data, from, to)[k] # Absent}
           Lowest(k) == \A j \in left : k <= j
           next == IF left = {} THEN 0 ELSE CHOOSE k \in left : Lowest(k)
<1>1. NextEntry(s) = [s EXCEPT !.at = IF next = 0 THEN @ ELSE next,
                               !.head = next]
  BY DEF NextEntry
<1>2. ASSUME NEW k \in Keys
      PROVE  InRange(s.data, from, to)[k] # Absent
             <=> Holds(s.data, from, to, k)
  <2>1. InRange(s.data, from, to)[k]
        = IF from <= k /\ k <= to THEN s.data[k] ELSE Absent
    BY DEF InRange
  <2>2. CASE from <= k /\ k <= to
    BY <2>1, <2>2 DEF Holds
  <2>3. CASE ~ (from <= k /\ k <= to)
    BY <2>1, <2>3 DEF Holds
  <2> QED
    BY <2>2, <2>3
<1>3. \A k \in Keys : k \in Nat /\ k # 0
  BY RangeAssumption
<1>4. s.at \in Nat /\ s.data \in Table
  BY <1>3 DEF Source
<1>5. \A k \in Keys : k \in left <=> s.at < k /\ Holds(s.data, from, to, k)
  BY <1>2, <1>3, <1>4
<1>6. left \in SUBSET Keys /\ left \in SUBSET Nat
  BY <1>3
<1>7. /\ left = {} => next = 0
      /\ left # {} => next \in left /\ Lowest(next)
  <2>1. ASSUME left # {} PROVE \E k \in left : Lowest(k)
    <3> HIDE DEF left
    <3> QED
      BY <1>6, <2>1, LeastNumber
  <2> HIDE DEF left, Lowest
  <2> QED
    BY <2>1
<1> HIDE DEF left, next
<1>8. next \in {0} \cup Keys /\ (next = 0 <=> left = {})
  BY <1>3, <1>6, <1>7
<1> DEFINE t == NextEntry(s)
<1>9. /\ t \in Source /\ t.data = s.data /\ t.head = next
      /\ next # 0 => t.at = next
  BY <1>1, <1>8 DEF Source
<1> HIDE DEF t
<1>10. t.head # 0 => s.at < t.head /\ Holds(s.data, from, to, t.head)
  BY <1>5, <1>6, <1>7, <1>8, <1>9
<1>11. ASSUME NEW k \in Keys, Holds(s.data, from, to, k), s.at < k
       PROVE  t.head # 0 /\ t.head <= k
  BY <1>5, <1>7, <1>8, <1>9, <1>11
<1> QED
  BY <1>9, <1>10, <1>11 DEF t

-----------------------------------------------------------------------------
(* The merge *)

(* Source s waits with key b in the heap, or at its beginning (0).         *)
Here(r, s, b) ==
    /\ s.at = b /\ s.head = b
    /\ b # 0 => Holds(s.data, r.from, r.to, b)

(* Source s has its first key behind b in the heap, if it has one.         *)
Past(r, s, b) ==
    /\ s.head # 0 => /\ b < s.head /\ s.at = s.head
                     /\ Holds(s.data, r.from, r.to, s.head)
    /\ \A k \in Keys : Holds(s.data, r.from, r.to, k) /\ b < k
                       => s.head # 0 /\ s.head <= k

IsDue(r, i) == \E n \in 1..Len(r.due) : r.due[n] = i

(* A round merges key b, or fills the heap (0): the sources that are due   *)
(* wait with it, the others are behind it, no source before the last of    *)
(* the round has it, and what lies before it has been yielded.             *)
Round(r, b) ==
    /\ Len(r.due) >= 1
    /\ \A m, n \in 1..Len(r.due) : r.due[m] = r.due[n] => m = n
    /\ \A i \in 1..Len(r.sources) :
           /\ IsDue(r, i) => Here(r, r.sources[i], b)
           /\ ~ IsDue(r, i) => Past(r, r.sources[i], b)
    /\ b # 0 => \A j \in 1..Len(r.sources) :
                    j < r.due[Len(r.due)] => r.sources[j].data[b] = Absent
    /\ Yielded(r, b)
    /\ r.limit > 0 => Len(r.out) < r.limit

Good(r) ==
    /\ Len(r.out) <= Len(r.want)
    /\ \A i \in 1..Len(r.out) : r.out[i] = r.want[i]
    /\ r.st = "done" => \/ r.out = r.want
                        \/ r.limit > 0 /\ Len(r.out) = r.limit
    /\ r.st = "reading" => \E b \in {0} \cup Keys : Round(r, b)

(* A key with a value is held by a source. *)
LEMMA LiveHeld ==
    ASSUME NEW r, Typed(r), NEW k \in Live(r)
    PROVE  /\ k \in Keys
           /\ \E i \in 1..Len(r.sources) :
                  Holds(r.sources[i].data, r.from, r.to, k)
<1>1. /\ Len(r.sources) \in Nat
      /\ DOMAIN r.sources = 1..Len(r.sources)
  BY TypedParts
<1>2. /\ k \in Keys /\ r.from <= k /\ k <= r.to
      /\ Answer(r.sources)[k] # Null
  BY DEF Live, LiveKeys
<1>3. PICK e : Finds(r.sources, k, e)
  BY <1>1, FindsSome
<1>4. FirstWins(SSTableData(r.sources))[k] = e
  BY <1>1, <1>2, <1>3, FindsFirst
<1>5. e # Absent
  <2>1. Resolve(e) # Null
    BY <1>2, <1>4 DEF Answer
  <2> QED
    BY <2>1, DataAssumption DEF Resolve
<1>6. PICK i \in 1..Len(r.sources) : r.sources[i].data[k] = e
  BY <1>3, <1>5 DEF Finds
<1>7. Holds(r.sources[i].data, r.from, r.to, k)
  BY <1>2, <1>5, <1>6 DEF Holds
<1> QED
  BY <1>2, <1>7

(* When every source is behind b and everything up to b has been yielded,  *)
(* the next round begins, or nothing is missing.                           *)
LEMMA MergeStepGood ==
    ASSUME NEW r, Typed(r), r.st = "reading", NEW b \in {0} \cup Keys,
           \A i \in 1..Len(r.sources) : Past(r, r.sources[i], b),
           Yielded(r, b + 1), r.limit > 0 => Len(r.out) < r.limit
    PROVE  Good(MergeStep(r))
<1> DEFINE n == Len(r.sources)
<1>1. /\ n \in Nat
      /\ \A i \in 1..n : r.sources[i].head \in {0} \cup Keys
      /\ r.out \in Seq(Keys \X Values) /\ r.want \in Seq(Keys \X Values)
  BY TypedParts
<1>2. \A k \in Keys : k \in Nat /\ k # 0
  BY RangeAssumption
<1>3. b \in Nat /\ b + 1 \in Nat
  BY <1>2
<1>4. /\ Len(r.out) <= Len(r.want)
      /\ \A i \in 1..Len(r.out) : r.out[i] = r.want[i]
  BY DEF Yielded
<1>5. CASE /\ \A i \in 1..n : r.sources[i].head = 0
           /\ MergeStep(r) = End(r, "done")
  <2>1. ASSUME NEW k \in Live(r) PROVE k < b + 1
    <3>1. PICK i \in 1..n : Holds(r.sources[i].data, r.from, r.to, k)
      BY LiveHeld
    <3>2. k \in Keys /\ k \in Nat
      BY <1>2, LiveHeld
    <3>3. ~ (b < k)
      BY <1>5, <3>1, <3>2 DEF Past
    <3> QED
      BY <1>3, <3>2, <3>3
  <2>2. r.out = r.want
    BY <1>1, <1>3, <2>1, YieldAll
  <2>3. LET q == End(r, "done")
        IN  q.st = "done" /\ q.out = r.out /\ q.want = r.want
    BY EndIs
  <2> QED
    BY <1>4, <1>5, <2>2, <2>3 DEF Good
<1>6. ASSUME NEW low \in Keys, NEW due \in Seq(1..n), DueFor(r, due, low),
             \A i \in 1..n : r.sources[i].head # 0
                             => low <= r.sources[i].head,
             MergeStep(r) = [r EXCEPT !.due = due]
      PROVE  Good(MergeStep(r))
  <2> DEFINE q == [r EXCEPT !.due = due]
             last == due[Len(due)]
  <2>1. /\ q.due = due /\ q.sources = r.sources
        /\ q.st = "reading" /\ q.from = r.from /\ q.to = r.to
        /\ q.limit = r.limit /\ q.out = r.out /\ q.want = r.want
    BY DueIs
  <2> HIDE DEF q
  <2>2. /\ Len(due) \in Nat /\ Len(due) >= 1
        /\ \A i, j \in 1..Len(due) : due[i] = due[j] => i = j
        /\ \A i \in 1..n : r.sources[i].head = low <=> IsDue(q, i)
        /\ \A i \in 1..n : r.sources[i].head = low => last <= i
    BY <1>6, <2>1 DEF DueFor, IsDue
  <2>3. last \in 1..n /\ r.sources[last].head = low
    <3>1. Len(due) \in 1..Len(due)
      BY <2>2
    <3>2. last \in 1..n
      BY <3>1
    <3>3. IsDue(q, last)
      BY <2>1, <3>1 DEF IsDue
    <3> QED
      BY <2>2, <3>2, <3>3
  <2>4. low \in Nat /\ low # 0
    BY <1>2
  <2>5. b < low /\ r.from <= low /\ low <= r.to
    BY <2>3, <2>4 DEF Past, Holds
  <2>6. ASSUME NEW i \in 1..n, IsDue(q, i)
        PROVE  Here(q, q.sources[i], low)
    BY <2>1, <2>2, <2>4, <2>6 DEF Past, Here
  <2>7. ASSUME NEW i \in 1..n, ~ IsDue(q, i)
        PROVE  Past(q, q.sources[i], low)
    <3> DEFINE s == r.sources[i]
    <3>1. s.head # low /\ s.head \in {0} \cup Keys
      BY <1>1, <2>2, <2>7
    <3>2. ASSUME s.head # 0
          PROVE  /\ low < s.head /\ s.at = s.head
                 /\ Holds(s.data, r.from, r.to, s.head)
      <4>1. low <= s.head /\ s.head \in Nat
        BY <1>2, <1>6, <3>1, <3>2
      <4>2. low < s.head
        BY <2>4, <3>1, <4>1
      <4> QED
        BY <3>2, <4>2 DEF Past
    <3>3. ASSUME NEW k \in Keys, Holds(s.data, r.from, r.to, k), low < k
          PROVE  s.head # 0 /\ s.head <= k
      <4>1. k \in Nat /\ b < low /\ low < k
        BY <1>2, <2>5, <3>3
      <4>2. b < k
        BY <1>3, <2>4, <4>1
      <4> QED
        BY <3>3, <4>2 DEF Past
    <3> QED
      BY <2>1, <3>2, <3>3 DEF Past
  <2>8. ASSUME NEW j \in 1..n, j < last PROVE r.sources[j].data[low] = Absent
    <3> SUFFICES ASSUME r.sources[j].data[low] # Absent PROVE FALSE
      OBVIOUS
    <3>1. Holds(r.sources[j].data, r.from, r.to, low)
      BY <2>5 DEF Holds
    <3>2. r.sources[j].head # 0 /\ r.sources[j].head <= low
      BY <2>5, <3>1 DEF Past
    <3>3. low <= r.sources[j].head /\ r.sources[j].head \in Nat
      BY <1>1, <1>2, <1>6, <3>2
    <3>4. r.sources[j].head = low
      BY <2>4, <3>2, <3>3
    <3> QED
      BY <2>2, <2>3, <2>8, <3>4
  <2>9. Yielded(q, low)
    <3>1. SameQuery(q, r)
      BY <2>1 DEF SameQuery
    <3>2. ASSUME NEW k \in Live(r), b + 1 <= k, k < low PROVE FALSE
      <4>1. PICK i \in 1..n : Holds(r.sources[i].data, r.from, r.to, k)
        BY LiveHeld
      <4>2. k \in Keys /\ k \in Nat
        BY <1>2, LiveHeld
      <4>3. b < k
        BY <1>3, <3>2, <4>2
      <4>4. r.sources[i].head # 0 /\ r.sources[i].head <= k
        BY <4>1, <4>2, <4>3 DEF Past
      <4>5. low <= r.sources[i].head /\ r.sources[i].head \in Nat
        BY <1>1, <1>2, <1>6, <4>4
      <4> QED
        BY <2>4, <3>2, <4>2, <4>4, <4>5
    <3>3. b + 1 <= low
      BY <1>3, <2>4, <2>5
    <3> QED
      BY <1>3, <2>1, <2>4, <3>1, <3>2, <3>3, YieldSkip
  <2>10. Round(q, low)
    BY <2>1, <2>2, <2>6, <2>7, <2>8, <2>9 DEF Round
  <2> QED
    BY <1>4, <1>6, <2>1, <2>10 DEF Good, q
<1>7. r \in RangeState
  BY DEF Typed
<1> QED
  BY <1>5, <1>6, <1>7, MergeStepIs

-----------------------------------------------------------------------------
(* One await of a query *)

Moved(r, i, t) == [r EXCEPT !.sources[i] = t, !.due = Tail(@)]

(* q is r after the await of source i, which is t then.                    *)
IsMoved(q, r, i, t) ==
    /\ Typed(q) /\ SameQuery(q, r) /\ q.st = r.st /\ q.out = r.out
    /\ Len(q.sources) = Len(r.sources) /\ q.sources[i] = t
    /\ \A j \in 1..Len(r.sources) : j # i => q.sources[j] = r.sources[j]
    /\ Len(q.due) = Len(r.due) - 1
    /\ \A n \in 1..(Len(r.due) - 1) : q.due[n] = r.due[n + 1]

(* An await replaces one source and leaves the question as it is.          *)
LEMMA MovedIs ==
    ASSUME NEW r, Typed(r), NEW i \in 1..Len(r.sources), Len(r.due) >= 1,
           NEW t \in Source, t.data = r.sources[i].data,
           NEW q, q = Moved(r, i, t)
    PROVE  IsMoved(q, r, i, t)
<1> DEFINE n == Len(r.sources)
           sources == [r.sources EXCEPT ![i] = t]
<1>1. /\ r.sources \in Seq(Source) /\ n \in Nat /\ DOMAIN r.sources = 1..n
      /\ r.due \in Seq(1..n)
  BY TypedParts DEF Typed
<1>2. /\ sources \in Seq(Source) /\ Len(sources) = n
      /\ DOMAIN sources = 1..n /\ sources[i] = t
      /\ \A j \in 1..n : j # i => sources[j] = r.sources[j]
  BY <1>1
<1>3. /\ Tail(r.due) \in Seq(1..n) /\ Len(Tail(r.due)) = Len(r.due) - 1
      /\ \A m \in 1..(Len(r.due) - 1) : Tail(r.due)[m] = r.due[m + 1]
  <2> DEFINE d == r.due
  <2>1. d \in Seq(1..n) /\ Len(d) >= 1
    BY <1>1
  <2> HIDE DEF d, n
  <2>2. /\ Tail(d) \in Seq(1..n) /\ Len(Tail(d)) = Len(d) - 1
        /\ \A m \in 1..(Len(d) - 1) : Tail(d)[m] = d[m + 1]
    BY <2>1
  <2> QED
    BY <2>2 DEF d
<1>4. Tail(r.due) \in Seq(Nat)
  BY <1>1, <1>3
<1> HIDE DEF sources
<1>5. q = [r EXCEPT !.sources = sources, !.due = Tail(r.due)]
  BY DEF Typed, RangeState, Moved, sources
<1>6. /\ q \in RangeState /\ q.sources = sources /\ q.due = Tail(r.due)
      /\ q.st = r.st /\ q.from = r.from /\ q.to = r.to
      /\ q.limit = r.limit /\ q.out = r.out /\ q.want = r.want
  BY <1>2, <1>4, <1>5 DEF Typed, RangeState
<1>7. SSTableData(q.sources) = SSTableData(r.sources)
  <2>1. \A j \in 1..n : sources[j].data = r.sources[j].data
    BY <1>2
  <2> QED
    BY <1>1, <1>2, <1>6, <2>1 DEF SSTableData
<1>8. Typed(q) /\ SameQuery(q, r)
  BY <1>2, <1>3, <1>6, <1>7 DEF Typed, SameQuery
<1> QED
  BY <1>2, <1>3, <1>6, <1>8 DEF IsMoved

(* A pair is yielded. *)
LEMMA OutIs ==
    ASSUME NEW r, Typed(r), NEW out \in Seq(Keys \X Values)
    PROVE  LET q == [r EXCEPT !.out = out]
           IN  /\ Typed(q) /\ q.out = out /\ q.sources = r.sources
               /\ q.st = r.st /\ q.due = r.due
               /\ q.from = r.from /\ q.to = r.to
               /\ q.limit = r.limit /\ q.want = r.want
<1> DEFINE q == [r EXCEPT !.out = out]
<1>1. /\ q \in RangeState /\ q.out = out /\ q.sources = r.sources
      /\ q.st = r.st /\ q.due = r.due /\ q.from = r.from /\ q.to = r.to
      /\ q.limit = r.limit /\ q.want = r.want
  BY DEF Typed, RangeState
<1> QED
  BY <1>1 DEF Typed

(* The winner of a round holds what the query answers for its key.         *)
LEMMA WinnerAnswers ==
    ASSUME NEW r, Typed(r), NEW b \in Keys, Round(r, b), Len(r.due) = 1,
           NEW s, s = r.sources[r.due[1]]
    PROVE  /\ s.head = b /\ Answer(r.sources)[b] = Resolve(s.data[b])
           /\ b \in Live(r) <=> s.data[b] # Tombstone
           /\ b \in Live(r) => s.data[b] \in Values
                               /\ Answer(r.sources)[b] = s.data[b]
<1> DEFINE w == r.due[1]
<1>1. /\ Len(r.sources) \in Nat /\ DOMAIN r.sources = 1..Len(r.sources)
      /\ w \in 1..Len(r.sources) /\ s.data \in Table
  BY TypedParts
<1>2. b # 0
  BY RangeAssumption
<1>3. Here(r, s, b)
  <2>1. IsDue(r, w)
    BY DEF IsDue
  <2> QED
    BY <1>1, <2>1 DEF Round
<1>4. /\ s.head = b /\ r.from <= b /\ b <= r.to /\ s.data[b] # Absent
  BY <1>2, <1>3 DEF Here, Holds
<1>5. Finds(r.sources, b, s.data[b])
  BY <1>1, <1>2, <1>4 DEF Round, Finds
<1>6. Answer(r.sources)[b] = Resolve(s.data[b])
  BY <1>1, <1>5, FindsFirst DEF Answer
<1>7. s.data[b] \in Values \/ s.data[b] = Tombstone
  BY <1>1, <1>4 DEF Table, Entry
<1>8. b \in Live(r) <=> Answer(r.sources)[b] # Null
  BY <1>4 DEF Live, LiveKeys
<1> QED
  BY <1>4, <1>6, <1>7, <1>8, DataAssumption DEF Resolve

(* An await leaves the query in order. *)
LEMMA RangeAdvanceGood ==
    ASSUME Typed(range), Good(range), RangeAdvance
    PROVE  Typed(range') /\ Good(range')
<1> DEFINE r == range
           n == Len(r.sources)
           k == Len(r.due)
           i == Head(r.due)
           s == r.sources[i]
           t == NextEntry(s)
           moved == [r EXCEPT !.sources[i] = t, !.due = Tail(@)]
           live == s.head # 0 /\ s.data[s.head] # Tombstone
           out == IF live THEN Append(r.out, <<s.head, s.data[s.head]>>)
                  ELSE r.out
           q == [moved EXCEPT !.out = out]
<1>1. /\ r.st = "reading"
      /\ \/ r' = End(r, "failed")
         \/ k > 1 /\ r' = moved
         \/ /\ k = 1
            /\ r' = IF live /\ r.limit > 0 /\ Len(out) >= r.limit
                    THEN End(q, "done") ELSE MergeStep(q)
  BY DEF RangeAdvance
<1>2. CASE r' = End(r, "failed")
  BY <1>2, EndIs DEF Good
<1>3. PICK b \in {0} \cup Keys : Round(r, b)
  BY <1>1 DEF Good
<1>4. /\ r.sources \in Seq(Source) /\ n \in Nat
      /\ DOMAIN r.sources = 1..n
      /\ \A j \in 1..n : r.sources[j] \in Source
      /\ k \in Nat
      /\ \A m \in 1..k : r.due[m] \in 1..n
      /\ r.out \in Seq(Keys \X Values) /\ Len(r.out) \in Nat
      /\ DOMAIN r.out = 1..Len(r.out)
      /\ r.limit \in Nat
  BY TypedParts
<1>5. k >= 1
  BY <1>3 DEF Round
<1>6. i = r.due[1] /\ i \in 1..n /\ 1 \in 1..k
  <2>1. r.due \in Seq(1..n)
    BY DEF Typed
  <2>2. i = r.due[1]
    BY <1>5, <2>1
  <2>3. 1 \in 1..k
    BY <1>4, <1>5
  <2> QED
    BY <1>4, <2>2, <2>3
<1>7. s \in Source /\ Here(r, s, b)
  <2>1. IsDue(r, i)
    BY <1>6 DEF IsDue
  <2> QED
    BY <1>3, <1>4, <1>6, <2>1 DEF Round
<1>8. t \in Source /\ t.data = s.data /\ Past(r, t, b)
  BY <1>7, NextEntryIs DEF Here, Past
<1>9. /\ Typed(moved) /\ SameQuery(moved, r) /\ moved.st = r.st
      /\ moved.out = r.out /\ Len(moved.sources) = n /\ moved.sources[i] = t
      /\ \A j \in 1..n : j # i => moved.sources[j] = r.sources[j]
      /\ Len(moved.due) = k - 1
      /\ \A m \in 1..(k - 1) : moved.due[m] = r.due[m + 1]
  <2>1. moved = Moved(r, i, t)
    BY DEF Moved
  <2>2. t.data = r.sources[i].data
    BY <1>8
  <2>3. Typed(r) /\ i \in 1..n /\ k >= 1 /\ t \in Source
    BY <1>5, <1>6, <1>8
  <2> HIDE DEF moved, t, i
  <2> QED
    <3>1. IsMoved(moved, r, i, t)
      BY <2>1, <2>2, <2>3, MovedIs, SMT
    <3> QED
      BY <3>1 DEF IsMoved
<1> HIDE DEF moved, t, i
<1>10. /\ moved.from = r.from /\ moved.to = r.to /\ moved.limit = r.limit
       /\ moved.want = r.want
  BY <1>9 DEF SameQuery
<1>11. ASSUME NEW j \in 1..n, j = i \/ ~ IsDue(r, j)
       PROVE  Past(moved, moved.sources[j], b)
  <2>1. Past(r, moved.sources[j], b)
    BY <1>3, <1>8, <1>9, <1>11 DEF Round
  <2> QED
    BY <1>10, <2>1 DEF Past
<1>12. CASE k > 1 /\ r' = moved
  <2>1. \A m, o \in 1..(k - 1) : moved.due[m] = moved.due[o] => m = o
    <3> SUFFICES ASSUME NEW m \in 1..(k - 1), NEW o \in 1..(k - 1),
                        moved.due[m] = moved.due[o]
                 PROVE  m = o
      OBVIOUS
    <3>1. m + 1 \in 1..k /\ o + 1 \in 1..k
      BY <1>4
    <3>2. m + 1 = o + 1
      BY <1>3, <1>9, <3>1 DEF Round
    <3> QED
      BY <3>2
  <2>2. ASSUME NEW j \in 1..n
        PROVE  IsDue(moved, j) <=> IsDue(r, j) /\ j # i
    <3>1. ASSUME IsDue(moved, j) PROVE IsDue(r, j) /\ j # i
      <4>1. PICK m \in 1..(k - 1) : r.due[m + 1] = j
        BY <1>9, <3>1 DEF IsDue
      <4>2. m + 1 \in 1..k /\ m + 1 # 1
        BY <1>4
      <4>3. IsDue(r, j)
        BY <4>1, <4>2 DEF IsDue
      <4>4. j # i
        BY <1>3, <1>6, <4>1, <4>2 DEF Round
      <4> QED
        BY <4>3, <4>4
    <3>2. ASSUME IsDue(r, j), j # i PROVE IsDue(moved, j)
      <4>1. PICK m \in 1..k : r.due[m] = j
        BY <3>2 DEF IsDue
      <4>2. m # 1
        BY <1>6, <3>2, <4>1
      <4>3. m - 1 \in 1..(k - 1) /\ (m - 1) + 1 = m
        BY <1>4, <4>2
      <4>4. moved.due[m - 1] = j
        BY <1>9, <4>1, <4>3
      <4> QED
        BY <1>9, <4>3, <4>4 DEF IsDue
    <3> QED
      BY <3>1, <3>2
  <2>3. ASSUME NEW j \in 1..n, IsDue(moved, j)
        PROVE  Here(moved, moved.sources[j], b)
    <3>1. Here(r, moved.sources[j], b)
      BY <1>3, <1>9, <2>2, <2>3 DEF Round
    <3> QED
      BY <1>10, <3>1 DEF Here
  <2>4. ASSUME NEW j \in 1..n, ~ IsDue(moved, j)
        PROVE  Past(moved, moved.sources[j], b)
    BY <1>11, <2>2, <2>4
  <2>5. moved.due[k - 1] = r.due[k]
    <3>1. k - 1 \in 1..(k - 1) /\ (k - 1) + 1 = k
      BY <1>4, <1>12
    <3> QED
      BY <1>9, <3>1
  <2>6. ASSUME NEW j \in 1..n, b # 0, j < r.due[k]
        PROVE  moved.sources[j].data[b] = Absent
    <3>1. r.sources[j].data[b] = Absent
      BY <1>3, <2>6 DEF Round
    <3>2. moved.sources[j].data = r.sources[j].data
      BY <1>8, <1>9
    <3> QED
      BY <3>1, <3>2
  <2>7. Yielded(moved, b)
    <3>1. b \in Nat /\ b <= b
      BY RangeAssumption
    <3>2. \A l \in Live(r) : ~ (b <= l /\ l < b)
      <4> SUFFICES ASSUME NEW l \in Live(r), b <= l, l < b PROVE FALSE
        OBVIOUS
      <4>1. l \in Keys
        BY LiveHeld
      <4>2. l \in Nat
        BY <4>1, RangeAssumption
      <4> QED
        BY <3>1, <4>2
    <3> QED
      BY <1>3, <1>9, <3>1, <3>2, YieldSkip DEF Round
  <2>8. moved.limit > 0 => Len(moved.out) < moved.limit
    BY <1>3, <1>9, <1>10 DEF Round
  <2>9. k - 1 >= 1
    BY <1>4, <1>12
  <2>10. Round(moved, b)
    BY <1>9, <2>1, <2>3, <2>4, <2>5, <2>6, <2>7, <2>8, <2>9 DEF Round
  <2>11. /\ Len(moved.out) <= Len(moved.want)
         /\ \A m \in 1..Len(moved.out) : moved.out[m] = moved.want[m]
    BY <2>7 DEF Yielded
  <2> QED
    BY <1>1, <1>9, <1>12, <2>10, <2>11 DEF Good
<1>13. CASE /\ k = 1
            /\ r' = IF live /\ r.limit > 0 /\ Len(out) >= r.limit
                    THEN End(q, "done") ELSE MergeStep(q)
  <2>1. \A j \in 1..n : Past(moved, moved.sources[j], b)
    <3> SUFFICES ASSUME NEW j \in 1..n, IsDue(r, j) PROVE j = i
      BY <1>11
    <3>1. PICK m \in 1..k : r.due[m] = j
      BY DEF IsDue
    <3>2. m = 1
      BY <1>13, <3>1
    <3> QED
      BY <1>6, <3>1, <3>2
  <2>2. s.head = b
    BY <1>7 DEF Here
  <2>3. b \in Nat /\ b + 1 \in Nat /\ b <= b + 1
    BY RangeAssumption
  <2>4. s = r.sources[r.due[1]]
    BY <1>6
  <2> HIDE DEF s
  <2>5. ASSUME live
        PROVE  /\ b \in Live(r) /\ Answer(r.sources)[b] = s.data[b]
               /\ b \in Keys /\ s.data[b] \in Values
    <3>1. b \in Keys /\ s.data[b] # Tombstone
      BY <2>2, <2>5
    <3>2. Typed(r) /\ Round(r, b) /\ Len(r.due) = 1
      BY <1>3, <1>13
    <3> QED
      BY <2>4, <3>1, <3>2, WinnerAnswers
  <2>6. ASSUME ~ live PROVE b \notin Live(r)
    <3>1. CASE b = 0
      <4>1. 0 \notin Keys
        BY RangeAssumption
      <4> QED
        BY <3>1, <4>1, LiveHeld
    <3>2. CASE b # 0
      <4>1. b \in Keys /\ s.data[b] = Tombstone
        BY <2>2, <2>6, <3>2
      <4> QED
        BY <1>3, <1>13, <2>4, <4>1, WinnerAnswers
    <3> QED
      BY <3>1, <3>2
  <2> DEFINE pair == <<s.head, s.data[s.head]>>
  <2>7. ASSUME live
        PROVE  /\ out \in Seq(Keys \X Values) /\ Len(out) = Len(r.out) + 1
               /\ \A m \in 1..Len(r.out) : out[m] = r.out[m]
               /\ out[Len(r.out) + 1] = <<b, Answer(r.sources)[b]>>
    <3>1. pair \in Keys \X Values /\ pair = <<b, Answer(r.sources)[b]>>
      BY <2>2, <2>5, <2>7
    <3>2. out = Append(r.out, pair)
      BY <2>7
    <3> HIDE DEF out, pair
    <3> QED
      BY <1>4, <3>1, <3>2
  <2>8. ASSUME ~ live PROVE out = r.out
    BY <2>8
  <2> HIDE DEF out, live
  <2>9. out \in Seq(Keys \X Values)
    BY <1>4, <2>7, <2>8
  <2>10. /\ Typed(q) /\ q.out = out /\ q.sources = moved.sources
         /\ q.st = "reading" /\ q.from = r.from /\ q.to = r.to
         /\ q.limit = r.limit /\ q.want = r.want
    <3>1. /\ Typed(q) /\ q.out = out /\ q.sources = moved.sources
          /\ q.st = moved.st /\ q.from = moved.from /\ q.to = moved.to
          /\ q.limit = moved.limit /\ q.want = moved.want
      BY <1>9, <2>9, OutIs, ZenonT(60)
    <3> QED
      BY <1>1, <1>9, <1>10, <3>1
  <2> HIDE DEF q
  <2>11. SameQuery(q, r)
    BY <1>9, <2>10 DEF SameQuery
  <2>12. Yielded(r, b)
    BY <1>3 DEF Round
  <2>13. Yielded(q, b + 1)
    <3>1. CASE live
      <4>1. /\ Len(q.out) = Len(r.out) + 1
            /\ \A m \in 1..Len(r.out) : q.out[m] = r.out[m]
            /\ q.out[Len(r.out) + 1] = <<b, Answer(r.sources)[b]>>
        BY <2>7, <2>10, <3>1
      <4>2. b \in Live(r)
        BY <2>5, <3>1
      <4> QED
        BY <1>4, <2>11, <2>12, <4>1, <4>2, YieldNext
    <3>2. CASE ~ live
      <4>1. ASSUME NEW l \in Live(r), b <= l, l < b + 1 PROVE FALSE
        <5>1. l \in Keys
          BY LiveHeld
        <5>2. l \in Nat
          BY <5>1, RangeAssumption
        <5>3. l = b
          BY <2>3, <4>1, <5>2
        <5> QED
          BY <2>6, <3>2, <5>3
      <4>2. q.out = r.out
        BY <2>8, <2>10, <3>2
      <4> QED
        BY <2>3, <2>11, <2>12, <4>1, <4>2, YieldSkip
    <3> QED
      BY <3>1, <3>2
  <2>14. \A j \in 1..Len(q.sources) : Past(q, q.sources[j], b)
    <3>1. ASSUME NEW j \in 1..n PROVE Past(q, q.sources[j], b)
      <4>1. Past(moved, moved.sources[j], b)
        BY <2>1
      <4> QED
        BY <1>10, <2>10, <4>1 DEF Past
    <3> QED
      BY <1>9, <2>10, <3>1
  <2>15. CASE live /\ r.limit > 0 /\ Len(out) >= r.limit
    <3>1. Len(q.out) = r.limit
      <4>1. Len(r.out) < r.limit
        BY <1>3, <2>15 DEF Round
      <4>2. Len(out) = Len(r.out) + 1
        BY <2>7, <2>15
      <4> QED
        BY <1>4, <2>10, <2>15, <4>1, <4>2
    <3>2. r' = End(q, "done")
      BY <1>13, <2>15
    <3>3. LET e == End(q, "done")
          IN  /\ Typed(e) /\ e.st = "done" /\ e.out = q.out
              /\ e.want = q.want /\ e.limit = q.limit
      BY <2>10, EndIs
    <3>4. /\ Len(q.out) <= Len(q.want)
          /\ \A m \in 1..Len(q.out) : q.out[m] = q.want[m]
      BY <2>13 DEF Yielded
    <3> QED
      BY <2>10, <2>15, <3>1, <3>2, <3>3, <3>4 DEF Good
  <2>16. CASE ~ (live /\ r.limit > 0 /\ Len(out) >= r.limit)
    <3>1. r' = MergeStep(q)
      BY <1>13, <2>16
    <3>2. ASSUME q.limit > 0 PROVE Len(q.out) < q.limit
      <4>1. CASE live
        <5>1. Len(out) = Len(r.out) + 1
          BY <2>7, <4>1
        <5> QED
          BY <1>4, <2>10, <2>16, <3>2, <4>1, <5>1
      <4>2. CASE ~ live
        BY <1>3, <2>8, <2>10, <3>2, <4>2 DEF Round
      <4> QED
        BY <4>1, <4>2
    <3>3. Good(MergeStep(q)) /\ Typed(MergeStep(q))
      BY <2>10, <2>13, <2>14, <3>2, MergeStepGood, MergeStepType
    <3> QED
      BY <3>1, <3>3
  <2> QED
    BY <2>15, <2>16
<1> QED
  BY <1>1, <1>2, <1>12, <1>13

-----------------------------------------------------------------------------
(* The beginning of a query *)

(* The elements at some positions of a list. *)
LEMMA AtType ==
    ASSUME NEW X, NEW all \in Seq(X), NEW S \in SUBSET (1..Len(all))
    PROVE  At(all, S) \in Seq(X)
<1> DEFINE n == Cardinality(S)
           order == Ascending(S)
<1>1. Len(all) \in Nat /\ \A i \in 1..Len(all) : all[i] \in X
  OBVIOUS
<1>2. n \in Nat /\ order \in [1..n -> S]
  BY <1>1, PositionSets, AscendingLists
<1>3. At(all, S) = [i \in 1..n |-> all[order[i]]]
  BY DEF At
<1> HIDE DEF n, order
<1>4. \A i \in 1..n : order[i] \in 1..Len(all)
  BY <1>2
<1>5. At(all, S) \in [1..n -> X]
  BY <1>1, <1>3, <1>4
<1> QED
  BY <1>2, <1>5

(* The sources of a query answer between its bounds what the store holds.  *)
LEMMA SourcesAnswer ==
    ASSUME TypeOK, up, ReadLatest, NEW from \in Keys, NEW to \in Keys,
           NEW S, S = {i \in DOMAIN Layers(from, to) :
                          Overlaps(Layers(from, to)[i].data, from, to)}
    PROVE  LET sources == At(Layers(from, to), S)
           IN  /\ sources \in Seq(Source)
               /\ \A i \in 1..Len(sources) :
                      sources[i].at = 0 /\ sources[i].head = 0
               /\ \A k \in Keys : from <= k /\ k <= to =>
                      /\ latest[k] = Answer(sources)[k]
                      /\ latest[k] # Null => sources # << >>
<1> DEFINE all == Layers(from, to)
           sources == At(all, S)
<1>1. /\ all \in Seq(Source) /\ Len(all) \in Nat
      /\ DOMAIN all = 1..Len(all)
      /\ \A i \in 1..Len(all) : all[i].at = 0 /\ all[i].head = 0
  BY LayersAre
<1>2. S = {i \in 1..Len(all) : Overlaps(all[i].data, from, to)}
  BY <1>1
<1>3. S \in SUBSET (1..Len(all))
  BY <1>2
<1> HIDE DEF all
<1> DEFINE Fresh == {s \in Source : s.at = 0 /\ s.head = 0}
<1>4. sources \in Seq(Fresh)
  <2>1. all \in Seq(Fresh)
    BY <1>1
  <2> HIDE DEF Fresh
  <2> QED
    BY <1>3, <2>1, AtType
<1>5. /\ sources \in Seq(Source) /\ Len(sources) \in Nat
      /\ DOMAIN sources = 1..Len(sources)
      /\ \A i \in 1..Len(sources) : sources[i].at = 0 /\ sources[i].head = 0
  <2> HIDE DEF sources
  <2> QED
    BY <1>4
<1>6. ASSUME NEW k \in Keys, from <= k, k <= to
      PROVE  /\ latest[k] = Answer(sources)[k]
             /\ latest[k] # Null => sources # << >>
  <2>1. PICK e : Finds(all, k, e) /\ Resolve(e) = View[k]
    BY <1>6, LayersFind DEF all
  <2>2. \A i \in 1..Len(all) : all[i].data[k] # Absent => i \in S
    BY <1>2, <1>6 DEF Overlaps
  <2>3. Finds(sources, k, e)
    BY <1>1, <1>3, <2>1, <2>2, AtFinds
  <2> HIDE DEF sources
  <2>4. Answer(sources)[k] = Resolve(e)
    BY <1>5, <2>3, FindsFirst DEF Answer
  <2>5. latest[k] = Answer(sources)[k]
    BY <2>1, <2>4 DEF ReadLatest
  <2>6. ASSUME latest[k] # Null PROVE sources # << >>
    <3>1. e # Absent
      BY <2>4, <2>5, <2>6, DataAssumption DEF Resolve
    <3>2. 1..Len(sources) # {}
      BY <2>3, <3>1 DEF Finds
    <3> QED
      BY <1>5, <3>2
  <2> QED
    BY <2>5, <2>6
<1> QED
  BY <1>5, <1>6 DEF all

(* A query starts in order. *)
LEMMA RangeStartGood ==
    ASSUME TypeOK, ReadLatest,
           NEW from \in Keys, NEW to \in Keys, NEW limit \in Limits,
           RangeStart(from, to, limit)
    PROVE  Typed(range') /\ Good(range')
<1> DEFINE all == Layers(from, to)
           S == {i \in DOMAIN all : Overlaps(all[i].data, from, to)}
           sources == At(all, S)
           n == Len(sources)
           due == [i \in DOMAIN sources |-> i]
           want == Pairs(latest, from, to)
           r == [IdleRange EXCEPT
                   !.st = "reading", !.from = from, !.to = to, !.limit = limit,
                   !.sources = sources, !.due = due, !.want = want]
<1>1. up /\ range' = IF from > to \/ sources = << >> THEN End(r, "done")
                     ELSE r
  BY DEF RangeStart
<1>2. /\ sources \in Seq(Source)
      /\ \A i \in 1..n : sources[i].at = 0 /\ sources[i].head = 0
      /\ \A k \in Keys : from <= k /\ k <= to =>
             /\ latest[k] = Answer(sources)[k]
             /\ latest[k] # Null => sources # << >>
  BY <1>1, SourcesAnswer
<1>3. \A k \in Keys : k \in Nat /\ k # 0
  BY RangeAssumption
<1>4. want \in Seq(Keys \X Values)
  BY PairsType DEF TypeOK
<1>5. want = Pairs(Answer(sources), from, to)
  BY <1>2, PairsSame
<1>6. from > to \/ sources = << >> => want = << >>
  <2>1. ASSUME from > to \/ sources = << >>
        PROVE  LiveKeys(latest, from, to) = {}
    <3> SUFFICES ASSUME NEW k \in LiveKeys(latest, from, to) PROVE FALSE
      OBVIOUS
    <3>1. k \in Keys /\ from <= k /\ k <= to /\ latest[k] # Null
      BY DEF LiveKeys
    <3>2. ~ (from > to)
      BY <1>3, <3>1
    <3> QED
      BY <1>2, <2>1, <3>1, <3>2
  <2>2. Len(want) = Cardinality(LiveKeys(latest, from, to))
    BY PairsAre
  <2>3. LiveKeys(latest, from, to) = {} => Len(want) = 0
    BY <2>2, FS_EmptySet
  <2> HIDE DEF want
  <2> QED
    BY <1>4, <2>1, <2>3
<1> HIDE DEF sources, want
<1>7. n \in Nat /\ DOMAIN sources = 1..n
  BY <1>2
<1>8. /\ due \in Seq(1..n) /\ due \in Seq(Nat) /\ Len(due) = n
      /\ \A i \in 1..n : due[i] = i
  <2>1. due = [i \in 1..n |-> i]
    BY <1>7
  <2> HIDE DEF due, n
  <2> QED
    BY <1>7, <2>1
<1> HIDE DEF due
<1>9. /\ r \in RangeState /\ r.st = "reading" /\ r.from = from /\ r.to = to
      /\ r.limit = limit /\ r.sources = sources /\ r.due = due
      /\ r.out = << >> /\ r.want = want
  <2>1. << >> \in Seq(Keys \X Values)
    OBVIOUS
  <2> QED
    BY <1>2, <1>4, <1>8, <2>1 DEF IdleRange, RangeState
<1> HIDE DEF r
<1>10. Typed(r)
  BY <1>8, <1>9 DEF Typed
<1>11. Len(r.out) = 0 /\ Len(want) \in Nat
  BY <1>4, <1>9
<1>12. CASE from > to \/ sources = << >>
  <2>1. LET e == End(r, "done")
        IN  Typed(e) /\ e.st = "done" /\ e.out = r.out /\ e.want = r.want
    BY <1>10, EndIs
  <2>2. r.out = r.want
    BY <1>6, <1>9, <1>12
  <2>3. range' = End(r, "done")
    BY <1>1, <1>12
  <2> QED
    BY <1>11, <2>1, <2>2, <2>3 DEF Good
<1>13. CASE ~ (from > to \/ sources = << >>)
  <2>1. range' = r
    BY <1>1, <1>13
  <2>2. n >= 1
    BY <1>2, <1>7, <1>13
  <2>3. ASSUME NEW i \in 1..n PROVE IsDue(r, i) /\ Here(r, r.sources[i], 0)
    <3>1. r.sources[i].at = 0 /\ r.sources[i].head = 0
      BY <1>2, <1>9
    <3> QED
      BY <1>8, <1>9, <3>1 DEF IsDue, Here
  <2>4. Yielded(r, 0)
    <3>1. r.want = Pairs(Answer(r.sources), r.from, r.to)
      BY <1>5, <1>9
    <3>2. LET order == Ascending(Live(r))
          IN  \A i \in 1..Len(r.want) : order[i] \in Nat
      <4>1. Live(r) \in SUBSET Nat /\ IsFiniteSet(Live(r))
            /\ Len(r.want) = Cardinality(Live(r))
        BY <3>1, PairsAre DEF Live
      <4> QED
        BY <4>1, AscendingLists
    <3>3. \A i \in 1..Len(r.want) :
              i <= Len(r.out) <=> Ascending(Live(r))[i] < 0
      BY <1>11, <3>2
    <3> QED
      BY <1>9, <1>11, <3>1, <3>3 DEF Yielded
  <2>5. \A i, j \in 1..Len(r.due) : r.due[i] = r.due[j] => i = j
    BY <1>8, <1>9
  <2>6. r.limit > 0 => Len(r.out) < r.limit
    BY <1>11
  <2>7. Round(r, 0)
    BY <1>8, <1>9, <2>2, <2>3, <2>4, <2>5, <2>6 DEF Round
  <2>8. /\ Len(r.out) <= Len(r.want)
        /\ \A i \in 1..Len(r.out) : r.out[i] = r.want[i]
    BY <2>4 DEF Yielded
  <2> QED
    BY <1>9, <1>10, <2>1, <2>7, <2>8 DEF Good
<1> QED
  BY <1>12, <1>13

-----------------------------------------------------------------------------
(* The theorems *)

(* A query that does not run is in order. *)
LEMMA IdleGood == Typed(IdleRange) /\ Good(IdleRange)
<1>1. /\ << >> \in Seq(Source) /\ << >> \in Seq(Nat) /\ << >> \in Seq(1..0)
      /\ << >> \in Seq(Keys \X Values) /\ Len(<< >>) = 0
  OBVIOUS
<1> QED
  BY <1>1 DEF IdleRange, Typed, RangeState, Good

(* Every step leaves the query in order. *)
LEMMA RangeNextGood ==
    ASSUME TypeOK, ReadLatest, Typed(range), Good(range),
           [RangeNext]_rangeVars
    PROVE  Typed(range') /\ Good(range')
<1>1. CASE StoreStep
  BY <1>1, IdleGood DEF StoreStep
<1>2. CASE \E q \in Queries, limit \in Limits : RangeStart(q[1], q[2], limit)
  <2>1. PICK q \in Queries, limit \in Limits : RangeStart(q[1], q[2], limit)
    BY <1>2
  <2>2. q[1] \in Keys /\ q[2] \in Keys
    <3>1. Queries \subseteq Keys \X Keys
      BY RangeAssumption
    <3> QED
      BY <3>1
  <2> QED
    BY <2>1, <2>2, RangeStartGood
<1>3. CASE RangeAdvance
  BY <1>3, RangeAdvanceGood
<1>4. CASE UNCHANGED rangeVars
  BY <1>4 DEF rangeVars
<1> QED
  BY <1>1, <1>2, <1>3, <1>4 DEF RangeNext

(* What surrounds a query is the store as it is without queries. *)
LEMMA RangeIsStore == RangeSpec => Spec
<1>1. RangeInit => Init
  BY DEF RangeInit
<1>2. [RangeNext]_rangeVars => [Next]_vars
  BY DEF RangeNext, StoreStep, RangeStart, RangeAdvance, rangeVars
<1> QED
  BY <1>1, <1>2, PTL DEF RangeSpec, Spec

RangeInv == Typed(range) /\ Good(range) /\ ranges \in Nat

(* As long as the store answers every get with the last acknowledged       *)
(* write, its query is in order.                                           *)
LEMMA RangesInOrder == RangeSpec /\ []ReadLatest => []RangeInv
<1>1. RangeInit => RangeInv
  BY IdleGood DEF RangeInit, RangeInv
<1>2. TypeOK /\ ReadLatest /\ RangeInv /\ [RangeNext]_rangeVars => RangeInv'
  <2> SUFFICES ASSUME TypeOK, ReadLatest, RangeInv, [RangeNext]_rangeVars
               PROVE  RangeInv'
    OBVIOUS
  <2>1. ranges' \in Nat
    <3>1. ranges \in Nat
      BY DEF RangeInv
    <3>2. ranges' = ranges \/ ranges' = ranges + 1
      BY DEF RangeNext, StoreStep, RangeStart, RangeAdvance, rangeVars
    <3> QED
      BY <3>1, <3>2
  <2> QED
    BY <2>1, RangeNextGood DEF RangeInv
<1> QED
  BY <1>1, <1>2, RangeIsStore, TypeCorrect, PTL DEF RangeSpec

(* A range query on a store that answers every get with the last           *)
(* acknowledged write answers as of the moment it was called: the merge in *)
(* iterate yields the newest entry of every key between the bounds, in     *)
(* order, each once and no tombstone, whatever is written, flushed and     *)
(* compacted while it awaits its sources.                                  *)
THEOREM RangesFollowReads ==
    RangeSpec /\ []ReadLatest => []RangeReturnsSnapshot
<1>1. RangeInv => RangeReturnsSnapshot
  <2> SUFFICES ASSUME Typed(range), Good(range) PROVE RangeReturnsSnapshot
    BY DEF RangeInv
  <2> DEFINE o == range.out
             w == range.want
  <2>1. o \in Seq(Keys \X Values) /\ w \in Seq(Keys \X Values)
    BY TypedParts
  <2>2. Len(o) <= Len(w) /\ \A i \in 1..Len(o) : o[i] = w[i]
    BY DEF Good
  <2> HIDE DEF o, w
  <2>3. o = SubSeq(w, 1, Len(o))
    <3> DEFINE p == SubSeq(w, 1, Len(o))
    <3>1. /\ p \in Seq(Keys \X Values) /\ Len(p) = Len(o)
          /\ \A i \in 1..Len(o) : p[i] = w[i]
      BY <2>1, <2>2
    <3> HIDE DEF p
    <3>2. \A i \in 1..Len(o) : o[i] = p[i]
      BY <2>2, <3>1
    <3>3. o = p
      BY <2>1, <3>1, <3>2, SeqEqual, Zenon
    <3> QED
      BY <3>3 DEF p
  <2> QED
    BY <2>2, <2>3 DEF Good, RangeReturnsSnapshot, o, w
<1> QED
  BY <1>1, RangesInOrder, PTL

(* In a store that only flushes, and in one that only compacts, a range    *)
(* query answers as of the moment it was called.                           *)
THEOREM RangesReturnSnapshots ==
    ASSUME FlushOnly \/ CompactOnly
    PROVE  RangeSpec => []RangeReturnsSnapshot
<1>1. CASE FlushOnly
  BY <1>1, FlushKeepsReads, RangeIsStore, RangesFollowReads, PTL
<1>2. CASE CompactOnly
  BY <1>2, CompactionKeepsReads, RangeIsStore, RangesFollowReads, PTL
<1> QED
  BY <1>1, <1>2

(* In the same stores the parts of a query keep their types, and a round   *)
(* only names sources there are.                                           *)
THEOREM RangeTypeCorrect ==
    ASSUME FlushOnly \/ CompactOnly
    PROVE  RangeSpec => []RangeTypeOK
<1>1. RangeInv => RangeTypeOK
  <2> SUFFICES ASSUME RangeInv PROVE RangeTypeOK
    OBVIOUS
  <2>1. range \in RangeState /\ ranges \in Nat
    BY DEF RangeInv, Typed
  <2>2. range.due \in Seq(1..Len(range.sources))
    BY DEF RangeInv, Typed
  <2>3. DOMAIN range.sources = 1..Len(range.sources)
    BY TypedParts DEF RangeInv
  <2>4. \A n \in DOMAIN range.due : range.due[n] \in DOMAIN range.sources
    BY <2>2, <2>3
  <2> QED
    BY <2>1, <2>4 DEF RangeTypeOK
<1>2. CASE FlushOnly
  BY <1>1, <1>2, FlushKeepsReads, RangeIsStore, RangesInOrder, PTL
<1>3. CASE CompactOnly
  BY <1>1, <1>3, CompactionKeepsReads, RangeIsStore, RangesInOrder, PTL
<1> QED
  BY <1>2, <1>3
=============================================================================
