---------------------------- MODULE MemTableProofs ----------------------------
(***************************************************************************)
(* The byte count of a MemTable agrees with what the table holds, for      *)
(* every number of keys, every length of keys and values, and every limit. *)
(* RealSize is a sum over the keys, so the proofs begin with what a change *)
(* of one summand does to a sum.                                           *)
(***************************************************************************)
EXTENDS MemTable, FiniteSetTheorems, WellFoundedInduction, TLAPS

-----------------------------------------------------------------------------
(* Sets of numbers *)

(* A set of numbers has a least one. *)
LEMMA LeastNumber ==
    ASSUME NEW T \in SUBSET Nat, T # {}
    PROVE  \E m \in T : \A n \in T : m <= n
<1> DEFINE R == {p \in Nat \X Nat : p[1] < p[2]}
<1>1. IsWellFoundedOn(R, Nat)
  BY NatLessThanWellFounded DEF OpToRel
<1>2. \A i, j \in Nat : i < j => <<i, j>> \in R
  OBVIOUS
<1> HIDE DEF R
<1>3. PICK m \in T : \A n \in T : ~ (<<n, m>> \in R)
  BY <1>1, WFMin
<1>4. \A n \in T : ~ (n < m)
  BY <1>2, <1>3
<1>5. \A n \in T : m <= n
  BY <1>4
<1> QED
  BY <1>5

-----------------------------------------------------------------------------
(* Sums over finite sets *)

(* The element that the fold of the library takes from s next. *)
Picked(s) == CHOOSE x \in s : TRUE

(* It leaves a set with one element less. *)
LEMMA PickedOne ==
    ASSUME NEW S, IsFiniteSet(S), NEW s \in SUBSET S
    PROVE  /\ Cardinality(s) \in Nat /\ Cardinality(s) <= Cardinality(S)
           /\ s # {} => /\ Picked(s) \in s
                        /\ s \ {Picked(s)} \in SUBSET S
                        /\ Cardinality(s \ {Picked(s)}) = Cardinality(s) - 1
           /\ Cardinality(s) = 0 <=> s = {}
<1>1. IsFiniteSet(s) /\ Cardinality(s) <= Cardinality(S)
  BY FS_Subset
<1>2. Cardinality(s) \in Nat
  BY <1>1, FS_CardinalityType
<1>3. ASSUME s # {} PROVE Picked(s) \in s
  BY <1>3 DEF Picked
<1>4. ASSUME s # {}
      PROVE  Cardinality(s \ {Picked(s)}) = Cardinality(s) - 1
  BY <1>1, <1>3, <1>4, FS_RemoveElement
<1>5. Cardinality(s) = 0 <=> s = {}
  BY <1>1, FS_EmptySet
<1> QED
  BY <1>1, <1>2, <1>3, <1>4, <1>5

(* What holds of the empty set, and of a set when it holds of what is left *)
(* of it, holds of every subset of a finite set.                           *)
LEMMA PickedInduction ==
    ASSUME NEW S, IsFiniteSet(S), NEW Good \in SUBSET (SUBSET S),
           {} \in Good,
           \A s \in SUBSET S :
               s # {} /\ s \ {Picked(s)} \in Good => s \in Good
    PROVE  Good = SUBSET S
<1> SUFFICES ASSUME NEW bad \in SUBSET S, bad \notin Good PROVE FALSE
  OBVIOUS
<1> DEFINE T == {n \in Nat : \E s \in SUBSET S :
                                s \notin Good /\ Cardinality(s) = n}
<1>1. T # {}
  <2>1. Cardinality(bad) \in T
    BY PickedOne
  <2> QED
    BY <2>1
<1>2. PICK m \in T : \A n \in T : m <= n
  <2>1. T \in SUBSET Nat
    OBVIOUS
  <2> HIDE DEF T
  <2> QED
    BY <1>1, <2>1, LeastNumber
<1>3. PICK s \in SUBSET S : s \notin Good /\ Cardinality(s) = m
  OBVIOUS
<1>4. s # {} /\ s \ {Picked(s)} \notin Good
  BY <1>3
<1>5. s \ {Picked(s)} \in SUBSET S /\ m \in Nat
      /\ Cardinality(s \ {Picked(s)}) = m - 1 /\ m - 1 \in Nat
  <2>1. /\ Cardinality(s) \in Nat /\ Cardinality(s) # 0
        /\ Cardinality(s \ {Picked(s)}) = Cardinality(s) - 1
    BY <1>4, PickedOne
  <2> QED
    BY <1>3, <2>1
<1>6. m - 1 \in T
  BY <1>4, <1>5
<1>7. m <= m - 1
  BY <1>2, <1>6
<1> QED
  BY <1>5, <1>7

(* What the fold computes for s from what it computes for less. *)
Step(f, F, s) ==
    IF s = {} THEN 0 ELSE f[Picked(s)] + F[s \ {Picked(s)}]

(* F holds the sums of f over the subsets of S. *)
Sums(S, f, F) ==
    /\ F \in [SUBSET S -> Int]
    /\ \A s \in SUBSET S : F[s] = Step(f, F, s)

(* The sums exist. *)
LEMMA SumsExist ==
    ASSUME NEW S, IsFiniteSet(S), NEW f \in [S -> Int]
    PROVE  \E F : Sums(S, f, F)
<1> DEFINE Upto(n, F) == \A s \in SUBSET S :
                            Cardinality(s) <= n => F[s] = Step(f, F, s)
           T == {n \in Nat : ~ \E F \in [SUBSET S -> Int] : Upto(n, F)}
<1>1. 0 \notin T
  <2> DEFINE F == [s \in SUBSET S |-> 0]
  <2>1. F \in [SUBSET S -> Int]
    OBVIOUS
  <2>2. ASSUME NEW s \in SUBSET S, Cardinality(s) <= 0
        PROVE  F[s] = Step(f, F, s)
    <3>1. s = {}
      <4>1. Cardinality(s) \in Nat /\ (Cardinality(s) = 0 <=> s = {})
        BY PickedOne
      <4> QED
        BY <2>2, <4>1
    <3> QED
      BY <3>1 DEF Step
  <2>3. Upto(0, F)
    BY <2>2
  <2> QED
    BY <2>1, <2>3
<1>2. ASSUME NEW n \in Nat, n \notin T PROVE n + 1 \notin T
  <2>1. PICK F \in [SUBSET S -> Int] : Upto(n, F)
    BY <1>2
  <2> DEFINE G == [s \in SUBSET S |-> IF Cardinality(s) <= n THEN F[s]
                                      ELSE Step(f, F, s)]
  <2>2. G \in [SUBSET S -> Int]
    <3>1. ASSUME NEW s \in SUBSET S PROVE Step(f, F, s) \in Int
      <4>1. s # {} => Picked(s) \in S /\ s \ {Picked(s)} \in SUBSET S
        BY PickedOne
      <4> QED
        BY <4>1 DEF Step
    <3> QED
      BY <3>1
  <2>3. ASSUME NEW s \in SUBSET S, Cardinality(s) <= n + 1
        PROVE  G[s] = Step(f, F, s)
    <3>1. CASE Cardinality(s) <= n
      BY <2>1, <3>1
    <3>2. CASE ~ (Cardinality(s) <= n)
      BY <3>2
    <3> QED
      BY <3>1, <3>2
  <2>4. ASSUME NEW s \in SUBSET S, Cardinality(s) <= n + 1
        PROVE  Step(f, F, s) = Step(f, G, s)
    <3>1. CASE s = {}
      BY <3>1 DEF Step
    <3>2. CASE s # {}
      <4>1. /\ s \ {Picked(s)} \in SUBSET S
            /\ Cardinality(s \ {Picked(s)}) <= n
        <5>1. /\ s \ {Picked(s)} \in SUBSET S
              /\ Cardinality(s) \in Nat
              /\ Cardinality(s \ {Picked(s)}) = Cardinality(s) - 1
          BY <3>2, PickedOne
        <5> QED
          BY <2>4, <5>1
      <4>2. G[s \ {Picked(s)}] = F[s \ {Picked(s)}]
        BY <4>1
      <4> QED
        BY <3>2, <4>2 DEF Step
    <3> QED
      BY <3>1, <3>2
  <2>5. Upto(n + 1, G)
    BY <2>3, <2>4
  <2> QED
    BY <2>2, <2>5
<1>3. T = {}
  <2> SUFFICES ASSUME T # {} PROVE FALSE
    OBVIOUS
  <2>1. T \in SUBSET Nat
    OBVIOUS
  <2> HIDE DEF T
  <2>2. PICK m \in T : \A n \in T : m <= n
    BY <2>1, LeastNumber
  <2>3. m \in Nat /\ m # 0
    BY <1>1, <2>1, <2>2
  <2>4. m - 1 \in Nat /\ ~ (m <= m - 1) /\ (m - 1) + 1 = m
    BY <2>3
  <2>5. m - 1 \notin T
    BY <2>2, <2>4
  <2> QED
    BY <1>2, <2>2, <2>4, <2>5
<1>4. Cardinality(S) \in Nat
  BY FS_CardinalityType
<1>5. PICK F \in [SUBSET S -> Int] : Upto(Cardinality(S), F)
  BY <1>3, <1>4
<1>6. \A s \in SUBSET S : F[s] = Step(f, F, s)
  BY <1>5, PickedOne
<1> QED
  BY <1>6 DEF Sums

(* There is one function of sums: any two agree. *)
LEMMA SumsUnique ==
    ASSUME NEW S, IsFiniteSet(S), NEW f \in [S -> Int], NEW F, NEW G,
           F = [s \in SUBSET S |-> Step(f, F, s)], Sums(S, f, G)
    PROVE  \A s \in SUBSET S : F[s] = G[s]
<1> DEFINE Good == {s \in SUBSET S : F[s] = G[s]}
<1>1. \A s \in SUBSET S : F[s] = Step(f, F, s) /\ G[s] = Step(f, G, s)
  BY DEF Sums
<1>2. {} \in Good
  BY <1>1 DEF Step
<1>3. ASSUME NEW s \in SUBSET S, s # {}, s \ {Picked(s)} \in Good
      PROVE  s \in Good
  BY <1>1, <1>3 DEF Step
<1>4. Good \in SUBSET (SUBSET S)
  OBVIOUS
<1> HIDE DEF Good
<1>5. Good = SUBSET S
  BY <1>2, <1>3, <1>4, PickedInduction
<1> QED
  BY <1>5 DEF Good

(* Changing one summand changes the sum by the difference. *)
LEMMA SumChanged ==
    ASSUME NEW S, IsFiniteSet(S), NEW f \in [S -> Int], NEW k \in S,
           NEW v \in Int, NEW F, Sums(S, f, F),
           NEW G, Sums(S, [f EXCEPT ![k] = v], G)
    PROVE  G[S] = F[S] - f[k] + v
<1> DEFINE g == [f EXCEPT ![k] = v]
           Good == {s \in SUBSET S :
                      G[s] = IF k \in s THEN F[s] - f[k] + v ELSE F[s]}
<1>1. \A s \in SUBSET S : /\ F[s] = Step(f, F, s) /\ F[s] \in Int
                          /\ G[s] = Step(g, G, s) /\ G[s] \in Int
  BY DEF Sums
<1>2. {} \in Good
  BY <1>1 DEF Step
<1>3. ASSUME NEW s \in SUBSET S, s # {}, s \ {Picked(s)} \in Good
      PROVE  s \in Good
  <2> DEFINE p == Picked(s)
             rest == s \ {p}
  <2>1. p \in s /\ p \in S /\ rest \in SUBSET S
    BY <1>3, PickedOne
  <2>2. F[s] = f[p] + F[rest] /\ G[s] = g[p] + G[rest]
    BY <1>1, <1>3 DEF Step
  <2>3. /\ k \in rest <=> k \in s /\ k # p
        /\ G[rest] = IF k \in rest THEN F[rest] - f[k] + v ELSE F[rest]
    BY <1>3, <2>1
  <2>4. g[p] = IF p = k THEN v ELSE f[p]
    BY <2>1
  <2>5. {F[rest], G[rest], f[p], f[k], g[p], v, F[s], G[s]} \subseteq Int
    BY <1>1, <2>1
  <2> HIDE DEF p, rest, g
  <2>6. G[s] = IF k \in s THEN F[s] - f[k] + v ELSE F[s]
    <3>1. CASE k = p
      BY <2>1, <2>2, <2>3, <2>4, <2>5, <3>1
    <3>2. CASE k # p /\ k \in s
      BY <2>1, <2>2, <2>3, <2>4, <2>5, <3>2
    <3>3. CASE k \notin s
      BY <2>1, <2>2, <2>3, <2>4, <2>5, <3>3
    <3> QED
      BY <3>1, <3>2, <3>3
  <2> QED
    BY <2>6
<1>4. Good \in SUBSET (SUBSET S)
  OBVIOUS
<1>5. S \in Good
  <2> HIDE DEF Good
  <2> QED
    BY <1>2, <1>3, <1>4, PickedInduction
<1> QED
  BY <1>5

(* A sum of zeros. *)
LEMMA SumOfZeros ==
    ASSUME NEW S, IsFiniteSet(S), NEW F, Sums(S, [x \in S |-> 0], F)
    PROVE  F[S] = 0
<1> DEFINE Good == {s \in SUBSET S : F[s] = 0}
           f == [x \in S |-> 0]
<1>1. \A s \in SUBSET S : F[s] = Step(f, F, s)
  BY DEF Sums
<1>2. {} \in Good
  BY <1>1 DEF Step
<1>3. ASSUME NEW s \in SUBSET S, s # {}, s \ {Picked(s)} \in Good
      PROVE  s \in Good
  <2>1. Picked(s) \in S
    BY <1>3, PickedOne
  <2> QED
    BY <1>1, <1>3, <2>1 DEF Step
<1>4. Good \in SUBSET (SUBSET S)
  OBVIOUS
<1>5. S \in Good
  <2> HIDE DEF Good
  <2> QED
    BY <1>2, <1>3, <1>4, PickedInduction
<1> QED
  BY <1>5

-----------------------------------------------------------------------------
(* What a MemTable really holds *)

Datas == [Keys -> ValueSizes \cup {0, NoEntry}]

SizesOf(d) == [k \in Keys |-> EntrySize(d[k])]

(* An entry takes some bytes, the more so if it is there. *)
LEMMA EntrySizeType ==
    ASSUME NEW n \in ValueSizes \cup {0, NoEntry}
    PROVE  EntrySize(n) \in Nat
BY MemTableAssumption DEF EntrySize, NoEntry

(* The sizes of the entries of a table are numbers. *)
LEMMA SizesOfType ==
    ASSUME NEW d \in Datas
    PROVE  SizesOf(d) \in [Keys -> Int]
<1>1. \A k \in Keys : EntrySize(d[k]) \in Int
  BY EntrySizeType DEF Datas
<1> QED
  BY <1>1 DEF SizesOf

(* The fold of the library is that sum. *)
LEMMA RealSizeSums ==
    ASSUME NEW d \in Datas
    PROVE  \E F : Sums(Keys, SizesOf(d), F) /\ RealSize(d) = F[Keys]
<1> DEFINE f == SizesOf(d)
           Fold(iter) == [s \in SUBSET Keys |->
               IF s = {} THEN 0
               ELSE EntrySize(d[CHOOSE x \in s : TRUE])
                    + iter[s \ {CHOOSE x \in s : TRUE}]]
           fold == CHOOSE iter : iter = Fold(iter)
<1>1. RealSize(d) = fold[Keys]
  BY DEF RealSize, MapThenSumSet, MapThenFoldSet
<1>2. \A s \in SUBSET Keys : s # {} =>
        f[CHOOSE x \in s : TRUE] = EntrySize(d[CHOOSE x \in s : TRUE])
  <2>1. \A s \in SUBSET Keys : s # {} => (CHOOSE x \in s : TRUE) \in Keys
    OBVIOUS
  <2> QED
    BY <2>1 DEF SizesOf
<1>3. \A iter : Fold(iter) = [s \in SUBSET Keys |-> Step(f, iter, s)]
  BY <1>2 DEF Step, Picked
<1> HIDE DEF Fold
<1>4. f \in [Keys -> Int]
  BY SizesOfType
<1>5. PICK F : Sums(Keys, f, F)
  BY <1>4, SumsExist, MemTableAssumption
<1>6. F = Fold(F)
  <2>1. F = [s \in SUBSET Keys |-> Step(f, F, s)]
    BY <1>5 DEF Sums
  <2> QED
    BY <1>3, <2>1
<1>7. fold = Fold(fold)
  BY <1>6
<1>8. fold = [s \in SUBSET Keys |-> Step(f, fold, s)]
  BY <1>3, <1>7
<1> HIDE DEF fold, f
<1>9. fold[Keys] = F[Keys]
  BY <1>4, <1>5, <1>8, SumsUnique, MemTableAssumption
<1> QED
  BY <1>1, <1>5, <1>9 DEF f

(* An empty table holds no bytes. *)
LEMMA EmptyReal == RealSize(EmptyData) = 0
<1>1. EmptyData \in Datas
  BY DEF EmptyData, Datas
<1>2. SizesOf(EmptyData) = [k \in Keys |-> 0]
  BY DEF SizesOf, EmptyData, EntrySize
<1>3. PICK F : Sums(Keys, [k \in Keys |-> 0], F)
                 /\ RealSize(EmptyData) = F[Keys]
  BY <1>1, <1>2, RealSizeSums
<1> QED
  BY <1>3, SumOfZeros, MemTableAssumption

(* Storing one entry changes the bytes held by the difference. *)
LEMMA RealChanged ==
    ASSUME NEW d \in Datas, NEW k \in Keys, NEW n \in ValueSizes \cup {0}
    PROVE  /\ [d EXCEPT ![k] = n] \in Datas
           /\ RealSize(d) \in Int
           /\ RealSize([d EXCEPT ![k] = n])
                = RealSize(d) - EntrySize(d[k]) + EntrySize(n)
<1> DEFINE e == [d EXCEPT ![k] = n]
<1>1. e \in Datas
  BY DEF Datas
<1>2. SizesOf(e) = [SizesOf(d) EXCEPT ![k] = EntrySize(n)]
  BY <1>1 DEF SizesOf, Datas
<1>3. SizesOf(d)[k] = EntrySize(d[k]) /\ EntrySize(n) \in Int
  BY EntrySizeType DEF SizesOf
<1> HIDE DEF e
<1>4. PICK F : Sums(Keys, SizesOf(d), F) /\ RealSize(d) = F[Keys]
  BY RealSizeSums
<1>5. PICK G : Sums(Keys, SizesOf(e), G) /\ RealSize(e) = G[Keys]
  BY <1>1, RealSizeSums
<1>6. G[Keys] = F[Keys] - SizesOf(d)[k] + EntrySize(n)
  <2>1. Sums(Keys, [SizesOf(d) EXCEPT ![k] = EntrySize(n)], G)
    BY <1>2, <1>5
  <2> QED
    BY <1>3, <1>4, <2>1, SizesOfType, SumChanged, MemTableAssumption
<1>7. RealSize(d) \in Int
  BY <1>4 DEF Sums
<1> QED
  BY <1>1, <1>3, <1>4, <1>5, <1>6, <1>7 DEF e

(* What a table holds beyond its count. *)
Uncounted(t) == RealSize(t.data) - t.size

MemTables == [data : Datas, size : Int]

(* put() counts what it stores and no longer counts what it replaces. *)
LEMMA PutCounts ==
    ASSUME NEW t \in MemTables, NEW k \in Keys, NEW n \in ValueSizes \cup {0}
    PROVE  Put(t, k, n) \in MemTables /\ Uncounted(Put(t, k, n)) = Uncounted(t)
<1>1. t.data \in Datas /\ t.size \in Int
  BY DEF MemTables
<1>2. EntrySize(t.data[k]) \in Int /\ EntrySize(n) \in Int
  <2>1. t.data[k] \in ValueSizes \cup {0, NoEntry}
    BY <1>1 DEF Datas
  <2> QED
    BY <2>1, EntrySizeType
<1>3. /\ [t.data EXCEPT ![k] = n] \in Datas
      /\ RealSize(t.data) \in Int
      /\ RealSize([t.data EXCEPT ![k] = n])
           = RealSize(t.data) - EntrySize(t.data[k]) + EntrySize(n)
  BY <1>1, RealChanged
<1>4. /\ Put(t, k, n).data = [t.data EXCEPT ![k] = n]
      /\ Put(t, k, n).size = t.size - EntrySize(t.data[k]) + EntrySize(n)
  BY DEF Put
<1>5. Put(t, k, n) \in MemTables
  BY <1>1, <1>2, <1>3 DEF Put, MemTables
<1> QED
  BY <1>1, <1>2, <1>3, <1>4, <1>5 DEF Uncounted

(* delete() leaves uncounted what it replaces, which put() takes off again.*)
LEMMA DeleteCounts ==
    ASSUME NEW t \in MemTables, NEW k \in Keys
    PROVE  /\ Delete(t, k) \in MemTables
           /\ Uncounted(Delete(t, k)) = Uncounted(t) + EntrySize(t.data[k])
<1> DEFINE u == [t EXCEPT !.size = @ - EntrySize(t.data[k])]
<1>1. t.data \in Datas /\ t.size \in Int
  BY DEF MemTables
<1>2. EntrySize(t.data[k]) \in Int
  <2>1. t.data[k] \in ValueSizes \cup {0, NoEntry}
    BY <1>1 DEF Datas
  <2> QED
    BY <2>1, EntrySizeType
<1>3. /\ u \in MemTables /\ u.data = t.data
      /\ u.size = t.size - EntrySize(t.data[k])
  BY <1>1, <1>2 DEF MemTables
<1>4. Delete(t, k) = Put(u, k, 0)
  BY DEF Delete
<1> HIDE DEF u
<1>5. /\ Delete(t, k) \in MemTables
      /\ Uncounted(Delete(t, k)) = Uncounted(u)
  BY <1>3, <1>4, PutCounts
<1>6. RealSize(t.data) \in Int
  <2>1. PICK F : Sums(Keys, SizesOf(t.data), F) /\ RealSize(t.data) = F[Keys]
    BY <1>1, RealSizeSums
  <2> QED
    BY <2>1 DEF Sums
<1> QED
  BY <1>1, <1>2, <1>3, <1>5, <1>6 DEF Uncounted

-----------------------------------------------------------------------------
(* The count of the active table *)

(* After a write that looked, the table is below its limit. *)
Looked == ~skipped => currentSize < SizeLimit

CountInv == TypeOK /\ SizeExact /\ NeverOvercounts /\ Looked

(* The count in terms of what is left out of it. *)
LEMMA CountUncounted ==
    ASSUME data \in Datas, currentSize \in Int
    PROVE  /\ Active \in MemTables
           /\ SizeExact <=> (~dirty => Uncounted(Active) = 0)
           /\ NeverOvercounts <=> Uncounted(Active) >= 0
<1>1. PICK F : Sums(Keys, SizesOf(data), F) /\ RealSize(data) = F[Keys]
  BY RealSizeSums
<1>2. RealSize(data) \in Int
  BY <1>1 DEF Sums
<1>3. /\ Active \in MemTables
      /\ Active.data = data /\ Active.size = currentSize
  BY DEF Active, MemTables
<1> QED
  BY <1>2, <1>3 DEF Uncounted, SizeExact, NeverOvercounts

(* A table whose count leaves nothing out stays so when it is kept, and is *)
(* replaced by an empty one when it is frozen.                             *)
LEMMA WroteCounts ==
    ASSUME CountInv, NEW t \in MemTables, NEW n \in Nat, NEW d \in BOOLEAN,
           ~d => Uncounted(t) = 0, Uncounted(t) >= 0, Wrote(t, n, d)
    PROVE  CountInv'
<1>1. t.data \in Datas /\ t.size \in Int
  BY DEF MemTables
<1>2. \/ /\ data' = t.data /\ currentSize' = t.size /\ dirty' = d
         /\ flushing' = flushing
         /\ ~skipped' => t.size < SizeLimit
      \/ /\ data' = EmptyData /\ currentSize' = 0 /\ dirty' = FALSE
         /\ flushing' = TRUE
  <2>1. CASE initialized /\ IsFull(t) /\ ~flushing
    BY <2>1 DEF Wrote, MaybeFlush
  <2>2. CASE initialized /\ ~(IsFull(t) /\ ~flushing)
    <3>1. /\ data' = t.data /\ currentSize' = t.size /\ dirty' = d
          /\ flushing' = flushing /\ skipped' = flushing
      BY <2>2 DEF Wrote, MaybeFlush
    <3>2. ~flushing => t.size < SizeLimit
      BY <1>1, <2>2, MemTableAssumption DEF IsFull
    <3> QED
      BY <3>1, <3>2
  <2>3. CASE ~initialized
    BY <2>3 DEF Wrote, Replayed
  <2> QED
    BY <2>1, <2>2, <2>3
<1>3. /\ writes' \in 0..MaxWrites /\ initialized' \in BOOLEAN
      /\ skipped' \in BOOLEAN
  <2>1. writes' \in 0..MaxWrites
    BY MemTableAssumption DEF Wrote, CountInv, TypeOK
  <2>2. initialized' \in BOOLEAN /\ skipped' \in BOOLEAN
    BY DEF Wrote, Replayed, CountInv, TypeOK
  <2> QED
    BY <2>1, <2>2
<1>4. CASE /\ data' = t.data /\ currentSize' = t.size /\ dirty' = d
           /\ flushing' = flushing /\ (~skipped' => t.size < SizeLimit)
  <2>1. PICK F : Sums(Keys, SizesOf(t.data), F) /\ RealSize(t.data) = F[Keys]
    BY <1>1, RealSizeSums
  <2>2. RealSize(t.data) \in Int
    BY <2>1 DEF Sums
  <2>3. RealSize(data') = RealSize(t.data)
    BY <1>4
  <2>4. /\ ~d => t.size = RealSize(t.data)
        /\ t.size <= RealSize(t.data)
    BY <1>1, <2>2 DEF Uncounted
  <2>5. SizeExact' /\ NeverOvercounts'
    BY <1>4, <2>3, <2>4 DEF SizeExact, NeverOvercounts
  <2>6. TypeOK' /\ Looked'
    BY <1>1, <1>3, <1>4 DEF TypeOK, CountInv, Looked, Datas
  <2> QED
    BY <2>5, <2>6 DEF CountInv
<1>5. CASE /\ data' = EmptyData /\ currentSize' = 0 /\ dirty' = FALSE
           /\ flushing' = TRUE
  <2>1. RealSize(data') = 0
    BY <1>5, EmptyReal
  <2>2. SizeExact' /\ NeverOvercounts'
    BY <1>5, <2>1 DEF SizeExact, NeverOvercounts
  <2>3. EmptyData \in Datas
    BY DEF EmptyData, Datas
  <2>4. TypeOK'
    <3>1. data' \in Datas /\ currentSize' \in Int
      BY <1>5, <2>3
    <3> QED
      BY <1>3, <1>5, <3>1 DEF TypeOK, Datas
  <2>5. Looked'
    BY <1>5, MemTableAssumption DEF Looked
  <2> QED
    BY <2>2, <2>4, <2>5 DEF CountInv
<1> QED
  BY <1>2, <1>4, <1>5

(* A new store has an empty table. *)
LEMMA InitCounts == Init => CountInv
<1> SUFFICES ASSUME Init PROVE CountInv
  OBVIOUS
<1>1. RealSize(data) = 0
  BY EmptyReal DEF Init
<1>2. SizeExact /\ NeverOvercounts
  BY <1>1 DEF Init, SizeExact, NeverOvercounts
<1>3. TypeOK
  <2>1. data \in [Keys -> ValueSizes \cup {0, NoEntry}]
    BY DEF Init, EmptyData
  <2>2. writes \in 0..MaxWrites /\ currentSize \in Int
    BY MemTableAssumption DEF Init
  <2>3. /\ initialized \in BOOLEAN /\ flushing \in BOOLEAN
        /\ skipped \in BOOLEAN /\ dirty \in BOOLEAN
    BY DEF Init
  <2> QED
    BY <2>1, <2>2, <2>3 DEF TypeOK
<1>4. Looked
  BY MemTableAssumption DEF Init, Looked
<1> QED
  BY <1>2, <1>3, <1>4 DEF CountInv

(* Every write keeps the count, and so does the rest of the store. *)
LEMMA NextCounts == CountInv /\ [Next]_vars => CountInv'
<1> SUFFICES ASSUME CountInv, [Next]_vars PROVE CountInv'
  OBVIOUS
<1>1. data \in Datas /\ currentSize \in Int /\ dirty \in BOOLEAN
  BY DEF CountInv, TypeOK, Datas
<1>2. /\ Active \in MemTables /\ Active.data = data
      /\ ~dirty => Uncounted(Active) = 0
      /\ Uncounted(Active) \in Int /\ Uncounted(Active) >= 0
  <2>1. PICK F : Sums(Keys, SizesOf(data), F) /\ RealSize(data) = F[Keys]
    BY <1>1, RealSizeSums
  <2>2. Uncounted(Active) \in Int
    BY <1>1, <2>1 DEF Sums, Uncounted, Active
  <2> QED
    BY <1>1, <2>2, CountUncounted DEF CountInv, Active
<1>3. ASSUME NEW k \in Keys, NEW n \in ValueSizes, PutOne(k, n)
      PROVE  CountInv'
  <2>1. /\ Put(Active, k, n) \in MemTables
        /\ Uncounted(Put(Active, k, n)) = Uncounted(Active)
    BY <1>2, PutCounts
  <2> QED
    BY <1>1, <1>2, <1>3, <2>1, WroteCounts DEF PutOne
<1>4. ASSUME NEW k \in Keys, DeleteOne(k) PROVE CountInv'
  <2> DEFINE t == Delete(Active, k)
             d == dirty \/ data[k] # NoEntry
  <2>1. /\ t \in MemTables
        /\ Uncounted(t) = Uncounted(Active) + EntrySize(data[k])
    BY <1>2, DeleteCounts
  <2>2. EntrySize(data[k]) \in Nat
    <3>1. data[k] \in ValueSizes \cup {0, NoEntry}
      BY <1>1 DEF Datas
    <3> QED
      BY <3>1, EntrySizeType
  <2>3. ~d => EntrySize(data[k]) = 0
    BY DEF EntrySize
  <2>4. (~d => Uncounted(t) = 0) /\ Uncounted(t) >= 0
    BY <1>2, <2>1, <2>2, <2>3
  <2>5. Wrote(t, 1, d) /\ d \in BOOLEAN
    BY <1>1, <1>4 DEF DeleteOne
  <2> HIDE DEF t, d
  <2> QED
    BY <2>1, <2>4, <2>5, WroteCounts
<1>5. ASSUME NEW k \in Keys, NEW j \in Keys,
             NEW m \in ValueSizes, NEW n \in ValueSizes,
             BatchPut(k, m, j, n)
      PROVE  CountInv'
  <2> DEFINE t == Put(Active, k, m)
  <2>1. t \in MemTables /\ Uncounted(t) = Uncounted(Active)
    BY <1>2, PutCounts
  <2>2. Wrote(Put(t, j, n), 2, dirty)
    BY <1>5 DEF BatchPut
  <2> HIDE DEF t
  <2>3. /\ Put(t, j, n) \in MemTables
        /\ Uncounted(Put(t, j, n)) = Uncounted(Active)
    BY <2>1, PutCounts
  <2> QED
    BY <1>1, <1>2, <2>2, <2>3, WroteCounts
<1>6. CASE /\ UNCHANGED <<data, currentSize, skipped, dirty, writes>>
           /\ initialized' \in BOOLEAN /\ flushing' \in BOOLEAN
  <2>1. RealSize(data') = RealSize(data)
    BY <1>6
  <2> QED
    BY <1>6, <2>1
    DEF CountInv, TypeOK, SizeExact, NeverOvercounts, Looked
<1>7. CASE Initialize \/ FlushEnds \/ Done \/ UNCHANGED vars
  <2>1. initialized \in BOOLEAN /\ flushing \in BOOLEAN
    BY DEF CountInv, TypeOK
  <2> QED
    BY <1>6, <1>7, <2>1 DEF Initialize, FlushEnds, Done, vars
<1> QED
  BY <1>3, <1>4, <1>5, <1>7 DEF Next

(* The invariant always holds. *)
LEMMA CountHolds == Spec => []CountInv
BY InitCounts, NextCounts, PTL DEF Spec

(* Until delete() meets a key the table holds, the running count equals    *)
(* the bytes held, over any sequence of puts, overwrites, batches, replay, *)
(* freezes and flushes.                                                    *)
THEOREM CountIsExact == Spec => []SizeExact
<1>1. CountInv => SizeExact
  BY DEF CountInv
<1> QED
  BY <1>1, CountHolds, PTL

(* Deletes make the count too low and never too high, so no table is       *)
(* frozen before it holds memTableSizeLimit bytes.                         *)
THEOREM CountNeverTooHigh == Spec => []NeverOvercounts
<1>1. CountInv => NeverOvercounts
  BY DEF CountInv
<1> QED
  BY <1>1, CountHolds, PTL

(* A write that finds the table full and no flush running freezes it, so   *)
(* what remains is below the limit, unless replay, a running flush or a    *)
(* delete came between (maybeFlush).                                       *)
THEOREM FullTablesFreeze == Spec => []FreezesWhenFull
<1>1. CountInv => FreezesWhenFull
  <2> SUFFICES ASSUME CountInv, ~skipped, ~dirty
               PROVE  RealSize(data) < SizeLimit
    BY DEF FreezesWhenFull
  <2> QED
    BY DEF CountInv, Looked, SizeExact
<1> QED
  BY <1>1, CountHolds, PTL
=============================================================================
