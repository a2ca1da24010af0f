------------------------ MODULE MergeIteratorProofs -------------------------
(***************************************************************************)
(* The merge yields the newest live values in key order, for every number  *)
(* of sources, all tables and every limit.                                 *)
(***************************************************************************)
EXTENDS MergeIterator, SequenceTheorems, WellFoundedInduction, TLAPS

-----------------------------------------------------------------------------
(* Induction and recursion up to a number *)

(* A set of numbers has a least one. *)
LEMMA LeastNumber ==
    ASSUME NEW T \in SUBSET Nat, T # {}
    PROVE  \E m \in T : \A n \in T : m <= n
<1> DEFINE R == {p \in Nat \X Nat : p[1] < p[2]}
<1>1. IsWellFoundedOn(R, Nat)
  BY NatLessThanWellFounded DEF OpToRel
<1>2. \A i, j \in Nat : i < j => <<i, j>> \in R
  OBVIOUS
<1> HIDE DEF R
<1>3. PICK m \in T : \A n \in T : ~ (<<n, m>> \in R)
  BY <1>1, WFMin
<1>4. \A n \in T : ~ (n < m)
  BY <1>2, <1>3
<1>5. \A n \in T : m <= n
  BY <1>4
<1> QED
  BY <1>5

(* What holds of 0, and of the next number whenever it holds of a number   *)
(* below n, holds up to n.                                                 *)
LEMMA UptoInduction ==
    ASSUME NEW n \in Nat, NEW Good, 0 \in Good,
           \A i \in 0..(n - 1) : i \in Good => i + 1 \in Good
    PROVE  0..n \subseteq Good
<1> SUFFICES ASSUME NEW bad \in 0..n, bad \notin Good PROVE FALSE
  OBVIOUS
<1> DEFINE T == {i \in 0..n : i \notin Good}
<1>1. PICK m \in T : \A i \in T : m <= i
  <2>1. T \in SUBSET Nat /\ T # {}
    OBVIOUS
  <2> HIDE DEF T
  <2> QED
    BY <2>1, LeastNumber
<1>2. m \in 0..n /\ m \notin Good /\ m # 0
  OBVIOUS
<1>3. m - 1 \in 0..(n - 1) /\ m - 1 \in 0..n /\ ~ (m <= m - 1)
      /\ (m - 1) + 1 = m
  BY <1>2
<1>4. m - 1 \in Good
  BY <1>1, <1>3
<1> QED
  BY <1>2, <1>3, <1>4

(* f is defined on 0..n by its value at 0 and the step from each value to  *)
(* the next; step[i] is the step to i.                                     *)
DefinedUpto(f, n, V, base, step) ==
    /\ f \in [0..n -> V]
    /\ f[0] = base
    /\ \A i \in 1..n : f[i] = step[i][f[i - 1]]

(* There is a function defined in this way.                                *)
LEMMA RecursionUpto ==
    ASSUME NEW n \in Nat, NEW V, NEW base \in V,
           NEW step \in [1..n -> [V -> V]]
    PROVE  \E f : DefinedUpto(f, n, V, base, step)
<1> DEFINE Defined(f, m) == /\ f[0] = base
                            /\ \A i \in 1..m : f[i] = step[i][f[i - 1]]
           Good == {m \in 0..n : \E f \in [0..n -> V] : Defined(f, m)}
<1>1. 0 \in Good
  <2> DEFINE f == [i \in 0..n |-> base]
  <2>1. f \in [0..n -> V] /\ f[0] = base /\ 0 \in 0..n
    OBVIOUS
  <2> HIDE DEF f
  <2> QED
    BY <2>1
<1>2. ASSUME NEW m \in 0..(n - 1), m \in Good PROVE m + 1 \in Good
  <2>1. PICK f \in [0..n -> V] : Defined(f, m)
    BY <1>2
  <2>2. m + 1 \in 1..n /\ m + 1 \in 0..n /\ m \in 0..n
    OBVIOUS
  <2> DEFINE next == step[m + 1][f[m]]
             g == [f EXCEPT ![m + 1] = next]
  <2>3. next \in V
    BY <2>1, <2>2
  <2>4. g \in [0..n -> V] /\ g[m + 1] = next
        /\ \A i \in 0..m : g[i] = f[i]
    BY <2>1, <2>2, <2>3
  <2> HIDE DEF g
  <2>5. ASSUME NEW i \in 1..(m + 1) PROVE g[i] = step[i][g[i - 1]]
    <3>1. i - 1 \in 0..m
      OBVIOUS
    <3>2. g[i - 1] = f[i - 1]
      BY <2>4, <3>1
    <3>3. CASE i = m + 1
      BY <2>4, <3>2, <3>3
    <3>4. CASE i \in 1..m
      <4>1. g[i] = f[i]
        BY <2>4, <3>4
      <4> QED
        BY <2>1, <3>2, <3>4, <4>1
    <3> QED
      BY <3>3, <3>4
  <2>6. g[0] = base
    BY <2>1, <2>4
  <2>7. Defined(g, m + 1)
    BY <2>5, <2>6
  <2> QED
    BY <2>2, <2>4, <2>7
<1>3. n \in Good
  <2>1. \A i \in 0..(n - 1) : i \in Good => i + 1 \in Good
    BY <1>2
  <2>2. 0..n \subseteq Good
    <3> HIDE DEF Good
    <3> QED
      BY <1>1, <2>1, UptoInduction, Zenon
  <2>3. n \in 0..n
    OBVIOUS
  <2> QED
    BY <2>2, <2>3
<1>4. PICK f \in [0..n -> V] : Defined(f, n)
  BY <1>3
<1>5. DefinedUpto(f, n, V, base, step)
  BY <1>4 DEF DefinedUpto
<1> QED
  BY <1>5

-----------------------------------------------------------------------------
(* The order of the heap *)

(* compareHeapEntries is asymmetric and, read as "not after", transitive;  *)
(* entries of two sources are never equal.                                 *)
LEMMA LessOrder ==
    ASSUME NEW a \in HeapEntry, NEW b \in HeapEntry, NEW c \in HeapEntry
    PROVE  /\ Less(a, b) => ~ Less(b, a)
           /\ ~ Less(b, a) /\ ~ Less(c, b) => ~ Less(c, a)
           /\ Less(a, b) /\ Less(b, c) => Less(a, c)
           /\ a.source # b.source => Less(a, b) \/ Less(b, a)
<1>1. /\ a.key \in Keys /\ b.key \in Keys /\ c.key \in Keys
      /\ a.source \in Nat /\ b.source \in Nat /\ c.source \in Nat
  BY DEF HeapEntry
<1>2. a.key \in Nat /\ b.key \in Nat /\ c.key \in Nat
  BY <1>1, MergeAssumption
<1> QED
  BY <1>1, <1>2 DEF Less

(* h is an array of n entries of different sources, and S is their set.    *)
Holds(h, n, S) ==
    /\ h \in [1..n -> HeapEntry]
    /\ \A i, j \in 1..n : h[i].source = h[j].source => i = j
    /\ S = {h[i] : i \in 1..n}

(* No node is before its parent; the same but for node a on its way up,    *)
(* whose children are not before its parent; and on its way down.          *)
InOrder(h, n) == \A j \in 2..n : ~ Less(h[j], h[j \div 2])

Skipped(h, n, a) ==
    a > 1 => \A j \in 2..n : j \div 2 = a => ~ Less(h[j], h[a \div 2])

UpTo(h, n, a) ==
    /\ \A j \in 2..n : j # a => ~ Less(h[j], h[j \div 2])
    /\ Skipped(h, n, a)

DownTo(h, n, a) ==
    /\ \A j \in 2..n : j \div 2 # a => ~ Less(h[j], h[j \div 2])
    /\ Skipped(h, n, a)

(* The parent of a node is a node above it. *)
LEMMA ParentOf ==
    ASSUME NEW n \in Nat, NEW j \in 2..n
    PROVE  j \div 2 \in 1..n /\ j \div 2 < j
OBVIOUS

(* A swap of two nodes moves nothing else and loses nothing. *)
LEMMA SwapHolds ==
    ASSUME NEW n \in Nat, NEW h, NEW S, Holds(h, n, S),
           NEW i \in 1..n, NEW j \in 1..n
    PROVE  /\ Holds(Swap(h, i, j), n, S)
           /\ Swap(h, i, j)[i] = h[j]
           /\ Swap(h, i, j)[j] = h[i]
           /\ \A k \in 1..n : k # i /\ k # j => Swap(h, i, j)[k] = h[k]
<1> DEFINE g == Swap(h, i, j)
<1>1. /\ g \in [1..n -> HeapEntry]
      /\ g[i] = h[j] /\ g[j] = h[i]
      /\ \A k \in 1..n : k # i /\ k # j => g[k] = h[k]
  BY DEF Swap, Holds
<1> HIDE DEF g
<1>2. \A k, l \in 1..n : g[k].source = g[l].source => k = l
  BY <1>1 DEF Holds
<1>3. S = {g[k] : k \in 1..n}
  <2>1. S = {h[k] : k \in 1..n}
    BY DEF Holds
  <2>2. ASSUME NEW k \in 1..n PROVE g[k] \in S
    <3>1. \E l \in 1..n : g[k] = h[l]
      BY <1>1
    <3> QED
      BY <2>1, <3>1
  <2>3. ASSUME NEW e \in S PROVE \E l \in 1..n : e = g[l]
    <3>1. PICK k \in 1..n : e = h[k]
      BY <2>1
    <3> QED
      BY <1>1, <3>1
  <2> QED
    BY <2>2, <2>3
<1>4. Holds(g, n, S)
  BY <1>1, <1>2, <1>3 DEF Holds
<1> QED
  BY <1>1, <1>4 DEF g

(* The length of an array. *)
LEMMA ArrayLen ==
    ASSUME NEW n \in Nat, NEW h, NEW S, Holds(h, n, S)
    PROVE  h \in Seq(HeapEntry) /\ Len(h) = n
<1>1. h \in Seq(HeapEntry) /\ DOMAIN h = 1..n
  BY SeqDef DEF Holds
<1> QED
  BY <1>1

(* A loop over a heap of n entries whose index is a node. *)
LoopOver(s, n, S) == s \in Loop /\ s.at \in 1..n /\ Holds(s.heap, n, S)

(* An array of entries is a sequence. *)
LEMMA ArrayLoop ==
    ASSUME NEW n \in Nat, NEW h, NEW S, Holds(h, n, S), NEW i \in 1..n
    PROVE  LoopOver([heap |-> h, at |-> i], n, S)
<1>1. h \in Seq(HeapEntry)
  BY ArrayLen
<1> QED
  BY <1>1 DEF LoopOver, Loop

-----------------------------------------------------------------------------
(* bubbleUp *)

RiseOK(s, n, S) == LoopOver(s, n, S) /\ UpTo(s.heap, n, s.at)

Risen(s) == s.at = 1 \/ ~ Less(s.heap[s.at], s.heap[s.at \div 2])

(* A swap with the parent leaves only the parent's place out of order. *)
LEMMA SwapUp ==
    ASSUME NEW n \in Nat, NEW h, NEW S, Holds(h, n, S),
           NEW a \in 1..n, NEW p \in 1..n, p < a, p = a \div 2,
           UpTo(h, n, a), Less(h[a], h[p])
    PROVE  UpTo(Swap(h, a, p), n, p)
<1> DEFINE g == Swap(h, a, p)
<1>1. a \in 2..n
  OBVIOUS
<1>2. /\ g[a] = h[p] /\ g[p] = h[a]
      /\ \A k \in 1..n : k # a /\ k # p => g[k] = h[k]
  BY DEF Swap, Holds
<1> HIDE DEF g
<1>3. \A k \in 1..n : h[k] \in HeapEntry
  BY DEF Holds
<1>4. \A k \in 2..n : k \div 2 \in 1..n /\ k \div 2 < k /\ k \in 1..n
  BY ParentOf
<1>5. ~ Less(h[p], h[a])
  BY <1>1, <1>3, LessOrder
<1>6. ASSUME NEW j \in 2..n, j # p PROVE ~ Less(g[j], g[j \div 2])
  <2>1. CASE j = a
    BY <1>1, <1>2, <1>5, <2>1
  <2>2. CASE j # a /\ j \div 2 = a
    <3>1. g[j] = h[j] /\ g[j \div 2] = h[p]
      BY <1>2, <1>4, <1>6, <2>2
    <3> QED
      BY <1>1, <2>2, <3>1 DEF UpTo, Skipped
  <2>3. CASE j # a /\ j \div 2 = p
    <3>1. g[j] = h[j] /\ g[j \div 2] = h[a]
      BY <1>2, <1>4, <1>6, <2>3
    <3>2. ~ Less(h[j], h[p])
      BY <2>3 DEF UpTo
    <3> QED
      BY <1>1, <1>3, <1>4, <1>5, <3>1, <3>2, LessOrder
  <2>4. CASE j # a /\ j \div 2 \notin {a, p}
    <3>1. g[j] = h[j] /\ g[j \div 2] = h[j \div 2]
      BY <1>2, <1>4, <1>6, <2>4
    <3> QED
      BY <2>4, <3>1 DEF UpTo
  <2> QED
    BY <2>1, <2>2, <2>3, <2>4
<1>7. ASSUME p > 1, NEW j \in 2..n, j \div 2 = p
      PROVE  ~ Less(g[j], g[p \div 2])
  <2>1. p \in 2..n /\ p \div 2 \in 1..n /\ p \div 2 < p
    BY <1>1, <1>4, <1>7
  <2>2. g[p \div 2] = h[p \div 2] /\ ~ Less(h[p], h[p \div 2])
    BY <1>1, <1>2, <2>1 DEF UpTo
  <2>3. CASE j = a
    BY <1>2, <2>2, <2>3
  <2>4. CASE j # a
    <3>1. g[j] = h[j] /\ ~ Less(h[j], h[p])
      BY <1>2, <1>4, <1>7, <2>4 DEF UpTo
    <3> QED
      BY <1>1, <1>3, <1>4, <2>1, <2>2, <3>1, LessOrder
  <2> QED
    BY <2>3, <2>4
<1>8. UpTo(g, n, p)
  BY <1>6, <1>7 DEF UpTo, Skipped
<1> QED
  BY <1>8 DEF g

(* A pass of the loop keeps the heap's entries and moves up unless the     *)
(* loop is over.                                                           *)
LEMMA RisePass ==
    ASSUME NEW n \in Nat, NEW s, NEW S, RiseOK(s, n, S)
    PROVE  /\ RiseOK(Rise[s], n, S)
           /\ (Risen(s) /\ Rise[s] = s) \/ Rise[s].at < s.at
<1> DEFINE p == s.at \div 2
<1>1. s \in Loop /\ s.at \in 1..n /\ Holds(s.heap, n, S)
      /\ UpTo(s.heap, n, s.at)
  BY DEF RiseOK, LoopOver
<1>2. Rise[s] = IF s.at = 1 \/ ~ Less(s.heap[s.at], s.heap[p]) THEN s
                ELSE [heap |-> Swap(s.heap, s.at, p), at |-> p]
  BY <1>1 DEF Rise
<1>3. CASE Risen(s)
  BY <1>2, <1>3 DEF Risen
<1>4. CASE ~ Risen(s)
  <2>1. s.at \in 2..n /\ Less(s.heap[s.at], s.heap[p])
    BY <1>1, <1>4 DEF Risen
  <2>2. p \in 1..n /\ p < s.at
    BY <2>1, ParentOf
  <2>3. Rise[s] = [heap |-> Swap(s.heap, s.at, p), at |-> p]
    BY <1>2, <2>1
  <2>4. Holds(Swap(s.heap, s.at, p), n, S)
    BY <1>1, <2>2, SwapHolds
  <2>5. UpTo(Swap(s.heap, s.at, p), n, p)
    BY <1>1, <2>1, <2>2, SwapUp
  <2> HIDE DEF p
  <2>6. LoopOver(Rise[s], n, S)
    BY <2>2, <2>3, <2>4, ArrayLoop
  <2> QED
    BY <2>2, <2>3, <2>5, <2>6 DEF RiseOK
<1> QED
  BY <1>3, <1>4

(* bubbleUp puts an array in order that is in order but for one node. *)
LEMMA BubbleUp ==
    ASSUME NEW n \in Nat, NEW h, NEW S, Holds(h, n, S), NEW i \in 1..n,
           UpTo(h, n, i)
    PROVE  Holds(bubbleUp(h, i), n, S) /\ InOrder(bubbleUp(h, i), n)
<1> DEFINE start == [heap |-> h, at |-> i]
           V == {s \in Loop : RiseOK(s, n, S)}
           step == [k \in 1..n |-> [s \in V |-> Rise[s]]]
           Def(f) == [k \in 0..n |-> IF k = 0 THEN start ELSE Rise[f[k - 1]]]
           after == CHOOSE f : f = Def(f)
<1>1. Len(h) = n
  BY ArrayLen
<1>2. bubbleUp(h, i) = after[n].heap
  BY <1>1 DEF bubbleUp
<1>3. RiseOK(start, n, S) /\ start \in Loop /\ start \in V
  BY ArrayLoop DEF RiseOK, LoopOver
<1>4. \A s \in V : Rise[s] \in V
  BY RisePass DEF RiseOK, LoopOver
<1> HIDE DEF V, start
<1>5. step \in [1..n -> [V -> V]]
  BY <1>4
<1>6. PICK f : DefinedUpto(f, n, V, start, step)
  <2> HIDE DEF step
  <2> QED
    BY <1>3, <1>5, RecursionUpto
<1>7. /\ f \in [0..n -> V] /\ f[0] = start
      /\ \A k \in 1..n : f[k] = step[k][f[k - 1]]
  BY <1>6 DEF DefinedUpto
<1>8. \A k \in 1..n : f[k] = Rise[f[k - 1]]
  <2> SUFFICES ASSUME NEW k \in 1..n PROVE f[k] = Rise[f[k - 1]]
    OBVIOUS
  <2>1. f[k - 1] \in V
    BY <1>7
  <2> QED
    BY <1>7, <2>1
<1>9. f = Def(f)
  BY <1>7, <1>8
<1>10. after = Def(after)
  <2> HIDE DEF Def
  <2> QED
    BY <1>9
<1> HIDE DEF after
<1>11. after[0] = start /\ \A k \in 1..n : after[k] = Rise[after[k - 1]]
  <2>1. \A k \in 0..n : after[k] = IF k = 0 THEN start
                                   ELSE Rise[after[k - 1]]
    BY <1>10
  <2> QED
    BY <2>1
<1> DEFINE Good == {k \in 0..n :
               /\ RiseOK(after[k], n, S)
               /\ Risen(after[k]) \/ after[k].at + k <= n}
<1>12. 0 \in Good
  <2>1. start.at \in 1..n
    BY <1>3 DEF RiseOK, LoopOver
  <2> QED
    BY <1>3, <1>11, <2>1
<1>13. ASSUME NEW k \in 0..(n - 1), k \in Good PROVE k + 1 \in Good
  <2> DEFINE s == after[k]
  <2>1. k + 1 \in 0..n /\ after[k + 1] = Rise[s]
    <3>1. k + 1 \in 1..n /\ (k + 1) - 1 = k
      OBVIOUS
    <3> QED
      BY <1>11, <3>1
  <2>2. RiseOK(s, n, S) /\ (Risen(s) \/ s.at + k <= n)
    BY <1>13
  <2> HIDE DEF s
  <2>3. /\ RiseOK(Rise[s], n, S)
        /\ (Risen(s) /\ Rise[s] = s) \/ Rise[s].at < s.at
    BY <2>2, RisePass
  <2>4. s.at \in 1..n /\ Rise[s].at \in 1..n
    BY <2>2, <2>3 DEF RiseOK, LoopOver
  <2>5. CASE Risen(s) /\ Rise[s] = s
    BY <2>1, <2>2, <2>5
  <2>6. CASE Rise[s].at < s.at
    <3>1. Risen(Rise[s]) \/ Rise[s].at + (k + 1) <= n
      <4>1. CASE Risen(s)
        <5>1. Rise[s] = s
          BY <2>2, <4>1 DEF Rise, Risen, RiseOK, LoopOver
        <5> QED
          BY <4>1, <5>1
      <4>2. CASE s.at + k <= n
        BY <2>4, <2>6, <4>2
      <4> QED
        BY <2>2, <4>1, <4>2
    <3> QED
      BY <2>1, <2>3, <3>1
  <2> QED
    BY <2>3, <2>5, <2>6
<1>14. n \in Good
  <2>1. 0..n \subseteq Good
    <3> HIDE DEF Good
    <3> QED
      BY <1>12, <1>13, UptoInduction, Zenon
  <2> QED
    BY <2>1
<1> DEFINE s == after[n]
<1>15. RiseOK(s, n, S) /\ (Risen(s) \/ s.at + n <= n)
  BY <1>14
<1> HIDE DEF s
<1>16. s.at \in 1..n /\ Holds(s.heap, n, S) /\ UpTo(s.heap, n, s.at)
  BY <1>15 DEF RiseOK, LoopOver
<1>17. Risen(s)
  BY <1>15, <1>16
<1>18. InOrder(s.heap, n)
  BY <1>16, <1>17 DEF InOrder, UpTo, Risen
<1> QED
  BY <1>2, <1>16, <1>18 DEF s

-----------------------------------------------------------------------------
(* bubbleDown *)

SinkOK(s, n, S) == LoopOver(s, n, S) /\ DownTo(s.heap, n, s.at)

Sunk(s) == Smallest(s.heap, s.at) = s.at

(* The smallest of a node and its children is one of them, and no child is *)
(* before it.                                                              *)
LEMMA SmallestOf ==
    ASSUME NEW n \in Nat, NEW h, NEW S, Holds(h, n, S), NEW a \in 1..n
    PROVE  /\ Smallest(h, a) \in 1..n
           /\ \/ Smallest(h, a) = a
              \/ /\ Smallest(h, a) > a
                 /\ Smallest(h, a) \div 2 = a
                 /\ Less(h[Smallest(h, a)], h[a])
           /\ \A j \in 2..n : j \div 2 = a => ~ Less(h[j], h[Smallest(h, a)])
<1> DEFINE l == 2 * a
           r == 2 * a + 1
           m == Smaller(h, a, l)
           s == Smaller(h, m, r)
<1>1. /\ Smallest(h, a) = s
      /\ m = IF l <= n /\ Less(h[l], h[a]) THEN l ELSE a
      /\ s = IF r <= n /\ Less(h[r], h[m]) THEN r ELSE m
  BY ArrayLen DEF Smallest, Smaller
<1>2. \A k \in 1..n : h[k] \in HeapEntry
  BY DEF Holds
<1>3. /\ l \in Nat /\ r \in Nat /\ l > a /\ r > a
      /\ l \div 2 = a /\ r \div 2 = a
      /\ \A j \in 2..n : j \div 2 = a => j = l \/ j = r
  OBVIOUS
<1> HIDE DEF l, r, m, s
<1>4. m \in 1..n
  BY <1>1, <1>3
<1>5. s \in 1..n
  BY <1>1, <1>3, <1>4
<1>6. l <= n => ~ Less(h[l], h[m])
  <2>1. CASE m = l
    BY <1>2, <1>4, <2>1, LessOrder
  <2>2. CASE m # l
    BY <1>1, <2>2
  <2> QED
    BY <2>1, <2>2
<1>7. m = a \/ Less(h[m], h[a])
  BY <1>1
<1>8. s = m \/ Less(h[s], h[m])
  BY <1>1
<1>9. r <= n => ~ Less(h[r], h[s])
  <2>1. CASE s = r
    BY <1>2, <1>5, <2>1, LessOrder
  <2>2. CASE s # r
    BY <1>1, <2>2
  <2> QED
    BY <2>1, <2>2
<1>10. ~ Less(h[m], h[s])
  BY <1>2, <1>4, <1>5, <1>8, LessOrder
<1>11. l <= n => ~ Less(h[l], h[s])
  <2> SUFFICES ASSUME l <= n PROVE ~ Less(h[l], h[s])
    OBVIOUS
  <2>1. l \in 1..n
    BY <1>3
  <2> QED
    BY <1>2, <1>4, <1>5, <1>6, <1>10, <2>1, LessOrder
<1>12. s = a \/ Less(h[s], h[a])
  <2> SUFFICES ASSUME s # m, m # a PROVE Less(h[s], h[a])
    BY <1>7, <1>8
  <2>1. Less(h[s], h[m]) /\ Less(h[m], h[a])
    BY <1>7, <1>8
  <2> QED
    BY <1>1, <1>2, <1>3, <1>4, <1>5, <2>1, LessOrder
<1>13. s = a \/ (s > a /\ s \div 2 = a)
  BY <1>1, <1>3
<1> QED
  BY <1>1, <1>3, <1>5, <1>9, <1>11, <1>12, <1>13

(* A swap with the smallest child leaves only the child's place out of     *)
(* order.                                                                  *)
LEMMA SwapDown ==
    ASSUME NEW n \in Nat, NEW h, NEW S, Holds(h, n, S),
           NEW a \in 1..n, NEW s \in 1..n, a < s, s \div 2 = a,
           DownTo(h, n, a), Less(h[s], h[a]),
           \A j \in 2..n : j \div 2 = a => ~ Less(h[j], h[s])
    PROVE  DownTo(Swap(h, a, s), n, s)
<1> DEFINE g == Swap(h, a, s)
<1>1. s \in 2..n
  OBVIOUS
<1>2. /\ g[a] = h[s] /\ g[s] = h[a]
      /\ \A k \in 1..n : k # a /\ k # s => g[k] = h[k]
  BY DEF Swap, Holds
<1> HIDE DEF g
<1>3. \A k \in 1..n : h[k] \in HeapEntry
  BY DEF Holds
<1>4. \A k \in 2..n : k \div 2 \in 1..n /\ k \div 2 < k /\ k \in 1..n
  BY ParentOf
<1>5. ~ Less(h[a], h[s])
  BY <1>3, LessOrder
<1>6. ASSUME NEW j \in 2..n, j \div 2 # s PROVE ~ Less(g[j], g[j \div 2])
  <2>1. CASE j = s
    BY <1>2, <1>5, <2>1
  <2>2. CASE j # s /\ j \div 2 = a
    <3>1. g[j] = h[j] /\ g[j \div 2] = h[s]
      BY <1>2, <1>4, <2>2
    <3> QED
      BY <2>2, <3>1
  <2>3. CASE j = a
    <3>1. g[j] = h[s] /\ g[j \div 2] = h[a \div 2]
      BY <1>2, <1>4, <1>6, <2>3
    <3> QED
      BY <1>1, <2>3, <3>1 DEF DownTo, Skipped
  <2>4. CASE j # s /\ j # a /\ j \div 2 # a
    <3>1. g[j] = h[j] /\ g[j \div 2] = h[j \div 2]
      BY <1>2, <1>4, <1>6, <2>4
    <3> QED
      BY <2>4, <3>1 DEF DownTo
  <2> QED
    BY <2>1, <2>2, <2>3, <2>4
<1>7. ASSUME NEW j \in 2..n, j \div 2 = s
      PROVE  ~ Less(g[j], g[s \div 2])
  <2>1. g[j] = h[j] /\ g[s \div 2] = h[s]
    BY <1>2, <1>4, <1>7
  <2> QED
    BY <1>7, <2>1 DEF DownTo
<1>8. DownTo(g, n, s)
  BY <1>6, <1>7 DEF DownTo, Skipped
<1> QED
  BY <1>8 DEF g

(* A pass of the loop keeps the heap's entries and moves down unless the   *)
(* loop is over.                                                           *)
LEMMA SinkPass ==
    ASSUME NEW n \in Nat, NEW s, NEW S, SinkOK(s, n, S)
    PROVE  /\ SinkOK(Sink[s], n, S)
           /\ (Sunk(s) /\ Sink[s] = s) \/ Sink[s].at > s.at
<1> DEFINE c == Smallest(s.heap, s.at)
<1>1. s \in Loop /\ s.at \in 1..n /\ Holds(s.heap, n, S)
      /\ DownTo(s.heap, n, s.at)
  BY DEF SinkOK, LoopOver
<1>2. Sink[s] = IF c = s.at THEN s
                ELSE [heap |-> Swap(s.heap, s.at, c), at |-> c]
  BY <1>1 DEF Sink
<1>3. CASE Sunk(s)
  BY <1>2, <1>3 DEF Sunk
<1>4. CASE ~ Sunk(s)
  <2>1. /\ c \in 1..n /\ s.at < c /\ c \div 2 = s.at
        /\ Less(s.heap[c], s.heap[s.at])
        /\ \A j \in 2..n : j \div 2 = s.at => ~ Less(s.heap[j], s.heap[c])
    BY <1>1, <1>4, SmallestOf DEF Sunk
  <2>2. Sink[s] = [heap |-> Swap(s.heap, s.at, c), at |-> c]
    BY <1>2, <2>1
  <2> HIDE DEF c
  <2>3. Holds(Swap(s.heap, s.at, c), n, S)
    BY <1>1, <2>1, SwapHolds
  <2>4. DownTo(Swap(s.heap, s.at, c), n, c)
    BY <1>1, <2>1, SwapDown
  <2>5. LoopOver(Sink[s], n, S)
    BY <2>1, <2>2, <2>3, ArrayLoop
  <2> QED
    BY <2>1, <2>2, <2>4, <2>5 DEF SinkOK
<1> QED
  BY <1>3, <1>4

(* bubbleDown puts an array in order that is in order but for one node. *)
LEMMA BubbleDown ==
    ASSUME NEW n \in Nat, NEW h, NEW S, Holds(h, n, S), NEW i \in 1..n,
           DownTo(h, n, i)
    PROVE  Holds(bubbleDown(h, i), n, S) /\ InOrder(bubbleDown(h, i), n)
<1> DEFINE start == [heap |-> h, at |-> i]
           V == {s \in Loop : SinkOK(s, n, S)}
           step == [k \in 1..n |-> [s \in V |-> Sink[s]]]
           Def(f) == [k \in 0..n |-> IF k = 0 THEN start ELSE Sink[f[k - 1]]]
           after == CHOOSE f : f = Def(f)
<1>1. Len(h) = n
  BY ArrayLen
<1>2. bubbleDown(h, i) = after[n].heap
  BY <1>1 DEF bubbleDown
<1>3. SinkOK(start, n, S) /\ start \in Loop /\ start \in V
  BY ArrayLoop DEF SinkOK, LoopOver
<1>4. \A s \in V : Sink[s] \in V
  BY SinkPass DEF SinkOK, LoopOver
<1> HIDE DEF V, start
<1>5. step \in [1..n -> [V -> V]]
  BY <1>4
<1>6. PICK f : DefinedUpto(f, n, V, start, step)
  <2> HIDE DEF step
  <2> QED
    BY <1>3, <1>5, RecursionUpto
<1>7. /\ f \in [0..n -> V] /\ f[0] = start
      /\ \A k \in 1..n : f[k] = step[k][f[k - 1]]
  BY <1>6 DEF DefinedUpto
<1>8. \A k \in 1..n : f[k] = Sink[f[k - 1]]
  <2> SUFFICES ASSUME NEW k \in 1..n PROVE f[k] = Sink[f[k - 1]]
    OBVIOUS
  <2>1. f[k - 1] \in V
    BY <1>7
  <2> QED
    BY <1>7, <2>1
<1>9. f = Def(f)
  BY <1>7, <1>8
<1>10. after = Def(after)
  <2> HIDE DEF Def
  <2> QED
    BY <1>9
<1> HIDE DEF after
<1>11. after[0] = start /\ \A k \in 1..n : after[k] = Sink[after[k - 1]]
  <2>1. \A k \in 0..n : after[k] = IF k = 0 THEN start
                                   ELSE Sink[after[k - 1]]
    BY <1>10
  <2> QED
    BY <2>1
<1> DEFINE Good == {k \in 0..n :
               /\ SinkOK(after[k], n, S)
               /\ Sunk(after[k]) \/ after[k].at >= k + 1}
<1>12. 0 \in Good
  <2>1. start.at \in 1..n
    BY <1>3 DEF SinkOK, LoopOver
  <2> QED
    BY <1>3, <1>11, <2>1
<1>13. ASSUME NEW k \in 0..(n - 1), k \in Good PROVE k + 1 \in Good
  <2> DEFINE s == after[k]
  <2>1. k + 1 \in 0..n /\ after[k + 1] = Sink[s]
    <3>1. k + 1 \in 1..n /\ (k + 1) - 1 = k
      OBVIOUS
    <3> QED
      BY <1>11, <3>1
  <2>2. SinkOK(s, n, S) /\ (Sunk(s) \/ s.at >= k + 1)
    BY <1>13
  <2> HIDE DEF s
  <2>3. /\ SinkOK(Sink[s], n, S)
        /\ (Sunk(s) /\ Sink[s] = s) \/ Sink[s].at > s.at
    BY <2>2, SinkPass
  <2>4. s.at \in 1..n /\ Sink[s].at \in 1..n
    BY <2>2, <2>3 DEF SinkOK, LoopOver
  <2>5. CASE Sunk(s) /\ Sink[s] = s
    BY <2>1, <2>2, <2>5
  <2>6. CASE Sink[s].at > s.at
    <3>1. Sunk(Sink[s]) \/ Sink[s].at >= (k + 1) + 1
      <4>1. CASE Sunk(s)
        <5>1. Sink[s] = s
          BY <2>2, <4>1 DEF Sink, Sunk, SinkOK, LoopOver
        <5> QED
          BY <4>1, <5>1
      <4>2. CASE s.at >= k + 1
        BY <2>4, <2>6, <4>2
      <4> QED
        BY <2>2, <4>1, <4>2
    <3> QED
      BY <2>1, <2>3, <3>1
  <2> QED
    BY <2>3, <2>5, <2>6
<1>14. n \in Good
  <2>1. 0..n \subseteq Good
    <3> HIDE DEF Good
    <3> QED
      BY <1>12, <1>13, UptoInduction, Zenon
  <2> QED
    BY <2>1
<1> DEFINE s == after[n]
<1>15. SinkOK(s, n, S) /\ (Sunk(s) \/ s.at >= n + 1)
  BY <1>14
<1> HIDE DEF s
<1>16. s.at \in 1..n /\ Holds(s.heap, n, S) /\ DownTo(s.heap, n, s.at)
  BY <1>15 DEF SinkOK, LoopOver
<1>17. Sunk(s)
  BY <1>15, <1>16
<1>18. InOrder(s.heap, n)
  <2>1. \A j \in 2..n : j \div 2 = s.at => ~ Less(s.heap[j], s.heap[s.at])
    BY <1>16, <1>17, SmallestOf DEF Sunk
  <2> QED
    BY <1>16, <2>1 DEF InOrder, DownTo
<1> QED
  BY <1>2, <1>16, <1>18 DEF s

-----------------------------------------------------------------------------
(* The operations of the heap *)

Items(h) == {h[i] : i \in 1..Len(h)}

(* h is a heap whose entries are S.                                        *)
HeapOf(h, S) ==
    h \in Seq(HeapEntry) /\ Holds(h, Len(h), S) /\ InOrder(h, Len(h))

(* An array of entries in order is a heap. *)
LEMMA ArrayHeap ==
    ASSUME NEW n \in Nat, NEW h, NEW S, Holds(h, n, S), InOrder(h, n)
    PROVE  HeapOf(h, S)
BY ArrayLen DEF HeapOf

(* The entries of a heap are its items, of different sources. *)
LEMMA HeapItems ==
    ASSUME NEW h, NEW S, HeapOf(h, S)
    PROVE  /\ S = Items(h)
           /\ S \subseteq HeapEntry
           /\ \A d, e \in S : d.source = e.source => d = e
           /\ S = {} <=> h = << >>
<1>1. /\ S = {h[i] : i \in 1..Len(h)}
      /\ \A i, j \in 1..Len(h) : h[i].source = h[j].source => i = j
      /\ \A i \in 1..Len(h) : h[i] \in HeapEntry
      /\ h \in Seq(HeapEntry)
  BY DEF HeapOf, Holds
<1>2. S = {} => h = << >>
  <2> SUFFICES ASSUME h # << >> PROVE h[1] \in S
    OBVIOUS
  <2>1. 1 \in 1..Len(h)
    BY <1>1
  <2> QED
    BY <1>1, <2>1
<1>3. h = << >> => S = {}
  <2> SUFFICES ASSUME h = << >>, NEW e \in S PROVE FALSE
    OBVIOUS
  <2>1. PICK i \in 1..Len(h) : e = h[i]
    BY <1>1
  <2>2. Len(h) = 0
    OBVIOUS
  <2> QED
    BY <2>1, <2>2
<1>4. \A e \in S : \E i \in 1..Len(h) : e = h[i]
  BY <1>1
<1>5. S \subseteq HeapEntry /\ \A d, e \in S : d.source = e.source => d = e
  BY <1>1, <1>4
<1>6. S = Items(h)
  BY <1>1 DEF Items
<1> QED
  BY <1>2, <1>3, <1>5, <1>6

(* The empty heap. *)
LEMMA EmptyHeap == HeapOf(<< >>, {})
<1>1. Holds(<< >>, 0, {})
  <2>1. 1..0 = {}
    OBVIOUS
  <2> QED
    BY <2>1 DEF Holds
<1>2. InOrder(<< >>, 0)
  BY DEF InOrder
<1> QED
  BY <1>1, <1>2, ArrayHeap

(* No entry is before the root. *)
LEMMA RootLeast ==
    ASSUME NEW h, NEW S, HeapOf(h, S), h # << >>
    PROVE  /\ h[1] \in S
           /\ \A e \in S : ~ Less(e, h[1])
<1> DEFINE n == Len(h)
           Bad == {j \in 1..n : Less(h[j], h[1])}
<1>1. /\ h \in Seq(HeapEntry) /\ n \in Nat /\ 1 \in 1..n
      /\ Holds(h, n, S) /\ InOrder(h, n)
  BY DEF HeapOf
<1> HIDE DEF n
<1>2. \A j \in 1..n : h[j] \in HeapEntry
  BY <1>1 DEF Holds
<1>3. Bad = {}
  <2> SUFFICES ASSUME Bad # {} PROVE FALSE
    OBVIOUS
  <2>1. Bad \in SUBSET Nat
    OBVIOUS
  <2> HIDE DEF Bad
  <2>2. PICK m \in Bad : \A j \in Bad : m <= j
    BY <2>1, LeastNumber
  <2>3. m \in 1..n /\ Less(h[m], h[1])
    BY DEF Bad
  <2>4. m # 1
    BY <1>1, <1>2, <2>3, LessOrder
  <2>5. m \in 2..n
    BY <1>1, <2>3, <2>4
  <2>6. m \div 2 \in 1..n /\ m \div 2 < m /\ ~ (m <= m \div 2)
    BY <1>1, <2>5, ParentOf
  <2>7. ~ Less(h[m \div 2], h[1])
    BY <2>2, <2>6 DEF Bad
  <2>8. ~ Less(h[m], h[m \div 2])
    BY <1>1, <2>5 DEF InOrder
  <2> QED
    BY <1>1, <1>2, <2>3, <2>6, <2>7, <2>8, LessOrder
<1> QED
  BY <1>1, <1>3 DEF Holds

(* insert adds its entry. *)
LEMMA InsertKeeps ==
    ASSUME NEW h, NEW S, HeapOf(h, S), NEW e \in HeapEntry,
           \A d \in S : d.source # e.source
    PROVE  HeapOf(Insert(h, e), S \cup {e})
<1> DEFINE n == Len(h)
           g == Append(h, e)
<1>1. /\ h \in Seq(HeapEntry) /\ n \in Nat
      /\ Holds(h, n, S) /\ InOrder(h, n)
  BY DEF HeapOf
<1>2. /\ g \in [1..(n + 1) -> HeapEntry]
      /\ g[n + 1] = e
      /\ \A i \in 1..n : g[i] = h[i]
  <2>1. /\ g \in Seq(HeapEntry) /\ Len(g) = n + 1
        /\ g[n + 1] = e /\ \A i \in 1..n : g[i] = h[i]
    BY <1>1
  <2>2. g \in [1..Len(g) -> HeapEntry]
    <3> HIDE DEF g
    <3> QED
      BY <2>1
  <2> QED
    BY <2>1, <2>2
<1>3. Insert(h, e) = bubbleUp(g, n + 1)
  BY DEF Insert
<1> HIDE DEF n, g
<1>4. \A i \in 1..(n + 1) : i \in 1..n \/ i = n + 1
  BY <1>1
<1>5. Holds(g, n + 1, S \cup {e})
  <2>1. \A i \in 1..n : h[i] \in S
    BY <1>1 DEF Holds
  <2>2. ASSUME NEW i \in 1..(n + 1), NEW j \in 1..(n + 1),
               g[i].source = g[j].source
        PROVE  i = j
    <3>1. CASE i \in 1..n /\ j \in 1..n
      BY <1>1, <1>2, <2>2, <3>1 DEF Holds
    <3>2. CASE i \in 1..n /\ j = n + 1
      BY <1>2, <2>1, <2>2, <3>2
    <3>3. CASE i = n + 1 /\ j \in 1..n
      BY <1>2, <2>1, <2>2, <3>3
    <3> QED
      BY <1>4, <3>1, <3>2, <3>3
  <2>3. S \cup {e} = {g[i] : i \in 1..(n + 1)}
    <3>1. S = {h[i] : i \in 1..n}
      BY <1>1 DEF Holds
    <3>2. \A i \in 1..n : i \in 1..(n + 1)
      BY <1>1
    <3>3. n + 1 \in 1..(n + 1)
      BY <1>1
    <3> QED
      BY <1>2, <1>4, <3>1, <3>2, <3>3
  <2> QED
    BY <1>2, <2>2, <2>3 DEF Holds
<1>6. UpTo(g, n + 1, n + 1)
  <2>1. ASSUME NEW j \in 2..(n + 1), j # n + 1
        PROVE  ~ Less(g[j], g[j \div 2])
    <3>1. j \in 2..n /\ j \in 1..n
      BY <1>1, <2>1
    <3>2. j \div 2 \in 1..n
      BY <1>1, <3>1, ParentOf
    <3> QED
      BY <1>1, <1>2, <3>1, <3>2 DEF InOrder
  <2>2. \A j \in 2..(n + 1) : j \div 2 # n + 1
    BY <1>1
  <2> QED
    BY <2>1, <2>2 DEF UpTo, Skipped
<1>7. n + 1 \in Nat /\ n + 1 \in 1..(n + 1)
  BY <1>1
<1>8. Holds(bubbleUp(g, n + 1), n + 1, S \cup {e})
      /\ InOrder(bubbleUp(g, n + 1), n + 1)
  BY <1>5, <1>6, <1>7, BubbleUp
<1> QED
  BY <1>3, <1>7, <1>8, ArrayHeap

(* extractMin takes the root away. *)
LEMMA ExtractKeeps ==
    ASSUME NEW h, NEW S, HeapOf(h, S), h # << >>
    PROVE  HeapOf(ExtractMin(h), S \ {h[1]})
<1> DEFINE n == Len(h)
<1>1. /\ h \in Seq(HeapEntry) /\ n \in Nat /\ n >= 1
      /\ Holds(h, n, S) /\ InOrder(h, n)
  BY DEF HeapOf
<1>2. S = {h[i] : i \in 1..n}
      /\ \A i, j \in 1..n : h[i] = h[j] => i = j
  BY <1>1 DEF Holds
<1>3. CASE n = 1
  <2>1. ExtractMin(h) = << >>
    BY <1>3 DEF ExtractMin
  <2>2. S \ {h[1]} = {}
    BY <1>2, <1>3
  <2> QED
    BY <2>1, <2>2, EmptyHeap
<1>4. CASE n # 1
  <2> DEFINE m == n - 1
             g == [Front(h) EXCEPT ![1] = Last(h)]
  <2>1. m \in Nat /\ 1 \in 1..m /\ n \in 1..n /\ n = m + 1
    <3> HIDE DEF n
    <3> QED
      BY <1>1, <1>4
  <2>2. Front(h) \in [1..m -> HeapEntry]
        /\ \A i \in 1..m : Front(h)[i] = h[i]
    <3>1. Front(h) = SubSeq(h, 1, m)
      BY DEF Front
    <3>2. SubSeq(h, 1, m) = [i \in 1..m |-> h[i]]
      <4> HIDE DEF m
      <4> QED
        BY <1>1, <2>1
    <3>3. \A i \in 1..m : h[i] \in HeapEntry
      BY <1>1
    <3> HIDE DEF m
    <3> QED
      BY <3>1, <3>2, <3>3
  <2>3. Last(h) = h[n] /\ h[n] \in HeapEntry
    BY <1>1, <2>1 DEF Last
  <2>4. /\ g \in [1..m -> HeapEntry]
        /\ g[1] = h[n]
        /\ \A i \in 2..m : g[i] = h[i]
    BY <2>1, <2>2, <2>3
  <2>5. ExtractMin(h) = bubbleDown(g, 1)
    BY <1>4 DEF ExtractMin
  <2> HIDE DEF m, g, n
  <2>6. \A i \in 1..n : i = 1 \/ i = n \/ i \in 2..m
    BY <2>1
  <2>7. \A i \in 1..m : i \in 1..n /\ (i = 1 \/ i \in 2..m)
    BY <2>1
  <2>8. \A i \in 2..m : i \in 1..m /\ i # 1 /\ i # n /\ i \in 1..n
    BY <2>1
  <2>9. Holds(g, m, S \ {h[1]})
    <3>1. ASSUME NEW i \in 1..m, NEW j \in 1..m, g[i].source = g[j].source
          PROVE  i = j
      <4>1. \A k, l \in 1..n : h[k].source = h[l].source => k = l
        BY <1>1 DEF Holds
      <4>2. CASE i = 1 /\ j \in 2..m
        BY <2>1, <2>4, <2>8, <3>1, <4>1, <4>2
      <4>3. CASE i \in 2..m /\ j = 1
        BY <2>1, <2>4, <2>8, <3>1, <4>1, <4>3
      <4>4. CASE i \in 2..m /\ j \in 2..m
        BY <2>4, <2>8, <3>1, <4>1, <4>4
      <4> QED
        BY <2>7, <4>2, <4>3, <4>4
    <3>2. ASSUME NEW i \in 1..m PROVE g[i] \in S \ {h[1]}
      <4>1. CASE i = 1
        <5>1. n # 1 /\ 1 \in 1..n
          BY <1>4, <2>1
        <5> QED
          BY <1>2, <2>1, <2>4, <4>1, <5>1
      <4>2. CASE i \in 2..m
        <5>1. i # 1 /\ i \in 1..n /\ 1 \in 1..n
          BY <2>1, <2>8, <4>2
        <5> QED
          BY <1>2, <2>4, <4>2, <5>1
      <4> QED
        BY <2>7, <4>1, <4>2
    <3>3. ASSUME NEW e \in S \ {h[1]} PROVE \E i \in 1..m : e = g[i]
      <4>1. PICK i \in 1..n : e = h[i]
        BY <1>2
      <4>2. i = n \/ i \in 2..m
        BY <2>6, <4>1
      <4> QED
        BY <2>1, <2>4, <2>8, <4>1, <4>2
    <3>4. S \ {h[1]} = {g[i] : i \in 1..m}
      BY <3>2, <3>3
    <3> QED
      BY <2>4, <3>1, <3>4 DEF Holds
  <2>10. DownTo(g, m, 1)
    <3>1. ASSUME NEW j \in 2..m, j \div 2 # 1
          PROVE  ~ Less(g[j], g[j \div 2])
      <4>1. j \div 2 \in 2..m /\ j \in 2..n
        BY <2>1, <3>1
      <4>2. g[j] = h[j] /\ g[j \div 2] = h[j \div 2]
        BY <2>4, <4>1
      <4> QED
        BY <1>1, <4>1, <4>2 DEF InOrder
    <3> QED
      BY <3>1 DEF DownTo, Skipped
  <2>11. Holds(bubbleDown(g, 1), m, S \ {h[1]})
         /\ InOrder(bubbleDown(g, 1), m)
    BY <2>1, <2>9, <2>10, BubbleDown
  <2> QED
    BY <2>1, <2>5, <2>11, ArrayHeap
<1> QED
  BY <1>3, <1>4

-----------------------------------------------------------------------------
(* What the sources, the heap and the winner hold between them *)

(* The keys table i of tables t delivers.                                  *)
KeysOf(t, i) == {k \in Keys : t[i][k] # Absent}

(* The entries S of the heap and W of the winner are the next ones of      *)
(* their sources, of which the first n have been advanced; src is what the *)
(* sources have still to deliver.  Source x alone has no entry out.        *)
Sound(t, S, W, src, n, x) ==
    /\ src \in [1..NumSources -> SUBSET Keys]
    /\ \A i \in 1..NumSources :
           /\ src[i] \subseteq KeysOf(t, i)
           /\ i > n => src[i] = KeysOf(t, i)
           /\ i <= n /\ i # x /\ src[i] # {} =>
                  \E e \in S \cup W : e.source = i
    /\ S \cap W = {}
    /\ \A e \in S \cup W :
           /\ e \in HeapEntry
           /\ e.source <= n /\ e.source # x
           /\ e.key \in KeysOf(t, e.source)
           /\ e.entry = t[e.source][e.key]
           /\ \A k \in src[e.source] : e.key < k
           /\ \A d \in S \cup W : d.source = e.source => d = e

(* The keys of source i that have been neither merged nor passed over.     *)
Left(P, src, i) == src[i] \cup {e.key : e \in {d \in P : d.source = i}}

(* The merge has come to key f: what is left of every source are its keys  *)
(* from f on; the winner has key f, and no newer source holds it.          *)
Reached(t, f, S, W, src) ==
    /\ \A i \in 1..NumSources :
           /\ \A k \in Left(S \cup W, src, i) : f <= k
           /\ \A k \in KeysOf(t, i) :
                  f < k \/ (f = k /\ W = {}) => k \in Left(S \cup W, src, i)
    /\ \A e \in W :
           /\ e.key = f
           /\ \A i \in 1..NumSources : i < e.source => f \notin KeysOf(t, i)

LiveIn(t) == {k \in Keys : FirstWins(t)[k] \in Values}

(* What has been yielded are the live keys below f, upwards.               *)
YieldedTo(t, f, o) ==
    /\ o \in Seq(Keys \X Values)
    /\ \A i \in DOMAIN o :
           /\ o[i] = <<o[i][1], FirstWins(t)[o[i][1]]>>
           /\ \A j \in DOMAIN o : i < j => o[i][1] < o[j][1]
    /\ {o[i][1] : i \in DOMAIN o} = {k \in LiveIn(t) : k < f}

(* The inductive invariant. *)
MergeInv ==
    /\ tables \in [1..NumSources -> Table]
    /\ limit \in Limits
    /\ initialized \in 0..NumSources
    /\ pc \in {"merge", "done", "failed"}
    /\ winner = << >> \/ \E e \in HeapEntry : winner = <<e>>
    /\ HeapOf(heap, Items(heap))
    /\ Sound(tables, Items(heap), Items(winner), sources, initialized, 0)
    /\ \E f \in Nat : /\ Reached(tables, f, Items(heap), Items(winner),
                                 sources)
                      /\ YieldedTo(tables, f, out)
    /\ limit > 0 => Len(out) <= limit /\ (pc = "merge" => Len(out) < limit)
    /\ pc = "done" => AtLimit(Len(out)) \/ Live \subseteq Yielded

(* advanceSource puts entries g of heap h and src2 of the sources src.     *)
Advanced(t, h, src, i, g, src2) ==
    IF src[i] = {} THEN g = h /\ src2 = src
    ELSE /\ g = Insert(h, [key |-> Min(src[i]), entry |-> t[i][Min(src[i])],
                           source |-> i])
         /\ src2 = [src EXCEPT ![i] = @ \ {Min(src[i])}]

(* T and src2 in place of the heap's entries S and of src leave as much.   *)
LeaveSame(T, src2, S, src, W) ==
    \A j \in 1..NumSources : Left(T \cup W, src2, j) = Left(S \cup W, src, j)

(* A source delivers the least of its keys. *)
LEMMA LeastKey ==
    ASSUME NEW T \in SUBSET Keys, T # {}
    PROVE  Min(T) \in T /\ \A k \in T : Min(T) <= k
<1>1. T \in SUBSET Nat
  BY MergeAssumption
<1>2. \E m \in T : \A k \in T : m <= k
  BY <1>1, LeastNumber
<1> QED
  BY <1>2 DEF Min

(* What advancing a source without an entry out comes to: the heap has the *)
(* source's next entry, and nothing is lost.                               *)
LEMMA AdvanceKeeps ==
    ASSUME NEW t \in [1..NumSources -> Table], NEW h, NEW S, HeapOf(h, S),
           NEW W, NEW src, NEW n \in Nat, NEW i \in 1..NumSources, i <= n,
           Sound(t, S, W, src, n, i),
           NEW g, NEW src2, Advanced(t, h, src, i, g, src2)
    PROVE  \E T : /\ HeapOf(g, T)
                  /\ Sound(t, T, W, src2, n, 0)
                  /\ LeaveSame(T, src2, S, src, W)
<1>1. src \in [1..NumSources -> SUBSET Keys] /\ src[i] \in SUBSET Keys
  BY DEF Sound
<1>2. CASE src[i] = {}
  <2>1. g = h /\ src2 = src
    BY <1>2 DEF Advanced
  <2>2. Sound(t, S, W, src, n, 0)
    <3>1. \A e \in S \cup W : e.source \in 1..NumSources /\ e.source # 0
      BY MergeAssumption DEF Sound, HeapEntry
    <3> QED
      BY <1>2, <3>1 DEF Sound
  <2> QED
    BY <2>1, <2>2 DEF LeaveSame
<1>3. CASE src[i] # {}
  <2> DEFINE m == Min(src[i])
             e0 == [key |-> m, entry |-> t[i][m], source |-> i]
             T == S \cup {e0}
  <2>1. m \in src[i] /\ \A k \in src[i] : m <= k
    BY <1>1, <1>3, LeastKey
  <2>2. g = Insert(h, e0) /\ src2 = [src EXCEPT ![i] = @ \ {m}]
    BY <1>3 DEF Advanced
  <2> HIDE DEF m
  <2>3. m \in KeysOf(t, i) /\ m \in Keys /\ t[i][m] # Absent
    BY <2>1 DEF Sound, KeysOf
  <2>4. t[i][m] \in Entry
    BY <2>3 DEF Table
  <2>5. e0 \in HeapEntry
    BY <2>3, <2>4 DEF HeapEntry
  <2>6. e0.key = m /\ e0.entry = t[i][m] /\ e0.source = i
    OBVIOUS
  <2> HIDE DEF e0
  <2>7. \A e \in S \cup W : e.source # i
    BY DEF Sound
  <2>8. HeapOf(g, T)
    BY <2>2, <2>5, <2>6, <2>7, InsertKeeps
  <2>9. /\ src2 \in [1..NumSources -> SUBSET Keys]
        /\ src2[i] = src[i] \ {m}
        /\ \A j \in 1..NumSources : j # i => src2[j] = src[j]
    BY <1>1, <2>2
  <2>10. \A k \in src[i] \ {m} : m < k
    BY <1>1, <2>1, <2>3, MergeAssumption
  <2>11. Sound(t, T, W, src2, n, 0)
    <3>1. ASSUME NEW j \in 1..NumSources
          PROVE  /\ src2[j] \subseteq KeysOf(t, j)
                 /\ j > n => src2[j] = KeysOf(t, j)
                 /\ j <= n /\ j # 0 /\ src2[j] # {} =>
                        \E e \in T \cup W : e.source = j
      <4>1. CASE j = i
        <5>1. \E e \in T \cup W : e.source = j
          BY <2>6, <4>1
        <5>2. src2[j] \subseteq KeysOf(t, j) /\ ~ (j > n)
          BY <2>9, <4>1 DEF Sound
        <5> QED
          BY <5>1, <5>2
      <4>2. CASE j # i
        BY <2>9, <4>2 DEF Sound
      <4> QED
        BY <4>1, <4>2
    <3>2. T \cap W = {}
      BY <2>6, <2>7 DEF Sound
    <3>3. ASSUME NEW e \in T \cup W
          PROVE  /\ e \in HeapEntry
                 /\ e.source <= n /\ e.source # 0
                 /\ e.key \in KeysOf(t, e.source)
                 /\ e.entry = t[e.source][e.key]
                 /\ \A k \in src2[e.source] : e.key < k
                 /\ \A d \in T \cup W : d.source = e.source => d = e
      <4>1. CASE e = e0
        <5>1. i # 0 /\ \A d \in T \cup W : d.source = i => d = e0
          BY <2>7
        <5> QED
          BY <2>3, <2>5, <2>6, <2>9, <2>10, <4>1, <5>1
      <4>2. CASE e \in S \cup W
        <5>1. /\ e \in HeapEntry
              /\ e.source <= n
              /\ e.key \in KeysOf(t, e.source)
              /\ e.entry = t[e.source][e.key]
              /\ \A k \in src[e.source] : e.key < k
              /\ \A d \in S \cup W : d.source = e.source => d = e
          BY <4>2 DEF Sound
        <5>2. e.source \in 1..NumSources /\ e.source # i
          BY <2>7, <4>2, <5>1 DEF HeapEntry
        <5>3. src2[e.source] = src[e.source] /\ e.source # 0
          BY <2>9, <5>2
        <5> QED
          BY <2>6, <5>1, <5>2, <5>3
      <4> QED
        BY <4>1, <4>2
    <3> HIDE DEF T
    <3> QED
      BY <2>9, <3>1, <3>2, <3>3 DEF Sound
  <2>12. ASSUME NEW j \in 1..NumSources
         PROVE  Left(T \cup W, src2, j) = Left(S \cup W, src, j)
    <3>1. CASE j = i
      <4>1. {d \in T \cup W : d.source = i} = {e0}
        BY <2>6, <2>7
      <4>2. {d \in S \cup W : d.source = i} = {}
        BY <2>7
      <4>3. Left(T \cup W, src2, i) = src2[i] \cup {m}
        BY <2>6, <4>1 DEF Left
      <4>4. Left(S \cup W, src, i) = src[i]
        BY <4>2 DEF Left
      <4> QED
        BY <2>1, <2>9, <3>1, <4>3, <4>4
    <3>2. CASE j # i
      <4>1. {d \in T \cup W : d.source = j} = {d \in S \cup W : d.source = j}
        BY <2>6, <3>2
      <4> QED
        BY <2>9, <3>2, <4>1 DEF Left
    <3> QED
      BY <3>1, <3>2
  <2> HIDE DEF T
  <2> QED
    BY <2>8, <2>11, <2>12 DEF LeaveSame
<1> QED
  BY <1>2, <1>3

-----------------------------------------------------------------------------
(* The newest entries *)

(* A key's newest entry is that of the first table that has it. *)
LEMMA FirstWinsIs ==
    ASSUME NEW t \in [1..NumSources -> Table], NEW i \in 1..NumSources,
           NEW k \in KeysOf(t, i),
           \A j \in 1..NumSources : j < i => k \notin KeysOf(t, j)
    PROVE  FirstWins(t)[k] = t[i][k]
<1> DEFINE hits == {j \in DOMAIN t : t[j][k] # Absent}
           first == {j \in hits : \A l \in hits : j <= l}
<1>1. k \in Keys /\ DOMAIN t = 1..NumSources
  BY DEF KeysOf
<1>2. FirstWins(t)[k] = IF first = {} THEN Absent
                        ELSE t[CHOOSE j \in first : TRUE][k]
  BY <1>1 DEF FirstWins
<1>3. \A j \in 1..NumSources : j \in hits <=> k \in KeysOf(t, j)
  BY <1>1 DEF KeysOf
<1>4. hits \subseteq 1..NumSources /\ i \in hits
  BY <1>1, <1>3
<1> HIDE DEF hits
<1>5. ASSUME NEW j \in hits PROVE i <= j
  <2>1. j \in 1..NumSources /\ k \in KeysOf(t, j)
    BY <1>3, <1>4
  <2>2. ~ (j < i)
    BY <2>1
  <2> QED
    BY <2>1, <2>2, MergeAssumption
<1>6. first = {i}
  <2>1. i \in first
    BY <1>4, <1>5
  <2>2. ASSUME NEW j \in first PROVE j = i
    <3>1. j <= i /\ i <= j /\ j \in 1..NumSources
      BY <1>4, <1>5
    <3> QED
      BY <3>1, MergeAssumption
  <2> QED
    BY <2>1, <2>2
<1> HIDE DEF first
<1> QED
  BY <1>2, <1>6

(* A live key is in some table. *)
LEMMA LiveHeld ==
    ASSUME NEW t \in [1..NumSources -> Table], NEW k \in LiveIn(t)
    PROVE  \E i \in 1..NumSources : k \in KeysOf(t, i)
<1> DEFINE hits == {j \in DOMAIN t : t[j][k] # Absent}
           first == {j \in hits : \A l \in hits : j <= l}
<1>1. k \in Keys /\ FirstWins(t)[k] \in Values /\ DOMAIN t = 1..NumSources
  BY DEF LiveIn
<1>2. FirstWins(t)[k] = IF first = {} THEN Absent
                        ELSE t[CHOOSE j \in first : TRUE][k]
  BY <1>1 DEF FirstWins
<1>3. hits # {}
  BY <1>1, <1>2, DataAssumption
<1> QED
  BY <1>1, <1>3 DEF KeysOf

(* Where no key is live, nothing is yielded and nothing missed. *)
LEMMA NothingBetween ==
    ASSUME NEW t, NEW f \in Nat, NEW g \in Nat, f <= g,
           NEW o, YieldedTo(t, f, o),
           \A k \in LiveIn(t) : k < g => k < f
    PROVE  YieldedTo(t, g, o)
<1>1. \A k \in LiveIn(t) : k < f <=> k < g
  <2>1. LiveIn(t) \subseteq Nat
    BY MergeAssumption DEF LiveIn
  <2> QED
    BY <2>1
<1>2. {k \in LiveIn(t) : k < f} = {k \in LiveIn(t) : k < g}
  BY <1>1
<1> QED
  BY <1>2 DEF YieldedTo

(* A live key that is yielded next. *)
LEMMA YieldNext ==
    ASSUME NEW t, NEW f \in Keys, FirstWins(t)[f] \in Values,
           NEW o, YieldedTo(t, f, o)
    PROVE  YieldedTo(t, f + 1, Append(o, <<f, FirstWins(t)[f]>>))
<1> DEFINE v == FirstWins(t)[f]
           p == Append(o, <<f, v>>)
           n == Len(o)
<1>1. o \in Seq(Keys \X Values) /\ n \in Nat /\ <<f, v>> \in Keys \X Values
  BY DEF YieldedTo
<1>2. f \in Nat /\ Keys \subseteq Nat
  BY MergeAssumption
<1>3. /\ p \in Seq(Keys \X Values) /\ Len(p) = n + 1
      /\ p[n + 1] = <<f, v>>
      /\ \A i \in 1..n : p[i] = o[i]
      /\ DOMAIN o = 1..n /\ DOMAIN p = 1..(n + 1)
  BY <1>1
<1> HIDE DEF p, n
<1>4. \A i \in 1..(n + 1) : i \in 1..n \/ i = n + 1
  BY <1>1
<1>5. \A i \in 1..n : i \in 1..(n + 1) /\ o[i][1] \in {k \in LiveIn(t) : k < f}
  <2>1. {o[i][1] : i \in 1..n} = {k \in LiveIn(t) : k < f}
    BY <1>3 DEF YieldedTo
  <2>2. \A i \in 1..n : i \in 1..(n + 1)
    BY <1>1
  <2> QED
    BY <2>1, <2>2
<1>6. p[n + 1][1] = f /\ p[n + 1][2] = v
  BY <1>3
<1>7. ASSUME NEW i \in 1..(n + 1)
      PROVE  /\ p[i] = <<p[i][1], FirstWins(t)[p[i][1]]>>
             /\ \A j \in 1..(n + 1) : i < j => p[i][1] < p[j][1]
  <2>1. CASE i = n + 1
    <3>1. \A j \in 1..(n + 1) : ~ (i < j)
      BY <1>1, <2>1
    <3> QED
      BY <1>3, <1>6, <2>1, <3>1
  <2>2. CASE i \in 1..n
    <3>1. p[i] = o[i]
      BY <1>3, <2>2
    <3>2. o[i] = <<o[i][1], FirstWins(t)[o[i][1]]>>
          /\ \A j \in 1..n : i < j => o[i][1] < o[j][1]
      BY <1>3, <2>2 DEF YieldedTo
    <3>3. ASSUME NEW j \in 1..(n + 1), i < j PROVE p[i][1] < p[j][1]
      BY <1>3, <1>4, <1>5, <1>6, <2>2, <3>1, <3>2, <3>3
    <3> QED
      BY <3>1, <3>2, <3>3
  <2> QED
    BY <1>4, <2>1, <2>2
<1>8. {p[i][1] : i \in 1..(n + 1)} = {k \in LiveIn(t) : k < f + 1}
  <2>1. f \in LiveIn(t) /\ f < f + 1
    BY <1>2 DEF LiveIn
  <2>2. \A k \in LiveIn(t) : k < f + 1 <=> k < f \/ k = f
    BY <1>2 DEF LiveIn
  <2>3. {k \in LiveIn(t) : k < f + 1} = {k \in LiveIn(t) : k < f} \cup {f}
    BY <2>1, <2>2
  <2>4. {k \in LiveIn(t) : k < f} = {o[i][1] : i \in 1..n}
    BY <1>3 DEF YieldedTo
  <2>5. n + 1 \in 1..(n + 1)
    BY <1>1
  <2>6. {p[i][1] : i \in 1..(n + 1)} = {o[i][1] : i \in 1..n} \cup {f}
    <3>1. \A i \in 1..n : i \in 1..(n + 1) /\ p[i][1] = o[i][1]
      BY <1>3, <1>5
    <3> QED
      BY <1>4, <1>6, <2>5, <3>1
  <2> QED
    BY <2>3, <2>4, <2>6
<1>9. YieldedTo(t, f + 1, p)
  BY <1>3, <1>7, <1>8 DEF YieldedTo
<1> QED
  BY <1>9 DEF p

-----------------------------------------------------------------------------
(* Taking, passing over and merging an entry *)

(* Every key that is left lies at or behind the root: the key of the root  *)
(* is the next one, and its source the newest that has it.                 *)
LEMMA RootNext ==
    ASSUME NEW t \in [1..NumSources -> Table], NEW h, NEW S, HeapOf(h, S),
           h # << >>, NEW src, Sound(t, S, {}, src, NumSources, 0),
           NEW f \in Nat, Reached(t, f, S, {}, src)
    PROVE  /\ h[1].key \in Nat /\ f <= h[1].key
           /\ Sound(t, S \ {h[1]}, {h[1]}, src, NumSources, 0)
           /\ Reached(t, h[1].key, S \ {h[1]}, {h[1]}, src)
           /\ \A i \in 1..NumSources : \A k \in KeysOf(t, i) :
                  k < h[1].key => k < f
<1>1. PICK r : r = h[1]
  OBVIOUS
<1>2. r \in S /\ \A e \in S : ~ Less(e, r)
  BY <1>1, RootLeast
<1>3. \A e \in S : /\ e \in HeapEntry
                   /\ e.key \in KeysOf(t, e.source)
                   /\ \A k \in src[e.source] : e.key < k
  BY DEF Sound
<1>4. \A e \in S : e.key \in Nat /\ e.source \in 1..NumSources
  BY <1>3, MergeAssumption DEF HeapEntry
<1>5. Keys \subseteq Nat /\ \A i \in 1..NumSources : src[i] \subseteq Nat
  BY MergeAssumption DEF Sound
<1>6. \A e \in S : r.key < e.key \/ (r.key = e.key /\ r.source <= e.source)
  BY <1>2, <1>4, MergeAssumption DEF Less
<1>7. (S \ {r}) \cup {r} = S \cup {} /\ (S \ {r}) \cap {r} = {}
  BY <1>2
<1>8. ASSUME NEW i \in 1..NumSources, NEW k \in Left(S \cup {}, src, i)
      PROVE  /\ k \in Nat /\ r.key <= k
             /\ k = r.key => r.source <= i
  <2>1. CASE k \in src[i]
    <3>1. PICK e \in S : e.source = i
      BY <2>1, MergeAssumption DEF Sound
    <3>2. e.key < k /\ k \in Nat
      BY <1>3, <1>5, <2>1, <3>1
    <3> QED
      BY <1>2, <1>4, <1>6, <3>2
  <2>2. CASE k \notin src[i]
    <3>1. PICK e \in S : e.source = i /\ e.key = k
      BY <1>8, <2>2 DEF Left
    <3> QED
      BY <1>2, <1>4, <1>6, <3>1
  <2> QED
    BY <2>1, <2>2
<1>9. r.key \in Left(S \cup {}, src, r.source)
  BY <1>2 DEF Left
<1>10. f <= r.key
  BY <1>2, <1>4, <1>9 DEF Reached
<1>11. ASSUME NEW i \in 1..NumSources, NEW k \in KeysOf(t, i)
       PROVE  /\ k < r.key => k < f
              /\ ~ (k < r.key) => k \in Left(S \cup {}, src, i)
  <2>1. k \in Nat
    BY <1>5 DEF KeysOf
  <2>2. f <= k => k \in Left(S \cup {}, src, i)
    BY <2>1 DEF Reached
  <2> QED
    BY <1>2, <1>4, <1>8, <1>10, <2>1, <2>2
<1>12. Sound(t, S \ {r}, {r}, src, NumSources, 0)
  BY <1>7 DEF Sound
<1>13. Reached(t, r.key, S \ {r}, {r}, src)
  <2>1. ASSUME NEW i \in 1..NumSources
        PROVE  /\ \A k \in Left(S \cup {}, src, i) : r.key <= k
               /\ \A k \in KeysOf(t, i) :
                      r.key < k => k \in Left(S \cup {}, src, i)
    <3>1. \A k \in KeysOf(t, i) : r.key < k => ~ (k < r.key)
      <4>1. r.key \in Nat /\ \A k \in KeysOf(t, i) : k \in Nat
        BY <1>2, <1>4, <1>5 DEF KeysOf
      <4> QED
        BY <4>1
    <3> QED
      BY <1>8, <1>11, <3>1
  <2>2. ASSUME NEW i \in 1..NumSources, i < r.source
        PROVE  r.key \notin KeysOf(t, i)
    <3>1. ~ (r.key < r.key)
      BY <1>2, <1>4
    <3>2. ~ (r.source <= i)
      BY <1>2, <1>4, <2>2, MergeAssumption
    <3> QED
      BY <1>8, <1>11, <3>1, <3>2
  <2> QED
    BY <1>7, <2>1, <2>2 DEF Reached
<1> QED
  BY <1>1, <1>2, <1>4, <1>10, <1>11, <1>12, <1>13

(* Without the root, its source is the one without an entry out. *)
LEMMA DropRoot ==
    ASSUME NEW t, NEW S, NEW w, NEW r \in S, NEW src, NEW f,
           Sound(t, S, {w}, src, NumSources, 0), Reached(t, f, S, {w}, src),
           r.key = f
    PROVE  /\ Sound(t, S \ {r}, {w}, src, NumSources, r.source)
           /\ Reached(t, f, S \ {r}, {w}, src)
<1>1. Sound(t, S \ {r}, {w}, src, NumSources, r.source)
  <2>1. \A e \in (S \ {r}) \cup {w} : e \in S \cup {w} /\ e # r
    BY DEF Sound
  <2>2. \A e \in (S \ {r}) \cup {w} : e.source # r.source
    BY <2>1 DEF Sound
  <2>3. \A e \in S \cup {w} : e.source # r.source => e \in (S \ {r}) \cup {w}
    OBVIOUS
  <2>4. ASSUME NEW i \in 1..NumSources, i # r.source, src[i] # {}
        PROVE  \E e \in (S \ {r}) \cup {w} : e.source = i
    <3>1. i <= NumSources /\ i # 0
      BY MergeAssumption
    <3>2. PICK e \in S \cup {w} : e.source = i
      BY <2>4, <3>1 DEF Sound
    <3> QED
      BY <2>3, <2>4, <3>2
  <2>5. (S \ {r}) \cap {w} = {}
    BY DEF Sound
  <2> QED
    BY <2>1, <2>2, <2>4, <2>5 DEF Sound
<1>2. ASSUME NEW i \in 1..NumSources
      PROVE  /\ Left((S \ {r}) \cup {w}, src, i) \subseteq
                    Left(S \cup {w}, src, i)
             /\ \A k \in Left(S \cup {w}, src, i) :
                    k # f => k \in Left((S \ {r}) \cup {w}, src, i)
  BY DEF Left
<1>3. ASSUME NEW i \in 1..NumSources, NEW k \in KeysOf(t, i), f < k
      PROVE  k \in Left((S \ {r}) \cup {w}, src, i)
  <2>1. f # k
    <3>1. r.key \in Nat
      BY MergeAssumption DEF Sound, HeapEntry
    <3> QED
      BY <1>3, <3>1
  <2> QED
    BY <1>2, <1>3, <2>1 DEF Reached
<1> QED
  BY <1>1, <1>2, <1>3 DEF Reached

(* Once the root has another key, the winner's key is done with: its       *)
(* source is the one without an entry out, and its entry is the newest.    *)
LEMMA DropWinner ==
    ASSUME NEW t \in [1..NumSources -> Table], NEW h, NEW S, HeapOf(h, S),
           NEW w, NEW src, NEW f \in Nat,
           Sound(t, S, {w}, src, NumSources, 0), Reached(t, f, S, {w}, src),
           h # << >> => h[1].key # w.key
    PROVE  /\ w \in HeapEntry /\ w.key = f
           /\ w.entry = FirstWins(t)[f]
           /\ Sound(t, S, {}, src, NumSources, w.source)
           /\ Reached(t, f + 1, S, {}, src)
<1>1. /\ w \in HeapEntry /\ w.key \in KeysOf(t, w.source)
      /\ w.entry = t[w.source][w.key] /\ w.key = f
      /\ \A k \in src[w.source] : w.key < k
      /\ \A i \in 1..NumSources : i < w.source => f \notin KeysOf(t, i)
      /\ w \notin S
  BY DEF Sound, Reached
<1>2. w.source \in 1..NumSources
  BY <1>1 DEF HeapEntry
<1>3. w.entry = FirstWins(t)[f]
  BY <1>1, <1>2, FirstWinsIs
<1>4. Sound(t, S, {}, src, NumSources, w.source)
  <2>1. \A e \in S : e.source # w.source
    BY <1>1 DEF Sound
  <2>2. ASSUME NEW i \in 1..NumSources, i # w.source, src[i] # {}
        PROVE  \E e \in S : e.source = i
    <3>1. i <= NumSources /\ i # 0
      BY MergeAssumption
    <3>2. PICK e \in S \cup {w} : e.source = i
      BY <2>2, <3>1 DEF Sound
    <3> QED
      BY <2>2, <3>2
  <2> QED
    BY <2>1, <2>2 DEF Sound
<1>5. ASSUME NEW e \in S
      PROVE  /\ e \in HeapEntry /\ e.key \in Nat
             /\ e.source \in 1..NumSources
             /\ \A k \in src[e.source] : e.key < k
  <2>1. e \in HeapEntry /\ \A k \in src[e.source] : e.key < k
    BY DEF Sound
  <2>2. e.key \in Keys /\ e.source \in 1..NumSources
    BY <2>1 DEF HeapEntry
  <2> QED
    BY <2>1, <2>2, MergeAssumption
<1>6. ASSUME NEW e \in S PROVE f < e.key
  <2>1. e.key \in Left(S \cup {w}, src, e.source)
    BY DEF Left
  <2>2. f <= e.key
    BY <1>5, <2>1 DEF Reached
  <2>3. h # << >>
    BY HeapItems
  <2>4. h[1] \in S /\ ~ Less(e, h[1])
    BY <2>3, RootLeast
  <2>5. h[1].key \in Left(S \cup {w}, src, h[1].source)
    BY <2>4 DEF Left
  <2>6. f <= h[1].key
    BY <1>5, <2>4, <2>5 DEF Reached
  <2>7. h[1].key # f /\ h[1].key <= e.key
    BY <1>1, <1>5, <2>3, <2>4 DEF Less
  <2> QED
    BY <1>5, <2>4, <2>6, <2>7
<1>7. Keys \subseteq Nat /\ \A i \in 1..NumSources : src[i] \subseteq Nat
  BY MergeAssumption DEF Sound
<1>8. ASSUME NEW i \in 1..NumSources, NEW k \in src[i]
      PROVE  f < k
  <2>1. i <= NumSources /\ i # 0
    BY MergeAssumption
  <2>2. PICK e \in S \cup {w} : e.source = i
    BY <1>8, <2>1 DEF Sound
  <2> QED
    BY <1>1, <1>5, <1>6, <1>7, <1>8, <2>2
<1>9. ASSUME NEW i \in 1..NumSources, NEW k \in Left(S \cup {}, src, i)
      PROVE  f + 1 <= k
  <2>1. CASE k \in src[i]
    <3>1. k \in Nat /\ f < k
      BY <1>7, <1>8, <2>1
    <3> QED
      BY <3>1
  <2>2. CASE k \notin src[i]
    <3>1. PICK e \in S : e.key = k
      BY <1>9, <2>2 DEF Left
    <3> QED
      BY <1>5, <1>6, <3>1
  <2> QED
    BY <2>1, <2>2
<1>10. ASSUME NEW i \in 1..NumSources, NEW k \in KeysOf(t, i), f + 1 <= k
       PROVE  k \in Left(S \cup {}, src, i)
  <2>1. k \in Nat
    BY <1>7 DEF KeysOf
  <2>2. f < k /\ f # k
    BY <1>10, <2>1
  <2>3. k \in Left(S \cup {w}, src, i)
    BY <2>2 DEF Reached
  <2> QED
    BY <1>1, <2>2, <2>3 DEF Left
<1>11. \A i \in 1..NumSources : \A k \in KeysOf(t, i) :
           f + 1 < k \/ f + 1 = k => f + 1 <= k
  BY <1>7 DEF KeysOf
<1>12. Reached(t, f + 1, S, {}, src)
  BY <1>9, <1>10, <1>11 DEF Reached
<1> QED
  BY <1>1, <1>3, <1>4, <1>12

(* The next source to advance is the one without an entry out. *)
LEMMA NextSource ==
    ASSUME NEW t, NEW S, NEW W, NEW src, NEW n \in Nat,
           Sound(t, S, W, src, n, 0)
    PROVE  Sound(t, S, W, src, n + 1, n + 1)
<1>1. ASSUME NEW i \in 1..NumSources
      PROVE  /\ i > n + 1 => i > n
             /\ i <= n + 1 /\ i # n + 1 => i <= n /\ i # 0
  BY MergeAssumption
<1>2. ASSUME NEW e \in S \cup W
      PROVE  e.source <= n + 1 /\ e.source # n + 1
  <2>1. e.source \in 1..NumSources /\ e.source <= n
    BY DEF Sound, HeapEntry
  <2> QED
    BY <2>1, MergeAssumption
<1> QED
  BY <1>1, <1>2 DEF Sound

(* How far the merge has come depends on what is left of every source. *)
LEMMA ReachedSame ==
    ASSUME NEW t, NEW f, NEW S, NEW W, NEW src, Reached(t, f, S, W, src),
           NEW T, NEW src2, LeaveSame(T, src2, S, src, W)
    PROVE  Reached(t, f, T, W, src2)
BY DEF Reached, LeaveSame

(* The items of the winner. *)
LEMMA WinnerItems ==
    /\ Items(<< >>) = {}
    /\ \A e : Items(<<e>>) = {e}
<1>1. Items(<< >>) = {}
  <2> SUFFICES ASSUME NEW i \in 1..Len(<< >>) PROVE FALSE
    BY DEF Items
  <2> QED
    OBVIOUS
<1>2. ASSUME NEW e PROVE Items(<<e>>) = {e}
  <2>1. 1..Len(<<e>>) = {1} /\ <<e>>[1] = e
    OBVIOUS
  <2> QED
    BY <2>1 DEF Items
<1> QED
  BY <1>1, <1>2

-----------------------------------------------------------------------------
(* The invariant is inductive *)

(* The invariant holds before the first source is advanced. *)
LEMMA InitMerge == Init => MergeInv
<1> SUFFICES ASSUME Init PROVE MergeInv
  OBVIOUS
<1>1. /\ tables \in [1..NumSources -> Table] /\ limit \in Limits
      /\ sources = [i \in 1..NumSources |-> KeysOf(tables, i)]
      /\ heap = << >> /\ initialized = 0 /\ winner = << >> /\ out = << >>
      /\ pc = "merge"
  BY DEF Init, Held, KeysOf
<1>2. Items(heap) = {} /\ Items(winner) = {}
  BY <1>1, WinnerItems
<1>3. HeapOf(heap, {})
  BY <1>1, EmptyHeap
<1>4. Sound(tables, {}, {}, sources, 0, 0)
  <2>1. /\ sources \in [1..NumSources -> SUBSET Keys]
        /\ \A i \in 1..NumSources : sources[i] = KeysOf(tables, i)
    BY <1>1 DEF KeysOf
  <2>2. \A i \in 1..NumSources : ~ (i <= 0)
    BY MergeAssumption
  <2> QED
    BY <2>1, <2>2 DEF Sound
<1>5. Reached(tables, 0, {}, {}, sources)
  <2>1. ASSUME NEW i \in 1..NumSources
        PROVE  Left({} \cup {}, sources, i) = KeysOf(tables, i)
    BY <1>1 DEF Left
  <2>2. \A i \in 1..NumSources : \A k \in KeysOf(tables, i) : 0 <= k
    BY MergeAssumption DEF KeysOf
  <2> QED
    BY <2>1, <2>2 DEF Reached
<1>6. YieldedTo(tables, 0, out)
  <2>1. out = << >> /\ out \in Seq(Keys \X Values) /\ DOMAIN out = {}
    BY <1>1
  <2>2. \A k \in LiveIn(tables) : ~ (k < 0)
    BY MergeAssumption DEF LiveIn
  <2>3. {out[i][1] : i \in DOMAIN out} = {k \in LiveIn(tables) : k < 0}
    BY <2>1, <2>2
  <2> QED
    BY <2>1, <2>3 DEF YieldedTo
<1>7. /\ \E f \in Nat : Reached(tables, f, {}, {}, sources)
                        /\ YieldedTo(tables, f, out)
      /\ initialized \in 0..NumSources
  BY <1>1, <1>5, <1>6, MergeAssumption
<1>8. limit > 0 => Len(out) <= limit /\ Len(out) < limit
  <2>1. limit \in Nat /\ Len(out) = 0
    BY <1>1, MergeAssumption
  <2> QED
    BY <2>1
<1> QED
  BY <1>1, <1>2, <1>3, <1>4, <1>7, <1>8 DEF MergeInv

(* Advancing the next source keeps the invariant. *)
LEMMA InitializeHeapMerge == MergeInv /\ InitializeHeap => MergeInv'
<1> SUFFICES ASSUME MergeInv, InitializeHeap PROVE MergeInv'
  OBVIOUS
<1> DEFINE S == Items(heap)
           W == Items(winner)
           n == initialized + 1
<1>1. /\ pc = "merge" /\ initialized < NumSources /\ initialized' = n
      /\ AdvanceSource(heap, n)
      /\ UNCHANGED <<tables, limit, winner, out, pc>>
  BY DEF InitializeHeap
<1>2. /\ tables \in [1..NumSources -> Table] /\ initialized \in 0..NumSources
      /\ HeapOf(heap, S) /\ Sound(tables, S, W, sources, initialized, 0)
  BY DEF MergeInv
<1>3. n \in 1..NumSources /\ n \in Nat /\ n \in 0..NumSources /\ n <= n
      /\ initialized \in Nat
  BY <1>1, <1>2, MergeAssumption
<1>4. Sound(tables, S, W, sources, n, n)
  BY <1>2, <1>3, NextSource
<1>5. Advanced(tables, heap, sources, n, heap', sources')
  BY <1>1 DEF AdvanceSource, Advanced
<1>6. PICK f \in Nat : /\ Reached(tables, f, S, W, sources)
                       /\ YieldedTo(tables, f, out)
  BY DEF MergeInv
<1> HIDE DEF S, W, n
<1>7. PICK T : /\ HeapOf(heap', T)
               /\ Sound(tables, T, W, sources', n, 0)
               /\ LeaveSame(T, sources', S, sources, W)
  BY <1>2, <1>3, <1>4, <1>5, AdvanceKeeps
<1>8. Reached(tables, f, T, W, sources')
  BY <1>6, <1>7, ReachedSame
<1>9. T = Items(heap')
  BY <1>7, HeapItems
<1>10. W = Items(winner')
  BY <1>1 DEF W
<1> QED
  BY <1>1, <1>3, <1>6, <1>7, <1>8, <1>9, <1>10 DEF MergeInv, AtLimit

(* Taking the smallest entry keeps it. *)
LEMMA TakeSmallestMerge == MergeInv /\ TakeSmallest => MergeInv'
<1> SUFFICES ASSUME MergeInv, TakeSmallest PROVE MergeInv'
  OBVIOUS
<1> DEFINE S == Items(heap)
<1>1. PICK r : r = heap[1]
  OBVIOUS
<1>2. /\ pc = "merge" /\ initialized = NumSources /\ winner = << >>
      /\ heap # << >> /\ winner' = <<r>> /\ heap' = ExtractMin(heap)
      /\ UNCHANGED <<tables, limit, sources, initialized, out, pc>>
  BY <1>1 DEF TakeSmallest, Merging
<1>3. Items(winner) = {} /\ Items(winner') = {r}
  BY <1>2, WinnerItems
<1>4. /\ tables \in [1..NumSources -> Table]
      /\ HeapOf(heap, S) /\ Sound(tables, S, {}, sources, NumSources, 0)
  BY <1>2, <1>3 DEF MergeInv
<1>5. PICK f \in Nat : /\ Reached(tables, f, S, {}, sources)
                       /\ YieldedTo(tables, f, out)
  BY <1>3 DEF MergeInv
<1> HIDE DEF S
<1>6. /\ r.key \in Nat /\ f <= r.key
      /\ Sound(tables, S \ {r}, {r}, sources, NumSources, 0)
      /\ Reached(tables, r.key, S \ {r}, {r}, sources)
      /\ \A i \in 1..NumSources : \A k \in KeysOf(tables, i) :
             k < r.key => k < f
  BY <1>1, <1>2, <1>4, <1>5, RootNext
<1>7. HeapOf(heap', S \ {r})
  BY <1>1, <1>2, <1>4, ExtractKeeps
<1>8. S \ {r} = Items(heap')
  BY <1>7, HeapItems
<1>9. YieldedTo(tables, r.key, out)
  <2>1. \A k \in LiveIn(tables) : k < r.key => k < f
    BY <1>4, <1>6, LiveHeld
  <2> QED
    BY <1>5, <1>6, <2>1, NothingBetween
<1>10. r \in HeapEntry
  BY <1>6 DEF Sound
<1> QED
  BY <1>2, <1>3, <1>6, <1>7, <1>8, <1>9, <1>10 DEF MergeInv, AtLimit

(* The winner while there is one. *)
LEMMA WinnerIs ==
    ASSUME MergeInv, winner # << >>
    PROVE  /\ winner[1] \in HeapEntry
           /\ winner = <<winner[1]>>
           /\ Items(winner) = {winner[1]}
<1>1. PICK e \in HeapEntry : winner = <<e>>
  BY DEF MergeInv
<1>2. winner[1] = e
  BY <1>1
<1> QED
  BY <1>1, <1>2, WinnerItems

(* Passing a duplicate over keeps it. *)
LEMMA SkipDuplicateMerge == MergeInv /\ SkipDuplicate => MergeInv'
<1> SUFFICES ASSUME MergeInv, SkipDuplicate PROVE MergeInv'
  OBVIOUS
<1> DEFINE S == Items(heap)
<1>1. PICK r, w : r = heap[1] /\ w = winner[1]
  OBVIOUS
<1>2. /\ pc = "merge" /\ initialized = NumSources /\ winner # << >>
      /\ heap # << >> /\ r.key = w.key
      /\ AdvanceSource(ExtractMin(heap), r.source)
      /\ UNCHANGED <<tables, limit, initialized, winner, out, pc>>
  BY <1>1 DEF SkipDuplicate, Merging, Duplicate
<1>3. Items(winner) = {w} /\ Items(winner') = {w}
  BY <1>1, <1>2, WinnerIs
<1>4. /\ tables \in [1..NumSources -> Table]
      /\ HeapOf(heap, S) /\ Sound(tables, S, {w}, sources, NumSources, 0)
  BY <1>2, <1>3 DEF MergeInv
<1>5. PICK f \in Nat : /\ Reached(tables, f, S, {w}, sources)
                       /\ YieldedTo(tables, f, out)
  BY <1>3 DEF MergeInv
<1>6. Advanced(tables, ExtractMin(heap), sources, r.source, heap', sources')
  BY <1>2 DEF AdvanceSource, Advanced
<1> HIDE DEF S
<1>7. r \in S /\ r.key = f
  BY <1>1, <1>2, <1>4, <1>5, RootLeast DEF Reached
<1>8. /\ r.source \in 1..NumSources /\ r.source <= NumSources
      /\ NumSources \in Nat
  BY <1>4, <1>7, MergeAssumption DEF Sound, HeapEntry
<1>9. /\ Sound(tables, S \ {r}, {w}, sources, NumSources, r.source)
      /\ Reached(tables, f, S \ {r}, {w}, sources)
  BY <1>4, <1>5, <1>7, DropRoot
<1>10. HeapOf(ExtractMin(heap), S \ {r})
  BY <1>1, <1>2, <1>4, ExtractKeeps
<1>11. PICK T : /\ HeapOf(heap', T)
                /\ Sound(tables, T, {w}, sources', NumSources, 0)
                /\ LeaveSame(T, sources', S \ {r}, sources, {w})
  BY <1>4, <1>6, <1>8, <1>9, <1>10, AdvanceKeeps
<1>12. Reached(tables, f, T, {w}, sources')
  BY <1>9, <1>11, ReachedSame
<1>13. T = Items(heap')
  BY <1>11, HeapItems
<1> QED
  BY <1>2, <1>3, <1>5, <1>11, <1>12, <1>13 DEF MergeInv, AtLimit

(* Yielding the winner, or leaving its tombstone out, keeps it. *)
LEMMA YieldMerge == MergeInv /\ Yield => MergeInv'
<1> SUFFICES ASSUME MergeInv, Yield PROVE MergeInv'
  OBVIOUS
<1> DEFINE S == Items(heap)
<1>1. PICK w : w = winner[1]
  OBVIOUS
<1>2. /\ pc = "merge" /\ initialized = NumSources /\ winner # << >>
      /\ heap # << >> => heap[1].key # w.key
      /\ AdvanceSource(heap, w.source)
      /\ winner' = << >>
      /\ out' = IF w.entry = Tombstone THEN out
                ELSE Append(out, <<w.key, w.entry>>)
      /\ pc' = IF AtLimit(Len(out')) THEN "done" ELSE pc
      /\ UNCHANGED <<tables, limit, initialized>>
  BY <1>1 DEF Yield, Merging, Duplicate
<1>3. Items(winner) = {w} /\ Items(winner') = {}
  BY <1>1, <1>2, WinnerIs, WinnerItems
<1>4. /\ tables \in [1..NumSources -> Table]
      /\ HeapOf(heap, S) /\ Sound(tables, S, {w}, sources, NumSources, 0)
  BY <1>2, <1>3 DEF MergeInv
<1>5. PICK f \in Nat : /\ Reached(tables, f, S, {w}, sources)
                       /\ YieldedTo(tables, f, out)
  BY <1>3 DEF MergeInv
<1>6. Advanced(tables, heap, sources, w.source, heap', sources')
  BY <1>2 DEF AdvanceSource, Advanced
<1> HIDE DEF S
<1>7. /\ w \in HeapEntry /\ w.key = f
      /\ w.entry = FirstWins(tables)[f]
      /\ Sound(tables, S, {}, sources, NumSources, w.source)
      /\ Reached(tables, f + 1, S, {}, sources)
  BY <1>2, <1>4, <1>5, DropWinner
<1>8. /\ w.source \in 1..NumSources /\ w.source <= NumSources
      /\ NumSources \in Nat
      /\ f \in Keys /\ w.entry \in Entry
  BY <1>7, MergeAssumption DEF HeapEntry
<1>9. PICK T : /\ HeapOf(heap', T)
               /\ Sound(tables, T, {}, sources', NumSources, 0)
               /\ LeaveSame(T, sources', S, sources, {})
  BY <1>4, <1>6, <1>7, <1>8, AdvanceKeeps
<1>10. Reached(tables, f + 1, T, {}, sources')
  BY <1>7, <1>9, ReachedSame
<1>11. T = Items(heap')
  BY <1>9, HeapItems
<1>12. YieldedTo(tables, f + 1, out')
  <2>1. CASE w.entry = Tombstone
    <3>1. \A k \in LiveIn(tables) : k # f /\ k \in Nat
      BY <1>7, <2>1, DataAssumption, MergeAssumption DEF LiveIn
    <3>2. /\ \A k \in LiveIn(tables) : k < f + 1 => k < f
          /\ f + 1 \in Nat /\ f <= f + 1
      BY <3>1
    <3> QED
      BY <1>2, <1>5, <2>1, <3>2, NothingBetween
  <2>2. CASE w.entry # Tombstone
    <3>1. w.entry \in Values
      BY <1>8, <2>2 DEF Entry
    <3>2. out' = Append(out, <<f, FirstWins(tables)[f]>>)
      BY <1>2, <1>7, <2>2
    <3> QED
      BY <1>5, <1>7, <1>8, <3>1, <3>2, YieldNext
  <2> QED
    BY <2>1, <2>2
<1>13. /\ limit > 0 => /\ Len(out') <= limit
                       /\ pc' = "merge" => Len(out') < limit
       /\ pc' = "done" => AtLimit(Len(out'))
  <2>1. /\ limit \in Nat /\ out \in Seq(Keys \X Values)
        /\ limit > 0 => Len(out) < limit
    BY <1>2, <1>5, MergeAssumption DEF MergeInv, YieldedTo
  <2>2. Len(out') \in Nat /\ Len(out') <= Len(out) + 1
    <3>1. <<w.key, w.entry>> \in Keys \X Values \/ w.entry = Tombstone
      BY <1>7, <1>8 DEF Entry
    <3> QED
      BY <1>2, <2>1, <3>1
  <2>3. limit > 0 => Len(out') <= limit
    BY <2>1, <2>2
  <2> QED
    BY <1>2, <2>1, <2>2, <2>3 DEF AtLimit
<1>14. pc' \in {"merge", "done", "failed"}
  BY <1>2
<1>15. \E g \in Nat : Reached(tables, g, T, {}, sources')
                      /\ YieldedTo(tables, g, out')
  <2>1. f + 1 \in Nat
    OBVIOUS
  <2> QED
    BY <1>10, <1>12, <2>1
<1> QED
  BY <1>2, <1>3, <1>9, <1>11, <1>13, <1>14, <1>15 DEF MergeInv, AtLimit

(* At the end every live key has been yielded. *)
LEMMA ExhaustedMerge == MergeInv /\ Exhausted => MergeInv'
<1> SUFFICES ASSUME MergeInv, Exhausted PROVE MergeInv'
  OBVIOUS
<1>1. /\ pc = "merge" /\ initialized = NumSources /\ winner = << >>
      /\ heap = << >> /\ pc' = "done"
      /\ UNCHANGED <<tables, limit, sources, heap, initialized, winner, out>>
  BY DEF Exhausted, Merging
<1>2. Items(winner) = {} /\ Items(heap) = {}
  BY <1>1, WinnerItems
<1>3. /\ tables \in [1..NumSources -> Table]
      /\ Sound(tables, {}, {}, sources, NumSources, 0)
  BY <1>1, <1>2 DEF MergeInv
<1>4. PICK f \in Nat : /\ Reached(tables, f, {}, {}, sources)
                       /\ YieldedTo(tables, f, out)
  BY <1>2 DEF MergeInv
<1>5. ASSUME NEW k \in LiveIn(tables) PROVE k < f
  <2>1. PICK i \in 1..NumSources : k \in KeysOf(tables, i)
    BY <1>3, LiveHeld
  <2>2. sources[i] = {}
    BY <1>3, MergeAssumption DEF Sound
  <2>3. k \notin Left({} \cup {}, sources, i)
    BY <2>2 DEF Left
  <2>4. k \in Nat /\ ~ (f < k) /\ f # k
    BY <1>4, <2>1, <2>3, MergeAssumption DEF Reached, KeysOf
  <2> QED
    BY <2>4
<1>6. Live \subseteq Yielded
  BY <1>4, <1>5 DEF Live, LiveIn, Yielded, YieldedTo
<1>7. (Live \subseteq Yielded)'
  BY <1>1, <1>6 DEF Live, Yielded
<1> QED
  BY <1>1, <1>7 DEF MergeInv, AtLimit

(* Every step keeps the invariant. *)
LEMMA NextMerge == MergeInv /\ [Next]_vars => MergeInv'
<1> SUFFICES ASSUME MergeInv, [Next]_vars PROVE MergeInv'
  OBVIOUS
<1>1. CASE SourceFails
  BY <1>1 DEF SourceFails, MergeInv, AtLimit
<1>2. CASE Ended \/ UNCHANGED vars
  <2>1. UNCHANGED vars
    BY <1>2 DEF Ended
  <2> QED
    BY <2>1 DEF vars, MergeInv, AtLimit, Live, Yielded
<1> QED
  BY <1>1, <1>2, InitializeHeapMerge, TakeSmallestMerge, SkipDuplicateMerge,
     YieldMerge, ExhaustedMerge DEF Next

(* The invariant holds in every behaviour of the merge. *)
THEOREM MergeCorrect == Spec => []MergeInv
BY InitMerge, NextMerge, PTL DEF Spec

(* What the invariant says of what has been yielded. *)
LEMMA MergeInvYields == MergeInv => YieldsMerge
<1> SUFFICES ASSUME MergeInv PROVE YieldsMerge
  OBVIOUS
<1>1. PICK f \in Nat : YieldedTo(tables, f, out)
  BY DEF MergeInv
<1>2. Yielded = {k \in Live : k < f}
  BY <1>1 DEF Yielded, Live, LiveIn, YieldedTo
<1>3. Live \subseteq Nat
  BY MergeAssumption DEF Live
<1>4. ASSUME NEW i \in DOMAIN out, NEW k \in Live \ Yielded
      PROVE  out[i][1] < k
  <2>1. out[i][1] \in Live /\ out[i][1] < f
    BY <1>2 DEF Yielded
  <2>2. ~ (k < f) /\ k \in Live
    BY <1>2, <1>4
  <2>3. k \in Nat /\ out[i][1] \in Nat
    BY <1>3, <2>1, <2>2
  <2> QED
    BY <2>1, <2>2, <2>3
<1>5. Yielded \subseteq Live
  BY <1>2
<1>6. limit > 0 => Len(out) <= limit
  BY DEF MergeInv
<1>7. pc = "done" => Yielded = Live \/ (limit > 0 /\ Len(out) = limit)
  <2>1. limit \in Nat /\ Len(out) \in Nat
    BY <1>1, MergeAssumption DEF MergeInv, YieldedTo
  <2>2. CASE Live \subseteq Yielded
    BY <1>5, <2>2
  <2>3. CASE AtLimit(Len(out))
    BY <1>6, <2>1, <2>3 DEF AtLimit
  <2> QED
    BY <2>2, <2>3 DEF MergeInv
<1> QED
  BY <1>1, <1>4, <1>5, <1>6, <1>7 DEF YieldsMerge, YieldedTo

(* At every moment the merge has yielded the newest values of the live     *)
(* keys in key order up to some key, never more than the limit; and when   *)
(* it ends by itself, those of all live keys (MergeIterator.iterate and    *)
(* the loop of readKeyRange).                                              *)
THEOREM MergesRight == Spec => []YieldsMerge
BY MergeCorrect, MergeInvYields, PTL
=============================================================================
