--------------------------- MODULE SortedMapProofs ---------------------------
(***************************************************************************)
(* The red-black tree of SortedMap stays a search tree whose links agree,  *)
(* in the middle of its loops too, so that get(), entries() and range()    *)
(* read what the calls add up to, for every finite set of keys; and it is  *)
(* balanced.  A ghost function gives every node the set of keys at or      *)
(* below it, and another one the number of black nodes on every path from  *)
(* it down.                                                                *)
(***************************************************************************)
EXTENDS SortedMap, FiniteSetTheorems, WellFoundedInduction, TLAPS

-----------------------------------------------------------------------------
(* Sets of numbers *)

(* A set of numbers has a least one. *)
LEMMA LeastNumber ==
    ASSUME NEW T \in SUBSET Nat, T # {}
    PROVE  \E m \in T : \A n \in T : m <= n
<1> DEFINE R == {p \in Nat \X Nat : p[1] < p[2]}
<1>1. IsWellFoundedOn(R, Nat)
  BY NatLessThanWellFounded DEF OpToRel
<1>2. \A i, j \in Nat : i < j => <<i, j>> \in R
  OBVIOUS
<1> HIDE DEF R
<1>3. PICK m \in T : \A n \in T : ~ (<<n, m>> \in R)
  BY <1>1, WFMin
<1>4. \A n \in T : ~ (n < m)
  BY <1>2, <1>3
<1>5. \A n \in T : m <= n
  BY <1>4
<1> QED
  BY <1>5

(* s lists the n elements of S upwards. *)
ListsUpwards(s, n, S) ==
    /\ s \in [1..n -> S]
    /\ \A i, j \in 1..n : i < j => s[i] < s[j]

(* A finite set of numbers can be listed upwards. *)
LEMMA UpwardsExists ==
    ASSUME NEW S \in SUBSET Nat, IsFiniteSet(S)
    PROVE  \E s : ListsUpwards(s, Cardinality(S), S)
<1> DEFINE Bad(U) == ~ \E s : ListsUpwards(s, Cardinality(U), U)
           T == {n \in Nat : \E U \in SUBSET Nat :
                    IsFiniteSet(U) /\ Cardinality(U) = n /\ Bad(U)}
<1> SUFFICES ASSUME Bad(S) PROVE FALSE
  OBVIOUS
<1>1. T # {}
  <2>1. Cardinality(S) \in Nat
    BY FS_CardinalityType
  <2> QED
    BY <2>1
<1>2. PICK n \in T : \A m \in T : n <= m
  <2>1. T \in SUBSET Nat
    OBVIOUS
  <2> HIDE DEF T
  <2> QED
    BY <1>1, <2>1, LeastNumber
<1>3. PICK U \in SUBSET Nat : IsFiniteSet(U) /\ Cardinality(U) = n /\ Bad(U)
  OBVIOUS
<1>4. U # {}
  <2> SUFFICES ASSUME U = {} PROVE FALSE
    OBVIOUS
  <2> DEFINE s == [i \in 1..0 |-> 0]
  <2>1. n = 0
    BY <1>3, FS_EmptySet
  <2>2. 1..0 = {}
    OBVIOUS
  <2>3. ListsUpwards(s, 0, U)
    BY <2>2 DEF ListsUpwards
  <2> HIDE DEF s
  <2> QED
    BY <1>3, <2>1, <2>3
<1>5. PICK l \in U : \A u \in U : l <= u
  BY <1>4, LeastNumber
<1> DEFINE rest == U \ {l}
<1>6. /\ IsFiniteSet(rest) /\ Cardinality(rest) = n - 1
      /\ rest \in SUBSET Nat /\ n \in Nat
  BY <1>3, <1>5, FS_RemoveElement
<1>7. n - 1 \in Nat
  BY <1>6, FS_CardinalityType
<1>8. ~ Bad(rest)
  <2>1. n - 1 \notin T
    <3>1. ~ (n <= n - 1)
      BY <1>6
    <3> HIDE DEF T
    <3> QED
      BY <1>2, <3>1
  <2> QED
    BY <1>6, <1>7, <2>1
<1>9. PICK r : ListsUpwards(r, n - 1, rest)
  BY <1>6, <1>8
<1> DEFINE s == [i \in 1..n |-> IF i = 1 THEN l ELSE r[i - 1]]
<1>10. \A i \in 1..n : i # 1 => i - 1 \in 1..(n - 1)
  BY <1>6
<1>11. \A i \in 1..(n - 1) : r[i] \in rest
  BY <1>9 DEF ListsUpwards
<1>12. s \in [1..n -> U]
  BY <1>10, <1>11
<1>13. ASSUME NEW i \in 1..n, NEW j \in 1..n, i < j
       PROVE  s[i] < s[j]
  <2>1. j # 1 /\ j - 1 \in 1..(n - 1)
    BY <1>6, <1>13
  <2>2. s[j] = r[j - 1] /\ r[j - 1] \in rest
    BY <1>11, <2>1
  <2>3. CASE i = 1
    <3>1. s[i] = l /\ l <= r[j - 1] /\ l # r[j - 1]
      BY <1>5, <2>2, <2>3
    <3>2. l \in Nat /\ r[j - 1] \in Nat
      BY <1>6, <2>2
    <3>3. l < r[j - 1]
      BY <3>1, <3>2
    <3> QED
      BY <2>2, <3>1, <3>3
  <2>4. CASE i # 1
    <3>1. i - 1 \in 1..(n - 1) /\ i - 1 < j - 1 /\ s[i] = r[i - 1]
      BY <1>10, <1>13, <2>4
    <3> QED
      BY <1>9, <2>1, <2>2, <3>1 DEF ListsUpwards
  <2> QED
    BY <2>3, <2>4
<1>14. ListsUpwards(s, n, U)
  BY <1>12, <1>13 DEF ListsUpwards
<1> HIDE DEF s
<1> QED
  BY <1>3, <1>14

(* Such a list leaves no element out. *)
LEMMA UpwardsAll ==
    ASSUME NEW S \in SUBSET Nat, IsFiniteSet(S), NEW s,
           ListsUpwards(s, Cardinality(S), S), NEW v \in S
    PROVE  \E i \in 1..Cardinality(S) : s[i] = v
<1> DEFINE n == Cardinality(S)
           rest == S \ {v}
<1> SUFFICES ASSUME \A i \in 1..n : s[i] # v PROVE FALSE
  OBVIOUS
<1>1. n \in Nat
  BY FS_CardinalityType
<1>2. IsFiniteSet(rest) /\ Cardinality(rest) = n - 1
  BY FS_RemoveElement
<1>3. IsFiniteSet(1..n) /\ Cardinality(1..n) = n
  BY <1>1, FS_Interval
<1>4. s \in [1..n -> rest]
  BY DEF ListsUpwards
<1>5. Cardinality(rest) < Cardinality(1..n)
  BY <1>1, <1>2, <1>3
<1> HIDE DEF n, rest
<1>6. PICK i, j \in 1..n : i # j /\ s[i] = s[j]
  BY <1>2, <1>3, <1>4, <1>5, FS_PigeonHole
<1>7. s[i] \in Nat /\ s[j] \in Nat
  BY <1>4 DEF rest
<1>8. i < j \/ j < i
  BY <1>1, <1>6
<1>9. s[i] < s[j] \/ s[j] < s[i]
  BY <1>8 DEF ListsUpwards, n
<1> QED
  BY <1>6, <1>7, <1>9

-----------------------------------------------------------------------------
(* The shape of the tree *)

(* x lies on side s of n. *)
Beyond(s, x, n) == IF s = "left" THEN x < n ELSE n < x

(* The nodes of t are P, and D gives the keys at and below each of them.   *)
Spans(t, P, D) ==
    /\ D \in [Node -> SUBSET P]
    /\ D[Nil] = {}
    /\ D[t.root] = P
    /\ \A n \in P :
          D[n] = {n} \cup D[t.kid["left"][n]] \cup D[t.kid["right"][n]]
    /\ \A n \in P, s \in Sides : \A x \in D[t.kid[s][n]] : Beyond(s, x, n)

(* Children and parents agree on P; other nodes have no links. *)
Linked(t, P) ==
    /\ t.root \in P \cup {Nil}
    /\ \A n \in P, s \in Sides :
          /\ t.kid[s][n] \in P \cup {Nil}
          /\ t.kid[s][n] # Nil => t.up[t.kid[s][n]] = n
    /\ \A n \in P : t.up[n] = Nil <=> n = t.root
    /\ \A n \in P : t.up[n] # Nil =>
          t.up[n] \in P /\ \E s \in Sides : t.kid[s][t.up[n]] = n
    /\ \A n \in Keys \ P, s \in Sides : t.kid[s][n] = Nil
    /\ \A n \in Keys \ P : t.up[n] = Nil

Shape(t, P, D) ==
    t \in Tree /\ P \in SUBSET Keys /\ Spans(t, P, D) /\ Linked(t, P)

(* The sides and the null reference are what they seem. *)
LEMMA Constants ==
    /\ Nil \notin Keys /\ Nil \notin Values /\ Keys \subseteq Nat
    /\ \A k \in Keys : k \in Node /\ k # Nil
    /\ Nil \in Node
    /\ IsFiniteSet(Keys)
BY SortedMapAssumption DEF Node

(* There are two sides, each the opposite of the other. *)
LEMMA TwoSides ==
    /\ "left" \in Sides /\ "right" \in Sides
    /\ \A s \in Sides : /\ Opposite(s) \in Sides /\ Opposite(s) # s
                        /\ Opposite(Opposite(s)) = s
                        /\ \A q \in Sides : q = s \/ q = Opposite(s)
BY DEF Sides, Opposite

(* To be beyond is an order, turned round on the other side. *)
LEMMA BeyondOrder ==
    ASSUME NEW s \in Sides, NEW x \in Keys, NEW y \in Keys, NEW z \in Keys
    PROVE  /\ ~ Beyond(s, x, x)
           /\ Beyond(s, x, y) /\ Beyond(s, y, z) => Beyond(s, x, z)
           /\ Beyond(s, x, y) <=> Beyond(Opposite(s), y, x)
           /\ ~ (Beyond(s, x, y) /\ Beyond(Opposite(s), x, y))
           /\ x # y => Beyond(s, x, y) \/ Beyond(Opposite(s), x, y)
BY Constants DEF Sides, Opposite, Beyond

(* A node with its two subtrees, whichever side comes first. *)
LEMMA Subtrees ==
    ASSUME NEW t, NEW P, NEW D, Shape(t, P, D), NEW n \in P, NEW s \in Sides
    PROVE  /\ D[n] = {n} \cup D[t.kid[s][n]] \cup D[t.kid[Opposite(s)][n]]
           /\ t.kid[s][n] \in P \cup {Nil} /\ t.kid[s][n] \in Node
           /\ D[t.kid[s][n]] \subseteq P
           /\ D[t.kid[s][n]] \cap D[t.kid[Opposite(s)][n]] = {}
           /\ n \notin D[t.kid[s][n]]
           /\ t.kid[s][n] # n
           /\ t.kid[s][n] # Nil => /\ t.kid[s][n] \in D[t.kid[s][n]]
                                   /\ t.kid[s][n] # t.kid[Opposite(s)][n]
                                   /\ t.up[t.kid[s][n]] = n
           /\ \A x \in D[t.kid[s][n]] : Beyond(s, x, n)
<1> DEFINE a == t.kid[s][n]
           b == t.kid[Opposite(s)][n]
<1>1. P \subseteq Keys /\ n \in Keys /\ \A x \in P : x \in Node
  BY Constants DEF Shape
<1>2. Opposite(s) \in Sides
  BY TwoSides
<1>3. D[n] = {n} \cup D[t.kid["left"][n]] \cup D[t.kid["right"][n]]
  BY DEF Shape, Spans
<1>4. D[n] = {n} \cup D[a] \cup D[b]
  BY <1>3 DEF Sides, Opposite
<1>5. a \in P \cup {Nil} /\ b \in P \cup {Nil} /\ (a # Nil => t.up[a] = n)
  BY <1>2 DEF Shape, Linked
<1>6. a \in Node /\ b \in Node
  BY <1>1, <1>5, Constants
<1>7. D[a] \subseteq P /\ D[b] \subseteq P
  BY <1>6 DEF Shape, Spans
<1>8. /\ \A x \in D[a] : Beyond(s, x, n)
      /\ \A x \in D[b] : Beyond(Opposite(s), x, n)
  BY <1>2 DEF Shape, Spans
<1>9. D[a] \cap D[b] = {}
  BY <1>1, <1>7, <1>8, BeyondOrder
<1>10. n \notin D[a]
  BY <1>1, <1>8, BeyondOrder
<1>11. a # Nil => a \in D[a]
  BY <1>5 DEF Shape, Spans
<1>12. a # n
  BY <1>1, <1>10, <1>11, Constants
<1>13. a # Nil => a # b
  BY <1>9, <1>11
<1> QED
  BY <1>4, <1>5, <1>6, <1>7, <1>8, <1>9, <1>10, <1>11, <1>12, <1>13

(* What holds of a node whenever it holds of its children holds of all.    *)
LEMMA SpanInduction ==
    ASSUME NEW t, NEW P, NEW D, Shape(t, P, D), NEW Good,
           \A n \in P : (\A s \in Sides :
               t.kid[s][n] \in P => t.kid[s][n] \in Good) => n \in Good
    PROVE  P \subseteq Good
<1> SUFFICES ASSUME NEW b \in P, b \notin Good PROVE FALSE
  OBVIOUS
<1> DEFINE T == {Cardinality(D[n]) : n \in P \ Good}
<1>1. \A n \in P : D[n] \subseteq P /\ IsFiniteSet(D[n]) /\ n \in Node
  <2>1. \A n \in P : D[n] \subseteq P /\ D[n] \subseteq Keys /\ n \in Node
    BY Constants DEF Shape, Spans
  <2> QED
    BY <2>1, Constants, FS_Subset
<1>2. T \in SUBSET Nat /\ T # {}
  BY <1>1, FS_CardinalityType
<1>3. PICK m \in T : \A i \in T : m <= i
  <2> HIDE DEF T
  <2> QED
    BY <1>2, LeastNumber
<1>4. PICK n \in P \ Good : m = Cardinality(D[n])
  OBVIOUS
<1>5. PICK s \in Sides : t.kid[s][n] \in P /\ t.kid[s][n] \notin Good
  BY <1>4
<1>6. D[t.kid[s][n]] \subseteq D[n] /\ n \in D[n] /\ n \notin D[t.kid[s][n]]
  BY Subtrees
<1>7. Cardinality(D[t.kid[s][n]]) < Cardinality(D[n])
  <2>1. D[t.kid[s][n]] # D[n] /\ D[t.kid[s][n]] \subseteq D[n] /\ IsFiniteSet(D[n])
    BY <1>1, <1>6
  <2>2. Cardinality(D[t.kid[s][n]]) \in Nat /\ Cardinality(D[n]) \in Nat
    BY <2>1, FS_Subset, FS_CardinalityType
  <2> QED
    BY <2>1, <2>2, FS_Subset
<1>8. Cardinality(D[t.kid[s][n]]) \in T
  BY <1>5
<1> DEFINE k == Cardinality(D[t.kid[s][n]])
<1>9. k < m /\ k \in T
  BY <1>4, <1>7, <1>8
<1> HIDE DEF T, k
<1>10. m <= k /\ k \in Nat /\ m \in Nat
  BY <1>2, <1>3, <1>9
<1> QED
  BY <1>9, <1>10

(* What is below a node that is below another is below that one. *)
LEMMA BelowBelow ==
    ASSUME NEW t, NEW P, NEW D, Shape(t, P, D), NEW y \in P, NEW x \in D[y]
    PROVE  D[x] \subseteq D[y]
<1> DEFINE Good == {n \in P : \A z \in D[n] : D[z] \subseteq D[n]}
<1>1. ASSUME NEW n \in P, \A s \in Sides :
          t.kid[s][n] \in P => t.kid[s][n] \in Good
      PROVE  n \in Good
  <2> SUFFICES ASSUME NEW z \in D[n], z # n PROVE D[z] \subseteq D[n]
    OBVIOUS
  <2>1. PICK s \in Sides : z \in D[t.kid[s][n]]
    BY Subtrees, TwoSides
  <2>2. t.kid[s][n] \in P
    BY <2>1, Subtrees DEF Shape, Spans
  <2>3. D[z] \subseteq D[t.kid[s][n]]
    BY <1>1, <2>1, <2>2
  <2> QED
    BY <2>3, Subtrees
<1>2. P \subseteq Good
  <2> HIDE DEF Good
  <2> QED
    BY <1>1, SpanInduction
<1> QED
  BY <1>2

(* The parent of a node strictly below another is below that one too. *)
LEMMA ParentBelow ==
    ASSUME NEW t, NEW P, NEW D, Shape(t, P, D), NEW y \in P,
           NEW x \in D[y], x # y
    PROVE  t.up[x] \in D[y] /\ t.up[x] \in P
<1> DEFINE Good == {n \in P : \A z \in D[n] :
                        z # n => t.up[z] \in D[n] /\ t.up[z] \in P}
<1>1. ASSUME NEW n \in P, \A s \in Sides :
          t.kid[s][n] \in P => t.kid[s][n] \in Good
      PROVE  n \in Good
  <2> SUFFICES ASSUME NEW z \in D[n], z # n
               PROVE  t.up[z] \in D[n] /\ t.up[z] \in P
    OBVIOUS
  <2>1. PICK s \in Sides : z \in D[t.kid[s][n]]
    BY Subtrees, TwoSides
  <2>2. t.kid[s][n] \in P /\ t.kid[s][n] # Nil
    BY <2>1, Subtrees DEF Shape, Spans
  <2>3. CASE z = t.kid[s][n]
    BY <2>2, <2>3, Subtrees
  <2>4. CASE z # t.kid[s][n]
    <3>1. t.up[z] \in D[t.kid[s][n]] /\ t.up[z] \in P
      BY <1>1, <2>1, <2>2, <2>4
    <3> QED
      BY <3>1, Subtrees
  <2> QED
    BY <2>3, <2>4
<1>2. P \subseteq Good
  <2> HIDE DEF Good
  <2> QED
    BY <1>1, SpanInduction
<1> QED
  BY <1>2

(* Two nodes are not below each other. *)
LEMMA NotBelowItself ==
    ASSUME NEW t, NEW P, NEW D, Shape(t, P, D), NEW y \in P, NEW x \in D[y],
           NEW s \in Sides
    PROVE  /\ x \in P
           /\ y \in D[x] => x = y
           /\ y \notin D[t.kid[s][x]]
<1>1. x \in P
  BY Constants DEF Shape, Spans
<1>2. ASSUME y \in D[x], x # y PROVE FALSE
  <2>1. PICK q \in Sides : x \in D[t.kid[q][y]]
    BY <1>2, Subtrees, TwoSides
  <2>2. t.kid[q][y] \in P
    BY <2>1, Subtrees DEF Shape, Spans
  <2>3. D[x] \subseteq D[t.kid[q][y]]
    BY <2>1, <2>2, BelowBelow
  <2> QED
    BY <1>2, <2>3, Subtrees
<1>3. y \notin D[t.kid[s][x]]
  BY <1>1, <1>2, Subtrees
<1> QED
  BY <1>1, <1>2, <1>3

-----------------------------------------------------------------------------
(* The search for a key *)

(* The side of n on which the search for the key goes on. *)
Toward(key, n) == IF key < n THEN "left" ELSE "right"

(* Where a search that starts at n may end. *)
Ends(t, D, key, n) ==
    {r \in D[n] :
        /\ r = key \/ t.kid[Toward(key, r)][r] = Nil
        /\ \A m \in D[n], s \in Sides :
              r \in D[t.kid[s][m]] => Beyond(s, key, m)}

(* The search goes to the side where the key would be. *)
LEMMA TowardIsBeyond ==
    ASSUME NEW key \in Keys, NEW n \in Keys, NEW s \in Sides
    PROVE  /\ Toward(key, n) \in Sides
           /\ key # n => Beyond(Toward(key, n), key, n)
           /\ Beyond(s, key, n) => key # n /\ s = Toward(key, n)
BY Constants DEF Toward, Beyond, Sides

(* A search ends where it is, or ends where it ends from the next node.    *)
LEMMA EndsStep ==
    ASSUME NEW t, NEW P, NEW D, Shape(t, P, D), NEW key \in Keys,
           NEW n \in P
    PROVE  LET next == t.kid[Toward(key, n)][n]
           IN  /\ n = key \/ next = Nil => Ends(t, D, key, n) = {n}
               /\ n # key /\ next # Nil =>
                     Ends(t, D, key, n) = Ends(t, D, key, next)
<1> DEFINE q == Toward(key, n)
           next == t.kid[q][n]
<1>1. P \subseteq Keys /\ n \in Keys /\ q \in Sides
  <2>1. P \subseteq Keys /\ n \in Keys
    BY DEF Shape
  <2> QED
    BY <2>1, TowardIsBeyond DEF Sides
<1>2. n \in D[n] /\ \A m \in D[n], s \in Sides : n \notin D[t.kid[s][m]]
  <2>1. n \in D[n]
    BY DEF Shape, Spans
  <2> QED
    BY <2>1, NotBelowItself
<1>3. ASSUME NEW r \in Ends(t, D, key, n), r # n
      PROVE  r \in D[next] /\ n # key /\ next # Nil
  <2>1. r \in D[n] /\ \A s \in Sides : r \in D[t.kid[s][n]] => Beyond(s, key, n)
    BY <1>2 DEF Ends
  <2>2. PICK s \in Sides : r \in D[t.kid[s][n]]
    BY <1>3, <2>1, Subtrees, TwoSides
  <2>3. s = q /\ key # n
    BY <1>1, <2>1, <2>2, TowardIsBeyond
  <2> QED
    BY <2>2, <2>3 DEF Shape, Spans
<1>4. ASSUME n = key \/ next = Nil PROVE Ends(t, D, key, n) = {n}
  <2>1. n \in Ends(t, D, key, n)
    BY <1>2, <1>4 DEF Ends
  <2> QED
    BY <1>3, <1>4, <2>1
<1>5. ASSUME n # key, next # Nil
      PROVE  Ends(t, D, key, n) = Ends(t, D, key, next)
  <2>1. next \in P /\ D[next] \subseteq D[n] /\ n \notin D[next]
    BY <1>1, <1>5, Subtrees
  <2>2. n \notin Ends(t, D, key, n)
    BY <1>5 DEF Ends
  <2>3. ASSUME NEW r \in Ends(t, D, key, n) PROVE r \in Ends(t, D, key, next)
    <3>1. r \in D[next]
      BY <1>3, <2>2, <2>3
    <3> QED
      BY <2>1, <2>3, <3>1 DEF Ends
  <2>4. ASSUME NEW r \in Ends(t, D, key, next), NEW m \in D[n],
               NEW s \in Sides, r \in D[t.kid[s][m]]
        PROVE  Beyond(s, key, m)
    <3>1. r \in D[next] /\ (m \in D[next] => Beyond(s, key, m))
      BY <2>4 DEF Ends
    <3>2. CASE m = n
      <4>1. s = q
        <5>1. D[next] \cap D[t.kid[Opposite(q)][n]] = {}
          BY <1>1, Subtrees
        <5> QED
          BY <1>1, <2>4, <3>1, <3>2, <5>1, TwoSides
      <4> QED
        BY <1>1, <1>5, <3>2, <4>1, TowardIsBeyond
    <3>3. CASE m # n /\ m \notin D[next]
      <4> DEFINE o == t.kid[Opposite(q)][n]
      <4>1. m \in D[o] /\ Opposite(q) \in Sides
        BY <1>1, <3>3, Subtrees, TwoSides
      <4>2. o \in P /\ m \in P
        BY <4>1, NotBelowItself, Subtrees DEF Shape, Spans
      <4>3. D[m] \subseteq D[o] /\ D[t.kid[s][m]] \subseteq D[m]
        BY <4>1, <4>2, BelowBelow, Subtrees
      <4>4. D[next] \cap D[o] = {}
        BY <1>1, Subtrees
      <4> QED
        BY <2>4, <3>1, <4>3, <4>4
    <3> QED
      BY <3>1, <3>2, <3>3
  <2>5. ASSUME NEW r \in Ends(t, D, key, next) PROVE r \in Ends(t, D, key, n)
    <3>1. r \in D[n] /\ (r = key \/ t.kid[Toward(key, r)][r] = Nil)
      BY <2>1 DEF Ends
    <3> QED
      BY <2>4, <3>1 DEF Ends
  <2> QED
    BY <2>3, <2>5
<1> QED
  BY <1>4, <1>5

(* Walks(f, t, key): f[n] is the last node of the search from n. *)
Walks(f, t, key) ==
    f = [n \in Keys |->
           IF n = key \/ t.kid[Toward(key, n)][n] = Nil THEN n
           ELSE f[t.kid[Toward(key, n)][n]]]

(* There is such a function. *)
LEMMA WalkExists ==
    ASSUME NEW t, NEW P, NEW D, Shape(t, P, D), NEW key \in Keys
    PROVE  \E f : Walks(f, t, key)
<1> DEFINE f == [n \in Keys |-> IF n \in P THEN CHOOSE r : r \in Ends(t, D, key, n)
                                ELSE n]
           Onward(n) == t.kid[Toward(key, n)][n]
<1>1. P \subseteq Keys
  BY DEF Shape
<1>2. ASSUME NEW n \in Keys
      PROVE  f[n] = IF n = key \/ Onward(n) = Nil THEN n ELSE f[Onward(n)]
  <2>0. Toward(key, n) \in Sides
    BY TowardIsBeyond DEF Sides
  <2>1. CASE n \notin P
    <3>1. Onward(n) = Nil
      BY <2>0, <2>1 DEF Shape, Linked
    <3> QED
      BY <2>1, <3>1
  <2>2. CASE n \in P /\ (n = key \/ Onward(n) = Nil)
    <3>1. Ends(t, D, key, n) = {n}
      BY <2>2, EndsStep
    <3> QED
      BY <2>2, <3>1
  <2>3. CASE n \in P /\ n # key /\ Onward(n) # Nil
    <3>1. Ends(t, D, key, n) = Ends(t, D, key, Onward(n))
      BY <2>3, EndsStep
    <3>2. Onward(n) \in P
      BY <2>0, <2>3, Subtrees
    <3> QED
      BY <1>1, <2>3, <3>1, <3>2
  <2> QED
    BY <2>1, <2>2, <2>3
<1>3. f = [n \in Keys |-> IF n = key \/ Onward(n) = Nil THEN n ELSE f[Onward(n)]]
  <2>1. f = [n \in Keys |-> f[n]]
    OBVIOUS
  <2> HIDE DEF f, Onward
  <2> QED
    BY <1>2, <2>1
<1> QED
  BY <1>3 DEF Walks

(* The search finds a key of the tree; otherwise it ends at a node with    *)
(* room on the side of the key, and every node above it has the key on the *)
(* side of the node where the search ended.                                *)
LEMMA NearestRight ==
    ASSUME NEW t, NEW P, NEW D, Shape(t, P, D), t.root # Nil,
           NEW key \in Keys
    PROVE  LET p == Nearest(t, key)
           IN  /\ p \in P
               /\ key \in P => p = key
               /\ p = key \/ t.kid[Toward(key, p)][p] = Nil
               /\ \A m \in P, s \in Sides :
                     p \in D[t.kid[s][m]] => Beyond(s, key, m)
<1> DEFINE f == CHOOSE f : Walks(f, t, key)
           Good == {n \in P : f[n] \in Ends(t, D, key, n)
                              /\ (key \in D[n] => f[n] = key)}
           Onward(n) == t.kid[Toward(key, n)][n]
<1>1. Walks(f, t, key)
  BY WalkExists
<1>2. Nearest(t, key) = f[t.root]
  BY DEF Nearest, Walks, Toward
<1>3. P \subseteq Keys
  BY DEF Shape
<1> HIDE DEF f
<1>4. \A n \in P : f[n] = IF n = key \/ Onward(n) = Nil THEN n ELSE f[Onward(n)]
  <2>1. f = [n \in Keys |-> IF n = key \/ Onward(n) = Nil THEN n ELSE f[Onward(n)]]
    BY <1>1 DEF Walks
  <2> HIDE DEF Onward
  <2> QED
    BY <1>3, <2>1
<1>5. ASSUME NEW n \in P, \A s \in Sides :
          t.kid[s][n] \in P => t.kid[s][n] \in Good
      PROVE  n \in Good
  <2>1. Toward(key, n) \in Sides /\ n \in Keys
    BY <1>3, TowardIsBeyond DEF Sides
  <2>2. key \in D[n] => n = key \/ key \in D[Onward(n)]
    <3>1. SUFFICES ASSUME key \in D[n], n # key PROVE key \in D[Onward(n)]
      OBVIOUS
    <3>2. PICK s \in Sides : key \in D[t.kid[s][n]]
      BY <3>1, Subtrees, TwoSides
    <3>3. Beyond(s, key, n)
      BY <3>2, Subtrees
    <3> QED
      BY <2>1, <3>2, <3>3, TowardIsBeyond
  <2>3. CASE n = key
    <3>1. Ends(t, D, key, n) = {n} /\ f[n] = n
      BY <1>4, <2>3, EndsStep
    <3> QED
      BY <2>3, <3>1
  <2>4. CASE n # key /\ Onward(n) = Nil
    <3>1. Ends(t, D, key, n) = {n} /\ f[n] = n
      BY <1>4, <2>4, EndsStep
    <3>2. key \notin D[n]
      BY <2>2, <2>4 DEF Shape, Spans
    <3> QED
      BY <3>1, <3>2
  <2>5. CASE n # key /\ Onward(n) # Nil
    <3>1. Ends(t, D, key, n) = Ends(t, D, key, Onward(n)) /\ f[n] = f[Onward(n)]
      BY <1>4, <2>5, EndsStep
    <3>2. Onward(n) \in P
      BY <2>1, <2>5, Subtrees
    <3>3. Onward(n) \in Good
      BY <1>5, <2>1, <3>2
    <3> QED
      BY <2>2, <2>5, <3>1, <3>3
  <2> QED
    BY <2>3, <2>4, <2>5
<1>6. P \subseteq Good
  <2> HIDE DEF Good
  <2> QED
    BY <1>5, SpanInduction
<1>7. t.root \in P /\ D[t.root] = P
  BY DEF Shape, Spans, Linked
<1>8. f[t.root] \in Ends(t, D, key, t.root) /\ (key \in P => f[t.root] = key)
  BY <1>6, <1>7
<1> QED
  BY <1>2, <1>7, <1>8 DEF Ends

(* get() finds the value of a key in the tree and of no other. *)
LEMMA FindNodeRight ==
    ASSUME NEW t, NEW P, NEW D, Shape(t, P, D), NEW key \in Keys
    PROVE  /\ FindNode(t, key) = IF key \in P THEN key ELSE Nil
           /\ Get(t, key) = IF key \in P THEN t.value[key] ELSE Nil
<1>1. FindNode(t, key) = IF key \in P THEN key ELSE Nil
  <2>1. CASE t.root = Nil
    <3>1. P = {}
      BY <2>1 DEF Shape, Spans
    <3> QED
      BY <2>1, <3>1 DEF FindNode
  <2>2. CASE t.root # Nil
    <3>1. Nearest(t, key) \in P /\ (key \in P => Nearest(t, key) = key)
      BY <2>2, NearestRight
    <3> QED
      BY <2>2, <3>1 DEF FindNode
  <2> QED
    BY <2>1, <2>2
<1>2. key # Nil
  BY Constants
<1> QED
  BY <1>1, <1>2 DEF Get

-----------------------------------------------------------------------------
(* Keys in order *)

(* s lists the keys S in order. *)
Listing(s, S) == s \in Seq(Keys) /\ InOrder(s, S)

(* Two lists of the same keys in order are the same, as long as the keys   *)
(* are many.                                                               *)
LEMMA SameList ==
    ASSUME NEW S \in SUBSET Keys, NEW s, NEW r, Listing(s, S), Listing(r, S)
    PROVE  s = r /\ Len(s) = Cardinality(S)
<1>1. ASSUME NEW q, Listing(q, S)
      PROVE  /\ Len(q) \in Nat /\ q \in [1..Len(q) -> S]
             /\ \A i, j \in 1..Len(q) : i < j => q[i] < q[j]
             /\ \A x \in S : \E i \in 1..Len(q) : q[i] = x
             /\ Cardinality(S) = Len(q)
  <2>1. /\ Len(q) \in Nat /\ q \in [1..Len(q) -> S] /\ DOMAIN q = 1..Len(q)
        /\ \A i, j \in 1..Len(q) : i < j => q[i] < q[j]
        /\ \A x \in S : \E i \in 1..Len(q) : q[i] = x
    <3>1. q \in Seq(Keys) /\ DOMAIN q = 1..Len(q) /\ Len(q) \in Nat
      BY <1>1 DEF Listing
    <3>2. /\ \A i, j \in 1..Len(q) : i < j => q[i] < q[j]
          /\ {q[i] : i \in 1..Len(q)} = S
      BY <1>1, <3>1 DEF Listing, InOrder
    <3>3. q \in [1..Len(q) -> S]
      BY <3>1, <3>2
    <3> QED
      BY <3>1, <3>2, <3>3
  <2>2. \A i, j \in 1..Len(q) : q[i] = q[j] => i = j
    <3>1. \A i \in 1..Len(q) : q[i] \in Nat
      BY <2>1, Constants
    <3> QED
      BY <2>1, <3>1
  <2>3. q \in Bijection(1..Len(q), S)
    BY <2>1, <2>2 DEF Bijection, Injection, Surjection, IsInjective
  <2>4. IsFiniteSet(1..Len(q)) /\ Cardinality(1..Len(q)) = Len(q)
    BY <2>1, FS_Interval
  <2>5. Cardinality(1..Len(q)) = Cardinality(S)
    <3>1. ExistsBijection(1..Len(q), S)
      BY <2>3 DEF ExistsBijection
    <3> QED
      BY <2>4, <3>1, FS_Bijection
  <2> QED
    BY <2>1, <2>4, <2>5
<1> DEFINE n == Len(s)
           Same == {i \in 1..n : s[i] = r[i]}
<1>2. /\ n \in Nat /\ Len(r) = n /\ s \in [1..n -> S] /\ r \in [1..n -> S]
      /\ \A i, j \in 1..n : i < j => s[i] < s[j]
      /\ \A i, j \in 1..n : i < j => r[i] < r[j]
      /\ \A x \in S : \E i \in 1..n : s[i] = x
      /\ \A x \in S : \E i \in 1..n : r[i] = x
  BY <1>1
<1>3. \A i \in 1..n : s[i] \in Nat /\ r[i] \in Nat /\ s[i] \in S /\ r[i] \in S
  BY <1>2, Constants
<1> HIDE DEF n
<1>4. \A i \in 1..n : s[i] = r[i]
  <2> SUFFICES ASSUME NEW b \in 1..n, s[b] # r[b] PROVE FALSE
    OBVIOUS
  <2> DEFINE T == {i \in 1..n : s[i] # r[i]}
  <2>1. PICK m \in T : \A i \in T : m <= i
    <3>1. T \in SUBSET Nat /\ T # {}
      OBVIOUS
    <3> HIDE DEF T
    <3> QED
      BY <3>1, LeastNumber
  <2>2. m \in 1..n /\ s[m] # r[m] /\ \A i \in 1..n : i < m => s[i] = r[i]
    <3>1. \A i \in 1..n : i < m => i \notin T
      <4>1. \A i \in T : ~ (i < m)
        BY <1>2, <2>1
      <4> QED
        BY <4>1
    <3> QED
      BY <3>1
  <2>3. PICK j \in 1..n : r[j] = s[m]
    BY <1>2, <1>3, <2>2
  <2>4. PICK k \in 1..n : s[k] = r[m]
    BY <1>2, <1>3, <2>2
  <2> HIDE DEF T
  <2>5. m < j
    <3>1. ~ (j < m)
      <4> SUFFICES ASSUME j < m PROVE FALSE
        OBVIOUS
      <4>1. s[j] = s[m] /\ s[j] < s[m]
        BY <1>2, <2>2, <2>3
      <4> QED
        BY <1>3, <2>2, <4>1
    <3> QED
      BY <1>2, <2>2, <2>3, <3>1
  <2>6. m < k
    <3>1. ~ (k < m)
      <4> SUFFICES ASSUME k < m PROVE FALSE
        OBVIOUS
      <4>1. r[k] = r[m] /\ r[k] < r[m]
        BY <1>2, <2>2, <2>4
      <4> QED
        BY <1>3, <2>2, <4>1
    <3> QED
      BY <1>2, <2>2, <2>4, <3>1
  <2>7. r[m] < s[m] /\ s[m] < r[m]
    BY <1>2, <2>2, <2>3, <2>4, <2>5, <2>6
  <2> QED
    BY <1>3, <2>2, <2>7
<1>5. s = r
  BY <1>2, <1>4
<1> QED
  BY <1>1, <1>5

(* Every set of keys can be listed in order. *)
LEMMA ListExists ==
    ASSUME NEW S \in SUBSET Keys
    PROVE  \E s : Listing(s, S)
<1>1. S \in SUBSET Nat /\ IsFiniteSet(S)
  BY Constants, FS_Subset
<1>2. PICK s : ListsUpwards(s, Cardinality(S), S)
  BY <1>1, UpwardsExists
<1>3. \A v \in S : \E i \in 1..Cardinality(S) : s[i] = v
  BY <1>1, <1>2, UpwardsAll
<1> DEFINE n == Cardinality(S)
<1>4. n \in Nat
  BY <1>1, FS_CardinalityType
<1> HIDE DEF n
<1>5. s \in [1..n -> S] /\ \A i, j \in 1..n : i < j => s[i] < s[j]
  BY <1>2 DEF ListsUpwards, n
<1>6. s \in Seq(Keys) /\ DOMAIN s = 1..n
  BY <1>4, <1>5
<1>7. {s[i] : i \in DOMAIN s} = S
  BY <1>3, <1>5, <1>6 DEF n
<1> QED
  BY <1>5, <1>6, <1>7 DEF Listing, InOrder

(* Lists of smaller and of larger keys, one after the other, are in order. *)
LEMMA JoinLists ==
    ASSUME NEW A, NEW B, NEW a, NEW b, Listing(a, A), Listing(b, B),
           \A x \in A, y \in B : x < y
    PROVE  Listing(a \o b, A \cup B)
<1> DEFINE c == a \o b
<1>0. Len(a) \in Nat /\ Len(b) \in Nat
  BY DEF Listing
<1>1. /\ a \in Seq(Keys) /\ b \in Seq(Keys) /\ c \in Seq(Keys)
      /\ Len(a) \in Nat /\ Len(b) \in Nat
      /\ DOMAIN a = 1..Len(a) /\ DOMAIN b = 1..Len(b)
      /\ DOMAIN c = 1..(Len(a) + Len(b))
      /\ \A i \in 1..Len(a) : c[i] = a[i]
      /\ \A i \in (Len(a) + 1)..(Len(a) + Len(b)) : c[i] = b[i - Len(a)]
  BY DEF Listing
<1>2. /\ \A i, j \in 1..Len(a) : i < j => a[i] < a[j]
      /\ \A i, j \in 1..Len(b) : i < j => b[i] < b[j]
      /\ \A i \in 1..Len(a) : a[i] \in A
      /\ \A i \in 1..Len(b) : b[i] \in B
      /\ \A x \in A : \E i \in 1..Len(a) : a[i] = x
      /\ \A x \in B : \E i \in 1..Len(b) : b[i] = x
  BY <1>1 DEF Listing, InOrder
<1> HIDE DEF c
<1>3. ASSUME NEW i \in DOMAIN c
      PROVE  \/ i \in 1..Len(a) /\ c[i] = a[i]
             \/ i - Len(a) \in 1..Len(b) /\ c[i] = b[i - Len(a)]
  BY <1>1
<1>4. ASSUME NEW i \in DOMAIN c, NEW j \in DOMAIN c, i < j
      PROVE  c[i] < c[j]
  <2>1. CASE j \in 1..Len(a)
    <3>1. i \in 1..Len(a)
      BY <1>1, <1>4, <2>1
    <3> QED
      BY <1>1, <1>2, <1>4, <2>1, <3>1
  <2>2. CASE j \notin 1..Len(a)
    <3>1. j - Len(a) \in 1..Len(b) /\ c[j] = b[j - Len(a)]
      BY <1>3, <2>2
    <3>2. CASE i \in 1..Len(a)
      BY <1>1, <1>2, <3>1, <3>2
    <3>3. CASE i \notin 1..Len(a)
      <4>1. i - Len(a) \in 1..Len(b) /\ c[i] = b[i - Len(a)]
            /\ i - Len(a) < j - Len(a)
        BY <1>1, <1>3, <1>4, <3>3
      <4> QED
        BY <1>2, <3>1, <4>1
    <3> QED
      BY <3>2, <3>3
  <2> QED
    BY <2>1, <2>2
<1>5. \A i \in DOMAIN c : c[i] \in A \cup B
  BY <1>2, <1>3
<1>6. ASSUME NEW x \in A \cup B PROVE \E i \in DOMAIN c : c[i] = x
  <2>1. CASE x \in A
    <3>1. PICK i \in 1..Len(a) : a[i] = x
      BY <1>2, <2>1
    <3>2. i \in DOMAIN c
      <4>1. i \in 1..(Len(a) + Len(b))
        BY <3>1, <1>0
      <4> QED
        BY <4>1, <1>1
    <3>3. c[i] = a[i]
      BY <1>1
    <3> QED
      BY <3>1, <3>2, <3>3
  <2>2. CASE x \in B
    <3>1. PICK i \in 1..Len(b) : b[i] = x
      BY <1>2, <2>2
    <3>2. i + Len(a) \in (Len(a) + 1)..(Len(a) + Len(b))
          /\ (i + Len(a)) - Len(a) = i /\ i + Len(a) \in DOMAIN c
      BY <1>1
    <3> QED
      BY <1>1, <3>1, <3>2
  <2> QED
    BY <2>1, <2>2
<1>7. {c[i] : i \in DOMAIN c} = A \cup B
  BY <1>5, <1>6
<1>8. Listing(c, A \cup B)
  BY <1>1, <1>4, <1>7 DEF Listing, InOrder
<1> QED
  BY <1>8 DEF c

(* Lists of no key and of one. *)
LEMMA ShortLists ==
    /\ Listing(<< >>, {})
    /\ \A k \in Keys : Listing(<<k>>, {k})
BY Constants DEF Listing, InOrder

-----------------------------------------------------------------------------
(* Traversals *)

(* What a visit to n adds to what it found on the left and on the right,   *)
(* when it looks left of the nodes Ls, right of the nodes Rs and takes the *)
(* nodes Ms.                                                               *)
Around(n, l, r, Ls, Ms, Rs) ==
    (IF n \in Ls THEN l ELSE << >>)
      \o (IF n \in Ms THEN <<n>> ELSE << >>)
      \o (IF n \in Rs THEN r ELSE << >>)

(* v[n] is what such a traversal finds at and below n. *)
Visits(v, t, Ls, Ms, Rs) ==
    v = [n \in Node |->
           IF n = Nil THEN << >>
           ELSE Around(n, v[t.kid["left"][n]], v[t.kid["right"][n]],
                       Ls, Ms, Rs)]

(* Where it does not look there is no node to take. *)
Prunes(Ls, Ms, Rs) ==
    /\ Ms \subseteq Keys
    /\ \A n \in Keys \ Ls, x \in Ms : ~ (x < n)
    /\ \A n \in Keys \ Rs, x \in Ms : ~ (n < x)

(* A visit lists the nodes to take, in order, when the visits to the       *)
(* subtrees do.                                                            *)
LEMMA VisitStep ==
    ASSUME NEW t, NEW P, NEW D, Shape(t, P, D), NEW Ls, NEW Ms, NEW Rs,
           Prunes(Ls, Ms, Rs), NEW n \in P, NEW l, NEW r,
           Listing(l, D[t.kid["left"][n]] \cap Ms),
           Listing(r, D[t.kid["right"][n]] \cap Ms)
    PROVE  Listing(Around(n, l, r, Ls, Ms, Rs), D[n] \cap Ms)
<1> DEFINE L == D[t.kid["left"][n]] \cap Ms
           R == D[t.kid["right"][n]] \cap Ms
           M == {n} \cap Ms
           a == IF n \in Ls THEN l ELSE << >>
           b == IF n \in Ms THEN <<n>> ELSE << >>
           c == IF n \in Rs THEN r ELSE << >>
<1>1. P \subseteq Keys /\ n \in Keys /\ n \in Nat
  BY Constants DEF Shape
<1>2. /\ D[n] = {n} \cup D[t.kid["left"][n]] \cup D[t.kid["right"][n]]
      /\ \A x \in L : x < n
      /\ \A x \in R : n < x
  <2>1. /\ D[n] = {n} \cup D[t.kid["left"][n]] \cup D[t.kid["right"][n]]
        /\ \A x \in L : Beyond("left", x, n)
        /\ \A x \in R : Beyond("right", x, n)
    BY TwoSides DEF Shape, Spans
  <2> QED
    BY <2>1 DEF Beyond
<1>3. \A x \in L \cup R : x \in Nat
  <2>1. L \cup R \subseteq P
    BY Subtrees, TwoSides
  <2> QED
    BY <1>1, <2>1, Constants
<1>4. Listing(a, L)
  <2>1. CASE n \in Ls
    BY <2>1
  <2>2. CASE n \notin Ls
    <3>1. L = {}
      BY <1>1, <1>2, <2>2 DEF Prunes
    <3> QED
      BY <2>2, <3>1, ShortLists
  <2> QED
    BY <2>1, <2>2
<1>5. Listing(c, R)
  <2>1. CASE n \in Rs
    BY <2>1
  <2>2. CASE n \notin Rs
    <3>1. R = {}
      BY <1>1, <1>2, <2>2 DEF Prunes
    <3> QED
      BY <2>2, <3>1, ShortLists
  <2> QED
    BY <2>1, <2>2
<1>6. Listing(b, M)
  BY <1>1, ShortLists
<1>7. \A x \in L, y \in M : x < y
  BY <1>2
<1>8. \A x \in L \cup M, y \in R : x < y
  <2> SUFFICES ASSUME NEW x \in L \cup M, NEW y \in R PROVE x < y
    OBVIOUS
  <2>1. n < y /\ y \in Nat /\ x \in Nat /\ (x = n \/ x < n)
    BY <1>1, <1>2, <1>3
  <2> QED
    BY <1>1, <2>1
<1> HIDE DEF L, M, R, a, b, c
<1>9. Listing(a \o b, L \cup M)
  BY <1>4, <1>6, <1>7, JoinLists
<1>10. Listing((a \o b) \o c, (L \cup M) \cup R)
  BY <1>5, <1>8, <1>9, JoinLists
<1>11. (L \cup M) \cup R = D[n] \cap Ms
  BY <1>2 DEF L, M, R
<1> QED
  BY <1>10, <1>11 DEF Around, a, b, c

(* The traversal is defined, although the recursion is on the links. *)
LEMMA VisitExists ==
    ASSUME NEW t, NEW P, NEW D, Shape(t, P, D), NEW Ls, NEW Ms, NEW Rs,
           Prunes(Ls, Ms, Rs)
    PROVE  \E v : Visits(v, t, Ls, Ms, Rs)
<1> DEFINE List(S) == CHOOSE s : Listing(s, S)
           v == [n \in Node |-> IF n \in P THEN List(D[n] \cap Ms)
                                ELSE IF n \in Ms THEN <<n>> ELSE << >>]
           Body(n) == IF n = Nil THEN << >>
                      ELSE Around(n, v[t.kid["left"][n]], v[t.kid["right"][n]],
                                  Ls, Ms, Rs)
<1>1. P \subseteq Keys /\ Ms \subseteq Keys
  BY DEF Shape, Prunes
<1>2. \A S \in SUBSET Keys : Listing(List(S), S)
  BY ListExists
<1>3. /\ \A n \in P : v[n] = List(D[n] \cap Ms)
      /\ \A n \in Keys \ P : v[n] = IF n \in Ms THEN <<n>> ELSE << >>
      /\ v[Nil] = << >>
  BY <1>1, Constants
<1>4. v = [n \in Node |-> v[n]]
  OBVIOUS
<1> HIDE DEF v, List
<1>5. ASSUME NEW n \in Node PROVE v[n] = Body(n)
  <2>1. CASE n = Nil
    BY <1>3, <2>1
  <2>2. CASE n \in Keys \ P
    <3>1. t.kid["left"][n] = Nil /\ t.kid["right"][n] = Nil
      BY <2>2, TwoSides DEF Shape, Linked
    <3>2. n # Nil /\ << >> \o << >> = << >> /\ << >> \o <<n>> = <<n>>
          /\ <<n>> \o << >> = <<n>>
      <4>1. n # Nil /\ <<n>> \in Seq(Keys)
        BY <2>2, Constants
      <4>2. << >> \o <<n>> = <<n>> /\ <<n>> \o << >> = <<n>>
        BY <4>1, SMT
      <4>3. << >> \o << >> = << >>
        OBVIOUS
      <4> QED
        BY <4>1, <4>2, <4>3
    <3>3. v[t.kid["left"][n]] = << >> /\ v[t.kid["right"][n]] = << >>
      BY <1>3, <3>1
    <3>4. Body(n) = IF n \in Ms THEN <<n>> ELSE << >>
      BY <3>2, <3>3 DEF Around
    <3> QED
      BY <1>3, <2>2, <3>4
  <2>3. CASE n \in P
    <3>1. ASSUME NEW s \in Sides
          PROVE  Listing(v[t.kid[s][n]], D[t.kid[s][n]] \cap Ms)
      <4>1. CASE t.kid[s][n] \in P
        <5>1. D[t.kid[s][n]] \cap Ms \in SUBSET Keys
          BY <1>1
        <5> QED
          BY <1>2, <1>3, <4>1, <5>1
      <4>2. CASE t.kid[s][n] = Nil
        <5>1. D[t.kid[s][n]] = {}
          BY <4>2 DEF Shape, Spans
        <5>2. D[t.kid[s][n]] \cap Ms = {}
          BY <5>1
        <5> QED
          BY <1>3, <4>2, <5>2, ShortLists
      <4> QED
        BY <2>3, <4>1, <4>2, Subtrees
    <3>2. Listing(Body(n), D[n] \cap Ms)
      <4>1. n # Nil
        BY <1>1, <2>3, Constants
      <4> QED
        BY <2>3, <3>1, <4>1, VisitStep, TwoSides
    <3>3. Listing(v[n], D[n] \cap Ms)
      <4>1. D[n] \cap Ms \in SUBSET Keys
        BY <1>1
      <4> QED
        BY <1>2, <1>3, <2>3, <4>1
    <3> QED
      <4>1. D[n] \cap Ms \in SUBSET Keys
        BY <1>1
      <4> QED
        BY <3>2, <3>3, <4>1, SameList
  <2> QED
    BY <2>1, <2>2, <2>3 DEF Node
<1>6. v = [n \in Node |-> Body(n)]
  <2> HIDE DEF Body
  <2> QED
    BY <1>4, <1>5
<1> QED
  BY <1>6 DEF Visits

(* It lists the nodes to take in order. *)
LEMMA VisitsRight ==
    ASSUME NEW t, NEW P, NEW D, Shape(t, P, D), NEW Ls, NEW Ms, NEW Rs,
           Prunes(Ls, Ms, Rs), NEW v, Visits(v, t, Ls, Ms, Rs)
    PROVE  Listing(v[t.root], P \cap Ms)
<1> DEFINE Good == {n \in P : Listing(v[n], D[n] \cap Ms)}
           Body(n) == IF n = Nil THEN << >>
                      ELSE Around(n, v[t.kid["left"][n]], v[t.kid["right"][n]],
                                  Ls, Ms, Rs)
<1>1. \A n \in Node : v[n] = Body(n)
  <2>1. v = [n \in Node |-> Body(n)]
    BY DEF Visits
  <2> HIDE DEF Body
  <2> QED
    BY <2>1
<1>2. P \subseteq Keys
  BY DEF Shape
<1>3. v[Nil] = << >> /\ D[Nil] \cap Ms = {}
  BY <1>1, Constants DEF Shape, Spans
<1>4. Listing(v[Nil], D[Nil] \cap Ms)
  BY <1>3, ShortLists
<1>5. ASSUME NEW n \in P, \A s \in Sides :
          t.kid[s][n] \in P => t.kid[s][n] \in Good
      PROVE  n \in Good
  <2>1. ASSUME NEW s \in Sides
        PROVE  Listing(v[t.kid[s][n]], D[t.kid[s][n]] \cap Ms)
    <3>1. t.kid[s][n] \in P \cup {Nil}
      BY Subtrees
    <3> QED
      BY <1>4, <1>5, <3>1
  <2>2. v[n] = Around(n, v[t.kid["left"][n]], v[t.kid["right"][n]], Ls, Ms, Rs)
    BY <1>1, <1>2, Constants
  <2>3. Listing(v[n], D[n] \cap Ms)
    <3>1. /\ Listing(v[t.kid["left"][n]], D[t.kid["left"][n]] \cap Ms)
          /\ Listing(v[t.kid["right"][n]], D[t.kid["right"][n]] \cap Ms)
      BY <2>1, TwoSides
    <3> HIDE DEF Good, Body
    <3> QED
      BY <2>2, <3>1, VisitStep
  <2> QED
    BY <2>3
<1>6. P \subseteq Good
  <2> HIDE DEF Good
  <2> QED
    BY <1>5, SpanInduction
<1>7. t.root \in P \cup {Nil} /\ D[t.root] = P
  BY DEF Shape, Spans, Linked
<1> QED
  BY <1>4, <1>6, <1>7

(* entries() lists the nodes of the tree in order. *)
LEMMA EntriesRight ==
    ASSUME NEW t, NEW P, NEW D, Shape(t, P, D)
    PROVE  Listing(Entries(t), P)
<1> DEFINE Simple(v) ==
             v = [n \in Node |->
                    IF n = Nil THEN << >>
                    ELSE v[t.kid["left"][n]] \o <<n>> \o v[t.kid["right"][n]]]
           f == CHOOSE f : Simple(f)
<1>1. ASSUME NEW v PROVE Visits(v, t, Keys, Keys, Keys) <=> Simple(v)
  <2> DEFINE Body(n) == IF n = Nil THEN << >>
                        ELSE Around(n, v[t.kid["left"][n]],
                                    v[t.kid["right"][n]], Keys, Keys, Keys)
             Plain(n) == IF n = Nil THEN << >>
                         ELSE v[t.kid["left"][n]] \o <<n>> \o v[t.kid["right"][n]]
  <2>1. \A n \in Node : Body(n) = Plain(n)
    BY DEF Node, Around
  <2>2. [n \in Node |-> Body(n)] = [n \in Node |-> Plain(n)]
    <3> HIDE DEF Body, Plain
    <3> QED
      BY <2>1
  <2> QED
    BY <2>2 DEF Visits
<1>2. Prunes(Keys, Keys, Keys)
  BY DEF Prunes
<1>3. Simple(f)
  <2>1. \E v : Simple(v)
    BY <1>1, <1>2, VisitExists
  <2> HIDE DEF Simple
  <2> QED
    BY <2>1
<1>4. Entries(t) = f[t.root]
  BY DEF Entries
<1> HIDE DEF f
<1>5. Visits(f, t, Keys, Keys, Keys)
  BY <1>1, <1>3
<1>6. Listing(f[t.root], P \cap Keys)
  BY <1>2, <1>5, VisitsRight
<1>7. P \cap Keys = P
  BY DEF Shape
<1> QED
  BY <1>4, <1>6, <1>7

(* range() lists the nodes within its bounds in order. *)
LEMMA RangeOfRight ==
    ASSUME NEW t, NEW P, NEW D, Shape(t, P, D),
           NEW start \in Keys, NEW end \in Keys
    PROVE  Listing(RangeOf(t, start, end),
                   {k \in P : start <= k /\ k <= end})
<1> DEFINE Ls == {n \in Keys : n > start}
           Ms == {n \in Keys : n >= start /\ n <= end}
           Rs == {n \in Keys : n < end}
           Simple(v) ==
             v = [n \in Node |->
                    IF n = Nil THEN << >>
                    ELSE (IF n > start THEN v[t.kid["left"][n]] ELSE << >>)
                      \o (IF n >= start /\ n <= end THEN <<n>> ELSE << >>)
                      \o (IF n < end THEN v[t.kid["right"][n]] ELSE << >>)]
           f == CHOOSE f : Simple(f)
<1>1. ASSUME NEW v PROVE Visits(v, t, Ls, Ms, Rs) <=> Simple(v)
  <2> DEFINE Body(n) == IF n = Nil THEN << >>
                        ELSE Around(n, v[t.kid["left"][n]],
                                    v[t.kid["right"][n]], Ls, Ms, Rs)
             Plain(n) == IF n = Nil THEN << >>
                    ELSE (IF n > start THEN v[t.kid["left"][n]] ELSE << >>)
                      \o (IF n >= start /\ n <= end THEN <<n>> ELSE << >>)
                      \o (IF n < end THEN v[t.kid["right"][n]] ELSE << >>)
  <2>1. \A n \in Node : Body(n) = Plain(n)
    <3> SUFFICES ASSUME NEW n \in Node, n # Nil PROVE Body(n) = Plain(n)
      OBVIOUS
    <3>1. /\ n \in Ls <=> n > start
          /\ n \in Ms <=> n >= start /\ n <= end
          /\ n \in Rs <=> n < end
      BY DEF Node
    <3> HIDE DEF Ls, Ms, Rs
    <3> QED
      BY <3>1 DEF Around
  <2>2. [n \in Node |-> Body(n)] = [n \in Node |-> Plain(n)]
    <3> HIDE DEF Body, Plain
    <3> QED
      BY <2>1
  <2> QED
    BY <2>2 DEF Visits
<1>2. Prunes(Ls, Ms, Rs)
  BY Constants DEF Prunes
<1>3. P \cap Ms = {k \in P : start <= k /\ k <= end}
  BY Constants DEF Shape
<1> HIDE DEF Ls, Ms, Rs
<1>4. Simple(f)
  <2>1. \E v : Simple(v)
    BY <1>1, <1>2, VisitExists
  <2> HIDE DEF Simple
  <2> QED
    BY <2>1
<1>5. RangeOf(t, start, end) = f[t.root]
  BY DEF RangeOf
<1> HIDE DEF f
<1>6. Visits(f, t, Ls, Ms, Rs)
  BY <1>1, <1>4
<1>7. Listing(f[t.root], P \cap Ms)
  BY <1>2, <1>6, VisitsRight
<1> QED
  BY <1>3, <1>5, <1>7

-----------------------------------------------------------------------------
(* Changing links *)

(* What SetKid does to each field. *)
LEMMA SetKidIs ==
    ASSUME NEW t \in Tree, NEW s \in Sides, NEW n \in Keys, NEW m \in Node
    PROVE  LET r == SetKid(t, s, n, m)
           IN  /\ r \in Tree
               /\ r.root = t.root /\ r.red = t.red /\ r.value = t.value
               /\ \A q \in Sides, x \in Keys :
                     r.kid[q][x] = IF q = s /\ x = n THEN m ELSE t.kid[q][x]
               /\ \A x \in Keys : r.up[x] = IF x = m THEN n ELSE t.up[x]
<1> DEFINE r == SetKid(t, s, n, m)
           kid == [t.kid EXCEPT ![s] = [t.kid[s] EXCEPT ![n] = m]]
           up == IF m = Nil THEN t.up ELSE [t.up EXCEPT ![m] = n]
<1>1. /\ t.root \in Node /\ t.kid \in [Sides -> [Keys -> Node]]
      /\ t.up \in [Keys -> Node] /\ t.red \in [Keys -> BOOLEAN]
      /\ t.value \in [Keys -> Values \cup {Nil}]
  BY DEF Tree
<1>2. r = [root |-> t.root, kid |-> kid, up |-> up, red |-> t.red,
           value |-> t.value]
  <2>1. t = [root |-> t.root, kid |-> t.kid, up |-> t.up, red |-> t.red,
             value |-> t.value]
    BY DEF Tree
  <2>2. r = [t EXCEPT !.kid = kid, !.up = up]
    BY <2>1 DEF SetKid
  <2> HIDE DEF r, kid, up
  <2> QED
    BY <2>1, <2>2
<1>3. kid \in [Sides -> [Keys -> Node]]
      /\ \A q \in Sides, x \in Keys :
            kid[q][x] = IF q = s /\ x = n THEN m ELSE t.kid[q][x]
  BY <1>1
<1>4. up \in [Keys -> Node]
      /\ \A x \in Keys : up[x] = IF x = m THEN n ELSE t.up[x]
  BY <1>1, Constants DEF Node
<1> HIDE DEF r, kid, up
<1>5. r \in Tree
  BY <1>1, <1>2, <1>3, <1>4 DEF Tree
<1> QED
  BY <1>2, <1>3, <1>4, <1>5 DEF r

(* The same as a predicate of the tree after. *)
KidSet(t, s, n, m, r) ==
    /\ r \in Tree /\ r.root = t.root /\ r.red = t.red /\ r.value = t.value
    /\ \A q \in Sides, x \in Keys :
          r.kid[q][x] = IF q = s /\ x = n THEN m ELSE t.kid[q][x]
    /\ \A x \in Keys : r.up[x] = IF x = m THEN n ELSE t.up[x]

(* SetKid leads to such a tree. *)
LEMMA SetKidSets ==
    ASSUME NEW t \in Tree, NEW s \in Sides, NEW n \in Keys, NEW m \in Node
    PROVE  KidSet(t, s, n, m, SetKid(t, s, n, m))
BY SetKidIs DEF KidSet

(* What Transplant does to each field. *)
LEMMA TransplantIs ==
    ASSUME NEW t \in Tree, NEW u \in Keys, NEW v \in Node
    PROVE  LET r == Transplant(t, u, v)
               p == t.up[u]
           IN  /\ r \in Tree
               /\ r.red = t.red /\ r.value = t.value
               /\ r.root = IF p = Nil THEN v ELSE t.root
               /\ \A q \in Sides, x \in Keys :
                     r.kid[q][x] = IF x = p /\ q = SideOf(t, u, p) THEN v
                                   ELSE t.kid[q][x]
               /\ \A x \in Keys : r.up[x] = IF x = v THEN p ELSE t.up[x]
<1> DEFINE r == Transplant(t, u, v)
           p == t.up[u]
           s == SideOf(t, u, p)
           root == IF p = Nil THEN v ELSE t.root
           kid == IF p = Nil THEN t.kid
                  ELSE [t.kid EXCEPT ![s] = [t.kid[s] EXCEPT ![p] = v]]
           up == IF v = Nil THEN t.up ELSE [t.up EXCEPT ![v] = p]
<1>1. /\ t.root \in Node /\ t.kid \in [Sides -> [Keys -> Node]]
      /\ t.up \in [Keys -> Node] /\ t.red \in [Keys -> BOOLEAN]
      /\ t.value \in [Keys -> Values \cup {Nil}]
  BY DEF Tree
<1>2. r = [root |-> root, kid |-> kid, up |-> up, red |-> t.red,
           value |-> t.value]
  <2>1. t = [root |-> t.root, kid |-> t.kid, up |-> t.up, red |-> t.red,
             value |-> t.value]
    BY DEF Tree
  <2>2. r = [t EXCEPT !.root = root, !.kid = kid, !.up = up]
    BY <2>1 DEF Transplant
  <2> HIDE DEF r, kid, up, root
  <2> QED
    BY <2>1, <2>2
<1>3. p \in Node /\ s \in Sides
  BY <1>1 DEF SideOf, Sides
<1>4. kid \in [Sides -> [Keys -> Node]]
      /\ \A q \in Sides, x \in Keys :
            kid[q][x] = IF x = p /\ q = s THEN v ELSE t.kid[q][x]
  <2> HIDE DEF p, s
  <2> QED
    BY <1>1, <1>3, Constants DEF Node
<1>5. up \in [Keys -> Node]
      /\ \A x \in Keys : up[x] = IF x = v THEN p ELSE t.up[x]
  BY <1>1, <1>3, Constants DEF Node
<1>6. root \in Node
  BY <1>1
<1> HIDE DEF r, kid, up, root, s
<1>7. r \in Tree
  BY <1>1, <1>2, <1>4, <1>5, <1>6 DEF Tree
<1> QED
  BY <1>2, <1>4, <1>5, <1>7 DEF r, root, s

(* The same as a predicate of the tree after. *)
Transplanted(t, u, v, r) ==
    /\ r \in Tree /\ r.red = t.red /\ r.value = t.value
    /\ r.root = IF t.up[u] = Nil THEN v ELSE t.root
    /\ \A q \in Sides, x \in Keys :
          r.kid[q][x] = IF x = t.up[u] /\ q = SideOf(t, u, t.up[u]) THEN v
                        ELSE t.kid[q][x]
    /\ \A x \in Keys : r.up[x] = IF x = v THEN t.up[u] ELSE t.up[x]

(* Transplant leads to such a tree. *)
LEMMA TransplantPuts ==
    ASSUME NEW t \in Tree, NEW u \in Keys, NEW v \in Node
    PROVE  Transplanted(t, u, v, Transplant(t, u, v))
BY TransplantIs DEF Transplanted

(* Only one side of its parent has a node. *)
LEMMA SideOfIs ==
    ASSUME NEW t, NEW P, NEW D, Shape(t, P, D), NEW n \in P, t.up[n] # Nil
    PROVE  LET p == t.up[n]
           IN  /\ p \in P /\ p # n
               /\ SideOf(t, n, p) \in Sides
               /\ \A q \in Sides : t.kid[q][p] = n <=> q = SideOf(t, n, p)
<1> DEFINE p == t.up[n]
<1>1. p \in P /\ \E s \in Sides : t.kid[s][p] = n
  BY DEF Shape, Linked
<1>2. n # Nil
  BY Constants DEF Shape
<1>3. \A s \in Sides : t.kid[s][p] = n => n # p /\ t.kid[Opposite(s)][p] # n
  BY <1>1, <1>2, Subtrees
<1>4. SideOf(t, n, p) = IF n = t.kid["left"][p] THEN "left" ELSE "right"
  BY DEF SideOf
<1> HIDE DEF p
<1> QED
  BY <1>1, <1>3, <1>4 DEF Sides, Opposite, p

(* What Rotate does to each field. *)
LEMMA RotateIs ==
    ASSUME NEW t, NEW P, NEW D, Shape(t, P, D), NEW s \in Sides, NEW n \in P,
           t.kid[Opposite(s)][n] # Nil
    PROVE  LET r == Rotate(t, s, n)
               o == Opposite(s)
               p == t.up[n]
               c == t.kid[o][n]
               b == t.kid[s][c]
           IN  /\ r \in Tree
               /\ r.red = t.red /\ r.value = t.value
               /\ r.root = IF p = Nil THEN c ELSE t.root
               /\ \A q \in Sides, x \in Keys :
                     r.kid[q][x] = IF x = n /\ q = o THEN b
                                   ELSE IF x = c /\ q = s THEN n
                                   ELSE IF t.kid[q][x] = n /\ x \in P THEN c
                                   ELSE t.kid[q][x]
               /\ \A x \in Keys :
                     r.up[x] = IF x = c THEN p ELSE IF x = n THEN c
                               ELSE IF x = b THEN n ELSE t.up[x]
<1> DEFINE o == Opposite(s)
           p == t.up[n]
           c == t.kid[o][n]
           b == t.kid[s][c]
           t1 == SetKid(t, o, n, b)
           t2 == Transplant(t1, n, c)
           t3 == SetKid(t2, s, c, n)
           h == SideOf(t, n, p)
<1>1. /\ t \in Tree /\ n \in Keys /\ P \subseteq Keys /\ o \in Sides
      /\ n \in Node /\ n # Nil
  BY TwoSides, Constants DEF Shape
<1>2. c \in P /\ c \in Keys /\ c \in Node /\ c # n /\ D[c] \subseteq D[n] /\ n \notin D[c]
  BY <1>1, Subtrees
<1>3. b \in Node /\ b # n /\ b # c
  <2>1. b \in Node /\ b # c /\ (b # Nil => b \in D[b]) /\ D[b] \subseteq D[c]
    BY <1>2, Subtrees
  <2> QED
    BY <1>1, <1>2, <2>1
<1>4. Rotate(t, s, n) = t3
  BY DEF Rotate
<1> HIDE DEF t1, t2, t3, o, p, c, b, h
<1>5. /\ t1 \in Tree /\ t1.root = t.root
      /\ t1.red = t.red /\ t1.value = t.value
      /\ \A q \in Sides, x \in Keys :
            t1.kid[q][x] = IF q = o /\ x = n THEN b ELSE t.kid[q][x]
      /\ \A x \in Keys : t1.up[x] = IF x = b THEN n ELSE t.up[x]
  <2>1. KidSet(t, o, n, b, t1)
    BY <1>1, <1>3, SetKidSets DEF t1
  <2> QED
    BY <2>1 DEF KidSet
<1>6. t1.up[n] = p
  BY <1>1, <1>3, <1>5 DEF p
<1>7. /\ t2 \in Tree
      /\ t2.red = t1.red /\ t2.value = t1.value
      /\ t2.root = IF p = Nil THEN c ELSE t1.root
      /\ \A q \in Sides, x \in Keys :
            t2.kid[q][x] = IF x = p /\ q = SideOf(t1, n, p) THEN c
                           ELSE t1.kid[q][x]
      /\ \A x \in Keys : t2.up[x] = IF x = c THEN p ELSE t1.up[x]
  <2>1. /\ t2 \in Tree
        /\ t2.red = t1.red /\ t2.value = t1.value
        /\ t2.root = IF t1.up[n] = Nil THEN c ELSE t1.root
        /\ \A q \in Sides, x \in Keys :
              t2.kid[q][x] = IF x = t1.up[n] /\ q = SideOf(t1, n, t1.up[n])
                             THEN c ELSE t1.kid[q][x]
        /\ \A x \in Keys : t2.up[x] = IF x = c THEN t1.up[n] ELSE t1.up[x]
    <3>1. t1 \in Tree /\ n \in Keys /\ c \in Node
      BY <1>1, <1>2, <1>5
    <3>2. Transplanted(t1, n, c, t2)
      BY <3>1, TransplantPuts DEF t2
    <3> QED
      BY <3>2 DEF Transplanted
  <2> QED
    BY <1>6, <2>1
<1>8. /\ t3 \in Tree /\ t3.root = t2.root
      /\ t3.red = t2.red /\ t3.value = t2.value
      /\ \A q \in Sides, x \in Keys :
            t3.kid[q][x] = IF q = s /\ x = c THEN n ELSE t2.kid[q][x]
      /\ \A x \in Keys : t3.up[x] = IF x = n THEN c ELSE t2.up[x]
  <2>1. t2 \in Tree /\ s \in Sides /\ c \in Keys /\ n \in Node
    BY <1>1, <1>2, <1>7
  <2>2. KidSet(t2, s, c, n, t3)
    BY <2>1, SetKidSets DEF t3
  <2> QED
    BY <2>2 DEF KidSet
<1>9. p # Nil => /\ p \in P /\ p \in Keys /\ p # n /\ h \in Sides
                 /\ \A q \in Sides : t.kid[q][p] = n <=> q = h
  BY <1>1, SideOfIs DEF p, h
<1>10. p # Nil => SideOf(t1, n, p) = h
  BY <1>1, <1>5, <1>9, TwoSides DEF SideOf, h
<1>11. \A q \in Sides, x \in P : t.kid[q][x] = n => x = p
  BY <1>1, Subtrees DEF p
<1>12. p \in Keys <=> p # Nil
  BY <1>1, <1>9, Constants
<1>13. c # p
  <2>1. CASE p = Nil
    BY <1>2, <2>1, Constants
  <2>2. CASE p # Nil
    <3>1. t.kid[h][p] = n /\ n \in D[n] /\ n \in D[p] /\ p \notin D[n]
      BY <1>1, <1>9, <2>2, Subtrees
    <3>2. D[n] \subseteq D[p] /\ c \in D[n]
      BY <1>1, <1>2, <1>9, <2>2, <3>1, BelowBelow, Subtrees DEF c
    <3> QED
      BY <3>1, <3>2
  <2> QED
    BY <2>1, <2>2
<1>14. ASSUME NEW q \in Sides, NEW x \in Keys
       PROVE  t3.kid[q][x] = IF x = n /\ q = o THEN b
                             ELSE IF x = c /\ q = s THEN n
                             ELSE IF t.kid[q][x] = n /\ x \in P THEN c
                             ELSE t.kid[q][x]
  <2>1. CASE x = n /\ q = o
    BY <1>2, <1>5, <1>7, <1>8, <1>9, <1>12, <2>1
  <2>2. CASE x = c /\ q = s
    BY <1>2, <1>8, <2>2
  <2>3. CASE ~(x = n /\ q = o) /\ ~(x = c /\ q = s)
    <3>1. t3.kid[q][x] = IF x = p /\ q = SideOf(t1, n, p) THEN c ELSE t.kid[q][x]
      BY <1>5, <1>7, <1>8, <2>3
    <3>2. x = p => SideOf(t1, n, p) = h /\ x \in P /\ (t.kid[q][x] = n <=> q = h)
      BY <1>9, <1>10, <1>12
    <3>3. x \in P /\ t.kid[q][x] = n => x = p
      BY <1>11
    <3> QED
      BY <2>3, <3>1, <3>2, <3>3
  <2> QED
    BY <2>1, <2>2, <2>3
<1>15. ASSUME NEW x \in Keys
       PROVE  t3.up[x] = IF x = c THEN p ELSE IF x = n THEN c
                         ELSE IF x = b THEN n ELSE t.up[x]
  BY <1>2, <1>5, <1>7, <1>8
<1> QED
  BY <1>4, <1>5, <1>7, <1>8, <1>14, <1>15 DEF o, p, c, b

(* A rotation keeps the shape: the child takes over what was below n, and  *)
(* n keeps its other subtree and takes the one between the two.            *)
LEMMA RotateKeeps ==
    ASSUME NEW t, NEW P, NEW D, Shape(t, P, D), NEW s \in Sides, NEW n \in P
    PROVE  \E E : Shape(Rotate(t, s, n), P, E)
<1> DEFINE o == Opposite(s)
           p == t.up[n]
           c == t.kid[o][n]
           b == t.kid[s][c]
           a == t.kid[s][n]
           d == t.kid[o][c]
           r == Rotate(t, s, n)
           E == [D EXCEPT ![c] = D[n], ![n] = {n} \cup D[a] \cup D[b]]
<1>1. CASE c = Nil
  BY <1>1 DEF Rotate
<1>2. CASE c # Nil
  <2>1. /\ t \in Tree /\ n \in Keys /\ P \subseteq Keys /\ o \in Sides
        /\ o # s /\ Opposite(o) = s /\ Nil \notin Keys /\ Nil \notin P
        /\ \A q \in Sides : q = s \/ q = o
    BY TwoSides, Constants DEF Shape
  <2>2. /\ D[n] = {n} \cup D[a] \cup D[c] /\ n \notin D[c]
        /\ a \in P \cup {Nil} /\ c \in P /\ c # n /\ a # n /\ c \in D[c]
        /\ D[a] \cap D[c] = {} /\ D[a] \subseteq P
        /\ a # c /\ t.up[c] = n /\ (a # Nil => t.up[a] = n /\ a \in D[a])
        /\ \A x \in D[a] : Beyond(s, x, n)
        /\ \A x \in D[c] : Beyond(o, x, n)
    <3>1. /\ D[n] = {n} \cup D[a] \cup D[c] /\ a # n /\ a \in P \cup {Nil}
          /\ D[a] \cap D[c] = {} /\ D[a] \subseteq P
          /\ (a # Nil => t.up[a] = n /\ a \in D[a] /\ a # c)
          /\ \A x \in D[a] : Beyond(s, x, n)
      BY Subtrees
    <3>2. /\ c \in P \cup {Nil} /\ c # n /\ n \notin D[c]
          /\ (c # Nil => t.up[c] = n /\ c \in D[c])
          /\ \A x \in D[c] : Beyond(o, x, n)
      <4>1. o \in Sides
        BY <2>1
      <4> HIDE DEF o
      <4> QED
        BY <4>1, Subtrees
    <3> QED
      BY <1>2, <3>1, <3>2
  <2>3. /\ D[c] = {c} \cup D[b] \cup D[d]
        /\ b \in P \cup {Nil} /\ d \in P \cup {Nil}
        /\ b # c /\ d # c /\ D[b] \subseteq P /\ D[d] \subseteq P
        /\ (b # Nil => t.up[b] = c /\ b \in D[b])
        /\ (d # Nil => t.up[d] = c /\ d \in D[d] /\ b # d)
        /\ \A x \in D[b] : Beyond(s, x, c)
        /\ \A x \in D[d] : Beyond(o, x, c)
    <3>1. c \in P /\ o \in Sides /\ Opposite(o) = s /\ o = Opposite(s)
      BY <2>1, <2>2
    <3> HIDE DEF c, o
    <3>2. /\ D[c] = {c} \cup D[b] \cup D[d] /\ b # c
          /\ b \in P \cup {Nil} /\ D[b] \subseteq P
          /\ (b # Nil => t.up[b] = c /\ b \in D[b] /\ b # d)
          /\ \A x \in D[b] : Beyond(s, x, c)
      BY <3>1, Subtrees
    <3>3. /\ d \in P \cup {Nil} /\ d # c /\ D[d] \subseteq P
          /\ (d # Nil => t.up[d] = c /\ d \in D[d] /\ b # d)
          /\ \A x \in D[d] : Beyond(o, x, c)
      BY <3>1, Subtrees
    <3> QED
      BY <3>2, <3>3
  <2>4. b # n /\ d # n
    BY <2>1, <2>2, <2>3
  <2>5. /\ r \in Tree /\ r.red = t.red /\ r.value = t.value
        /\ r.root = IF p = Nil THEN c ELSE t.root
        /\ \A q \in Sides, x \in Keys :
              r.kid[q][x] = IF x = n /\ q = o THEN b
                            ELSE IF x = c /\ q = s THEN n
                            ELSE IF t.kid[q][x] = n /\ x \in P THEN c
                            ELSE t.kid[q][x]
        /\ \A x \in Keys :
              r.up[x] = IF x = c THEN p ELSE IF x = n THEN c
                        ELSE IF x = b THEN n ELSE t.up[x]
    BY <1>2, RotateIs
  <2>6. /\ D \in [Node -> SUBSET P] /\ D[Nil] = {} /\ D[t.root] = P
        /\ t.root \in P \cup {Nil}
        /\ \A m \in P, q \in Sides :
              /\ t.kid[q][m] \in P \cup {Nil}
              /\ t.kid[q][m] # Nil => t.up[t.kid[q][m]] = m
              /\ \A x \in D[t.kid[q][m]] : Beyond(q, x, m)
        /\ \A m \in P : t.up[m] = Nil <=> m = t.root
        /\ \A m \in P : t.up[m] # Nil =>
              t.up[m] \in P /\ \E q \in Sides : t.kid[q][t.up[m]] = m
        /\ \A m \in Keys \ P, q \in Sides : t.kid[q][m] = Nil
        /\ \A m \in Keys \ P : t.up[m] = Nil
        /\ \A m \in P :
              D[m] = {m} \cup D[t.kid["left"][m]] \cup D[t.kid["right"][m]]
    BY DEF Shape, Spans, Linked
  <2>7. p \in P \cup {Nil} /\ p # n /\ p # c
    <3>1. p \in P \cup {Nil}
      BY <2>6
    <3>2. p # Nil => \E q \in Sides : t.kid[q][p] = n
      BY <2>6
    <3>3. p # n
      BY <2>1, <3>1, <3>2, <2>2
    <3>4. p # c
      BY <2>1, <2>2, <2>3, <2>4, <3>2
    <3> QED
      BY <3>1, <3>3, <3>4
  <2> HIDE DEF o, p, a, b, c, d, r
  <2>8. /\ E \in [Node -> SUBSET P]
        /\ E[c] = D[n] /\ E[n] = {n} \cup D[a] \cup D[b]
        /\ \A x \in Node : x # c /\ x # n => E[x] = D[x]
    <3>1. n \in Node /\ c \in Node
      BY <2>1, <2>2 DEF Node
    <3>2. D[n] \subseteq P
      BY <2>6, <3>1
    <3>3. {n} \cup D[a] \cup D[b] \subseteq P
      BY <2>2, <2>3
    <3> QED
      BY <2>2, <2>6, <3>1, <3>2, <3>3
  <2> HIDE DEF E
  <2>9. r.kid[o][n] = b /\ r.kid[s][n] = a /\ r.kid[s][c] = n /\ r.kid[o][c] = d
    BY <2>1, <2>2, <2>4, <2>5 DEF a, d
  <2>10. /\ P \subseteq Node /\ Nil \in Node
         /\ E[a] = D[a] /\ E[b] = D[b] /\ E[d] = D[d] /\ E[Nil] = {}
    <3>1. P \subseteq Node /\ Nil \in Node
      BY <2>1 DEF Node
    <3> QED
      BY <2>1, <2>2, <2>3, <2>4, <2>6, <2>8, <3>1
  <2>11. ASSUME NEW m \in P, m # n, m # c, NEW q \in Sides
         PROVE  /\ t.kid[q][m] = n => m = p /\ r.kid[q][m] = c
                /\ t.kid[q][m] # n => /\ r.kid[q][m] = t.kid[q][m]
                                      /\ t.kid[q][m] \notin {n, c}
                                      /\ t.kid[q][m] # Nil => t.kid[q][m] # b
                /\ E[r.kid[q][m]] = D[t.kid[q][m]]
                /\ r.kid[q][m] \in P \cup {Nil}
                /\ r.kid[q][m] # Nil => r.up[r.kid[q][m]] = m
    <3>1. t.kid[q][m] = n => m = p
      BY <2>1, <2>6, <2>11 DEF p
    <3>2. t.kid[q][m] # c
      BY <2>1, <2>2, <2>6, <2>11
    <3>3. t.kid[q][m] # Nil => t.kid[q][m] # b
      BY <2>1, <2>3, <2>6, <2>11
    <3>4. r.kid[q][m] = IF t.kid[q][m] = n THEN c ELSE t.kid[q][m]
      BY <2>1, <2>5, <2>11
    <3>5. t.kid[q][m] \in P \cup {Nil}
      BY <2>6
    <3>6. E[r.kid[q][m]] = D[t.kid[q][m]]
      BY <2>8, <2>10, <3>2, <3>4, <3>5
    <3>7. r.kid[q][m] # Nil => r.up[r.kid[q][m]] = m
      <4>1. CASE t.kid[q][m] = n
        BY <2>1, <2>2, <2>5, <3>1, <3>4, <4>1
      <4>2. CASE t.kid[q][m] # n
        BY <2>1, <2>5, <2>6, <3>2, <3>3, <3>4, <3>5, <4>2
      <4> QED
        BY <4>1, <4>2
    <3> QED
      BY <2>2, <3>1, <3>2, <3>3, <3>4, <3>5, <3>6, <3>7
  <2>12. Spans(r, P, E)
    <3>1. E[r.root] = P
      <4>1. CASE p = Nil
        BY <2>5, <2>6, <2>8, <4>1 DEF p
      <4>2. CASE p # Nil
        <5>1. t.root # n
          BY <2>6, <4>2 DEF p
        <5>2. t.root # c
          BY <2>1, <2>2, <2>6
        <5> QED
          BY <2>5, <2>6, <2>8, <2>10, <4>2, <5>1, <5>2
      <4> QED
        BY <4>1, <4>2
    <3>2. ASSUME NEW m \in P
          PROVE  E[m] = {m} \cup E[r.kid["left"][m]] \cup E[r.kid["right"][m]]
      <4>1. E[m] = {m} \cup E[r.kid[s][m]] \cup E[r.kid[o][m]]
        <5>1. CASE m = n
          BY <2>8, <2>9, <2>10, <5>1
        <5>2. CASE m = c
          <6>1. D[n] = {c} \cup E[n] \cup D[d]
            BY <2>2, <2>3, <2>8
          <6> QED
            BY <2>8, <2>9, <2>10, <5>2, <6>1
        <5>3. CASE m # n /\ m # c
          <6>1. D[m] = {m} \cup D[t.kid[s][m]] \cup D[t.kid[o][m]]
            BY <2>6 DEF o, Sides, Opposite
          <6>2. E[m] = D[m]
            BY <2>8, <2>10, <5>3
          <6> QED
            BY <2>1, <2>11, <5>3, <6>1, <6>2
        <5> QED
          BY <5>1, <5>2, <5>3
      <4> QED
        BY <4>1 DEF o, Sides, Opposite
    <3>3. ASSUME NEW m \in P, NEW q \in Sides, NEW x \in E[r.kid[q][m]]
          PROVE  Beyond(q, x, m)
      <4>1. CASE m # n /\ m # c
        BY <2>6, <2>11, <3>3, <4>1
      <4>2. CASE m = n /\ q = s
        BY <2>2, <2>9, <2>10, <3>3, <4>2
      <4>3. CASE m = n /\ q = o
        BY <2>2, <2>3, <2>9, <2>10, <3>3, <4>3
      <4>4. CASE m = c /\ q = o
        BY <2>3, <2>9, <2>10, <3>3, <4>4
      <4>5. CASE m = c /\ q = s
        <5>1. x = n \/ x \in D[a] \/ x \in D[b]
          BY <2>8, <2>9, <3>3, <4>5
        <5>2. Beyond(s, n, c)
          BY <2>1, <2>2, BeyondOrder DEF o
        <5>3. x \in D[a] => Beyond(s, x, c)
          <6>1. x \in D[a] => x \in Keys /\ Beyond(s, x, n)
            BY <2>1, <2>2
          <6> QED
            BY <2>1, <2>2, <5>2, <6>1, BeyondOrder
        <5> QED
          BY <2>3, <4>5, <5>1, <5>2, <5>3
      <4> QED
        BY <2>1, <4>1, <4>2, <4>3, <4>4, <4>5
    <3> QED
      BY <2>8, <2>10, <3>1, <3>2, <3>3 DEF Spans
  <2>13. Linked(r, P)
    <3>1. r.root \in P \cup {Nil}
      BY <2>2, <2>5, <2>6
    <3>2. ASSUME NEW m \in P, NEW q \in Sides
          PROVE  /\ r.kid[q][m] \in P \cup {Nil}
                 /\ r.kid[q][m] # Nil => r.up[r.kid[q][m]] = m
      <4>1. CASE m # n /\ m # c
        BY <2>11, <4>1
      <4>2. CASE m = n
        <5>1. a # Nil => a # b
          BY <2>2, <2>3
        <5>2. a # Nil => r.up[a] = n
          BY <2>1, <2>2, <2>5, <5>1
        <5>3. b # Nil => r.up[b] = n
          BY <2>1, <2>3, <2>4, <2>5
        <5> QED
          BY <2>1, <2>2, <2>3, <2>9, <4>2, <5>2, <5>3
      <4>3. CASE m = c
        <5>1. r.up[n] = c
          BY <2>1, <2>2, <2>5
        <5>2. d # Nil => r.up[d] = c
          BY <2>1, <2>3, <2>4, <2>5
        <5> QED
          BY <2>1, <2>3, <2>9, <4>3, <5>1, <5>2
      <4> QED
        BY <4>1, <4>2, <4>3
    <3>3. ASSUME NEW m \in P PROVE r.up[m] = Nil <=> m = r.root
      <4>1. CASE m = c
        BY <2>1, <2>2, <2>5, <2>6, <4>1
      <4>2. CASE m = n
        <5>1. r.up[m] = c /\ c # Nil
          BY <1>2, <2>1, <2>2, <2>5, <4>2
        <5>2. m # r.root
          BY <2>2, <2>5, <2>6, <4>2 DEF p
        <5> QED
          BY <5>1, <5>2
      <4>3. CASE m # c /\ m # n /\ m = b
        <5>1. r.up[m] = n /\ t.up[m] = c
          BY <2>1, <2>3, <2>5, <4>3
        <5>2. m # r.root
          BY <1>2, <2>5, <2>6, <4>3, <5>1
        <5> QED
          BY <2>1, <5>1, <5>2
      <4>4. CASE m # c /\ m # n /\ m # b
        <5>1. r.up[m] = t.up[m]
          BY <2>1, <2>5, <4>4
        <5>2. p = Nil => t.root = n
          BY <2>6 DEF p
        <5> QED
          BY <2>5, <2>6, <4>4, <5>1, <5>2
      <4> QED
        BY <4>1, <4>2, <4>3, <4>4
    <3>4. ASSUME NEW m \in P, r.up[m] # Nil
          PROVE  r.up[m] \in P /\ \E q \in Sides : r.kid[q][r.up[m]] = m
      <4>1. CASE m = c
        <5>1. r.up[m] = p /\ p \in P
          BY <2>1, <2>5, <2>7, <3>4, <4>1
        <5>2. PICK q \in Sides : t.kid[q][p] = n
          BY <2>1, <2>6, <5>1 DEF p
        <5> QED
          BY <2>7, <2>11, <4>1, <5>1, <5>2
      <4>2. CASE m = n
        BY <2>1, <2>2, <2>5, <2>9, <4>2
      <4>3. CASE m # c /\ m # n /\ m = b
        BY <2>1, <2>5, <2>9, <4>3
      <4>4. CASE m # c /\ m # n /\ m # b
        <5> DEFINE u == t.up[m]
        <5>1. r.up[m] = u
          BY <2>1, <2>5, <4>4
        <5>2. u \in P
          BY <2>6, <3>4, <5>1
        <5>3. PICK q \in Sides : t.kid[q][u] = m
          BY <2>6, <3>4, <5>1
        <5> HIDE DEF u
        <5>4. ~ (u = n /\ q = o) /\ ~ (u = c /\ q = s)
          BY <4>4, <5>3 DEF c, b
        <5>5. r.kid[q][u] = m
          BY <2>1, <2>5, <4>4, <5>2, <5>3, <5>4
        <5> QED
          BY <5>1, <5>2, <5>5
      <4> QED
        BY <4>1, <4>2, <4>3, <4>4
    <3>5. ASSUME NEW m \in Keys \ P, NEW q \in Sides PROVE r.kid[q][m] = Nil
      BY <2>1, <2>2, <2>5, <2>6
    <3>6. ASSUME NEW m \in Keys \ P PROVE r.up[m] = Nil
      BY <2>1, <2>2, <2>3, <2>5, <2>6
    <3> QED
      BY <3>1, <3>2, <3>3, <3>4, <3>5, <3>6 DEF Linked
  <2> QED
    BY <2>1, <2>5, <2>12, <2>13 DEF Shape, r
<1> QED
  BY <1>1, <1>2

(* Colours and values have no part in the shape. *)
LEMMA SameLinks ==
    ASSUME NEW t, NEW P, NEW D, Shape(t, P, D), NEW r \in Tree,
           r.root = t.root, r.kid = t.kid, r.up = t.up
    PROVE  Shape(r, P, D)
BY DEF Shape, Spans, Linked

(* Painting changes a colour. *)
LEMMA PaintIs ==
    ASSUME NEW t \in Tree, NEW n \in Node, NEW colour \in BOOLEAN
    PROVE  LET r == Paint(t, n, colour)
           IN  /\ r \in Tree
               /\ r.root = t.root /\ r.kid = t.kid /\ r.up = t.up
               /\ r.value = t.value
               /\ \A x \in Keys : r.red[x] = IF x = n THEN colour ELSE t.red[x]
<1>1. CASE n = Nil
  BY <1>1, Constants DEF Paint
<1>2. CASE n # Nil
  <2> DEFINE red == [t.red EXCEPT ![n] = colour]
             r == Paint(t, n, colour)
  <2>1. /\ t = [root |-> t.root, kid |-> t.kid, up |-> t.up, red |-> t.red,
                value |-> t.value]
        /\ t.red \in [Keys -> BOOLEAN]
    BY DEF Tree
  <2>2. n \in Keys
    BY <1>2 DEF Node
  <2>3. red \in [Keys -> BOOLEAN]
        /\ \A x \in Keys : red[x] = IF x = n THEN colour ELSE t.red[x]
    BY <2>1, <2>2
  <2>4. r = [t EXCEPT !.red = red]
    BY <1>2, <2>1 DEF Paint
  <2> HIDE DEF red, r
  <2>5. r = [root |-> t.root, kid |-> t.kid, up |-> t.up, red |-> red,
             value |-> t.value]
    BY <2>1, <2>4
  <2>6. r \in Tree
    BY <2>3, <2>5 DEF Tree
  <2> QED
    BY <2>3, <2>5, <2>6 DEF r
<1> QED
  BY <1>1, <1>2

(* A new key becomes a leaf where the search for it ended.                 *)
LEMMA AttachKeeps ==
    ASSUME NEW t, NEW P, NEW D, Shape(t, P, D), NEW key \in Keys \ P
    PROVE  LET r == Attach(t, key)
           IN  /\ \E E : Shape(r, P \cup {key}, E)
               /\ r \in Tree /\ r.red = t.red /\ r.value = t.value
<1> DEFINE r == Attach(t, key)
           Q == P \cup {key}
<1>1. /\ t \in Tree /\ P \subseteq Keys /\ Q \subseteq Keys /\ key \in Node
      /\ Nil \notin P /\ key # Nil /\ Nil \in Node /\ P \subseteq Node
      /\ Nil \notin Keys
  BY Constants DEF Shape
<1>2. /\ D \in [Node -> SUBSET P] /\ D[Nil] = {} /\ D[t.root] = P
      /\ t.root \in P \cup {Nil}
      /\ \A m \in P, q \in Sides :
            /\ t.kid[q][m] \in P \cup {Nil}
            /\ t.kid[q][m] # Nil => t.up[t.kid[q][m]] = m
            /\ \A x \in D[t.kid[q][m]] : Beyond(q, x, m)
      /\ \A m \in P : t.up[m] = Nil <=> m = t.root
      /\ \A m \in P : t.up[m] # Nil =>
            t.up[m] \in P /\ \E q \in Sides : t.kid[q][t.up[m]] = m
      /\ \A m \in Keys \ P, q \in Sides : t.kid[q][m] = Nil
      /\ \A m \in Keys \ P : t.up[m] = Nil
      /\ \A m \in P :
            D[m] = {m} \cup D[t.kid["left"][m]] \cup D[t.kid["right"][m]]
  BY DEF Shape, Spans, Linked
<1>3. CASE t.root = Nil
  <2> DEFINE E == [x \in Node |-> IF x = key THEN {key} ELSE {}]
  <2>1. P = {} /\ r = [t EXCEPT !.root = key]
    BY <1>2, <1>3 DEF Attach
  <2>2. /\ r \in Tree /\ r.root = key /\ r.kid = t.kid /\ r.up = t.up
        /\ r.red = t.red /\ r.value = t.value
    BY <1>1, <2>1 DEF Tree
  <2>3. r.up[key] = Nil /\ \A q \in Sides : r.kid[q][key] = Nil
    BY <1>2, <2>1, <2>2
  <2>4. Spans(r, Q, E)
    <3>1. E \in [Node -> SUBSET Q] /\ E[Nil] = {} /\ E[key] = {key} /\ Q = {key}
      BY <1>1, <2>1
    <3> HIDE DEF E, Q, r
    <3> QED
      BY <2>2, <2>3, <3>1, TwoSides DEF Spans
  <2>5. Linked(r, Q)
    <3> HIDE DEF r
    <3> QED
      BY <1>1, <1>2, <2>1, <2>2, <2>3 DEF Linked
  <2> HIDE DEF r, E
  <2> QED
    BY <1>1, <2>2, <2>4, <2>5 DEF Shape, r
<1>4. CASE t.root # Nil
  <2> DEFINE p == Nearest(t, key)
             s == Toward(key, p)
             E == [x \in Node |-> IF x = key THEN {key}
                                  ELSE IF p \in D[x] THEN D[x] \cup {key}
                                  ELSE D[x]]
  <2>1. /\ p \in P /\ p # key /\ t.kid[s][p] = Nil
        /\ \A m \in P, q \in Sides :
              p \in D[t.kid[q][m]] => Beyond(q, key, m)
    BY <1>4, NearestRight
  <2>2. p \in Keys /\ s \in Sides /\ Beyond(s, key, p) /\ r = SetKid(t, s, p, key)
    <3>1. p \in Keys /\ r = SetKid(t, s, p, key)
      BY <1>1, <1>4, <2>1 DEF Attach, Toward
    <3>2. s \in Sides /\ Beyond(s, key, p)
      BY <2>1, <3>1, TowardIsBeyond DEF Sides
    <3> QED
      BY <3>1, <3>2
  <2> HIDE DEF p, s, r
  <2>3. /\ r \in Tree
        /\ r.root = t.root /\ r.red = t.red /\ r.value = t.value
        /\ \A q \in Sides, x \in Keys :
              r.kid[q][x] = IF q = s /\ x = p THEN key ELSE t.kid[q][x]
        /\ \A x \in Keys : r.up[x] = IF x = key THEN p ELSE t.up[x]
    <3> DEFINE k == SetKid(t, s, p, key)
    <3>1. /\ k \in Tree
          /\ k.root = t.root /\ k.red = t.red /\ k.value = t.value
          /\ \A q \in Sides, x \in Keys :
                k.kid[q][x] = IF q = s /\ x = p THEN key ELSE t.kid[q][x]
          /\ \A x \in Keys : k.up[x] = IF x = key THEN p ELSE t.up[x]
      <4>1. t \in Tree /\ s \in Sides /\ p \in Keys /\ key \in Node
        BY <1>1, <2>2
      <4> QED
        BY <4>1, SetKidIs
    <3>2. r = k
      BY <2>2
    <3> HIDE DEF k
    <3> QED
      BY <3>1, <3>2
  <2>4. /\ E \in [Node -> SUBSET Q] /\ E[key] = {key} /\ E[Nil] = {}
        /\ \A x \in P \cup {Nil} :
              E[x] = IF p \in D[x] THEN D[x] \cup {key} ELSE D[x]
    <3>1. E \in [Node -> SUBSET Q]
      BY <1>1, <1>2
    <3>2. E[key] = {key}
      BY <1>1
    <3>3. \A x \in P \cup {Nil} : x \in Node /\ x # key
      BY <1>1
    <3>4. \A x \in P \cup {Nil} :
              E[x] = IF p \in D[x] THEN D[x] \cup {key} ELSE D[x]
      BY <3>3
    <3>5. E[Nil] = {}
      BY <1>2, <3>4
    <3> QED
      BY <3>1, <3>2, <3>4, <3>5
  <2> HIDE DEF E
  <2>5. \A x \in P \cup {Nil} :
           /\ E[x] \subseteq D[x] \cup {key}
           /\ D[x] \subseteq E[x]
           /\ key \in E[x] <=> p \in D[x]
    <3>1. \A x \in P \cup {Nil} : D[x] \subseteq P
      BY <1>1, <1>2
    <3> QED
      BY <2>4, <3>1
  <2>6. \A q \in Sides : r.kid[q][key] = Nil
    BY <1>2, <2>1, <2>3
  <2>7. Spans(r, Q, E)
    <3>1. E[r.root] = Q
      <4>1. r.root \in P /\ p \in D[r.root] /\ D[r.root] = P
        BY <1>2, <1>4, <2>1, <2>3
      <4> QED
        BY <2>4, <4>1
    <3>2. ASSUME NEW m \in Q
          PROVE  E[m] = {m} \cup E[r.kid["left"][m]] \cup E[r.kid["right"][m]]
      <4>1. CASE m = key
        BY <2>4, <2>6, <4>1, TwoSides
      <4>2. CASE m = p
        <5> DEFINE e == t.kid[Opposite(s)][p]
        <5>1. D[p] = {p} \cup D[e] /\ p \notin D[e] /\ e \in P \cup {Nil}
          BY <1>2, <2>1, <2>2, Subtrees, TwoSides
        <5>2. E[e] = D[e] /\ E[p] = D[p] \cup {key}
          <6>1. p \in P /\ p \in D[p] /\ p \notin D[e]
            BY <1>2, <2>1, <5>1
          <6> HIDE DEF e
          <6> QED
            BY <2>4, <5>1, <6>1
        <5>3. r.kid[s][p] = key /\ r.kid[Opposite(s)][p] = e
          BY <2>2, <2>3, TwoSides
        <5> HIDE DEF e
        <5>4. E[p] = {p} \cup E[r.kid[s][p]] \cup E[r.kid[Opposite(s)][p]]
          BY <2>4, <5>1, <5>2, <5>3
        <5> QED
          BY <2>2, <4>2, <5>4 DEF Sides, Opposite
      <4>3. CASE m # key /\ m # p
        <5> DEFINE f == t.kid["left"][m]
                   g == t.kid["right"][m]
        <5>1. r.kid["left"][m] = f /\ r.kid["right"][m] = g /\ m \in P
          BY <1>1, <2>3, <4>3, TwoSides
        <5>2. D[m] = {m} \cup D[f] \cup D[g]
              /\ f \in P \cup {Nil} /\ g \in P \cup {Nil}
          BY <1>2, <5>1, TwoSides
        <5> HIDE DEF f, g
        <5>3. p \in D[m] <=> p \in D[f] \/ p \in D[g]
          BY <4>3, <5>2
        <5>4. E[m] = {m} \cup E[f] \cup E[g]
          <6>1. \A x \in {m, f, g} :
                   E[x] = IF p \in D[x] THEN D[x] \cup {key} ELSE D[x]
            BY <2>4, <5>1, <5>2
          <6> QED
            BY <5>2, <5>3, <6>1
        <5> QED
          BY <5>1, <5>4
      <4> QED
        BY <4>1, <4>2, <4>3
    <3>3. ASSUME NEW m \in Q, NEW q \in Sides, NEW x \in E[r.kid[q][m]]
          PROVE  Beyond(q, x, m)
      <4>1. CASE m = key
        BY <2>4, <2>6, <3>3, <4>1
      <4>2. CASE m = p /\ q = s
        <5>1. r.kid[q][m] = key
          BY <1>1, <2>1, <2>3, <4>2
        <5> QED
          BY <2>2, <2>4, <3>3, <4>2, <5>1
      <4>3. CASE m # key /\ ~ (m = p /\ q = s)
        <5>1. m \in P /\ r.kid[q][m] = t.kid[q][m] /\ t.kid[q][m] \in P \cup {Nil}
          BY <1>1, <1>2, <2>3, <4>3
        <5>2. x \in D[t.kid[q][m]] \/ (x = key /\ p \in D[t.kid[q][m]])
          BY <2>5, <3>3, <5>1
        <5> QED
          BY <1>2, <2>1, <5>1, <5>2
      <4> QED
        BY <4>1, <4>2, <4>3
    <3> QED
      BY <2>4, <3>1, <3>2, <3>3 DEF Spans
  <2>8. Linked(r, Q)
    <3>1. r.root \in Q \cup {Nil}
      BY <1>2, <2>3
    <3>2. ASSUME NEW m \in Q, NEW q \in Sides
          PROVE  /\ r.kid[q][m] \in Q \cup {Nil}
                 /\ r.kid[q][m] # Nil => r.up[r.kid[q][m]] = m
      BY <1>1, <1>2, <2>1, <2>3, <2>6
    <3>3. ASSUME NEW m \in Q PROVE r.up[m] = Nil <=> m = r.root
      BY <1>1, <1>2, <1>4, <2>1, <2>3
    <3>4. ASSUME NEW m \in Q, r.up[m] # Nil
          PROVE  r.up[m] \in Q /\ \E q \in Sides : r.kid[q][r.up[m]] = m
      <4>1. CASE m = key
        <5>1. r.up[m] = p /\ r.kid[s][p] = key
          BY <2>2, <2>3, <4>1
        <5> QED
          BY <2>1, <2>2, <4>1, <5>1
      <4>2. CASE m # key
        <5>1. m \in P /\ r.up[m] = t.up[m] /\ t.up[m] \in P
          BY <1>1, <1>2, <2>3, <3>4, <4>2
        <5>2. PICK q \in Sides : t.kid[q][t.up[m]] = m
          BY <1>2, <3>4, <5>1
        <5>3. r.kid[q][t.up[m]] = m
          BY <1>1, <2>1, <2>3, <5>1, <5>2
        <5> QED
          BY <5>1, <5>3
      <4> QED
        BY <4>1, <4>2
    <3>5. ASSUME NEW m \in Keys \ Q
          PROVE  r.up[m] = Nil /\ \A q \in Sides : r.kid[q][m] = Nil
      BY <1>2, <2>1, <2>3
    <3> QED
      BY <3>1, <3>2, <3>3, <3>4, <3>5 DEF Linked
  <2> QED
    BY <1>1, <2>3, <2>7, <2>8 DEF Shape, r
<1> QED
  BY <1>3, <1>4

-----------------------------------------------------------------------------
(* Taking a node out *)

(* The least node at or below n. *)
Least(D, n) == {r \in D[n] : \A x \in D[n] : x = r \/ r < x}

(* It is n, or the least one below its left child. *)
LEMMA LeastStep ==
    ASSUME NEW t, NEW P, NEW D, Shape(t, P, D), NEW n \in P
    PROVE  Least(D, n) = IF t.kid["left"][n] = Nil THEN {n}
                         ELSE Least(D, t.kid["left"][n])
<1> DEFINE l == t.kid["left"][n]
           g == t.kid["right"][n]
<1>1. /\ D[n] = {n} \cup D[l] \cup D[g] /\ D[n] \subseteq P /\ P \subseteq Keys
      /\ \A x \in D[l] : x < n
      /\ \A x \in D[g] : n < x
      /\ l = Nil => D[l] = {}
      /\ l # Nil => l \in D[l]
  <2>1. \A s \in Sides : /\ D[t.kid[s][n]] \subseteq P
                         /\ \A x \in D[t.kid[s][n]] : Beyond(s, x, n)
    BY Subtrees
  <2>2. l # Nil => l \in D[l]
    BY Subtrees, TwoSides
  <2>3. D[n] = {n} \cup D[l] \cup D[g] /\ D[Nil] = {} /\ P \subseteq Keys
    BY DEF Shape, Spans
  <2> QED
    BY <2>1, <2>2, <2>3, TwoSides DEF Beyond
<1>2. \A x \in D[n] : x \in Nat
  BY <1>1, Constants
<1> HIDE DEF l, g
<1>3. CASE l = Nil
  BY <1>1, <1>2, <1>3 DEF Least, l
<1>4. CASE l # Nil
  <2>1. ASSUME NEW r \in Least(D, n) PROVE r \in Least(D, l)
    <3>1. r \in D[n] /\ (l = r \/ r < l) /\ l \in D[l] /\ \A x \in D[n] : x = r \/ r < x
      BY <1>1, <1>4 DEF Least
    <3>2. r \in D[l]
      BY <1>1, <1>2, <3>1
    <3> QED
      BY <1>1, <3>1, <3>2 DEF Least
  <2>2. ASSUME NEW r \in Least(D, l) PROVE r \in Least(D, n)
    <3>1. r \in D[l] /\ r < n /\ \A x \in D[l] : x = r \/ r < x
      BY <1>1 DEF Least
    <3>2. \A x \in D[g] : r < x
      BY <1>1, <1>2, <3>1
    <3> QED
      BY <1>1, <3>1, <3>2 DEF Least
  <2> QED
    BY <1>4, <2>1, <2>2 DEF l
<1> QED
  BY <1>3, <1>4 DEF l

(* Minimum finds the least node: it has no left child. *)
LEMMA MinimumRight ==
    ASSUME NEW t, NEW P, NEW D, Shape(t, P, D), NEW n \in P
    PROVE  LET m == Minimum(t, n)
           IN  /\ m \in D[n] /\ m \in P
               /\ t.kid["left"][m] = Nil
               /\ \A x \in D[n] : x = m \/ m < x
<1> DEFINE Left(m) == t.kid["left"][m]
           Walk(f) == f = [m \in Keys |-> IF Left(m) = Nil THEN m ELSE f[Left(m)]]
           w == [m \in Keys |-> IF m \in P THEN CHOOSE r : r \in Least(D, m) ELSE m]
           f == CHOOSE f : Walk(f)
           Good == {m \in P : f[m] \in Least(D, m) /\ Left(f[m]) = Nil}
<1>1. P \subseteq Keys /\ \A m \in P : Left(m) # Nil => Left(m) \in P
  BY Subtrees, TwoSides DEF Shape
<1>2. Walk(w)
  <2>1. ASSUME NEW m \in Keys
        PROVE  w[m] = IF Left(m) = Nil THEN m ELSE w[Left(m)]
    <3>1. CASE m \notin P
      <4>1. Left(m) = Nil
        BY <3>1, TwoSides DEF Shape, Linked
      <4> QED
        BY <3>1, <4>1
    <3>2. CASE m \in P
      <4>1. Least(D, m) = IF Left(m) = Nil THEN {m} ELSE Least(D, Left(m))
        BY <3>2, LeastStep
      <4> QED
        BY <1>1, <3>2, <4>1
    <3> QED
      BY <3>1, <3>2
  <2>2. w = [m \in Keys |-> w[m]]
    OBVIOUS
  <2> HIDE DEF w, Left
  <2> QED
    BY <2>1, <2>2
<1>3. Walk(f)
  <2> HIDE DEF Walk, w
  <2> QED
    BY <1>2
<1>4. Minimum(t, n) = f[n]
  BY DEF Minimum
<1> HIDE DEF f
<1>5. \A m \in P : f[m] = IF Left(m) = Nil THEN m ELSE f[Left(m)]
  <2> HIDE DEF Left
  <2> QED
    BY <1>1, <1>3
<1>6. ASSUME NEW m \in P, \A s \in Sides :
          t.kid[s][m] \in P => t.kid[s][m] \in Good
      PROVE  m \in Good
  <2>1. Least(D, m) = IF Left(m) = Nil THEN {m} ELSE Least(D, Left(m))
    BY LeastStep
  <2>2. Left(m) # Nil => Left(m) \in Good
    BY <1>1, <1>6, TwoSides
  <2> QED
    BY <1>5, <2>1, <2>2
<1>7. P \subseteq Good
  <2> HIDE DEF Good
  <2> QED
    BY <1>6, SpanInduction
<1>8. f[n] \in Least(D, n) /\ Left(f[n]) = Nil
  BY <1>7
<1>9. f[n] \in P
  BY <1>8 DEF Least, Shape, Spans, Node
<1> QED
  BY <1>4, <1>8, <1>9 DEF Least

(* What Forget does to each field. *)
LEMMA ForgetIs ==
    ASSUME NEW t \in Tree, NEW n \in Keys
    PROVE  LET r == Forget(t, n)
           IN  /\ r \in Tree
               /\ r.root = t.root
               /\ \A q \in Sides, x \in Keys :
                     r.kid[q][x] = IF x = n THEN Nil ELSE t.kid[q][x]
               /\ \A x \in Keys : r.up[x] = IF x = n THEN Nil ELSE t.up[x]
               /\ \A x \in Keys : r.red[x] = IF x = n THEN FALSE ELSE t.red[x]
               /\ r.value = [t.value EXCEPT ![n] = Nil]
<1> DEFINE r == Forget(t, n)
           kid == [s \in Sides |-> [t.kid[s] EXCEPT ![n] = Nil]]
           up == [t.up EXCEPT ![n] = Nil]
           red == [t.red EXCEPT ![n] = FALSE]
           value == [t.value EXCEPT ![n] = Nil]
<1>1. /\ t.root \in Node /\ t.kid \in [Sides -> [Keys -> Node]]
      /\ t.up \in [Keys -> Node] /\ t.red \in [Keys -> BOOLEAN]
      /\ t.value \in [Keys -> Values \cup {Nil}]
  BY DEF Tree
<1>2. r = [root |-> t.root, kid |-> kid, up |-> up, red |-> red,
           value |-> value]
  <2>1. t = [root |-> t.root, kid |-> t.kid, up |-> t.up, red |-> t.red,
             value |-> t.value]
    BY DEF Tree
  <2>2. r = [t EXCEPT !.kid = kid, !.up = up, !.red = red, !.value = value]
    BY <2>1 DEF Forget
  <2> HIDE DEF r, kid, up, red, value
  <2> QED
    BY <2>1, <2>2
<1>3. kid \in [Sides -> [Keys -> Node]]
      /\ \A q \in Sides, x \in Keys :
            kid[q][x] = IF x = n THEN Nil ELSE t.kid[q][x]
  BY <1>1, Constants
<1>4. up \in [Keys -> Node]
      /\ \A x \in Keys : up[x] = IF x = n THEN Nil ELSE t.up[x]
  BY <1>1, Constants
<1>5. red \in [Keys -> BOOLEAN]
      /\ \A x \in Keys : red[x] = IF x = n THEN FALSE ELSE t.red[x]
  BY <1>1
<1>6. value \in [Keys -> Values \cup {Nil}]
  BY <1>1
<1> HIDE DEF r, kid, up, red, value
<1>7. r \in Tree
  BY <1>1, <1>2, <1>3, <1>4, <1>5, <1>6 DEF Tree
<1>8. /\ r.root = t.root /\ r.kid = kid /\ r.up = up /\ r.red = red
      /\ r.value = value
  BY <1>2
<1> HIDE DEF r
<1>9. /\ \A q \in Sides, x \in Keys :
            r.kid[q][x] = IF x = n THEN Nil ELSE t.kid[q][x]
      /\ \A x \in Keys : r.up[x] = IF x = n THEN Nil ELSE t.up[x]
      /\ \A x \in Keys : r.red[x] = IF x = n THEN FALSE ELSE t.red[x]
  BY <1>3, <1>4, <1>5, <1>8
<1>10. r.value = [t.value EXCEPT ![n] = Nil]
  BY <1>8 DEF value
<1> QED
  BY <1>7, <1>8, <1>9, <1>10 DEF r

(* The same as a predicate of the tree after. *)
Forgotten(t, n, r) ==
    /\ r \in Tree /\ r.root = t.root
    /\ \A q \in Sides, x \in Keys :
          r.kid[q][x] = IF x = n THEN Nil ELSE t.kid[q][x]
    /\ \A x \in Keys : r.up[x] = IF x = n THEN Nil ELSE t.up[x]
    /\ \A x \in Keys : r.red[x] = IF x = n THEN FALSE ELSE t.red[x]
    /\ r.value = [t.value EXCEPT ![n] = Nil]

(* Forget leads to such a tree. *)
LEMMA ForgetClears ==
    ASSUME NEW t \in Tree, NEW n \in Keys
    PROVE  Forgotten(t, n, Forget(t, n))
BY ForgetIs DEF Forgotten

(* A node with one child at most is replaced by that child. *)
LEMMA BypassKeeps ==
    ASSUME NEW t, NEW P, NEW D, Shape(t, P, D), NEW s \in Sides, NEW n \in P,
           t.kid[Opposite(s)][n] = Nil
    PROVE  \E E : Shape(Forget(Transplant(t, n, t.kid[s][n]), n), P \ {n}, E)
<1> DEFINE p == t.up[n]
           v == t.kid[s][n]
           u == Transplant(t, n, v)
           r == Forget(u, n)
           Q == P \ {n}
           E == [x \in Node |-> D[x] \ {n}]
<1>1. /\ t \in Tree /\ n \in Keys /\ P \subseteq Keys /\ n \in Node
      /\ Nil \notin Keys /\ Nil \notin P /\ Nil \in Node /\ P \subseteq Node
  BY Constants DEF Shape
<1>2. /\ D \in [Node -> SUBSET P] /\ D[Nil] = {} /\ D[t.root] = P
      /\ t.root \in P \cup {Nil}
      /\ \A m \in P, q \in Sides :
            /\ t.kid[q][m] \in P \cup {Nil}
            /\ t.kid[q][m] # Nil => t.up[t.kid[q][m]] = m
            /\ \A x \in D[t.kid[q][m]] : Beyond(q, x, m)
      /\ \A m \in P : t.up[m] = Nil <=> m = t.root
      /\ \A m \in P : t.up[m] # Nil =>
            t.up[m] \in P /\ \E q \in Sides : t.kid[q][t.up[m]] = m
      /\ \A m \in Keys \ P, q \in Sides : t.kid[q][m] = Nil
      /\ \A m \in Keys \ P : t.up[m] = Nil
      /\ \A m \in P :
            D[m] = {m} \cup D[t.kid["left"][m]] \cup D[t.kid["right"][m]]
  BY DEF Shape, Spans, Linked
<1>3. /\ D[n] = {n} \cup D[v] /\ n \notin D[v] /\ v # n /\ v \in Node
      /\ v \in P \cup {Nil} /\ (v # Nil => t.up[v] = n)
  BY <1>2, Subtrees
<1>4. /\ p \in P \cup {Nil} /\ p # n
      /\ \A q \in Sides, x \in P : t.kid[q][x] = n => x = p
      /\ p # Nil => \A q \in Sides : t.kid[q][p] = n <=> q = SideOf(t, n, p)
  <2>1. p # Nil => p \in P /\ p # n
           /\ \A q \in Sides : t.kid[q][p] = n <=> q = SideOf(t, n, p)
    BY SideOfIs
  <2>2. p = Nil => p # n
    BY <1>1
  <2> QED
    BY <1>1, <1>2, <2>1, <2>2
<1> HIDE DEF p, v, u, r
<1>5. /\ u \in Tree
      /\ u.root = IF p = Nil THEN v ELSE t.root
      /\ \A q \in Sides, x \in Keys :
            u.kid[q][x] = IF x = p /\ q = SideOf(t, n, p) THEN v
                          ELSE t.kid[q][x]
      /\ \A x \in Keys : u.up[x] = IF x = v THEN p ELSE t.up[x]
  BY <1>1, <1>3, TransplantIs DEF u, p
<1>6. /\ r \in Tree /\ r.root = u.root
      /\ \A q \in Sides, x \in Keys :
            r.kid[q][x] = IF x = n THEN Nil ELSE u.kid[q][x]
      /\ \A x \in Keys : r.up[x] = IF x = n THEN Nil ELSE u.up[x]
  <2>1. u \in Tree /\ n \in Keys
    BY <1>1, <1>5
  <2>2. Forgotten(u, n, r)
    BY <2>1, ForgetClears DEF r
  <2> QED
    BY <2>2 DEF Forgotten
<1>7. ASSUME NEW m \in Q, NEW q \in Sides
      PROVE  r.kid[q][m] = IF t.kid[q][m] = n THEN v ELSE t.kid[q][m]
  BY <1>1, <1>4, <1>5, <1>6
<1>8. \A x \in Keys : r.up[x] = IF x = n THEN Nil ELSE IF x = v THEN p
                                ELSE t.up[x]
  BY <1>5, <1>6
<1>9. /\ E \in [Node -> SUBSET Q] /\ \A x \in Node : E[x] = D[x] \ {n}
  BY <1>2
<1> HIDE DEF E
<1>10. ASSUME NEW m \in Q, NEW q \in Sides
       PROVE  E[r.kid[q][m]] = D[t.kid[q][m]] \ {n}
  <2>1. CASE t.kid[q][m] = n
    BY <1>3, <1>7, <1>9, <2>1
  <2>2. CASE t.kid[q][m] # n
    BY <1>1, <1>2, <1>7, <1>9, <2>2
  <2> QED
    BY <2>1, <2>2
<1>11. Spans(r, Q, E)
  <2>1. E[Nil] = {}
    BY <1>1, <1>2, <1>9
  <2>2. E[r.root] = Q
    <3>1. CASE p = Nil
      <4>1. t.root = n /\ r.root = v
        BY <1>2, <1>5, <1>6, <3>1 DEF p
      <4> QED
        BY <1>2, <1>3, <1>9, <4>1
    <3>2. CASE p # Nil
      BY <1>1, <1>2, <1>5, <1>6, <1>9, <3>2
    <3> QED
      BY <3>1, <3>2
  <2>3. ASSUME NEW m \in Q
        PROVE  E[m] = {m} \cup E[r.kid["left"][m]] \cup E[r.kid["right"][m]]
    <3>1. /\ E[r.kid["left"][m]] = D[t.kid["left"][m]] \ {n}
          /\ E[r.kid["right"][m]] = D[t.kid["right"][m]] \ {n}
      BY <1>10, TwoSides
    <3>2. E[m] = D[m] \ {n} /\ m # n
      BY <1>1, <1>9
    <3>3. D[m] = {m} \cup D[t.kid["left"][m]] \cup D[t.kid["right"][m]]
      BY <1>2
    <3> QED
      BY <3>1, <3>2, <3>3
  <2>4. ASSUME NEW m \in Q, NEW q \in Sides, NEW x \in E[r.kid[q][m]]
        PROVE  Beyond(q, x, m)
    BY <1>2, <1>10
  <2> QED
    BY <1>9, <2>1, <2>2, <2>3, <2>4 DEF Spans
<1>12. Linked(r, Q)
  <2>1. r.root \in Q \cup {Nil}
    <3>1. CASE p = Nil
      BY <1>3, <1>5, <1>6, <3>1
    <3>2. CASE p # Nil
      BY <1>2, <1>5, <1>6, <3>2 DEF p
    <3> QED
      BY <3>1, <3>2
  <2>2. ASSUME NEW m \in Q, NEW q \in Sides
        PROVE  /\ r.kid[q][m] \in Q \cup {Nil}
               /\ r.kid[q][m] # Nil => r.up[r.kid[q][m]] = m
    <3>1. CASE t.kid[q][m] = n
      BY <1>1, <1>3, <1>4, <1>7, <1>8, <3>1
    <3>2. CASE t.kid[q][m] # n
      <4>1. t.kid[q][m] # Nil => t.kid[q][m] # v
        BY <1>2, <1>3
      <4> QED
        BY <1>1, <1>2, <1>7, <1>8, <3>2, <4>1
    <3> QED
      BY <3>1, <3>2
  <2>3. ASSUME NEW m \in Q PROVE r.up[m] = Nil <=> m = r.root
    <3>1. CASE m = v
      <4>1. r.up[m] = p /\ t.up[m] = n
        BY <1>1, <1>3, <1>8, <3>1
      <4>2. m # t.root
        BY <1>1, <1>2, <4>1
      <4> QED
        BY <1>5, <1>6, <3>1, <4>1, <4>2
    <3>2. CASE m # v
      <4>1. r.up[m] = t.up[m]
        BY <1>1, <1>8, <3>2
      <4>2. p = Nil => t.root = n
        BY <1>2 DEF p
      <4> QED
        BY <1>2, <1>5, <1>6, <3>2, <4>1, <4>2
    <3> QED
      BY <3>1, <3>2
  <2>4. ASSUME NEW m \in Q, r.up[m] # Nil
        PROVE  r.up[m] \in Q /\ \E q \in Sides : r.kid[q][r.up[m]] = m
    <3>1. CASE m = v
      <4>1. r.up[m] = p /\ p \in Q
        BY <1>1, <1>4, <1>8, <2>4, <3>1
      <4>2. PICK q \in Sides : t.kid[q][p] = n
        BY <1>2, <2>4, <4>1 DEF p
      <4> QED
        BY <1>7, <3>1, <4>1, <4>2
    <3>2. CASE m # v
      <4> DEFINE w == t.up[m]
      <4>1. r.up[m] = w /\ w \in P
        BY <1>1, <1>2, <1>8, <2>4, <3>2
      <4>2. PICK q \in Sides : t.kid[q][w] = m
        BY <1>2, <2>4, <4>1
      <4> HIDE DEF w
      <4>3. w # n
        <5>1. \A y \in Sides : t.kid[y][n] \in {v, Nil}
          BY TwoSides DEF v
        <5> QED
          BY <1>1, <3>2, <4>2, <5>1
      <4> QED
        BY <1>7, <4>1, <4>2, <4>3
    <3> QED
      BY <3>1, <3>2
  <2>5. ASSUME NEW m \in Keys \ Q
        PROVE  r.up[m] = Nil /\ \A q \in Sides : r.kid[q][m] = Nil
    <3>1. CASE m = n
      BY <1>1, <1>6, <3>1
    <3>2. CASE m # n
      <4>1. m \notin P /\ m # v /\ m # p
        BY <1>1, <1>3, <1>4, <2>5, <3>2
      <4> QED
        BY <1>2, <1>5, <1>6, <3>2, <4>1
    <3> QED
      BY <3>1, <3>2
  <2> QED
    BY <2>1, <2>2, <2>3, <2>4, <2>5 DEF Linked
<1>13. Shape(r, Q, E)
  BY <1>1, <1>6, <1>11, <1>12 DEF Shape
<1> QED
  BY <1>13 DEF r, u, v

(* What next is when it is the least key on the right of n.               *)
Follows(t, P, D, n, next) ==
    LET l == t.kid["left"][n]
        g == t.kid["right"][n]
        w == t.kid["right"][next]
        f == t.up[next]
        p == t.up[n]
    IN  /\ next \in P /\ next # n /\ next \in D[g] /\ next \notin D[l]
        /\ t.kid["left"][next] = Nil
        /\ \A x \in D[g] : x = next \/ next < x
        /\ \A x \in D[l] : x < next
        /\ D[next] = {next} \cup D[w] /\ next \notin D[w]
        /\ D[w] \subseteq D[g]
        /\ n \notin D[g] /\ n \notin D[l] /\ n \notin D[w]
        /\ w \in P \cup {Nil} /\ w # next /\ w # n
        /\ w # Nil => t.up[w] = next
        /\ f \in P /\ f # next
        /\ f = n => next = g
        /\ f # n => /\ next # g /\ f \in D[g]
                    /\ t.kid["left"][f] = next
                    /\ t.kid["right"][f] # next
        /\ \A m \in P, q \in Sides : t.kid[q][m] = next => m = f
        /\ p \in P \cup {Nil} /\ p \notin D[n] /\ p # n /\ p # next

(* What deleteNode relies on when the node n has two children: the least   *)
(* node on its right has no left child, and is either the right child of n *)
(* or a left child further down.                                           *)
LEMMA NextIs ==
    ASSUME NEW t, NEW P, NEW D, Shape(t, P, D), NEW n \in P,
           t.kid["right"][n] # Nil
    PROVE  Follows(t, P, D, n, Minimum(t, t.kid["right"][n]))
<1> DEFINE l == t.kid["left"][n]
           g == t.kid["right"][n]
           next == Minimum(t, g)
           w == t.kid["right"][next]
           f == t.up[next]
           p == t.up[n]
<1>1. /\ P \subseteq Keys /\ Nil \notin P /\ Nil \notin Keys
      /\ D \in [Node -> SUBSET P] /\ D[Nil] = {} /\ P \subseteq Node
  BY Constants DEF Shape, Spans
<1>2. /\ D[n] = {n} \cup D[l] \cup D[g] /\ n \notin D[g] /\ n \notin D[l]
      /\ D[l] \cap D[g] = {} /\ D[g] \subseteq P /\ D[l] \subseteq P
      /\ g \in P /\ g \in D[g] /\ t.up[g] = n
      /\ \A x \in D[l] : x < n
      /\ \A x \in D[g] : n < x
  <2>1. /\ D[n] = {n} \cup D[l] \cup D[g]
        /\ g \in P /\ g \in D[g] /\ t.up[g] = n
    BY Subtrees, TwoSides DEF Opposite, Shape, Spans
  <2>2. \A s \in Sides :
           /\ n \notin D[t.kid[s][n]] /\ D[t.kid[s][n]] \subseteq P
           /\ D[t.kid[s][n]] \cap D[t.kid[Opposite(s)][n]] = {}
           /\ \A x \in D[t.kid[s][n]] : Beyond(s, x, n)
    BY Subtrees
  <2>3. /\ n \notin D[g] /\ n \notin D[l] /\ D[g] \subseteq P /\ D[l] \subseteq P
        /\ \A x \in D[l] : Beyond("left", x, n)
        /\ \A x \in D[g] : Beyond("right", x, n)
    BY <2>2, TwoSides
  <2>4. D[l] \cap D[g] = {}
    BY <2>2, TwoSides DEF Opposite
  <2> QED
    BY <2>1, <2>3, <2>4 DEF Beyond
<1>3. /\ next \in D[g] /\ next \in P /\ t.kid["left"][next] = Nil
      /\ \A x \in D[g] : x = next \/ next < x
  BY <1>2, MinimumRight
<1> HIDE DEF l, g, next, w, f, p
<1>4. next # n /\ next \notin D[l]
  BY <1>2, <1>3
<1>5. \A x \in D[l] : x < next
  <2>1. \A x \in D[l] : x < n /\ n < next /\ x \in Nat /\ n \in Nat /\ next \in Nat
    BY <1>1, <1>2, <1>3, Constants
  <2> QED
    BY <2>1
<1>6. /\ D[next] = {next} \cup D[w] /\ next \notin D[w]
      /\ w \in P \cup {Nil} /\ w # next /\ (w # Nil => t.up[w] = next)
  <2>1. /\ D[next] = {next} \cup D[t.kid["left"][next]] \cup D[w]
        /\ w \in P \cup {Nil} /\ (w # Nil => t.up[w] = next)
    BY <1>3, TwoSides DEF Shape, Spans, Linked, w
  <2>2. next \notin D[w] /\ w # next
    BY <1>3, Subtrees, TwoSides DEF w
  <2> QED
    BY <1>1, <1>3, <2>1, <2>2
<1>7. D[next] \subseteq D[g]
  BY <1>2, <1>3, BelowBelow
<1>8. D[w] \subseteq D[g] /\ n \notin D[w]
  BY <1>2, <1>6, <1>7
<1>9. w # n
  <2>1. w # Nil => w \in D[w]
    BY <1>6 DEF Shape, Spans
  <2> QED
    BY <1>1, <1>8, <2>1
<1>10. /\ f \in P /\ f # next
       /\ f = n => next = g
       /\ f # n => next # g /\ f \in D[g]
  <2>1. next # g => f \in D[g] /\ f \in P
    BY <1>2, <1>3, ParentBelow DEF f
  <2>2. next = g => f = n
    BY <1>2 DEF f
  <2>3. f = n => next = g
    BY <1>2, <2>1
  <2>4. f # next
    <3>1. CASE next = g
      BY <1>4, <2>2, <3>1
    <3>2. CASE next # g
      <4>1. f # Nil
        BY <1>1, <2>1, <3>2
      <4> QED
        BY <1>3, <4>1, SideOfIs DEF f
    <3> QED
      BY <3>1, <3>2
  <2> QED
    BY <2>1, <2>2, <2>3, <2>4
<1>11. f # n => t.kid["left"][f] = next /\ t.kid["right"][f] # next
  <2> SUFFICES ASSUME f # n
               PROVE  t.kid["left"][f] = next /\ t.kid["right"][f] # next
    OBVIOUS
  <2>1. f # Nil /\ f \in P /\ f \in D[g] /\ f # next
    BY <1>1, <1>10
  <2>2. PICK q \in Sides : t.kid[q][f] = next
    BY <1>3, <2>1 DEF Shape, Linked, f
  <2>3. t.kid["right"][f] # next
    <3> SUFFICES ASSUME t.kid["right"][f] = next PROVE FALSE
      OBVIOUS
    <3>1. next \in D[next]
      BY <1>6
    <3>2. Beyond("right", next, f)
      BY <2>1, <3>1, Subtrees, TwoSides
    <3>3. f < next /\ next < f /\ f \in Nat /\ next \in Nat
      BY <1>1, <1>3, <2>1, <3>2, Constants DEF Beyond
    <3> QED
      BY <3>3
  <2> QED
    BY <2>2, <2>3 DEF Sides
<1>12. \A m \in P, q \in Sides : t.kid[q][m] = next => m = f
  BY <1>1, <1>3, Subtrees DEF f
<1>13. p \in P \cup {Nil} /\ p \notin D[n] /\ p # n /\ p # next
  <2>1. CASE p = Nil
    <3>1. D[n] \subseteq P
      BY <1>1
    <3> QED
      BY <1>1, <1>3, <2>1, <3>1
  <2>2. CASE p # Nil
    <3>1. p \in P /\ \E q \in Sides : t.kid[q][p] = n
      BY <2>2 DEF Shape, Linked, p
    <3>2. p \notin D[n]
      BY <3>1, Subtrees
    <3>3. n \in D[n] /\ next \in D[n]
      BY <1>2, <1>3
    <3> QED
      BY <3>1, <3>2, <3>3
  <2> QED
    BY <2>1, <2>2
<1>14. Follows(t, P, D, n, next)
  BY <1>2, <1>3, <1>4, <1>5, <1>6, <1>8, <1>9, <1>10, <1>11, <1>12, <1>13
     DEF Follows, l, g, w, f, p
<1> QED
  BY <1>14 DEF next, g

(* What the removal of a node with two children does to each field. *)
LEMMA SwapIs ==
    ASSUME NEW t, NEW P, NEW D, Shape(t, P, D), NEW n \in P,
           t.kid["left"][n] # Nil, t.kid["right"][n] # Nil
    PROVE  LET r == Forget(Unlinked(t, n).tree, n)
               l == t.kid["left"][n]
               g == t.kid["right"][n]
               next == Minimum(t, g)
               w == t.kid["right"][next]
               f == t.up[next]
               p == t.up[n]
           IN  /\ r \in Tree
               /\ r.value = [t.value EXCEPT ![n] = Nil]
               /\ r.root = IF p = Nil THEN next ELSE t.root
               /\ \A q \in Sides : r.kid[q][n] = Nil
               /\ r.kid["left"][next] = l
               /\ r.kid["right"][next] = IF f = n THEN w ELSE g
               /\ \A q \in Sides, x \in Keys \ {n, next} :
                     r.kid[q][x] = IF x \in P /\ t.kid[q][x] = n THEN next
                                   ELSE IF x \in P /\ t.kid[q][x] = next THEN w
                                   ELSE t.kid[q][x]
               /\ r.up[n] = Nil /\ r.up[next] = p
               /\ \A x \in Keys \ {n, next} :
                     r.up[x] = IF x = l \/ x = g THEN next
                               ELSE IF x = w /\ f # n THEN f
                               ELSE t.up[x]
<1> DEFINE l == t.kid["left"][n]
           g == t.kid["right"][n]
           next == Minimum(t, g)
           w == t.kid["right"][next]
           f == t.up[next]
           p == t.up[n]
           t1 == Transplant(t, next, w)
           freed == IF f = n THEN t ELSE SetKid(t1, "right", next, g)
           t2 == Transplant(freed, n, next)
           t3 == SetKid(t2, "left", next, l)
           t4 == Paint(t3, next, t.red[n])
           r == Forget(t4, n)
<1>1. /\ t \in Tree /\ P \subseteq Keys /\ P \subseteq Node /\ n \in Keys
      /\ Nil \notin Keys /\ Nil \in Node /\ Nil \notin P
  BY Constants DEF Shape
<1>2. /\ next \in P /\ next # n /\ next \in D[g] /\ next \notin D[l]
      /\ t.kid["left"][next] = Nil
      /\ n \notin D[g] /\ n \notin D[l] /\ n \notin D[w] /\ next \notin D[w]
      /\ w \in P \cup {Nil} /\ w # next /\ w # n
      /\ w # Nil => t.up[w] = next
      /\ f \in P /\ f # next
      /\ f = n => next = g
      /\ f # n => /\ next # g /\ f \in D[g]
                  /\ t.kid["left"][f] = next /\ t.kid["right"][f] # next
      /\ \A m \in P, q \in Sides : t.kid[q][m] = next => m = f
      /\ p \in P \cup {Nil} /\ p \notin D[n] /\ p # n /\ p # next
  <2>1. Follows(t, P, D, n, next)
    BY NextIs
  <2> HIDE DEF next
  <2> QED
    BY <2>1 DEF Follows
<1>3. /\ l \in P /\ g \in P /\ l # g /\ l # n /\ g # n /\ l # next
      /\ t.up[l] = n /\ t.up[g] = n /\ D[g] \subseteq D[n]
  <2>1. /\ l \in P /\ l # n /\ t.up[l] = n /\ l \in D[l]
        /\ g \in P /\ g # n /\ t.up[g] = n /\ l # g /\ D[g] \subseteq D[n]
    BY <1>1, Subtrees, TwoSides DEF Opposite
  <2> QED
    BY <1>2, <2>1
<1>4. Unlinked(t, n).tree = t4
  BY DEF Unlinked
<1> HIDE DEF r, t1, t2, t3, t4, freed
<1>5. /\ p # Nil => \A q \in Sides : t.kid[q][p] = n <=> q = SideOf(t, n, p)
      /\ \A x \in P, q \in Sides : t.kid[q][x] = n => x = p
      /\ p # f \/ f = n
  <2>1. p # Nil => \A q \in Sides : t.kid[q][p] = n <=> q = SideOf(t, n, p)
    BY SideOfIs
  <2>2. \A x \in P, q \in Sides : t.kid[q][x] = n => x = p
    BY <1>1, Subtrees
  <2> QED
    BY <1>2, <1>3, <2>1, <2>2
<1> HIDE DEF l, g, next, w, f, p
<1>6. /\ freed \in Tree /\ freed.root = t.root
      /\ freed.value = t.value
      /\ \A q \in Sides, x \in Keys :
            freed.kid[q][x] =
               IF f # n /\ x = next /\ q = "right" THEN g
               ELSE IF f # n /\ x = f /\ q = "left" THEN w
               ELSE t.kid[q][x]
      /\ \A x \in Keys :
            freed.up[x] = IF f # n /\ x = g THEN next
                          ELSE IF f # n /\ x = w THEN f
                          ELSE t.up[x]
  <2>1. CASE f = n
    BY <1>1, <2>1 DEF freed
  <2>2. CASE f # n
    <3>1. next \in Keys /\ w \in Node /\ g \in Node /\ t.up[next] = f /\ f # Nil
      BY <1>1, <1>2, <1>3 DEF f
    <3>2. SideOf(t, next, f) = "left"
      BY <1>2, <2>2 DEF SideOf
    <3>3. /\ t1 \in Tree /\ t1.value = t.value
          /\ t1.root = IF t.up[next] = Nil THEN w ELSE t.root
          /\ \A q \in Sides, x \in Keys :
                t1.kid[q][x] = IF x = t.up[next] /\ q = SideOf(t, next, t.up[next])
                               THEN w ELSE t.kid[q][x]
          /\ \A x \in Keys : t1.up[x] = IF x = w THEN t.up[next] ELSE t.up[x]
      <4>1. t \in Tree /\ next \in Keys /\ w \in Node
        BY <1>1, <3>1
      <4> QED
        BY <4>1, TransplantIs DEF t1
    <3>4. /\ t1 \in Tree /\ t1.value = t.value /\ t1.root = t.root
          /\ \A q \in Sides, x \in Keys :
                t1.kid[q][x] = IF x = f /\ q = "left" THEN w ELSE t.kid[q][x]
          /\ \A x \in Keys : t1.up[x] = IF x = w THEN f ELSE t.up[x]
      BY <3>1, <3>2, <3>3
    <3> DEFINE k == SetKid(t1, "right", next, g)
    <3>5. /\ k \in Tree /\ k.root = t1.root /\ k.value = t1.value
          /\ \A q \in Sides, x \in Keys :
                k.kid[q][x] = IF q = "right" /\ x = next THEN g
                              ELSE t1.kid[q][x]
          /\ \A x \in Keys : k.up[x] = IF x = g THEN next ELSE t1.up[x]
      <4>1. t1 \in Tree /\ "right" \in Sides /\ next \in Keys /\ g \in Node
        BY <3>1, <3>4, TwoSides
      <4> QED
        BY <4>1, SetKidIs
    <3>6. freed = k
      BY <2>2 DEF freed
    <3> HIDE DEF k
    <3> QED
      BY <1>2, <2>2, <3>4, <3>5, <3>6
  <2> QED
    BY <2>1, <2>2
<1>7. freed.up[n] = p
  BY <1>1, <1>2, <1>3, <1>6 DEF p
<1>8. p # Nil => SideOf(freed, n, p) = SideOf(t, n, p)
  <2> SUFFICES ASSUME p # Nil PROVE freed.kid["left"][p] = t.kid["left"][p]
    BY DEF SideOf
  <2> QED
    BY <1>1, <1>2, <1>5, <1>6, TwoSides
<1>9. /\ t2 \in Tree /\ t2.value = t.value
      /\ t2.root = IF p = Nil THEN next ELSE t.root
      /\ \A q \in Sides, x \in Keys :
            t2.kid[q][x] = IF x = p /\ q = SideOf(t, n, p) THEN next
                           ELSE freed.kid[q][x]
      /\ \A x \in Keys : t2.up[x] = IF x = next THEN p ELSE freed.up[x]
  <2>1. /\ t2 \in Tree /\ t2.value = freed.value
        /\ t2.root = IF freed.up[n] = Nil THEN next ELSE freed.root
        /\ \A q \in Sides, x \in Keys :
              t2.kid[q][x] =
                IF x = freed.up[n] /\ q = SideOf(freed, n, freed.up[n])
                THEN next ELSE freed.kid[q][x]
        /\ \A x \in Keys :
              t2.up[x] = IF x = next THEN freed.up[n] ELSE freed.up[x]
    <3>1. freed \in Tree /\ n \in Keys /\ next \in Node
      BY <1>1, <1>2, <1>6
    <3> QED
      BY <3>1, TransplantIs DEF t2
  <2>2. \A x \in Keys : x = p => p # Nil
    BY <1>1
  <2> QED
    BY <1>6, <1>7, <1>8, <2>1, <2>2
<1>10. /\ t3 \in Tree /\ t3.value = t2.value /\ t3.root = t2.root
       /\ \A q \in Sides, x \in Keys :
             t3.kid[q][x] = IF q = "left" /\ x = next THEN l ELSE t2.kid[q][x]
       /\ \A x \in Keys : t3.up[x] = IF x = l THEN next ELSE t2.up[x]
  <2>1. t2 \in Tree /\ "left" \in Sides /\ next \in Keys /\ l \in Node
    BY <1>1, <1>2, <1>3, <1>9, TwoSides
  <2> QED
    BY <2>1, SetKidIs DEF t3
<1>11. /\ t4 \in Tree /\ t4.value = t3.value /\ t4.root = t3.root
       /\ t4.kid = t3.kid /\ t4.up = t3.up
  <2>1. t3 \in Tree /\ next \in Node /\ t.red[n] \in BOOLEAN
    BY <1>1, <1>2, <1>10 DEF Tree
  <2> QED
    BY <2>1, PaintIs DEF t4
<1>12. /\ r \in Tree /\ r.value = [t4.value EXCEPT ![n] = Nil]
       /\ r.root = t4.root
       /\ \A q \in Sides, x \in Keys :
             r.kid[q][x] = IF x = n THEN Nil ELSE t4.kid[q][x]
       /\ \A x \in Keys : r.up[x] = IF x = n THEN Nil ELSE t4.up[x]
  <2>1. t4 \in Tree /\ n \in Keys
    BY <1>1, <1>11
  <2>2. Forgotten(t4, n, r)
    BY <2>1, ForgetClears DEF r
  <2> QED
    BY <2>2 DEF Forgotten
<1>13. next \in Keys /\ next # Nil
  BY <1>1, <1>2
<1>14. /\ r.value = [t.value EXCEPT ![n] = Nil]
       /\ r.root = IF p = Nil THEN next ELSE t.root
       /\ \A q \in Sides : r.kid[q][n] = Nil
  BY <1>1, <1>9, <1>10, <1>11, <1>12
<1>15. /\ r.kid["left"][next] = l
       /\ r.kid["right"][next] = IF f = n THEN w ELSE g
  <2>1. r.kid["left"][next] = l
    BY <1>2, <1>10, <1>11, <1>12, <1>13, TwoSides
  <2>2. r.kid["right"][next] = freed.kid["right"][next]
    BY <1>2, <1>9, <1>10, <1>11, <1>12, <1>13, TwoSides
  <2> QED
    BY <1>2, <1>6, <1>13, <2>1, <2>2, TwoSides DEF w
<1>16. ASSUME NEW q \in Sides, NEW x \in Keys \ {n, next}
       PROVE  r.kid[q][x] = IF x \in P /\ t.kid[q][x] = n THEN next
                            ELSE IF x \in P /\ t.kid[q][x] = next THEN w
                            ELSE t.kid[q][x]
  <2>1. r.kid[q][x] = IF x = p /\ q = SideOf(t, n, p) THEN next
                      ELSE freed.kid[q][x]
    BY <1>9, <1>10, <1>11, <1>12
  <2>2. freed.kid[q][x] = IF f # n /\ x = f /\ q = "left" THEN w
                          ELSE t.kid[q][x]
    BY <1>6
  <2>3. x = p /\ q = SideOf(t, n, p) <=> x \in P /\ t.kid[q][x] = n
    BY <1>1, <1>2, <1>5
  <2>4. f # n /\ x = f /\ q = "left" <=> x \in P /\ t.kid[q][x] = next
    BY <1>2 DEF Sides
  <2> QED
    BY <2>1, <2>2, <2>3, <2>4
<1>17. r.up[n] = Nil /\ r.up[next] = p
  BY <1>1, <1>2, <1>3, <1>9, <1>10, <1>11, <1>12, <1>13
<1>18. ASSUME NEW x \in Keys \ {n, next}
       PROVE  r.up[x] = IF x = l \/ x = g THEN next
                        ELSE IF x = w /\ f # n THEN f
                        ELSE t.up[x]
  <2>1. r.up[x] = IF x = l THEN next ELSE freed.up[x]
    BY <1>9, <1>10, <1>11, <1>12
  <2> QED
    BY <1>2, <1>6, <2>1
<1> QED
  BY <1>4, <1>12, <1>14, <1>15, <1>16, <1>17, <1>18
     DEF l, g, next, w, f, p, r

(* A node with two children is replaced by the least node on its right.    *)
LEMMA SwapKeeps ==
    ASSUME NEW t, NEW P, NEW D, Shape(t, P, D), NEW n \in P,
           t.kid["left"][n] # Nil, t.kid["right"][n] # Nil
    PROVE  \E E : Shape(Forget(Unlinked(t, n).tree, n), P \ {n}, E)
<1> DEFINE l == t.kid["left"][n]
           g == t.kid["right"][n]
           next == Minimum(t, g)
           w == t.kid["right"][next]
           f == t.up[next]
           p == t.up[n]
           r == Forget(Unlinked(t, n).tree, n)
           Q == P \ {n}
           E == [x \in Node |-> IF x = next THEN D[n] \ {n}
                                ELSE IF n \in D[x] THEN D[x] \ {n}
                                ELSE D[x] \ {next}]
<1>1. /\ P \subseteq Keys /\ P \subseteq Node /\ n \in Keys /\ n \in Node
      /\ Nil \notin Keys /\ Nil \in Node /\ Nil \notin P
  BY Constants DEF Shape
<1>2. /\ D \in [Node -> SUBSET P] /\ D[Nil] = {} /\ D[t.root] = P
      /\ t.root \in P \cup {Nil}
      /\ \A m \in P, q \in Sides :
            /\ t.kid[q][m] \in P \cup {Nil}
            /\ t.kid[q][m] # Nil => t.up[t.kid[q][m]] = m
            /\ \A x \in D[t.kid[q][m]] : Beyond(q, x, m)
      /\ \A m \in P : t.up[m] = Nil <=> m = t.root
      /\ \A m \in P : t.up[m] # Nil =>
            t.up[m] \in P /\ \E q \in Sides : t.kid[q][t.up[m]] = m
      /\ \A m \in Keys \ P, q \in Sides : t.kid[q][m] = Nil
      /\ \A m \in Keys \ P : t.up[m] = Nil
      /\ \A m \in P :
            D[m] = {m} \cup D[t.kid["left"][m]] \cup D[t.kid["right"][m]]
  BY DEF Shape, Spans, Linked
<1>3. /\ next \in P /\ next # n /\ next \in D[g] /\ next \notin D[l]
      /\ t.kid["left"][next] = Nil
      /\ \A x \in D[g] : x = next \/ next < x
      /\ \A x \in D[l] : x < next
      /\ D[next] = {next} \cup D[w] /\ next \notin D[w]
      /\ D[w] \subseteq D[g]
      /\ n \notin D[g] /\ n \notin D[l] /\ n \notin D[w]
      /\ w \in P \cup {Nil} /\ w # next /\ w # n
      /\ w # Nil => t.up[w] = next
      /\ f \in P /\ f # next
      /\ f = n => next = g
      /\ f # n => /\ next # g /\ f \in D[g]
                  /\ t.kid["left"][f] = next /\ t.kid["right"][f] # next
      /\ \A m \in P, q \in Sides : t.kid[q][m] = next => m = f
      /\ p \in P \cup {Nil} /\ p \notin D[n] /\ p # n /\ p # next
  <2>1. Follows(t, P, D, n, next)
    BY NextIs
  <2> HIDE DEF next
  <2> QED
    BY <2>1 DEF Follows
<1>4. /\ r \in Tree
      /\ r.value = [t.value EXCEPT ![n] = Nil]
      /\ r.root = IF p = Nil THEN next ELSE t.root
      /\ \A q \in Sides : r.kid[q][n] = Nil
      /\ r.kid["left"][next] = l
      /\ r.kid["right"][next] = IF f = n THEN w ELSE g
      /\ \A q \in Sides, x \in Keys \ {n, next} :
            r.kid[q][x] = IF x \in P /\ t.kid[q][x] = n THEN next
                          ELSE IF x \in P /\ t.kid[q][x] = next THEN w
                          ELSE t.kid[q][x]
      /\ r.up[n] = Nil /\ r.up[next] = p
      /\ \A x \in Keys \ {n, next} :
            r.up[x] = IF x = l \/ x = g THEN next
                      ELSE IF x = w /\ f # n THEN f
                      ELSE t.up[x]
  BY SwapIs
<1>5. /\ l \in P /\ g \in P /\ l # g /\ l # n /\ g # n /\ l # next
      /\ t.up[l] = n /\ t.up[g] = n /\ t.up[next] = f
      /\ D[n] = {n} \cup D[l] \cup D[g]
      /\ \A q \in Sides : t.kid[q][n] = l \/ t.kid[q][n] = g
  <2>1. /\ l \in P /\ l # n /\ t.up[l] = n /\ l \in D[l]
        /\ g \in P /\ g # n /\ t.up[g] = n /\ l # g
    BY <1>1, Subtrees, TwoSides DEF Opposite
  <2>2. \A q \in Sides : t.kid[q][n] = l \/ t.kid[q][n] = g
    BY DEF Sides
  <2> QED
    BY <1>2, <1>3, <2>1, <2>2
<1>6. \A q \in Sides : t.kid[q][next] = w \/ t.kid[q][next] = Nil
  BY <1>3 DEF Sides
<1>7. p = Nil <=> n = t.root
  BY <1>2
<1>8. p # Nil => \E q \in Sides : t.kid[q][p] = n
  BY <1>2
<1> HIDE DEF l, g, next, w, f, p, r
<1>9. next \in Q /\ next \in Keys /\ next \in Node /\ w \in Node /\ l \in Node /\ g \in Node
  BY <1>1, <1>3, <1>5
<1>10. E \in [Node -> SUBSET Q] /\ E[next] = D[n] \ {n}
       /\ \A x \in Node : x # next =>
             E[x] = IF n \in D[x] THEN D[x] \ {n} ELSE D[x] \ {next}
  BY <1>1, <1>2, <1>9
<1> HIDE DEF E
<1>11. E[w] = D[w] /\ E[l] = D[l] /\ (f # n => E[g] = D[g] \ {next}) /\ E[Nil] = {}
  <2>1. E[w] = D[w]
    <3>1. E[w] = D[w] \ {next}
      BY <1>3, <1>9, <1>10
    <3>2. D[w] \ {next} = D[w]
      BY <1>3
    <3> QED
      BY <3>1, <3>2
  <2>2. E[l] = D[l]
    <3>1. E[l] = D[l] \ {next}
      BY <1>3, <1>5, <1>9, <1>10
    <3>2. D[l] \ {next} = D[l]
      BY <1>3
    <3> QED
      BY <3>1, <3>2
  <2>3. f # n => E[g] = D[g] \ {next}
    BY <1>3, <1>9, <1>10
  <2>4. E[Nil] = {}
    BY <1>1, <1>2, <1>3, <1>10
  <2> QED
    BY <2>1, <2>2, <2>3, <2>4
<1>12. ASSUME NEW m \in Q, m # next, NEW q \in Sides
       PROVE  /\ r.kid[q][m] = IF t.kid[q][m] = n THEN next
                               ELSE IF t.kid[q][m] = next THEN w
                               ELSE t.kid[q][m]
              /\ E[r.kid[q][m]] = IF n \in D[m] THEN D[t.kid[q][m]] \ {n}
                                  ELSE D[t.kid[q][m]] \ {next}
  <2> DEFINE k == t.kid[q][m]
  <2>1. r.kid[q][m] = IF k = n THEN next ELSE IF k = next THEN w ELSE k
    BY <1>1, <1>4, <1>12
  <2>2. m \in P /\ m # n /\ k \in P \cup {Nil} /\ k \in Node
    BY <1>1, <1>2
  <2>3. /\ D[m] = {m} \cup D[k] \cup D[t.kid[Opposite(q)][m]]
        /\ D[k] \cap D[t.kid[Opposite(q)][m]] = {}
        /\ t.kid[Opposite(q)][m] \in P \cup {Nil}
    BY <2>2, Subtrees, TwoSides
  <2>4. n \in D[n] /\ next \in D[n]
    BY <1>3, <1>5
  <2> DEFINE h == t.kid[Opposite(q)][m]
  <2> HIDE DEF k, h
  <2>5. ASSUME k = n PROVE n \in D[m] /\ E[next] = D[k] \ {n}
    BY <1>10, <2>3, <2>4, <2>5
  <2>6. ASSUME k = next PROVE n \notin D[m] /\ E[w] = D[k] \ {next}
    <3>1. m = f /\ f # n
      BY <1>3, <2>2, <2>6 DEF k
    <3>2. D[f] \subseteq D[g]
      BY <1>3, <1>5, <3>1, BelowBelow
    <3>3. n \notin D[m]
      BY <1>3, <3>1, <3>2
    <3>4. D[k] \ {next} = D[w]
      BY <1>3, <2>6
    <3> QED
      BY <1>11, <3>3, <3>4
  <2>7. ASSUME k # n, k # next
        PROVE  E[k] = IF n \in D[m] THEN D[k] \ {n} ELSE D[k] \ {next}
    <3>1. E[k] = IF n \in D[k] THEN D[k] \ {n} ELSE D[k] \ {next}
      BY <1>10, <2>2, <2>7
    <3>2. D[m] = {m} \cup D[k] \cup D[h] /\ D[k] \cap D[h] = {}
          /\ h \in P \cup {Nil}
      BY <2>3 DEF h
    <3>3. CASE n \in D[k]
      BY <3>1, <3>2, <3>3
    <3>4. CASE n \notin D[m]
      <4>1. n \notin D[k]
        BY <3>2, <3>4
      <4> QED
        BY <3>1, <3>4, <4>1
    <3>5. CASE n \notin D[k] /\ n \in D[m]
      <4>1. n \in D[h]
        BY <2>2, <3>2, <3>5
      <4>2. h \in P
        BY <1>2, <3>2, <4>1
      <4>3. next \in D[h]
        BY <2>4, <4>1, <4>2, BelowBelow
      <4>4. next \notin D[k]
        BY <3>2, <4>3
      <4>5. D[k] \ {next} = D[k] \ {n}
        BY <3>5, <4>4
      <4> QED
        BY <3>1, <3>5, <4>5
    <3> QED
      BY <3>3, <3>4, <3>5
  <2>8. E[r.kid[q][m]] = IF n \in D[m] THEN D[k] \ {n} ELSE D[k] \ {next}
    <3>1. CASE k = n
      BY <2>1, <2>5, <3>1
    <3>2. CASE k = next
      BY <1>3, <2>1, <2>6, <3>2
    <3>3. CASE k # n /\ k # next
      BY <2>1, <2>7, <3>3
    <3> QED
      BY <3>1, <3>2, <3>3
  <2> QED
    BY <2>1, <2>8 DEF k
<1>13. Spans(r, Q, E)
  <2>1. E[r.root] = Q
    <3>1. CASE p = Nil
      BY <1>2, <1>4, <1>7, <1>10, <3>1
    <3>2. CASE p # Nil
      <4>1. t.root # next
        BY <1>1, <1>2, <1>3, <1>5
      <4> QED
        BY <1>1, <1>2, <1>4, <1>10, <3>2, <4>1
    <3> QED
      BY <3>1, <3>2
  <2>2. ASSUME NEW m \in Q
        PROVE  E[m] = {m} \cup E[r.kid["left"][m]] \cup E[r.kid["right"][m]]
    <3>1. CASE m = next
      <4>1. E[r.kid["left"][m]] = D[l]
        BY <1>4, <1>11, <3>1
      <4>2. E[r.kid["right"][m]] = D[g] \ {next}
        BY <1>3, <1>4, <1>11, <3>1
      <4> QED
        BY <1>3, <1>5, <1>10, <3>1, <4>1, <4>2
    <3>2. CASE m # next
      <4> DEFINE a == t.kid["left"][m]
                 b == t.kid["right"][m]
      <4>1. /\ E[r.kid["left"][m]] = IF n \in D[m] THEN D[a] \ {n}
                                     ELSE D[a] \ {next}
            /\ E[r.kid["right"][m]] = IF n \in D[m] THEN D[b] \ {n}
                                      ELSE D[b] \ {next}
        BY <1>12, <3>2, TwoSides
      <4>2. /\ D[m] = {m} \cup D[a] \cup D[b]
            /\ m # n
            /\ E[m] = IF n \in D[m] THEN D[m] \ {n} ELSE D[m] \ {next}
        BY <1>1, <1>2, <1>10, <3>2
      <4> HIDE DEF a, b
      <4>3. CASE n \in D[m]
        BY <4>1, <4>2, <4>3
      <4>4. CASE n \notin D[m]
        BY <3>2, <4>1, <4>2, <4>4
      <4> QED
        BY <4>3, <4>4
    <3> QED
      BY <3>1, <3>2
  <2>3. ASSUME NEW m \in Q, NEW q \in Sides, NEW x \in E[r.kid[q][m]]
        PROVE  Beyond(q, x, m)
    <3>1. CASE m # next
      <4>1. x \in D[t.kid[q][m]]
        <5>1. E[r.kid[q][m]] = IF n \in D[m] THEN D[t.kid[q][m]] \ {n}
                               ELSE D[t.kid[q][m]] \ {next}
          BY <1>12, <3>1
        <5> QED
          BY <2>3, <5>1
      <4> QED
        BY <1>2, <4>1
    <3>2. CASE m = next /\ q = "left"
      BY <1>3, <1>4, <1>11, <2>3, <3>2 DEF Beyond
    <3>3. CASE m = next /\ q = "right"
      <4>1. x \in D[g] /\ x # next
        BY <1>3, <1>4, <1>11, <2>3, <3>3
      <4> QED
        BY <1>3, <3>3, <4>1 DEF Beyond
    <3> QED
      BY <3>1, <3>2, <3>3 DEF Sides
  <2> QED
    BY <1>10, <1>11, <2>1, <2>2, <2>3 DEF Spans
<1>14. ASSUME NEW x \in Q, x # next
       PROVE  /\ x \in Keys \ {n, next} /\ x \in P /\ x # Nil
              /\ x = w => x # l /\ (f # n => x # g)
  <2>1. x = w => t.up[x] = next
    BY <1>1, <1>3
  <2> QED
    BY <1>1, <1>3, <1>5, <1>14, <2>1
<1>15. Linked(r, Q)
  <2>1. r.root \in Q \cup {Nil}
    BY <1>2, <1>4, <1>7, <1>9
  <2>2. ASSUME NEW m \in Q, NEW q \in Sides
        PROVE  /\ r.kid[q][m] \in Q \cup {Nil}
               /\ r.kid[q][m] # Nil => r.up[r.kid[q][m]] = m
    <3>1. CASE m = next /\ q = "left"
      BY <1>1, <1>4, <1>5, <3>1
    <3>2. CASE m = next /\ q = "right" /\ f = n
      <4>1. r.kid[q][m] = w /\ w \in Q \cup {Nil}
        BY <1>3, <1>4, <3>2
      <4>2. w # Nil => w \in Keys \ {n, next} /\ t.up[w] = next
        BY <1>1, <1>3
      <4> QED
        BY <1>4, <3>2, <4>1, <4>2
    <3>3. CASE m = next /\ q = "right" /\ f # n
      BY <1>1, <1>3, <1>4, <1>5, <3>3
    <3>4. CASE m # next
      <4> DEFINE k == t.kid[q][m]
      <4>1. /\ r.kid[q][m] = IF k = n THEN next ELSE IF k = next THEN w ELSE k
            /\ k \in P \cup {Nil} /\ m \in P /\ m # n
            /\ k # Nil => t.up[k] = m
        <5>1. m \in P /\ m # n
          OBVIOUS
        <5>2. r.kid[q][m] = IF k = n THEN next ELSE IF k = next THEN w ELSE k
          BY <1>12, <3>4
        <5> QED
          BY <1>2, <5>1, <5>2
      <4> HIDE DEF k
      <4>2. CASE k = n
        BY <1>1, <1>4, <1>9, <4>1, <4>2 DEF p
      <4>3. CASE k = next
        <5>1. m = f /\ f # n /\ r.kid[q][m] = w
          BY <1>3, <1>5, <4>1, <4>3, <1>1
        <5>2. w # Nil => w \in Q /\ w # next
          BY <1>3
        <5>3. w # Nil => r.up[w] = f
          BY <1>4, <1>14, <5>1, <5>2
        <5> QED
          BY <5>1, <5>2, <5>3
      <4>4. CASE k # n /\ k # next
        <5>1. k # Nil => k \in Q /\ k # l /\ k # g /\ k # w
          BY <1>1, <1>3, <1>5, <3>4, <4>1, <4>4
        <5>2. k # Nil => r.up[k] = m
          BY <1>4, <1>14, <4>1, <4>4, <5>1
        <5> QED
          BY <4>1, <4>4, <5>1, <5>2
      <4> QED
        BY <4>2, <4>3, <4>4
    <3> QED
      BY <3>1, <3>2, <3>3, <3>4 DEF Sides
  <2>3. ASSUME NEW m \in Q PROVE r.up[m] = Nil <=> m = r.root
    <3>1. CASE m = next
      <4>1. t.root # next
        BY <1>1, <1>2, <1>3, <1>5
      <4> QED
        BY <1>4, <3>1, <4>1
    <3>2. CASE m # next /\ (m = l \/ m = g)
      <4>1. r.up[m] = next /\ next # Nil /\ t.up[m] = n
        BY <1>1, <1>4, <1>5, <1>9, <1>14, <3>2
      <4>2. m # t.root
        BY <1>1, <1>2, <4>1
      <4> QED
        BY <1>4, <3>2, <4>1, <4>2
    <3>3. CASE m # next /\ m # l /\ m # g /\ m = w /\ f # n
      <4>1. r.up[m] = f /\ f # Nil /\ t.up[m] = next /\ next # Nil
        BY <1>1, <1>3, <1>4, <1>9, <1>14, <3>3
      <4>2. m # t.root
        BY <1>2, <4>1
      <4> QED
        BY <1>4, <3>3, <4>1, <4>2
    <3>4. CASE m # next /\ m # l /\ m # g /\ ~ (m = w /\ f # n)
      <4>1. r.up[m] = t.up[m]
        BY <1>4, <1>14, <3>4
      <4> QED
        BY <1>2, <1>4, <1>7, <3>4, <4>1
    <3> QED
      BY <3>1, <3>2, <3>3, <3>4
  <2>4. ASSUME NEW m \in Q, r.up[m] # Nil
        PROVE  r.up[m] \in Q /\ \E q \in Sides : r.kid[q][r.up[m]] = m
    <3>1. CASE m = next
      <4>1. r.up[m] = p /\ p \in Q /\ p # next
        BY <1>3, <1>4, <2>4, <3>1
      <4>2. PICK q \in Sides : t.kid[q][p] = n
        BY <1>1, <1>8, <4>1
      <4> QED
        BY <1>12, <3>1, <4>1, <4>2
    <3>2. CASE m # next /\ m = l
      <4>1. r.up[m] = next /\ r.kid["left"][next] = m
        BY <1>4, <1>14, <3>2
      <4> QED
        BY <1>9, <4>1, TwoSides
    <3>3. CASE m # next /\ m # l /\ m = g
      <4>1. r.up[m] = next /\ f # n
        BY <1>4, <1>5, <1>14, <3>3, <1>3 DEF f, next
      <4>2. r.kid["right"][next] = m
        BY <1>4, <3>3, <4>1
      <4> QED
        BY <1>9, <4>1, <4>2, TwoSides
    <3>4. CASE m # next /\ m # l /\ m # g /\ m = w /\ f # n
      <4>1. r.up[m] = f /\ f \in Q /\ f # next
        BY <1>3, <1>4, <1>14, <3>4
      <4>2. t.kid["left"][f] = next
        BY <1>3, <3>4
      <4>3. r.kid["left"][f] = w
        BY <1>3, <1>12, <4>1, <4>2, TwoSides
      <4> QED
        BY <3>4, <4>1, <4>3, TwoSides
    <3>5. CASE m # next /\ m # l /\ m # g /\ m = w /\ f = n
      <4>1. r.up[m] = next /\ r.kid["right"][next] = m
        BY <1>1, <1>3, <1>4, <1>14, <3>5
      <4> QED
        BY <1>9, <4>1, TwoSides
    <3>6. CASE m # next /\ m # l /\ m # g /\ m # w
      <4> DEFINE u == t.up[m]
      <4>1. r.up[m] = u /\ u \in P
        BY <1>2, <1>4, <1>14, <2>4, <3>6
      <4>2. PICK q \in Sides : t.kid[q][u] = m
        BY <1>2, <1>14, <2>4, <3>6, <4>1
      <4> HIDE DEF u
      <4>3. u # n /\ u # next
        BY <1>5, <1>6, <1>14, <3>6, <4>2
      <4>4. r.kid[q][u] = m
        BY <1>12, <3>6, <4>1, <4>2, <4>3
      <4> QED
        BY <4>1, <4>3, <4>4
    <3> QED
      BY <3>1, <3>2, <3>3, <3>4, <3>5, <3>6
  <2>5. ASSUME NEW m \in Keys \ Q
        PROVE  r.up[m] = Nil /\ \A q \in Sides : r.kid[q][m] = Nil
    <3>1. CASE m = n
      BY <1>4, <3>1
    <3>2. CASE m # n
      <4>1. m \in Keys \ P /\ m \in Keys \ {n, next} /\ m # l /\ m # g /\ m # w
        BY <1>1, <1>3, <1>5, <1>9, <3>2
      <4> QED
        BY <1>2, <1>4, <4>1
    <3> QED
      BY <3>1, <3>2
  <2> QED
    BY <2>1, <2>2, <2>3, <2>4, <2>5 DEF Linked
<1>16. Shape(r, Q, E)
  BY <1>1, <1>4, <1>13, <1>15 DEF Shape
<1> QED
  BY <1>16 DEF r

(* deleteNode takes the node out, and its loop starts among the others. *)
LEMMA UnlinkedKeeps ==
    ASSUME NEW t, NEW P, NEW D, Shape(t, P, D), NEW n \in P
    PROVE  LET out == Unlinked(t, n)
               r == Forget(out.tree, n)
           IN  /\ \E E : Shape(r, P \ {n}, E)
               /\ r.value = [t.value EXCEPT ![n] = Nil]
               /\ out.node \in (P \ {n}) \cup {Nil}
               /\ out.parent \in (P \ {n}) \cup {Nil}
<1> DEFINE out == Unlinked(t, n)
           r == Forget(out.tree, n)
           Bypass(s) ==
             [tree |-> Transplant(t, n, t.kid[s][n]), node |-> t.kid[s][n],
              parent |-> t.up[n], black |-> ~t.red[n]]
           Right == t.kid["left"][n] = Nil
           Left == t.kid["left"][n] # Nil /\ t.kid["right"][n] = Nil
<1>1. t \in Tree /\ n \in Keys /\ n # Nil
  BY Constants DEF Shape
<1>2. \A s \in Sides : t.kid[s][n] \in (P \ {n}) \cup {Nil}
                       /\ t.kid[s][n] \in Node
  <2> SUFFICES ASSUME NEW s \in Sides
               PROVE  t.kid[s][n] \in (P \ {n}) \cup {Nil}
                      /\ t.kid[s][n] \in Node
    OBVIOUS
  <2> QED
    BY <1>1, Subtrees
<1>3. t.up[n] \in (P \ {n}) \cup {Nil}
  BY SideOfIs
<1>4. ASSUME NEW s \in Sides, t.kid[Opposite(s)][n] = Nil, out = Bypass(s)
      PROVE  /\ \E E : Shape(r, P \ {n}, E)
             /\ r.value = [t.value EXCEPT ![n] = Nil]
             /\ out.node \in (P \ {n}) \cup {Nil}
             /\ out.parent \in (P \ {n}) \cup {Nil}
  <2> DEFINE u == Transplant(t, n, t.kid[s][n])
  <2>1. /\ out.tree = u /\ out.node = t.kid[s][n]
        /\ out.parent = t.up[n]
    BY <1>4
  <2>2. \E E : Shape(Forget(u, n), P \ {n}, E)
    BY <1>4, BypassKeeps
  <2>3. u \in Tree /\ u.value = t.value
    BY <1>1, <1>2, TransplantIs
  <2> HIDE DEF u, out
  <2>4. Forget(u, n).value = [u.value EXCEPT ![n] = Nil]
    BY <1>1, <2>3, ForgetIs
  <2> QED
    BY <1>2, <1>3, <2>1, <2>2, <2>3, <2>4
<1>5. CASE Right
  <2>1. out = Bypass("right")
    BY <1>5 DEF Unlinked
  <2>2. "right" \in Sides /\ Opposite("right") = "left"
    BY DEF Sides, Opposite
  <2> HIDE DEF out, Bypass, r
  <2> QED
    BY <1>4, <1>5, <2>1, <2>2 DEF out, r
<1>6. CASE Left
  <2>1. out = Bypass("left")
    BY <1>6 DEF Unlinked
  <2>2. "left" \in Sides /\ Opposite("left") = "right"
    BY DEF Sides, Opposite
  <2> HIDE DEF out, Bypass, r
  <2> QED
    BY <1>4, <1>6, <2>1, <2>2 DEF out, r
<1>7. CASE ~ Right /\ ~ Left
  <2> DEFINE g == t.kid["right"][n]
             next == Minimum(t, g)
             w == t.kid["right"][next]
             f == t.up[next]
  <2>1. /\ \E E : Shape(r, P \ {n}, E)
        /\ r.value = [t.value EXCEPT ![n] = Nil]
    <3>1. \E E : Shape(r, P \ {n}, E)
      BY <1>7, SwapKeeps
    <3>2. r.value = [t.value EXCEPT ![n] = Nil]
      BY <1>7, SwapIs
    <3> QED
      BY <3>1, <3>2
  <2>2. out.node = w /\ out.parent = IF f = n THEN next ELSE f
    BY <1>7 DEF Unlinked
  <2>3. /\ next \in P /\ next # n /\ w \in P \cup {Nil} /\ w # n /\ f \in P
    <3>1. Follows(t, P, D, n, next)
      BY <1>7, NextIs
    <3> HIDE DEF next
    <3> QED
      BY <3>1 DEF Follows
  <2> HIDE DEF out, r, next, w, f
  <2> QED
    BY <2>1, <2>2, <2>3 DEF out, r
<1> QED
  BY <1>5, <1>6, <1>7

-----------------------------------------------------------------------------
(* The invariant *)

(* The tree has the nodes P in its shape and the values v. *)
Holds(t, P, v) == (\E D : Shape(t, P, D)) /\ t.value = v

(* The tree holds what the calls add up to, and the loops work on its      *)
(* nodes.                                                                  *)
MapInv ==
    /\ TypeOK
    /\ Holds(tree, Present, dict)
    /\ count = Cardinality(Present)
    /\ fix.node \in Present \cup {Nil}
    /\ fix.parent \in Present \cup {Nil}
    /\ fix.loop = "insert" => fix.node # Nil

(* Painting leaves nodes and values as they are. *)
LEMMA PaintHolds ==
    ASSUME NEW t, NEW P, NEW v, Holds(t, P, v), NEW n \in Node,
           NEW colour \in BOOLEAN
    PROVE  LET r == Paint(t, n, colour)
           IN  /\ Holds(r, P, v)
               /\ r.root = t.root /\ r.kid = t.kid /\ r.up = t.up
<1>1. PICK D : Shape(t, P, D)
  BY DEF Holds
<1>2. t \in Tree /\ t.value = v
  BY <1>1 DEF Shape, Holds
<1> DEFINE r == Paint(t, n, colour)
<1>3. /\ r \in Tree /\ r.root = t.root /\ r.kid = t.kid /\ r.up = t.up
      /\ r.value = t.value
  BY <1>2, PaintIs
<1> HIDE DEF r
<1>4. Shape(r, P, D)
  BY <1>1, <1>3, SameLinks
<1> QED
  BY <1>2, <1>3, <1>4 DEF Holds, r

(* So does a rotation. *)
LEMMA RotateHolds ==
    ASSUME NEW t, NEW P, NEW v, Holds(t, P, v), NEW s \in Sides, NEW n \in P
    PROVE  LET r == Rotate(t, s, n)
           IN  Holds(r, P, v) /\ r.root \in P \cup {Nil}
<1>1. PICK D : Shape(t, P, D)
  BY DEF Holds
<1> DEFINE r == Rotate(t, s, n)
<1>2. PICK E : Shape(r, P, E)
  BY <1>1, RotateKeeps
<1>3. r.value = t.value
  <2>1. CASE t.kid[Opposite(s)][n] = Nil
    BY <2>1 DEF Rotate
  <2>2. CASE t.kid[Opposite(s)][n] # Nil
    BY <1>1, <2>2, RotateIs
  <2> QED
    BY <2>1, <2>2
<1> HIDE DEF r
<1> QED
  BY <1>2, <1>3 DEF Holds, Shape, Linked, r

(* Links lead from nodes to nodes. *)
LEMMA HoldsLinks ==
    ASSUME NEW t, NEW P, NEW v, Holds(t, P, v)
    PROVE  /\ t \in Tree /\ P \subseteq Keys /\ t.value = v
           /\ t.root \in P \cup {Nil}
           /\ \A n \in P : t.up[n] \in P \cup {Nil}
           /\ \A n \in P, s \in Sides : t.kid[s][n] \in P \cup {Nil}
BY DEF Holds, Shape, Linked

(* In such a tree get(), entries() and range() find everything, and parents *)
(* and children agree.                                                      *)
LEMMA InvReads ==
    ASSUME MapInv
    PROVE  FindsAll /\ RangeRight /\ LinksAgree
<1>1. PICK D : Shape(tree, Present, D)
  BY DEF MapInv, Holds
<1>2. Present \in SUBSET Keys /\ tree.value = dict
  BY DEF MapInv, Holds, Present
<1>3. FindsAll
  <2>1. ASSUME NEW k \in Keys PROVE Get(tree, k) = dict[k]
    <3>1. Get(tree, k) = IF k \in Present THEN dict[k] ELSE Nil
      BY <1>1, <1>2, FindNodeRight
    <3> QED
      BY <3>1 DEF Present
  <2>2. Listing(Entries(tree), Present)
    BY <1>1, EntriesRight
  <2>3. Len(Entries(tree)) = Cardinality(Present)
    BY <1>2, <2>2, SameList
  <2> QED
    BY <2>1, <2>2, <2>3 DEF FindsAll, Listing, MapInv
<1>4. RangeRight
  BY <1>1, RangeOfRight DEF RangeRight, Listing
<1>5. LinksAgree
  <2>1. Linked(tree, Present) /\ Nil \notin Present
    BY <1>1, <1>2, Constants DEF Shape
  <2> QED
    BY <2>1 DEF Linked, LinksAgree
<1> QED
  BY <1>3, <1>4, <1>5

(* The empty map holds nothing. *)
LEMMA InitInv ==
    Init => MapInv
<1> SUFFICES ASSUME Init PROVE MapInv
  OBVIOUS
<1>1. Present = {}
  BY DEF Init, Present
<1>2. EmptyTree \in Tree
  BY Constants DEF EmptyTree, Tree
<1>3. /\ EmptyTree.root = Nil /\ EmptyTree.value = [k \in Keys |-> Nil]
      /\ \A n \in Keys : /\ EmptyTree.up[n] = Nil
                         /\ \A s \in Sides : EmptyTree.kid[s][n] = Nil
  BY DEF EmptyTree
<1> DEFINE D == [x \in Node |-> {}]
<1>4. Spans(EmptyTree, {}, D)
  BY <1>3, Constants DEF Spans
<1>5. Linked(EmptyTree, {})
  BY <1>3 DEF Linked
<1>6. Holds(EmptyTree, {}, [k \in Keys |-> Nil])
  <2> HIDE DEF D
  <2> QED
    BY <1>2, <1>3, <1>4, <1>5 DEF Shape, Holds
<1>7. TypeOK
  BY <1>2, Constants DEF Init, TypeOK, Idle
<1> QED
  BY <1>1, <1>6, <1>7, FS_EmptySet DEF Init, MapInv, Idle

(* A key is in the tree or not, and get() can tell. *)
LEMMA FoundIfPresent ==
    ASSUME MapInv, NEW key \in Keys
    PROVE  FindNode(tree, key) # Nil <=> key \in Present
<1>1. PICK D : Shape(tree, Present, D)
  BY DEF MapInv, Holds
<1> QED
  BY <1>1, FindNodeRight, Constants

(* set() on a key that has a node changes its value. *)
LEMMA UpdateInv ==
    ASSUME MapInv, NEW key \in Keys, NEW value \in ValuesOf[key],
           Update(key, value)
    PROVE  MapInv'
<1>1. value \in Values /\ value # Nil
  BY SortedMapAssumption
<1>2. key \in Present
  BY FoundIfPresent DEF Update
<1>3. /\ tree \in Tree /\ tree.value = dict /\ dict \in [Keys -> Values \cup {Nil}]
      /\ tree.value \in [Keys -> Values \cup {Nil}]
  BY DEF MapInv, Holds, TypeOK
<1>4. /\ tree' = [tree EXCEPT !.value[key] = value]
      /\ dict' = [dict EXCEPT ![key] = value]
      /\ count' = count /\ fix' = fix
  BY DEF Update
<1>5. Present' = Present
  BY <1>1, <1>2, <1>3, <1>4 DEF Present
<1>6. dict' \in [Keys -> Values \cup {Nil}]
  BY <1>1, <1>3, <1>4
<1>7. /\ tree' \in Tree /\ tree'.root = tree.root /\ tree'.kid = tree.kid
      /\ tree'.up = tree.up /\ tree'.value = dict'
  <2> DEFINE v == [tree.value EXCEPT ![key] = value]
  <2>1. tree = [root |-> tree.root, kid |-> tree.kid, up |-> tree.up,
                red |-> tree.red, value |-> tree.value]
    BY <1>3 DEF Tree
  <2>2. tree' = [tree EXCEPT !.value = v]
    BY <1>4, <2>1
  <2>3. v = dict'
    BY <1>3, <1>4
  <2> HIDE DEF v
  <2>4. tree' = [root |-> tree.root, kid |-> tree.kid, up |-> tree.up,
                 red |-> tree.red, value |-> v]
    BY <2>1, <2>2
  <2> QED
    BY <1>3, <1>6, <2>3, <2>4 DEF Tree
<1>8. PICK D : Shape(tree, Present, D)
  BY DEF MapInv, Holds
<1>9. Shape(tree', Present, D)
  BY <1>7, <1>8, SameLinks
<1>10. Holds(tree', Present', dict')
  BY <1>5, <1>7, <1>9 DEF Holds
<1>11. TypeOK'
  BY <1>4, <1>6, <1>7 DEF MapInv, TypeOK
<1> QED
  BY <1>4, <1>5, <1>10, <1>11 DEF MapInv

(* set() on a new key hangs a leaf. *)
LEMMA InsertInv ==
    ASSUME MapInv, NEW key \in Keys, NEW value \in ValuesOf[key],
           Insert(key, value)
    PROVE  MapInv'
<1>1. value \in Values /\ value # Nil /\ key # Nil
  BY SortedMapAssumption
<1>2. key \in Keys \ Present
  BY FoundIfPresent DEF Insert
<1>3. /\ tree \in Tree /\ tree.value = dict /\ dict \in [Keys -> Values \cup {Nil}]
      /\ count = Cardinality(Present) /\ count \in Nat
  BY DEF MapInv, Holds, TypeOK
<1> DEFINE a == Attach(tree, key)
<1>4. /\ tree' = [a EXCEPT !.red[key] = tree.root # Nil, !.value[key] = value]
      /\ dict' = [dict EXCEPT ![key] = value]
      /\ count' = count + 1
      /\ fix' = IF tree.root = Nil THEN Idle
                ELSE [Idle EXCEPT !.loop = "insert", !.node = key]
  BY DEF Insert
<1>5. PICK D : Shape(tree, Present, D)
  BY DEF MapInv, Holds
<1>6. PICK E : Shape(a, Present \cup {key}, E)
  BY <1>2, <1>5, AttachKeeps
<1>7. a \in Tree /\ a.red = tree.red /\ a.value = tree.value
  BY <1>2, <1>5, AttachKeeps
<1> HIDE DEF a
<1>8. Present' = Present \cup {key}
  BY <1>1, <1>3, <1>4 DEF Present
<1>9. dict' \in [Keys -> Values \cup {Nil}]
  BY <1>1, <1>3, <1>4
<1>10. /\ tree' \in Tree /\ tree'.root = a.root /\ tree'.kid = a.kid
       /\ tree'.up = a.up /\ tree'.value = dict'
  <2> DEFINE v == [a.value EXCEPT ![key] = value]
             c == [a.red EXCEPT ![key] = (tree.root # Nil)]
  <2>1. a = [root |-> a.root, kid |-> a.kid, up |-> a.up, red |-> a.red,
             value |-> a.value]
    BY <1>7 DEF Tree
  <2>2. tree' = [a EXCEPT !.red = c, !.value = v]
    BY <1>4, <2>1
  <2>3. v = dict' /\ c \in [Keys -> BOOLEAN]
    <3>1. a.red \in [Keys -> BOOLEAN]
      BY <1>7 DEF Tree
    <3> QED
      BY <1>3, <1>4, <1>7, <3>1
  <2> HIDE DEF v, c
  <2>4. tree' = [root |-> a.root, kid |-> a.kid, up |-> a.up, red |-> c,
                 value |-> v]
    BY <2>1, <2>2
  <2> QED
    BY <1>7, <1>9, <2>3, <2>4 DEF Tree
<1>11. Shape(tree', Present \cup {key}, E)
  BY <1>6, <1>10, SameLinks
<1>12. Holds(tree', Present', dict')
  BY <1>8, <1>10, <1>11 DEF Holds
<1>13. count' = Cardinality(Present') /\ count' \in Nat
  <2>1. IsFiniteSet(Present)
    BY Constants, FS_Subset DEF Present
  <2> QED
    <3>1. Cardinality(Present \cup {key}) = Cardinality(Present) + 1
      BY <1>2, <2>1, FS_AddElement
    <3> QED
      BY <1>3, <1>4, <1>8, <3>1
<1>14. /\ fix' \in [loop : {"none", "insert", "delete"}, node : Node, parent : Node]
       /\ fix'.node \in Present' \cup {Nil}
       /\ fix'.parent \in Present' \cup {Nil}
       /\ fix'.loop = "insert" => fix'.node # Nil
  <2>1. CASE tree.root = Nil
    BY <1>4, <2>1, Constants DEF Idle
  <2>2. CASE tree.root # Nil
    <3>1. fix' = [loop |-> "insert", node |-> key, parent |-> Nil]
      BY <1>4, <2>2 DEF Idle
    <3> QED
      BY <1>1, <1>8, <3>1, Constants
  <2> QED
    BY <2>1, <2>2
<1>15. TypeOK'
  BY <1>9, <1>10, <1>13, <1>14 DEF TypeOK
<1> QED
  BY <1>12, <1>13, <1>14, <1>15 DEF MapInv

(* delete() takes a node out. *)
LEMMA DeleteInv ==
    ASSUME MapInv, NEW key \in Keys, Delete(key)
    PROVE  MapInv'
<1>1. key \in Present
  BY FoundIfPresent DEF Delete
<1>2. /\ tree \in Tree /\ tree.value = dict /\ dict \in [Keys -> Values \cup {Nil}]
      /\ count = Cardinality(Present)
  BY DEF MapInv, Holds, TypeOK
<1> DEFINE out == Unlinked(tree, key)
           r == Forget(out.tree, key)
<1>3. /\ tree' = r
      /\ fix' = IF out.black
                THEN [loop |-> "delete", node |-> out.node,
                      parent |-> out.parent]
                ELSE Idle
      /\ count' = count - 1
      /\ dict' = [dict EXCEPT ![key] = Nil]
  BY DEF Delete
<1>4. PICK D : Shape(tree, Present, D)
  BY DEF MapInv, Holds
<1>5. PICK E : Shape(r, Present \ {key}, E)
  BY <1>1, <1>4, UnlinkedKeeps
<1>6. /\ r.value = [tree.value EXCEPT ![key] = Nil]
      /\ out.node \in (Present \ {key}) \cup {Nil}
      /\ out.parent \in (Present \ {key}) \cup {Nil}
  BY <1>1, <1>4, UnlinkedKeeps
<1> HIDE DEF out, r
<1>7. Present' = Present \ {key}
  BY <1>2, <1>3 DEF Present
<1>8. dict' \in [Keys -> Values \cup {Nil}]
  BY <1>2, <1>3
<1>9. Holds(tree', Present', dict') /\ tree' \in Tree
  BY <1>2, <1>3, <1>5, <1>6, <1>7 DEF Holds, Shape
<1>10. count' = Cardinality(Present') /\ count' \in Nat
  <2>1. IsFiniteSet(Present)
    BY Constants, FS_Subset DEF Present
  <2>2. IsFiniteSet(Present') /\ Cardinality(Present') = Cardinality(Present) - 1
    BY <1>1, <1>7, <2>1, FS_RemoveElement
  <2>3. Cardinality(Present') \in Nat
    BY <2>2, FS_CardinalityType
  <2> QED
    BY <1>2, <1>3, <2>2, <2>3
<1>11. /\ fix' \in [loop : {"none", "insert", "delete"}, node : Node, parent : Node]
       /\ fix'.node \in Present' \cup {Nil}
       /\ fix'.parent \in Present' \cup {Nil}
       /\ fix'.loop = "insert" => fix'.node # Nil
  <2>1. out.node \in Node /\ out.parent \in Node
    BY <1>6, Constants DEF Present
  <2>2. CASE out.black
    <3>1. fix' = [loop |-> "delete", node |-> out.node, parent |-> out.parent]
      BY <1>3, <2>2
    <3> QED
      BY <1>6, <1>7, <2>1, <3>1
  <2>3. CASE ~ out.black
    BY <1>3, <2>3, Constants DEF Idle
  <2> QED
    BY <2>2, <2>3
<1>12. TypeOK'
  BY <1>8, <1>9, <1>10, <1>11 DEF TypeOK
<1> QED
  BY <1>9, <1>10, <1>11, <1>12 DEF MapInv

(* clear() starts again. *)
LEMMA ClearInv ==
    ASSUME MapInv, Clear
    PROVE  MapInv'
<1>1. Init'
  BY DEF Clear, Init
<1>2. (Init => MapInv)'
  BY InitInv, PTL
<1> QED
  BY <1>1, <1>2

(* A step of a loop that leaves nodes and values in place, and the loop at *)
(* nodes of the tree, keeps the invariant.                                 *)
LEMMA LoopStep ==
    ASSUME MapInv, Holds(tree', Present, dict), UNCHANGED <<count, dict>>,
           fix'.node \in Present \cup {Nil}, fix'.parent \in Present \cup {Nil},
           fix'.loop = "insert" => fix'.node # Nil,
           fix' \in [loop : {"none", "insert", "delete"}, node : Node,
                     parent : Node]
    PROVE  MapInv'
<1>1. Present' = Present
  BY DEF Present
<1>2. tree' \in Tree
  BY DEF Holds, Shape
<1>3. TypeOK'
  BY <1>2 DEF MapInv, TypeOK
<1> QED
  BY <1>1, <1>3 DEF MapInv

(* Where the loop of fixInsert goes on, parent and grandparent are nodes.  *)
LEMMA InsertFamily ==
    ASSUME MapInv, InsertGoesOn
    PROVE  /\ fix.node \in Present
           /\ tree.up[fix.node] \in Present
           /\ Grandparent(fix.node) \in Present
           /\ Uncle(fix.node) \in Present \cup {Nil}
           /\ InsertSide \in Sides
<1>1. fix.node \in Present
  BY DEF MapInv, InsertGoesOn
<1>2. tree.up[fix.node] \in Present
  BY <1>1, HoldsLinks DEF MapInv, InsertGoesOn, Red
<1>3. Grandparent(fix.node) \in Present
  BY <1>2, HoldsLinks DEF MapInv, InsertGoesOn, Grandparent
<1>4. InsertSide \in Sides
  BY DEF InsertSide, SideOf, Sides
<1>5. Opposite(SideOf(tree, tree.up[fix.node], Grandparent(fix.node))) \in Sides
  BY DEF Opposite, SideOf, Sides
<1>6. Uncle(fix.node) \in Present \cup {Nil}
  BY <1>3, <1>5, HoldsLinks DEF MapInv, Uncle
<1> QED
  BY <1>1, <1>2, <1>3, <1>4, <1>6

(* Where the loop of fixDelete goes on, parent and sibling are nodes. *)
LEMMA DeleteFamily ==
    ASSUME MapInv, DeleteGoesOn
    PROVE  /\ fix.parent \in Present /\ Side \in Sides
           /\ Sibling \in Present
           /\ \A s \in Sides : Nephew(s) \in Present \cup {Nil}
<1>1. fix.parent \in Present
  BY DEF MapInv, DeleteGoesOn
<1>2. Side \in Sides /\ Opposite(Side) \in Sides
  BY DEF Side, SideOf, Sides, Opposite
<1>3. Sibling \in Present
  BY <1>1, <1>2, HoldsLinks DEF MapInv, DeleteGoesOn, Sibling
<1>4. \A s \in Sides : Nephew(s) \in Present \cup {Nil}
  BY <1>3, HoldsLinks DEF MapInv, Nephew
<1> QED
  BY <1>1, <1>2, <1>3, <1>4

(* The steps of the rebalancing loops. *)
LEMMA RebalanceInv ==
    ASSUME MapInv, Rebalance
    PROVE  MapInv'
<1>1. /\ Holds(tree, Present, dict)
      /\ fix \in [loop : {"none", "insert", "delete"}, node : Node, parent : Node]
      /\ fix.node \in Present \cup {Nil} /\ fix.parent \in Present \cup {Nil}
      /\ fix.loop = "insert" => fix.node # Nil
  BY DEF MapInv, TypeOK
<1>2. /\ Present \subseteq Node /\ Present \cup {Nil} \subseteq Node
      /\ Nil \notin Present /\ Nil \in Node
      /\ TRUE \in BOOLEAN /\ FALSE \in BOOLEAN
  BY Constants DEF Present
<1>3. CASE RecolourUncle
  <2> DEFINE p == tree.up[fix.node]
             u == Uncle(fix.node)
             g == Grandparent(fix.node)
             t1 == Paint(tree, p, FALSE)
             t2 == Paint(t1, u, FALSE)
             t3 == Paint(t2, g, TRUE)
  <2>1. /\ tree' = t3 /\ fix' = [fix EXCEPT !.node = g]
        /\ UNCHANGED <<count, dict>>
    BY <1>3 DEF RecolourUncle, Recoloured
  <2>2. p \in Node /\ u \in Node /\ g \in Node /\ g \in Present
    BY <1>2, <1>3, InsertFamily DEF RecolourUncle
  <2> HIDE DEF p, u, g, t1, t2, t3
  <2>3. Holds(t1, Present, dict)
    BY <1>1, <1>2, <2>2, PaintHolds DEF t1
  <2>4. Holds(t2, Present, dict)
    BY <1>2, <2>2, <2>3, PaintHolds DEF t2
  <2>5. Holds(t3, Present, dict)
    BY <1>2, <2>2, <2>4, PaintHolds DEF t3
  <2>6. /\ fix' \in [loop : {"none", "insert", "delete"}, node : Node, parent : Node]
        /\ fix'.node = g /\ fix'.parent = fix.parent
    BY <1>1, <2>1, <2>2
  <2> QED
    BY <1>1, <1>2, <2>1, <2>2, <2>5, <2>6, LoopStep
<1>4. CASE Straighten
  <2> DEFINE p == tree.up[fix.node]
  <2>1. /\ tree' = Rotate(tree, InsertSide, p) /\ fix' = [fix EXCEPT !.node = p]
        /\ UNCHANGED <<count, dict>>
    BY <1>4 DEF Straighten
  <2>2. p \in Present /\ InsertSide \in Sides
    BY <1>4, InsertFamily DEF Straighten
  <2> HIDE DEF p
  <2>3. Holds(tree', Present, dict)
    BY <1>1, <2>1, <2>2, RotateHolds
  <2>4. /\ fix' \in [loop : {"none", "insert", "delete"}, node : Node, parent : Node]
        /\ fix'.node = p /\ fix'.parent = fix.parent
    BY <1>1, <1>2, <2>1, <2>2
  <2> QED
    BY <1>1, <1>2, <2>1, <2>2, <2>3, <2>4, LoopStep
<1>5. CASE RotateGrandparent
  <2> DEFINE p == tree.up[fix.node]
             g == Grandparent(fix.node)
             t1 == Paint(tree, p, FALSE)
             t2 == Paint(t1, g, TRUE)
             s == Opposite(InsertSide)
  <2>1. /\ tree' = Rotate(t2, s, g)
        /\ UNCHANGED <<count, fix, dict>>
    BY <1>5 DEF RotateGrandparent
  <2>2. p \in Node /\ g \in Node /\ g \in Present /\ s \in Sides
    BY <1>2, <1>5, InsertFamily, TwoSides DEF RotateGrandparent
  <2> HIDE DEF p, g, t1, t2, s
  <2>3. Holds(t1, Present, dict)
    BY <1>1, <1>2, <2>2, PaintHolds DEF t1
  <2>4. Holds(t2, Present, dict)
    BY <1>2, <2>2, <2>3, PaintHolds DEF t2
  <2>5. Holds(tree', Present, dict)
    BY <2>1, <2>2, <2>4, RotateHolds
  <2> QED
    BY <1>1, <2>1, <2>5, LoopStep
<1>6. CASE InsertFixed
  <2>1. tree' = Paint(tree, tree.root, FALSE) /\ fix' = Idle
        /\ UNCHANGED <<count, dict>>
    BY <1>6 DEF InsertFixed
  <2>2. tree.root \in Node
    BY <1>1, <1>2, HoldsLinks
  <2>3. Holds(tree', Present, dict)
    BY <1>1, <1>2, <2>1, <2>2, PaintHolds
  <2> QED
    BY <1>2, <2>1, <2>3, LoopStep DEF Idle
<1>7. CASE SiblingRed
  <2> DEFINE p == fix.parent
             b == Sibling
             t1 == Paint(tree, b, FALSE)
             t2 == Paint(t1, p, TRUE)
             s == Side
  <2>1. /\ tree' = Rotate(t2, s, p)
        /\ UNCHANGED <<count, fix, dict>>
    BY <1>7 DEF SiblingRed
  <2>2. p \in Node /\ b \in Node /\ p \in Present /\ s \in Sides
    BY <1>2, <1>7, DeleteFamily DEF SiblingRed
  <2> HIDE DEF p, b, t1, t2, s
  <2>3. Holds(t1, Present, dict)
    BY <1>1, <1>2, <2>2, PaintHolds DEF t1
  <2>4. Holds(t2, Present, dict)
    BY <1>2, <2>2, <2>3, PaintHolds DEF t2
  <2>5. Holds(tree', Present, dict)
    BY <2>1, <2>2, <2>4, RotateHolds
  <2> QED
    BY <1>1, <2>1, <2>5, LoopStep
<1>8. CASE SiblingBlack
  <2>1. /\ tree' = Paint(tree, Sibling, TRUE)
        /\ fix' = [fix EXCEPT !.node = fix.parent,
                              !.parent = tree.up[fix.parent]]
        /\ UNCHANGED <<count, dict>>
    BY <1>8 DEF SiblingBlack
  <2>2. fix.parent \in Present /\ Sibling \in Node
    BY <1>2, <1>8, DeleteFamily DEF SiblingBlack
  <2>3. tree.up[fix.parent] \in Present \cup {Nil}
    BY <1>1, <2>2, HoldsLinks
  <2>4. Holds(tree', Present, dict)
    BY <1>1, <1>2, <2>1, <2>2, PaintHolds
  <2>5. /\ fix' \in [loop : {"none", "insert", "delete"}, node : Node, parent : Node]
        /\ fix'.node = fix.parent /\ fix'.parent = tree.up[fix.parent]
    BY <1>1, <1>2, <2>1, <2>2, <2>3
  <2> QED
    BY <1>2, <2>1, <2>2, <2>3, <2>4, <2>5, LoopStep
<1>9. CASE TurnSibling
  <2> DEFINE b == Sibling
             n == Nephew(Side)
             t1 == Paint(tree, n, FALSE)
             t2 == Paint(t1, b, TRUE)
             s == Opposite(Side)
  <2>1. /\ tree' = Rotate(t2, s, b)
        /\ UNCHANGED <<count, fix, dict>>
    BY <1>9 DEF TurnSibling
  <2>2. n \in Node /\ b \in Node /\ b \in Present /\ s \in Sides
    BY <1>2, <1>9, DeleteFamily, TwoSides DEF TurnSibling
  <2> HIDE DEF n, b, t1, t2, s
  <2>3. Holds(t1, Present, dict)
    BY <1>1, <1>2, <2>2, PaintHolds DEF t1
  <2>4. Holds(t2, Present, dict)
    BY <1>2, <2>2, <2>3, PaintHolds DEF t2
  <2>5. Holds(tree', Present, dict)
    BY <2>1, <2>2, <2>4, RotateHolds
  <2> QED
    BY <1>1, <2>1, <2>5, LoopStep
<1>10. CASE RotateParent
  <2> DEFINE b == Sibling
             n == Nephew(Opposite(Side))
             p == fix.parent
             painted == [tree EXCEPT !.red[b] = tree.red[p],
                                     !.red[n] = FALSE, !.red[p] = FALSE]
             r1 == [tree.red EXCEPT ![b] = tree.red[p]]
             r2 == [r1 EXCEPT ![n] = FALSE]
             red == [r2 EXCEPT ![p] = FALSE]
  <2>1. /\ tree' = Rotate(painted, Side, p)
        /\ fix' = [fix EXCEPT !.node = tree'.root]
        /\ UNCHANGED <<count, dict>>
    BY <1>10 DEF RotateParent
  <2>2. p \in Present /\ b \in Present /\ n \in Present /\ Side \in Sides
    <3>1. n # Nil /\ DeleteGoesOn
      BY <1>10 DEF RotateParent, Red
    <3>2. p \in Present /\ b \in Present /\ n \in Present \cup {Nil} /\ Side \in Sides
      BY <3>1, DeleteFamily, TwoSides
    <3> QED
      BY <3>1, <3>2
  <2>3. tree \in Tree /\ Present \subseteq Keys
    BY <1>1, HoldsLinks
  <2> HIDE DEF b, n, p
  <2>4. tree = [root |-> tree.root, kid |-> tree.kid, up |-> tree.up,
                red |-> tree.red, value |-> tree.value]
        /\ tree.red \in [Keys -> BOOLEAN]
    BY <2>3 DEF Tree
  <2>5. painted = [tree EXCEPT !.red = red]
    BY <2>4
  <2>6. red \in [Keys -> BOOLEAN]
    BY <2>2, <2>3, <2>4
  <2> HIDE DEF painted, red
  <2>7. painted = [root |-> tree.root, kid |-> tree.kid, up |-> tree.up,
                   red |-> red, value |-> tree.value]
    BY <2>4, <2>5
  <2>8. /\ painted \in Tree /\ painted.root = tree.root
        /\ painted.kid = tree.kid /\ painted.up = tree.up
        /\ painted.value = tree.value
    BY <2>3, <2>6, <2>7 DEF Tree
  <2>9. Holds(painted, Present, dict)
    <3>1. PICK D : Shape(tree, Present, D)
      BY <1>1 DEF Holds
    <3>2. Shape(painted, Present, D)
      BY <2>8, <3>1, SameLinks
    <3> QED
      BY <1>1, <2>8, <3>2 DEF Holds
  <2>10. Holds(tree', Present, dict) /\ tree'.root \in Present \cup {Nil}
    BY <2>1, <2>2, <2>9, RotateHolds
  <2>11. fix.loop = "delete"
    BY <1>10 DEF RotateParent, DeleteGoesOn
  <2>12. /\ fix' \in [loop : {"none", "insert", "delete"}, node : Node, parent : Node]
         /\ fix'.node = tree'.root /\ fix'.parent = fix.parent
         /\ fix'.loop = "delete"
    BY <1>1, <1>2, <2>1, <2>10, <2>11
  <2> QED
    BY <1>1, <2>1, <2>10, <2>12, LoopStep
<1>11. CASE DeleteFixed
  <2>1. tree' = Paint(tree, fix.node, FALSE) /\ fix' = Idle
        /\ UNCHANGED <<count, dict>>
    BY <1>11 DEF DeleteFixed
  <2>2. fix.node \in Node
    BY <1>1, <1>2
  <2>3. Holds(tree', Present, dict)
    BY <1>1, <1>2, <2>1, <2>2, PaintHolds
  <2> QED
    BY <1>2, <2>1, <2>3, LoopStep DEF Idle
<1> QED
  BY <1>3, <1>4, <1>5, <1>6, <1>7, <1>8, <1>9, <1>10, <1>11 DEF Rebalance

(* Every step keeps the invariant. *)
LEMMA StepInv ==
    MapInv /\ [Next]_vars => MapInv'
<1> SUFFICES ASSUME MapInv, [Next]_vars PROVE MapInv'
  OBVIOUS
<1>1. CASE UNCHANGED vars
  BY <1>1 DEF MapInv, TypeOK, Holds, Shape, Spans, Linked, Present, vars
<1>2. CASE \E k \in Keys : \E v \in ValuesOf[k] : Update(k, v) \/ Insert(k, v)
  BY <1>2, UpdateInv, InsertInv
<1>3. CASE \E k \in Keys : Delete(k)
  BY <1>3, DeleteInv
<1>4. CASE Clear
  BY <1>4, ClearInv
<1>5. CASE Rebalance
  BY <1>5, RebalanceInv
<1> QED
  BY <1>1, <1>2, <1>3, <1>4, <1>5 DEF Next

(* The map holds the invariant all the time. *)
LEMMA AlwaysInv ==
    Spec => []MapInv
BY InitInv, StepInv, PTL DEF Spec

-----------------------------------------------------------------------------
(* Black nodes and red pairs *)

(* 1 for a black node. *)
Black(t, n) == IF t.red[n] THEN 0 ELSE 1

(* 1 for a place of S; a place is a node with one of its sides. *)
Lacks(S, n, s) == IF <<n, s>> \in S THEN 1 ELSE 0

(* R gives the number of black nodes on every path from a node down, when  *)
(* one more is counted at the places S.                                    *)
Heights(t, P, R, S) ==
    /\ R \in [Node -> Nat]
    /\ R[Nil] = 0
    /\ \A n \in P, s \in Sides :
          R[n] = R[t.kid[s][n]] + Black(t, n) + Lacks(S, n, s)

(* No red node has a red child but those of X; no node but those of Y has. *)
Pairs(t, P, X, Y) ==
    \A n \in P, s \in Sides :
        Red(t, t.kid[s][n]) /\ t.red[n] => t.kid[s][n] \in X \/ n \in Y

(* The place where a black node is missing. *)
ShortPlaces ==
    IF fix.loop = "delete" /\ fix.node # tree.root
    THEN {<<fix.parent, Side>>} ELSE {}

(* The nodes that may be red under red, and red over red. *)
RedBelow == IF fix.loop = "none" THEN {} ELSE {fix.node}
RedAbove == IF fix.loop = "delete" THEN {fix.node} ELSE {}

(* The tree is balanced but for the place the loop works on. *)
ColourInv ==
    /\ fix = Idle \/ fix.loop \in {"insert", "delete"}
    /\ \E R : Heights(tree, Present, R, ShortPlaces)
    /\ Pairs(tree, Present, RedBelow, RedAbove)
    /\ Red(tree, tree.root) => fix # Idle /\ fix.node = tree.root
    /\ fix.loop = "insert" => tree.red[fix.node]
    /\ fix.loop = "delete" /\ fix.node # tree.root =>
          fix.parent \in Present /\ tree.kid[Side][fix.parent] = fix.node

(* What BlackHeight counts once more for the subtree that is short. *)
Shortage(n) == IF fix.loop = "delete" /\ n = fix.node THEN 1 ELSE 0

(* What BlackHeight finds on side s of m, when f gives it for the nodes. *)
Under(f, m, s) ==
    IF tree.kid[s][m] # Nil THEN f[tree.kid[s][m]]
    ELSE IF m = fix.parent /\ s = SideOf(tree, Nil, m) THEN Shortage(Nil)
    ELSE 0

Measures(f) ==
    f = [m \in Keys |->
           IF Under(f, m, "left") = -1
              \/ Under(f, m, "left") # Under(f, m, "right")
           THEN -1
           ELSE Under(f, m, "left") + (IF tree.red[m] THEN 0 ELSE 1)
                + Shortage(m)]

(* The heights of the invariant are the ones BlackHeight counts. *)
LEMMA UnderIs ==
    ASSUME NEW D, Shape(tree, Present, D), NEW R,
           Heights(tree, Present, R, ShortPlaces), ColourInv,
           NEW f, \A n \in Present : f[n] = R[n] + Shortage(n),
           NEW m \in Present, NEW s \in Sides
    PROVE  Under(f, m, s) = R[tree.kid[s][m]] + Lacks(ShortPlaces, m, s)
<1> DEFINE k == tree.kid[s][m]
<1>1. /\ k \in Present \cup {Nil} /\ k \in Node /\ (k # Nil => tree.up[k] = m)
      /\ k # Nil => k # tree.kid[Opposite(s)][m]
  BY Subtrees
<1>2. m \in Keys /\ m # Nil /\ Nil \notin Present /\ tree.root # Nil
      /\ R[k] \in Nat /\ R[Nil] = 0
  <2>1. m \in Keys /\ m # Nil /\ Nil \notin Present
    BY Constants DEF Present
  <2>2. tree.root # Nil
    BY DEF Shape, Spans
  <2> QED
    BY <1>1, <2>1, <2>2 DEF Heights
<1>3. CASE k # Nil
  <2>1. Under(f, m, s) = R[k] + Shortage(k)
    BY <1>1, <1>3 DEF Under
  <2>2. Shortage(k) = Lacks(ShortPlaces, m, s)
    <3>1. CASE fix.loop = "delete" /\ k = fix.node
      <4>1. fix.node # tree.root
        BY <1>1, <1>2, <1>3, <3>1 DEF Shape, Linked
      <4>2. fix.parent \in Present /\ tree.kid[Side][fix.parent] = k
            /\ Side \in Sides
        BY <3>1, <4>1 DEF ColourInv, Side, SideOf, Sides
      <4>3. fix.parent = m
        BY <1>1, <1>3, <4>2, Subtrees
      <4>4. Side = s
        BY <1>1, <1>3, <4>2, <4>3, TwoSides
      <4> QED
        BY <3>1, <4>1, <4>3, <4>4 DEF Shortage, Lacks, ShortPlaces
    <3>2. CASE ~ (fix.loop = "delete" /\ k = fix.node)
      <4>1. fix.loop = "delete" /\ fix.node # tree.root =>
               tree.kid[Side][fix.parent] # k
        BY <3>2 DEF ColourInv
      <4> QED
        BY <3>2, <4>1 DEF Shortage, Lacks, ShortPlaces
    <3> QED
      BY <3>1, <3>2
  <2> QED
    BY <2>1, <2>2
<1>4. CASE k = Nil
  <2>1. Under(f, m, s) = IF m = fix.parent /\ s = SideOf(tree, Nil, m)
                         THEN Shortage(Nil) ELSE 0
    BY <1>4 DEF Under
  <2>2. Under(f, m, s) = Lacks(ShortPlaces, m, s)
    <3>1. CASE fix.loop = "delete" /\ fix.node = Nil
      BY <1>2, <2>1, <3>1 DEF Shortage, Lacks, ShortPlaces, Side
    <3>2. CASE fix.loop = "delete" /\ fix.node # Nil
      <4>1. fix.node # tree.root => tree.kid[Side][fix.parent] # k
        BY <1>4, <3>2 DEF ColourInv
      <4> QED
        BY <2>1, <3>2, <4>1 DEF Shortage, Lacks, ShortPlaces
    <3>3. CASE fix.loop # "delete"
      BY <2>1, <3>3 DEF Shortage, Lacks, ShortPlaces
    <3> QED
      BY <3>1, <3>2, <3>3
  <2>3. Lacks(ShortPlaces, m, s) \in Nat
    BY DEF Lacks
  <2> QED
    BY <1>2, <1>4, <2>2, <2>3
<1> QED
  BY <1>3, <1>4

(* So the tree is balanced. *)
LEMMA InvBalanced ==
    ASSUME MapInv, ColourInv
    PROVE  Balanced
<1>1. PICK D : Shape(tree, Present, D)
  BY DEF MapInv, Holds
<1>2. PICK R : Heights(tree, Present, R, ShortPlaces)
  BY DEF ColourInv
<1>3. /\ Present \subseteq Keys /\ Nil \notin Keys
      /\ fix.node \in Present \cup {Nil} /\ fix.parent \in Present \cup {Nil}
      /\ R \in [Node -> Nat] /\ R[Nil] = 0
      /\ \A n \in Present : R[n] \in Nat
  BY <1>2, Constants DEF Present, MapInv, Heights
<1>4. \A n : Shortage(n) \in Nat
  BY DEF Shortage
<1>5. \A n \in Present, s \in Sides :
         /\ R[n] = R[tree.kid[s][n]] + Lacks(ShortPlaces, n, s) + Black(tree, n)
         /\ R[tree.kid[s][n]] + Lacks(ShortPlaces, n, s) \in Nat
  <2>1. \A n \in Present, s \in Sides : R[tree.kid[s][n]] \in Nat
    BY <1>1, <1>3, Subtrees
  <2>2. \A n, s : Lacks(ShortPlaces, n, s) \in Nat /\ Black(tree, n) \in Nat
    BY DEF Lacks, Black
  <2> QED
    BY <1>2, <2>1, <2>2 DEF Heights
<1> DEFINE Body(f, m) ==
             IF Under(f, m, "left") = -1
                \/ Under(f, m, "left") # Under(f, m, "right")
             THEN -1
             ELSE Under(f, m, "left") + (IF tree.red[m] THEN 0 ELSE 1)
                  + Shortage(m)
<1>6. ASSUME NEW f, NEW m \in Present,
             \A s \in Sides : Under(f, m, s) =
                 R[tree.kid[s][m]] + Lacks(ShortPlaces, m, s)
      PROVE  Body(f, m) = R[m] + Shortage(m)
  <2> DEFINE a == Under(f, m, "left")
             b == Under(f, m, "right")
  <2>1. /\ a \in Nat /\ b \in Nat
        /\ R[m] = a + Black(tree, m) /\ R[m] = b + Black(tree, m)
    BY <1>5, <1>6, TwoSides
  <2> HIDE DEF a, b
  <2>2. a = b /\ a # -1
    BY <2>1 DEF Black
  <2> QED
    BY <2>1, <2>2 DEF Black, a, b
<1>7. \E f : Measures(f)
  <2> DEFINE f == [m \in Keys |-> IF m \in Present THEN R[m] + Shortage(m)
                                  ELSE IF tree.red[m] THEN 0 ELSE 1]
  <2>1. \A n \in Present : f[n] = R[n] + Shortage(n)
    BY <1>3
  <2>2. f = [m \in Keys |-> f[m]]
    OBVIOUS
  <2>3. \A m \in Keys \ Present : f[m] = IF tree.red[m] THEN 0 ELSE 1
    OBVIOUS
  <2> HIDE DEF f
  <2>4. ASSUME NEW m \in Keys PROVE f[m] = Body(f, m)
    <3>1. CASE m \in Present
      <4>1. \A s \in Sides : Under(f, m, s) =
                R[tree.kid[s][m]] + Lacks(ShortPlaces, m, s)
        BY <1>1, <1>2, <2>1, <3>1, UnderIs
      <4> QED
        BY <1>6, <2>1, <3>1, <4>1
    <3>2. CASE m \notin Present
      <4>1. tree.kid["left"][m] = Nil /\ tree.kid["right"][m] = Nil
        BY <1>1, <3>2, TwoSides DEF Shape, Linked
      <4>2. m # fix.parent /\ m # fix.node
        BY <1>3, <3>2
      <4>3. Under(f, m, "left") = 0 /\ Under(f, m, "right") = 0 /\ Shortage(m) = 0
        BY <4>1, <4>2 DEF Under, Shortage
      <4> QED
        BY <2>3, <3>2, <4>3
    <3> QED
      BY <3>1, <3>2
  <2>5. f = [m \in Keys |-> Body(f, m)]
    <3> HIDE DEF Body
    <3> QED
      BY <2>2, <2>4
  <2> QED
    BY <2>5 DEF Measures
<1> DEFINE h == CHOOSE f : Measures(f)
<1>8. Measures(h)
  BY <1>7
<1>9. BlackHeight(tree.root) = IF tree.root = Nil THEN 0 ELSE h[tree.root]
  BY DEF BlackHeight, Measures, Under, Shortage
<1> HIDE DEF h
<1>10. \A m \in Keys : h[m] = Body(h, m)
  <2>1. h = [m \in Keys |-> Body(h, m)]
    BY <1>8 DEF Measures
  <2> HIDE DEF Body
  <2> QED
    BY <2>1
<1> HIDE DEF Body
<1> DEFINE Good == {n \in Present : h[n] = R[n] + Shortage(n)}
<1>11. ASSUME NEW n \in Present, \A s \in Sides :
           tree.kid[s][n] \in Present => tree.kid[s][n] \in Good
       PROVE  n \in Good
  <2> DEFINE f == [m \in Keys |-> IF m \in Good THEN h[m]
                                  ELSE R[m] + Shortage(m)]
  <2>1. \A m \in Present : f[m] = R[m] + Shortage(m)
    BY <1>3
  <2>2. \A s \in Sides : tree.kid[s][n] # Nil => h[tree.kid[s][n]] = f[tree.kid[s][n]]
    BY <1>1, <1>3, <1>11, Subtrees
  <2> HIDE DEF f
  <2>3. \A s \in Sides : Under(h, n, s) = Under(f, n, s)
    BY <2>2 DEF Under
  <2>4. \A s \in Sides : Under(f, n, s) =
            R[tree.kid[s][n]] + Lacks(ShortPlaces, n, s)
    BY <1>1, <1>2, <2>1, UnderIs
  <2>5. Body(h, n) = R[n] + Shortage(n)
    BY <1>6, <2>3, <2>4
  <2> QED
    BY <1>3, <1>10, <2>5
<1>12. Present \subseteq Good
  <2> HIDE DEF Good
  <2> QED
    BY <1>1, <1>11, SpanInduction
<1>13. BlackHeight(tree.root) # -1
  <2>1. tree.root \in Present \cup {Nil}
    BY <1>1 DEF Shape, Linked
  <2>2. \A n \in Present : h[n] \in Nat
    BY <1>3, <1>4, <1>12
  <2> QED
    BY <1>9, <2>1, <2>2
<1>14. ASSUME NEW n \in Present, Red(tree, n), Red(tree, tree.up[n])
       PROVE  \/ fix.loop = "insert" /\ n = fix.node
              \/ fix.loop = "delete" /\ fix.node \in {n, tree.up[n]}
  <2>1. tree.up[n] \in Present /\ \E s \in Sides : tree.kid[s][tree.up[n]] = n
    BY <1>1, <1>14 DEF Red, Shape, Linked
  <2>2. n \in RedBelow \/ tree.up[n] \in RedAbove
    BY <1>14, <2>1 DEF ColourInv, Pairs, Red
  <2>3. fix.loop \in {"none", "insert", "delete"}
    BY DEF MapInv, TypeOK
  <2> QED
    BY <2>2, <2>3 DEF RedBelow, RedAbove
<1> QED
  BY <1>13, <1>14 DEF Balanced, ColourInv

(* What Heights says at one node. *)
LEMMA HeightAt ==
    ASSUME NEW t, NEW P, NEW D, Shape(t, P, D), NEW R, NEW S,
           Heights(t, P, R, S), NEW n \in P, NEW s \in Sides
    PROVE  /\ R[n] \in Nat /\ R[t.kid[s][n]] \in Nat
           /\ Black(t, n) \in {0, 1} /\ Lacks(S, n, s) \in {0, 1}
           /\ R[n] = R[t.kid[s][n]] + Black(t, n) + Lacks(S, n, s)
<1>1. n \in Node /\ t.kid[s][n] \in Node
  <2>1. P \subseteq Keys /\ t.kid[s][n] \in P \cup {Nil}
    BY DEF Shape, Linked
  <2> QED
    BY <2>1, Constants
<1>2. R[n] \in Nat /\ R[t.kid[s][n]] \in Nat
  BY <1>1 DEF Heights
<1>3. R[n] = R[t.kid[s][n]] + Black(t, n) + Lacks(S, n, s)
  BY DEF Heights
<1> QED
  BY <1>2, <1>3 DEF Black, Lacks

(* The sibling of a place where a black node is missing is not null, so    *)
(* that fixDelete finds the side by comparing the node with the left child.*)
LEMMA ShortSide ==
    ASSUME NEW t, NEW P, NEW D, Shape(t, P, D), NEW R, NEW p \in P,
           NEW q \in Sides, Heights(t, P, R, {<<p, q>>})
    PROVE  /\ t.kid[Opposite(q)][p] # Nil
           /\ SideOf(t, t.kid[q][p], p) = q
           /\ t.kid[q][p] # t.root
<1> DEFINE o == Opposite(q)
           S == {<<p, q>>}
<1>1. o \in Sides /\ o # q
  BY TwoSides
<1>2. Lacks(S, p, q) = 1 /\ Lacks(S, p, o) = 0
  BY <1>1 DEF Lacks
<1> HIDE DEF S
<1>3. Heights(t, P, R, S)
  BY DEF S
<1>4. /\ R[t.kid[q][p]] \in Nat /\ R[t.kid[o][p]] \in Nat
      /\ Black(t, p) \in {0, 1}
      /\ R[p] = R[t.kid[q][p]] + Black(t, p) + Lacks(S, p, q)
      /\ R[p] = R[t.kid[o][p]] + Black(t, p) + Lacks(S, p, o)
  BY <1>1, <1>3, HeightAt
<1>5. R[t.kid[o][p]] # 0
  BY <1>2, <1>4
<1>6. t.kid[o][p] # Nil
  BY <1>5 DEF Heights
<1>7. t.kid[q][p] # t.kid[o][p]
  BY <1>1, <1>6, Subtrees
<1>8. SideOf(t, t.kid[q][p], p) = q
  BY <1>7 DEF SideOf, Sides, Opposite
<1>9. t.kid[q][p] # t.root
  <2>1. t.root # Nil /\ Nil \notin P
    BY Constants DEF Shape, Spans
  <2>2. t.kid[q][p] # Nil => t.kid[q][p] \in P /\ t.up[t.kid[q][p]] = p
    BY Subtrees
  <2>3. t.root \in P => t.up[t.root] = Nil
    BY DEF Shape, Linked
  <2> QED
    BY <2>1, <2>2, <2>3
<1> QED
  BY <1>6, <1>8, <1>9

(* Where a rotation puts the children. *)
LEMMA RotateKids ==
    ASSUME NEW t, NEW P, NEW D, Shape(t, P, D), NEW s \in Sides, NEW n \in P,
           t.kid[Opposite(s)][n] # Nil
    PROVE  LET r == Rotate(t, s, n)
               o == Opposite(s)
               c == t.kid[o][n]
           IN  /\ c \in P /\ c # n
               /\ t.kid[s][n] # n /\ t.kid[s][n] # c
               /\ t.kid[s][c] # n /\ t.kid[s][c] # c
               /\ t.kid[o][c] # n /\ t.kid[o][c] # c
               /\ t.kid[o][c] # Nil => t.kid[o][c] # t.kid[s][c]
               /\ t.kid[o][c] # Nil => t.kid[o][c] # t.kid[s][n]
               /\ r.kid[s][n] = t.kid[s][n] /\ r.kid[o][n] = t.kid[s][c]
               /\ r.kid[s][c] = n /\ r.kid[o][c] = t.kid[o][c]
               /\ \A x \in P \ {n, c}, q \in Sides :
                     /\ t.kid[q][x] # c
                     /\ r.kid[q][x] = IF t.kid[q][x] = n THEN c ELSE t.kid[q][x]
               /\ r.red = t.red
               /\ r.root = IF t.up[n] = Nil THEN c ELSE t.root
<1> DEFINE o == Opposite(s)
           c == t.kid[o][n]
           b == t.kid[s][c]
           a == t.kid[s][n]
           d == t.kid[o][c]
           r == Rotate(t, s, n)
<1>1. /\ o \in Sides /\ o # s /\ Opposite(o) = s /\ P \subseteq Keys /\ Nil \notin P
  BY TwoSides, Constants DEF Shape
<1>2. /\ c \in P /\ c # n /\ a # n /\ a # c /\ t.up[c] = n
      /\ (a # Nil => t.up[a] = n)
  BY <1>1, Subtrees
<1>3. /\ b # c /\ d # c /\ (b # Nil => t.up[b] = c) /\ (d # Nil => t.up[d] = c)
      /\ (d # Nil => d # b)
  BY <1>1, <1>2, Subtrees
<1>4. D[n] = {n} \cup D[a] \cup D[c] /\ n \notin D[c] /\ D[c] = {c} \cup D[b] \cup D[d]
      /\ (b # Nil => b \in D[b]) /\ (d # Nil => d \in D[d])
  BY <1>1, <1>2, Subtrees
<1>5. b # n /\ d # n
  BY <1>1, <1>4
<1>6. /\ r.red = t.red
      /\ r.root = IF t.up[n] = Nil THEN c ELSE t.root
      /\ \A q \in Sides, x \in Keys :
            r.kid[q][x] = IF x = n /\ q = o THEN b
                          ELSE IF x = c /\ q = s THEN n
                          ELSE IF t.kid[q][x] = n /\ x \in P THEN c
                          ELSE t.kid[q][x]
  BY RotateIs
<1> HIDE DEF r
<1>7. \A x \in P \ {n, c}, q \in Sides : t.kid[q][x] # c
  <2>1. \A x \in P, q \in Sides : t.kid[q][x] = c => t.up[c] = x
    BY <1>1, <1>2 DEF Shape, Linked
  <2> QED
    BY <1>2, <2>1
<1>8. \A x \in P \ {n, c}, q \in Sides :
         r.kid[q][x] = IF t.kid[q][x] = n THEN c ELSE t.kid[q][x]
  <2> HIDE DEF a, b, c, d, o
  <2> QED
    BY <1>1, <1>6
<1>9. r.kid[s][n] = a /\ r.kid[o][n] = b /\ r.kid[s][c] = n /\ r.kid[o][c] = d
  <2>1. n \in Keys /\ c \in Keys
    BY <1>1, <1>2
  <2>2. a = t.kid[s][n] /\ d = t.kid[o][c]
    OBVIOUS
  <2> HIDE DEF a, b, c, d, o
  <2> QED
    BY <1>1, <1>2, <1>5, <1>6, <2>1, <2>2
<1>10. d # Nil => d # a
  BY <1>2, <1>3
<1> QED
  BY <1>2, <1>3, <1>5, <1>6, <1>7, <1>8, <1>9, <1>10 DEF r

(* In r the node n has turned down to side s of t, and its child c up.      *)
Turned(t, P, s, n, o, c, r) ==
    /\ s \in Sides /\ o \in Sides /\ s # o /\ \A q \in Sides : q = s \/ q = o
    /\ n \in P /\ c \in P /\ c # n
    /\ t.kid[s][n] # n /\ t.kid[s][n] # c
    /\ t.kid[s][c] # n /\ t.kid[s][c] # c
    /\ t.kid[o][c] # n /\ t.kid[o][c] # c
    /\ r.kid[s][n] = t.kid[s][n] /\ r.kid[o][n] = t.kid[s][c]
    /\ r.kid[s][c] = n /\ r.kid[o][c] = t.kid[o][c]
    /\ \A x \in P \ {n, c}, q \in Sides :
          /\ t.kid[q][x] # c
          /\ r.kid[q][x] = IF t.kid[q][x] = n THEN c ELSE t.kid[q][x]
    /\ r.red = t.red

(* The same, with names for the other side and the child that moves up.    *)
LEMMA TurnKids ==
    ASSUME NEW t, NEW P, NEW D, Shape(t, P, D), NEW s \in Sides, NEW n \in P,
           NEW o, o = Opposite(s), NEW c, c = t.kid[o][n], c # Nil
    PROVE  Turned(t, P, s, n, o, c, Rotate(t, s, n))
<1> DEFINE r == Rotate(t, s, n)
<1>1. /\ c \in P /\ c # n
      /\ t.kid[s][n] # n /\ t.kid[s][n] # c
      /\ t.kid[s][c] # n /\ t.kid[s][c] # c
      /\ t.kid[o][c] # n /\ t.kid[o][c] # c
      /\ r.kid[s][n] = t.kid[s][n] /\ r.kid[o][n] = t.kid[s][c]
      /\ r.kid[s][c] = n /\ r.kid[o][c] = t.kid[o][c]
      /\ \A x \in P \ {n, c}, q \in Sides :
            /\ t.kid[q][x] # c
            /\ r.kid[q][x] = IF t.kid[q][x] = n THEN c ELSE t.kid[q][x]
      /\ r.red = t.red
  BY RotateKids
<1>2. o \in Sides /\ s # o /\ \A q \in Sides : q = s \/ q = o
  BY TwoSides
<1> HIDE DEF r
<1>3. Turned(t, P, s, n, o, c, r)
  BY <1>1, <1>2 DEF Turned
<1> QED
  BY <1>3 DEF r

(* E gives the heights of v once n has turned down to side s of it.        *)
TurnFits(v, P, E, S, s, n, o, c) ==
    /\ E \in [Node -> Nat] /\ E[Nil] = 0
    /\ E[n] = E[v.kid[s][n]] + Black(v, n) + Lacks(S, n, s)
    /\ E[n] = E[v.kid[s][c]] + Black(v, n) + Lacks(S, n, o)
    /\ E[c] = E[n] + Black(v, c) + Lacks(S, c, s)
    /\ E[c] = E[v.kid[o][c]] + Black(v, c) + Lacks(S, c, o)
    /\ \A x \in P \ {n, c}, q \in Sides :
          E[x] = E[IF v.kid[q][x] = n THEN c ELSE v.kid[q][x]]
                 + Black(v, x) + Lacks(S, x, q)

(* Heights after a rotation, from what they must be at the two nodes that  *)
(* turn and everywhere else.                                               *)
LEMMA RotateHeights ==
    ASSUME NEW t, NEW P, NEW D, Shape(t, P, D), NEW s \in Sides, NEW n \in P,
           NEW o, o = Opposite(s), NEW c, c = t.kid[o][n], c # Nil,
           NEW S, NEW E, TurnFits(t, P, E, S, s, n, o, c)
    PROVE  Heights(Rotate(t, s, n), P, E, S)
<1> DEFINE r == Rotate(t, s, n)
<1>1. Turned(t, P, s, n, o, c, r)
  BY TurnKids
<1> HIDE DEF r
<1>2. ASSUME NEW x \in P, NEW q \in Sides
      PROVE  E[x] = E[r.kid[q][x]] + Black(r, x) + Lacks(S, x, q)
  <2>1. Black(r, x) = Black(t, x)
    BY <1>1 DEF Turned, Black
  <2>2. CASE x = n /\ q = s
    <3>1. r.kid[s][n] = t.kid[s][n]
      BY <1>1 DEF Turned
    <3> QED
      BY <2>1, <2>2, <3>1 DEF TurnFits
  <2>3. CASE x = n /\ q = o
    <3>1. r.kid[o][n] = t.kid[s][c]
      BY <1>1 DEF Turned
    <3> QED
      BY <2>1, <2>3, <3>1 DEF TurnFits
  <2>4. CASE x = c /\ q = s
    <3>1. r.kid[s][c] = n
      BY <1>1 DEF Turned
    <3> QED
      BY <2>1, <2>4, <3>1 DEF TurnFits
  <2>5. CASE x = c /\ q = o
    <3>1. r.kid[o][c] = t.kid[o][c]
      BY <1>1 DEF Turned
    <3> QED
      BY <2>1, <2>5, <3>1 DEF TurnFits
  <2>6. CASE x \in P \ {n, c}
    <3>1. r.kid[q][x] = IF t.kid[q][x] = n THEN c ELSE t.kid[q][x]
      BY <1>1, <2>6 DEF Turned
    <3>2. E[x] = E[IF t.kid[q][x] = n THEN c ELSE t.kid[q][x]]
                 + Black(t, x) + Lacks(S, x, q)
      BY <2>6 DEF TurnFits
    <3> QED
      BY <2>1, <3>1, <3>2
  <2>7. q = s \/ q = o
    BY <1>1 DEF Turned
  <2> QED
    BY <2>2, <2>3, <2>4, <2>5, <2>6, <2>7
<1>3. E \in [Node -> Nat] /\ E[Nil] = 0
  BY DEF TurnFits
<1>4. Heights(r, P, E, S)
  BY <1>2, <1>3 DEF Heights
<1> QED
  BY <1>4 DEF r

(* Red nodes under red nodes after a rotation. *)
LEMMA RotatePairs ==
    ASSUME NEW t, NEW P, NEW D, Shape(t, P, D), NEW s \in Sides, NEW n \in P,
           NEW o, o = Opposite(s), NEW c, c = t.kid[o][n], c # Nil,
           NEW X, NEW Y,
           t.red[n] => ~ Red(t, t.kid[s][n]) /\ ~ Red(t, t.kid[s][c]),
           t.red[n] /\ t.red[c] => n \in X,
           t.red[c] => ~ Red(t, t.kid[o][c]),
           \A x \in P \ {n, c}, q \in Sides :
              t.red[x] => ~ Red(t, IF t.kid[q][x] = n THEN c ELSE t.kid[q][x])
    PROVE  Pairs(Rotate(t, s, n), P, X, Y)
<1> DEFINE r == Rotate(t, s, n)
<1>0. Turned(t, P, s, n, o, c, r)
  BY TurnKids
<1> HIDE DEF r
<1>1. /\ r.kid[s][n] = t.kid[s][n] /\ r.kid[o][n] = t.kid[s][c]
      /\ r.kid[s][c] = n /\ r.kid[o][c] = t.kid[o][c]
      /\ \A x \in P \ {n, c}, q \in Sides :
            r.kid[q][x] = IF t.kid[q][x] = n THEN c ELSE t.kid[q][x]
      /\ r.red = t.red
      /\ \A q \in Sides : q = s \/ q = o
  BY <1>0 DEF Turned
<1>2. ASSUME NEW x \in P, NEW q \in Sides, Red(r, r.kid[q][x]), r.red[x]
      PROVE  r.kid[q][x] \in X
  <2>1. Red(t, r.kid[q][x]) /\ t.red[x]
    BY <1>1, <1>2 DEF Red
  <2>2. CASE x = n
    BY <1>1, <2>1, <2>2
  <2>3. CASE x = c
    <3>1. ~ Red(t, t.kid[o][c])
      BY <2>1, <2>3
    <3>2. r.kid[o][c] = t.kid[o][c] /\ r.kid[s][c] = n
      BY <1>1
    <3>3. q = s
      BY <1>1, <2>1, <2>3, <3>1, <3>2
    <3>4. t.red[n] /\ t.red[c]
      BY <2>1, <2>3, <3>2, <3>3 DEF Red
    <3> QED
      BY <2>3, <3>2, <3>3, <3>4
  <2>4. CASE x \in P \ {n, c}
    BY <1>1, <2>1, <2>4
  <2> QED
    BY <2>2, <2>3, <2>4
<1> QED
  BY <1>2 DEF Pairs, r

(* In v a node n has exchanged colours with its red child c on side o.     *)
Exchanged(t, P, s, n, o, c, v) ==
    /\ s \in Sides /\ n \in P /\ o = Opposite(s) /\ c = t.kid[o][n]
    /\ c # Nil /\ t.red[c]
    /\ v \in Tree /\ v.root = t.root /\ v.kid = t.kid /\ v.up = t.up
    /\ \A x \in P : v.red[x] = IF x = n THEN t.red[c]
                               ELSE IF x = c THEN t.red[n] ELSE t.red[x]

(* A rotation that moves a red child up and exchanges the two colours      *)
(* exchanges the heights and leaves all others.                            *)
LEMMA TurnHeights ==
    ASSUME NEW t, NEW P, NEW D, Shape(t, P, D),
           NEW s, NEW n, NEW o, NEW c, NEW v, Exchanged(t, P, s, n, o, c, v),
           NEW R, NEW S, Heights(t, P, R, S),
           Lacks(S, c, s) = 0, Lacks(S, c, o) = 0, Lacks(S, n, o) = 0
    PROVE  \E E : Heights(Rotate(v, s, n), P, E, S)
<1>0. /\ s \in Sides /\ n \in P /\ o = Opposite(s) /\ c = t.kid[o][n]
      /\ c # Nil /\ t.red[c]
      /\ v \in Tree /\ v.root = t.root /\ v.kid = t.kid /\ v.up = t.up
      /\ \A x \in P : v.red[x] = IF x = n THEN t.red[c]
                                 ELSE IF x = c THEN t.red[n] ELSE t.red[x]
  BY DEF Exchanged
<1>1. Shape(v, P, D)
  BY <1>0, SameLinks
<1>2. /\ c \in P /\ c # n /\ o \in Sides
      /\ t.kid[s][n] # n /\ t.kid[s][n] # c
      /\ t.kid[s][c] # n /\ t.kid[s][c] # c
      /\ t.kid[o][c] # n /\ t.kid[o][c] # c
      /\ \A x \in P \ {n, c}, q \in Sides : t.kid[q][x] # c
  <2>1. Turned(t, P, s, n, o, c, Rotate(t, s, n))
    BY <1>0, TurnKids
  <2> QED
    BY <2>1 DEF Turned
<1> DEFINE E == [R EXCEPT ![n] = R[c], ![c] = R[n]]
<1>3. n \in Node /\ c \in Node /\ Nil # n /\ Nil # c /\ \A x \in P : x \in Node
  BY <1>0, <1>2, Constants DEF Shape
<1>4. R \in [Node -> Nat] /\ R[Nil] = 0
  BY DEF Heights
<1>5. /\ E \in [Node -> Nat] /\ E[Nil] = 0 /\ E[n] = R[c] /\ E[c] = R[n]
      /\ \A x \in Node : x # n /\ x # c => E[x] = R[x]
  BY <1>0, <1>2, <1>3, <1>4, Constants
<1> HIDE DEF E
<1>6. /\ Black(v, n) = 0 /\ Black(t, c) = 0 /\ Black(v, c) = Black(t, n)
      /\ \A x \in P \ {n, c} : Black(v, x) = Black(t, x)
  BY <1>0, <1>2 DEF Black
<1>7. \A x \in P, q \in Sides : t.kid[q][x] \in Node
  BY <1>0, Subtrees
<1>8. /\ R[t.kid[s][n]] \in Nat /\ R[n] \in Nat /\ R[c] \in Nat
      /\ Black(t, n) \in {0, 1} /\ Lacks(S, n, s) \in {0, 1}
      /\ R[n] = R[t.kid[s][n]] + Black(t, n) + Lacks(S, n, s)
  BY <1>0, <1>2, HeightAt
<1>9. R[n] = R[c] + Black(t, n)
  <2>1. R[n] = R[c] + Black(t, n) + Lacks(S, n, o)
    BY <1>0, <1>2, HeightAt
  <2> QED
    BY <1>0, <1>8, <2>1
<1>10. R[c] = R[t.kid[s][c]] /\ R[t.kid[s][c]] \in Nat
  <2>1. R[c] = R[t.kid[s][c]] + Black(t, c) + Lacks(S, c, s)
        /\ R[t.kid[s][c]] \in Nat
    BY <1>0, <1>2, HeightAt
  <2> QED
    BY <1>0, <1>6, <2>1
<1>11. R[c] = R[t.kid[o][c]] /\ R[t.kid[o][c]] \in Nat
  <2>1. R[c] = R[t.kid[o][c]] + Black(t, c) + Lacks(S, c, o)
        /\ R[t.kid[o][c]] \in Nat
    BY <1>0, <1>2, HeightAt
  <2> QED
    BY <1>0, <1>6, <2>1
<1>12. /\ E[t.kid[s][n]] = R[t.kid[s][n]] /\ E[t.kid[s][c]] = R[t.kid[s][c]]
       /\ E[t.kid[o][c]] = R[t.kid[o][c]]
  <2>1. t.kid[s][n] \in Node /\ t.kid[s][c] \in Node /\ t.kid[o][c] \in Node
    BY <1>0, <1>2, <1>7
  <2> QED
    BY <1>2, <1>5, <2>1
<1>18. c = v.kid[o][n] /\ v.kid = t.kid /\ Lacks(S, c, s) = 0
       /\ Lacks(S, c, o) = 0 /\ Lacks(S, n, o) = 0
  BY <1>0
<1>20. /\ E[n] = R[c] /\ E[c] = R[n] /\ Black(v, n) = 0
       /\ Black(v, c) = Black(t, n)
       /\ R[n] \in Nat /\ R[c] \in Nat /\ Black(t, n) \in {0, 1}
  BY <1>5, <1>6, <1>8
<1>13. E[n] = E[v.kid[s][n]] + Black(v, n) + Lacks(S, n, s)
  <2>1. R[c] = R[t.kid[s][n]] + Lacks(S, n, s)
    BY <1>8, <1>9, <1>20
  <2>2. E[v.kid[s][n]] = R[t.kid[s][n]]
    BY <1>12, <1>18
  <2> QED
    BY <1>8, <1>20, <2>1, <2>2
<1>14. E[n] = E[v.kid[s][c]] + Black(v, n) + Lacks(S, n, o)
  <2>1. E[v.kid[s][c]] = R[c]
    BY <1>10, <1>12, <1>18
  <2> QED
    BY <1>18, <1>20, <2>1
<1>15. E[c] = E[n] + Black(v, c) + Lacks(S, c, s)
  BY <1>9, <1>18, <1>20
<1>16. E[c] = E[v.kid[o][c]] + Black(v, c) + Lacks(S, c, o)
  <2>1. E[v.kid[o][c]] = R[c]
    BY <1>11, <1>12, <1>18
  <2> QED
    BY <1>9, <1>18, <1>20, <2>1
<1>17. ASSUME NEW x \in P \ {n, c}, NEW q \in Sides
       PROVE  E[x] = E[IF v.kid[q][x] = n THEN c ELSE v.kid[q][x]]
                     + Black(v, x) + Lacks(S, x, q)
  <2>1. R[x] = R[t.kid[q][x]] + Black(t, x) + Lacks(S, x, q)
    BY <1>0, HeightAt
  <2>2. E[IF t.kid[q][x] = n THEN c ELSE t.kid[q][x]] = R[t.kid[q][x]]
    BY <1>0, <1>2, <1>5, <1>7
  <2> QED
    BY <1>0, <1>3, <1>5, <1>6, <2>1, <2>2
<1>19. Heights(Rotate(v, s, n), P, E, S)
  <2>1. s \in Sides /\ n \in P /\ o = Opposite(s) /\ c # Nil
    BY <1>0
  <2>2. TurnFits(v, P, E, S, s, n, o, c)
    BY <1>5, <1>13, <1>14, <1>15, <1>16, <1>17 DEF TurnFits
  <2> QED
    BY <1>1, <1>18, <2>1, <2>2, RotateHeights
<1> QED
  BY <1>0, <1>19

(* It leaves a red node under a red one only where both turned are red.    *)
LEMMA TurnPairs ==
    ASSUME NEW t, NEW P, NEW D, Shape(t, P, D),
           NEW s, NEW n, NEW o, NEW c, NEW v, Exchanged(t, P, s, n, o, c, v),
           NEW X, NEW Y,
           ~ Red(t, t.kid[s][n]), ~ Red(t, t.kid[s][c]),
           t.red[n] => n \in X /\ ~ Red(t, t.kid[o][c]),
           \A x \in P \ {n, c}, q \in Sides :
              t.red[x] => ~ Red(t, t.kid[q][x])
    PROVE  Pairs(Rotate(v, s, n), P, X, Y)
<1>0. /\ s \in Sides /\ n \in P /\ o = Opposite(s) /\ c = t.kid[o][n]
      /\ c # Nil /\ t.red[c]
      /\ v \in Tree /\ v.root = t.root /\ v.kid = t.kid /\ v.up = t.up
      /\ \A x \in P : v.red[x] = IF x = n THEN t.red[c]
                                 ELSE IF x = c THEN t.red[n] ELSE t.red[x]
  BY DEF Exchanged
<1>1. Shape(v, P, D)
  BY <1>0, SameLinks
<1>2. /\ c \in P /\ c # n /\ o \in Sides
      /\ t.kid[s][n] # n /\ t.kid[s][n] # c
      /\ t.kid[s][c] # n /\ t.kid[s][c] # c
      /\ t.kid[o][c] # n /\ t.kid[o][c] # c
      /\ \A x \in P \ {n, c}, q \in Sides : t.kid[q][x] # c
  <2>1. Turned(t, P, s, n, o, c, Rotate(t, s, n))
    BY <1>0, TurnKids
  <2> QED
    BY <2>1 DEF Turned
<1>3. \A x \in P, q \in Sides : t.kid[q][x] \in P \cup {Nil}
  BY <1>0, Subtrees
<1>4. Nil \notin P
  BY <1>0, Constants DEF Shape
<1>5. \A x \in P \cup {Nil} : x # n /\ x # c => (Red(v, x) <=> Red(t, x))
  BY <1>0, <1>4 DEF Red
<1>6. ~ Red(v, v.kid[s][n]) /\ ~ Red(v, v.kid[s][c])
  BY <1>0, <1>2, <1>3, <1>5
<1>7. v.red[n] /\ v.red[c] => n \in X
  BY <1>0, <1>2
<1>8. v.red[c] => ~ Red(v, v.kid[o][c])
  BY <1>0, <1>2, <1>3, <1>5
<1>9. ASSUME NEW x \in P \ {n, c}, NEW q \in Sides, v.red[x]
      PROVE  ~ Red(v, IF v.kid[q][x] = n THEN c ELSE v.kid[q][x])
  <2>1. t.red[x] /\ ~ Red(t, t.kid[q][x])
    BY <1>0, <1>9
  <2>2. CASE t.kid[q][x] = n
    <3>1. ~ t.red[n]
      BY <1>0, <1>4, <2>1, <2>2 DEF Red
    <3>2. ~ Red(v, c)
      BY <1>0, <1>2, <3>1 DEF Red
    <3> QED
      BY <1>0, <2>2, <3>2
  <2>3. CASE t.kid[q][x] # n
    BY <1>0, <1>2, <1>3, <1>5, <2>1, <2>3
  <2> QED
    BY <1>0, <2>2, <2>3
<1>10. c = v.kid[o][n]
  BY <1>0
<1> QED
  BY <1>0, <1>1, <1>6, <1>7, <1>8, <1>9, <1>10, RotatePairs

-----------------------------------------------------------------------------
(* The loops keep the balance *)

(* In v the nodes a, which was red, and b have exchanged colours.          *)
Traded(t, a, b, v) ==
    /\ v \in Tree /\ v.root = t.root /\ v.kid = t.kid /\ v.up = t.up
    /\ \A x \in Keys : v.red[x] = IF x = b THEN t.red[a]
                                  ELSE IF x = a THEN t.red[b] ELSE t.red[x]

(* Painting one black and the other red does so. *)
LEMMA ExchangePaints ==
    ASSUME NEW t \in Tree, NEW a \in Keys, NEW b \in Keys, a # b,
           t.red[a], ~ t.red[b]
    PROVE  Traded(t, a, b, Paint(Paint(t, a, FALSE), b, TRUE))
<1> DEFINE w == Paint(t, a, FALSE)
           v == Paint(w, b, TRUE)
<1>1. /\ t \in Tree /\ a \in Node /\ b \in Node
      /\ TRUE \in BOOLEAN /\ FALSE \in BOOLEAN
  BY Constants
<1> HIDE DEF w
<1>2. /\ w \in Tree /\ w.root = t.root /\ w.kid = t.kid /\ w.up = t.up
      /\ \A x \in Keys : w.red[x] = IF x = a THEN FALSE ELSE t.red[x]
  BY <1>1, PaintIs DEF w
<1> HIDE DEF v
<1>3. /\ v \in Tree /\ v.root = w.root /\ v.kid = w.kid /\ v.up = w.up
      /\ \A x \in Keys : v.red[x] = IF x = b THEN TRUE ELSE w.red[x]
  <2>1. w \in Tree /\ b \in Node /\ TRUE \in BOOLEAN
    BY <1>1, <1>2
  <2> QED
    BY <2>1, PaintIs DEF v
<1>4. t.red[a] = TRUE /\ t.red[b] = FALSE
  BY DEF Tree
<1>5. Traded(t, a, b, v)
  BY <1>2, <1>3, <1>4 DEF Traded
<1> QED
  BY <1>5 DEF v, w

(* Who is who around the node of fixInsert: the node and its parent are    *)
(* the only red pair.                                                      *)
LEMMA InsertColours ==
    ASSUME MapInv, ColourInv, InsertGoesOn,
           NEW D, Shape(tree, Present, D),
           NEW x, x = fix.node, NEW p, p = tree.up[x], NEW g, g = tree.up[p],
           NEW s, s = InsertSide
    PROVE  /\ x \in Present /\ p \in Present /\ g \in Present
           /\ x # p /\ p # g /\ x # g
           /\ tree.red[x] /\ tree.red[p] /\ ~ tree.red[g]
           /\ s \in Sides /\ tree.kid[s][g] = p
           /\ \E q \in Sides : tree.kid[q][p] = x
           /\ Uncle(x) = tree.kid[Opposite(s)][g]
           /\ \A y \in Present, q \in Sides :
                 tree.red[y] /\ Red(tree, tree.kid[q][y]) => tree.kid[q][y] = x
           /\ ShortPlaces = {}
           /\ ~ Red(tree, tree.root)
<1>1. x \in Present /\ p \in Present /\ g \in Present
  <2>1. Grandparent(x) = g
    BY DEF Grandparent
  <2> QED
    BY <2>1, InsertFamily
<1>2. p # Nil /\ g # Nil
  BY <1>1, Constants DEF Present
<1>3. /\ p # x /\ g # p
      /\ s = SideOf(tree, p, g) /\ s \in Sides /\ tree.kid[s][g] = p
  <2>1. s = SideOf(tree, p, g)
    BY DEF InsertSide, Grandparent
  <2> QED
    BY <1>1, <1>2, <2>1, SideOfIs
<1>4. \E q \in Sides : tree.kid[q][p] = x
  BY <1>1, <1>2 DEF Shape, Linked
<1>5. tree.red[x] /\ tree.red[p]
  BY DEF ColourInv, InsertGoesOn, Red
<1>6. fix.loop = "insert"
  BY DEF InsertGoesOn
<1>7. \A y \in Present, q \in Sides :
         tree.red[y] /\ Red(tree, tree.kid[q][y]) => tree.kid[q][y] = x
  BY <1>6 DEF ColourInv, Pairs, RedBelow, RedAbove
<1>8. ~ tree.red[g]
  <2>1. Red(tree, p)
    BY <1>2, <1>5 DEF Red
  <2> QED
    BY <1>1, <1>3, <1>7, <2>1
<1>9. x # g
  BY <1>5, <1>8
<1>10. Uncle(x) = tree.kid[Opposite(s)][g]
  BY DEF Uncle, InsertSide, Grandparent
<1>11. ShortPlaces = {}
  BY <1>6 DEF ShortPlaces
<1>12. ~ Red(tree, tree.root)
  BY DEF ColourInv, InsertGoesOn
<1> QED
  BY <1>1, <1>3, <1>4, <1>5, <1>7, <1>8, <1>9, <1>10, <1>11, <1>12

(* Who is who around the node of fixDelete: there is no red pair at all.   *)
LEMMA DeleteColours ==
    ASSUME MapInv, ColourInv, DeleteGoesOn,
           NEW D, Shape(tree, Present, D),
           NEW x, x = fix.node, NEW p, p = fix.parent,
           NEW s, s = Side, NEW o, o = Opposite(s), NEW c, c = Sibling
    PROVE  /\ p \in Present /\ c \in Present /\ x \in Present \cup {Nil}
           /\ s \in Sides /\ o \in Sides /\ o # s
           /\ tree.kid[s][p] = x /\ tree.kid[o][p] = c
           /\ x # p /\ c # p /\ x # c
           /\ tree.up[c] = p /\ p # Nil /\ c # Nil
           /\ \A q : Nephew(q) = tree.kid[q][c]
           /\ ~ Red(tree, x)
           /\ \A y \in Present, q \in Sides :
                 tree.red[y] => ~ Red(tree, tree.kid[q][y])
           /\ ShortPlaces = {<<p, s>>}
           /\ ~ Red(tree, tree.root)
           /\ x # tree.root /\ c # tree.root /\ tree.root \in Present
<1>1. p \in Present /\ c \in Present /\ s \in Sides
  BY DeleteFamily
<1>2. o \in Sides /\ o # s /\ Opposite(o) = s
  BY <1>1, TwoSides
<1>3. fix.loop = "delete" /\ x # tree.root /\ ~ Red(tree, x)
  BY DEF DeleteGoesOn
<1>4. tree.kid[s][p] = x /\ tree.kid[o][p] = c
  BY <1>3 DEF ColourInv, Sibling
<1>5. p # Nil /\ c # Nil
  BY <1>1, Constants DEF Present
<1>6. x # p /\ x \in Present \cup {Nil}
  BY <1>1, <1>4, Subtrees
<1>7. c # p /\ c # x /\ tree.up[c] = p
  BY <1>1, <1>2, <1>4, <1>5, Subtrees
<1>8. \A q : Nephew(q) = tree.kid[q][c]
  BY DEF Nephew
<1>9. ASSUME NEW y \in Present, NEW q \in Sides, tree.red[y]
      PROVE  ~ Red(tree, tree.kid[q][y])
  <2>1. Red(tree, tree.kid[q][y]) => tree.kid[q][y] = x \/ y = x
    BY <1>3, <1>9 DEF ColourInv, Pairs, RedBelow, RedAbove
  <2>2. y # Nil
    BY Constants DEF Present
  <2> QED
    BY <1>3, <1>9, <2>1, <2>2 DEF Red
<1>10. ShortPlaces = {<<p, s>>}
  BY <1>3 DEF ShortPlaces
<1>11. ~ Red(tree, tree.root)
  BY <1>3 DEF ColourInv
<1>12. c # tree.root /\ tree.root \in Present
  <2>1. tree.root \in Present => tree.up[tree.root] = Nil
    BY DEF Shape, Linked
  <2>2. tree.root # Nil
    BY <1>1 DEF Shape, Spans
  <2>3. tree.root \in Present
    BY <2>2 DEF Shape, Linked
  <2> QED
    BY <1>5, <1>7, <2>1, <2>3
<1> QED
  BY <1>1, <1>2, <1>3, <1>4, <1>5, <1>6, <1>7, <1>8, <1>9, <1>10, <1>11, <1>12

(* fixDelete goes on at a place where a black node is missing.             *)
LEMMA NowShort ==
    ASSUME fix'.loop = "delete", NEW D, Shape(tree', Present', D),
           NEW p \in Present', p = fix'.parent,
           NEW q \in Sides, tree'.kid[q][p] = fix'.node,
           NEW R, Heights(tree', Present', R, {<<p, q>>}),
           Pairs(tree', Present', {fix'.node}, {fix'.node}),
           ~ Red(tree', tree'.root)
    PROVE  ColourInv'
<1>1. SideOf(tree', fix'.node, p) = q /\ fix'.node # tree'.root
  BY ShortSide
<1>2. Side' = q
  BY <1>1 DEF Side
<1>3. ShortPlaces' = {<<p, q>>}
  BY <1>1, <1>2 DEF ShortPlaces
<1>4. \E X : Heights(tree', Present', X, ShortPlaces')
  BY <1>3
<1>5. RedBelow' = {fix'.node} /\ RedAbove' = {fix'.node}
  BY DEF RedBelow, RedAbove
<1> QED
  BY <1>2, <1>4, <1>5 DEF ColourInv

(* No black node is missing. *)
LEMMA NowEven ==
    ASSUME \/ fix' = Idle
           \/ fix'.loop = "insert" /\ tree'.red[fix'.node]
           \/ fix'.loop = "delete" /\ fix'.node = tree'.root,
           NEW R, Heights(tree', Present', R, {}),
           Pairs(tree', Present', RedBelow', RedAbove'),
           Red(tree', tree'.root) => fix' # Idle /\ fix'.node = tree'.root
    PROVE  ColourInv'
<1>1. ShortPlaces' = {}
  BY DEF ShortPlaces, Idle
<1>2. \E X : Heights(tree', Present', X, ShortPlaces')
  BY <1>1
<1> QED
  BY <1>2 DEF ColourInv, Idle

(* Where the loops find the tree. *)
LEMMA LoopTree ==
    ASSUME MapInv, ColourInv
    PROVE  /\ \E D : Shape(tree, Present, D)
           /\ \E R : Heights(tree, Present, R, ShortPlaces)
           /\ tree \in Tree /\ Present \subseteq Keys /\ Nil \notin Present
           /\ \A n \in Present : n \in Node
           /\ fix \in [loop : {"none", "insert", "delete"}, node : Node,
                       parent : Node]
BY Constants DEF MapInv, ColourInv, Holds, TypeOK, Present

(* Case 2 of fixInsert: two red nodes turn. *)
LEMMA StraightenColours ==
    ASSUME MapInv, ColourInv, Straighten
    PROVE  ColourInv'
<1>1. /\ InsertGoesOn /\ ~ Red(tree, Uncle(fix.node)) /\ Inner
      /\ tree' = Rotate(tree, InsertSide, tree.up[fix.node])
      /\ fix' = [fix EXCEPT !.node = tree.up[fix.node]]
      /\ dict' = dict
  BY DEF Straighten
<1>2. PICK D : Shape(tree, Present, D)
  BY LoopTree
<1>3. PICK R : Heights(tree, Present, R, ShortPlaces)
  BY LoopTree
<1> DEFINE c == fix.node
           n == tree.up[c]
           g == tree.up[n]
           s == InsertSide
           o == Opposite(s)
<1>4. /\ c \in Present /\ n \in Present /\ g \in Present /\ c # n /\ n # g /\ c # g
      /\ tree.red[c] /\ tree.red[n] /\ s \in Sides
      /\ \A y \in Present, q \in Sides :
            tree.red[y] /\ Red(tree, tree.kid[q][y]) => tree.kid[q][y] = c
      /\ ShortPlaces = {} /\ ~ Red(tree, tree.root)
  BY <1>1, <1>2, InsertColours
<1>5. c = tree.kid[o][n]
  BY <1>1 DEF Inner
<1>6. tree' = Rotate(tree, s, n) /\ fix' = [fix EXCEPT !.node = n]
  BY <1>1
<1>7. /\ tree \in Tree /\ c # Nil /\ o \in Sides /\ g # Nil
      /\ fix \in [loop : {"none", "insert", "delete"}, node : Node, parent : Node]
  BY <1>4, LoopTree, TwoSides
<1>8. fix.loop = "insert"
  BY <1>1 DEF InsertGoesOn
<1> HIDE DEF c, n, g, s, o
<1>9. /\ tree.kid[s][n] # c /\ tree.kid[s][c] # c /\ tree.kid[o][c] # c
      /\ tree'.red = tree.red
      /\ tree'.root = IF g = Nil THEN c ELSE tree.root
      /\ \A x \in Present \ {n, c}, q \in Sides : tree.kid[q][x] # c
  <2>1. Turned(tree, Present, s, n, o, c, tree')
    BY <1>2, <1>4, <1>5, <1>6, <1>7, TurnKids DEF o
  <2>2. tree'.root = IF g = Nil THEN c ELSE tree.root
    BY <1>2, <1>4, <1>5, <1>6, <1>7, RotateIs DEF o, g
  <2> QED
    BY <2>1, <2>2 DEF Turned
<1>10. Present' = Present
  BY <1>1 DEF Present
<1>11. Exchanged(tree, Present, s, n, o, c, tree)
  BY <1>4, <1>5, <1>7 DEF Exchanged, Tree, o
<1>12. \E E : Heights(tree', Present, E, {})
  <2>1. \A y, q : Lacks({}, y, q) = 0
    BY DEF Lacks
  <2>2. Heights(tree, Present, R, {})
    BY <1>3, <1>4
  <2> QED
    BY <1>2, <1>6, <1>11, <2>1, <2>2, TurnHeights
<1>13. Pairs(tree', Present, {n}, {})
  <2>2. /\ ~ Red(tree, tree.kid[s][n]) /\ ~ Red(tree, tree.kid[s][c])
        /\ ~ Red(tree, tree.kid[o][c])
    BY <1>4, <1>7, <1>9
  <2>3. \A x \in Present \ {n, c}, q \in Sides :
           tree.red[x] => ~ Red(tree, tree.kid[q][x])
    BY <1>4, <1>9
  <2> QED
    BY <1>2, <1>4, <1>6, <1>11, <2>2, <2>3, TurnPairs
<1>14. fix'.loop = "insert" /\ fix'.node = n /\ tree'.red[n]
  BY <1>4, <1>6, <1>7, <1>8, <1>9
<1>15. RedBelow' = {n} /\ RedAbove' = {}
  BY <1>14 DEF RedBelow, RedAbove
<1>16. ~ Red(tree', tree'.root)
  BY <1>4, <1>7, <1>9 DEF Red
<1> QED
  BY <1>10, <1>12, <1>13, <1>14, <1>15, <1>16, NowEven

(* Case 3: the grandparent and the parent exchange colours and turn. *)
LEMMA GrandparentColours ==
    ASSUME MapInv, ColourInv, RotateGrandparent
    PROVE  ColourInv'
<1> DEFINE x == fix.node
           c == tree.up[x]
           n == tree.up[c]
           o == InsertSide
           s == Opposite(o)
           v == Paint(Paint(tree, c, FALSE), n, TRUE)
<1>1. /\ InsertGoesOn /\ ~ Red(tree, Uncle(x)) /\ ~ Inner
      /\ tree' = Rotate(v, s, n) /\ fix' = fix /\ dict' = dict
  BY DEF RotateGrandparent, Grandparent
<1>2. PICK D : Shape(tree, Present, D)
  BY LoopTree
<1>3. PICK R : Heights(tree, Present, R, ShortPlaces)
  BY LoopTree
<1>4. /\ x \in Present /\ c \in Present /\ n \in Present
      /\ x # c /\ c # n /\ x # n
      /\ tree.red[x] /\ tree.red[c] /\ ~ tree.red[n]
      /\ o \in Sides /\ tree.kid[o][n] = c
      /\ Uncle(x) = tree.kid[s][n]
      /\ \A y \in Present, q \in Sides :
            tree.red[y] /\ Red(tree, tree.kid[q][y]) => tree.kid[q][y] = x
      /\ ShortPlaces = {} /\ ~ Red(tree, tree.root)
  BY <1>1, <1>2, InsertColours
<1>5. x # tree.kid[s][c]
  BY <1>1 DEF Inner
<1>6. s \in Sides /\ o = Opposite(s)
  BY <1>4, TwoSides
<1>7. /\ tree \in Tree /\ c # Nil /\ x # Nil /\ n \in Keys /\ c \in Keys
      /\ Present \subseteq Keys /\ tree.up[x] = c
      /\ tree.root \in Present \cup {Nil}
  BY <1>2, <1>4, LoopTree DEF Shape, Linked
<1>8. fix.loop = "insert" /\ fix.node = x
  BY <1>1 DEF InsertGoesOn
<1> HIDE DEF c, n, o, s, x
<1>9. /\ v \in Tree
      /\ v.root = tree.root /\ v.kid = tree.kid /\ v.up = tree.up
      /\ \A y \in Keys : v.red[y] = IF y = n THEN tree.red[c]
                                    ELSE IF y = c THEN tree.red[n]
                                    ELSE tree.red[y]
  <2>1. /\ tree \in Tree /\ c \in Keys /\ n \in Keys /\ c # n
        /\ tree.red[c] /\ ~ tree.red[n]
    BY <1>4, <1>7
  <2>2. Traded(tree, c, n, v)
    BY <2>1, ExchangePaints
  <2> QED
    BY <2>2 DEF Traded
<1> HIDE DEF v
<1>10. Shape(v, Present, D)
  BY <1>2, <1>9, SameLinks
<1>11. /\ tree'.red = v.red
       /\ tree'.root = IF v.up[n] = Nil THEN c ELSE v.root
       /\ tree.kid[s][c] # n /\ tree.kid[s][c] # c
  BY <1>1, <1>4, <1>6, <1>7, <1>9, <1>10, RotateKids
<1>12. Exchanged(tree, Present, s, n, o, c, v)
  BY <1>4, <1>6, <1>7, <1>9 DEF Exchanged
<1>13. Present' = Present
  BY <1>1 DEF Present
<1>14. \E E : Heights(tree', Present, E, {})
  <2>1. \A y, q : Lacks({}, y, q) = 0
    BY DEF Lacks
  <2>2. Heights(tree, Present, R, {})
    BY <1>3, <1>4
  <2> QED
    BY <1>1, <1>2, <1>12, <2>1, <2>2, TurnHeights
<1>15. Pairs(tree', Present, {x}, {})
  <2>1. ~ Red(tree, tree.kid[s][n]) /\ ~ Red(tree, tree.kid[s][c])
    BY <1>1, <1>4, <1>5, <1>6
  <2>2. \A y \in Present \ {n, c}, q \in Sides :
           tree.red[y] => ~ Red(tree, tree.kid[q][y])
    <3>1. \A y \in Present, q \in Sides : tree.kid[q][y] = x => y = c
      BY <1>2, <1>7 DEF Shape, Linked
    <3> QED
      BY <1>4, <3>1
  <2> QED
    BY <1>1, <1>2, <1>4, <1>12, <2>1, <2>2, TurnPairs
<1>16. fix'.loop = "insert" /\ fix'.node = x /\ tree'.red[x]
  BY <1>1, <1>4, <1>7, <1>8, <1>9, <1>11
<1>17. RedBelow' = {x} /\ RedAbove' = {}
  BY <1>16 DEF RedBelow, RedAbove
<1>18. ~ Red(tree', tree'.root)
  <2>1. CASE v.up[n] = Nil
    BY <1>4, <1>7, <1>9, <1>11, <2>1 DEF Red
  <2>2. CASE v.up[n] # Nil
    <3>1. tree'.root = tree.root /\ tree.root # n
      BY <1>2, <1>4, <1>9, <1>11, <2>2 DEF Shape, Linked
    <3> QED
      BY <1>4, <1>7, <1>9, <1>11, <3>1 DEF Red
  <2> QED
    BY <2>1, <2>2
<1> QED
  BY <1>13, <1>14, <1>15, <1>16, <1>17, <1>18, NowEven

(* fixDelete: a red sibling and the parent exchange colours and turn.      *)
LEMMA SiblingRedColours ==
    ASSUME MapInv, ColourInv, SiblingRed
    PROVE  ColourInv'
<1> DEFINE x == fix.node
           n == fix.parent
           s == Side
           o == Opposite(s)
           c == Sibling
           v == Paint(Paint(tree, c, FALSE), n, TRUE)
<1>1. /\ DeleteGoesOn /\ Red(tree, c)
      /\ tree' = Rotate(v, s, n) /\ fix' = fix /\ dict' = dict
  BY DEF SiblingRed
<1>2. PICK D : Shape(tree, Present, D)
  BY LoopTree
<1>3. PICK R : Heights(tree, Present, R, ShortPlaces)
  BY LoopTree
<1>4. /\ n \in Present /\ c \in Present /\ x \in Present \cup {Nil}
      /\ s \in Sides /\ o \in Sides /\ o # s
      /\ tree.kid[s][n] = x /\ tree.kid[o][n] = c
      /\ x # n /\ c # n /\ x # c /\ n # Nil /\ c # Nil
      /\ ~ Red(tree, x)
      /\ \A y \in Present, q \in Sides :
            tree.red[y] => ~ Red(tree, tree.kid[q][y])
      /\ ShortPlaces = {<<n, s>>}
      /\ ~ Red(tree, tree.root)
      /\ tree.root \in Present
  BY <1>1, <1>2, DeleteColours
<1>5. tree.red[c] /\ ~ tree.red[n]
  BY <1>1, <1>4 DEF Red
<1>6. /\ tree \in Tree /\ n \in Keys /\ c \in Keys /\ Present \subseteq Keys
      /\ fix.loop = "delete"
  BY <1>1, <1>4, LoopTree DEF DeleteGoesOn
<1>7. fix'.loop = "delete" /\ fix'.node = x /\ fix'.parent = n /\ o = Opposite(s)
  BY <1>1, <1>6
<1> HIDE DEF c, n, o, s, x
<1>8. /\ v \in Tree
      /\ v.root = tree.root /\ v.kid = tree.kid /\ v.up = tree.up
      /\ \A y \in Keys : v.red[y] = IF y = n THEN tree.red[c]
                                    ELSE IF y = c THEN tree.red[n]
                                    ELSE tree.red[y]
  <2>1. /\ tree \in Tree /\ c \in Keys /\ n \in Keys /\ c # n
        /\ tree.red[c] /\ ~ tree.red[n]
    BY <1>4, <1>5, <1>6
  <2>2. Traded(tree, c, n, v)
    BY <2>1, ExchangePaints
  <2> QED
    BY <2>2 DEF Traded
<1> HIDE DEF v
<1>9. Exchanged(tree, Present, s, n, o, c, v)
  BY <1>4, <1>5, <1>6, <1>7, <1>8 DEF Exchanged
<1>10. PICK F : Shape(tree', Present, F)
  <2>1. Shape(v, Present, D)
    BY <1>2, <1>8, SameLinks
  <2> QED
    BY <1>1, <1>4, <2>1, RotateKeeps
<1>11. /\ tree'.red = v.red
       /\ tree'.root = IF v.up[n] = Nil THEN c ELSE v.root
       /\ tree'.kid[s][n] = x
  <2>1. Shape(v, Present, D)
    BY <1>2, <1>8, SameLinks
  <2> QED
    BY <1>1, <1>4, <1>7, <1>8, <2>1, RotateKids
<1>12. Present' = Present
  BY <1>1 DEF Present
<1>13. \E E : Heights(tree', Present, E, {<<n, s>>})
  <2> DEFINE S == {<<n, s>>}
  <2>1. Lacks(S, c, s) = 0 /\ Lacks(S, c, o) = 0 /\ Lacks(S, n, o) = 0
    BY <1>4 DEF Lacks
  <2> HIDE DEF S
  <2>2. Heights(tree, Present, R, S)
    BY <1>3, <1>4 DEF S
  <2>3. \E E : Heights(tree', Present, E, S)
    BY <1>1, <1>2, <1>9, <2>1, <2>2, TurnHeights
  <2> QED
    BY <2>3 DEF S
<1>14. Pairs(tree', Present, {x}, {x})
  <2>1. ~ Red(tree, tree.kid[s][n]) /\ ~ Red(tree, tree.kid[s][c])
    BY <1>4, <1>5
  <2> QED
    BY <1>1, <1>2, <1>4, <1>5, <1>9, <2>1, TurnPairs
<1>15. ~ Red(tree', tree'.root)
  <2>1. CASE v.up[n] = Nil
    BY <1>4, <1>5, <1>6, <1>8, <1>11, <2>1 DEF Red
  <2>2. CASE v.up[n] # Nil
    <3>1. tree'.root = tree.root /\ tree.root # n
      BY <1>2, <1>4, <1>8, <1>11, <2>2 DEF Shape, Linked
    <3>2. tree.root \in Keys
      BY <1>4, <1>6
    <3> QED
      BY <1>4, <1>5, <1>8, <1>11, <3>1, <3>2 DEF Red
  <2> QED
    BY <2>1, <2>2
<1> QED
  BY <1>4, <1>7, <1>10, <1>11, <1>12, <1>13, <1>14, <1>15, NowShort

(* fixDelete: a black sibling and its red near child exchange colours and  *)
(* turn.                                                                   *)
LEMMA TurnSiblingColours ==
    ASSUME MapInv, ColourInv, TurnSibling
    PROVE  ColourInv'
<1> DEFINE x == fix.node
           p == fix.parent
           o == Side
           s == Opposite(o)
           n == Sibling
           c == Nephew(o)
           v == Paint(Paint(tree, c, FALSE), n, TRUE)
<1>1. /\ DeleteGoesOn /\ ~ Red(tree, n) /\ Red(tree, c)
      /\ ~ Red(tree, Nephew(s))
      /\ tree' = Rotate(v, s, n) /\ fix' = fix /\ dict' = dict
  BY DEF TurnSibling
<1>2. PICK D : Shape(tree, Present, D)
  BY LoopTree
<1>3. PICK R : Heights(tree, Present, R, ShortPlaces)
  BY LoopTree
<1>4. /\ p \in Present /\ n \in Present /\ x \in Present \cup {Nil}
      /\ o \in Sides /\ s \in Sides /\ s # o
      /\ tree.kid[o][p] = x /\ tree.kid[s][p] = n
      /\ x # p /\ n # p /\ x # n /\ p # Nil /\ n # Nil
      /\ tree.up[n] = p
      /\ \A q : Nephew(q) = tree.kid[q][n]
      /\ \A y \in Present, q \in Sides :
            tree.red[y] => ~ Red(tree, tree.kid[q][y])
      /\ ShortPlaces = {<<p, o>>}
      /\ ~ Red(tree, tree.root)
      /\ tree.root \in Present /\ n # tree.root
  BY <1>1, <1>2, DeleteColours
<1>5. c = tree.kid[o][n] /\ c # Nil /\ c \in Present /\ tree.up[c] = n
  BY <1>1, <1>2, <1>4, Subtrees DEF Red
<1>6. tree.red[c] /\ ~ tree.red[n] /\ ~ Red(tree, tree.kid[s][n])
  BY <1>1, <1>4 DEF Red
<1>7. /\ tree \in Tree /\ n \in Keys /\ c \in Keys /\ Present \subseteq Keys
      /\ fix.loop = "delete" /\ o = Opposite(s)
  BY <1>1, <1>4, <1>5, LoopTree, TwoSides DEF DeleteGoesOn
<1>8. fix'.loop = "delete" /\ fix'.node = x /\ fix'.parent = p
  BY <1>1, <1>7
<1> HIDE DEF c, n, p, o, s, x
<1>9. /\ v \in Tree
      /\ v.root = tree.root /\ v.kid = tree.kid /\ v.up = tree.up
      /\ \A y \in Keys : v.red[y] = IF y = n THEN tree.red[c]
                                    ELSE IF y = c THEN tree.red[n]
                                    ELSE tree.red[y]
  <2>1. /\ tree \in Tree /\ c \in Keys /\ n \in Keys /\ c # n
        /\ tree.red[c] /\ ~ tree.red[n]
    BY <1>6, <1>7
  <2>2. Traded(tree, c, n, v)
    BY <2>1, ExchangePaints
  <2> QED
    BY <2>2 DEF Traded
<1> HIDE DEF v
<1>10. Exchanged(tree, Present, s, n, o, c, v)
  BY <1>4, <1>5, <1>6, <1>7, <1>9 DEF Exchanged
<1>11. Shape(v, Present, D)
  BY <1>2, <1>9, SameLinks
<1>12. PICK F : Shape(tree', Present, F)
  BY <1>1, <1>4, <1>11, RotateKeeps
<1>13. /\ tree'.red = v.red
       /\ tree'.root = IF v.up[n] = Nil THEN c ELSE v.root
       /\ \A y \in Present \ {n, c}, q \in Sides :
             tree'.kid[q][y] = IF tree.kid[q][y] = n THEN c ELSE tree.kid[q][y]
  BY <1>1, <1>4, <1>5, <1>7, <1>9, <1>11, RotateKids
<1>14. p # c
  <2>1. D[n] = {n} \cup D[c] \cup D[tree.kid[s][n]] /\ c \in D[c]
    BY <1>2, <1>4, <1>5, <1>7, Subtrees
  <2>2. p \notin D[n]
    BY <1>2, <1>4, Subtrees
  <2> QED
    BY <2>1, <2>2
<1>15. tree'.kid[o][p] = x /\ tree'.root = tree.root
  BY <1>4, <1>9, <1>13, <1>14
<1>16. Present' = Present
  BY <1>1 DEF Present
<1>17. \E E : Heights(tree', Present, E, {<<p, o>>})
  <2> DEFINE S == {<<p, o>>}
  <2>1. Lacks(S, c, s) = 0 /\ Lacks(S, c, o) = 0 /\ Lacks(S, n, o) = 0
    BY <1>4, <1>14 DEF Lacks
  <2> HIDE DEF S
  <2>2. Heights(tree, Present, R, S)
    BY <1>3, <1>4 DEF S
  <2>3. \E E : Heights(tree', Present, E, S)
    BY <1>1, <1>2, <1>10, <2>1, <2>2, TurnHeights
  <2> QED
    BY <2>3 DEF S
<1>18. Pairs(tree', Present, {x}, {x})
  <2>1. ~ Red(tree, tree.kid[s][c])
    BY <1>4, <1>5, <1>6
  <2> QED
    BY <1>1, <1>2, <1>4, <1>6, <1>10, <2>1, TurnPairs
<1>19. ~ Red(tree', tree'.root)
  <2>1. tree.root \in Keys
    BY <1>4, <1>7
  <2> QED
    <3>1. tree'.red[tree.root] = IF tree.root = n THEN tree.red[c]
                                 ELSE IF tree.root = c THEN tree.red[n]
                                 ELSE tree.red[tree.root]
      BY <1>9, <1>13, <2>1
    <3>2. ~ tree.red[tree.root] \/ tree.root = Nil
      BY <1>4 DEF Red
    <3> QED
      BY <1>4, <1>6, <1>15, <3>1, <3>2 DEF Red
<1> QED
  BY <1>4, <1>8, <1>12, <1>15, <1>16, <1>17, <1>18, <1>19, NowShort

(* T is the place of n below its parent, if it has one. *)
Above(t, P, n, T) ==
    \A y \in P, q \in Sides :
        Lacks(T, y, q) = IF t.kid[q][y] = n THEN 1 ELSE 0

(* It is the one SideOf finds. *)
LEMMA PlaceOf ==
    ASSUME NEW t, NEW P, NEW D, Shape(t, P, D), NEW n \in P
    PROVE  LET S == IF t.up[n] = Nil THEN {}
                    ELSE {<<t.up[n], SideOf(t, n, t.up[n])>>}
           IN  Above(t, P, n, S)
<1> DEFINE S == IF t.up[n] = Nil THEN {}
                ELSE {<<t.up[n], SideOf(t, n, t.up[n])>>}
<1>1. n # Nil /\ Nil \notin P
  BY Constants DEF Shape
<1>2. \A y \in P, q \in Sides : t.kid[q][y] = n => t.up[n] = y
  BY <1>1 DEF Shape, Linked
<1>3. CASE t.up[n] = Nil
  <2>1. S = {}
    BY <1>3
  <2>2. \A y \in P, q \in Sides : t.kid[q][y] # n
    BY <1>1, <1>2, <1>3
  <2> HIDE DEF S
  <2> QED
    BY <2>1, <2>2 DEF Lacks, Above, S
<1>4. CASE t.up[n] # Nil
  <2> DEFINE p == t.up[n]
             h == SideOf(t, n, p)
  <2>1. S = {<<p, h>>}
    BY <1>4
  <2>2. /\ p \in P /\ h \in Sides
        /\ \A q \in Sides : t.kid[q][p] = n <=> q = h
    BY <1>4, SideOfIs
  <2> HIDE DEF p, h, S
  <2>3. \A y \in P, q \in Sides : t.kid[q][y] = n <=> y = p /\ q = h
    BY <1>2, <2>2 DEF p
  <2>4. \A y, q : <<y, q>> \in S <=> y = p /\ q = h
    BY <2>1
  <2> QED
    BY <2>3, <2>4 DEF Lacks, Above, S
<1> QED
  BY <1>3, <1>4

(* Trees with the same children and colours have the same heights. *)
LEMMA SameHeights ==
    ASSUME NEW t, NEW v, NEW P, NEW R, NEW S, Heights(t, P, R, S),
           v.kid = t.kid, \A y \in P : v.red[y] = t.red[y]
    PROVE  Heights(v, P, R, S)
<1>1. \A y \in P : Black(v, y) = Black(t, y)
  BY DEF Black
<1> QED
  BY <1>1 DEF Heights

(* v is t with m painted black. *)
Blackened(t, P, m, v) ==
    /\ v.root = t.root /\ v.kid = t.kid
    /\ \A y \in P : v.red[y] = IF y = m THEN FALSE ELSE t.red[y]

(* The only place that is short is the one above m, if m is red. *)
ShortAbove(t, P, m, S) ==
    \A y \in P, q \in Sides :
        Lacks(S, y, q) = IF Red(t, m) /\ t.kid[q][y] = m THEN 1 ELSE 0

(* Of a red node and its red child one is m. *)
InPairs(t, P, m) ==
    \A y \in P, q \in Sides :
        t.red[y] /\ Red(t, t.kid[q][y]) => m = y \/ m = t.kid[q][y]

(* A red node painted black makes up for the place that is short above it, *)
(* or raises the height of the whole tree.                                 *)
LEMMA BlackenHeights ==
    ASSUME NEW t, NEW P, NEW D, Shape(t, P, D), NEW m \in P, t.red[m],
           NEW v, Blackened(t, P, m, v), NEW R, NEW S, Heights(t, P, R, S),
           ShortAbove(t, P, m, S)
    PROVE  \E E : Heights(v, P, E, {})
<1> DEFINE E == [R EXCEPT ![m] = R[m] + 1]
<1>1. m \in Node /\ m # Nil /\ R \in [Node -> Nat] /\ R[Nil] = 0
      /\ \A y \in P : y \in Node
  BY Constants DEF Shape, Heights
<1>2. /\ E \in [Node -> Nat] /\ E[Nil] = 0 /\ E[m] = R[m] + 1
      /\ \A y \in Node : y # m => E[y] = R[y]
  BY <1>1, Constants
<1> HIDE DEF E
<1>3. /\ Black(t, m) = 0 /\ Black(v, m) = 1
      /\ \A y \in P : y # m => Black(v, y) = Black(t, y)
  BY DEF Black, Blackened
<1>4. ASSUME NEW y \in P, NEW q \in Sides
      PROVE  E[y] = E[t.kid[q][y]] + Black(v, y) + Lacks({}, y, q)
  <2> DEFINE k == t.kid[q][y]
  <2>1. k \in Node /\ k # y
    BY Subtrees
  <2>2. /\ R[y] \in Nat /\ R[k] \in Nat /\ Black(t, y) \in {0, 1}
        /\ R[y] = R[k] + Black(t, y) + Lacks(S, y, q)
    BY HeightAt
  <2>3. Lacks(S, y, q) = (IF k = m THEN 1 ELSE 0) /\ Lacks({}, y, q) = 0
    BY <1>1 DEF Lacks, ShortAbove, Red
  <2> HIDE DEF k
  <2>4. CASE y = m
    <3>1. E[k] = R[k] /\ Lacks(S, y, q) = 0
      BY <1>2, <2>1, <2>3, <2>4
    <3> QED
      BY <1>2, <1>3, <2>2, <2>3, <2>4, <3>1 DEF k
  <2>5. CASE y # m /\ k = m
    <3>1. E[k] = R[k] + 1 /\ Lacks(S, y, q) = 1 /\ E[y] = R[y]
      BY <1>1, <1>2, <2>3, <2>5
    <3>2. Black(v, y) = Black(t, y)
      BY <1>3, <2>5
    <3> QED
      BY <2>2, <2>3, <3>1, <3>2 DEF k
  <2>6. CASE y # m /\ k # m
    <3>1. E[k] = R[k] /\ Lacks(S, y, q) = 0 /\ E[y] = R[y]
      BY <1>1, <1>2, <2>1, <2>3, <2>6
    <3>2. Black(v, y) = Black(t, y)
      BY <1>3, <2>6
    <3> QED
      BY <2>2, <2>3, <3>1, <3>2 DEF k
  <2> QED
    BY <2>4, <2>5, <2>6
<1>5. Heights(v, P, E, {})
  BY <1>2, <1>4 DEF Heights, Blackened
<1> QED
  BY <1>5

(* A loop that ends paints a node black that is the only one short or in a *)
(* red pair.                                                               *)
LEMMA EndColours ==
    ASSUME MapInv, ColourInv, NEW m \in Present \cup {Nil},
           Blackened(tree, Present, m, tree'), fix' = Idle, dict' = dict,
           ShortAbove(tree, Present, m, ShortPlaces),
           InPairs(tree, Present, m),
           m # tree.root => ~ Red(tree, tree.root)
    PROVE  ColourInv'
<1>1. PICK D : Shape(tree, Present, D)
  BY LoopTree
<1>2. PICK R : Heights(tree, Present, R, ShortPlaces)
  BY LoopTree
<1>3. /\ tree \in Tree /\ Present \subseteq Keys /\ Nil \notin Present
      /\ tree.root \in Present \cup {Nil}
      /\ \A y \in Present, q \in Sides : tree.kid[q][y] \in Present \cup {Nil}
  BY <1>1, LoopTree DEF Shape, Linked
<1>4. /\ tree'.root = tree.root /\ tree'.kid = tree.kid
      /\ \A y \in Present :
            tree'.red[y] = IF y = m THEN FALSE ELSE tree.red[y]
  BY DEF Blackened
<1>5. \E E : Heights(tree', Present, E, {})
  <2>1. CASE Red(tree, m)
    <3>1. m \in Present /\ tree.red[m]
      BY <2>1 DEF Red
    <3> QED
      BY <1>1, <1>2, <3>1, BlackenHeights
  <2>2. CASE ~ Red(tree, m)
    <3>1. \A y \in Present, q \in Sides :
             Lacks(ShortPlaces, y, q) = Lacks({}, y, q)
      BY <2>2 DEF ShortAbove, Lacks
    <3>2. Heights(tree, Present, R, {})
      BY <1>2, <3>1 DEF Heights
    <3>3. \A y \in Present : tree'.red[y] = tree.red[y]
      <4>1. \A y \in Present : y = m => tree.red[y] = FALSE
        BY <1>3, <2>2 DEF Red, Tree
      <4> QED
        BY <1>4, <4>1
    <3> QED
      BY <1>4, <3>2, <3>3, SameHeights
  <2> QED
    BY <2>1, <2>2
<1>6. Pairs(tree', Present, RedBelow', RedAbove')
  <2>1. ASSUME NEW y \in Present, NEW q \in Sides,
               Red(tree', tree'.kid[q][y]), tree'.red[y]
        PROVE  FALSE
    <3> DEFINE k == tree.kid[q][y]
    <3>1. k # Nil /\ tree'.red[k] /\ k \in Present
      BY <1>3, <1>4, <2>1 DEF Red
    <3>2. y # m /\ k # m /\ tree.red[y] /\ tree.red[k]
      BY <1>4, <2>1, <3>1
    <3>3. Red(tree, k)
      BY <3>1, <3>2 DEF Red
    <3> QED
      BY <3>2, <3>3 DEF InPairs
  <2> QED
    BY <2>1 DEF Pairs
<1>7. ~ Red(tree', tree'.root)
  BY <1>3, <1>4 DEF Red
<1>8. Present' = Present
  BY DEF Present
<1> QED
  BY <1>5, <1>6, <1>7, <1>8, NowEven

(* Painting a node black does that. *)
LEMMA PaintBlackens ==
    ASSUME NEW t \in Tree, NEW P \in SUBSET Keys, NEW m \in P \cup {Nil}
    PROVE  Blackened(t, P, m, Paint(t, m, FALSE))
<1> DEFINE v == Paint(t, m, FALSE)
<1>1. m \in Node /\ FALSE \in BOOLEAN
  BY Constants
<1> HIDE DEF v
<1>2. /\ v.root = t.root /\ v.kid = t.kid
      /\ \A y \in Keys : v.red[y] = IF y = m THEN FALSE ELSE t.red[y]
  BY <1>1, PaintIs DEF v
<1>3. Blackened(t, P, m, v)
  BY <1>2 DEF Blackened
<1> QED
  BY <1>3 DEF v

(* fixInsert ends with a black root. *)
LEMMA InsertFixedColours ==
    ASSUME MapInv, ColourInv, InsertFixed
    PROVE  ColourInv'
<1>1. /\ fix.loop = "insert" /\ ~ InsertGoesOn
      /\ tree' = Paint(tree, tree.root, FALSE) /\ fix' = Idle /\ dict' = dict
  BY DEF InsertFixed
<1>2. PICK D : Shape(tree, Present, D)
  BY LoopTree
<1>3. /\ Nil \notin Present /\ tree.root \in Present \cup {Nil}
      /\ \A y \in Present, q \in Sides :
            tree.kid[q][y] # Nil => tree.up[tree.kid[q][y]] = y
      /\ \A y \in Present : tree.up[y] = Nil <=> y = tree.root
      /\ \A y \in Present, q \in Sides : tree.kid[q][y] \in Present \cup {Nil}
  BY <1>2, Constants DEF Shape, Linked, Present
<1>4. ShortAbove(tree, Present, tree.root, ShortPlaces)
  <2>1. ShortPlaces = {}
    BY <1>1 DEF ShortPlaces
  <2>2. \A y \in Present, q \in Sides :
           tree.root # Nil => tree.kid[q][y] # tree.root
    BY <1>3
  <2> QED
    BY <2>1, <2>2 DEF Lacks, Red, ShortAbove
<1>5. ASSUME NEW y \in Present, NEW q \in Sides,
             tree.red[y], Red(tree, tree.kid[q][y])
      PROVE  tree.root = y
  <2>1. tree.kid[q][y] = fix.node
    BY <1>1, <1>5 DEF ColourInv, Pairs, RedBelow, RedAbove
  <2>2. fix.node # Nil /\ tree.up[fix.node] = y /\ y # Nil
    BY <1>3, <1>5, <2>1 DEF Red
  <2>3. fix.node # tree.root
    BY <1>3, <1>5, <2>1, <2>2
  <2>4. tree.up[y] = Nil
    BY <1>1, <1>5, <2>2, <2>3 DEF InsertGoesOn, Grandparent, Red
  <2> QED
    BY <1>3, <2>4
<1>6. InPairs(tree, Present, tree.root)
  BY <1>5 DEF InPairs
<1>7. Blackened(tree, Present, tree.root, tree')
  BY <1>1, <1>3, LoopTree, PaintBlackens
<1> QED
  BY <1>1, <1>3, <1>4, <1>6, <1>7, EndColours

(* fixDelete ends at the root or at a red node, which is painted black.    *)
LEMMA DeleteFixedColours ==
    ASSUME MapInv, ColourInv, DeleteFixed
    PROVE  ColourInv'
<1> DEFINE m == fix.node
<1>1. /\ fix.loop = "delete" /\ ~ DeleteGoesOn
      /\ tree' = Paint(tree, m, FALSE) /\ fix' = Idle /\ dict' = dict
  BY DEF DeleteFixed
<1>2. PICK D : Shape(tree, Present, D)
  BY LoopTree
<1>3. PICK R : Heights(tree, Present, R, ShortPlaces)
  BY LoopTree
<1>4. m \in Present \cup {Nil} /\ Nil \notin Present
  BY LoopTree DEF MapInv
<1>5. ShortAbove(tree, Present, m, ShortPlaces)
  <2>1. CASE m = tree.root
    <3>1. ShortPlaces = {}
      BY <2>1 DEF ShortPlaces
    <3>2. \A y \in Present, q \in Sides : m # Nil => tree.kid[q][y] # m
      BY <1>2, <1>4, <2>1 DEF Shape, Linked
    <3> QED
      BY <3>1, <3>2 DEF Lacks, Red, ShortAbove
  <2>2. CASE m # tree.root
    <3> DEFINE p == fix.parent
               h == Side
    <3>1. p \in Present /\ h \in Sides /\ tree.kid[h][p] = m
      BY <1>1, <2>2 DEF ColourInv, Side, SideOf, Sides
    <3>2. ShortPlaces = {<<p, h>>}
      BY <1>1, <2>2 DEF ShortPlaces
    <3>3. tree.kid[Opposite(h)][p] # Nil
      BY <1>2, <1>3, <3>1, <3>2, ShortSide
    <3>4. Red(tree, m)
      <4>1. p # Nil /\ Sibling # Nil
        BY <1>4, <3>1, <3>3 DEF Sibling
      <4> QED
        BY <1>1, <2>2, <4>1 DEF DeleteGoesOn
    <3> HIDE DEF p, h
    <3>5. m # Nil
      BY <3>4 DEF Red
    <3>6. \A y \in Present, q \in Sides :
             tree.kid[q][y] = m <=> y = p /\ q = h
      <4>1. \A y \in Present, q \in Sides : tree.kid[q][y] = m => tree.up[m] = y
        BY <1>2, <3>5 DEF Shape, Linked
      <4>2. tree.kid[Opposite(h)][p] # m
        BY <1>2, <3>1, <3>5, Subtrees
      <4> QED
        BY <3>1, <4>1, <4>2, TwoSides
    <3> QED
      BY <3>2, <3>4, <3>6 DEF Lacks, ShortAbove
  <2> QED
    BY <2>1, <2>2
<1>6. InPairs(tree, Present, m)
  BY <1>1 DEF ColourInv, Pairs, RedBelow, RedAbove, InPairs
<1>7. m # tree.root => ~ Red(tree, tree.root)
  BY DEF ColourInv
<1> HIDE DEF m
<1>8. Blackened(tree, Present, m, tree')
  BY <1>1, <1>4, LoopTree, PaintBlackens
<1> QED
  BY <1>1, <1>4, <1>5, <1>6, <1>7, <1>8, EndColours

(* v is t with c painted red. *)
Reddened(t, P, c, v) ==
    /\ v.kid = t.kid
    /\ \A y \in P : v.red[y] = IF y = c THEN TRUE ELSE t.red[y]

(* Where a child of p is short and the other one, c, gives up its black,   *)
(* the place that is short is now the one above p.                         *)
LEMMA LowerHeights ==
    ASSUME NEW t, NEW P, NEW D, Shape(t, P, D), NEW p \in P, NEW c \in P,
           NEW s \in Sides, NEW o, o = Opposite(s), t.kid[o][p] = c, ~ t.red[c],
           NEW v, Reddened(t, P, c, v), NEW R, Heights(t, P, R, {<<p, s>>}),
           NEW T, Above(t, P, p, T)
    PROVE  \E E : Heights(v, P, E, T)
<1> DEFINE E == [R EXCEPT ![c] = R[c] - 1, ![p] = R[p] - 1]
           S == {<<p, s>>}
<1>1. /\ o \in Sides /\ o # s /\ Nil \notin P /\ c # p /\ t.up[c] = p
      /\ \A q \in Sides : q = s \/ q = o
  <2>1. Nil \notin P
    BY Constants DEF Shape
  <2>2. o \in Sides /\ o # s /\ \A q \in Sides : q = s \/ q = o
    BY TwoSides
  <2>3. c # p /\ t.up[c] = p
    BY <2>1, <2>2, Subtrees
  <2> QED
    BY <2>1, <2>2, <2>3
<1>2. \A y \in P, q \in Sides : t.kid[q][y] = c => y = p
  BY <1>1 DEF Shape, Linked
<1>3. \A q \in Sides : t.kid[q][c] # p
  <2>1. p \notin D[c]
    BY <1>1, Subtrees
  <2>2. \A q \in Sides : t.kid[q][c] # Nil => t.kid[q][c] \in D[c]
    BY Subtrees
  <2> QED
    BY <1>1, <2>1, <2>2
<1>4. \A q \in Sides : t.kid[q][p] # p /\ t.kid[q][c] # c
  BY Subtrees
<1>5. /\ Lacks(S, p, s) = 1 /\ Lacks(S, p, o) = 0
      /\ \A y \in P, q \in Sides : y # p => Lacks(S, y, q) = 0
  BY <1>1 DEF Lacks
<1>6. Heights(t, P, R, S)
  OBVIOUS
<1> HIDE DEF S
<1>7. /\ Black(t, c) = 1 /\ Black(v, c) = 0
      /\ \A y \in P : y # c => Black(v, y) = Black(t, y)
  BY DEF Black, Reddened
<1>8. \A y \in P, q \in Sides : y # c => t.kid[q][y] # c \/ (y = p /\ q = o)
  <2>1. t.kid[s][p] # c
    BY <1>1, Subtrees
  <2> QED
    BY <1>1, <1>2, <2>1
<1>9. R[c] \in Nat /\ R[c] # 0
  <2>1. /\ R[c] \in Nat /\ R[t.kid[s][c]] \in Nat
        /\ R[c] = R[t.kid[s][c]] + Black(t, c) + Lacks(S, c, s)
    BY <1>6, HeightAt
  <2> QED
    BY <1>1, <1>5, <1>7, <2>1
<1>10. R[p] \in Nat /\ R[p] # 0 /\ R[p] = R[c] + Black(t, p)
       /\ Black(t, p) \in {0, 1}
  <2>1. /\ R[p] \in Nat /\ Black(t, p) \in {0, 1}
        /\ R[p] = R[t.kid[o][p]] + Black(t, p) + Lacks(S, p, o)
    BY <1>1, <1>6, HeightAt
  <2> QED
    BY <1>5, <1>9, <2>1
<1>11. R \in [Node -> Nat] /\ R[Nil] = 0 /\ p \in Node /\ c \in Node
       /\ \A y \in P : y \in Node
  BY <1>6, Constants DEF Shape, Heights
<1>12. R[c] - 1 \in Nat /\ R[p] - 1 \in Nat
  BY <1>9, <1>10
<1>13. /\ E \in [Node -> Nat] /\ E[Nil] = 0
       /\ E[c] = R[c] - 1 /\ E[p] = R[p] - 1
       /\ \A y \in Node : y # c /\ y # p => E[y] = R[y]
  <2> DEFINE i == R[c] - 1
             j == R[p] - 1
             F == [R EXCEPT ![c] = i]
  <2>1. i \in Nat /\ j \in Nat /\ c # p /\ c # Nil /\ p # Nil
    BY <1>1, <1>12
  <2>2. E = [F EXCEPT ![p] = j]
    OBVIOUS
  <2> HIDE DEF i, j, E
  <2>3. /\ F \in [Node -> Nat] /\ F[c] = i
        /\ \A y \in Node : y # c => F[y] = R[y]
    BY <1>11, <2>1
  <2> HIDE DEF F
  <2>4. /\ E \in [Node -> Nat] /\ E[p] = j
        /\ \A y \in Node : y # p => E[y] = F[y]
    BY <1>11, <2>1, <2>2, <2>3
  <2> QED
    BY <1>11, <2>1, <2>3, <2>4, Constants DEF i, j
<1> HIDE DEF E
<1>14. ASSUME NEW y \in P, NEW q \in Sides
       PROVE  E[y] = E[t.kid[q][y]] + Black(v, y) + Lacks(T, y, q)
  <2> DEFINE k == t.kid[q][y]
  <2>1. k \in Node
    BY Subtrees
  <2>2. /\ R[y] \in Nat /\ R[k] \in Nat /\ Black(t, y) \in {0, 1}
        /\ R[y] = R[k] + Black(t, y) + Lacks(S, y, q)
    BY <1>6, HeightAt
  <2>3. Lacks(T, y, q) = IF k = p THEN 1 ELSE 0
    BY DEF Above
  <2>4. CASE y = c
    <3>1. k # c /\ k # p
      BY <1>3, <1>4, <2>4
    <3> HIDE DEF k
    <3>2. E[k] = R[k] /\ Lacks(T, y, q) = 0 /\ Lacks(S, y, q) = 0
      BY <1>1, <1>5, <1>13, <2>1, <2>3, <2>4, <3>1
    <3> QED
      BY <1>7, <1>13, <2>2, <2>4, <3>2 DEF k
  <2>5. CASE y = p /\ q = s
    <3>1. k # c /\ k # p
      BY <1>1, <1>4, <1>8, <2>5
    <3> HIDE DEF k
    <3>2. /\ E[k] = R[k] /\ Lacks(T, y, q) = 0 /\ Lacks(S, y, q) = 1
          /\ Black(v, y) = Black(t, y)
      BY <1>1, <1>5, <1>7, <1>13, <2>1, <2>3, <2>5, <3>1
    <3> QED
      BY <1>13, <2>2, <2>5, <3>2 DEF k
  <2>6. CASE y = p /\ q = o
    <3>1. k = c /\ k # p
      BY <1>1, <2>6
    <3> HIDE DEF k
    <3>2. Lacks(T, y, q) = 0 /\ Black(v, y) = Black(t, p)
      BY <1>1, <1>7, <2>3, <2>6, <3>1
    <3> QED
      BY <1>9, <1>10, <1>13, <2>6, <3>1, <3>2 DEF k
  <2>7. CASE y # c /\ y # p
    <3>1. k # c
      BY <1>8, <2>7
    <3> HIDE DEF k
    <3>2. /\ E[y] = R[y] /\ Black(v, y) = Black(t, y) /\ Lacks(S, y, q) = 0
      BY <1>5, <1>7, <1>11, <1>13, <2>7
    <3>3. E[k] + Lacks(T, y, q) = R[k]
      BY <1>10, <1>13, <2>1, <2>2, <2>3, <3>1
    <3>4. Lacks(T, y, q) \in {0, 1} /\ E[k] \in Nat
      BY <1>13, <2>1 DEF Lacks
    <3> QED
      BY <2>2, <3>2, <3>3, <3>4 DEF k
  <2> QED
    BY <1>1, <2>4, <2>5, <2>6, <2>7
<1>15. Heights(v, P, E, T)
  BY <1>13, <1>14 DEF Heights, Reddened
<1> QED
  BY <1>15

(* fixDelete: a black sibling with black children is painted red, and the  *)
(* parent becomes the node that is short.                                  *)
LEMMA SiblingBlackColours ==
    ASSUME MapInv, ColourInv, SiblingBlack
    PROVE  ColourInv'
<1> DEFINE x == fix.node
           p == fix.parent
           s == Side
           o == Opposite(s)
           c == Sibling
           h == SideOf(tree, p, tree.up[p])
           T == IF tree.up[p] = Nil THEN {} ELSE {<<tree.up[p], h>>}
<1>1. /\ DeleteGoesOn /\ ~ Red(tree, c) /\ BlackNephews
      /\ tree' = Paint(tree, c, TRUE)
      /\ fix' = [fix EXCEPT !.node = p, !.parent = tree.up[p]]
      /\ dict' = dict
  BY DEF SiblingBlack
<1>2. PICK D : Shape(tree, Present, D)
  BY LoopTree
<1>3. PICK R : Heights(tree, Present, R, ShortPlaces)
  BY LoopTree
<1>4. /\ p \in Present /\ c \in Present /\ s \in Sides
      /\ tree.kid[o][p] = c /\ c # Nil
      /\ \A q : Nephew(q) = tree.kid[q][c]
      /\ \A y \in Present, q \in Sides :
            tree.red[y] => ~ Red(tree, tree.kid[q][y])
      /\ ShortPlaces = {<<p, s>>}
      /\ ~ Red(tree, tree.root)
      /\ c # tree.root /\ tree.root \in Present
  BY <1>1, <1>2, DeleteColours
<1>5. ~ tree.red[c] /\ \A q \in Sides : ~ Red(tree, tree.kid[q][c])
  BY <1>1, <1>4 DEF Red, BlackNephews
<1>6. /\ tree \in Tree /\ c \in Node /\ Present \subseteq Keys /\ fix.loop = "delete"
      /\ fix \in [loop : {"none", "insert", "delete"}, node : Node, parent : Node]
      /\ Nil \notin Present
  BY <1>1, <1>4, LoopTree DEF DeleteGoesOn
<1>7. fix'.loop = "delete" /\ fix'.node = p /\ fix'.parent = tree.up[p]
  BY <1>1, <1>6
<1>8. o = Opposite(s)
  OBVIOUS
<1>9. Above(tree, Present, p, T)
  BY <1>2, <1>4, PlaceOf
<1>10. /\ tree'.root = tree.root /\ tree'.kid = tree.kid /\ tree'.up = tree.up
       /\ tree' \in Tree
       /\ \A y \in Keys : tree'.red[y] = IF y = c THEN TRUE ELSE tree.red[y]
  <2> DEFINE v == Paint(tree, c, TRUE)
  <2>1. tree \in Tree /\ c \in Node /\ TRUE \in BOOLEAN
    BY <1>6
  <2> HIDE DEF c, v
  <2>2. /\ v.root = tree.root /\ v.kid = tree.kid /\ v.up = tree.up /\ v \in Tree
        /\ \A y \in Keys : v.red[y] = IF y = c THEN TRUE ELSE tree.red[y]
    BY <2>1, PaintIs DEF v
  <2>3. tree' = v
    BY <1>1 DEF v
  <2> QED
    BY <2>2, <2>3
<1> HIDE DEF T, p, s, o, c, x
<1>11. \E E : Heights(tree', Present, E, T)
  <2>1. Reddened(tree, Present, c, tree')
    BY <1>6, <1>10 DEF Reddened
  <2>2. Heights(tree, Present, R, {<<p, s>>})
    BY <1>3, <1>4
  <2>3. /\ p \in Present /\ c \in Present /\ s \in Sides
        /\ tree.kid[o][p] = c /\ ~ tree.red[c]
    BY <1>4, <1>5
  <2> QED
    BY <1>2, <1>8, <1>9, <2>1, <2>2, <2>3, LowerHeights
<1>12. Pairs(tree', Present, {p}, {p})
  <2>1. ASSUME NEW y \in Present, NEW q \in Sides,
               Red(tree', tree'.kid[q][y]), tree'.red[y], y # p
        PROVE  FALSE
    <3> DEFINE k == tree.kid[q][y]
    <3>1. k \in Present
      BY <1>2, <1>10, <2>1, Subtrees DEF Red
    <3>2. k # c
      <4>1. k = c => tree.up[c] = y
        BY <1>2, <1>4 DEF Shape, Linked
      <4>2. tree.up[c] = p
        BY <1>2, <1>4, <1>8, TwoSides DEF Shape, Linked
      <4> QED
        BY <2>1, <4>1, <4>2
    <3>3. Red(tree, k)
      BY <1>6, <1>10, <2>1, <3>1, <3>2 DEF Red
    <3>4. y # c
      BY <1>5, <3>3
    <3>5. tree.red[y]
      BY <1>6, <1>10, <2>1, <3>4
    <3> QED
      BY <1>4, <3>3, <3>5
  <2> QED
    BY <2>1 DEF Pairs
<1>13. ~ Red(tree', tree'.root)
  BY <1>4, <1>6, <1>10 DEF Red
<1>14. Present' = Present
  BY <1>1 DEF Present
<1>15. CASE tree.up[p] = Nil
  <2>1. T = {} /\ fix'.node = tree'.root
    BY <1>2, <1>4, <1>7, <1>10, <1>15 DEF T, Shape, Linked
  <2>2. RedBelow' = {p} /\ RedAbove' = {p}
    BY <1>7 DEF RedBelow, RedAbove
  <2> QED
    BY <1>7, <1>11, <1>12, <1>13, <1>14, <2>1, <2>2, NowEven
<1>16. CASE tree.up[p] # Nil
  <2> DEFINE g == tree.up[p]
  <2>1. T = {<<g, h>>}
    BY <1>16 DEF T
  <2>2. /\ g \in Present /\ h \in Sides /\ tree.kid[h][g] = p
    BY <1>2, <1>4, <1>16, SideOfIs
  <2>3. Shape(tree', Present, D)
    BY <1>2, <1>10, SameLinks
  <2>4. /\ g = fix'.parent /\ tree'.kid[h][g] = fix'.node
    BY <1>7, <1>10, <2>2
  <2> HIDE DEF g, h
  <2>5. \E E : Heights(tree', Present, E, {<<g, h>>})
    BY <1>11, <2>1
  <2>6. Pairs(tree', Present, {fix'.node}, {fix'.node})
    BY <1>7, <1>12
  <2> QED
    BY <1>7, <1>13, <1>14, <2>2, <2>3, <2>4, <2>5, <2>6, NowShort
<1> QED
  BY <1>15, <1>16

(* In v the red children p and u of g are black and g is red.              *)
Recolours(t, P, p, u, g, v) ==
    /\ v.root = t.root /\ v.kid = t.kid
    /\ \A y \in P : v.red[y] = IF y = g THEN TRUE
                               ELSE IF y \in {p, u} THEN FALSE ELSE t.red[y]

(* The painting of case 1 of fixInsert does that. *)
LEMMA RecolouredIs ==
    ASSUME NEW t \in Tree, NEW P \in SUBSET Keys,
           NEW p \in P, NEW u \in P, NEW g \in P
    PROVE  Recolours(t, P, p, u, g, Recoloured(t, p, u, g))
<1> DEFINE v == Paint(t, p, FALSE)
           w == Paint(v, u, FALSE)
           r == Paint(w, g, TRUE)
<1>1. /\ p \in Node /\ u \in Node /\ g \in Node
      /\ TRUE \in BOOLEAN /\ FALSE \in BOOLEAN
  BY Constants
<1> HIDE DEF v
<1>2. /\ v \in Tree /\ v.root = t.root /\ v.kid = t.kid
      /\ \A y \in Keys : v.red[y] = IF y = p THEN FALSE ELSE t.red[y]
  BY <1>1, PaintIs DEF v
<1> HIDE DEF w
<1>3. /\ w \in Tree /\ w.root = v.root /\ w.kid = v.kid
      /\ \A y \in Keys : w.red[y] = IF y = u THEN FALSE ELSE v.red[y]
  <2>1. v \in Tree /\ u \in Node /\ FALSE \in BOOLEAN
    BY <1>1, <1>2
  <2> QED
    BY <2>1, PaintIs DEF w
<1> HIDE DEF r
<1>4. /\ r.root = w.root /\ r.kid = w.kid
      /\ \A y \in Keys : r.red[y] = IF y = g THEN TRUE ELSE w.red[y]
  <2>1. w \in Tree /\ g \in Node /\ TRUE \in BOOLEAN
    BY <1>1, <1>3
  <2> QED
    BY <2>1, PaintIs DEF r
<1>5. Recoloured(t, p, u, g) = r
  BY DEF Recoloured, r, v, w
<1>6. r.root = t.root /\ r.kid = t.kid
  BY <1>2, <1>3, <1>4
<1>7. ASSUME NEW y \in P
      PROVE  r.red[y] = IF y = g THEN TRUE
                        ELSE IF y \in {p, u} THEN FALSE ELSE t.red[y]
  BY <1>2, <1>3, <1>4
<1> QED
  BY <1>5, <1>6, <1>7 DEF Recolours

(* It leaves every height but those of the two children.                   *)
LEMMA RecolourHeights ==
    ASSUME NEW t, NEW P, NEW D, Shape(t, P, D), NEW g \in P, ~ t.red[g],
           NEW s \in Sides, NEW p \in P, p = t.kid[s][g], t.red[p],
           NEW u \in P, u = t.kid[Opposite(s)][g], t.red[u],
           NEW v, Recolours(t, P, p, u, g, v),
           NEW R, Heights(t, P, R, {})
    PROVE  \E E : Heights(v, P, E, {})
<1> DEFINE E == [y \in Node |-> IF y \in {p, u} THEN R[y] + 1 ELSE R[y]]
<1>1. /\ Nil \notin P /\ \A y \in P : y \in Node
      /\ R \in [Node -> Nat] /\ R[Nil] = 0 /\ Nil \in Node
  BY Constants DEF Shape, Heights
<1>2. /\ p # g /\ u # g /\ t.up[p] = g /\ t.up[u] = g
  BY <1>1, Subtrees, TwoSides
<1>3. /\ E \in [Node -> Nat] /\ E[Nil] = 0
      /\ \A y \in Node : E[y] = IF y \in {p, u} THEN R[y] + 1 ELSE R[y]
  BY <1>1
<1> HIDE DEF E
<1>4. /\ Black(t, g) = 1 /\ Black(v, g) = 0
      /\ Black(t, p) = 0 /\ Black(v, p) = 1
      /\ Black(t, u) = 0 /\ Black(v, u) = 1
      /\ \A y \in P : y \notin {g, p, u} => Black(v, y) = Black(t, y)
  BY <1>2 DEF Black, Recolours
<1>5. ASSUME NEW y \in P, NEW q \in Sides
      PROVE  E[y] = E[t.kid[q][y]] + Black(v, y) + Lacks({}, y, q)
  <2> DEFINE k == t.kid[q][y]
  <2>1. /\ k \in Node /\ k # y /\ (k \in {p, u} => y = g)
        /\ (y = g => k \in {p, u})
    <3>1. k \in Node /\ k # y /\ (k # Nil => t.up[k] = y)
      BY Subtrees
    <3>2. y = g => k \in {p, u}
      BY TwoSides
    <3> QED
      BY <1>1, <1>2, <3>1, <3>2
  <2>2. /\ R[y] \in Nat /\ R[k] \in Nat /\ Black(t, y) \in {0, 1}
        /\ R[y] = R[k] + Black(t, y) + Lacks({}, y, q)
    BY HeightAt
  <2>3. Lacks({}, y, q) = 0 /\ y \in Node
    BY <1>1 DEF Lacks
  <2> HIDE DEF k
  <2>4. CASE y = g
    <3>1. E[k] = R[k] + 1 /\ E[y] = R[y]
      BY <1>2, <1>3, <2>1, <2>3, <2>4
    <3> QED
      BY <1>4, <2>2, <2>3, <2>4, <3>1 DEF k
  <2>5. CASE y \in {p, u}
    <3>1. E[k] = R[k] /\ E[y] = R[y] + 1
      BY <1>2, <1>3, <2>1, <2>3, <2>5
    <3>2. Black(t, y) = 0 /\ Black(v, y) = 1
      BY <1>4, <2>5
    <3> QED
      BY <2>2, <2>3, <3>1, <3>2 DEF k
  <2>6. CASE y \notin {g, p, u}
    <3>1. E[k] = R[k] /\ E[y] = R[y] /\ Black(v, y) = Black(t, y)
      BY <1>3, <1>4, <2>1, <2>3, <2>6
    <3> QED
      BY <2>2, <2>3, <3>1 DEF k
  <2> QED
    BY <2>4, <2>5, <2>6
<1>6. Heights(v, P, E, {})
  BY <1>3, <1>5 DEF Heights, Recolours
<1> QED
  BY <1>6

(* Case 1 of fixInsert: the red pair moves up two levels.                  *)
LEMMA RecolourUncleColours ==
    ASSUME MapInv, ColourInv, RecolourUncle
    PROVE  ColourInv'
<1> DEFINE x == fix.node
           p == tree.up[x]
           g == tree.up[p]
           s == InsertSide
           u == Uncle(x)
<1>1. /\ InsertGoesOn /\ Red(tree, u)
      /\ tree' = Recoloured(tree, p, u, g)
      /\ fix' = [fix EXCEPT !.node = g] /\ dict' = dict
  BY DEF RecolourUncle, Grandparent
<1>2. PICK D : Shape(tree, Present, D)
  BY LoopTree
<1>3. PICK R : Heights(tree, Present, R, ShortPlaces)
  BY LoopTree
<1>4. /\ x \in Present /\ p \in Present /\ g \in Present
      /\ tree.red[x] /\ tree.red[p] /\ ~ tree.red[g]
      /\ s \in Sides /\ tree.kid[s][g] = p /\ p # g
      /\ u = tree.kid[Opposite(s)][g] /\ tree.up[x] = p
      /\ \A y \in Present, q \in Sides :
            tree.red[y] /\ Red(tree, tree.kid[q][y]) => tree.kid[q][y] = x
      /\ ShortPlaces = {} /\ ~ Red(tree, tree.root)
  BY <1>1, <1>2, InsertColours
<1>5. /\ tree \in Tree /\ Present \in SUBSET Keys /\ Nil \notin Present
      /\ fix \in [loop : {"none", "insert", "delete"}, node : Node, parent : Node]
      /\ fix.loop = "insert"
  BY <1>1, LoopTree DEF InsertGoesOn
<1>6. fix'.loop = "insert" /\ fix'.node = g
  BY <1>1, <1>5
<1> HIDE DEF x, p, g, s, u
<1>7. u \in Present /\ tree.red[u] /\ u # g
  <2>1. u \in Present \cup {Nil} /\ u # g
    BY <1>2, <1>4, Subtrees, TwoSides
  <2> QED
    BY <1>1, <2>1 DEF Red
<1>8. Recolours(tree, Present, p, u, g, tree')
  BY <1>1, <1>4, <1>5, <1>7, RecolouredIs
<1>9. \E E : Heights(tree', Present, E, {})
  <2>1. Heights(tree, Present, R, {})
    BY <1>3, <1>4
  <2> QED
    BY <1>2, <1>4, <1>7, <1>8, <2>1, RecolourHeights
<1>10. /\ tree'.root = tree.root /\ tree'.kid = tree.kid
       /\ \A y \in Present : tree'.red[y] =
             IF y = g THEN TRUE ELSE IF y \in {p, u} THEN FALSE ELSE tree.red[y]
  BY <1>8 DEF Recolours
<1>11. \A y \in Present, q \in Sides :
          /\ tree.kid[q][y] \in Present \cup {Nil}
          /\ tree.kid[q][y] # Nil => tree.up[tree.kid[q][y]] = y
  BY <1>2, Subtrees
<1>12. Pairs(tree', Present, {g}, {})
  <2>1. ASSUME NEW y \in Present, NEW q \in Sides,
               Red(tree', tree'.kid[q][y]), tree'.red[y], tree'.kid[q][y] # g
        PROVE  FALSE
    <3> DEFINE k == tree.kid[q][y]
    <3>1. k # Nil /\ k \in Present /\ tree'.red[k] /\ k # g /\ tree.up[k] = y
      BY <1>10, <1>11, <2>1 DEF Red
    <3>2. k \notin {p, u} /\ tree.red[k]
      BY <1>10, <3>1
    <3> HIDE DEF k
    <3>3. Red(tree, k)
      BY <3>1, <3>2 DEF Red
    <3>4. y # g
      <4>1. \A z \in Sides : z = s \/ z = Opposite(s)
        BY <1>4, TwoSides
      <4> QED
        BY <1>4, <3>2, <4>1 DEF k
    <3>5. y \notin {p, u} /\ tree.red[y]
      BY <1>10, <2>1, <3>4
    <3>6. k = x
      BY <1>4, <3>3, <3>5 DEF k
    <3> QED
      BY <1>4, <3>1, <3>5, <3>6
  <2> QED
    BY <2>1 DEF Pairs
<1>13. RedBelow' = {g} /\ RedAbove' = {}
  BY <1>6 DEF RedBelow, RedAbove
<1>14. Red(tree', tree'.root) => tree'.root = g
  <2>1. tree.root \in Present \cup {Nil}
    BY <1>2 DEF Shape, Linked
  <2> QED
    BY <1>4, <1>10, <2>1 DEF Red
<1>15. Present' = Present
  BY <1>1 DEF Present
<1>16. tree'.red[g]
  BY <1>4, <1>10
<1>17. fix' # Idle
  BY <1>6 DEF Idle
<1> QED
  BY <1>6, <1>9, <1>12, <1>13, <1>14, <1>15, <1>16, <1>17, NowEven

(* In v the child c of n on side o has the colour of n, and n and the far  *)
(* child d of c are black.                                                 *)
Hands(t, P, s, n, o, c, d, v) ==
    /\ s \in Sides /\ n \in P /\ o = Opposite(s)
    /\ c = t.kid[o][n] /\ c # Nil /\ ~ t.red[c]
    /\ d = t.kid[o][c] /\ d # Nil /\ t.red[d]
    /\ v \in Tree /\ v.root = t.root /\ v.kid = t.kid /\ v.up = t.up
    /\ \A y \in P : v.red[y] = IF y \in {n, d} THEN FALSE
                               ELSE IF y = c THEN t.red[n] ELSE t.red[y]

(* Where the nodes of the last rotation of fixDelete are.                  *)
LEMMA HandsWhere ==
    ASSUME NEW t, NEW P, NEW D, Shape(t, P, D),
           NEW s, NEW n, NEW o, NEW c, NEW d, NEW v, Hands(t, P, s, n, o, c, d, v)
    PROVE  /\ s \in Sides /\ n \in P /\ o = Opposite(s) /\ o \in Sides /\ o # s
           /\ c \in P /\ d \in P /\ n # Nil /\ c # Nil /\ d # Nil
           /\ c # n /\ d # n /\ d # c
           /\ \A y \in P, q \in Sides :
                 /\ t.kid[q][y] \in P \cup {Nil}
                 /\ t.kid[q][y] = c <=> y = n /\ q = o
                 /\ t.kid[q][y] = d <=> y = c /\ q = o
           /\ t.kid[s][c] # n /\ t.kid[s][n] # n /\ t.kid[s][c] # c
<1>1. /\ s \in Sides /\ n \in P /\ o = Opposite(s) /\ c = t.kid[o][n]
      /\ c # Nil /\ d = t.kid[o][c] /\ d # Nil
  BY DEF Hands
<1>2. o \in Sides /\ o # s /\ Nil \notin P /\ \A q \in Sides : q = s \/ q = o
  BY <1>1, TwoSides, Constants DEF Shape
<1>3. /\ c \in P /\ c # n /\ t.kid[s][n] # n /\ t.kid[s][c] # n
      /\ t.kid[s][c] # c /\ d # n /\ d # c
  <2>1. Turned(t, P, s, n, o, c, Rotate(t, s, n))
    BY <1>1, TurnKids
  <2> QED
    BY <1>1, <2>1 DEF Turned
<1>4. d \in P
  <2>1. \A y \in P, q \in Sides : t.kid[q][y] \in P \cup {Nil}
    BY DEF Shape, Linked
  <2> QED
    BY <1>1, <1>2, <1>3, <2>1
<1>5. \A y \in P, q \in Sides :
         /\ t.kid[q][y] \in P \cup {Nil}
         /\ t.kid[q][y] # Nil => t.up[t.kid[q][y]] = y
                               /\ t.kid[q][y] # t.kid[Opposite(q)][y]
  BY Subtrees
<1>6. t.up[c] = n /\ t.up[d] = c
  BY <1>1, <1>2, <1>3, <1>5
<1>7. t.kid[s][n] # c /\ t.kid[s][c] # d
  BY <1>1, <1>2, <1>3, <1>5
<1>8. \A y \in P, q \in Sides : t.kid[q][y] = c <=> y = n /\ q = o
  BY <1>1, <1>2, <1>5, <1>6, <1>7
<1>9. \A y \in P, q \in Sides : t.kid[q][y] = d <=> y = c /\ q = o
  BY <1>1, <1>2, <1>3, <1>5, <1>6, <1>7
<1> QED
  BY <1>1, <1>2, <1>3, <1>4, <1>5, <1>8, <1>9

(* The last rotation of fixDelete: the side that is short gets a black     *)
(* node more, and the far side, which gives one, paints a red one black.   *)
LEMMA HandsHeights ==
    ASSUME NEW t, NEW P, NEW D, Shape(t, P, D),
           NEW s, NEW n, NEW o, NEW c, NEW d, NEW v,
           Hands(t, P, s, n, o, c, d, v),
           NEW R, Heights(t, P, R, {<<n, s>>})
    PROVE  \E E : Heights(Rotate(v, s, n), P, E, {})
<1> DEFINE S == {<<n, s>>}
           E == [y \in Node |-> IF y = c THEN R[n] ELSE IF y = n THEN R[c]
                                ELSE IF y = d THEN R[d] + 1 ELSE R[y]]
<1>1. /\ s \in Sides /\ n \in P /\ o = Opposite(s) /\ o \in Sides /\ o # s
      /\ c \in P /\ d \in P /\ n # Nil /\ c # Nil /\ d # Nil
      /\ c # n /\ d # n /\ d # c
      /\ \A y \in P, q \in Sides :
            /\ t.kid[q][y] \in P \cup {Nil}
            /\ t.kid[q][y] = c <=> y = n /\ q = o
            /\ t.kid[q][y] = d <=> y = c /\ q = o
      /\ t.kid[s][c] # n /\ t.kid[s][n] # n /\ t.kid[s][c] # c
  BY HandsWhere
<1>2. c = t.kid[o][n] /\ d = t.kid[o][c] /\ v.kid = t.kid
  BY DEF Hands
<1>3. /\ Black(t, c) = 1 /\ Black(t, d) = 0
      /\ Black(v, n) = 1 /\ Black(v, d) = 1 /\ Black(v, c) = Black(t, n)
      /\ \A y \in P : y \notin {n, c, d} => Black(v, y) = Black(t, y)
  BY <1>1 DEF Hands, Black
<1>4. /\ Nil \notin P /\ \A y \in P \cup {Nil} : y \in Node
      /\ R \in [Node -> Nat] /\ R[Nil] = 0
  BY Constants DEF Shape, Heights
<1>5. \A y \in P \cup {Nil} : R[y] \in Nat
  BY <1>4
<1>6. /\ E \in [Node -> Nat] /\ E[Nil] = 0
      /\ \A y \in P \cup {Nil} :
            E[y] = IF y = c THEN R[n] ELSE IF y = n THEN R[c]
                   ELSE IF y = d THEN R[d] + 1 ELSE R[y]
  BY <1>1, <1>4, <1>5
<1> HIDE DEF E
<1>7. /\ Lacks(S, n, s) = 1
      /\ \A y \in P, q \in Sides : y # n \/ q # s => Lacks(S, y, q) = 0
  BY DEF Lacks
<1>8. Heights(t, P, R, S)
  OBVIOUS
<1> HIDE DEF S
<1>9. \A y \in P, q \in Sides :
         /\ R[y] = R[t.kid[q][y]] + Black(t, y) + Lacks(S, y, q)
         /\ Black(t, y) \in {0, 1} /\ R[t.kid[q][y]] \in Nat
  BY <1>8, HeightAt
<1>10. \A y, q : Lacks({}, y, q) = 0
  BY DEF Lacks
<1> DEFINE a == t.kid[s][n]
           b == t.kid[s][c]
<1>11. a \in P \cup {Nil} /\ b \in P \cup {Nil} /\ R[a] \in Nat /\ R[b] \in Nat
  BY <1>1, <1>5
<1>12. /\ E[a] = R[a] /\ E[b] = R[b] /\ E[d] = R[d] + 1
       /\ E[n] = R[c] /\ E[c] = R[n]
  <2>1. a # c /\ a # n /\ a # d /\ b # c /\ b # n /\ b # d
    BY <1>1
  <2> HIDE DEF a, b
  <2> QED
    BY <1>1, <1>6, <1>11, <2>1
<1>13. /\ R[n] = R[a] + Black(t, n) + 1 /\ R[n] = R[c] + Black(t, n)
       /\ R[c] = R[b] + 1 /\ R[c] = R[d] + 1
       /\ Black(t, n) \in {0, 1} /\ R[c] \in Nat /\ R[d] \in Nat /\ R[n] \in Nat
  <2>1. R[n] = R[a] + Black(t, n) + Lacks(S, n, s) /\ Black(t, n) \in {0, 1}
    BY <1>1, <1>9
  <2>2. R[n] = R[c] + Black(t, n) + Lacks(S, n, o)
    BY <1>1, <1>2, <1>9
  <2>3. R[c] = R[b] + Black(t, c) + Lacks(S, c, s)
    BY <1>1, <1>9
  <2>4. R[c] = R[d] + Black(t, c) + Lacks(S, c, o)
    BY <1>1, <1>2, <1>9
  <2>5. Lacks(S, n, o) = 0 /\ Lacks(S, c, s) = 0 /\ Lacks(S, c, o) = 0
    BY <1>1, <1>7
  <2>6. R[c] \in Nat /\ R[d] \in Nat /\ R[n] \in Nat
    BY <1>1, <1>5
  <2> HIDE DEF a, b
  <2> QED
    BY <1>3, <1>7, <1>11, <2>1, <2>2, <2>3, <2>4, <2>5, <2>6
<1> HIDE DEF a, b
<1>14. E[n] = E[a] + Black(v, n) + Lacks({}, n, s)
  BY <1>3, <1>10, <1>11, <1>12, <1>13
<1>15. E[n] = E[b] + Black(v, n) + Lacks({}, n, o)
  BY <1>3, <1>10, <1>11, <1>12, <1>13
<1>16. E[c] = E[n] + Black(v, c) + Lacks({}, c, s)
  BY <1>3, <1>10, <1>12, <1>13
<1>17. E[c] = E[d] + Black(v, c) + Lacks({}, c, o)
  BY <1>3, <1>10, <1>12, <1>13
<1>18. ASSUME NEW y \in P \ {n, c}, NEW q \in Sides
       PROVE  E[y] = E[IF v.kid[q][y] = n THEN c ELSE v.kid[q][y]]
                     + Black(v, y) + Lacks({}, y, q)
  <2> DEFINE k == t.kid[q][y]
             m == IF k = n THEN c ELSE k
  <2>1. k \in P \cup {Nil} /\ k # c /\ k # d
    BY <1>1
  <2>2. R[y] = R[k] + Black(t, y) /\ R[k] \in Nat /\ Black(t, y) \in {0, 1}
    <3>1. R[y] = R[k] + Black(t, y) + Lacks(S, y, q) /\ R[k] \in Nat
          /\ Black(t, y) \in {0, 1}
      BY <1>9
    <3>2. Lacks(S, y, q) = 0
      BY <1>7
    <3> HIDE DEF k
    <3> QED
      BY <3>1, <3>2
  <2> HIDE DEF k
  <2>3. E[m] = R[k]
    BY <1>1, <1>6, <2>1
  <2> HIDE DEF m
  <2>4. E[y] = E[m] + Black(v, y)
    <3>1. CASE y = d
      BY <1>3, <1>12, <2>2, <2>3, <3>1
    <3>2. CASE y # d
      <4>1. E[y] = R[y]
        BY <1>6, <3>2
      <4>2. Black(v, y) = Black(t, y)
        BY <1>3, <3>2
      <4> QED
        BY <2>2, <2>3, <4>1, <4>2
    <3> QED
      BY <3>1, <3>2
  <2>5. E[m] \in Nat /\ Black(v, y) \in {0, 1}
    BY <2>2, <2>3 DEF Black
  <2>6. E[y] = E[m] + Black(v, y) + Lacks({}, y, q)
    BY <1>10, <2>4, <2>5
  <2> QED
    BY <1>2, <2>6 DEF k, m
<1>19. Shape(v, P, D)
  BY SameLinks DEF Hands
<1>20. Heights(Rotate(v, s, n), P, E, {})
  <2>1. s \in Sides /\ n \in P /\ o = Opposite(s) /\ c = v.kid[o][n] /\ c # Nil
    BY <1>1, <1>2
  <2>2. /\ a = v.kid[s][n] /\ b = v.kid[s][c] /\ d = v.kid[o][c]
    BY <1>2 DEF a, b
  <2>3. TurnFits(v, P, E, {}, s, n, o, c)
    BY <1>6, <1>14, <1>15, <1>16, <1>17, <1>18, <2>2 DEF TurnFits
  <2> QED
    BY <1>19, <2>1, <2>3, RotateHeights
<1> QED
  BY <1>20

(* It leaves no red node under a red one. *)
LEMMA HandsPairs ==
    ASSUME NEW t, NEW P, NEW D, Shape(t, P, D),
           NEW s, NEW n, NEW o, NEW c, NEW d, NEW v,
           Hands(t, P, s, n, o, c, d, v),
           \A y \in P, q \in Sides : t.red[y] => ~ Red(t, t.kid[q][y])
    PROVE  Pairs(Rotate(v, s, n), P, {}, {})
<1>1. /\ s \in Sides /\ n \in P /\ o = Opposite(s) /\ o \in Sides /\ o # s
      /\ c \in P /\ d \in P /\ n # Nil /\ c # Nil /\ d # Nil
      /\ c # n /\ d # n /\ d # c
      /\ \A y \in P, q \in Sides :
            /\ t.kid[q][y] \in P \cup {Nil}
            /\ t.kid[q][y] = c <=> y = n /\ q = o
            /\ t.kid[q][y] = d <=> y = c /\ q = o
  BY HandsWhere
<1>2. /\ c = t.kid[o][n] /\ d = t.kid[o][c] /\ v.kid = t.kid
      /\ \A y \in P : v.red[y] = IF y \in {n, d} THEN FALSE
                                 ELSE IF y = c THEN t.red[n] ELSE t.red[y]
  BY DEF Hands
<1>3. Shape(v, P, D)
  BY SameLinks DEF Hands
<1>4. ~ v.red[n] /\ ~ v.red[d] /\ v.red[c] = t.red[n]
  BY <1>1, <1>2
<1>5. ~ Red(v, v.kid[o][c])
  BY <1>2, <1>4 DEF Red
<1>6. ASSUME NEW y \in P \ {n, c}, NEW q \in Sides, v.red[y]
      PROVE  ~ Red(v, IF v.kid[q][y] = n THEN c ELSE v.kid[q][y])
  <2> DEFINE k == t.kid[q][y]
  <2>1. k \in P \cup {Nil} /\ k # c /\ k # d
    BY <1>1
  <2>2. t.red[y] /\ ~ Red(t, k)
    BY <1>2, <1>6
  <2> HIDE DEF k
  <2>3. CASE k = n
    <3>1. ~ Red(v, c)
      BY <1>1, <1>4, <2>2, <2>3 DEF Red
    <3> QED
      BY <1>2, <2>3, <3>1 DEF k
  <2>4. CASE k # n
    <3>1. ~ Red(v, k)
      BY <1>2, <2>1, <2>2, <2>4 DEF Red
    <3> QED
      BY <1>2, <2>4, <3>1 DEF k
  <2> QED
    BY <2>3, <2>4
<1>7. c = v.kid[o][n]
  BY <1>2
<1> QED
  BY <1>1, <1>3, <1>4, <1>5, <1>6, <1>7, RotatePairs

(* The painting before the last rotation of fixDelete. *)
Painted(t, n, c, d) ==
    [t EXCEPT !.red[c] = t.red[n], !.red[d] = FALSE, !.red[n] = FALSE]

(* It hands the colour of the parent to the sibling. *)
LEMMA PaintedIs ==
    ASSUME NEW t \in Tree, NEW P \in SUBSET Keys, NEW s \in Sides,
           NEW n \in P, NEW o, o = Opposite(s),
           NEW c \in P, c = t.kid[o][n], ~ t.red[c],
           NEW d \in P, d = t.kid[o][c], t.red[d], c # n, d # n, d # c
    PROVE  Hands(t, P, s, n, o, c, d, Painted(t, n, c, d))
<1> DEFINE v == Painted(t, n, c, d)
           r1 == [t.red EXCEPT ![c] = t.red[n]]
           r2 == [r1 EXCEPT ![d] = FALSE]
           r3 == [r2 EXCEPT ![n] = FALSE]
<1>1. t = [root |-> t.root, kid |-> t.kid, up |-> t.up, red |-> t.red,
           value |-> t.value]
      /\ t.red \in [Keys -> BOOLEAN]
  BY DEF Tree
<1>2. v = [t EXCEPT !.red = r3]
  BY <1>1 DEF Painted
<1>3. /\ t.red[n] \in BOOLEAN /\ FALSE \in BOOLEAN
      /\ n \in Keys /\ c \in Keys /\ d \in Keys /\ c # Nil /\ d # Nil
  BY <1>1, Constants
<1>4. /\ r1 \in [Keys -> BOOLEAN]
      /\ \A y \in Keys : r1[y] = IF y = c THEN t.red[n] ELSE t.red[y]
  <2> DEFINE i == t.red[n]
             R == t.red
  <2>1. /\ i \in BOOLEAN /\ R \in [Keys -> BOOLEAN] /\ r1 = [R EXCEPT ![c] = i]
        /\ c \in Keys
    BY <1>1, <1>3
  <2> HIDE DEF i, R, r1
  <2>2. /\ r1 \in [Keys -> BOOLEAN]
        /\ \A y \in Keys : r1[y] = IF y = c THEN i ELSE R[y]
    BY <2>1
  <2> QED
    BY <2>2 DEF i, R
<1> HIDE DEF r1
<1>5. /\ r2 \in [Keys -> BOOLEAN]
      /\ \A y \in Keys : r2[y] = IF y = d THEN FALSE ELSE r1[y]
  BY <1>3, <1>4
<1> HIDE DEF r2
<1>6. /\ r3 \in [Keys -> BOOLEAN]
      /\ \A y \in Keys : r3[y] = IF y = n THEN FALSE ELSE r2[y]
  BY <1>3, <1>5
<1> HIDE DEF r3, v
<1>7. v = [root |-> t.root, kid |-> t.kid, up |-> t.up, red |-> r3,
           value |-> t.value]
  BY <1>1, <1>2
<1>8. /\ v \in Tree /\ v.root = t.root /\ v.kid = t.kid /\ v.up = t.up
      /\ v.red = r3
  BY <1>6, <1>7 DEF Tree
<1>9. \A y \in Keys : r3[y] = IF y \in {n, d} THEN FALSE
                              ELSE IF y = c THEN t.red[n] ELSE t.red[y]
  <2> SUFFICES ASSUME NEW y \in Keys
               PROVE  r3[y] = IF y \in {n, d} THEN FALSE
                              ELSE IF y = c THEN t.red[n] ELSE t.red[y]
    OBVIOUS
  <2>1. CASE y = n
    BY <1>6, <2>1
  <2>2. CASE y # n /\ y = d
    <3>1. r3[y] = r2[y] /\ r2[y] = FALSE
      BY <1>5, <1>6, <2>2
    <3> QED
      BY <2>2, <3>1
  <2>3. CASE y # n /\ y # d
    <3>1. r3[y] = r2[y] /\ r2[y] = r1[y]
      BY <1>5, <1>6, <2>3
    <3>2. r1[y] = IF y = c THEN t.red[n] ELSE t.red[y]
      BY <1>4
    <3> QED
      BY <2>3, <3>1, <3>2
  <2> QED
    BY <2>1, <2>2, <2>3
<1>10. Hands(t, P, s, n, o, c, d, v)
  BY <1>3, <1>8, <1>9 DEF Hands
<1> QED
  BY <1>10 DEF v

(* fixDelete: the last rotation leaves nothing to do. *)
LEMMA RotateParentColours ==
    ASSUME MapInv, ColourInv, RotateParent
    PROVE  ColourInv'
<1> DEFINE x == fix.node
           n == fix.parent
           s == Side
           o == Opposite(s)
           c == Sibling
           d == Nephew(o)
           v == Painted(tree, n, c, d)
<1>1. /\ DeleteGoesOn /\ ~ Red(tree, c) /\ Red(tree, d)
      /\ tree' = Rotate(v, s, n)
      /\ fix' = [fix EXCEPT !.node = tree'.root] /\ dict' = dict
  BY DEF RotateParent, Painted
<1>2. PICK D : Shape(tree, Present, D)
  BY LoopTree
<1>3. PICK R : Heights(tree, Present, R, ShortPlaces)
  BY LoopTree
<1>4. /\ n \in Present /\ c \in Present
      /\ s \in Sides /\ o \in Sides
      /\ tree.kid[o][n] = c /\ c # Nil /\ c # n /\ tree.up[c] = n
      /\ \A q : Nephew(q) = tree.kid[q][c]
      /\ \A y \in Present, q \in Sides :
            tree.red[y] => ~ Red(tree, tree.kid[q][y])
      /\ ShortPlaces = {<<n, s>>}
  BY <1>1, <1>2, DeleteColours
<1>5. d = tree.kid[o][c] /\ d # Nil /\ d \in Present /\ tree.red[d]
      /\ tree.up[d] = c /\ d # c /\ ~ tree.red[c]
  BY <1>1, <1>2, <1>4, Subtrees DEF Red
<1>6. d # n
  BY <1>2, <1>4, <1>5, RotateKids
<1>7. /\ tree \in Tree /\ n \in Keys /\ c \in Keys /\ d \in Keys
      /\ Present \subseteq Keys /\ fix.loop = "delete" /\ o = Opposite(s)
      /\ fix \in [loop : {"none", "insert", "delete"}, node : Node, parent : Node]
  BY <1>1, <1>4, <1>5, LoopTree DEF DeleteGoesOn
<1>8. fix'.loop = "delete" /\ fix'.node = tree'.root
  BY <1>1, <1>7
<1> HIDE DEF x, n, s, o, c, d
<1> HIDE DEF v
<1>10. Hands(tree, Present, s, n, o, c, d, v)
  <2>1. /\ tree \in Tree /\ Present \in SUBSET Keys /\ s \in Sides
        /\ n \in Present /\ o = Opposite(s)
        /\ c \in Present /\ c = tree.kid[o][n] /\ ~ tree.red[c]
        /\ d \in Present /\ d = tree.kid[o][c] /\ tree.red[d]
        /\ c # n /\ d # n /\ d # c
    BY <1>4, <1>5, <1>6, <1>7
  <2> QED
    BY <2>1, PaintedIs DEF v
<1>11. \E E : Heights(tree', Present, E, {})
  <2>1. Heights(tree, Present, R, {<<n, s>>})
    BY <1>3, <1>4
  <2> QED
    BY <1>1, <1>2, <1>10, <2>1, HandsHeights
<1>12. Pairs(tree', Present, {}, {})
  BY <1>1, <1>2, <1>4, <1>10, HandsPairs
<1>13. Pairs(tree', Present, RedBelow', RedAbove')
  BY <1>12 DEF Pairs
<1>14. Present' = Present
  BY <1>1 DEF Present
<1>15. fix' # Idle
  BY <1>8 DEF Idle
<1> QED
  BY <1>8, <1>11, <1>13, <1>14, <1>15, NowEven

(* Every step of the loops keeps the balance. *)
LEMMA RebalanceColours ==
    ASSUME MapInv, ColourInv, Rebalance
    PROVE  ColourInv'
BY RecolourUncleColours, StraightenColours, GrandparentColours,
   InsertFixedColours, SiblingRedColours, SiblingBlackColours,
   TurnSiblingColours, RotateParentColours, DeleteFixedColours DEF Rebalance

-----------------------------------------------------------------------------
(* The calls keep the balance *)

(* What there is when no loop runs. *)
LEMMA IdleColours ==
    ASSUME MapInv, ColourInv, fix = Idle
    PROVE  /\ \E R : Heights(tree, Present, R, {})
           /\ Pairs(tree, Present, {}, {})
           /\ ~ Red(tree, tree.root)
<1>1. fix.loop = "none"
  BY DEF Idle
<1>2. ShortPlaces = {} /\ RedBelow = {} /\ RedAbove = {}
  BY <1>1 DEF ShortPlaces, RedBelow, RedAbove
<1> QED
  BY <1>2 DEF ColourInv

(* The empty tree is balanced. *)
LEMMA EmptyColours ==
    ASSUME tree = EmptyTree, Present = {}, fix = Idle
    PROVE  ColourInv
<1> DEFINE R == [n \in Node |-> 0]
<1>1. R \in [Node -> Nat] /\ R[Nil] = 0
  BY Constants
<1> HIDE DEF R
<1>2. ShortPlaces = {} /\ RedBelow = {} /\ RedAbove = {}
  BY DEF Idle, ShortPlaces, RedBelow, RedAbove
<1>3. Heights(tree, Present, R, ShortPlaces)
  BY <1>1 DEF Heights
<1>4. Pairs(tree, Present, RedBelow, RedAbove)
  BY DEF Pairs
<1>5. ~ Red(tree, tree.root)
  BY DEF EmptyTree, Red
<1>6. fix.loop = "none"
  BY DEF Idle
<1> QED
  BY <1>3, <1>4, <1>5, <1>6 DEF ColourInv

(* It is at the start, *)
LEMMA InitColours ==
    Init => ColourInv
BY EmptyColours DEF Init, Present

(* and after clear(). *)
LEMMA ClearColours ==
    ASSUME MapInv, Clear
    PROVE  ColourInv'
<1>1. Init'
  BY DEF Clear, Init
<1>2. (Init => ColourInv)'
  BY InitColours, PTL
<1> QED
  BY <1>1, <1>2

(* set() on a key that has a node changes no link and no colour.           *)
LEMMA UpdateColours ==
    ASSUME MapInv, ColourInv, NEW key \in Keys, NEW value \in ValuesOf[key],
           Update(key, value)
    PROVE  ColourInv'
<1>1. value \in Values /\ value # Nil /\ key \in Present /\ fix = Idle /\ fix' = Idle
  BY SortedMapAssumption, FoundIfPresent DEF Update
<1>2. /\ tree \in Tree /\ dict \in [Keys -> Values \cup {Nil}]
      /\ tree' = [tree EXCEPT !.value[key] = value]
      /\ dict' = [dict EXCEPT ![key] = value]
  BY DEF MapInv, TypeOK, Update
<1>3. Present' = Present
  BY <1>1, <1>2 DEF Present
<1>4. tree'.root = tree.root /\ tree'.kid = tree.kid /\ tree'.red = tree.red
  BY <1>2 DEF Tree
<1>5. \E R : Heights(tree', Present, R, {})
  <2>1. PICK R : Heights(tree, Present, R, {})
    BY <1>1, IdleColours
  <2> QED
    BY <1>4, <2>1, SameHeights
<1>6. Pairs(tree', Present, {}, {}) /\ ~ Red(tree', tree'.root)
  BY <1>1, <1>4, IdleColours DEF Pairs, Red
<1>7. Pairs(tree', Present, RedBelow', RedAbove')
  BY <1>6 DEF Pairs
<1> QED
  BY <1>1, <1>3, <1>5, <1>6, <1>7, NowEven

(* v is t with a red leaf on side s of p, which had no child there.        *)
Hung(t, P, key, p, s, v) ==
    /\ p \in P /\ s \in Sides /\ t.kid[s][p] = Nil
    /\ v.root = t.root
    /\ \A y \in P, q \in Sides :
          v.kid[q][y] = IF y = p /\ q = s THEN key ELSE t.kid[q][y]
    /\ \A q \in Sides : v.kid[q][key] = Nil
    /\ \A y \in P : v.red[y] = t.red[y]
    /\ v.red[key]

(* A red leaf changes no height. *)
LEMMA HungHeights ==
    ASSUME NEW t, NEW P, NEW D, Shape(t, P, D), NEW key \in Keys \ P,
           NEW p, NEW s, NEW v, Hung(t, P, key, p, s, v),
           NEW R, Heights(t, P, R, {})
    PROVE  \E E : Heights(v, P \cup {key}, E, {})
<1> DEFINE E == [y \in Node |-> IF y = key THEN 0 ELSE R[y]]
<1>1. /\ Nil # key /\ key \in Node /\ Nil \in Node /\ \A y \in P : y \in Node
      /\ R \in [Node -> Nat] /\ R[Nil] = 0
  BY Constants DEF Shape, Heights
<1>2. /\ E \in [Node -> Nat] /\ E[Nil] = 0 /\ E[key] = 0
      /\ \A y \in Node : y # key => E[y] = R[y]
  BY <1>1
<1> HIDE DEF E
<1>3. \A y, q : Lacks({}, y, q) = 0
  BY DEF Lacks
<1>4. ASSUME NEW y \in P, NEW q \in Sides
      PROVE  E[y] = E[v.kid[q][y]] + Black(v, y) + Lacks({}, y, q)
  <2> DEFINE k == t.kid[q][y]
  <2>1. k \in P \cup {Nil} /\ k # key /\ k \in Node
    BY <1>1, Subtrees
  <2>2. E[k] = R[k] /\ E[y] = R[y]
    <3> HIDE DEF k
    <3> QED
      BY <1>1, <1>2, <2>1
  <2>3. R[y] = R[k] + Black(t, y) + Lacks({}, y, q)
    BY HeightAt
  <2>4. Black(v, y) = Black(t, y)
    BY DEF Hung, Black
  <2>5. E[v.kid[q][y]] = E[k]
    <3>1. CASE y = p /\ q = s
      <4>1. v.kid[q][y] = key /\ k = Nil
        BY <3>1 DEF Hung
      <4> QED
        BY <1>2, <4>1
    <3>2. CASE ~ (y = p /\ q = s)
      BY <3>2 DEF Hung
    <3> QED
      BY <3>1, <3>2
  <2> HIDE DEF k
  <2> QED
    BY <2>2, <2>3, <2>4, <2>5
<1>5. ASSUME NEW q \in Sides
      PROVE  E[key] = E[v.kid[q][key]] + Black(v, key) + Lacks({}, key, q)
  <2>1. v.kid[q][key] = Nil /\ Black(v, key) = 0
    BY DEF Hung, Black
  <2> QED
    BY <1>2, <1>3, <2>1
<1>6. Heights(v, P \cup {key}, E, {})
  BY <1>2, <1>4, <1>5 DEF Heights
<1> QED
  BY <1>6

(* It may be under a red node. *)
LEMMA HungPairs ==
    ASSUME NEW t, NEW P, NEW D, Shape(t, P, D), NEW key \in Keys \ P,
           NEW p, NEW s, NEW v, Hung(t, P, key, p, s, v), Pairs(t, P, {}, {})
    PROVE  Pairs(v, P \cup {key}, {key}, {})
<1>1. ASSUME NEW y \in P \cup {key}, NEW q \in Sides,
             Red(v, v.kid[q][y]), v.red[y], v.kid[q][y] # key
      PROVE  FALSE
  <2> DEFINE k == t.kid[q][y]
  <2>1. y \in P
    BY <1>1 DEF Hung, Red
  <2>2. k \in P \cup {Nil}
    BY <2>1, Subtrees
  <2>3. v.kid[q][y] = k /\ k # Nil
    BY <1>1, <2>1 DEF Hung, Red
  <2>4. t.red[y] /\ Red(t, k)
    BY <1>1, <2>1, <2>2, <2>3 DEF Hung, Red
  <2> QED
    BY <2>1, <2>4 DEF Pairs
<1> QED
  BY <1>1 DEF Pairs

(* Attach hangs a leaf below the last node of the search.                  *)
LEMMA AttachIs ==
    ASSUME NEW t, NEW P, NEW D, Shape(t, P, D), NEW key \in Keys \ P,
           t.root # Nil
    PROVE  LET r == Attach(t, key)
           IN  /\ r.root = t.root
               /\ \E p \in P, s \in Sides :
                     /\ t.kid[s][p] = Nil
                     /\ \A y \in P, q \in Sides :
                           r.kid[q][y] = IF y = p /\ q = s THEN key
                                         ELSE t.kid[q][y]
                     /\ \A q \in Sides : r.kid[q][key] = Nil
<1> DEFINE p == Nearest(t, key)
           s == Toward(key, p)
           r == SetKid(t, s, p, key)
<1>1. t \in Tree /\ P \subseteq Keys /\ key \in Node
      /\ \A q \in Sides : t.kid[q][key] = Nil
  BY Constants DEF Shape, Linked
<1>2. p \in P /\ p # key /\ t.kid[s][p] = Nil
  BY NearestRight
<1>3. p \in Keys /\ Attach(t, key) = r
  BY <1>1, <1>2 DEF Attach, Toward
<1>4. s \in Sides
  BY <1>3, TowardIsBeyond DEF Sides
<1> HIDE DEF p, s
<1>5. /\ r.root = t.root
      /\ \A q \in Sides, x \in Keys :
            r.kid[q][x] = IF q = s /\ x = p THEN key ELSE t.kid[q][x]
  BY <1>1, <1>3, <1>4, SetKidIs
<1> HIDE DEF r
<1>6. \A y \in P, q \in Sides :
         r.kid[q][y] = IF y = p /\ q = s THEN key ELSE t.kid[q][y]
  BY <1>1, <1>5
<1>7. \A q \in Sides : r.kid[q][key] = Nil
  BY <1>1, <1>2, <1>5
<1> QED
  BY <1>2, <1>3, <1>4, <1>5, <1>6, <1>7

(* set() on a new key: the first node is black, another one is red. *)
LEMMA LeafColours ==
    ASSUME MapInv, ColourInv, NEW key \in Keys, NEW value \in ValuesOf[key],
           Insert(key, value)
    PROVE  ColourInv'
<1> DEFINE a == Attach(tree, key)
           v == [a.value EXCEPT ![key] = value]
           c == [a.red EXCEPT ![key] = (tree.root # Nil)]
<1>1. value \in Values /\ value # Nil /\ key # Nil /\ key \in Keys \ Present
  BY SortedMapAssumption, FoundIfPresent DEF Insert
<1>2. /\ tree' = [a EXCEPT !.red[key] = tree.root # Nil, !.value[key] = value]
      /\ dict' = [dict EXCEPT ![key] = value]
      /\ fix' = IF tree.root = Nil THEN Idle
                ELSE [Idle EXCEPT !.loop = "insert", !.node = key]
      /\ fix = Idle
  BY DEF Insert
<1>3. PICK D : Shape(tree, Present, D)
  BY LoopTree
<1>4. a \in Tree /\ a.red = tree.red
  BY <1>1, <1>3, AttachKeeps
<1>5. dict \in [Keys -> Values \cup {Nil}] /\ tree \in Tree
      /\ Present \subseteq Keys
  BY DEF MapInv, TypeOK, Present
<1>6. Present' = Present \cup {key}
  BY <1>1, <1>2, <1>5 DEF Present
<1>7. tree'.root = a.root /\ tree'.kid = a.kid /\ tree'.red = c
  <2> HIDE DEF a
  <2>1. a = [root |-> a.root, kid |-> a.kid, up |-> a.up, red |-> a.red,
             value |-> a.value]
    BY <1>4 DEF Tree
  <2>2. tree' = [a EXCEPT !.red = c, !.value = v]
    BY <1>2, <2>1
  <2> HIDE DEF v, c
  <2>3. tree' = [root |-> a.root, kid |-> a.kid, up |-> a.up, red |-> c,
                 value |-> v]
    BY <2>1, <2>2
  <2> QED
    BY <2>3
<1>8. /\ c[key] <=> tree.root # Nil
      /\ \A y \in Present : c[y] = tree.red[y]
  <2>1. tree.red \in [Keys -> BOOLEAN]
    BY <1>5 DEF Tree
  <2> QED
    BY <1>1, <1>4, <1>5, <2>1
<1> HIDE DEF v, c
<1>9. CASE tree.root = Nil
  <2>1. Present = {}
    BY <1>3, <1>9 DEF Shape, Spans
  <2>2. /\ tree'.root = key /\ \A q \in Sides : tree'.kid[q][key] = Nil
    <3>1. a = [tree EXCEPT !.root = key]
      BY <1>9 DEF Attach
    <3>2. a.root = key /\ a.kid = tree.kid
      BY <1>5, <3>1 DEF Tree
    <3> HIDE DEF a
    <3>3. \A q \in Sides : tree.kid[q][key] = Nil
      BY <1>1, <1>3 DEF Shape, Linked
    <3> QED
      BY <1>7, <3>2, <3>3
  <2> HIDE DEF a
  <2>3. ~ tree'.red[key] /\ fix' = Idle
    BY <1>2, <1>7, <1>8, <1>9
  <2>4. \E E : Heights(tree', {key}, E, {})
    <3> DEFINE E == [y \in Node |-> IF y = key THEN 1 ELSE 0]
    <3>1. E \in [Node -> Nat] /\ E[Nil] = 0 /\ E[key] = 1
      BY <1>1, Constants
    <3> HIDE DEF E
    <3>2. Black(tree', key) = 1
      BY <2>3 DEF Black
    <3>3. \A q \in Sides :
             E[key] = E[tree'.kid[q][key]] + Black(tree', key) + Lacks({}, key, q)
      BY <2>2, <3>1, <3>2 DEF Lacks
    <3>4. Heights(tree', {key}, E, {})
      BY <3>1, <3>3 DEF Heights
    <3> QED
      BY <3>4
  <2>5. Present' = {key}
    BY <1>6, <2>1
  <2>6. Pairs(tree', {key}, RedBelow', RedAbove')
    BY <2>3 DEF Pairs
  <2>7. ~ Red(tree', tree'.root)
    BY <2>2, <2>3 DEF Red
  <2> QED
    BY <2>3, <2>4, <2>5, <2>6, <2>7, NowEven
<1>10. CASE tree.root # Nil
  <2>1. PICK p \in Present, s \in Sides :
           /\ tree.kid[s][p] = Nil
           /\ \A y \in Present, q \in Sides :
                 a.kid[q][y] = IF y = p /\ q = s THEN key ELSE tree.kid[q][y]
           /\ \A q \in Sides : a.kid[q][key] = Nil
    BY <1>1, <1>3, <1>10, AttachIs
  <2>2. a.root = tree.root
    BY <1>1, <1>3, <1>10, AttachIs
  <2> HIDE DEF a
  <2>3. Hung(tree, Present, key, p, s, tree')
    BY <1>7, <1>8, <1>10, <2>1, <2>2 DEF Hung
  <2>4. \E E : Heights(tree', Present', E, {})
    <3>1. PICK R : Heights(tree, Present, R, {})
      BY <1>2, IdleColours
    <3> QED
      BY <1>1, <1>3, <1>6, <2>3, <3>1, HungHeights
  <2>5. Pairs(tree', Present', {key}, {})
    <3>1. Pairs(tree, Present, {}, {})
      BY <1>2, IdleColours
    <3> QED
      BY <1>1, <1>3, <1>6, <2>3, <3>1, HungPairs
  <2>6. fix'.loop = "insert" /\ fix'.node = key
    <3>1. fix' = [loop |-> "insert", node |-> key, parent |-> Nil]
      BY <1>2, <1>10 DEF Idle
    <3> QED
      BY <3>1
  <2>7. RedBelow' = {key} /\ RedAbove' = {}
    BY <2>6 DEF RedBelow, RedAbove
  <2>8. ~ Red(tree', tree'.root)
    <3>1. ~ Red(tree, tree.root) /\ tree.root \in Present
      BY <1>2, <1>3, <1>10, IdleColours DEF Shape, Linked
    <3> QED
      BY <1>10, <2>3, <3>1 DEF Hung, Red
  <2>9. tree'.red[key]
    BY <2>3 DEF Hung
  <2> QED
    BY <2>4, <2>5, <2>6, <2>7, <2>8, <2>9, NowEven
<1> QED
  BY <1>9, <1>10

(* In r the child m of n has the place of n, which left t.                 *)
Spliced(t, P, n, m, r) ==
    /\ n \in P /\ m # n
    /\ \A y \in P \ {n}, q \in Sides :
          r.kid[q][y] = IF t.kid[q][y] = n THEN m ELSE t.kid[q][y]
    /\ \A y \in P \ {n} : r.red[y] = t.red[y]
    /\ r.root = IF t.up[n] = Nil THEN m ELSE t.root

(* What a bypass changes. *)
LEMMA BypassIs ==
    ASSUME NEW t, NEW P, NEW D, Shape(t, P, D), NEW s \in Sides, NEW n \in P
    PROVE  Spliced(t, P, n, t.kid[s][n],
                   Forget(Transplant(t, n, t.kid[s][n]), n))
<1> DEFINE m == t.kid[s][n]
           p == t.up[n]
           u == Transplant(t, n, m)
           r == Forget(u, n)
<1>1. t \in Tree /\ n \in Keys /\ P \subseteq Keys /\ m \in Node /\ m # n
      /\ Nil \notin P
  <2>1. m \in Node /\ m # n
    BY Subtrees
  <2> QED
    BY <2>1, Constants DEF Shape
<1> HIDE DEF m
<1>2. /\ u \in Tree /\ u.red = t.red
      /\ u.root = IF p = Nil THEN m ELSE t.root
      /\ \A q \in Sides, x \in Keys :
            u.kid[q][x] = IF x = p /\ q = SideOf(t, n, p) THEN m
                          ELSE t.kid[q][x]
  <2>1. Transplanted(t, n, m, u)
    BY <1>1, TransplantPuts
  <2> HIDE DEF u
  <2> QED
    BY <2>1 DEF Transplanted
<1> HIDE DEF u
<1>3. /\ r.root = u.root
      /\ \A q \in Sides, x \in Keys :
            r.kid[q][x] = IF x = n THEN Nil ELSE u.kid[q][x]
      /\ \A x \in Keys : r.red[x] = IF x = n THEN FALSE ELSE u.red[x]
  <2>1. u \in Tree /\ n \in Keys
    BY <1>1, <1>2
  <2>2. Forgotten(u, n, Forget(u, n))
    BY <2>1, ForgetClears
  <2> QED
    BY <2>2 DEF Forgotten
<1>4. \A y \in P, q \in Sides :
         t.kid[q][y] = n <=> y = p /\ q = SideOf(t, n, p)
  <2>1. \A y \in P, q \in Sides : t.kid[q][y] = n => p = y
    BY <1>1, Subtrees
  <2>2. p # Nil => \A q \in Sides : t.kid[q][p] = n <=> q = SideOf(t, n, p)
    BY SideOfIs
  <2> QED
    BY <1>1, <2>1, <2>2
<1> HIDE DEF r
<1>5. ASSUME NEW y \in P \ {n}, NEW q \in Sides
      PROVE  r.kid[q][y] = IF t.kid[q][y] = n THEN m ELSE t.kid[q][y]
  BY <1>1, <1>2, <1>3, <1>4
<1>6. \A y \in P \ {n} : r.red[y] = t.red[y]
  BY <1>1, <1>2, <1>3
<1>7. r.root = IF t.up[n] = Nil THEN m ELSE t.root
  BY <1>2, <1>3
<1>8. Spliced(t, P, n, m, r)
  BY <1>1, <1>5, <1>6, <1>7 DEF Spliced
<1> QED
  BY <1>8 DEF m, r, u

(* It leaves every height; a black node that leaves is missing at its      *)
(* place.                                                                  *)
LEMMA SplicedHeights ==
    ASSUME NEW t, NEW P, NEW D, Shape(t, P, D), NEW s \in Sides, NEW n \in P,
           NEW m, m = t.kid[s][n], NEW r, Spliced(t, P, n, m, r),
           NEW R, Heights(t, P, R, {}),
           NEW T, \A y \in P, q \in Sides : Lacks(T, y, q) =
                     IF t.kid[q][y] = n THEN Black(t, n) ELSE 0
    PROVE  Heights(r, P \ {n}, R, T)
<1>1. R \in [Node -> Nat] /\ R[Nil] = 0
  BY DEF Heights
<1>2. \A y, q : Lacks({}, y, q) = 0
  BY DEF Lacks
<1>3. R[n] = R[m] + Black(t, n) /\ R[m] \in Nat /\ Black(t, n) \in {0, 1}
  <2>1. /\ R[n] = R[t.kid[s][n]] + Black(t, n) + Lacks({}, n, s)
        /\ R[t.kid[s][n]] \in Nat /\ Black(t, n) \in {0, 1}
    BY HeightAt
  <2> QED
    BY <1>2, <2>1
<1>4. ASSUME NEW y \in P \ {n}, NEW q \in Sides
      PROVE  R[y] = R[r.kid[q][y]] + Black(r, y) + Lacks(T, y, q)
  <2> DEFINE k == t.kid[q][y]
  <2>1. /\ R[y] = R[k] + Black(t, y) + Lacks({}, y, q)
        /\ R[k] \in Nat /\ Black(t, y) \in {0, 1}
    BY HeightAt
  <2>2. Black(r, y) = Black(t, y)
    BY DEF Spliced, Black
  <2>3. r.kid[q][y] = IF k = n THEN m ELSE k
    BY DEF Spliced
  <2>4. Lacks(T, y, q) = IF k = n THEN Black(t, n) ELSE 0
    OBVIOUS
  <2> HIDE DEF k
  <2>5. CASE k = n
    BY <1>2, <1>3, <2>1, <2>2, <2>3, <2>4, <2>5
  <2>6. CASE k # n
    BY <1>2, <2>1, <2>2, <2>3, <2>4, <2>6
  <2> QED
    BY <2>5, <2>6
<1> QED
  BY <1>1, <1>4 DEF Heights

(* Where a red node leaves, no red pair arises; where a black one does,    *)
(* its child may be one of a red pair.                                     *)
LEMMA SplicedPairs ==
    ASSUME NEW t, NEW P, NEW D, Shape(t, P, D), NEW s \in Sides, NEW n \in P,
           NEW m, m = t.kid[s][n], NEW r, Spliced(t, P, n, m, r),
           Pairs(t, P, {}, {})
    PROVE  /\ t.red[n] => Pairs(r, P \ {n}, {}, {})
           /\ Pairs(r, P \ {n}, {m}, {m})
<1>1. ASSUME NEW y \in P \ {n}, NEW q \in Sides,
             Red(r, r.kid[q][y]), r.red[y]
      PROVE  r.kid[q][y] = m /\ ~ t.red[n]
  <2> DEFINE k == t.kid[q][y]
  <2>1. /\ t.red[y] /\ k \in P \cup {Nil} /\ ~ Red(t, k)
        /\ r.kid[q][y] = IF k = n THEN m ELSE k
    BY <1>1, Subtrees DEF Spliced, Pairs
  <2>2. k = n
    BY <1>1, <2>1 DEF Spliced, Red
  <2>3. n # Nil
    BY Constants DEF Shape
  <2> QED
    BY <2>1, <2>2, <2>3 DEF Red
<1>2. t.red[n] => Pairs(r, P \ {n}, {}, {})
  BY <1>1 DEF Pairs
<1>3. Pairs(r, P \ {n}, {m}, {m})
  BY <1>1 DEF Pairs
<1> QED
  BY <1>2, <1>3

(* delete() of a node with one child at most. *)
LEMMA BypassColours ==
    ASSUME MapInv, ColourInv, fix = Idle, NEW n \in Present,
           NEW s \in Sides, NEW m, m = tree.kid[s][n],
           Spliced(tree, Present, n, m, tree'),
           \E E : Shape(tree', Present \ {n}, E), Present' = Present \ {n},
           fix' = IF ~ tree.red[n] THEN [loop |-> "delete", node |-> m,
                                         parent |-> tree.up[n]]
                  ELSE Idle
    PROVE  ColourInv'
<1> DEFINE p == tree.up[n]
           h == SideOf(tree, n, p)
           T == IF p = Nil THEN {} ELSE {<<p, h>>}
<1>1. PICK D : Shape(tree, Present, D)
  BY LoopTree
<1>2. PICK R : Heights(tree, Present, R, {})
  BY IdleColours
<1>3. Pairs(tree, Present, {}, {}) /\ ~ Red(tree, tree.root)
  BY IdleColours
<1>4. PICK E : Shape(tree', Present', E)
  OBVIOUS
<1>5. Above(tree, Present, n, T)
  BY <1>1, PlaceOf
<1>6. /\ n # Nil /\ Nil \notin Present
      /\ tree.root \in Present \cup {Nil} /\ (p = Nil <=> n = tree.root)
  BY <1>1, Constants DEF Shape, Linked
<1>7. /\ tree'.root = IF p = Nil THEN m ELSE tree.root
      /\ \A y \in Present \ {n} : tree'.red[y] = tree.red[y]
      /\ \A y \in Present \ {n}, q \in Sides : tree'.kid[q][y] =
            IF tree.kid[q][y] = n THEN m ELSE tree.kid[q][y]
  BY DEF Spliced
<1>8. p # Nil => p \in Present /\ p # n /\ h \in Sides /\ tree.kid[h][p] = n
  BY <1>1, SideOfIs
<1> HIDE DEF p, h
<1>9. p # Nil => ~ Red(tree', tree'.root)
  BY <1>3, <1>6, <1>7 DEF Red
<1>10. CASE tree.red[n]
  <2>1. p # Nil
    BY <1>3, <1>6, <1>10 DEF Red
  <2>2. fix' = Idle
    BY <1>10
  <2>3. \A y \in Present, q \in Sides : Lacks({}, y, q) =
           IF tree.kid[q][y] = n THEN Black(tree, n) ELSE 0
    BY <1>10 DEF Lacks, Black
  <2>4. Heights(tree', Present', R, {})
    BY <1>1, <1>2, <2>3, SplicedHeights
  <2>5. Pairs(tree', Present', {}, {})
    BY <1>1, <1>3, <1>10, SplicedPairs
  <2>6. Pairs(tree', Present', RedBelow', RedAbove')
    BY <2>5 DEF Pairs
  <2> QED
    BY <1>9, <2>1, <2>2, <2>4, <2>6, NowEven
<1>11. CASE ~ tree.red[n]
  <2>1. fix'.loop = "delete" /\ fix'.node = m /\ fix'.parent = p
    BY <1>11 DEF p
  <2>2. Heights(tree', Present', R, T)
    <3>1. \A y \in Present, q \in Sides : Lacks(T, y, q) =
             IF tree.kid[q][y] = n THEN Black(tree, n) ELSE 0
      BY <1>5, <1>11 DEF Above, Black
    <3> HIDE DEF T
    <3> QED
      BY <1>1, <1>2, <3>1, SplicedHeights
  <2>3. Pairs(tree', Present', {m}, {m})
    BY <1>1, <1>3, SplicedPairs
  <2>4. CASE p = Nil
    <3>1. tree'.root = m /\ T = {}
      BY <1>7, <2>4
    <3>2. RedBelow' = {m} /\ RedAbove' = {m}
      BY <2>1 DEF RedBelow, RedAbove
    <3>3. fix' # Idle
      BY <2>1 DEF Idle
    <3> QED
      BY <2>1, <2>2, <2>3, <3>1, <3>2, <3>3, NowEven
  <2>5. CASE p # Nil
    <3>1. p \in Present' /\ h \in Sides /\ tree'.kid[h][p] = m
      BY <1>7, <1>8, <2>5
    <3>2. Heights(tree', Present', R, {<<p, h>>})
      BY <2>2, <2>5
    <3> QED
      BY <1>4, <1>9, <2>1, <2>3, <2>5, <3>1, <3>2, NowShort
  <2> QED
    BY <2>4, <2>5
<1> QED
  BY <1>10, <1>11

(* Around the node n that leaves t, and the least node k on its right,     *)
(* which takes its place and its colour in r: w is the child of k, f the   *)
(* parent, l and g the children of n.                                      *)
Swapped(t, P, n, k, l, g, w, f, r) ==
    /\ n \in P /\ k \in P /\ k # n /\ f \in P /\ f # k
    /\ l = t.kid["left"][n] /\ g = t.kid["right"][n]
    /\ t.kid["left"][k] = Nil /\ w = t.kid["right"][k]
    /\ w # k /\ w # n /\ l # k /\ l # n /\ g # n
    /\ t.up[k] = f
    /\ f = n => g = k
    /\ f # n => t.kid["left"][f] = k /\ g # k
    /\ \A y \in P, q \in Sides :
          t.kid[q][y] = k <=> y = f /\ q = (IF f = n THEN "right" ELSE "left")
    /\ r.root = IF t.up[n] = Nil THEN k ELSE t.root
    /\ r.kid["left"][k] = l
    /\ r.kid["right"][k] = IF f = n THEN w ELSE g
    /\ \A q \in Sides, y \in P \ {n, k} :
          r.kid[q][y] = IF t.kid[q][y] = n THEN k
                        ELSE IF t.kid[q][y] = k THEN w ELSE t.kid[q][y]
    /\ \A y \in P \ {n} : r.red[y] = IF y = k THEN t.red[n] ELSE t.red[y]

(* The colours after it. *)
LEMMA SwapReds ==
    ASSUME NEW t, NEW P, NEW D, Shape(t, P, D), NEW n \in P,
           t.kid["left"][n] # Nil, t.kid["right"][n] # Nil
    PROVE  LET r == Forget(Unlinked(t, n).tree, n)
               k == Minimum(t, t.kid["right"][n])
           IN  \A y \in P \ {n} : r.red[y] = IF y = k THEN t.red[n] ELSE t.red[y]
<1> DEFINE l == t.kid["left"][n]
           g == t.kid["right"][n]
           k == Minimum(t, g)
           w == t.kid["right"][k]
           f == t.up[k]
           t1 == Transplant(t, k, w)
           freed == IF f = n THEN t ELSE SetKid(t1, "right", k, g)
           t2 == Transplant(freed, n, k)
           t3 == SetKid(t2, "left", k, l)
           t4 == Paint(t3, k, t.red[n])
           r == Forget(t4, n)
<1>1. /\ t \in Tree /\ P \subseteq Keys /\ n \in Keys /\ l \in Node /\ g \in Node
  <2>1. l \in Node /\ g \in Node
    BY Subtrees, TwoSides
  <2> QED
    BY <2>1 DEF Shape
<1>2. k \in P /\ w \in P \cup {Nil}
  <2>1. Follows(t, P, D, n, k)
    BY NextIs
  <2> HIDE DEF k
  <2> QED
    BY <2>1 DEF Follows
<1>3. k \in Keys /\ k \in Node /\ w \in Node /\ t.red[n] \in BOOLEAN
      /\ "left" \in Sides /\ "right" \in Sides
  BY <1>1, <1>2, Constants DEF Tree, Sides
<1>4. Unlinked(t, n).tree = t4
  BY DEF Unlinked
<1> HIDE DEF l, g, k, w, f, r, t1, t2, t3, t4, freed
<1>5. t1 \in Tree /\ t1.red = t.red
  BY <1>1, <1>3, TransplantIs DEF t1
<1>6. freed \in Tree /\ freed.red = t.red
  BY <1>1, <1>3, <1>5, SetKidIs DEF freed
<1>7. t2 \in Tree /\ t2.red = t.red
  BY <1>1, <1>3, <1>6, TransplantIs DEF t2
<1>8. t3 \in Tree /\ t3.red = t.red
  BY <1>1, <1>3, <1>7, SetKidIs DEF t3
<1> DEFINE colour == t.red[n]
<1>9. colour \in BOOLEAN /\ t4 = Paint(t3, k, colour)
  BY <1>3 DEF t4
<1> HIDE DEF colour
<1>10. /\ t4 \in Tree
       /\ \A y \in Keys : t4.red[y] = IF y = k THEN colour ELSE t3.red[y]
  BY <1>3, <1>8, <1>9, PaintIs
<1>11. \A y \in Keys : r.red[y] = IF y = n THEN FALSE ELSE t4.red[y]
  BY <1>1, <1>10, ForgetIs DEF r
<1>12. ASSUME NEW y \in P \ {n}
       PROVE  r.red[y] = IF y = k THEN t.red[n] ELSE t.red[y]
  <2>1. y \in Keys /\ r.red[y] = t4.red[y]
    BY <1>1, <1>11
  <2>2. t4.red[y] = IF y = k THEN colour ELSE t.red[y]
    BY <1>8, <1>10, <2>1
  <2> QED
    BY <2>1, <2>2 DEF colour
<1> QED
  BY <1>4, <1>12 DEF r, k, g

(* That is what delete() of a node with two children does. *)
LEMMA SwappedIs ==
    ASSUME NEW t, NEW P, NEW D, Shape(t, P, D), NEW n \in P,
           t.kid["left"][n] # Nil, t.kid["right"][n] # Nil
    PROVE  LET l == t.kid["left"][n]
               g == t.kid["right"][n]
               k == Minimum(t, g)
           IN  Swapped(t, P, n, k, l, g, t.kid["right"][k], t.up[k],
                       Forget(Unlinked(t, n).tree, n))
<1> DEFINE l == t.kid["left"][n]
           g == t.kid["right"][n]
           k == Minimum(t, g)
           w == t.kid["right"][k]
           f == t.up[k]
           r == Forget(Unlinked(t, n).tree, n)
<1>1. /\ P \subseteq Keys /\ l # n /\ g # n /\ l # Nil
      /\ l \in D[l]
  <2>1. l # n /\ g # n /\ l \in D[l]
    BY Subtrees, TwoSides
  <2> QED
    BY <2>1 DEF Shape
<1>2. /\ k \in P /\ k # n /\ k \notin D[l] /\ t.kid["left"][k] = Nil
      /\ w # k /\ w # n /\ f \in P /\ f # k
      /\ f = n => k = g
      /\ f # n => k # g /\ t.kid["left"][f] = k /\ t.kid["right"][f] # k
  <2>1. Follows(t, P, D, n, k)
    BY NextIs
  <2> HIDE DEF k
  <2> QED
    BY <2>1 DEF Follows
<1>3. /\ r \in Tree
      /\ r.value = [t.value EXCEPT ![n] = Nil]
      /\ r.root = IF t.up[n] = Nil THEN k ELSE t.root
      /\ \A q \in Sides : r.kid[q][n] = Nil
      /\ r.kid["left"][k] = l
      /\ r.kid["right"][k] = IF f = n THEN w ELSE g
      /\ \A q \in Sides, x \in Keys \ {n, k} :
            r.kid[q][x] = IF x \in P /\ t.kid[q][x] = n THEN k
                          ELSE IF x \in P /\ t.kid[q][x] = k THEN w
                          ELSE t.kid[q][x]
      /\ r.up[n] = Nil /\ r.up[k] = t.up[n]
      /\ \A x \in Keys \ {n, k} :
            r.up[x] = IF x = l \/ x = g THEN k
                      ELSE IF x = w /\ f # n THEN f
                      ELSE t.up[x]
  BY SwapIs
<1>4. \A y \in P \ {n} : r.red[y] = IF y = k THEN t.red[n] ELSE t.red[y]
  BY SwapReds
<1>5. l # k
  BY <1>1, <1>2
<1>6. \A y \in P, q \in Sides : t.kid[q][y] = k => y = f
  <2>1. k # Nil
    BY <1>1, <1>2, Constants
  <2>2. \A y \in P, q \in Sides : t.kid[q][y] # Nil => t.up[t.kid[q][y]] = y
    BY Subtrees
  <2> QED
    BY <2>1, <2>2
<1> HIDE DEF k, w, f, r
<1>7. \A y \in P, q \in Sides :
         t.kid[q][y] = k <=> y = f /\ q = (IF f = n THEN "right" ELSE "left")
  BY <1>2, <1>5, <1>6 DEF Sides
<1>8. \A q \in Sides, y \in P \ {n, k} :
         r.kid[q][y] = IF t.kid[q][y] = n THEN k
                       ELSE IF t.kid[q][y] = k THEN w ELSE t.kid[q][y]
  BY <1>1, <1>3
<1>9. w = t.kid["right"][k] /\ t.up[k] = f
  BY DEF w, f
<1>10. Swapped(t, P, n, k, l, g, w, f, r)
  BY <1>1, <1>2, <1>3, <1>4, <1>5, <1>7, <1>8, <1>9 DEF Swapped
<1> QED
  BY <1>10 DEF k, w, f, r

(* The place the least node on the right has left, after the swap. *)
Gap(n, k, f) == IF f = n THEN <<k, "right">> ELSE <<f, "left">>

(* The node that moves takes over the height of the one that leaves; the   *)
(* black it had is missing where it was.                                   *)
LEMMA SwappedHeights ==
    ASSUME NEW t, NEW P, NEW D, Shape(t, P, D),
           NEW n, NEW k, NEW l, NEW g, NEW w, NEW f, NEW r,
           Swapped(t, P, n, k, l, g, w, f, r),
           NEW R, Heights(t, P, R, {}),
           NEW T, T = IF t.red[k] THEN {} ELSE {Gap(n, k, f)}
    PROVE  \E E : Heights(r, P \ {n}, E, T)
<1> DEFINE E == [y \in Node |-> IF y = k THEN R[n] ELSE R[y]]
           b == Black(t, k)
<1>1. /\ n \in P /\ k \in P /\ k # n /\ f \in P /\ f # k
      /\ l = t.kid["left"][n] /\ g = t.kid["right"][n]
      /\ w = t.kid["right"][k] /\ w # k /\ l # k
      /\ f = n => g = k
      /\ f # n => t.kid["left"][f] = k /\ g # k
      /\ \A y \in P, q \in Sides :
            t.kid[q][y] = k <=> y = f /\ q = (IF f = n THEN "right" ELSE "left")
      /\ r.kid["left"][k] = l
      /\ r.kid["right"][k] = IF f = n THEN w ELSE g
      /\ \A q \in Sides, y \in P \ {n, k} :
            r.kid[q][y] = IF t.kid[q][y] = n THEN k
                          ELSE IF t.kid[q][y] = k THEN w ELSE t.kid[q][y]
      /\ \A y \in P \ {n} : r.red[y] = IF y = k THEN t.red[n] ELSE t.red[y]
  BY DEF Swapped
<1>2. /\ Nil \notin P /\ \A y \in P \cup {Nil} : y \in Node
      /\ R \in [Node -> Nat] /\ R[Nil] = 0
  BY Constants DEF Shape, Heights
<1>3. /\ E \in [Node -> Nat] /\ E[Nil] = 0 /\ E[k] = R[n]
      /\ \A y \in P \cup {Nil} : y # k => E[y] = R[y]
  BY <1>1, <1>2
<1> HIDE DEF E
<1>4. \A y \in P, q \in Sides :
         /\ t.kid[q][y] \in P \cup {Nil} /\ R[t.kid[q][y]] \in Nat
         /\ R[y] = R[t.kid[q][y]] + Black(t, y)
         /\ Black(t, y) \in {0, 1}
  <2> SUFFICES ASSUME NEW y \in P, NEW q \in Sides
               PROVE  /\ t.kid[q][y] \in P \cup {Nil} /\ R[t.kid[q][y]] \in Nat
                      /\ R[y] = R[t.kid[q][y]] + Black(t, y)
                      /\ Black(t, y) \in {0, 1}
    OBVIOUS
  <2>1. /\ R[y] = R[t.kid[q][y]] + Black(t, y) + Lacks({}, y, q)
        /\ R[t.kid[q][y]] \in Nat /\ Black(t, y) \in {0, 1}
    BY HeightAt
  <2>2. Lacks({}, y, q) = 0
    BY DEF Lacks
  <2>3. t.kid[q][y] \in P \cup {Nil}
    BY Subtrees
  <2> QED
    BY <2>1, <2>2, <2>3
<1>5. /\ Black(r, k) = Black(t, n)
      /\ \A y \in P \ {n, k} : Black(r, y) = Black(t, y)
  BY <1>1 DEF Black
<1>6. \A y, q : Lacks(T, y, q) = IF <<y, q>> = Gap(n, k, f) THEN b ELSE 0
  BY DEF Lacks, Black
<1>7. \A y, q : <<y, q>> = Gap(n, k, f) <=>
                   \/ f = n /\ y = k /\ q = "right"
                   \/ f # n /\ y = f /\ q = "left"
  BY DEF Gap
<1>8. \A y, q : Lacks(T, y, q) = IF \/ f = n /\ y = k /\ q = "right"
                                    \/ f # n /\ y = f /\ q = "left"
                                 THEN b ELSE 0
  BY <1>6, <1>7
<1>9. /\ R[n] = R[l] + Black(t, n) /\ R[n] = R[g] + Black(t, n)
      /\ R[k] = R[w] + b /\ R[l] \in Nat /\ R[g] \in Nat /\ R[w] \in Nat
      /\ Black(t, n) \in {0, 1} /\ b \in {0, 1}
      /\ l \in P \cup {Nil} /\ g \in P \cup {Nil} /\ w \in P \cup {Nil}
  BY <1>1, <1>4, TwoSides
<1> HIDE DEF b
<1>10. E[k] = E[r.kid["left"][k]] + Black(r, k) + Lacks(T, k, "left")
  <2>1. E[l] = R[l]
    BY <1>1, <1>3, <1>9
  <2>2. Lacks(T, k, "left") = 0
    <3>1. k # f
      BY <1>1
    <3> QED
      BY <1>8, <3>1
  <2> QED
    BY <1>1, <1>3, <1>5, <1>9, <2>1, <2>2
<1>11. E[k] = E[r.kid["right"][k]] + Black(r, k) + Lacks(T, k, "right")
  <2>1. CASE f = n
    <3>1. E[w] = R[w] /\ Lacks(T, k, "right") = b /\ r.kid["right"][k] = w
          /\ R[n] = R[k] + Black(t, n)
      BY <1>1, <1>3, <1>8, <1>9, <2>1
    <3> QED
      BY <1>3, <1>5, <1>9, <3>1
  <2>2. CASE f # n
    <3>1. E[g] = R[g] /\ r.kid["right"][k] = g /\ k # f
      BY <1>1, <1>3, <1>9, <2>2
    <3>2. Lacks(T, k, "right") = 0
      BY <1>8, <2>2, <3>1
    <3> QED
      BY <1>3, <1>5, <1>9, <3>1, <3>2
  <2> QED
    BY <2>1, <2>2
<1>12. ASSUME NEW y \in P \ {n, k}, NEW q \in Sides
       PROVE  E[y] = E[r.kid[q][y]] + Black(r, y) + Lacks(T, y, q)
  <2> DEFINE m == t.kid[q][y]
  <2>1. /\ m \in P \cup {Nil} /\ R[m] \in Nat /\ R[y] = R[m] + Black(t, y)
        /\ Black(t, y) \in {0, 1}
    BY <1>4
  <2>2. E[y] = R[y] /\ Black(r, y) = Black(t, y)
    BY <1>3, <1>5
  <2>3. r.kid[q][y] = IF m = n THEN k ELSE IF m = k THEN w ELSE m
    BY <1>1
  <2>4. Lacks(T, y, q) = IF m = k THEN b ELSE 0
    <3>1. m = k <=> f # n /\ y = f /\ q = "left"
      BY <1>1
    <3> HIDE DEF m
    <3> QED
      BY <1>8, <3>1
  <2> HIDE DEF m
  <2>5. CASE m = n
    BY <1>1, <1>3, <2>1, <2>2, <2>3, <2>4, <2>5
  <2>6. CASE m = k
    <3>1. E[w] = R[w] /\ r.kid[q][y] = w /\ Lacks(T, y, q) = b
      BY <1>1, <1>3, <1>9, <2>3, <2>4, <2>6
    <3> QED
      BY <1>9, <2>1, <2>2, <2>6, <3>1
  <2>7. CASE m # n /\ m # k
    BY <1>3, <2>1, <2>2, <2>3, <2>4, <2>7
  <2> QED
    BY <2>5, <2>6, <2>7
<1>13. \A y \in P \ {n}, q \in Sides :
          E[y] = E[r.kid[q][y]] + Black(r, y) + Lacks(T, y, q)
  BY <1>10, <1>11, <1>12 DEF Sides
<1>14. Heights(r, P \ {n}, E, T)
  BY <1>3, <1>13 DEF Heights
<1> QED
  BY <1>14

(* Where the moved node was red, no red pair arises; where it was black,   *)
(* its child may be one of a red pair.                                     *)
LEMMA SwappedPairs ==
    ASSUME NEW t, NEW P, NEW D, Shape(t, P, D),
           NEW n, NEW k, NEW l, NEW g, NEW w, NEW f, NEW r,
           Swapped(t, P, n, k, l, g, w, f, r), Pairs(t, P, {}, {})
    PROVE  /\ t.red[k] => Pairs(r, P \ {n}, {}, {})
           /\ Pairs(r, P \ {n}, {w}, {w})
<1>1. /\ n \in P /\ k \in P /\ k # n /\ f \in P /\ f # k
      /\ l = t.kid["left"][n] /\ g = t.kid["right"][n]
      /\ w = t.kid["right"][k] /\ w # k /\ w # n /\ l # k /\ l # n /\ g # n
      /\ f = n => g = k
      /\ f # n => g # k
      /\ r.kid["left"][k] = l
      /\ r.kid["right"][k] = IF f = n THEN w ELSE g
      /\ \A q \in Sides, y \in P \ {n, k} :
            r.kid[q][y] = IF t.kid[q][y] = n THEN k
                          ELSE IF t.kid[q][y] = k THEN w ELSE t.kid[q][y]
      /\ \A y \in P \ {n} : r.red[y] = IF y = k THEN t.red[n] ELSE t.red[y]
  BY DEF Swapped
<1>2. \A y \in P, q \in Sides :
         t.kid[q][y] \in P \cup {Nil}
         /\ (t.red[y] => ~ Red(t, t.kid[q][y]))
  BY Subtrees DEF Pairs
<1>3. Nil \notin P
  BY Constants DEF Shape
<1>4. \A y \in P \cup {Nil} : y # n /\ y # k => (Red(r, y) <=> Red(t, y))
  BY <1>1, <1>3 DEF Red
<1>5. /\ l \in P \cup {Nil} /\ g \in P \cup {Nil} /\ w \in P \cup {Nil}
      /\ (t.red[n] => ~ Red(t, l) /\ ~ Red(t, g))
      /\ (t.red[k] => ~ Red(t, w))
  BY <1>1, <1>2, TwoSides
<1>6. ASSUME NEW y \in P \ {n}, NEW q \in Sides,
             Red(r, r.kid[q][y]), r.red[y]
      PROVE  r.kid[q][y] = w /\ ~ t.red[k]
  <2>1. CASE y = k
    <3>1. t.red[n]
      BY <1>1, <1>6, <2>1
    <3>2. CASE q = "left"
      <4>1. ~ Red(r, l)
        BY <1>1, <1>4, <1>5, <3>1
      <4> QED
        BY <1>1, <1>6, <2>1, <3>2, <4>1
    <3>3. CASE q = "right" /\ f = n
      <4>1. r.kid[q][y] = w
        BY <1>1, <2>1, <3>3
      <4>2. ~ t.red[k]
        BY <1>1, <1>3, <1>5, <3>1, <3>3 DEF Red
      <4> QED
        BY <4>1, <4>2
    <3>4. CASE q = "right" /\ f # n
      <4>1. ~ Red(r, g)
        BY <1>1, <1>4, <1>5, <3>1, <3>4
      <4> QED
        BY <1>1, <1>6, <2>1, <3>4, <4>1
    <3> QED
      BY <3>2, <3>3, <3>4 DEF Sides
  <2>2. CASE y # k
    <3> DEFINE m == t.kid[q][y]
    <3>1. /\ m \in P \cup {Nil} /\ t.red[y] /\ ~ Red(t, m)
          /\ r.kid[q][y] = IF m = n THEN k ELSE IF m = k THEN w ELSE m
      BY <1>1, <1>2, <1>6, <2>2
    <3> HIDE DEF m
    <3>2. m # n
      BY <1>1, <1>3, <1>6, <3>1 DEF Red
    <3>3. m = k
      BY <1>4, <1>6, <3>1, <3>2
    <3>4. ~ t.red[k]
      BY <1>1, <1>3, <3>1, <3>3 DEF Red
    <3> QED
      BY <1>1, <3>1, <3>3, <3>4
  <2> QED
    BY <2>1, <2>2
<1>7. t.red[k] => Pairs(r, P \ {n}, {}, {})
  BY <1>6 DEF Pairs
<1>8. Pairs(r, P \ {n}, {w}, {w})
  BY <1>6 DEF Pairs
<1> QED
  BY <1>7, <1>8

(* delete() of a node with two children. *)
LEMMA SwapColours ==
    ASSUME MapInv, ColourInv, fix = Idle,
           NEW n, NEW k, NEW l, NEW g, NEW w, NEW f,
           Swapped(tree, Present, n, k, l, g, w, f, tree'),
           \E E : Shape(tree', Present \ {n}, E), Present' = Present \ {n},
           fix' = IF ~ tree.red[k]
                  THEN [loop |-> "delete", node |-> w,
                        parent |-> IF f = n THEN k ELSE f]
                  ELSE Idle
    PROVE  ColourInv'
<1> DEFINE a == IF f = n THEN k ELSE f
           q == IF f = n THEN "right" ELSE "left"
<1>1. PICK D : Shape(tree, Present, D)
  BY LoopTree
<1>2. PICK R : Heights(tree, Present, R, {})
  BY IdleColours
<1>3. Pairs(tree, Present, {}, {}) /\ ~ Red(tree, tree.root)
  BY IdleColours
<1>4. PICK E : Shape(tree', Present', E)
  OBVIOUS
<1>5. /\ n \in Present /\ k \in Present /\ k # n /\ f \in Present /\ f # k
      /\ tree.up[k] = f
      /\ f # n => tree.kid["left"][f] = k
      /\ tree'.root = IF tree.up[n] = Nil THEN k ELSE tree.root
      /\ tree'.kid["right"][k] = IF f = n THEN w ELSE g
      /\ \A h \in Sides, y \in Present \ {n, k} :
            tree'.kid[h][y] = IF tree.kid[h][y] = n THEN k
                              ELSE IF tree.kid[h][y] = k THEN w
                              ELSE tree.kid[h][y]
      /\ \A y \in Present \ {n} :
            tree'.red[y] = IF y = k THEN tree.red[n] ELSE tree.red[y]
  BY DEF Swapped
<1>6. /\ Nil \notin Present /\ tree.root \in Present \cup {Nil}
      /\ (tree.up[n] = Nil <=> n = tree.root)
      /\ tree.up[k] # Nil /\ k # tree.root
  <2>1. /\ Nil \notin Present /\ tree.root \in Present \cup {Nil}
        /\ \A y \in Present : tree.up[y] = Nil <=> y = tree.root
    BY <1>1, Constants DEF Shape, Linked
  <2> QED
    BY <1>5, <2>1
<1>7. ~ Red(tree', tree'.root)
  <2>1. CASE tree.up[n] = Nil
    BY <1>3, <1>5, <1>6, <2>1 DEF Red
  <2>2. CASE tree.up[n] # Nil
    BY <1>3, <1>5, <1>6, <2>2 DEF Red
  <2> QED
    BY <2>1, <2>2
<1>8. CASE tree.red[k]
  <2>1. fix' = Idle
    BY <1>8
  <2>2. \E X : Heights(tree', Present', X, {})
    BY <1>1, <1>2, <1>8, SwappedHeights
  <2>3. Pairs(tree', Present', {}, {})
    BY <1>1, <1>3, <1>8, SwappedPairs
  <2>4. Pairs(tree', Present', RedBelow', RedAbove')
    BY <2>3 DEF Pairs
  <2> QED
    BY <1>7, <2>1, <2>2, <2>4, NowEven
<1>9. CASE ~ tree.red[k]
  <2>1. fix'.loop = "delete" /\ fix'.node = w /\ fix'.parent = a
    BY <1>9
  <2>2. Gap(n, k, f) = <<a, q>>
    BY DEF Gap
  <2>3. a \in Present' /\ q \in Sides /\ tree'.kid[q][a] = w
    <3>1. CASE f = n
      BY <1>5, <3>1, TwoSides
    <3>2. CASE f # n
      BY <1>5, <3>2, TwoSides
    <3> QED
      BY <3>1, <3>2
  <2> HIDE DEF a, q
  <2>4. \E X : Heights(tree', Present', X, {<<a, q>>})
    <3>1. {<<a, q>>} = IF tree.red[k] THEN {} ELSE {Gap(n, k, f)}
      BY <1>9, <2>2
    <3> QED
      BY <1>1, <1>2, <3>1, SwappedHeights
  <2>5. Pairs(tree', Present', {w}, {w})
    BY <1>1, <1>3, SwappedPairs
  <2> QED
    BY <1>4, <1>7, <2>1, <2>3, <2>4, <2>5, NowShort
<1> QED
  BY <1>8, <1>9

(* delete() leaves a place short, if any, where the loop starts.           *)
LEMMA RemoveColours ==
    ASSUME MapInv, ColourInv, NEW key \in Keys, Delete(key)
    PROVE  ColourInv'
<1> DEFINE out == Unlinked(tree, key)
           l == tree.kid["left"][key]
           g == tree.kid["right"][key]
           k == Minimum(tree, g)
           w == tree.kid["right"][k]
           f == tree.up[k]
           Bypass(s) ==
             [tree |-> Transplant(tree, key, tree.kid[s][key]),
              node |-> tree.kid[s][key], parent |-> tree.up[key],
              black |-> ~tree.red[key]]
<1>1. key \in Present /\ fix = Idle
  BY FoundIfPresent DEF Delete
<1>2. /\ tree' = Forget(out.tree, key)
      /\ fix' = IF out.black
                THEN [loop |-> "delete", node |-> out.node,
                      parent |-> out.parent]
                ELSE Idle
      /\ dict' = [dict EXCEPT ![key] = Nil]
  BY DEF Delete
<1>3. PICK D : Shape(tree, Present, D)
  BY LoopTree
<1>4. \E E : Shape(tree', Present \ {key}, E)
  BY <1>1, <1>2, <1>3, UnlinkedKeeps
<1>5. Present' = Present \ {key}
  BY <1>2 DEF MapInv, TypeOK, Present
<1>6. ASSUME NEW s \in Sides, out = Bypass(s) PROVE ColourInv'
  <2> DEFINE m == tree.kid[s][key]
  <2>1. /\ out.tree = Transplant(tree, key, m) /\ out.node = m
        /\ out.parent = tree.up[key] /\ out.black = ~ tree.red[key]
    BY <1>6
  <2> HIDE DEF out
  <2>2. Spliced(tree, Present, key, m, tree')
    BY <1>1, <1>2, <1>3, <2>1, BypassIs
  <2>3. fix' = IF ~ tree.red[key]
               THEN [loop |-> "delete", node |-> m, parent |-> tree.up[key]]
               ELSE Idle
    BY <1>2, <2>1
  <2>4. m = tree.kid[s][key]
    OBVIOUS
  <2> HIDE DEF m
  <2> QED
    BY <1>1, <1>4, <1>5, <2>2, <2>3, <2>4, BypassColours
<1>7. CASE l = Nil
  <2>1. out = Bypass("right")
    BY <1>7 DEF Unlinked
  <2> HIDE DEF out, Bypass
  <2> QED
    BY <1>6, <2>1, TwoSides
<1>8. CASE l # Nil /\ g = Nil
  <2>1. out = Bypass("left")
    BY <1>8 DEF Unlinked
  <2> HIDE DEF out, Bypass
  <2> QED
    BY <1>6, <2>1, TwoSides
<1>9. CASE l # Nil /\ g # Nil
  <2>1. Swapped(tree, Present, key, k, l, g, w, f, tree')
    BY <1>1, <1>2, <1>3, <1>9, SwappedIs
  <2>2. out.node = w /\ out.parent = (IF f = key THEN k ELSE f)
        /\ out.black = ~ tree.red[k]
    BY <1>9 DEF Unlinked
  <2>3. fix' = IF ~ tree.red[k]
               THEN [loop |-> "delete", node |-> w,
                     parent |-> IF f = key THEN k ELSE f]
               ELSE Idle
    BY <1>2, <2>2
  <2> HIDE DEF out, l, g, k, w, f
  <2> QED
    BY <1>1, <1>4, <1>5, <2>1, <2>3, SwapColours
<1> QED
  BY <1>7, <1>8, <1>9

(* Every step keeps the balance. *)
LEMMA StepColours ==
    MapInv /\ ColourInv /\ [Next]_vars => ColourInv'
<1> SUFFICES ASSUME MapInv, ColourInv, [Next]_vars PROVE ColourInv'
  OBVIOUS
<1>1. CASE UNCHANGED vars
  BY <1>1 DEF ColourInv, ShortPlaces, RedBelow, RedAbove, Side, Present, vars
<1>2. CASE \E k \in Keys : \E v \in ValuesOf[k] : Update(k, v) \/ Insert(k, v)
  BY <1>2, UpdateColours, LeafColours
<1>3. CASE \E k \in Keys : Delete(k)
  BY <1>3, RemoveColours
<1>4. CASE Clear
  BY <1>4, ClearColours
<1>5. CASE Rebalance
  BY <1>5, RebalanceColours
<1> QED
  BY <1>1, <1>2, <1>3, <1>4, <1>5 DEF Next

(* The colours hold the invariant all the time. *)
LEMMA AlwaysColours ==
    Spec => [](MapInv /\ ColourInv)
<1>1. Init => MapInv /\ ColourInv
  BY InitInv, InitColours
<1>2. MapInv /\ ColourInv /\ [Next]_vars => (MapInv /\ ColourInv)'
  BY StepInv, StepColours
<1> QED
  BY <1>1, <1>2, PTL DEF Spec

-----------------------------------------------------------------------------
(* The theorems *)

(* The variables of the map keep their types. *)
THEOREM MapTypeCorrect ==
    Spec => []TypeOK
<1>1. MapInv => TypeOK
  BY DEF MapInv
<1> QED
  BY <1>1, AlwaysInv, PTL

(* Whatever is set, replaced, deleted and cleared, and in the middle of    *)
(* the rotations too, get() finds the last value set, entries() lists the  *)
(* present keys in order, and size counts them.                            *)
THEOREM GetsFindAll ==
    Spec => []FindsAll
<1>1. MapInv => FindsAll
  BY InvReads
<1> QED
  BY <1>1, AlwaysInv, PTL

(* range() prunes subtrees without losing a key of its bounds. *)
THEOREM RangesLoseNothing ==
    Spec => []RangeRight
<1>1. MapInv => RangeRight
  BY InvReads
<1> QED
  BY <1>1, AlwaysInv, PTL

(* The links to parents, by which rotations and transplants find their     *)
(* way, always agree with the links to children.                           *)
THEOREM LinksAlwaysAgree ==
    Spec => []LinksAgree
<1>1. MapInv => LinksAgree
  BY InvReads
<1> QED
  BY <1>1, AlwaysInv, PTL

(* The tree is balanced between the calls, and in the loops but for the    *)
(* place they work on: the number of black nodes is the same on every      *)
(* path, and no red node has a red child.                                  *)
THEOREM BalancedAlways ==
    Spec => []Balanced
<1>1. MapInv /\ ColourInv => Balanced
  BY InvBalanced
<1> QED
  BY <1>1, AlwaysColours, PTL
==============================================================================
