----------------------------- MODULE SortedMap ------------------------------
(***************************************************************************)
(* SortedMap: the red-black tree under a MemTable.                         *)
(*                                                                         *)
(* A node is named by its key.  set() and delete() run without an await;   *)
(* the model takes their rebalancing loops in steps of one rotation or     *)
(* recolouring, so that what holds inside the loops can be stated, and     *)
(* starts no operation while a loop runs.  The two mirrored halves of      *)
(* every loop are one definition that takes the side.                      *)
(***************************************************************************)
EXTENDS Integers, FiniteSets, Sequences

CONSTANTS
    Keys,     \* numbers, so that compareKeys is <
    Values,
    ValuesOf, \* bound: the values each key is set to
    Nil       \* null; also the value of a key that has none

ASSUME SortedMapAssumption ==
    /\ Keys \subseteq Nat
    /\ IsFiniteSet(Keys)
    /\ ValuesOf \in [Keys -> SUBSET Values]
    /\ Nil \notin Keys \cup Values

VARIABLES
    tree,     \* root, children, parents, colours and values of the nodes
    count,    \* number of entries
    fix,      \* the rebalancing loop in progress
    dict      \* auxiliary: the map the calls so far add up to

vars == <<tree, count, fix, dict>>

Node == Keys \cup {Nil}

Sides == {"left", "right"}

Opposite(s) == IF s = "left" THEN "right" ELSE "left"

Tree == [root : Node, kid : [Sides -> [Keys -> Node]], up : [Keys -> Node],
         red : [Keys -> BOOLEAN], value : [Keys -> Values \cup {Nil}]]

EmptyTree == [root |-> Nil, kid |-> [s \in Sides |-> [k \in Keys |-> Nil]],
              up |-> [k \in Keys |-> Nil], red |-> [k \in Keys |-> FALSE],
              value |-> [k \in Keys |-> Nil]]

Idle == [loop |-> "none", node |-> Nil, parent |-> Nil]

Red(t, n) == n # Nil /\ t.red[n]

SideOf(t, n, p) == IF n = t.kid["left"][p] THEN "left" ELSE "right"

Paint(t, n, colour) == IF n = Nil THEN t ELSE [t EXCEPT !.red[n] = colour]

-----------------------------------------------------------------------------
(* Reading *)

(* The node of a key, or the last node on the way to where it would be.    *)
Nearest(t, key) ==
    LET walk[n \in Keys] ==
          LET next == t.kid[IF key < n THEN "left" ELSE "right"][n]
          IN  IF n = key \/ next = Nil THEN n ELSE walk[next]
    IN  walk[t.root]

FindNode(t, key) ==
    IF t.root = Nil \/ Nearest(t, key) # key THEN Nil ELSE key

Get(t, key) == IF FindNode(t, key) = Nil THEN Nil ELSE t.value[key]

(* entries() and the iterator: keys in order of the traversal.             *)
Entries(t) ==
    LET visit[n \in Node] ==
          IF n = Nil THEN << >>
          ELSE visit[t.kid["left"][n]] \o <<n>> \o visit[t.kid["right"][n]]
    IN  visit[t.root]

(* Mutant: right of a node only when it is below the start. *)
RangeOpen(t, start, end) ==
    LET visit[n \in Node] ==
          IF n = Nil THEN << >>
          ELSE (IF n > start THEN visit[t.kid["left"][n]] ELSE << >>)
            \o (IF n >= start /\ n <= end THEN <<n>> ELSE << >>)
            \o (IF n < start THEN visit[t.kid["right"][n]] ELSE << >>)
    IN  visit[t.root]

(* range(): left of a node only when the node is above the start, right of *)
(* it only when it is below the end.                                       *)
RangeOf(t, start, end) ==
    LET visit[n \in Node] ==
          IF n = Nil THEN << >>
          ELSE (IF n > start THEN visit[t.kid["left"][n]] ELSE << >>)
            \o (IF n >= start /\ n <= end THEN <<n>> ELSE << >>)
            \o (IF n < end THEN visit[t.kid["right"][n]] ELSE << >>)
    IN  visit[t.root]

-----------------------------------------------------------------------------
(* Changing links *)

SetKid(t, s, n, m) ==
    [t EXCEPT !.kid[s][n] = m,
              !.up = IF m = Nil THEN @ ELSE [@ EXCEPT ![m] = n]]

(* Mutant: the parent of the node that moves up is not set. *)
TransplantDown(t, u, v) ==
    IF t.up[u] = Nil THEN [t EXCEPT !.root = v]
    ELSE [t EXCEPT !.kid[SideOf(t, u, t.up[u])][t.up[u]] = v]

(* v takes the place of u.                                                 *)
Transplant(t, u, v) ==
    LET p == t.up[u]
    IN  [t EXCEPT
           !.root = IF p = Nil THEN v ELSE @,
           !.kid = IF p = Nil THEN @ ELSE [@ EXCEPT ![SideOf(t, u, p)][p] = v],
           !.up = IF v = Nil THEN @ ELSE [@ EXCEPT ![v] = p]]

(* Mutant: the subtree between the two nodes is lost. *)
RotateDrop(t, s, n) ==
    LET child == t.kid[Opposite(s)][n]
    IN  IF child = Nil THEN t
        ELSE SetKid(Transplant(SetKid(t, Opposite(s), n, Nil), n, child),
                    s, child, n)

(* rotateLeft for s = "left": the child on the other side moves up.        *)
Rotate(t, s, n) ==
    LET child == t.kid[Opposite(s)][n]
    IN  IF child = Nil THEN t
        ELSE SetKid(Transplant(SetKid(t, Opposite(s), n, t.kid[s][child]),
                               n, child),
                    s, child, n)

(* The node leaves the tree.                                               *)
Forget(t, n) ==
    [t EXCEPT !.kid = [s \in Sides |-> [@[s] EXCEPT ![n] = Nil]],
              !.up[n] = Nil, !.red[n] = FALSE, !.value[n] = Nil]

Minimum(t, n) ==
    LET walk[m \in Keys] == IF t.kid["left"][m] = Nil THEN m
                            ELSE walk[t.kid["left"][m]]
    IN  walk[n]

-----------------------------------------------------------------------------
Init ==
    /\ tree = EmptyTree
    /\ count = 0
    /\ fix = Idle
    /\ dict = [k \in Keys |-> Nil]

(* set() on a key that has a node.                                         *)
Update(key, value) ==
    /\ fix = Idle
    /\ FindNode(tree, key) # Nil
    /\ tree' = [tree EXCEPT !.value[key] = value]
    /\ dict' = [dict EXCEPT ![key] = value]
    /\ UNCHANGED <<count, fix>>

Attach(t, key) ==
    IF t.root = Nil THEN [t EXCEPT !.root = key]
    ELSE LET p == Nearest(t, key)
         IN  SetKid(t, IF key < p THEN "left" ELSE "right", p, key)

(* set() on a new key: a red leaf, then fixInsert; a root is black at once.*)
Insert(key, value) ==
    /\ fix = Idle
    /\ FindNode(tree, key) = Nil
    /\ tree' = [Attach(tree, key) EXCEPT !.red[key] = tree.root # Nil,
                                         !.value[key] = value]
    /\ count' = count + 1
    /\ fix' = IF tree.root = Nil THEN Idle
              ELSE [Idle EXCEPT !.loop = "insert", !.node = key]
    /\ dict' = [dict EXCEPT ![key] = value]

(* deleteNode: what takes the node's place, where black may be missing     *)
(* after it, and the colour that was taken out of that place.              *)
Unlinked(t, n) ==
    LET Bypass(s) ==
          [tree |-> Transplant(t, n, t.kid[s][n]), node |-> t.kid[s][n],
           parent |-> t.up[n], black |-> ~t.red[n]]
        next == Minimum(t, t.kid["right"][n])
        near == t.up[next] = n
        freed == IF near THEN t
                 ELSE SetKid(Transplant(t, next, t.kid["right"][next]),
                             "right", next, t.kid["right"][n])
        moved == SetKid(Transplant(freed, n, next), "left", next,
                        t.kid["left"][n])
    IN  IF t.kid["left"][n] = Nil THEN Bypass("right")
        ELSE IF t.kid["right"][n] = Nil THEN Bypass("left")
        ELSE [tree |-> Paint(moved, next, t.red[n]),
              node |-> t.kid["right"][next],
              parent |-> IF near THEN next ELSE t.up[next],
              black |-> ~t.red[next]]

Delete(key) ==
    /\ fix = Idle
    /\ FindNode(tree, key) # Nil
    /\ LET out == Unlinked(tree, key)
       IN  /\ tree' = Forget(out.tree, key)
           /\ fix' = IF out.black
                     THEN [loop |-> "delete", node |-> out.node,
                           parent |-> out.parent]
                     ELSE Idle
    /\ count' = count - 1
    /\ dict' = [dict EXCEPT ![key] = Nil]

Clear ==
    /\ fix = Idle
    /\ tree' = EmptyTree
    /\ count' = 0
    /\ dict' = [k \in Keys |-> Nil]
    /\ UNCHANGED fix

-----------------------------------------------------------------------------
(* fixInsert *)

Grandparent(n) == tree.up[tree.up[n]]

InsertGoesOn ==
    /\ fix.loop = "insert"
    /\ fix.node # tree.root
    /\ Red(tree, tree.up[fix.node])
    /\ Grandparent(fix.node) # Nil

Uncle(n) ==
    tree.kid[Opposite(SideOf(tree, tree.up[n], Grandparent(n)))]
            [Grandparent(n)]

(* Mutant: the uncle stays red. *)
ParentBlack(t, p, u, g) == Paint(Paint(t, p, FALSE), g, TRUE)

Recoloured(t, p, u, g) == Paint(Paint(Paint(t, p, FALSE), u, FALSE), g, TRUE)

(* Case 1: the uncle is red; the violation moves up two levels.            *)
RecolourUncle ==
    /\ InsertGoesOn
    /\ LET p == tree.up[fix.node]
           u == Uncle(fix.node)
           g == Grandparent(fix.node)
       IN  /\ Red(tree, u)
           /\ tree' = Recoloured(tree, p, u, g)
           /\ fix' = [fix EXCEPT !.node = g]
    /\ UNCHANGED <<count, dict>>

InsertSide == SideOf(tree, tree.up[fix.node], Grandparent(fix.node))

Inner == fix.node = tree.kid[Opposite(InsertSide)][tree.up[fix.node]]

(* Case 2: an inner grandchild is rotated to the outside.                  *)
Straighten ==
    /\ InsertGoesOn
    /\ ~Red(tree, Uncle(fix.node))
    /\ Inner
    /\ tree' = Rotate(tree, InsertSide, tree.up[fix.node])
    /\ fix' = [fix EXCEPT !.node = tree.up[fix.node]]
    /\ UNCHANGED <<count, dict>>

(* Case 3: the grandparent is rotated down.                                *)
RotateGrandparent ==
    /\ InsertGoesOn
    /\ ~Red(tree, Uncle(fix.node))
    /\ ~Inner
    /\ LET g == Grandparent(fix.node)
       IN  tree' = Rotate(Paint(Paint(tree, tree.up[fix.node], FALSE), g, TRUE),
                          Opposite(InsertSide), g)
    /\ UNCHANGED <<count, fix, dict>>

InsertFixed ==
    /\ fix.loop = "insert"
    /\ ~InsertGoesOn
    /\ tree' = Paint(tree, tree.root, FALSE)
    /\ fix' = Idle
    /\ UNCHANGED <<count, dict>>

-----------------------------------------------------------------------------
(* fixDelete: the subtree at fix.node has one black node too few.          *)

Side == SideOf(tree, fix.node, fix.parent)

Sibling == tree.kid[Opposite(Side)][fix.parent]

Nephew(s) == tree.kid[s][Sibling]

DeleteGoesOn ==
    /\ fix.loop = "delete"
    /\ fix.node # tree.root
    /\ ~Red(tree, fix.node)
    /\ fix.parent # Nil
    /\ Sibling # Nil

(* A red sibling is rotated above the parent, and the loop goes on with    *)
(* the black one that takes its place.                                     *)
SiblingRed ==
    /\ DeleteGoesOn
    /\ Red(tree, Sibling)
    /\ tree' = Rotate(Paint(Paint(tree, Sibling, FALSE), fix.parent, TRUE),
                      Side, fix.parent)
    /\ UNCHANGED <<count, fix, dict>>

BlackNephews == \A s \in Sides : ~Red(tree, Nephew(s))

(* A black sibling with black children gives up its black; the parent is   *)
(* then one short.                                                         *)
SiblingBlack ==
    /\ DeleteGoesOn
    /\ ~Red(tree, Sibling)
    /\ BlackNephews
    /\ tree' = Paint(tree, Sibling, TRUE)
    /\ fix' = [fix EXCEPT !.node = fix.parent, !.parent = tree.up[fix.parent]]
    /\ UNCHANGED <<count, dict>>

(* A black sibling whose only red child is on the near side is turned so   *)
(* that it has one on the far side.                                        *)
TurnSibling ==
    /\ DeleteGoesOn
    /\ ~Red(tree, Sibling)
    /\ Red(tree, Nephew(Side))
    /\ ~Red(tree, Nephew(Opposite(Side)))
    /\ tree' = Rotate(Paint(Paint(tree, Nephew(Side), FALSE), Sibling, TRUE),
                      Opposite(Side), Sibling)
    /\ UNCHANGED <<count, fix, dict>>

(* A black sibling with a red far child: a rotation gives the short side   *)
(* one black node more, and the loop ends.                                 *)
RotateParent ==
    /\ DeleteGoesOn
    /\ ~Red(tree, Sibling)
    /\ Red(tree, Nephew(Opposite(Side)))
    /\ LET painted == [tree EXCEPT !.red[Sibling] = tree.red[fix.parent],
                                   !.red[Nephew(Opposite(Side))] = FALSE,
                                   !.red[fix.parent] = FALSE]
       IN  tree' = Rotate(painted, Side, fix.parent)
    /\ fix' = [fix EXCEPT !.node = tree'.root]
    /\ UNCHANGED <<count, dict>>

DeleteFixed ==
    /\ fix.loop = "delete"
    /\ ~DeleteGoesOn
    /\ tree' = Paint(tree, fix.node, FALSE)
    /\ fix' = Idle
    /\ UNCHANGED <<count, dict>>

-----------------------------------------------------------------------------
Rebalance ==
    \/ RecolourUncle \/ Straighten \/ RotateGrandparent \/ InsertFixed
    \/ SiblingRed \/ SiblingBlack \/ TurnSibling \/ RotateParent
    \/ DeleteFixed

Next ==
    \/ \E k \in Keys : \E v \in ValuesOf[k] : Update(k, v) \/ Insert(k, v)
    \/ \E k \in Keys : Delete(k)
    \/ Clear
    \/ Rebalance

Spec == Init /\ [][Next]_vars

-----------------------------------------------------------------------------
(* Properties *)

(* Every variable has its type. *)
TypeOK ==
    /\ tree \in Tree
    /\ count \in Nat
    /\ fix \in [loop : {"none", "insert", "delete"}, node : Node, parent : Node]
    /\ dict \in [Keys -> Values \cup {Nil}]

Present == {k \in Keys : dict[k] # Nil}

(* s lists the keys S in order, each once. *)
InOrder(s, S) ==
    /\ \A i, j \in DOMAIN s : i < j => s[i] < s[j]
    /\ {s[i] : i \in DOMAIN s} = S

(* Whatever was inserted, replaced and removed, and even in the middle of  *)
(* a rebalancing, get() finds the last value set and entries() lists       *)
(* exactly the present keys in order, count of them.                       *)
FindsAll ==
    /\ \A k \in Keys : Get(tree, k) = dict[k]
    /\ InOrder(Entries(tree), Present)
    /\ count = Len(Entries(tree))

(* range() prunes subtrees without losing a key of the range, at any       *)
(* bounds, in order.                                                       *)
RangeRight ==
    \A start, end \in Keys :
        InOrder(RangeOf(tree, start, end),
                {k \in Present : start <= k /\ k <= end})

(* Parents and children agree: rotations and transplants, which navigate   *)
(* by the parent, never leave a stale link.                                *)
LinksAgree ==
    /\ tree.root # Nil => tree.up[tree.root] = Nil
    /\ \A n \in Present, s \in Sides :
          tree.kid[s][n] # Nil => tree.up[tree.kid[s][n]] = n
    /\ \A n \in Present : tree.up[n] = Nil => n = tree.root

(* Black nodes on every path below n, or -1 where paths differ; the        *)
(* subtree that fixDelete works on counts one black node more.             *)
BlackHeight(n) ==
    LET Short(m) == IF fix.loop = "delete" /\ m = fix.node THEN 1 ELSE 0
        height[m \in Keys] ==
          LET Below(s) ==
                IF tree.kid[s][m] # Nil THEN height[tree.kid[s][m]]
                ELSE IF m = fix.parent /\ s = SideOf(tree, Nil, m)
                     THEN Short(Nil) ELSE 0
              left == Below("left")
          IN  IF left = -1 \/ left # Below("right") THEN -1
              ELSE left + (IF tree.red[m] THEN 0 ELSE 1) + Short(m)
    IN  IF n = Nil THEN 0 ELSE height[n]

(* The tree is balanced: every path has the same number of black nodes and *)
(* no red node a red parent.  While fixInsert runs only its current node   *)
(* may have one; while fixDelete runs only its current subtree is short.   *)
Balanced ==
    /\ BlackHeight(tree.root) # -1
    /\ \A n \in Present :
          Red(tree, n) /\ Red(tree, tree.up[n]) =>
             \/ fix.loop = "insert" /\ n = fix.node
             \/ fix.loop = "delete" /\ fix.node \in {n, tree.up[n]}
    /\ fix = Idle => ~Red(tree, tree.root)
=============================================================================
