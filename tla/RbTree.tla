------------------------------- MODULE RbTree -------------------------------
(***************************************************************************)
(* The red-black tree of MemManager/rbtree.c as the memory pool uses it:   *)
(* nodes linked by pointers, equal keys allowed (an equal key goes left).  *)
(* The code writes every case twice, for the left and for the right side;  *)
(* here the side is a parameter.  A tree is a record of the root and of    *)
(* the fields of every node; the C functions are operators on trees.  The  *)
(* augmentation callback is a subtree count.                               *)
(***************************************************************************)
EXTENDS Integers, Sequences, FiniteSets

CONSTANTS
  N,    \* number of nodes, named 1 .. N (bound)
  Key   \* Key[n] is the key of node n

Nodes == 1 .. N
NULL == 0
Sides == {"left", "right"}

\* What the constants are.
TreeAssumption == N \in Nat /\ Key \in Seq(Nat) /\ Len(Key) = N

VARIABLES
  tree,   \* the tree
  aug,    \* what the augmentation callback stored in each node
  inside  \* history: the nodes that were put in and not taken out

vars == <<tree, aug, inside>>

Other(side) == IF side = "left" THEN "right" ELSE "left"
SideOf(T, n, p) == IF T.child["left"][p] = n THEN "left" ELSE "right"
Black(T, n) == n = NULL \/ ~T.red[n]

SetChild(T, p, side, n) == [T EXCEPT !.child[side][p] = n]
SetParent(T, n, p) == IF n = NULL THEN T ELSE [T EXCEPT !.parent[n] = p]
Paint(T, n, red) == IF n = NULL THEN T ELSE [T EXCEPT !.red[n] = red]

\* Let n take the place of m below p, or at the root.
\* (rb_erase, the rotations and rb_replace_node each spell this out.)
Relink(T, p, m, n) == IF p = NULL THEN [T EXCEPT !.root = n] ELSE SetChild(T, p, SideOf(T, m, p), n)

Init ==
  /\ tree = [root |-> NULL,
             child |-> [s \in Sides |-> [n \in Nodes |-> NULL]],
             parent |-> [n \in Nodes |-> NULL],
             red |-> [n \in Nodes |-> FALSE]]
  /\ aug = [n \in Nodes |-> 0]
  /\ inside = {}

-----------------------------------------------------------------------------
\* __rb_rotate_left and __rb_rotate_right: the child on the other side rises.
Rotate(T, n, side) ==
  LET r == T.child[Other(side)][n]
      mid == T.child[side][r]
      T1 == SetParent(SetChild(T, n, Other(side), mid), mid, n)
      T2 == Relink(SetChild(T1, r, side, n), T.parent[n], n, r)
  IN SetParent(SetParent(T2, r, T.parent[n]), n, r)

RECURSIVE InsertColor(_, _)
InsertColor(T, n) ==
  LET p == T.parent[n] IN
  IF p = NULL \/ Black(T, p) THEN Paint(T, T.root, FALSE)
  ELSE LET g == T.parent[p]
           side == SideOf(T, p, g)
           uncle == T.child[Other(side)][g]
       IN IF ~Black(T, uncle)
          THEN InsertColor(Paint(Paint(Paint(T, uncle, FALSE), p, FALSE), g, TRUE), g)
          ELSE LET inner == T.child[Other(side)][p] = n
                   T1 == IF inner THEN Rotate(T, p, side) ELSE T
                   top == IF inner THEN n ELSE p
                   low == IF inner THEN p ELSE n
               IN InsertColor(Rotate(Paint(Paint(T1, top, FALSE), g, TRUE), g, Other(side)), low)

rb_insert_color(T, n) == InsertColor(T, n)

\* The last case of __rb_erase_color, the sibling o having a red child; its
\* far child is made the red one first.
EraseStep(T, n, p, side) ==
  LET far == Other(side)
      o1 == T.child[far][p]
      T1 == IF Black(T, T.child[far][o1])
            THEN Rotate(Paint(Paint(T, T.child[side][o1], FALSE), o1, TRUE), o1, far)
            ELSE T
      o == T1.child[far][p]
      T2 == Paint(Paint(Paint(T1, o, T1.red[p]), p, FALSE), T1.child[far][o], FALSE)
      T3 == Rotate(T2, p, side)
  IN [T |-> T3, n |-> T3.root]

RECURSIVE EraseColor(_, _, _)
EraseColor(T, n, p) ==
  IF ~Black(T, n) \/ n = T.root THEN Paint(T, n, FALSE)
  ELSE LET side == SideOf(T, n, p)
           far == Other(side)
           o1 == T.child[far][p]
           T1 == IF T.red[o1] THEN Rotate(Paint(Paint(T, o1, FALSE), p, TRUE), p, side) ELSE T
           o == T1.child[far][p]
       IN IF Black(T1, T1.child["left"][o]) /\ Black(T1, T1.child["right"][o])
          THEN EraseColor(Paint(T1, o, TRUE), p, T1.parent[p])
          ELSE LET s == EraseStep(T1, n, p, side) IN Paint(s.T, s.n, FALSE)

rb_erase_color(T, n, p) == EraseColor(T, n, p)

RECURSIVE Descend(_, _, _)
Descend(T, n, side) == IF T.child[side][n] = NULL THEN n ELSE Descend(T, T.child[side][n], side)

\* rb_erase of a node with two children: its successor y takes its place.
EraseInner(T, n) ==
  LET y == Descend(T, T.child["right"][n], "left")
      c == T.child["right"][y]
      below == T.parent[y] = n
      p == IF below THEN y ELSE T.parent[y]
      T1 == Relink(T, T.parent[n], n, y)
      T2 == IF below THEN T1
            ELSE SetParent(SetChild(SetChild(SetParent(T1, c, p), p, "left", c),
                                    y, "right", T.child["right"][n]),
                           T.child["right"][n], y)
      T3 == Paint(SetParent(T2, y, T.parent[n]), y, T.red[n])
      T4 == SetParent(SetChild(T3, y, "left", T.child["left"][n]), T.child["left"][n], y)
  IN IF T.red[y] THEN T4 ELSE rb_erase_color(T4, c, p)

\* rb_erase of a node with at most one child.
EraseOuter(T, n) ==
  LET c == IF T.child["left"][n] = NULL THEN T.child["right"][n] ELSE T.child["left"][n]
      p == T.parent[n]
      T1 == Relink(SetParent(T, c, p), p, n, c)
  IN IF T.red[n] THEN T1 ELSE rb_erase_color(T1, c, p)

rb_erase(T, n) ==
  IF T.child["left"][n] # NULL /\ T.child["right"][n] # NULL THEN EraseInner(T, n) ELSE EraseOuter(T, n)

\* rb_first and rb_last.
rb_end(T, side) == IF T.root = NULL THEN NULL ELSE Descend(T, T.root, side)

RECURSIVE Ascend(_, _, _)
Ascend(T, n, side) ==
  LET p == T.parent[n] IN
  IF p # NULL /\ n = T.child[side][p] THEN Ascend(T, p, side) ELSE p

\* rb_next (side right) and rb_prev (side left).
rb_step(T, n, side) ==
  IF T.child[side][n] # NULL THEN Descend(T, T.child[side][n], Other(side)) ELSE Ascend(T, n, side)

rb_replace_node(T, victim, new) ==
  LET T1 == Relink(T, T.parent[victim], victim, new)
      T2 == SetParent(SetParent(T1, T.child["left"][victim], new), T.child["right"][victim], new)
      T3 == Paint([T2 EXCEPT !.parent[new] = T.parent[victim]], new, T.red[victim])
  IN [T3 EXCEPT !.child = [s \in Sides |-> [T3.child[s] EXCEPT ![new] = T.child[s][victim]]]]

-----------------------------------------------------------------------------
\* The callback, here a count: the node counts its subtree from the counts of its children.
Count(T, a, n) ==
  LET c(s) == IF T.child[s][n] = NULL THEN 0 ELSE a[T.child[s][n]]
  IN [a EXCEPT ![n] = 1 + c("left") + c("right")]

\* rb_augment_path: the node, its sibling, and so on to the root.
RECURSIVE rb_augment_path(_, _, _)
rb_augment_path(T, a, n) ==
  LET a1 == Count(T, a, n)
      p == T.parent[n]
      other == IF n = T.child["left"][p] /\ T.child["right"][p] # NULL
               THEN T.child["right"][p] ELSE T.child["left"][p]
  IN IF p = NULL THEN a1
     ELSE rb_augment_path(T, IF other = NULL THEN a1 ELSE Count(T, a1, other), p)

\* rb_augment_insert starts at a child the rebalancing may have put below n.
rb_augment_insert(T, a, n) ==
  rb_augment_path(T, a,
    CASE T.child["left"][n] # NULL -> T.child["left"][n]
      [] T.child["left"][n] = NULL /\ T.child["right"][n] # NULL -> T.child["right"][n]
      [] OTHER -> n)

\* Mutant of rb_augment_erase_begin: the parent, whatever hangs below.
AugmentEraseParent(T, n) == T.parent[n]

\* rb_augment_erase_begin: the deepest node on the path of the rebalancing.
rb_augment_erase_begin(T, n) ==
  LET l == T.child["left"][n]
      r == T.child["right"][n]
      next == rb_step(T, n, "right")
  IN CASE l = NULL /\ r = NULL -> T.parent[n]
       [] r = NULL /\ l # NULL -> l
       [] l = NULL /\ r # NULL -> r
       [] OTHER -> IF T.child["right"][next] # NULL THEN T.child["right"][next]
                   ELSE IF T.parent[next] # n THEN T.parent[next] ELSE next

rb_augment_erase_end(T, a, n) == IF n = NULL THEN a ELSE rb_augment_path(T, a, n)

-----------------------------------------------------------------------------
RECURSIVE SubtreeOf(_, _)
SubtreeOf(T, n) ==
  IF n = NULL THEN {}
  ELSE {n} \cup SubtreeOf(T, T.child["left"][n]) \cup SubtreeOf(T, T.child["right"][n])
Members == SubtreeOf(tree, tree.root)

\* insertMemBlockNode: where the new node goes, then rb_link_node.
RECURSIVE LinkAt(_, _, _)
LinkAt(T, n, at) ==
  LET side == IF Key[n] <= Key[at] THEN "left" ELSE "right"
  IN IF T.child[side][at] # NULL THEN LinkAt(T, n, T.child[side][at]) ELSE <<at, side>>

rb_link_node(T, n) ==
  LET at == IF T.root = NULL THEN <<NULL, "left">> ELSE LinkAt(T, n, T.root)
      T1 == IF T.root = NULL THEN [T EXCEPT !.root = n] ELSE SetChild(T, at[1], at[2], n)
      T2 == SetChild(SetChild(T1, n, "left", NULL), n, "right", NULL)
  IN [T2 EXCEPT !.parent[n] = at[1], !.red[n] = TRUE]

Insert(n) ==
  /\ n \notin inside
  /\ tree' = rb_insert_color(rb_link_node(tree, n), n)
  /\ aug' = rb_augment_insert(tree', aug, n)
  /\ inside' = inside \cup {n}

\* A node out of the tree keeps its fields in C; rb_link_node and
\* rb_replace_node overwrite them all, so the model blanks them.
Blank(T, n) ==
  [T EXCEPT !.child = [s \in Sides |-> [T.child[s] EXCEPT ![n] = NULL]],
            !.parent[n] = NULL, !.red[n] = FALSE]

Erase(n) ==
  /\ n \in inside
  /\ tree' = Blank(rb_erase(tree, n), n)
  /\ aug' = [rb_augment_erase_end(tree', aug, rb_augment_erase_begin(tree, n)) EXCEPT ![n] = 0]
  /\ inside' = inside \ {n}

Replace(victim, new) ==
  /\ victim \in inside /\ new \notin inside
  /\ Key[victim] = Key[new]
  /\ tree' = Blank(rb_replace_node(tree, victim, new), victim)
  /\ aug' = [aug EXCEPT ![new] = aug[victim], ![victim] = 0]
  /\ inside' = (inside \ {victim}) \cup {new}

Next ==
  \/ \E n \in Nodes : Insert(n) \/ Erase(n)
  \/ \E v, n \in Nodes : Replace(v, n)

Spec == Init /\ [][Next]_vars

-----------------------------------------------------------------------------
\* Types.
TypeOK ==
  /\ tree.root \in Nodes \cup {NULL}
  /\ tree.child \in [Sides -> [Nodes -> Nodes \cup {NULL}]]
  /\ tree.parent \in [Nodes -> Nodes \cup {NULL}]
  /\ tree.red \in [Nodes -> BOOLEAN]
  /\ aug \in [Nodes -> 0 .. N]
  /\ inside \subseteq Nodes

\* The tree holds exactly the nodes that were put in and not taken out.
HoldsWhatWentIn == Members = inside

\* Parents and children agree for the nodes of the tree, the root having no
\* parent, after any sequence of insertions, erasures and replacements.
LinksAgree ==
  /\ tree.root # NULL => tree.parent[tree.root] = NULL
  /\ \A n \in Members, s \in Sides :
       tree.child[s][n] # NULL => tree.parent[tree.child[s][n]] = n

RECURSIVE BlackHeights(_, _)
BlackHeights(T, n) ==
  IF n = NULL THEN {0}
  ELSE {h + (IF T.red[n] THEN 0 ELSE 1) : h \in UNION {BlackHeights(T, T.child[s][n]) : s \in Sides}}

\* The colours bound the height: a black root, no red node below a red one,
\* as many black nodes on every path (the pool's traversals keep a stack of
\* 100, memory_pool.c:39).
RedBlack ==
  /\ Black(tree, tree.root)
  /\ \A n \in Members : tree.red[n] => \A s \in Sides : Black(tree, tree.child[s][n])
  /\ Cardinality(BlackHeights(tree, tree.root)) = 1

RECURSIVE Walk(_, _, _)
Walk(T, n, side) == IF n = NULL THEN <<>> ELSE <<n>> \o Walk(T, rb_step(T, n, side), side)

\* From rb_first, rb_next visits every node once in the order of the keys;
\* from rb_last, rb_prev visits them in the opposite order.
WalkIsSorted ==
  LET up == Walk(tree, rb_end(tree, "left"), "right")
      down == Walk(tree, rb_end(tree, "right"), "left")
  IN /\ {up[i] : i \in DOMAIN up} = Members
     /\ Len(up) = Cardinality(Members)
     /\ \A i \in 1 .. Len(up) - 1 : Key[up[i]] <= Key[up[i + 1]]
     /\ down = [i \in 1 .. Len(up) |-> up[Len(up) + 1 - i]]

\* The stored augmentation is right for every node, although an insertion
\* or an erasure updates one path and its neighbours only (rbtree.c:288-354).
AugmentIsExact ==
  \A n \in Members : aug[n] = Cardinality(SubtreeOf(tree, n))
=============================================================================
