--------------------------- MODULE RbTreeTemplate ---------------------------
(***************************************************************************)
(* rbtree_cpp.h: the class template RBTree, on the trees of RbTree.  It    *)
(* differs from rbtree.c in the order of equal keys (to the right), the    *)
(* search, the traversals, who owns a node, and the destruction; like      *)
(* rbtree.c it writes every case twice, and the side is a parameter here.  *)
(*                                                                         *)
(* buffer_malloc calls members that RBTNode does not have: no build can    *)
(* instantiate it, and it is left out.  buffer_free is called with the     *)
(* tree's own root.                                                        *)
(***************************************************************************)
EXTENDS RbTree

CONSTANT MaxDetached   \* nodes that buffer_free takes out (bound)

VARIABLES
  detached,  \* nodes that buffer_free took out: never deleted
  over       \* the destructor has run

templateVars == <<tree, inside, detached, over>>

TemplateInit == Init /\ detached = {} /\ over = FALSE

leftRotate(T, x) ==
  LET y == T.child["right"][x]
      T1 == SetParent(SetChild(T, x, "right", T.child["left"][y]), T.child["left"][y], x)
      T2 == Relink(SetParent(T1, y, T.parent[x]), T.parent[x], x, y)
  IN SetParent(SetChild(T2, y, "left", x), x, y)

rightRotate(T, y) ==
  LET x == T.child["left"][y]
      T1 == SetParent(SetChild(T, y, "left", T.child["right"][x]), T.child["right"][x], y)
      T2 == Relink(SetParent(T1, x, T.parent[y]), T.parent[y], y, x)
  IN SetParent(SetChild(T2, x, "right", y), y, x)

Turn(T, n, side) == IF side = "left" THEN leftRotate(T, n) ELSE rightRotate(T, n)

\* A red uncle passes the red up; otherwise an inner node is turned outwards
\* and its grandparent the other way.
RECURSIVE insertFixUp(_, _)
insertFixUp(T, n) ==
  LET p == T.parent[n]
      g == T.parent[p]
      side == SideOf(T, p, g)
      uncle == T.child[Other(side)][g]
      inner == T.child[Other(side)][p] = n
      T1 == IF inner THEN Turn(T, p, side) ELSE T
      top == IF inner THEN n ELSE p
  IN IF p = NULL \/ ~T.red[p] THEN Paint(T, T.root, FALSE)
     ELSE IF ~Black(T, uncle)
          THEN insertFixUp(Paint(Paint(Paint(T, uncle, FALSE), p, FALSE), g, TRUE), g)
          ELSE insertFixUp(Turn(Paint(Paint(T1, top, FALSE), g, TRUE), g, Other(side)),
                           IF inner THEN p ELSE n)

\* n, possibly NULL, has one black node too few above it: cases 1 to 4.
RECURSIVE removeFixUp(_, _, _)
removeFixUp(T, n, p) ==
  LET side == SideOf(T, n, p)
      far == Other(side)
      T1 == IF T.red[T.child[far][p]]
            THEN Turn(Paint(Paint(T, T.child[far][p], FALSE), p, TRUE), p, side) ELSE T
      w == T1.child[far][p]
      T3 == IF Black(T1, T1.child[far][w])
            THEN Turn(Paint(Paint(T1, T1.child[side][w], FALSE), w, TRUE), w, far) ELSE T1
      v == T3.child[far][p]
      T4 == Paint(Paint(Paint(T3, v, T3.red[p]), p, FALSE), T3.child[far][v], FALSE)
      T5 == Turn(T4, p, side)
  IN IF ~Black(T, n) \/ n = T.root THEN Paint(T, n, FALSE)
     ELSE IF \A s \in Sides : Black(T1, T1.child[s][w])
          THEN removeFixUp(Paint(T1, w, TRUE), p, T1.parent[p])
          ELSE Paint(T5, T5.root, FALSE)

\* The loop of insert: where the new node goes, an equal key to the right.
RECURSIVE Leaf(_, _, _)
Leaf(T, n, at) ==
  LET side == IF Key[n] < Key[at] THEN "left" ELSE "right"
  IN IF T.child[side][at] # NULL THEN Leaf(T, n, T.child[side][at]) ELSE <<at, side>>

\* insert(root, node).
insertNode(T, n) ==
  LET at == IF T.root = NULL THEN <<NULL, "left">> ELSE Leaf(T, n, T.root)
      T1 == IF T.root = NULL THEN [T EXCEPT !.root = n] ELSE SetChild(T, at[1], at[2], n)
  IN insertFixUp([T1 EXCEPT !.parent[n] = at[1], !.red[n] = TRUE], n)

\* remove(root, node) without the delete: a node with two children leaves its
\* place to its successor y.
removeNode(T, n) ==
  LET l == T.child["left"][n]
      r == T.child["right"][n]
      y == Descend(T, r, "left")
      c == T.child["right"][y]
      p == IF y = r THEN y ELSE T.parent[y]
      T1 == IF y = r THEN T
            ELSE SetParent(SetChild(SetChild(SetParent(T, c, p), p, "left", c), y, "right", r), r, y)
      T2 == Relink(SetParent(SetChild(T1, y, "left", l), l, y), T.parent[n], n, y)
      T3 == Paint(SetParent(T2, y, T.parent[n]), y, T.red[n])
      only == IF l # NULL THEN l ELSE r
      T4 == Relink(SetParent(T, only, T.parent[n]), T.parent[n], n, only)
  IN IF l # NULL /\ r # NULL
     THEN IF T.red[y] THEN T3 ELSE removeFixUp(T3, c, p)
     ELSE IF T.red[n] THEN T4 ELSE removeFixUp(T4, only, T.parent[n])

\* The private overloads of both searches, which remove uses; the public
\* search(key) and iterativeSearch(key) drop what these return and return
\* nothing (rbtree_cpp.h:247, :270), so they are no operation of the tree.
RECURSIVE search(_, _, _)
search(T, n, k) ==
  IF n = NULL \/ Key[n] = k THEN n
  ELSE search(T, T.child[IF k < Key[n] THEN "left" ELSE "right"][n], k)

\* The nodes the loop of iterativeSearch passes; it returns where it stops.
iterativeSearch(T, n, k) ==
  LET path[i \in 0 .. N] ==
        IF i = 0 THEN n
        ELSE LET x == path[i - 1] IN
             IF x = NULL \/ Key[x] = k THEN x
             ELSE IF k < Key[x] THEN T.child["left"][x] ELSE T.child["right"][x]
  IN path[N]

minimum(T, n) == IF n = NULL THEN NULL ELSE Descend(T, n, "left")
maximum(T, n) == IF n = NULL THEN NULL ELSE Descend(T, n, "right")
\* The public ones return a key: 0 for an empty tree.
minimumKey(T) == IF minimum(T, T.root) = NULL THEN 0 ELSE Key[minimum(T, T.root)]
maximumKey(T) == IF maximum(T, T.root) = NULL THEN 0 ELSE Key[maximum(T, T.root)]

successor(T, x) == IF T.child["right"][x] # NULL THEN minimum(T, T.child["right"][x]) ELSE Ascend(T, x, "right")
predecessor(T, x) == IF T.child["left"][x] # NULL THEN maximum(T, T.child["left"][x]) ELSE Ascend(T, x, "left")

RECURSIVE preOrder(_, _)
preOrder(T, n) == IF n = NULL THEN <<>> ELSE <<n>> \o preOrder(T, T.child["left"][n]) \o preOrder(T, T.child["right"][n])
RECURSIVE inOrder(_, _)
inOrder(T, n) == IF n = NULL THEN <<>> ELSE inOrder(T, T.child["left"][n]) \o <<n>> \o inOrder(T, T.child["right"][n])
RECURSIVE postOrder(_, _)
postOrder(T, n) == IF n = NULL THEN <<>> ELSE postOrder(T, T.child["left"][n]) \o postOrder(T, T.child["right"][n]) \o <<n>>

\* print follows preOrder: each node with the key of its parent and the side.
RECURSIVE print(_, _, _, _)
print(T, n, k, direction) ==
  IF n = NULL THEN <<>>
  ELSE <<[key |-> Key[n], red |-> T.red[n], of |-> k, is |-> direction]>>
       \o print(T, T.child["left"][n], Key[n], "left") \o print(T, T.child["right"][n], Key[n], "right")

\* destroy returns the call for the left child, or for the right one: it comes
\* to one leaf, deletes it and clears the pointer to it.
RECURSIVE destroyed(_, _)
destroyed(T, n) ==
  IF T.child["left"][n] # NULL THEN destroyed(T, T.child["left"][n])
  ELSE IF T.child["right"][n] # NULL THEN destroyed(T, T.child["right"][n]) ELSE n

-----------------------------------------------------------------------------
\* insert(key): a new node.
insert(n) ==
  /\ ~over /\ n \notin inside \cup detached
  /\ tree' = insertNode(tree, n)
  /\ inside' = inside \cup {n}
  /\ UNCHANGED <<detached, over>>

\* remove(key): the node that the search finds goes and is deleted.
remove(k) ==
  /\ ~over
  /\ LET n == search(tree, tree.root, k) IN
     /\ n # NULL
     /\ tree' = Blank(removeNode(tree, n), n)
     /\ inside' = inside \ {n}
  /\ UNCHANGED <<detached, over>>

\* buffer_free: the node leaves the tree and is not deleted.
buffer_free(n) ==
  /\ ~over /\ n \in inside /\ Cardinality(detached) < MaxDetached
  /\ tree' = removeNode(tree, n)
  /\ inside' = inside \ {n} /\ detached' = detached \cup {n}
  /\ UNCHANGED over

\* The destructor.
destroy ==
  /\ ~over /\ over' = TRUE
  /\ IF tree.root = NULL THEN UNCHANGED <<tree, inside>>
     ELSE LET n == destroyed(tree, tree.root) IN
          /\ tree' = Blank(Relink(tree, tree.parent[n], n, NULL), n)
          /\ inside' = inside \ {n}
  /\ UNCHANGED detached

TemplateNext ==
  \/ \E n \in Nodes : insert(n) \/ buffer_free(n)
  \/ \E n \in Nodes : remove(Key[n])
  \/ destroy

-----------------------------------------------------------------------------
Place(s, n) == CHOOSE i \in DOMAIN s : s[i] = n

\* The three traversals visit every node once; inOrder by rising keys, as
\* successor and predecessor do from the ends, preOrder a node before and
\* postOrder after its children, and print names the parent of each.
TraversalsAgree ==
  LET in == inOrder(tree, tree.root)
      pre == preOrder(tree, tree.root)
      post == postOrder(tree, tree.root)
      shown == print(tree, tree.root, IF tree.root = NULL THEN 0 ELSE Key[tree.root], "root")
  IN /\ \A s \in {in, pre, post} : Len(s) = Cardinality(inside) /\ {s[i] : i \in DOMAIN s} = inside
     /\ \A i \in 1 .. Len(in) - 1 :
          /\ Key[in[i]] <= Key[in[i + 1]]
          /\ successor(tree, in[i]) = in[i + 1] /\ predecessor(tree, in[i + 1]) = in[i]
     /\ in # <<>> => /\ successor(tree, in[Len(in)]) = NULL /\ predecessor(tree, in[1]) = NULL
                     /\ minimumKey(tree) = Key[in[1]] /\ maximumKey(tree) = Key[in[Len(in)]]
     /\ \A n \in inside \ {tree.root} :
          /\ Place(pre, tree.parent[n]) < Place(pre, n)
          /\ Place(post, n) < Place(post, tree.parent[n])
          /\ shown[Place(pre, n)].of = Key[tree.parent[n]]

\* Both private searches find the same node, one with the key if there is any, however
\* equal keys were turned around by the rotations.
SearchesAgree ==
  \A k \in {Key[n] : n \in Nodes} :
    LET f == search(tree, tree.root, k) IN
    /\ f = iterativeSearch(tree, tree.root, k)
    /\ IF \E n \in inside : Key[n] = k THEN f \in inside /\ Key[f] = k ELSE f = NULL
=============================================================================
