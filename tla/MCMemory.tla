------------------------------ MODULE MCMemory ------------------------------
(***************************************************************************)
(* The memory manager and the data structures beside it in one run: a      *)
(* behaviour is one of the red-black tree with its pointers and colours,   *)
(* of the pool that keeps its blocks in two such trees, of the class       *)
(* template of the tree, of the list functions or of the linked queue, as  *)
(* part says; the variables of the others are at Off.                      *)
(***************************************************************************)
EXTENDS Naturals, Sequences

CONSTANTS MAX_COLUME_NUM, Sizes, WORD, MaxLists, MaxBlocks

VARIABLES
  part,
  tree, aug, inside,
  config, phase, initOk, block_len, block_total_count, block_used_count,
  free_tree, used_tree, lists, asked, created, stranded,
  detached, over,
  next, key, head1, head2, freed, call,
  data, front, rear, allocated, up, q

\* Nine nodes, three of them with equal keys.
Key == <<1, 2, 3, 3, 3, 4, 5, 6, 7>>
\* For the template, six nodes, two of them with equal keys.
TemplateKey == <<1, 2, 2, 3, 4, 5>>
\* Four list nodes, two of them with equal keys.
ListKey == <<1, 2, 2, 3>>
\* Configurations that fit, that rise or fall, that are too short or too long.
Configs == {[len |-> <<2, 5>>, count |-> <<1, 1>>],
            [len |-> <<3, 4>>, count |-> <<2, 0>>],
            [len |-> <<5, 2>>, count |-> <<1, 1>>],
            [len |-> <<2>>, count |-> <<1>>],
            [len |-> <<2, 3, 5>>, count |-> <<1, 1, 1>>]}

Tree == INSTANCE RbTree WITH N <- Len(Key)
Pool == INSTANCE MemoryPool
Template == INSTANCE RbTreeTemplate WITH
              N <- Len(TemplateKey), Key <- TemplateKey, MaxDetached <- 1
Lists == INSTANCE ListAlgorithms WITH Nodes <- 1 .. Len(ListKey), KeyOf <- ListKey
Queue == INSTANCE LinkQueue WITH Nodes <- 1 .. 4, Elems <- {"a", "b"}

ASSUME Tree!TreeAssumption /\ Pool!PoolAssumption /\ Template!TreeAssumption

treeVars == <<tree, aug, inside>>
poolVars == <<config, phase, initOk, block_len, block_total_count,
              block_used_count, free_tree, used_tree, lists, asked, created,
              stranded>>
templateVars == <<detached, over>>
listVars == <<key, head1, head2, freed, call>>
queueVars == <<data, front, rear, allocated, up, q>>
vars == <<part, treeVars, poolVars, templateVars, next, listVars, queueVars>>

Off(v) == v = "off"
NoTree == Off(tree) /\ Off(aug) /\ Off(inside)
NoPool ==
  /\ Off(config) /\ Off(phase) /\ Off(initOk) /\ Off(block_len)
  /\ Off(block_total_count) /\ Off(block_used_count)
  /\ Off(free_tree) /\ Off(used_tree) /\ Off(lists) /\ Off(asked)
  /\ Off(created) /\ Off(stranded)
NoTemplate == Off(detached) /\ Off(over)
NoList == Off(key) /\ Off(head1) /\ Off(head2) /\ Off(freed) /\ Off(call)
NoQueue ==
  Off(data) /\ Off(front) /\ Off(rear) /\ Off(allocated) /\ Off(up) /\ Off(q)

Init ==
  \/ part = "tree" /\ Tree!Init
     /\ NoPool /\ NoTemplate /\ Off(next) /\ NoList /\ NoQueue
  \/ part = "pool" /\ Pool!Init
     /\ NoTree /\ NoTemplate /\ Off(next) /\ NoList /\ NoQueue
  \/ part = "template" /\ Template!TemplateInit
     /\ NoPool /\ Off(next) /\ NoList /\ NoQueue
  \/ part = "lists" /\ Lists!Init
     /\ NoTree /\ NoPool /\ NoTemplate /\ NoQueue
  \/ part = "queue" /\ Queue!Init
     /\ NoTree /\ NoPool /\ NoTemplate /\ NoList

Next ==
  /\ UNCHANGED part
  /\ \/ part = "tree" /\ Tree!Next
        /\ UNCHANGED <<poolVars, templateVars, next, listVars, queueVars>>
     \/ part = "pool" /\ Pool!Next
        /\ UNCHANGED <<treeVars, templateVars, next, listVars, queueVars>>
     \/ part = "template" /\ Template!TemplateNext
        /\ UNCHANGED <<aug, poolVars, next, listVars, queueVars>>
     \/ part = "lists" /\ Lists!Next
        /\ UNCHANGED <<treeVars, poolVars, templateVars, queueVars>>
     \/ part = "queue" /\ Queue!Next
        /\ UNCHANGED <<treeVars, poolVars, templateVars, listVars>>

Spec == Init /\ [][Next]_vars

-----------------------------------------------------------------------------
\* The template keeps the same promises with equal keys to the right, its three
\* traversals, its two private searches and successor and predecessor agree with each
\* other, until its destructor has run (rbtree_cpp.h:174-367, :557-821).  The
\* public searches return nothing (:247, :270) and nothing is said of them.
TemplateSound ==
  /\ Template!HoldsWhatWentIn /\ Template!LinksAgree
  /\ ~over => Template!RedBlack
  /\ Template!TraversalsAgree /\ Template!SearchesAgree

\* After any sequence of insertions, erasures and replacements, equal keys
\* included: the tree holds the nodes that went in and did not come out;
\* parents and children agree; the colours bound the height, on
\* which the pool's stack of 100 for a traversal relies; rb_next visits every
\* node once in the order of the keys and rb_prev in the opposite one; and the
\* augmentation is right in every node although only one path and its
\* neighbours are updated (rbtree.c:27-354, memory_pool.c:39).  The class
\* template of the same tree is sound in its way.
TreeSound ==
  /\ part = "tree" =>
       /\ Tree!TypeOK /\ Tree!HoldsWhatWentIn /\ Tree!LinksAgree
       /\ Tree!RedBlack /\ Tree!WalkIsSorted /\ Tree!AugmentIsExact
  /\ part = "template" => TemplateSound

\* The counts of a sound pool describe its trees: used and free blocks of each
\* length, through every allocation, growth, failed malloc and release; and
\* only a pool that is not sound divides by zero (memory_pool.c:260, :310).
CountsDescribeTrees ==
  part = "pool" => Pool!TypeOK /\ Pool!CountsDescribeTrees /\ Pool!CrashOnlyIfMisconfigured

\* On every heap of four nodes on which a list function is defined, circles
\* and common tails included, it returns what its heading says, and reversing,
\* the recursive merge and deleting from a list of several nodes lose no other
\* node (the merge loop and a list of one node are excepted); the linked queue is first in first
\* out, its rear is its last node, and it leaks nothing through any sequence
\* of calls (algorithms_datastructures.c:39-584).
ListsAsSpecified ==
  /\ part = "lists" => Lists!QueriesAsSpecified /\ Lists!ChangesAsSpecified
  /\ part = "queue" => Queue!QueueIsFifo

\* Through calls that fail half-way and configurations that do not fit, every
\* block ever allocated is in one of the two trees, and the used ones are
\* exactly those of the lists handed out and those that failed calls took and
\* forgot: a list given back leaves nothing behind (memory_pool.c:287-440).
BlocksAccounted == part = "pool" => Pool!BlocksAccounted

\* buffer_malloc gives less than it was asked for by at most half of the
\* smallest block, and never more than half a block too much
\* (memory_pool.c:312).
ShortByHalfABlock == part = "pool" => Pool!ShortByHalfABlock
=============================================================================
