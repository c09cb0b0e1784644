--------------------------- MODULE ListAlgorithms ---------------------------
(***************************************************************************)
(* algorithms_datastructures.c, 1 to 11: functions on singly linked lists, *)
(* each called once on every heap of a few nodes, with two lists in it     *)
(* that may share nodes or run into a circle where the function allows it. *)
(* What a call gets and gives is kept in call, as the sequences of nodes   *)
(* and keys along the lists, and compared with a reference definition.     *)
(***************************************************************************)
EXTENDS Integers, Sequences, FiniteSets, SequencesExt

CONSTANTS
  Nodes,  \* addresses of list nodes, a set of positive numbers
  KeyOf   \* the key of each at first

NULL == 0
Ptr == Nodes \cup {NULL}

VARIABLES
  next, key,     \* m_pNext and m_nKey
  head1, head2,  \* the caller's two heads
  freed,         \* nodes given to delete
  call           \* the last call: its name, the lists before, what came back

vars == <<next, key, head1, head2, freed, call>>

None == [op |-> "none"]

Init ==
  /\ next \in [Nodes -> Ptr] /\ head1 \in Ptr /\ head2 \in Ptr
  /\ key = KeyOf /\ freed = {} /\ call = None

-----------------------------------------------------------------------------
\* What a reader sees: n with i steps behind it, NULL past the end.
Steps(nx, n, i) ==
  LET at[j \in 0 .. i] == IF j = 0 THEN n ELSE IF at[j - 1] = NULL THEN NULL ELSE nx[at[j - 1]]
  IN at[i]
Size == Cardinality(Nodes)
Ends(nx, n) == Steps(nx, n, Size) = NULL
Length(nx, n) == CHOOSE i \in 0 .. Size : Steps(nx, n, i) = NULL /\ \A j \in 0 .. i - 1 : Steps(nx, n, j) # NULL
ListOf(nx, n) == [i \in 1 .. Length(nx, n) |-> Steps(nx, n, i - 1)]
Keys(ky, s) == [i \in DOMAIN s |-> ky[s[i]]]
Reach(nx, n) == {Steps(nx, n, i) : i \in 0 .. Size} \ {NULL}
Sorted(s) == \A i \in 1 .. Len(s) - 1 : s[i] <= s[i + 1]

-----------------------------------------------------------------------------
\* 1.
RECURSIVE CountFrom(_, _, _)
CountFrom(nx, pCurrent, nLength) == IF pCurrent = NULL THEN nLength ELSE CountFrom(nx, nx[pCurrent], nLength + 1)
GetListLength(nx, pHead) == IF pHead = NULL THEN 0 ELSE CountFrom(nx, pHead, 0)

\* 2. The heap and the head after the loop.
RECURSIVE ReverseFrom(_, _, _)
ReverseFrom(nx, pCurrent, pReversedHead) ==
  IF pCurrent = NULL THEN [next |-> nx, head |-> pReversedHead]
  ELSE ReverseFrom([nx EXCEPT ![pCurrent] = pReversedHead], nx[pCurrent], pCurrent)
ReverseList(nx, pHead) ==
  IF pHead = NULL \/ nx[pHead] = NULL THEN [next |-> nx, head |-> pHead] ELSE ReverseFrom(nx, pHead, NULL)

\* Two pointers move together until the first is at the last node.
RECURSIVE Together(_, _, _)
Together(nx, pAhead, pBehind) == IF nx[pAhead] = NULL THEN pBehind ELSE Together(nx, nx[pAhead], nx[pBehind])

\* The loop that moves the first pointer ahead: where it stops and what is left of k.
RECURSIVE Ahead(_, _, _)
Ahead(nx, pAhead, k) == IF k > 1 /\ pAhead # NULL THEN Ahead(nx, nx[pAhead], k - 1) ELSE <<pAhead, k>>

\* 3.
RGetKthNode(nx, pHead, k) ==
  IF k = 0 \/ pHead = NULL THEN NULL
  ELSE LET a == Ahead(nx, pHead, k)
       IN IF a[2] > 1 \/ a[1] = NULL THEN NULL ELSE Together(nx, a[1], pHead)

\* 4.
RECURSIVE MiddleFrom(_, _, _)
MiddleFrom(nx, pAhead, pBehind) ==
  IF nx[pAhead] = NULL THEN pBehind
  ELSE LET a == nx[pAhead] IN MiddleFrom(nx, IF nx[a] # NULL THEN nx[a] ELSE a, nx[pBehind])
GetMiddleNode(nx, pHead) == IF pHead = NULL \/ nx[pHead] = NULL THEN pHead ELSE MiddleFrom(nx, pHead, pHead)

\* 5. With a stack, and recursively: the nodes in the order of printing.
RECURSIVE Pushed(_, _, _)
Pushed(nx, pNode, s) == IF pNode = NULL THEN s ELSE Pushed(nx, nx[pNode], <<pNode>> \o s)
RPrintStack(nx, pHead) == Pushed(nx, pHead, <<>>)
RECURSIVE RPrintList(_, _)
RPrintList(nx, pHead) == IF pHead = NULL THEN <<>> ELSE Append(RPrintList(nx, nx[pHead]), pHead)

\* 6. The loop: pTemp is the last node merged.
RECURSIVE MergeFrom(_, _, _, _)
MergeFrom(nx, h1, h2, pTemp) ==
  IF h1 # NULL /\ h2 # NULL
  THEN IF key[h1] < key[h2]
       THEN MergeFrom([nx EXCEPT ![pTemp] = h1, ![h1] = NULL], nx[h1], h2, h1)
       ELSE MergeFrom([nx EXCEPT ![pTemp] = h2, ![h2] = NULL], h1, nx[h2], h2)
  ELSE [nx EXCEPT ![pTemp] = IF h1 # NULL THEN h1 ELSE IF h2 # NULL THEN h2 ELSE nx[pTemp]]
\* The first node's link is cleared before it is followed.
MergeLoop(nx, h1, h2) ==
  IF h1 = NULL THEN [next |-> nx, head |-> h2]
  ELSE IF h2 = NULL THEN [next |-> nx, head |-> h1]
  ELSE LET first == IF key[h1] < key[h2] THEN h1 ELSE h2
           n1 == [nx EXCEPT ![first] = NULL]
       IN [next |-> MergeFrom(n1, IF first = h1 THEN n1[h1] ELSE h1, IF first = h1 THEN h2 ELSE n1[h2], first),
           head |-> first]

RECURSIVE MergeSortedList(_, _, _)
MergeSortedList(nx, h1, h2) ==
  IF h1 = NULL THEN [next |-> nx, head |-> h2]
  ELSE IF h2 = NULL THEN [next |-> nx, head |-> h1]
  ELSE LET first == IF key[h1] < key[h2] THEN h1 ELSE h2
           rest == IF key[h1] < key[h2] THEN MergeSortedList(nx, nx[h1], h2) ELSE MergeSortedList(nx, h1, nx[h2])
       IN [next |-> [rest.next EXCEPT ![first] = rest.head], head |-> first]

\* The fast pointer and the slow one after the loop of 7 and of 10, and
\* whether it ended because they met.
RECURSIVE Chase(_, _, _)
Chase(nx, pFast, pSlow) ==
  IF pFast = NULL \/ nx[pFast] = NULL THEN [met |-> FALSE, slow |-> pSlow]
  ELSE IF nx[nx[pFast]] = nx[pSlow] THEN [met |-> TRUE, slow |-> nx[pSlow]]
  ELSE Chase(nx, nx[nx[pFast]], nx[pSlow])
\* 7.
HasCircle(nx, pHead) == Chase(nx, pHead, pHead).met

\* The last node of a list.
LastNode(nx, n) == Together(nx, n, n)

\* 8.
IsIntersected(nx, h1, h2) == h1 # NULL /\ h2 # NULL /\ LastNode(nx, h1) = LastNode(nx, h2)

RECURSIVE MeetFrom(_, _, _)
MeetFrom(nx, n1, n2) == IF n1 = n2 THEN n1 ELSE MeetFrom(nx, nx[n1], nx[n2])

\* The longer list goes ahead by the difference, then both go until they meet.
Aligned(nx, h1, h2, len1, len2) ==
  IF len1 > len2 THEN MeetFrom(nx, Steps(nx, h1, len1 - len2), h2) ELSE MeetFrom(nx, h1, Steps(nx, h2, len2 - len1))

\* 9.
GetFirstCommonNode(nx, h1, h2) ==
  IF ~IsIntersected(nx, h1, h2) THEN NULL
  ELSE Aligned(nx, h1, h2, CountFrom(nx, h1, 0), CountFrom(nx, h2, 0))

\* 10. The node where the pointers met is taken for the end of two lists, one
\* from the head and one from the node after it.
RECURSIVE CountTo(_, _, _, _)
CountTo(nx, n, end, len) == IF n = end THEN len ELSE CountTo(nx, nx[n], end, len + 1)
GetFirstNodeInCircle(nx, pHead) ==
  LET c == Chase(nx, pHead, pHead) IN
  IF pHead = NULL \/ ~c.met THEN NULL
  ELSE LET h2 == nx[c.slow]
       IN Aligned(nx, pHead, h2, CountTo(nx, pHead, c.slow, 1), CountTo(nx, h2, c.slow, 1))

-----------------------------------------------------------------------------
Before(op, n) ==
  [op |-> op, node |-> n, one |-> ListOf(next, head1), two |-> ListOf(next, head2),
   keys |-> Keys(key, ListOf(next, head1))]
Ready == call = None /\ Ends(next, head1) /\ Ends(next, head2)

Reversal ==
  /\ Ready /\ call' = Before("reverse", NULL)
  /\ next' = ReverseList(next, head1).next /\ head1' = ReverseList(next, head1).head
  /\ UNCHANGED <<key, head2, freed>>

Mergeable ==
  /\ Ready /\ Reach(next, head1) \cap Reach(next, head2) = {}
  /\ Sorted(Keys(key, ListOf(next, head1))) /\ Sorted(Keys(key, ListOf(next, head2)))

\* Both forms of 6.
Merge ==
  /\ Mergeable /\ call' = Before("merge", NULL)
  /\ next' = MergeSortedList(next, head1, head2).next /\ head1' = MergeSortedList(next, head1, head2).head
  /\ UNCHANGED <<key, head2, freed>>
MergeIteratively ==
  /\ Mergeable /\ call' = Before("merge loop", NULL)
  /\ next' = MergeLoop(next, head1, head2).next /\ head1' = MergeLoop(next, head1, head2).head
  /\ UNCHANGED <<key, head2, freed>>

\* 11. Delete of a node of the list.  The successor's key is copied and the
\* successor deleted; for the last node the one before it is looked up.  The
\* head is a copy: the caller's keeps pointing at the only node.
Delete(n) ==
  /\ Ready /\ n \in Reach(next, head1) /\ call' = Before("delete", n)
  /\ LET m == next[n] IN
     \/ /\ m # NULL
        /\ key' = [key EXCEPT ![n] = key[m]] /\ next' = [next EXCEPT ![n] = next[m]]
        /\ freed' = freed \cup {m}
     \/ /\ m = NULL
        /\ next' = IF head1 = n THEN next
                   ELSE [p \in Nodes |-> IF p \in Reach(next, head1) /\ next[p] = n THEN NULL ELSE next[p]]
        /\ freed' = freed \cup {n} /\ UNCHANGED key
  /\ UNCHANGED <<head1, head2>>

Next == Reversal \/ Merge \/ MergeIteratively \/ \E n \in Nodes : Delete(n)

-----------------------------------------------------------------------------
OnCircle(n) == \E i \in 1 .. Size : Steps(next, n, i) = n
First(s, P(_)) == IF \E i \in DOMAIN s : P(s[i])
                  THEN s[CHOOSE i \in DOMAIN s : P(s[i]) /\ \A j \in 1 .. i - 1 : ~P(s[j])] ELSE NULL

\* The functions that only read return what their headings say, on every heap
\* on which they are defined: length, k-th node from the end, middle, reverse
\* print, circle and its first node, common node of two lists.
QueriesAsSpecified ==
  /\ HasCircle(next, head1) <=> \E n \in Reach(next, head1) : OnCircle(n)
  /\ GetFirstNodeInCircle(next, head1) =
       First([i \in 1 .. IF head1 = NULL \/ Ends(next, head1) THEN 0 ELSE Size |-> Steps(next, head1, i - 1)], OnCircle)
  /\ Ends(next, head1) =>
       LET s == ListOf(next, head1) IN
       /\ GetListLength(next, head1) = Len(s)
       /\ \A k \in 0 .. Size + 1 : RGetKthNode(next, head1, k) = IF k \in 1 .. Len(s) THEN s[Len(s) + 1 - k] ELSE NULL
       /\ GetMiddleNode(next, head1) = IF s = <<>> THEN NULL ELSE s[Len(s) \div 2 + 1]
       /\ RPrintStack(next, head1) = Reverse(s) /\ RPrintList(next, head1) = Reverse(s)
       /\ Ends(next, head2) =>
            /\ IsIntersected(next, head1, head2) <=> Reach(next, head1) \cap Reach(next, head2) # {}
            /\ LET In2(n) == n \in Reach(next, head2) IN GetFirstCommonNode(next, head1, head2) = First(s, In2)

\* Reversing and the recursive merge move every node and lose none; deleting
\* takes the one key away and no other.  Not claimed, since the code does
\* otherwise: that the merge loop keeps the nodes after its first one, whose
\* link it clears before it follows it (:188, :194), and that the caller's head
\* of a list of one node is usable after that node is deleted (:418).
ChangesAsSpecified ==
  LET now == ListOf(next, head1)
      all == call.one \o call.two
  IN CASE call.op = "none" -> TRUE
       [] call.op = "reverse" -> now = Reverse(call.one)
       [] call.op = "merge" -> Len(now) = Len(all) /\ ToSet(now) = ToSet(all) /\ Sorted(Keys(key, now))
       [] call.op = "merge loop" -> call.one = <<>> \/ call.two = <<>> => now = all
       [] call.op = "delete" ->
            Len(call.one) > 1 =>
              /\ ToSet(now) \cap freed = {}
              /\ Keys(key, now) = RemoveAt(call.keys, CHOOSE i \in DOMAIN call.one : call.one[i] = call.node)
=============================================================================
