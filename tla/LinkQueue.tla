----------------------------- MODULE LinkQueue ------------------------------
(***************************************************************************)
(* algorithms_datastructures.c, 12: a queue of linked nodes behind a       *)
(* header node, with a pointer to the last one.  q, the content of a FIFO  *)
(* that takes the same calls, is history.                                  *)
(***************************************************************************)
EXTENDS Integers, Sequences

CONSTANTS
  Nodes,   \* what malloc can return, a set of positive numbers (bound)
  Elems    \* QElemType

NULL == 0

VARIABLES
  next, data,    \* the fields of the nodes
  front, rear,   \* LinkQueue
  allocated,     \* nodes between malloc and free
  up,            \* the queue exists; "exited" after exit(OVERFLOW)
  q              \* history

vars == <<next, data, front, rear, allocated, up, q>>

Init ==
  /\ next = [n \in Nodes |-> NULL] /\ data \in [Nodes -> Elems]
  /\ front = NULL /\ rear = NULL /\ allocated = {} /\ up = "no" /\ q = <<>>

\* The data pointers that follow one another from n on.
RECURSIVE Chain(_)
Chain(n) == IF n = NULL THEN <<>> ELSE <<n>> \o Chain(next[n])
NodesFrom(n) == {Chain(n)[i] : i \in DOMAIN Chain(n)}

\* malloc fails: exit(OVERFLOW).
Overflow == up' = "exited" /\ UNCHANGED <<next, data, front, rear, allocated, q>>

InitQueue ==
  /\ up = "no"
  /\ \/ Overflow
     \/ \E n \in Nodes \ allocated :
          /\ front' = n /\ rear' = n
          /\ next' = [next EXCEPT ![n] = NULL]
          /\ allocated' = allocated \cup {n} /\ up' = "yes"
          /\ UNCHANGED <<data, q>>

\* The loop frees from the header to the end; both pointers end at NULL.
DestroyQueue ==
  /\ up = "yes"
  /\ front' = NULL /\ rear' = NULL
  /\ allocated' = allocated \ NodesFrom(front)
  /\ up' = "no" /\ q' = <<>>
  /\ UNCHANGED <<next, data>>

ClearQueue ==
  /\ up = "yes"
  /\ rear' = front /\ next' = [next EXCEPT ![front] = NULL]
  /\ allocated' = allocated \ NodesFrom(next[front])
  /\ q' = <<>>
  /\ UNCHANGED <<data, front, up>>

EnQueue(e) ==
  /\ up = "yes"
  /\ \/ Overflow
     \/ \E p \in Nodes \ allocated :
          /\ data' = [data EXCEPT ![p] = e]
          /\ next' = [next EXCEPT ![p] = NULL, ![rear] = p]
          /\ rear' = p /\ allocated' = allocated \cup {p}
          /\ q' = Append(q, e)
          /\ UNCHANGED <<front, up>>

\* Mutant of DeQueue: the rear keeps pointing at the last node taken out.
DeQueueKeepsRear ==
  /\ up = "yes" /\ front # rear
  /\ LET p == next[front] IN
     next' = [next EXCEPT ![front] = next[p]] /\ allocated' = allocated \ {p}
  /\ q' = Tail(q)
  /\ UNCHANGED <<data, front, rear, up>>

\* An empty queue: ERROR, and nothing changes.
DeQueue ==
  /\ up = "yes" /\ front # rear
  /\ LET p == next[front] IN
     /\ next' = [next EXCEPT ![front] = next[p]]
     /\ rear' = IF rear = p THEN front ELSE rear
     /\ allocated' = allocated \ {p}
  /\ q' = Tail(q)
  /\ UNCHANGED <<data, front, up>>

Next == InitQueue \/ DestroyQueue \/ ClearQueue \/ DeQueue \/ \E e \in Elems : EnQueue(e)

-----------------------------------------------------------------------------
QueueEmpty == next[front] = NULL
\* The nodes passed until the rear is reached.
RECURSIVE LengthFrom(_, _)
LengthFrom(p, i) == IF p = rear THEN i ELSE LengthFrom(next[p], i + 1)
QueueLength == LengthFrom(front, 0)
GetHead_Q == IF front = rear THEN "ERROR" ELSE data[next[front]]
QueueTraverse == [i \in DOMAIN Chain(next[front]) |-> data[Chain(next[front])[i]]]

\* Through any sequence of calls the queue holds what a FIFO would, the rear is
\* its last node, the calls that only look agree with each other, and exactly
\* the header and the linked nodes are allocated: none lost, none freed twice.
QueueIsFifo ==
  /\ up = "yes" =>
       /\ Chain(front)[Len(Chain(front))] = rear
       /\ QueueTraverse = q /\ QueueLength = Len(q) /\ (QueueEmpty <=> q = <<>>)
       /\ GetHead_Q = IF q = <<>> THEN "ERROR" ELSE Head(q)
       /\ allocated = NodesFrom(front)
  /\ up = "no" => allocated = {}
=============================================================================
