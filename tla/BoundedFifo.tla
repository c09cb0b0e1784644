---------------------------- MODULE BoundedFifo ----------------------------
(***************************************************************************)
(* What msg_def.cpp promises its callers: a first-in first-out queue of at *)
(* most Capacity messages.  What is put is the message its caller offers;  *)
(* it stays, in its place, until it is taken, and what can be taken is     *)
(* taken eventually.                                                       *)
(***************************************************************************)
EXTENDS Naturals, Sequences

CONSTANTS Callers, Messages, Capacity

VARIABLES
  offer,  \* the message each caller has in hand
  queue,  \* the messages put and not yet taken, oldest first
  out     \* the message taken last

fifoVars == <<offer, queue, out>>

Init ==
  /\ offer \in [Callers -> Messages]
  /\ queue = <<>>
  /\ out \in Messages

Offer(c, m) ==
  /\ offer' = [offer EXCEPT ![c] = m]
  /\ UNCHANGED <<queue, out>>

Put(c) ==
  /\ Len(queue) < Capacity
  /\ queue' = Append(queue, offer[c])
  /\ UNCHANGED <<offer, out>>

Take ==
  /\ queue # <<>>
  /\ out' = Head(queue)
  /\ queue' = Tail(queue)
  /\ UNCHANGED offer

Next ==
  \/ Take
  \/ \E c \in Callers : Put(c) \/ \E m \in Messages : Offer(c, m)

\* What may happen, and with it what must.
Safety == Init /\ [][Next]_fifoVars
Spec == Safety /\ WF_fifoVars(Take)
=============================================================================
