------------------------------ MODULE MsgQueue ------------------------------
(***************************************************************************)
(* The in-process message queue of Common/Compement/src/MQ/msg_def.cpp: a  *)
(* ring of QUEUE_SIZE slots, any number of producer threads, one consumer. *)
(* msg_enqueue_sem serialises the producers, msg_dequeue_sem counts what   *)
(* the consumer may take.  One action per statement that another thread    *)
(* can observe: the full test of MsgEnQueue is made BEFORE the semaphore   *)
(* is taken, and the slot copies are steps of their own so that two        *)
(* threads on one slot is a state of the model.                            *)
(***************************************************************************)
EXTENDS Integers, Sequences, FiniteSets

CONSTANTS
  Producers,      \* the threads that call MsgEnQueue
  QUEUE_SIZE,     \* slots of the ring, 1000 in msg_def.h
  SEM_VALUE_MAX,  \* sem_post fails, unnoticed by the code, at this value
  Messages        \* what a Msg_t can hold

ASSUME QueueAssumption ==
  /\ QUEUE_SIZE \in Nat \ {0, 1}
  /\ SEM_VALUE_MAX \in Nat
  /\ SEM_VALUE_MAX > QUEUE_SIZE
  /\ Messages # {}

VARIABLES
  head,             \* slot the consumer reads next
  rear,             \* slot a producer fills next
  data,             \* the slots
  msg_enqueue_sem,
  msg_dequeue_sem,
  ppc,              \* where each producer is inside MsgEnQueue
  pmsg,             \* the message each producer passed
  cpc,              \* where the consumer is inside MsgDeQueue
  cmsg,             \* the consumer's Msg_t
  cret              \* what MsgDeQueue last returned

ringVars == <<head, rear, data>>
semVars == <<msg_enqueue_sem, msg_dequeue_sem>>
prodVars == <<ppc, pmsg>>
consVars == <<cpc, cmsg, cret>>
vars == <<ringVars, semVars, prodVars, consVars>>

Slots == 0 .. QUEUE_SIZE - 1
ProducerSteps == {"idle", "lock", "copy", "advance", "unlock", "signal"}
ConsumerSteps == {"idle", "wait", "test", "copy", "advance"}

-----------------------------------------------------------------------------
\* sem_post: the caller ignores the EOVERFLOW of a semaphore at its maximum.
Post(sem) == IF sem < SEM_VALUE_MAX THEN sem + 1 ELSE sem

\* The index after i in the ring.
Following(i) == (i + 1) % QUEUE_SIZE

\* Mutant of LooksFull: the test forgets the wrap.
LooksFullUnwrapped == rear - head = QUEUE_SIZE - 1

\* The caller's view of the ring as the full test of MsgEnQueue reads it.
LooksFull == head = Following(rear)

\* MsgQueueInit, both sem_init calls succeeding.  The dequeue semaphore
\* starts at 1 although the ring is empty.
Init ==
  /\ head = 0
  /\ rear = 0
  /\ data \in [Slots -> Messages]
  /\ msg_enqueue_sem = 1
  /\ msg_dequeue_sem = 1
  /\ ppc = [p \in Producers |-> "idle"]
  /\ pmsg \in [Producers -> Messages]
  /\ cpc = "idle"
  /\ cmsg \in Messages
  /\ cret = 0

-----------------------------------------------------------------------------
\* MsgEnQueue called by p: the unlocked full test fails the call (-1) ...
EnQueueFull(p) ==
  /\ ppc[p] = "idle"
  /\ LooksFull
  /\ UNCHANGED vars

\* ... or lets the call with m go on to the semaphore.
EnQueueTest(p, m) ==
  /\ ppc[p] = "idle"
  /\ ~LooksFull
  /\ ppc' = [ppc EXCEPT ![p] = "lock"]
  /\ pmsg' = [pmsg EXCEPT ![p] = m]
  /\ UNCHANGED <<ringVars, semVars, consVars>>

EnQueueLock(p) ==
  /\ ppc[p] = "lock"
  /\ msg_enqueue_sem > 0
  /\ msg_enqueue_sem' = msg_enqueue_sem - 1
  /\ ppc' = [ppc EXCEPT ![p] = "copy"]
  /\ UNCHANGED <<ringVars, msg_dequeue_sem, pmsg, consVars>>

\* Mutant of EnQueueCopy: the slot after rear is filled.
EnQueueCopyNext(p) ==
  /\ ppc[p] = "copy"
  /\ data' = [data EXCEPT ![Following(rear)] = pmsg[p]]
  /\ ppc' = [ppc EXCEPT ![p] = "advance"]
  /\ UNCHANGED <<head, rear, semVars, pmsg, consVars>>

EnQueueCopy(p) ==
  /\ ppc[p] = "copy"
  /\ data' = [data EXCEPT ![rear] = pmsg[p]]
  /\ ppc' = [ppc EXCEPT ![p] = "advance"]
  /\ UNCHANGED <<head, rear, semVars, pmsg, consVars>>

EnQueueAdvance(p) ==
  /\ ppc[p] = "advance"
  /\ rear' = Following(rear)
  /\ ppc' = [ppc EXCEPT ![p] = "unlock"]
  /\ UNCHANGED <<head, data, semVars, pmsg, consVars>>

EnQueueUnlock(p) ==
  /\ ppc[p] = "unlock"
  /\ msg_enqueue_sem' = Post(msg_enqueue_sem)
  /\ ppc' = [ppc EXCEPT ![p] = "signal"]
  /\ UNCHANGED <<ringVars, msg_dequeue_sem, pmsg, consVars>>

\* Mutant of EnQueueSignal: no sem_post.
EnQueueSignalLost(p) ==
  /\ ppc[p] = "signal"
  /\ ppc' = [ppc EXCEPT ![p] = "idle"]
  /\ UNCHANGED <<ringVars, semVars, pmsg, consVars>>

EnQueueSignal(p) ==
  /\ ppc[p] = "signal"
  /\ msg_dequeue_sem' = Post(msg_dequeue_sem)
  /\ ppc' = [ppc EXCEPT ![p] = "idle"]
  /\ UNCHANGED <<ringVars, msg_enqueue_sem, pmsg, consVars>>

\* The steps of a MsgEnQueue that has passed its full test.
EnQueueStep(p) ==
  \/ EnQueueLock(p)
  \/ EnQueueCopy(p)
  \/ EnQueueAdvance(p)
  \/ EnQueueUnlock(p)
  \/ EnQueueSignal(p)

MsgEnQueue(p) ==
  \/ EnQueueFull(p)
  \/ \E m \in Messages : EnQueueTest(p, m)
  \/ EnQueueStep(p)

-----------------------------------------------------------------------------
DeQueueCall ==
  /\ cpc = "idle"
  /\ cpc' = "wait"
  /\ UNCHANGED <<ringVars, semVars, prodVars, cmsg, cret>>

DeQueueWait ==
  /\ cpc = "wait"
  /\ msg_dequeue_sem > 0
  /\ msg_dequeue_sem' = msg_dequeue_sem - 1
  /\ cpc' = "test"
  /\ UNCHANGED <<ringVars, msg_enqueue_sem, prodVars, cmsg, cret>>

DeQueueEmpty ==
  /\ cpc = "test"
  /\ rear = head
  /\ cpc' = "idle"
  /\ cret' = -1
  /\ UNCHANGED <<ringVars, semVars, prodVars, cmsg>>

DeQueueTest ==
  /\ cpc = "test"
  /\ rear # head
  /\ cpc' = "copy"
  /\ UNCHANGED <<ringVars, semVars, prodVars, cmsg, cret>>

DeQueueCopy ==
  /\ cpc = "copy"
  /\ cmsg' = data[head]
  /\ cpc' = "advance"
  /\ UNCHANGED <<ringVars, semVars, prodVars, cret>>

DeQueueAdvance ==
  /\ cpc = "advance"
  /\ head' = Following(head)
  /\ cpc' = "idle"
  /\ cret' = 0
  /\ UNCHANGED <<rear, data, semVars, prodVars, cmsg>>

MsgDeQueue ==
  \/ DeQueueCall
  \/ DeQueueWait
  \/ DeQueueEmpty
  \/ DeQueueTest
  \/ DeQueueCopy
  \/ DeQueueAdvance

-----------------------------------------------------------------------------
Next ==
  \/ \E p \in Producers : MsgEnQueue(p)
  \/ MsgDeQueue

Spec == Init /\ [][Next]_vars

\* Threads are scheduled: a thread that can run its next statement does.
\* No producer is obliged to call MsgEnQueue.
Fairness ==
  /\ \A p \in Producers : WF_vars(EnQueueStep(p))
  /\ WF_vars(MsgDeQueue)

FairSpec == Spec /\ Fairness

-----------------------------------------------------------------------------
\* Every variable has a value of its C type, indices stay inside the ring.
TypeOK ==
  /\ head \in Slots
  /\ rear \in Slots
  /\ data \in [Slots -> Messages]
  /\ msg_enqueue_sem \in 0 .. SEM_VALUE_MAX
  /\ msg_dequeue_sem \in 0 .. SEM_VALUE_MAX
  /\ ppc \in [Producers -> ProducerSteps]
  /\ pmsg \in [Producers -> Messages]
  /\ cpc \in ConsumerSteps
  /\ cmsg \in Messages
  /\ cret \in {0, -1}

\* p is between sem_wait and sem_post of msg_enqueue_sem.
Holds(p) == ppc[p] \in {"copy", "advance", "unlock"}

\* msg_enqueue_sem: at most one producer copies or advances rear, and the
\* semaphore is free only when none does (lines 154-162 of msg_def.cpp).
EnqueueExclusive ==
  /\ \A p, q \in Producers : Holds(p) /\ Holds(q) => p = q
  /\ msg_enqueue_sem > 0 => \A p \in Producers : ~Holds(p)

\* Messages between head and rear.
Occupancy == IF rear >= head THEN rear - head ELSE rear - head + QUEUE_SIZE

\* The k-th unread slot, counted from 0 at head.
UnreadSlot(k) ==
  IF head + k < QUEUE_SIZE THEN head + k ELSE head + k - QUEUE_SIZE

\* The consumer never copies a slot while a producer is filling it
\* (memcpy of line 135 against memcpy of line 159, no common lock).
NoSlotRace ==
  \A p \in Producers :
    ppc[p] = "copy" /\ cpc \in {"copy", "advance"} => rear # head

\* A producer that passed the full test still has a free slot to move rear
\* into: advancing rear can never make a full ring look empty.
RoomKept ==
  \A p \in Producers :
    ppc[p] \in {"lock", "copy", "advance"} => Occupancy < QUEUE_SIZE - 1

\* An enqueue adds one unread message and loses none: this is what line 9
\* of msg_def.cpp wants from its semaphore ("messages entering at the same
\* time would overwrite each other's node").
EnqueueLosesNothing ==
  [][rear' # rear => Occupancy' = Occupancy + 1]_vars

\* Producers that moved rear and have yet to post msg_dequeue_sem.
Signalling == {p \in Producers : ppc[p] \in {"unlock", "signal"}}

\* Tokens of msg_dequeue_sem: in the semaphore, on their way into it, or in
\* the hand of the consumer.
Tokens ==
  msg_dequeue_sem + Cardinality(Signalling)
    + (IF cpc \in {"test", "copy", "advance"} THEN 1 ELSE 0)

\* The tokens are the unread messages and at most the one spare token of
\* MsgQueueInit: the consumer neither sleeps over a message nor is told
\* "Empty" more than once.
TokenBalance == Tokens - Occupancy \in {0, 1}

\* The spare token, once spent on an "Empty", never comes back.
SpareSpentOnce == [][Tokens' - Occupancy' <= Tokens - Occupancy]_vars

\* The unread messages, oldest first; a message counts as taken when the
\* consumer has copied it.
Unread == [k \in 1 .. Occupancy |-> data[UnreadSlot(k - 1)]]

Fifo == INSTANCE BoundedFifo WITH
          Callers <- Producers,
          Capacity <- QUEUE_SIZE - 1,
          offer <- pmsg,
          queue <- IF cpc = "advance" THEN Tail(Unread) ELSE Unread,
          out <- cmsg

\* The ring implements the bounded first-in first-out queue: what a producer
\* passed to MsgEnQueue is what the consumer gets from MsgDeQueue, in order,
\* and every message that was put is taken.
ImplementsFifo == Fifo!Spec
=============================================================================
