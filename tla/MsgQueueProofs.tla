--------------------------- MODULE MsgQueueProofs ---------------------------
(***************************************************************************)
(* Theorems about MsgQueue for every ring size, every set of producers and *)
(* every set of messages.                                                  *)
(***************************************************************************)
EXTENDS MsgQueue, FiniteSetTheorems, SequenceTheorems, TLAPS

\* Following(i) stays in the ring and wraps at its end.
LEMMA FollowingInRing ==
  ASSUME NEW i \in Slots
  PROVE  /\ Following(i) \in Slots
         /\ Following(i) = IF i = QUEUE_SIZE - 1 THEN 0 ELSE i + 1
<1>1. CASE i = QUEUE_SIZE - 1
  <2>1. (i + 1) % QUEUE_SIZE = 0
    BY <1>1, QueueAssumption DEF Slots
  <2> QED BY <1>1, <2>1, QueueAssumption DEF Slots, Following
<1>2. CASE i # QUEUE_SIZE - 1
  <2>1. i + 1 \in 0 .. QUEUE_SIZE - 1
    BY <1>2, QueueAssumption DEF Slots
  <2>2. (i + 1) % QUEUE_SIZE = i + 1
    BY <2>1, QueueAssumption
  <2> QED BY <1>2, <2>1, <2>2 DEF Slots, Following
<1> QED BY <1>1, <1>2

\* No statement of MsgEnQueue or MsgDeQueue takes a variable out of its type.
LEMMA TypeStep ==
  ASSUME TypeOK, [Next]_vars
  PROVE  TypeOK'
<1> USE DEF TypeOK, ProducerSteps, ConsumerSteps, ringVars, semVars,
            prodVars, consVars
<1>1. ASSUME NEW p \in Producers, EnQueueFull(p)
      PROVE TypeOK'
  BY <1>1 DEF EnQueueFull, vars
<1>2. ASSUME NEW p \in Producers, NEW m \in Messages, EnQueueTest(p, m)
      PROVE TypeOK'
  BY <1>2 DEF EnQueueTest
<1>3. ASSUME NEW p \in Producers, EnQueueLock(p) PROVE TypeOK'
  BY <1>3, QueueAssumption DEF EnQueueLock
<1>4. ASSUME NEW p \in Producers, EnQueueCopy(p) PROVE TypeOK'
  BY <1>4 DEF EnQueueCopy
<1>5. ASSUME NEW p \in Producers, EnQueueAdvance(p) PROVE TypeOK'
  BY <1>5, FollowingInRing DEF EnQueueAdvance
<1>6. ASSUME NEW p \in Producers, EnQueueUnlock(p) PROVE TypeOK'
  BY <1>6, QueueAssumption DEF EnQueueUnlock, Post
<1>7. ASSUME NEW p \in Producers, EnQueueSignal(p) PROVE TypeOK'
  BY <1>7, QueueAssumption DEF EnQueueSignal, Post
<1>8. CASE DeQueueCall
  BY <1>8 DEF DeQueueCall
<1>9. CASE DeQueueWait
  BY <1>9, QueueAssumption DEF DeQueueWait
<1>10. CASE DeQueueEmpty
  BY <1>10 DEF DeQueueEmpty
<1>11. CASE DeQueueTest
  BY <1>11 DEF DeQueueTest
<1>12. CASE DeQueueCopy
  BY <1>12 DEF DeQueueCopy
<1>13. CASE DeQueueAdvance
  BY <1>13, FollowingInRing DEF DeQueueAdvance
<1>14. CASE UNCHANGED vars
  BY <1>14 DEF vars
<1> QED
  BY <1>1, <1>2, <1>3, <1>4, <1>5, <1>6, <1>7, <1>8, <1>9, <1>10, <1>11,
     <1>12, <1>13, <1>14
  DEF Next, MsgEnQueue, EnQueueStep, MsgDeQueue

\* Every variable keeps its type: Spec => []TypeOK.
THEOREM TypeCorrect == Spec => []TypeOK
<1>1. Init => TypeOK
  BY QueueAssumption DEF Init, TypeOK, Slots, ProducerSteps, ConsumerSteps
<1>2. TypeOK /\ [Next]_vars => TypeOK'
  BY TypeStep
<1> QED BY <1>1, <1>2, PTL DEF Spec

-----------------------------------------------------------------------------
\* The semaphore is binary and held by whoever is inside: the inductive form
\* of EnqueueExclusive.
ExclusionInv ==
  /\ msg_enqueue_sem \in {0, 1}
  /\ EnqueueExclusive

\* msg_enqueue_sem excludes any number of producers from one another while
\* they copy a message and advance rear: Spec => []EnqueueExclusive.
THEOREM EnqueueExclusion == Spec => []EnqueueExclusive
<1>1. Init => ExclusionInv
  BY DEF Init, ExclusionInv, EnqueueExclusive, Holds
<1>2. TypeOK /\ ExclusionInv /\ [Next]_vars => ExclusionInv'
  <2> SUFFICES ASSUME TypeOK, ExclusionInv, [Next]_vars PROVE ExclusionInv'
    OBVIOUS
  <2> USE DEF TypeOK, ExclusionInv, EnqueueExclusive, Holds, ProducerSteps,
              ringVars, semVars, prodVars, consVars
  <2>1. ASSUME NEW p \in Producers,
               EnQueueFull(p) \/ \E m \in Messages : EnQueueTest(p, m)
        PROVE ExclusionInv'
    BY <2>1 DEF EnQueueFull, EnQueueTest, vars
  <2>2. ASSUME NEW p \in Producers, EnQueueLock(p) PROVE ExclusionInv'
    BY <2>2 DEF EnQueueLock
  <2>3. ASSUME NEW p \in Producers, EnQueueCopy(p) \/ EnQueueAdvance(p)
        PROVE ExclusionInv'
    BY <2>3 DEF EnQueueCopy, EnQueueAdvance
  <2>4. ASSUME NEW p \in Producers, EnQueueUnlock(p) PROVE ExclusionInv'
    BY <2>4, QueueAssumption DEF EnQueueUnlock, Post
  <2>5. ASSUME NEW p \in Producers, EnQueueSignal(p) PROVE ExclusionInv'
    BY <2>5 DEF EnQueueSignal
  <2>6. CASE MsgDeQueue
    BY <2>6 DEF MsgDeQueue, DeQueueCall, DeQueueWait, DeQueueEmpty,
                DeQueueTest, DeQueueCopy, DeQueueAdvance
  <2>7. CASE UNCHANGED vars
    BY <2>7 DEF vars
  <2> QED
    BY <2>1, <2>2, <2>3, <2>4, <2>5, <2>6, <2>7
    DEF Next, MsgEnQueue, EnQueueStep
<1>3. ExclusionInv => EnqueueExclusive
  BY DEF ExclusionInv
<1> QED BY <1>1, <1>2, <1>3, TypeCorrect, PTL DEF Spec

-----------------------------------------------------------------------------
(***************************************************************************)
(* With one producer nothing can fill the ring between the full test and   *)
(* the advance of rear.  The consumer can only make room.                  *)
(***************************************************************************)
OneProducer == \A p, q \in Producers : p = q

\* What the consumer found at its emptiness test stays true until it has
\* advanced head.
ConsumerHasMessage == cpc \in {"copy", "advance"} => Occupancy > 0

RoomInv == RoomKept /\ ConsumerHasMessage

\* A move of rear into a ring with room adds one unread message.
LEMMA AdvanceRear ==
  ASSUME head \in Slots, rear \in Slots, Occupancy < QUEUE_SIZE - 1,
         head' = head, rear' = Following(rear)
  PROVE  Occupancy' = Occupancy + 1
BY FollowingInRing, QueueAssumption DEF Occupancy, Slots

\* A move of head over an unread message leaves one unread message less.
LEMMA AdvanceHead ==
  ASSUME head \in Slots, rear \in Slots, Occupancy > 0,
         rear' = rear, head' = Following(head)
  PROVE  Occupancy' = Occupancy - 1
BY FollowingInRing, QueueAssumption DEF Occupancy, Slots

\* The full test of MsgEnQueue fails exactly when one slot is left.
LEMMA FullTest ==
  ASSUME head \in Slots, rear \in Slots
  PROVE  /\ Occupancy \in 0 .. QUEUE_SIZE - 1
         /\ LooksFull <=> Occupancy = QUEUE_SIZE - 1
         /\ rear = head <=> Occupancy = 0
BY FollowingInRing, QueueAssumption DEF Occupancy, Slots, LooksFull

LEMMA RoomStep ==
  ASSUME OneProducer, TypeOK, RoomInv, [Next]_vars
  PROVE  RoomInv'
<1> USE DEF TypeOK, RoomInv, RoomKept, ConsumerHasMessage, OneProducer,
            ringVars, semVars, prodVars, consVars
<1>0. Occupancy \in 0 .. QUEUE_SIZE - 1
  BY FullTest
<1>1. ASSUME head' = head, rear' = rear PROVE Occupancy' = Occupancy
  BY <1>1 DEF Occupancy
<1>2. ASSUME NEW p \in Producers, EnQueueFull(p)
      PROVE RoomInv'
  BY <1>1, <1>2 DEF EnQueueFull, vars
<1>3. ASSUME NEW p \in Producers, NEW m \in Messages, EnQueueTest(p, m)
      PROVE RoomInv'
  BY <1>0, <1>1, <1>3, FullTest, QueueAssumption DEF EnQueueTest
<1>4. ASSUME NEW p \in Producers, EnQueueLock(p) PROVE RoomInv'
  BY <1>1, <1>4 DEF EnQueueLock
<1>5. ASSUME NEW p \in Producers, EnQueueCopy(p) PROVE RoomInv'
  BY <1>1, <1>5 DEF EnQueueCopy
<1>6. ASSUME NEW p \in Producers, EnQueueAdvance(p) PROVE RoomInv'
  <2>1. Occupancy' = Occupancy + 1
    BY <1>6, AdvanceRear DEF EnQueueAdvance
  <2>2. \A q \in Producers : ppc'[q] = "unlock"
    BY <1>6 DEF EnQueueAdvance
  <2> QED BY <1>0, <1>6, <2>1, <2>2 DEF EnQueueAdvance
<1>7. ASSUME NEW p \in Producers, EnQueueUnlock(p) PROVE RoomInv'
  BY <1>1, <1>7 DEF EnQueueUnlock
<1>8. ASSUME NEW p \in Producers, EnQueueSignal(p) PROVE RoomInv'
  BY <1>1, <1>8 DEF EnQueueSignal
<1>9. CASE DeQueueTest
  <2>1. Occupancy > 0
    BY <1>0, <1>9, FullTest DEF DeQueueTest
  <2> QED BY <1>1, <1>9, <2>1 DEF DeQueueTest
<1>10. CASE DeQueueAdvance
  <2>1. Occupancy' = Occupancy - 1
    BY <1>10, AdvanceHead DEF DeQueueAdvance
  <2> QED BY <1>0, <1>10, <2>1, QueueAssumption DEF DeQueueAdvance
<1>11. CASE DeQueueCall \/ DeQueueWait \/ DeQueueEmpty \/ DeQueueCopy
  BY <1>1, <1>11 DEF DeQueueCall, DeQueueWait, DeQueueEmpty, DeQueueCopy
<1>12. CASE UNCHANGED vars
  BY <1>1, <1>12 DEF vars
<1> QED
  BY <1>2, <1>3, <1>4, <1>5, <1>6, <1>7, <1>8, <1>9, <1>10, <1>11, <1>12
  DEF Next, MsgEnQueue, EnQueueStep, MsgDeQueue

LEMMA RoomInvariance ==
  ASSUME OneProducer
  PROVE  Spec => []RoomInv
<1>1. Init => RoomInv
  BY DEF Init, RoomInv, RoomKept, ConsumerHasMessage
<1>2. TypeOK /\ RoomInv /\ [Next]_vars => RoomInv'
  BY RoomStep
<1> QED BY <1>1, <1>2, TypeCorrect, PTL DEF Spec

\* One producer: the slot found free by the unlocked full test of MsgEnQueue
\* is still free when rear moves into it.
THEOREM RoomIsKept ==
  ASSUME OneProducer
  PROVE  Spec => []RoomKept
<1>1. RoomInv => RoomKept
  BY DEF RoomInv
<1> QED BY <1>1, RoomInvariance, PTL

\* A consumer that copies has a message to copy, so rear is elsewhere.
LEMMA NoCopyMeets ==
  ASSUME TypeOK, RoomInv
  PROVE  NoSlotRace
BY FullTest DEF TypeOK, RoomInv, ConsumerHasMessage, NoSlotRace

\* One producer: the consumer and the producer never copy the same slot,
\* although MsgDeQueue takes no lock.
THEOREM SlotsAreNotShared ==
  ASSUME OneProducer
  PROVE  Spec => []NoSlotRace
<1>1. TypeOK /\ RoomInv => NoSlotRace
  BY NoCopyMeets
<1> QED BY <1>1, RoomInvariance, TypeCorrect, PTL

\* One producer: no MsgEnQueue loses a message that is still unread.
THEOREM NothingIsLost ==
  ASSUME OneProducer
  PROVE  Spec => EnqueueLosesNothing
<1>1. TypeOK /\ RoomInv /\ [Next]_vars
        => [rear' # rear => Occupancy' = Occupancy + 1]_vars
  <2> SUFFICES ASSUME TypeOK, RoomInv, Next, rear' # rear
               PROVE  Occupancy' = Occupancy + 1
    BY DEF vars, ringVars
  <2>1. PICK p \in Producers : EnQueueAdvance(p)
    BY DEF Next, MsgEnQueue, EnQueueStep, MsgDeQueue, EnQueueFull,
           EnQueueTest, EnQueueLock, EnQueueCopy, EnQueueUnlock,
           EnQueueSignal, DeQueueCall, DeQueueWait, DeQueueEmpty,
           DeQueueTest, DeQueueCopy, DeQueueAdvance, ringVars, vars
  <2> QED BY <2>1, AdvanceRear DEF EnQueueAdvance, TypeOK, RoomInv, RoomKept
<1> QED
  BY <1>1, RoomInvariance, TypeCorrect, PTL DEF Spec, EnqueueLosesNothing

-----------------------------------------------------------------------------
(***************************************************************************)
(* The tokens of msg_dequeue_sem.                                          *)
(***************************************************************************)
Signals(f) == {p \in Producers : f[p] \in {"unlock", "signal"}}

\* With one producer the number of pending posts is 0 or 1.
LEMMA SignalCount ==
  ASSUME OneProducer, NEW f, NEW p \in Producers
  PROVE  Cardinality(Signals(f)) =
           IF f[p] \in {"unlock", "signal"} THEN 1 ELSE 0
<1>1. CASE f[p] \in {"unlock", "signal"}
  <2>1. Signals(f) = {p}
    BY <1>1 DEF Signals, OneProducer
  <2> QED BY <1>1, <2>1, FS_Singleton
<1>2. CASE f[p] \notin {"unlock", "signal"}
  <2>1. Signals(f) = {}
    BY <1>2 DEF Signals, OneProducer
  <2> QED BY <1>2, <2>1, FS_EmptySet
<1> QED BY <1>1, <1>2

\* A step keeps the balance and never creates a spare token.
LEMMA TokenStep ==
  ASSUME OneProducer, TypeOK, RoomInv, TokenBalance, [Next]_vars
  PROVE  /\ TokenBalance'
         /\ Tokens' - Occupancy' <= Tokens - Occupancy
<1> USE DEF TypeOK, TokenBalance, Tokens, ringVars, semVars, prodVars,
            consVars
<1> DEFINE Goal == /\ TokenBalance'
                   /\ Tokens' - Occupancy' <= Tokens - Occupancy
<1>0. /\ Occupancy \in 0 .. QUEUE_SIZE - 1
      /\ Signalling = Signals(ppc)
      /\ Signalling' = Signals(ppc')
      /\ Cardinality(Signals(ppc)) \in Nat
  <2>1. ASSUME Producers = {} PROVE Cardinality(Signals(ppc)) \in Nat
    <3>1. Signals(ppc) = {}
      BY <2>1 DEF Signals
    <3> QED BY <3>1, FS_EmptySet
  <2>2. ASSUME NEW p \in Producers PROVE Cardinality(Signals(ppc)) \in Nat
    BY <2>2, SignalCount
  <2> QED BY <2>1, <2>2, FullTest DEF Signalling, Signals
<1>1. ASSUME head' = head, rear' = rear PROVE Occupancy' = Occupancy
  BY <1>1 DEF Occupancy
<1>2. ASSUME NEW p \in Producers,
             EnQueueFull(p) \/ \E m \in Messages : EnQueueTest(p, m)
      PROVE Goal
  BY <1>0, <1>1, <1>2, SignalCount DEF EnQueueFull, EnQueueTest, vars
<1>3. ASSUME NEW p \in Producers,
             EnQueueLock(p) \/ EnQueueCopy(p) \/ EnQueueUnlock(p)
      PROVE Goal
  BY <1>0, <1>1, <1>3, SignalCount
  DEF EnQueueLock, EnQueueCopy, EnQueueUnlock
<1>4. ASSUME NEW p \in Producers, EnQueueAdvance(p) PROVE Goal
  <2>1. Occupancy' = Occupancy + 1
    BY <1>4, AdvanceRear DEF EnQueueAdvance, RoomInv, RoomKept
  <2>2. Cardinality(Signals(ppc)) = 0 /\ Cardinality(Signals(ppc')) = 1
    <3>1. ppc[p] = "advance" /\ ppc'[p] = "unlock"
      BY <1>4 DEF EnQueueAdvance
    <3>2. Cardinality(Signals(ppc)) = 0
      BY <3>1, SignalCount
    <3>3. Cardinality(Signals(ppc')) = 1
      BY <3>1, SignalCount
    <3> QED BY <3>2, <3>3
  <2> QED BY <1>0, <1>4, <2>1, <2>2 DEF EnQueueAdvance
<1>5. ASSUME NEW p \in Producers, EnQueueSignal(p) PROVE Goal
  <2>1. Cardinality(Signals(ppc)) = 1 /\ Cardinality(Signals(ppc')) = 0
    BY <1>5, SignalCount DEF EnQueueSignal
  <2>2. msg_dequeue_sem < SEM_VALUE_MAX
    BY <1>0, <2>1, QueueAssumption
  <2> QED BY <1>0, <1>1, <1>5, <2>1, <2>2 DEF EnQueueSignal, Post
<1>6. ASSUME ppc' = ppc, DeQueueAdvance PROVE Goal
  <2>1. Occupancy' = Occupancy - 1
    BY <1>6, AdvanceHead DEF DeQueueAdvance, RoomInv, ConsumerHasMessage
  <2> QED BY <1>0, <1>6, <2>1 DEF DeQueueAdvance
<1>7. ASSUME DeQueueEmpty PROVE Goal
  <2>1. Occupancy = 0
    BY <1>7, FullTest DEF DeQueueEmpty
  <2> QED BY <1>0, <1>1, <1>7, <2>1 DEF DeQueueEmpty
<1>8. CASE DeQueueCall \/ DeQueueWait \/ DeQueueTest \/ DeQueueCopy
  BY <1>0, <1>1, <1>8 DEF DeQueueCall, DeQueueWait, DeQueueTest, DeQueueCopy
<1>9. CASE UNCHANGED vars
  BY <1>0, <1>1, <1>9 DEF vars
<1> QED
  BY <1>2, <1>3, <1>4, <1>5, <1>6, <1>7, <1>8, <1>9
  DEF Next, MsgEnQueue, EnQueueStep, MsgDeQueue, DeQueueAdvance

\* MsgQueueInit, on a queue nobody is inside of, makes all of it true again.
LEMMA FreshQueue ==
  ASSUME \A p \in Producers : ppc'[p] = "idle", cpc' = "idle",
         head' = 0, rear' = 0, msg_dequeue_sem' = 1
  PROVE  RoomInv' /\ TokenBalance'
<1>1. Signalling' = {}
  BY DEF Signalling
<1>2. Cardinality(Signalling') = 0
  BY <1>1, FS_EmptySet
<1>3. TokenBalance'
  BY <1>2 DEF TokenBalance, Tokens, Occupancy
<1> QED BY <1>3 DEF RoomInv, RoomKept, ConsumerHasMessage

LEMMA TokenInvariance ==
  ASSUME OneProducer
  PROVE  Spec => []TokenBalance
<1>1. Init => TokenBalance
  <2> SUFFICES ASSUME Init PROVE TokenBalance
    OBVIOUS
  <2>1. Signalling = {}
    BY DEF Init, Signalling
  <2>2. Cardinality(Signalling) = 0
    BY <2>1, FS_EmptySet
  <2> QED BY <2>2 DEF Init, TokenBalance, Tokens, Occupancy
<1>2. TypeOK /\ RoomInv /\ TokenBalance /\ [Next]_vars => TokenBalance'
  BY TokenStep
<1> QED BY <1>1, <1>2, TypeCorrect, RoomInvariance, PTL DEF Spec

\* One producer: msg_dequeue_sem, the posts on their way and the token in
\* the consumer's hand add up to the unread messages, or to one more as long
\* as the token MsgQueueInit put there is unspent.
THEOREM TokensBalance ==
  ASSUME OneProducer
  PROVE  Spec => []TokenBalance
BY TokenInvariance

\* One producer: the spare token is spent at most once, so MsgDeQueue says
\* "Empty" at most once in the life of a queue.
THEOREM SpareIsSpentOnce ==
  ASSUME OneProducer
  PROVE  Spec => SpareSpentOnce
<1>1. TypeOK /\ RoomInv /\ TokenBalance /\ [Next]_vars
        => [Tokens' - Occupancy' <= Tokens - Occupancy]_vars
  BY TokenStep
<1> QED
  BY <1>1, TypeCorrect, RoomInvariance, TokenInvariance, PTL
  DEF Spec, SpareSpentOnce
-----------------------------------------------------------------------------
(***************************************************************************)
(* The ring is a first-in first-out queue: the safety part of              *)
(* ImplementsFifo, through the mapping of MsgQueue's Fifo.                 *)
(***************************************************************************)
\* The slots between head and rear, in order, and rear after the last.
LEMMA UnreadSlots ==
  ASSUME head \in Slots, rear \in Slots
  PROVE  /\ \A k \in 0 .. Occupancy - 1 :
              UnreadSlot(k) \in Slots /\ UnreadSlot(k) # rear
         /\ UnreadSlot(Occupancy) = rear
         /\ Occupancy > 0 => UnreadSlot(0) = head
BY QueueAssumption DEF Occupancy, UnreadSlot, Slots

LEMMA UnreadIsSeq ==
  ASSUME TypeOK
  PROVE  /\ Unread \in Seq(Messages)
         /\ Len(Unread) = Occupancy
         /\ \A k \in 1 .. Occupancy : Unread[k] = data[UnreadSlot(k - 1)]
<1>1. Occupancy \in Nat
  BY FullTest, QueueAssumption DEF TypeOK
<1>2. \A k \in 1 .. Occupancy : data[UnreadSlot(k - 1)] \in Messages
  <2> SUFFICES ASSUME NEW k \in 1 .. Occupancy
               PROVE  data[UnreadSlot(k - 1)] \in Messages
    OBVIOUS
  <2>1. k - 1 \in 0 .. Occupancy - 1
    BY <1>1
  <2> QED BY <2>1, UnreadSlots DEF TypeOK
<1>3. Unread \in [1 .. Occupancy -> Messages]
  BY <1>2 DEF Unread
<1> QED BY <1>1, <1>3 DEF Unread

\* A change of the slot at rear, or of nothing, leaves the unread messages.
LEMMA UnreadKept ==
  ASSUME TypeOK, head' = head, rear' = rear,
         \A i \in Slots \ {rear} : data'[i] = data[i]
  PROVE  Unread' = Unread
<1>1. Occupancy' = Occupancy /\ Occupancy \in Nat
  BY FullTest, QueueAssumption DEF TypeOK, Occupancy
<1>2. \A k : UnreadSlot(k)' = UnreadSlot(k)
  BY DEF UnreadSlot
<1>3. \A k \in 1 .. Occupancy :
        data'[UnreadSlot(k - 1)] = data[UnreadSlot(k - 1)]
  <2> SUFFICES ASSUME NEW k \in 1 .. Occupancy
               PROVE  data'[UnreadSlot(k - 1)] = data[UnreadSlot(k - 1)]
    OBVIOUS
  <2>1. k - 1 \in 0 .. Occupancy - 1
    BY <1>1
  <2> QED BY <2>1, UnreadSlots DEF TypeOK
<1> QED BY <1>1, <1>2, <1>3 DEF Unread

\* A move of rear appends the message in the slot it leaves.
LEMMA UnreadGrows ==
  ASSUME TypeOK, TypeOK', Occupancy < QUEUE_SIZE - 1,
         head' = head, data' = data, rear' = Following(rear)
  PROVE  Unread' = Append(Unread, data[rear])
<1>1. Occupancy \in Nat /\ Occupancy' = Occupancy + 1
  BY FullTest, AdvanceRear, QueueAssumption DEF TypeOK
<1>2. \A k : UnreadSlot(k)' = UnreadSlot(k)
  BY DEF UnreadSlot
<1>3. data[rear] \in Messages
  BY DEF TypeOK
<1> DEFINE longer == Append(Unread, data[rear])
<1>4. /\ longer \in Seq(Messages)
      /\ Len(longer) = Occupancy + 1
      /\ \A k \in 1 .. Occupancy : longer[k] = Unread[k]
      /\ longer[Occupancy + 1] = data[rear]
  BY <1>1, <1>3, UnreadIsSeq
<1>5. /\ Unread' \in Seq(Messages)
      /\ Len(Unread') = Occupancy + 1
      /\ \A k \in 1 .. Occupancy + 1 : Unread'[k] = data[UnreadSlot(k - 1)]
  <2>1. /\ Unread' = [k \in 1 .. Occupancy + 1 |-> data[UnreadSlot(k - 1)]]
    BY <1>1, <1>2 DEF Unread
  <2>2. \A k \in 1 .. Occupancy + 1 : data[UnreadSlot(k - 1)] \in Messages
    <3> SUFFICES ASSUME NEW k \in 1 .. Occupancy + 1
                 PROVE  data[UnreadSlot(k - 1)] \in Messages
      OBVIOUS
    <3>1. k - 1 \in 0 .. Occupancy - 1 \/ k - 1 = Occupancy
      BY <1>1
    <3> QED BY <3>1, UnreadSlots DEF TypeOK
  <2> QED BY <1>1, <2>1, <2>2
<1>6. \A k \in 1 .. Occupancy + 1 : Unread'[k] = longer[k]
  <2> SUFFICES ASSUME NEW k \in 1 .. Occupancy + 1 PROVE Unread'[k] = longer[k]
    OBVIOUS
  <2>1. CASE k \in 1 .. Occupancy
    BY <2>1, <1>4, <1>5, UnreadIsSeq
  <2>2. CASE k = Occupancy + 1
    <3>1. k - 1 = Occupancy
      BY <1>1, <2>2
    <3>2. Unread'[k] = data[rear]
      BY <1>5, <3>1, UnreadSlots DEF TypeOK
    <3> QED BY <1>4, <2>2, <3>2
  <2>3. k \in 1 .. Occupancy \/ k = Occupancy + 1
    BY <1>1
  <2> QED BY <2>1, <2>2, <2>3
<1> QED BY <1>1, <1>4, <1>5, <1>6

\* A move of head over a message takes the first of the unread messages.
LEMMA UnreadShrinks ==
  ASSUME TypeOK, Occupancy > 0,
         rear' = rear, data' = data, head' = Following(head)
  PROVE  Unread' = Tail(Unread)
<1>1. Occupancy \in Nat \ {0} /\ Occupancy' = Occupancy - 1
  BY FullTest, AdvanceHead, QueueAssumption DEF TypeOK
<1>2. \A k \in 0 .. Occupancy - 2 : UnreadSlot(k)' = UnreadSlot(k + 1)
  <2> SUFFICES ASSUME NEW k \in 0 .. Occupancy - 2
               PROVE  UnreadSlot(k)' = UnreadSlot(k + 1)
    OBVIOUS
  <2>1. head' = IF head = QUEUE_SIZE - 1 THEN 0 ELSE head + 1
    BY FollowingInRing DEF TypeOK
  <2>2. UnreadSlot(k)' = IF head' + k < QUEUE_SIZE THEN head' + k
                         ELSE head' + k - QUEUE_SIZE
    BY DEF UnreadSlot
  <2>3. k \in Nat /\ k + 1 < QUEUE_SIZE
    BY <1>1, FullTest, QueueAssumption DEF TypeOK
  <2> QED BY <2>1, <2>2, <2>3, QueueAssumption DEF UnreadSlot, TypeOK, Slots
<1>3. /\ Tail(Unread) \in Seq(Messages)
      /\ Len(Tail(Unread)) = Occupancy - 1
      /\ \A k \in 1 .. Occupancy - 1 : Tail(Unread)[k] = Unread[k + 1]
  BY <1>1, UnreadIsSeq
<1>4. \A k \in 1 .. Occupancy - 1 :
        data[UnreadSlot(k - 1)'] = Unread[k + 1]
  <2> SUFFICES ASSUME NEW k \in 1 .. Occupancy - 1
               PROVE  data[UnreadSlot(k - 1)'] = Unread[k + 1]
    OBVIOUS
  <2>1. UnreadSlot(k - 1)' = UnreadSlot(k)
    BY <1>1, <1>2
  <2>2. Unread[k + 1] = data[UnreadSlot(k)]
    BY <1>1, UnreadIsSeq
  <2> QED BY <2>1, <2>2
<1>5. Unread' = [k \in 1 .. Occupancy - 1 |-> Unread[k + 1]]
  BY <1>1, <1>4 DEF Unread
<1>6. Unread' \in Seq(Messages) /\ Len(Unread') = Occupancy - 1
  <2>1. \A k \in 1 .. Occupancy - 1 : Unread[k + 1] \in Messages
    BY <1>1, UnreadIsSeq
  <2> QED BY <1>1, <1>5, <2>1
<1>7. \A k \in 1 .. Occupancy - 1 : Unread'[k] = Tail(Unread)[k]
  BY <1>3, <1>5
<1> QED BY <1>1, <1>3, <1>6, <1>7

\* The producer between its copy and the advance has its message at rear.
CopyInv == \A p \in Producers : ppc[p] = "advance" => data[rear] = pmsg[p]
LEMMA CopyStep ==
  ASSUME OneProducer, TypeOK, CopyInv, [Next]_vars
  PROVE  CopyInv'
<1> USE DEF TypeOK, CopyInv, OneProducer, ringVars, semVars, prodVars,
            consVars
<1>1. ASSUME NEW p \in Producers, EnQueueFull(p)
      PROVE CopyInv'
  BY <1>1 DEF EnQueueFull, vars
<1>2. ASSUME NEW p \in Producers, NEW m \in Messages, EnQueueTest(p, m)
      PROVE CopyInv'
  BY <1>2 DEF EnQueueTest
<1>3. ASSUME NEW p \in Producers, EnQueueCopy(p) PROVE CopyInv'
  BY <1>3 DEF EnQueueCopy
<1>4. ASSUME NEW p \in Producers, EnQueueAdvance(p) PROVE CopyInv'
  BY <1>4 DEF EnQueueAdvance
<1>5. ASSUME NEW p \in Producers,
             EnQueueLock(p) \/ EnQueueUnlock(p) \/ EnQueueSignal(p)
      PROVE CopyInv'
  BY <1>5 DEF EnQueueLock, EnQueueUnlock, EnQueueSignal
<1>6. CASE MsgDeQueue
  BY <1>6 DEF MsgDeQueue, DeQueueCall, DeQueueWait, DeQueueEmpty,
              DeQueueTest, DeQueueCopy, DeQueueAdvance
<1>7. CASE UNCHANGED vars
  BY <1>7 DEF vars
<1> QED
  BY <1>1, <1>2, <1>3, <1>4, <1>5, <1>6, <1>7
  DEF Next, MsgEnQueue, EnQueueStep

\* Steps that change neither the ring's unread messages nor the two ends.
LEMMA MappedKept ==
  ASSUME Unread' = Unread, cpc' = "advance" <=> cpc = "advance",
         pmsg' = pmsg, cmsg' = cmsg
  PROVE  UNCHANGED Fifo!fifoVars
BY DEF Fifo!fifoVars

\* Every statement of MsgEnQueue and MsgDeQueue is a step of the abstract
\* queue: the full test an Offer, the advance of rear a Put, the consumer's
\* copy a Take, and the rest a stutter.
LEMMA FifoStep ==
  ASSUME OneProducer, TypeOK, TypeOK', RoomInv, CopyInv, [Next]_vars
  PROVE  [Fifo!Next]_(Fifo!fifoVars)
<1> USE DEF ringVars, semVars, prodVars, consVars
<1>0. Unread \in Seq(Messages) /\ Len(Unread) = Occupancy
  BY UnreadIsSeq
<1>1. ASSUME UNCHANGED ringVars PROVE Unread' = Unread
  BY <1>1, UnreadKept
<1>2. ASSUME NEW p \in Producers, NEW m \in Messages, EnQueueTest(p, m)
      PROVE Fifo!Offer(p, m)
  BY <1>1, <1>2 DEF EnQueueTest, Fifo!Offer
<1>3. ASSUME NEW p \in Producers, EnQueueCopy(p)
      PROVE UNCHANGED Fifo!fifoVars
  <2>1. \A i \in Slots \ {rear} : data'[i] = data[i]
    BY <1>3 DEF EnQueueCopy, TypeOK
  <2>2. Unread' = Unread
    BY <1>3, <2>1, UnreadKept DEF EnQueueCopy
  <2> QED BY <1>3, <2>2, MappedKept DEF EnQueueCopy
<1>4. ASSUME NEW p \in Producers, EnQueueAdvance(p) PROVE Fifo!Put(p)
  <2>1. Occupancy < QUEUE_SIZE - 1
    BY <1>4 DEF EnQueueAdvance, RoomInv, RoomKept
  <2>2. Unread' = Append(Unread, pmsg[p])
    BY <1>4, <2>1, UnreadGrows DEF EnQueueAdvance, CopyInv
  <2>3. pmsg[p] \in Messages
    BY DEF TypeOK
  <2>4. CASE cpc = "advance"
    <3>1. Unread # <<>>
      BY <1>0, <2>4 DEF RoomInv, ConsumerHasMessage
    <3>2. Tail(Unread') = Append(Tail(Unread), pmsg[p])
      BY <1>0, <2>2, <2>3, <3>1, HeadTailAppend
    <3>3. Len(Tail(Unread)) < QUEUE_SIZE - 1
      BY <1>0, <2>1, <3>1, FullTest, QueueAssumption DEF TypeOK
    <3> QED BY <1>4, <2>4, <3>2, <3>3 DEF EnQueueAdvance, Fifo!Put
  <2>5. CASE cpc # "advance"
    BY <1>0, <1>4, <2>1, <2>2, <2>5 DEF EnQueueAdvance, Fifo!Put
  <2> QED BY <2>4, <2>5
<1>5. ASSUME NEW p \in Producers,
             EnQueueFull(p) \/ EnQueueLock(p) \/ EnQueueUnlock(p)
               \/ EnQueueSignal(p)
      PROVE UNCHANGED Fifo!fifoVars
  BY <1>1, <1>5, MappedKept
  DEF EnQueueFull, EnQueueLock, EnQueueUnlock, EnQueueSignal, vars
<1>6. CASE DeQueueCall \/ DeQueueWait \/ DeQueueEmpty \/ DeQueueTest
  <2>1. UNCHANGED Fifo!fifoVars
    BY <1>1, <1>6, MappedKept
    DEF DeQueueCall, DeQueueWait, DeQueueEmpty, DeQueueTest
  <2> QED BY <2>1
<1>7. ASSUME DeQueueCopy PROVE Fifo!Take
  <2>1. Unread' = Unread
    BY <1>1, <1>7 DEF DeQueueCopy
  <2>2. Occupancy > 0
    BY <1>7 DEF DeQueueCopy, RoomInv, ConsumerHasMessage
  <2>3. Unread # <<>> /\ Head(Unread) = Unread[1]
    BY <1>0, <2>2, FullTest DEF TypeOK
  <2>4. Unread[1] = data[head]
    <3>1. 1 \in 1 .. Occupancy
      BY <2>2, FullTest DEF TypeOK
    <3>2. Unread[1] = data[UnreadSlot(0)]
      BY <3>1 DEF Unread
    <3> QED BY <2>2, <3>2, UnreadSlots DEF TypeOK
  <2> QED BY <1>7, <2>1, <2>3, <2>4 DEF DeQueueCopy, Fifo!Take
<1>8. ASSUME DeQueueAdvance PROVE UNCHANGED Fifo!fifoVars
  <2>1. Unread' = Tail(Unread)
    BY <1>8, UnreadShrinks DEF DeQueueAdvance, RoomInv, ConsumerHasMessage
  <2> QED BY <1>8, <2>1 DEF DeQueueAdvance, Fifo!fifoVars
<1>9. ASSUME UNCHANGED vars PROVE UNCHANGED Fifo!fifoVars
  BY <1>1, <1>9, MappedKept DEF vars
<1> QED
  BY <1>2, <1>3, <1>4, <1>5, <1>6, <1>7, <1>8, <1>9
  DEF Next, MsgEnQueue, EnQueueStep, MsgDeQueue, Fifo!Next

\* One producer: msg_def.cpp implements the bounded first-in first-out queue
\* of at most QUEUE_SIZE - 1 messages: what MsgDeQueue hands out is what
\* MsgEnQueue was given, in order, each message once.  That a message is
\* taken eventually is checked by TLC.
THEOREM ImplementsFifoSafety ==
  ASSUME OneProducer
  PROVE  Spec => Fifo!Safety
<1>1. Init => Fifo!Init
  <2> SUFFICES ASSUME Init PROVE Fifo!Init
    OBVIOUS
  <2>1. Occupancy = 0 /\ cpc # "advance"
    BY DEF Init, Occupancy
  <2>2. Unread = <<>>
    BY <2>1 DEF Unread
  <2> QED BY <2>1, <2>2 DEF Init, Fifo!Init
<1>2. Init => CopyInv
  BY DEF Init, CopyInv
<1>3. TypeOK /\ CopyInv /\ [Next]_vars => CopyInv'
  BY CopyStep
<1>4. TypeOK /\ TypeOK' /\ RoomInv /\ CopyInv /\ [Next]_vars
        => [Fifo!Next]_(Fifo!fifoVars)
  BY FifoStep
<1> QED
  BY <1>1, <1>2, <1>3, <1>4, TypeCorrect, RoomInvariance, PTL
  DEF Spec, Fifo!Safety
=============================================================================
