------------------------- MODULE CallServiceProofs -------------------------
(***************************************************************************)
(* Theorems about CallService for every message type, condition and trap   *)
(* limit, every ring size and any number of lives: what the threads have   *)
(* done when the queue goes, what the filter of repeated messages hides,   *)
(* what a call has switched on and, with one client, that the queue keeps  *)
(* its promises through every life.  The facts about the queue are those   *)
(* of MsgQueueProofs, for the messages of the machine.                     *)
(***************************************************************************)
EXTENDS CallService, FiniteSetTheorems, TLAPS

QP == INSTANCE MsgQueueProofs WITH Messages <- Machine!CallMsgs

\* The assumptions of MsgQueue hold of the queue of the machine.
LEMMA QueueConstants ==
  /\ QUEUE_SIZE \in Nat \ {0, 1}
  /\ SEM_VALUE_MAX \in Nat
  /\ SEM_VALUE_MAX > QUEUE_SIZE
  /\ Machine!CallMsgs # {}
<1>1. PICK t \in MsgTypes, c \in Conditions : TRUE
  BY ServiceAssumption DEF Machine!CallAssumption
<1>2. [type |-> t, produce |-> c] \in Machine!CallMsgs
  BY DEF Machine!CallMsgs
<1> QED BY <1>2, ServiceAssumption

\* MsgQueue of CallService and MsgQueue of the proofs are one specification.
LEMMA SameQueue ==
  /\ Queue!TypeOK <=> QP!TypeOK
  /\ Queue!RoomKept <=> QP!RoomKept
  /\ Queue!TokenBalance <=> QP!TokenBalance
  /\ Queue!NoSlotRace <=> QP!NoSlotRace
  /\ \A p \in Producers : Queue!MsgEnQueue(p) => QP!Next
  /\ Queue!MsgDeQueue => QP!Next
<1> USE DEF Queue!TypeOK, QP!TypeOK, Queue!RoomKept, QP!RoomKept,
            Queue!NoSlotRace, QP!NoSlotRace, Queue!Occupancy, QP!Occupancy,
            Queue!Slots, QP!Slots, Queue!ProducerSteps, QP!ProducerSteps,
            Queue!ConsumerSteps, QP!ConsumerSteps, Queue!vars, QP!vars,
            Queue!ringVars, QP!ringVars, Queue!semVars, QP!semVars,
            Queue!prodVars, QP!prodVars, Queue!consVars, QP!consVars
<1>1. Queue!TypeOK <=> QP!TypeOK
  OBVIOUS
<1>2. Queue!RoomKept <=> QP!RoomKept
  OBVIOUS
<1>3. Queue!TokenBalance <=> QP!TokenBalance
  <2>1. ASSUME NEW S PROVE Queue!Cardinality(S) = QP!Cardinality(S)
    BY Zenon DEF Queue!Cardinality, QP!Cardinality
  <2>2. Queue!Signalling = QP!Signalling
    BY DEF Queue!Signalling, QP!Signalling
  <2>3. Queue!Tokens = QP!Tokens
    BY Zenon, <2>1, <2>2 DEF Queue!Tokens, QP!Tokens
  <2> QED BY Zenon, <2>3 DEF Queue!TokenBalance, QP!TokenBalance
<1>4. Queue!NoSlotRace <=> QP!NoSlotRace
  OBVIOUS
<1>5. ASSUME NEW p \in Producers, Queue!MsgEnQueue(p) PROVE QP!Next
  <2>1. QP!MsgEnQueue(p)
    BY <1>5
    DEF Queue!MsgEnQueue, QP!MsgEnQueue, Queue!EnQueueFull, QP!EnQueueFull,
        Queue!EnQueueTest, QP!EnQueueTest, Queue!EnQueueStep, QP!EnQueueStep,
        Queue!EnQueueLock, QP!EnQueueLock, Queue!EnQueueCopy, QP!EnQueueCopy,
        Queue!EnQueueAdvance, QP!EnQueueAdvance, Queue!EnQueueUnlock,
        QP!EnQueueUnlock, Queue!EnQueueSignal, QP!EnQueueSignal,
        Queue!LooksFull, QP!LooksFull, Queue!Following, QP!Following,
        Queue!Post, QP!Post
  <2> QED BY <2>1 DEF QP!Next
<1>6. ASSUME Queue!MsgDeQueue PROVE QP!MsgDeQueue
  BY <1>6
  DEF Queue!MsgDeQueue, QP!MsgDeQueue, Queue!DeQueueCall, QP!DeQueueCall,
      Queue!DeQueueWait, QP!DeQueueWait, Queue!DeQueueEmpty, QP!DeQueueEmpty,
      Queue!DeQueueTest, QP!DeQueueTest, Queue!DeQueueCopy, QP!DeQueueCopy,
      Queue!DeQueueAdvance, QP!DeQueueAdvance, Queue!Following, QP!Following
<1> QED BY <1>1, <1>2, <1>3, <1>4, <1>5, <1>6 DEF QP!Next

-----------------------------------------------------------------------------
\* The table-driven machine: its filter and the equipment of its calls are
\* inductive given the types, by two facts about transition_table.
MachineInv ==
  /\ Machine!TypeOK
  /\ Machine!FilterIsHarmless
  /\ Machine!CallIsEquipped

\* The rows of transition_table; c_1 leads on only from s_1, so that c_11,
\* which reads the first entry of the next row, always finds the trap.
LEMMA TableRange ==
  ASSUME NEW r \in Machine!Transitions
  PROVE  /\ r[1] \in 1 .. 15
         /\ r[2] \in 1 .. 10
         /\ r[3] \in 1 .. 15
         /\ r[2] = 1 => r[1] = 1
BY SMTT(60) DEF Machine!Transitions

\* transition_table[s][c], read without a range check, is the row of (s, c).
LEMMA EntryRow ==
  ASSUME NEW s \in 1 .. 15, NEW c \in 1 .. 11, NEW r \in Machine!Entry(s, c)
  PROVE  r \in Machine!Transitions /\ r[1] = s /\ r[2] = c
<1>1. r \in Machine!Transitions /\ (r[1] - 1) * 10 + r[2] = (s - 1) * 10 + c
  BY DEF Machine!Entry, Machine!CONDITIONS
<1> QED BY <1>1, TableRange

\* No state is left by the condition that led to it.
LEMMA TableMovesOn ==
  ASSUME NEW r \in Machine!Transitions, NEW q \in Machine!Transitions,
         q[1] = r[3]
  PROVE  q[2] # r[2]
BY SMTT(60) DEF Machine!Transitions

\* The action of a row turns what a call needs before it into what it needs
\* after it.
LEMMA TableEquips ==
  ASSUME NEW r \in Machine!Transitions
  PROVE  Machine!CallNeeds(r[3]) \subseteq
           (Machine!CallNeeds(r[1]) \ Machine!Stops(r[4]))
             \cup Machine!Starts(r[4])
BY SMTT(60)
DEF Machine!Transitions, Machine!CallNeeds, Machine!Stops, Machine!Starts

\* A transition leaves the machine in a state that its own condition does not
\* move again.
LEMMA NextIsTrapped ==
  ASSUME NEW s \in 1 .. 15, NEW c \in 1 .. 11, NEW r \in Machine!Entry(s, c)
  PROVE  Machine!Trapped(r[3], c)
<1>1. r \in Machine!Transitions /\ r[1] = s /\ r[2] = c
  BY EntryRow
<1>2. r[3] \in 1 .. 15
  BY <1>1, TableRange
<1>3. ASSUME NEW q \in Machine!Entry(r[3], c) PROVE FALSE
  <2>1. q \in Machine!Transitions /\ q[1] = r[3] /\ q[2] = c
    BY <1>2, EntryRow
  <2> QED BY <1>1, <2>1, TableMovesOn
<1> QED BY <1>3 DEF Machine!Trapped

\* One message to executeConditionStateTransform.
LEMMA MachineStep ==
  ASSUME MachineInv, NEW m \in Machine!CallMsgs,
         Machine!executeConditionStateTransform(m)
  PROVE  MachineInv'
<1>0. /\ m.produce \in 1 .. 11
      /\ m.type # 255
      /\ TRAP_LIMIT \in Nat
  BY ServiceAssumption DEF Machine!CallAssumption, Machine!CallMsgs
<1> USE DEF MachineInv, Machine!TypeOK, Machine!FilterIsHarmless,
            Machine!CallIsEquipped, Machine!CallStates
<1>1. CASE Machine!Repeated(m)
  BY <1>1 DEF Machine!Repeated, Machine!machineVars
<1>2. CASE Machine!Trap(m)
  <2>1. Machine!TypeOK'
    <3>1. continue_except_count' \in 0 .. TRAP_LIMIT + 1
      BY <1>0, <1>2 DEF Machine!Trap
    <3>2. displaced' \in BOOLEAN
      BY <1>2 DEF Machine!Trap
    <3> QED BY <1>2, <3>1, <3>2 DEF Machine!Trap
  <2>2. Machine!FilterIsHarmless'
    BY <1>2 DEF Machine!Trap
  <2>3. Machine!CallIsEquipped'
    BY <1>2 DEF Machine!Trap
  <2> QED BY <2>1, <2>2, <2>3
<1>3. CASE Machine!ResetIdle(m)
  <2> USE DEF Machine!CALL_STATUS_IDLE
  <2>1. Machine!TypeOK'
    BY <1>0, <1>3 DEF Machine!ResetIdle
  <2>2. Machine!FilterIsHarmless'
    BY <1>3 DEF Machine!ResetIdle
  <2>3. Machine!CallNeeds(1) = {}
    BY DEF Machine!CallNeeds
  <2>4. Machine!CallIsEquipped'
    BY <1>3, <2>3 DEF Machine!ResetIdle
  <2> QED BY <2>1, <2>2, <2>4
<1>4. CASE Machine!Transit(m)
  <2>1. PICK r \in Machine!Entry(current, m.produce) :
          /\ continue_except_count' = 0
          /\ held' = (held \ Machine!Stops(r[4])) \cup Machine!Starts(r[4])
          /\ current' = r[3]
          /\ reported' = r[3]
    BY <1>4 DEF Machine!Transit
  <2>2. last' = m /\ displaced' = FALSE
    BY <1>4 DEF Machine!Transit
  <2>3. r \in Machine!Transitions /\ r[1] = current
    BY <1>0, EntryRow
  <2>4. r[3] \in 1 .. 15
    BY <2>3, TableRange
  <2>5. Machine!Trapped(r[3], m.produce)
    BY <1>0, NextIsTrapped
  <2>6. Machine!CallNeeds(r[3]) \subseteq held'
    BY <2>1, <2>3, TableEquips
  <2>7. Machine!Starts(r[4]) \subseteq {"mic", "playback", "alert"}
    BY DEF Machine!Starts
  <2>8. Machine!TypeOK'
    <3>1. continue_except_count' \in 0 .. TRAP_LIMIT + 1
      BY <1>0, <2>1
    <3>2. displaced' \in BOOLEAN
      BY <2>2
    <3> QED BY <2>1, <2>2, <2>4, <2>7, <3>1, <3>2
  <2>9. Machine!FilterIsHarmless' /\ Machine!CallIsEquipped'
    BY <2>1, <2>2, <2>5, <2>6
  <2> QED BY <2>8, <2>9
<1> QED BY <1>1, <1>2, <1>3, <1>4 DEF Machine!executeConditionStateTransform

-----------------------------------------------------------------------------
\* The types of what CallService adds to its two instances.
ThreadTypes ==
  /\ m_bDispatchProcessRunning \in BOOLEAN
  /\ m_bTimeoutStateUpdateRunning \in BOOLEAN
  /\ dispatch \in DispatchStates
  /\ timeout \in TimeoutStates
  /\ treport \in Machine!CallStates
  /\ app \in AppStates
  /\ lives \in 0 .. MaxLives
  /\ disturbed \in BOOLEAN

\* How far the threads are, by where the application is.
Lifecycle ==
  /\ app \in {"new", "init1"} => dispatch = "none"
  /\ app \in {"new", "init1", "init2"} => timeout = "none"
  /\ app \in {"joined1", "joined2", "down"} => timeout = "done"
  /\ app \in {"joined2", "down"} => dispatch = "done"
  /\ cpc # "idle" => dispatch = "dequeue"

\* What every life needs, with any number of clients.
ServiceInv == QP!TypeOK /\ MachineInv /\ ThreadTypes /\ Lifecycle

\* Two clients can overrun the ring, as they can that of MsgQueue.
OneClient == \A p, q \in Producers : p = q

\* From initializeStateMachine until MsgQueueDestory.
UpStates == {"init1", "init2", "up", "stopping", "joined1", "joined2"}

QueueInv == ~disturbed /\ app \in UpStates => QP!RoomInv /\ QP!TokenBalance

LEMMA ServiceInvInit == Init => ServiceInv
<1> SUFFICES ASSUME Init PROVE ServiceInv
  OBVIOUS
<1>1. cmsg \in Machine!CallMsgs
  BY QueueConstants DEF Init
<1>2. QP!TypeOK
  BY <1>1, QueueConstants
  DEF Init, Queue!Init, QP!TypeOK, Queue!Slots, QP!Slots, QP!ProducerSteps,
      QP!ConsumerSteps
<1>3. MachineInv
  <2> USE DEF Init, Machine!Init, Machine!StartIn, Machine!CALL_STATUS_IDLE
  <2>1. Machine!TypeOK
    <3>1. continue_except_count \in 0 .. TRAP_LIMIT + 1
      BY ServiceAssumption DEF Machine!CallAssumption
    <3>2. displaced \in BOOLEAN
      OBVIOUS
    <3> QED BY <3>1, <3>2 DEF Machine!TypeOK, Machine!CallStates
  <2>2. Machine!FilterIsHarmless
    BY DEF Machine!FilterIsHarmless
  <2>3. Machine!CallIsEquipped
    BY DEF Machine!CallIsEquipped, Machine!CallNeeds
  <2> QED BY <2>1, <2>2, <2>3 DEF MachineInv
<1>4. ThreadTypes
  <2>1. /\ m_bDispatchProcessRunning \in BOOLEAN
        /\ m_bTimeoutStateUpdateRunning \in BOOLEAN
        /\ disturbed \in BOOLEAN
    BY DEF Init
  <2>2. lives \in 0 .. MaxLives
    BY ServiceAssumption DEF Init
  <2> QED BY <2>1, <2>2
  DEF Init, ThreadTypes, DispatchStates, TimeoutStates, AppStates,
      Machine!CallStates, Machine!CALL_STATUS_IDLE
<1>5. Lifecycle
  BY DEF Init, Queue!Init, Lifecycle
<1> QED BY <1>2, <1>3, <1>4, <1>5 DEF ServiceInv

\* Steps that leave the queue, or the machine, alone.
LEMMA QueueQuiet ==
  ASSUME UNCHANGED queueVars
  PROVE  /\ QP!TypeOK => QP!TypeOK'
         /\ UNCHANGED QP!vars
BY DEF queueVars, QP!TypeOK, QP!vars, QP!ringVars, QP!semVars, QP!prodVars,
   QP!consVars

LEMMA MachineQuiet ==
  ASSUME MachineInv, UNCHANGED machineVars
  PROVE  MachineInv'
BY DEF MachineInv, machineVars, Machine!TypeOK, Machine!FilterIsHarmless,
   Machine!CallIsEquipped

\* initializeStateMachine puts the machine into idle, where a call needs
\* nothing, and says so to displaced; the statics keep what they hold.
LEMMA InitKeepsMachine ==
  ASSUME MachineInv, InitState
  PROVE  MachineInv'
<1> USE DEF MachineInv, InitState, Machine!CALL_STATUS_IDLE
<1>1. Machine!TypeOK'
  BY DEF Machine!TypeOK, Machine!CallStates
<1>2. Machine!FilterIsHarmless'
  BY DEF Machine!FilterIsHarmless, Machine!TypeOK
<1>3. Machine!CallIsEquipped'
  BY DEF Machine!CallIsEquipped, Machine!CallNeeds
<1> QED BY <1>1, <1>2, <1>3

\* One step per action of the service.
LEMMA ServiceInvStep ==
  ASSUME ServiceInv, [Next]_vars
  PROVE  ServiceInv'
<1> USE DEF ServiceInv, ThreadTypes, Lifecycle, DispatchStates, TimeoutStates,
            AppStates
<1>1. CASE InitQueueFails
  <2>1. QP!TypeOK'
    BY <1>1, QueueConstants DEF InitQueueFails, QP!TypeOK, QP!Slots
  <2>2. MachineInv'
    BY <1>1, InitKeepsMachine DEF InitQueueFails
  <2> QED BY <1>1, <2>1, <2>2, ServiceAssumption
    DEF InitQueueFails, InitState, flagVars
<1>2. CASE InitQueueWorks
  <2>1. QP!TypeOK'
    BY <1>2, QueueConstants DEF InitQueueWorks, QueueInit, QP!TypeOK, QP!Slots
  <2>2. MachineInv'
    BY <1>2, InitKeepsMachine DEF InitQueueWorks
  <2> QED BY <1>2, <2>1, <2>2, ServiceAssumption
    DEF InitQueueWorks, QueueInit, InitState
<1>3. CASE \/ CreateDispatch \/ CreateDispatchFails
           \/ CreateTimeout \/ CreateTimeoutFails
           \/ DestroyFlags \/ JoinTimeout \/ JoinDispatch
           \/ JoinNoThread \/ DestroyFails
  <2> USE DEF CreateDispatch, CreateDispatchFails, CreateTimeout,
              CreateTimeoutFails, DestroyFlags, JoinTimeout, JoinDispatch,
              JoinNoThread, DestroyFails
  <2>1. QP!TypeOK' /\ MachineInv'
    BY <1>3, QueueQuiet, MachineQuiet
  <2>2. ThreadTypes' /\ Lifecycle'
    BY <1>3, ZenonT(60) DEF queueVars, flagVars, timeoutVars, lifeVars
  <2> QED BY <2>1, <2>2
<1>4. CASE DestroyQueue
  <2>1. QP!TypeOK'
    BY <1>4, QueueConstants DEF DestroyQueue, QP!TypeOK, QP!Slots
  <2>2. MachineInv'
    BY <1>4, MachineQuiet DEF DestroyQueue
  <2> QED BY <1>4, <2>1, <2>2 DEF DestroyQueue, flagVars, timeoutVars, lifeVars
<1>5. ASSUME NEW p \in Producers, msgEnStateMachine(p) PROVE ServiceInv'
  <2>1. QP!TypeOK'
    BY <1>5, SameQueue, QP!TypeStep, QueueConstants DEF msgEnStateMachine
  <2>2. MachineInv'
    BY <1>5, MachineQuiet DEF msgEnStateMachine
  <2>3. cpc' = cpc
    BY <1>5 DEF msgEnStateMachine, Queue!MsgEnQueue, Queue!EnQueueFull,
       Queue!EnQueueTest, Queue!EnQueueStep,
      Queue!EnQueueLock, Queue!EnQueueCopy, Queue!EnQueueAdvance,
      Queue!EnQueueUnlock, Queue!EnQueueSignal, Queue!vars, Queue!consVars
  <2> QED BY <1>5, <2>1, <2>2, <2>3
    DEF msgEnStateMachine, flagVars, timeoutVars, appVars, lifeVars
<1>6. CASE DispatchTest
  <2>1. QP!TypeOK' /\ MachineInv'
    BY <1>6, QueueQuiet, MachineQuiet DEF DispatchTest
  <2> QED BY <1>6, <2>1
    DEF DispatchTest, queueVars, flagVars, timeoutVars, appVars, lifeVars
<1>7. CASE DispatchDequeue
  <2>1. QP!TypeOK'
    BY <1>7, SameQueue, QP!TypeStep, QueueConstants DEF DispatchDequeue
  <2>2. MachineInv'
    BY <1>7, MachineQuiet DEF DispatchDequeue
  <2> QED BY <1>7, <2>1, <2>2
    DEF DispatchDequeue, flagVars, timeoutVars, appVars, lifeVars
<1>8. CASE DispatchExecute
  <2>1. cmsg \in Machine!CallMsgs
    BY DEF QP!TypeOK
  <2>2. QP!TypeOK' /\ MachineInv'
    BY <1>8, <2>1, QueueQuiet, MachineStep DEF DispatchExecute
  <2> QED BY <1>8, <2>2
    DEF DispatchExecute, queueVars, flagVars, timeoutVars, appVars, lifeVars
<1>9. CASE TimeoutTest
  <2>1. QP!TypeOK' /\ MachineInv'
    BY <1>9, QueueQuiet, MachineQuiet DEF TimeoutTest
  <2>2. current \in Machine!CallStates
    BY DEF MachineInv, Machine!TypeOK
  <2> QED BY <1>9, <2>1, <2>2 DEF TimeoutTest, queueVars, flagVars, appVars, lifeVars
<1>10. CASE TimeoutCallback
  <2>1. QP!TypeOK'
    BY <1>10, QueueQuiet DEF TimeoutCallback
  <2>2. MachineInv'
    BY <1>10 DEF TimeoutCallback, MachineInv, Machine!TypeOK,
       Machine!FilterIsHarmless, Machine!CallIsEquipped
  <2> QED BY <1>10, <2>1, <2>2
    DEF TimeoutCallback, queueVars, flagVars, appVars, lifeVars
<1>11. CASE TimeoutWake
  <2>1. QP!TypeOK' /\ MachineInv'
    BY <1>11, QueueQuiet, MachineQuiet DEF TimeoutWake
  <2> QED BY <1>11, <2>1 DEF TimeoutWake, queueVars, flagVars, appVars, lifeVars
<1>12. CASE UNCHANGED vars
  <2>1. QP!TypeOK' /\ MachineInv'
    BY <1>12, QueueQuiet, MachineQuiet DEF vars
  <2> QED BY <1>12, <2>1 DEF vars, queueVars, flagVars, timeoutVars, appVars, lifeVars
<1> QED
  BY <1>1, <1>2, <1>3, <1>4, <1>5, <1>6, <1>7, <1>8, <1>9, <1>10, <1>11, <1>12
  DEF Next, Application, Dispatcher, Reporter

-----------------------------------------------------------------------------
\* A step of the queue, or none, in a life of the machine.
LEMMA QueueMoves ==
  ASSUME QP!OneProducer, ServiceInv, QueueInv,
         disturbed' = disturbed, app' \in UpStates => app \in UpStates,
         QP!Next \/ UNCHANGED QP!vars
  PROVE  QueueInv'
<1> SUFFICES ASSUME ~disturbed, app \in UpStates PROVE QP!RoomInv' /\ QP!TokenBalance'
  BY DEF QueueInv, UpStates
<1>1. QP!TypeOK /\ QP!RoomInv /\ QP!TokenBalance
  BY DEF QueueInv, ServiceInv
<1>2. QP!RoomInv'
  BY <1>1, QP!RoomStep, QueueConstants
<1>3. QP!TokenBalance'
  BY <1>1, QP!TokenStep, QueueConstants
<1> QED BY <1>2, <1>3

\* An undisturbed life begins with a fresh queue and nobody inside of it, and
\* only steps of the queue change it until MsgQueueDestory.
LEMMA QueueInvStep ==
  ASSUME QP!OneProducer, ServiceInv, QueueInv, [Next]_vars
  PROVE  QueueInv'
<1>1. CASE InitQueueFails \/ DestroyQueue
  BY <1>1 DEF InitQueueFails, DestroyQueue, QueueInv, UpStates
<1>2. CASE InitQueueWorks
  <2> SUFFICES ASSUME ~disturbed' PROVE QueueInv'
    BY DEF QueueInv
  <2>1. /\ \A p \in Producers : ppc'[p] = "idle"
        /\ head' = 0 /\ rear' = 0 /\ msg_dequeue_sem' = 1
    BY <1>2 DEF InitQueueWorks, InitState, QueueInit
  <2>2. cpc' = "idle"
    BY <1>2 DEF InitQueueWorks, InitState, QueueInit, ServiceInv, Lifecycle
  <2>3. QP!RoomInv' /\ QP!TokenBalance'
    BY <2>1, <2>2, QP!FreshQueue, QueueConstants
  <2> QED BY <2>3 DEF QueueInv
<1>3. CASE \/ CreateDispatch \/ CreateDispatchFails
           \/ CreateTimeout \/ CreateTimeoutFails
           \/ DestroyFlags \/ JoinTimeout \/ JoinDispatch
           \/ JoinNoThread \/ DestroyFails
  <2> USE DEF CreateDispatch, CreateDispatchFails, CreateTimeout,
              CreateTimeoutFails, DestroyFlags, JoinTimeout, JoinDispatch,
              JoinNoThread, DestroyFails
  <2>1. UNCHANGED QP!vars
    BY <1>3, QueueQuiet
  <2>2. disturbed' = disturbed /\ (app' \in UpStates => app \in UpStates)
    BY <1>3 DEF UpStates, lifeVars
  <2> QED BY <2>1, <2>2, QueueMoves
<1>4. ASSUME NEW p \in Producers, msgEnStateMachine(p) PROVE QueueInv'
  BY <1>4, SameQueue, QueueMoves DEF msgEnStateMachine, appVars, lifeVars
<1>5. CASE DispatchDequeue
  BY <1>5, SameQueue, QueueMoves DEF DispatchDequeue, appVars, lifeVars
<1>6. CASE DispatchTest \/ DispatchExecute \/ TimeoutTest \/ TimeoutCallback
           \/ TimeoutWake \/ UNCHANGED vars
  <2>1. UNCHANGED QP!vars /\ app' = app /\ disturbed' = disturbed
    BY <1>6, QueueQuiet
    DEF DispatchTest, DispatchExecute, TimeoutTest, TimeoutCallback,
        TimeoutWake, vars, appVars, lifeVars
  <2> QED BY <2>1, QueueMoves
<1> QED
  BY <1>1, <1>2, <1>3, <1>4, <1>5, <1>6
  DEF Next, Application, Dispatcher, Reporter

-----------------------------------------------------------------------------
\* The inductive invariant of the service (state_machine.cpp:703-826).
THEOREM ServiceInvariant == Spec => []ServiceInv
<1>1. ServiceInv /\ [Next]_vars => ServiceInv'
  BY ServiceInvStep
<1> QED BY <1>1, ServiceInvInit, PTL DEF Spec

\* The machine is never in the trap state, its counter of trapped messages is
\* at most one over the limit, and indices stay in the ring, through every
\* life and every failing call: Spec => []TypeOK.
THEOREM ServiceTypes == Spec => []TypeOK
<1>1. ServiceInv => TypeOK
  BY SameQueue DEF ServiceInv, MachineInv, ThreadTypes, TypeOK
<1> QED BY <1>1, ServiceInvariant, PTL

\* For every set of conditions and every trap limit, the message that the
\* filter of executeConditionStateTransform drops would have been trapped,
\* unless a reset or a restart moved the machine: Spec => []FilterIsHarmless.
THEOREM FilterSwallowsNothing == Spec => []FilterIsHarmless
<1>1. ServiceInv => FilterIsHarmless
  BY DEF ServiceInv, MachineInv, FilterIsHarmless
<1> QED BY <1>1, ServiceInvariant, PTL

\* In every state of a call what its exit action stops is running, also after
\* resets and restarts, which stop nothing: Spec => []CallIsEquipped.
THEOREM CallsAreEquipped == Spec => []CallIsEquipped
<1>1. ServiceInv => CallIsEquipped
  BY DEF ServiceInv, MachineInv, CallIsEquipped
<1> QED BY <1>1, ServiceInvariant, PTL

\* One client: from MsgQueueInit to MsgQueueDestory of every life that did not
\* begin under the client, however the life before it ended, tokens balance, the slot seen free stays free and no
\* slot is copied by two threads at once: Spec => []QueueSoundWhileUp.
THEOREM QueueIsSound ==
  ASSUME OneClient
  PROVE  Spec => []QueueSoundWhileUp
<1>1. QP!OneProducer
  BY DEF OneClient, QP!OneProducer
<1>2. Init => QueueInv
  BY DEF Init, QueueInv, UpStates
<1>3. ServiceInv /\ QueueInv /\ [Next]_vars => QueueInv'
  BY <1>1, QueueInvStep
<1>4. ServiceInv /\ QueueInv => QueueSoundWhileUp
  <2> SUFFICES ASSUME ServiceInv, QueueInv, ~disturbed, app \in UpStates
               PROVE  Queue!TokenBalance /\ Queue!RoomKept /\ Queue!NoSlotRace
    BY DEF QueueSoundWhileUp, UpStates
  <2>1. QP!TypeOK /\ QP!RoomInv /\ QP!TokenBalance
    BY DEF ServiceInv, QueueInv
  <2>2. QP!RoomKept
    BY <2>1 DEF QP!RoomInv
  <2>3. QP!NoSlotRace
    BY <2>1, QP!NoCopyMeets, QueueConstants
  <2> QED BY <2>1, <2>2, <2>3, SameQueue
<1> QED BY <1>2, <1>3, <1>4, ServiceInvariant, PTL DEF Spec
=============================================================================
