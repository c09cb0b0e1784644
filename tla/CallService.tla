----------------------------- MODULE CallService -----------------------------
(***************************************************************************)
(* The state machine as a service: initializeStateMachine starts a         *)
(* dispatch thread, which feeds executeConditionStateTransform from the    *)
(* message queue, and a thread that reports the state every ten seconds;   *)
(* clients call msgEnStateMachine; destoryStateMachine stops all of it.    *)
(* The queue is MsgQueue step by step, the machine is CallStateMachine.    *)
(***************************************************************************)
EXTENDS Integers, FiniteSets

CONSTANTS
  Producers, QUEUE_SIZE, SEM_VALUE_MAX,   \* of MsgQueue
  MsgTypes, Conditions, TRAP_LIMIT,       \* of CallStateMachine
  MaxLives                                \* times the application initialises

VARIABLES
  head, rear, data, msg_enqueue_sem, msg_dequeue_sem, ppc, pmsg,
  cpc, cmsg, cret,
  current, last, continue_except_count, held, reported, displaced,
  m_bDispatchProcessRunning, m_bTimeoutStateUpdateRunning,
  dispatch,   \* the dispatch thread
  timeout,    \* the thread of stateMahchineTimeoutStateUpdateLoop
  treport,    \* the state it has read for its callback
  app,        \* where the application's thread is
  lives,      \* how often it has called initializeStateMachine
  disturbed   \* history: this life began under a client inside MsgEnQueue

Machine == INSTANCE CallStateMachine
Queue == INSTANCE MsgQueue WITH Messages <- Machine!CallMsgs

\* What the constants are.
ASSUME ServiceAssumption ==
  /\ Machine!CallAssumption
  /\ QUEUE_SIZE \in Nat \ {0, 1}
  /\ SEM_VALUE_MAX \in Nat
  /\ SEM_VALUE_MAX > QUEUE_SIZE
  /\ MaxLives \in Nat \ {0}

queueVars == <<head, rear, data, msg_enqueue_sem, msg_dequeue_sem, ppc, pmsg,
               cpc, cmsg, cret>>
machineVars == <<current, last, continue_except_count, held, reported,
                 displaced>>
flagVars == <<m_bDispatchProcessRunning, m_bTimeoutStateUpdateRunning>>
timeoutVars == <<timeout, treport>>
lifeVars == <<lives, disturbed>>
appVars == <<app, lifeVars>>
vars == <<queueVars, machineVars, flagVars, dispatch, timeoutVars, appVars>>

\* A thread is "none" until pthread_create, "done" when it has returned.
DispatchStates == {"none", "loop", "dequeue", "execute", "done"}
TimeoutStates == {"none", "loop", "callback", "sleep", "done"}
AppStates == {"new", "init1", "init2", "up", "stopping", "joined1", "joined2",
              "down", "failed", "badjoin"}

-----------------------------------------------------------------------------
\* The statics of executeConditionStateTransform have their initial values
\* once, at program start; everything else is set by initializeStateMachine.
\* What the message buffers hold before their first use is never read.
Init ==
  /\ Machine!Init
  /\ Queue!Init
  /\ cmsg = CHOOSE m \in Machine!CallMsgs : TRUE
  /\ data = [i \in Queue!Slots |-> cmsg]
  /\ pmsg = [p \in Producers |-> cmsg]
  /\ m_bDispatchProcessRunning = FALSE
  /\ m_bTimeoutStateUpdateRunning = FALSE
  /\ dispatch = "none"
  /\ timeout = "none"
  /\ treport = Machine!CALL_STATUS_IDLE
  /\ app = "new"
  /\ lives = 0
  /\ disturbed = FALSE

\* Mutant of QueueInit: no sem_init.
QueueInitKeepsSems ==
  /\ head' = 0
  /\ rear' = 0
  /\ UNCHANGED <<msg_enqueue_sem, msg_dequeue_sem, data, ppc, pmsg,
                 cpc, cmsg, cret>>

\* MsgQueueInit on the queue of the machine.
QueueInit ==
  /\ head' = 0
  /\ rear' = 0
  /\ msg_enqueue_sem' = 1
  /\ msg_dequeue_sem' = 1
  /\ UNCHANGED <<data, ppc, pmsg, cpc, cmsg, cret>>

\* initializeStateMachine(idle) up to the first pthread_create.
\* Nobody waits for the clients: one of the life before may still be inside
\* MsgEnQueue, and goes on with the new indices and semaphores.
InitState ==
  /\ app \in {"new", "down"}
  /\ lives < MaxLives
  /\ lives' = lives + 1
  /\ disturbed' = \E p \in Producers : ppc[p] # "idle"
  /\ current' = Machine!CALL_STATUS_IDLE
  /\ displaced' = (displaced \/ current # Machine!CALL_STATUS_IDLE)
  /\ dispatch' = "none"
  /\ timeout' = "none"
  /\ UNCHANGED <<last, continue_except_count, held, reported, treport>>

\* A sem_init of MsgQueueInit fails, the first or the second.
InitQueueFails ==
  /\ InitState
  /\ head' = 0
  /\ rear' = 0
  /\ msg_enqueue_sem' \in {msg_enqueue_sem, 1}
  /\ app' = "failed"
  /\ UNCHANGED <<data, msg_dequeue_sem, ppc, pmsg, cpc, cmsg, cret, flagVars>>

InitQueueWorks ==
  /\ InitState
  /\ QueueInit
  /\ m_bDispatchProcessRunning' = TRUE
  /\ app' = "init1"
  /\ UNCHANGED m_bTimeoutStateUpdateRunning

CreateDispatch ==
  /\ app = "init1"
  /\ dispatch' = "loop"
  /\ m_bTimeoutStateUpdateRunning' = TRUE
  /\ app' = "init2"
  /\ UNCHANGED <<queueVars, machineVars, m_bDispatchProcessRunning,
                 timeoutVars, lifeVars>>

\* pthread_create fails: the flag is cleared and "return -1" from a bool
\* function tells the application that all is well.
CreateDispatchFails ==
  /\ app = "init1"
  /\ dispatch' = "none"
  /\ m_bDispatchProcessRunning' = FALSE
  /\ app' = "up"
  /\ UNCHANGED <<queueVars, machineVars, m_bTimeoutStateUpdateRunning,
                 timeoutVars, lifeVars>>

CreateTimeout ==
  /\ app = "init2"
  /\ timeout' = "loop"
  /\ app' = "up"
  /\ UNCHANGED <<queueVars, machineVars, flagVars, dispatch, treport, lifeVars>>

CreateTimeoutFails ==
  /\ app = "init2"
  /\ timeout' = "none"
  /\ m_bTimeoutStateUpdateRunning' = FALSE
  /\ app' = "up"
  /\ UNCHANGED <<queueVars, machineVars, m_bDispatchProcessRunning, dispatch,
                 treport, lifeVars>>

-----------------------------------------------------------------------------
\* Mutant of DestroyFlags: the flag of the dispatch thread is not cleared.
DestroyFlagsTimeoutOnly ==
  /\ app = "up"
  /\ m_bTimeoutStateUpdateRunning' = FALSE
  /\ app' = "stopping"
  /\ UNCHANGED <<queueVars, machineVars, m_bDispatchProcessRunning, dispatch,
                 timeoutVars, lifeVars>>

\* destoryStateMachine: both flags, then the joins, then the queue.
DestroyFlags ==
  /\ app = "up"
  /\ m_bDispatchProcessRunning' = FALSE
  /\ m_bTimeoutStateUpdateRunning' = FALSE
  /\ app' = "stopping"
  /\ UNCHANGED <<queueVars, machineVars, dispatch, timeoutVars, lifeVars>>

JoinTimeout ==
  /\ app = "stopping"
  /\ timeout = "done"
  /\ app' = "joined1"
  /\ UNCHANGED <<queueVars, machineVars, flagVars, dispatch, timeoutVars,
                 lifeVars>>

JoinDispatch ==
  /\ app = "joined1"
  /\ dispatch = "done"
  /\ app' = "joined2"
  /\ UNCHANGED <<queueVars, machineVars, flagVars, dispatch, timeoutVars,
                 lifeVars>>

\* pthread_join on a pthread_t that no pthread_create ever filled in.
JoinNoThread ==
  /\ \/ app = "stopping" /\ timeout = "none"
     \/ app = "joined1" /\ dispatch = "none"
  /\ app' = "badjoin"
  /\ UNCHANGED <<queueVars, machineVars, flagVars, dispatch, timeoutVars,
                 lifeVars>>

\* MsgQueueDestory: sem_destroy leaves a semaphore's value where it was, so
\* a client that is still inside MsgEnQueue goes on with the old values.
DestroyQueue ==
  /\ app = "joined2"
  /\ head' = 0
  /\ rear' = 0
  /\ app' = "down"
  /\ UNCHANGED <<data, msg_enqueue_sem, msg_dequeue_sem, ppc, pmsg,
                 cpc, cmsg, cret>>
  /\ UNCHANGED <<machineVars, flagVars, dispatch, timeoutVars, lifeVars>>

\* destoryThreadAttr or sem_destroy fails: destoryStateMachine returns false
\* there and then, the rest undone.
DestroyFails ==
  /\ \/ app = "stopping" /\ timeout = "done"
     \/ app = "joined1" /\ dispatch = "done"
     \/ app = "joined2"
  /\ app' = "failed"
  /\ UNCHANGED <<queueVars, machineVars, flagVars, dispatch, timeoutVars,
                 lifeVars>>

Application ==
  \/ InitQueueFails \/ InitQueueWorks
  \/ CreateDispatch \/ CreateDispatchFails
  \/ CreateTimeout \/ CreateTimeoutFails
  \/ DestroyFlags \/ JoinTimeout \/ JoinDispatch \/ JoinNoThread
  \/ DestroyQueue \/ DestroyFails

-----------------------------------------------------------------------------
\* A client inside msgEnStateMachine, which drops the result of MsgEnQueue.
\* A call begins while the machine is up or being destroyed.
msgEnStateMachine(p) ==
  /\ ppc[p] = "idle" => app \in {"up", "stopping", "joined1"}
  /\ Queue!MsgEnQueue(p)
  /\ UNCHANGED <<machineVars, flagVars, dispatch, timeoutVars, appVars>>

\* stateMahchineDispatchProcessLoop.
DispatchTest ==
  /\ dispatch = "loop"
  /\ dispatch' = IF m_bDispatchProcessRunning THEN "dequeue" ELSE "done"
  /\ UNCHANGED <<queueVars, machineVars, flagVars, timeoutVars, appVars>>

\* One step of its MsgDeQueue; on return the result decides what follows.
DispatchDequeue ==
  /\ dispatch = "dequeue"
  /\ Queue!MsgDeQueue
  /\ dispatch' = CASE cpc' # "idle" -> "dequeue"
                   [] cpc' = "idle" /\ cret' = 0 -> "execute"
                   [] OTHER -> "loop"
  /\ UNCHANGED <<machineVars, flagVars, timeoutVars, appVars>>

DispatchExecute ==
  /\ dispatch = "execute"
  /\ Machine!executeConditionStateTransform(cmsg)
  /\ dispatch' = "loop"
  /\ UNCHANGED <<queueVars, flagVars, timeoutVars, appVars>>

Dispatcher == DispatchTest \/ DispatchDequeue \/ DispatchExecute

\* stateMahchineTimeoutStateUpdateLoop: current is read, unlocked, as the
\* argument of a callback that runs later.
TimeoutTest ==
  /\ timeout = "loop"
  /\ IF m_bTimeoutStateUpdateRunning
       THEN timeout' = "callback" /\ treport' = current
       ELSE timeout' = "done" /\ UNCHANGED treport
  /\ UNCHANGED <<queueVars, machineVars, flagVars, dispatch, appVars>>

TimeoutCallback ==
  /\ timeout = "callback"
  /\ reported' = treport
  /\ timeout' = "sleep"
  /\ UNCHANGED <<current, last, continue_except_count, held, displaced>>
  /\ UNCHANGED <<queueVars, flagVars, dispatch, treport, appVars>>

\* Mutant of TimeoutWake: the thread reports once and returns.
TimeoutWakeOnce ==
  /\ timeout = "sleep"
  /\ timeout' = "done"
  /\ UNCHANGED <<queueVars, machineVars, flagVars, dispatch, treport, appVars>>

TimeoutWake ==
  /\ timeout = "sleep"
  /\ timeout' = "loop"
  /\ UNCHANGED <<queueVars, machineVars, flagVars, dispatch, treport, appVars>>

Reporter == TimeoutTest \/ TimeoutCallback \/ TimeoutWake

-----------------------------------------------------------------------------
Next ==
  \/ Application
  \/ \E p \in Producers : msgEnStateMachine(p)
  \/ Dispatcher
  \/ Reporter

Spec == Init /\ [][Next]_vars

\* What the threads of the service owe: a client in a call finishes it, and
\* the application finishes a destroy it has begun.
FinishCall(p) == ppc[p] # "idle" /\ msgEnStateMachine(p)
FinishDestroy ==
  JoinTimeout \/ JoinDispatch \/ JoinNoThread \/ DestroyQueue \/ DestroyFails

-----------------------------------------------------------------------------
\* The variables of this module; those of the two instances are theirs.
TypeOK ==
  /\ Queue!TypeOK
  /\ Machine!TypeOK
  /\ m_bDispatchProcessRunning \in BOOLEAN
  /\ m_bTimeoutStateUpdateRunning \in BOOLEAN
  /\ dispatch \in DispatchStates
  /\ timeout \in TimeoutStates
  /\ treport \in Machine!CallStates
  /\ app \in AppStates
  /\ lives \in 0 .. MaxLives
  /\ disturbed \in BOOLEAN

\* From initializeStateMachine until MsgQueueDestory the queue keeps its
\* promises, also in a second life and with clients that come and go while the
\* machine is being destroyed, unless the life began while a client of the one
\* before was still inside MsgEnQueue (state_machine.cpp:457-573, msg_def.cpp).
QueueSoundWhileUp ==
  app \in {"init1", "init2", "up", "stopping", "joined1", "joined2"} /\ ~disturbed =>
    Queue!TokenBalance /\ Queue!RoomKept /\ Queue!NoSlotRace

\* The filter on repeated messages never swallows one that would have moved
\* the machine, unless the machine was moved behind the table's back since;
\* its statics survive destoryStateMachine, and so does this, fed by the queue
\* and across restarts (state_machine.cpp:623-704).
FilterIsHarmless == Machine!FilterIsHarmless

\* Whatever came before, resets and restarts included, a call in progress has
\* its microphone, playback and alert on, so each "exit action" of the table
\* stops things that run (state_machine.cpp:32-222).
CallIsEquipped == Machine!CallIsEquipped

=============================================================================
