------------------------------ MODULE IpcSend -------------------------------
(***************************************************************************)
(* The sending half of the inter-process agent of ipc_mq.cpp: ipcSendTask  *)
(* takes messages from the in-process queue and sends each with            *)
(* ipcSendCommand to a POSIX queue opened without blocking.  A refused     *)
(* message is tried again after a sleep that doubles from 5 ms, and is     *)
(* dropped when the sleep reaches RETRY_LIMIT.  The in-process queue is    *)
(* the first-in first-out queue that MsgQueue implements, its spare token  *)
(* included.                                                               *)
(***************************************************************************)
EXTENDS Integers, Sequences

CONSTANTS
  SEND_MAXMSG,  \* IPC_MQ_MAXMSG of the peer's queue, 10 in ipc_mq.cpp
  MaxMsgs,      \* messages the application enqueues (bound)
  Oversized,    \* messages longer than mq_msgsize: mq_send never takes them
  MaxDirect     \* calls of ipcSendCommand by the application itself (bound)

ASSUME SendAssumption ==
  /\ SEND_MAXMSG \in Nat \ {0}
  /\ MaxMsgs \in Nat /\ MaxDirect \in Nat
  /\ Oversized \subseteq 1 .. MaxMsgs

VARIABLES
  queue,         \* send_data_queue, messages numbered as they are enqueued
  spare,         \* its semaphore has one token more than messages
  nput,          \* messages enqueued so far
  ndirect,       \* successful direct calls of ipcSendCommand
  send_mq,       \* the peer's queue; 0 stands for a message sent directly
  arrived,       \* history: what the peer has received
  dropped,       \* history: messages given up
  send_mqd,      \* gIPCAgent.send_mqd
  sendRunning,   \* gIPCAgent.m_bIPCSendRunning
  sendStopping,  \* ipcAgentStop joins the send thread
  spc,           \* where the send thread is
  msg,           \* the Msg_t it holds, 0 for none
  sleepUs,       \* ipcRepeatSendSleepms, in microseconds whatever its name says
  slept          \* history: microseconds slept over msg

queueVars == <<queue, spare, nput, ndirect>>
peerVars == <<send_mq, arrived>>
senderVars == <<send_mqd, sendRunning, sendStopping>>
msgVars == <<msg, sleepUs, slept>>
sendVars == <<queueVars, peerVars, dropped, senderVars, spc, msgVars>>

FIRST_SLEEP == 5000     \* 5 ms
RETRY_LIMIT == 5120000  \* no sleep of this length or more
SendIds == 1 .. MaxMsgs

SendInit ==
  /\ queue = <<>> /\ spare = TRUE /\ nput = 0 /\ ndirect = 0
  /\ send_mq = <<>> /\ arrived = <<>>
  /\ dropped = {}
  /\ send_mqd = "none" /\ sendRunning = FALSE /\ sendStopping = FALSE
  /\ spc = "none"
  /\ msg = 0 /\ sleepUs = FIRST_SLEEP /\ slept = 0

-----------------------------------------------------------------------------
\* MsgEnQueue by the application.
EnQueue ==
  /\ nput < MaxMsgs
  /\ nput' = nput + 1
  /\ queue' = Append(queue, nput + 1)
  /\ UNCHANGED <<spare, ndirect, peerVars, dropped, senderVars, spc, msgVars>>

\* The peer takes a message.
PeerReceive ==
  /\ send_mq # <<>>
  /\ send_mq' = Tail(send_mq)
  /\ arrived' = Append(arrived, Head(send_mq))
  /\ UNCHANGED <<queueVars, dropped, senderVars, spc, msgVars>>

\* ipcAgentStart creates the send thread unless the flag says it runs.
SendStart ==
  /\ ~sendRunning /\ ~sendStopping
  /\ spc = "none"
  /\ sendRunning' = TRUE
  /\ spc' = "open"
  /\ UNCHANGED <<queueVars, peerVars, dropped, send_mqd, sendStopping, msgVars>>

\* sendMqOpen: create or open; on failure the flag is cleared and the thread ends.
SendOpenFails ==
  /\ spc = "open"
  /\ send_mqd' \in {"none", "closed"}
  /\ sendRunning' = FALSE
  /\ spc' = "none"
  /\ UNCHANGED <<queueVars, peerVars, dropped, sendStopping, msgVars>>

SendOpenWorks ==
  /\ spc = "open"
  /\ send_mqd' = "open"
  /\ spc' = "test"
  /\ UNCHANGED <<queueVars, peerVars, dropped, sendRunning, sendStopping, msgVars>>

\* while (m_bIPCSendRunning)
Test ==
  /\ spc = "test"
  /\ spc' = IF sendRunning THEN "dequeue" ELSE "close"
  /\ UNCHANGED <<queueVars, peerVars, dropped, senderVars, msgVars>>

\* MsgDeQueue sleeps until there is a message, or once fails on the spare token.
DeQueueEmpty ==
  /\ spc = "dequeue"
  /\ queue = <<>> /\ spare
  /\ spare' = FALSE
  /\ spc' = "test"
  /\ UNCHANGED <<queue, nput, ndirect, peerVars, dropped, senderVars, msgVars>>

\* Mutant of DeQueue: the back-off of the last message is not reset.
DeQueueKeepsSleep ==
  /\ spc = "dequeue"
  /\ queue # <<>>
  /\ msg' = Head(queue)
  /\ queue' = Tail(queue)
  /\ slept' = 0
  /\ spc' = "send"
  /\ UNCHANGED <<spare, nput, ndirect, peerVars, dropped, senderVars, sleepUs>>

DeQueue ==
  /\ spc = "dequeue"
  /\ queue # <<>>
  /\ msg' = Head(queue)
  /\ queue' = Tail(queue)
  /\ sleepUs' = FIRST_SLEEP
  /\ slept' = 0
  /\ spc' = "send"
  /\ UNCHANGED <<spare, nput, ndirect, peerVars, dropped, senderVars>>

\* ipcSendCommand succeeds: the queue is open, has room and takes the length.
Accepts(m) == send_mqd = "open" /\ Len(send_mq) < SEND_MAXMSG /\ m \notin Oversized

\* ipcSendCommand called by an application thread, past the send thread; a
\* refused call returns -1 and changes nothing.
SendDirect ==
  /\ ndirect < MaxDirect
  /\ Accepts(0)
  /\ ndirect' = ndirect + 1
  /\ send_mq' = Append(send_mq, 0)
  /\ UNCHANGED <<queue, spare, nput, arrived, dropped, senderVars, spc, msgVars>>

SendWorks ==
  /\ spc = "send"
  /\ Accepts(msg)
  /\ send_mq' = Append(send_mq, msg)
  /\ msg' = 0
  /\ spc' = "test"
  /\ UNCHANGED <<queueVars, arrived, dropped, senderVars, sleepUs, slept>>

\* Mutant of SendRetry: neither the flag nor the limit ends the retries.
SendRetryForever ==
  /\ spc = "send"
  /\ ~Accepts(msg)
  /\ spc' = "sleep"
  /\ UNCHANGED <<queueVars, peerVars, dropped, senderVars, msgVars>>

\* It fails while the agent runs and the sleep is below the limit ...
SendRetry ==
  /\ spc = "send"
  /\ ~Accepts(msg) /\ sendRunning /\ sleepUs < RETRY_LIMIT
  /\ slept' = slept + sleepUs
  /\ sleepUs' = 2 * sleepUs
  /\ spc' = "sleep"
  /\ UNCHANGED <<queueVars, peerVars, dropped, senderVars, msg>>

\* ... (usleep returns) ...
Wake ==
  /\ spc = "sleep"
  /\ spc' = "send"
  /\ UNCHANGED <<queueVars, peerVars, dropped, senderVars, msgVars>>

\* Mutant of SendGivesUp: the message goes back to the end of the queue.
SendGivesUpRequeues ==
  /\ spc = "send"
  /\ ~Accepts(msg) /\ ~(sendRunning /\ sleepUs < RETRY_LIMIT)
  /\ queue' = Append(queue, msg)
  /\ msg' = 0
  /\ spc' = "test"
  /\ UNCHANGED <<spare, nput, ndirect, peerVars, dropped, senderVars, sleepUs, slept>>

\* ... or the message is given up.
SendGivesUp ==
  /\ spc = "send"
  /\ ~Accepts(msg) /\ ~(sendRunning /\ sleepUs < RETRY_LIMIT)
  /\ dropped' = dropped \cup {msg}
  /\ msg' = 0
  /\ spc' = "test"
  /\ UNCHANGED <<queueVars, peerVars, senderVars, sleepUs, slept>>

\* sendMqClose and return.
Close ==
  /\ spc = "close"
  /\ send_mqd' = "closed"
  /\ sendRunning' = FALSE
  /\ spc' = "none"
  /\ UNCHANGED <<queueVars, peerVars, dropped, sendStopping, msgVars>>

\* ipcAgentStop clears the flag and joins the thread.
SendStop ==
  /\ ~sendStopping
  /\ spc # "none"
  /\ sendRunning' = FALSE
  /\ sendStopping' = TRUE
  /\ UNCHANGED <<queueVars, peerVars, dropped, send_mqd, spc, msgVars>>

SendStopReturns ==
  /\ sendStopping
  /\ spc = "none"
  /\ sendStopping' = FALSE
  /\ UNCHANGED <<queueVars, peerVars, dropped, send_mqd, sendRunning, spc, msgVars>>

SendThread ==
  \/ SendOpenFails \/ SendOpenWorks
  \/ Test
  \/ DeQueueEmpty \/ DeQueue
  \/ SendWorks \/ SendRetry \/ Wake \/ SendGivesUp
  \/ Close

SendNext ==
  \/ EnQueue
  \/ SendDirect
  \/ PeerReceive
  \/ SendStart
  \/ SendThread
  \/ SendStop
  \/ SendStopReturns

SendSpec == SendInit /\ [][SendNext]_sendVars

-----------------------------------------------------------------------------
\* Types, and the sleep stays in the range of the back-off.
SendTypeOK ==
  /\ queue \in Seq(SendIds) /\ spare \in BOOLEAN /\ nput \in 0 .. MaxMsgs /\ ndirect \in 0 .. MaxDirect
  /\ send_mq \in Seq(SendIds \cup {0}) /\ Len(send_mq) <= SEND_MAXMSG /\ arrived \in Seq(SendIds \cup {0})
  /\ dropped \subseteq SendIds
  /\ send_mqd \in {"none", "open", "closed"} /\ sendRunning \in BOOLEAN /\ sendStopping \in BOOLEAN
  /\ spc \in {"none", "open", "test", "dequeue", "send", "sleep", "close"}
  /\ msg \in SendIds \cup {0}
  /\ sleepUs \in FIRST_SLEEP .. RETRY_LIMIT
  /\ slept \in 0 .. RETRY_LIMIT

\* The messages of a line; 0, a message sent directly, is not one of them.
Contents(line) == {line[i] : i \in 1 .. Len(line)} \ {0}

\* They stand in the order in which they were enqueued, none twice.
Rising(line) ==
  \A i, j \in 1 .. Len(line) :
    i < j /\ line[i] # 0 /\ line[j] # 0 => line[i] < line[j]

\* Every message on its way, from the oldest that the peer has received to
\* the youngest in the in-process queue.
Line == arrived \o send_mq \o <<msg>> \o queue

\* What the peer gets is what was enqueued, in that order, without repeats,
\* and complete but for the messages given up: retries never let a later
\* message overtake (ipc_mq.cpp:376-396).
SentInOrder ==
  /\ Rising(Line)
  /\ Contents(Line) = (1 .. nput) \ dropped

\* A step gives a message up only when the agent is being stopped or after at
\* least the ten sleeps of 5 to 2560 milliseconds.
DropIsLate == dropped' # dropped => ~sendRunning \/ slept >= RETRY_LIMIT - FIRST_SLEEP

\* A running agent never gives a message up before it has slept at least 5.115
\* seconds over this very message, whatever happened to the messages before it
\* (ipc_mq.cpp:376-396).  This is a lower bound: the comment of :394 lists an
\* eleventh sleep, of 5120 milliseconds, which the loop's bound in :391 leaves
\* out, so a longer back-off would keep this property too.
DropsAreLate == [][DropIsLate]_sendVars
=============================================================================
