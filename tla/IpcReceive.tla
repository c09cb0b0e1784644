----------------------------- MODULE IpcReceive -----------------------------
(***************************************************************************)
(* The receiving half of the inter-process agent of ipc_mq.cpp: a POSIX    *)
(* queue opened without blocking, a receive thread that registers for the  *)
(* notification, drains the queue and sleeps in pause(), and the notify    *)
(* threads the C library starts each time a message reaches an EMPTY       *)
(* queue.  A registration is used up by its notification.  All threads     *)
(* receive into the one buffer gIPCAgent.recv_buf; mq_receive takes the    *)
(* message off the queue before it copies it, so these are two steps.      *)
(***************************************************************************)
EXTENDS Naturals, Sequences

CONSTANTS
  Handlers,       \* notify threads alive at one time (bound)
  RECV_MAXMSG,    \* IPC_MQ_MAXMSG of the queue, 10 in ipc_mq.cpp
  MaxSends        \* messages the peer sends before it falls silent (bound)

ASSUME ReceiveAssumption ==
  /\ RECV_MAXMSG \in Nat \ {0}
  /\ MaxSends \in Nat
  /\ "recv" \notin Handlers

VARIABLES
  mq,         \* the kernel's queue, messages numbered as they are sent
  nsent,      \* messages sent so far
  registered, \* who is notified next: nobody, this agent, a rival process
  mqd,        \* gIPCAgent.recv_mqd: never opened or failed, open, closed
  running,    \* gIPCAgent.m_bIPCRecvRunning
  stopping,   \* ipcAgentStop has cleared the flag and joins the thread
  pc,         \* where each thread is
  got,        \* the message each thread's mq_receive took
  recv_buf,   \* gIPCAgent.recv_buf
  taken,      \* history: the messages taken off the queue, in order
  delivered,  \* history: what m_ipcRecvCallBack was given, in order
  overlapped  \* history: a thread took a message while another held one

kernelVars == <<mq, nsent, registered>>
agentVars == <<mqd, running, stopping>>
bufVars == <<got, recv_buf>>
histVars == <<taken, delivered, overlapped>>
vars == <<kernelVars, agentVars, pc, bufVars, histVars>>

Threads == Handlers \cup {"recv"}
Steps == {"none", "open", "notify", "take", "copy", "callback", "test", "pause", "close"}
Ids == 0 .. MaxSends

Init ==
  /\ mq = <<>>
  /\ nsent = 0
  /\ registered \in {"none", "rival"}
  /\ mqd = "none"
  /\ running = FALSE
  /\ stopping = FALSE
  /\ pc = [t \in Threads |-> "none"]
  /\ got = [t \in Threads |-> 0]
  /\ recv_buf = 0
  /\ taken = <<>>
  /\ delivered = <<>>
  /\ overlapped = FALSE

-----------------------------------------------------------------------------
\* mq_send by the peer: the first message of an empty queue uses up the
\* registration and, if it was this agent's, starts a notify thread; a rival
\* renews its own registration at once.
PeerSend ==
  /\ nsent < MaxSends
  /\ Len(mq) < RECV_MAXMSG
  /\ nsent' = nsent + 1
  /\ mq' = Append(mq, nsent + 1)
  /\ \/ /\ mq # <<>> \/ registered # "agent"
        /\ UNCHANGED <<registered, pc>>
     \/ /\ mq = <<>> /\ registered = "agent"
        /\ registered' = "none"
        /\ \E h \in Handlers : pc[h] = "none" /\ pc' = [pc EXCEPT ![h] = "notify"]
  /\ UNCHANGED <<agentVars, bufVars, histVars>>

\* A rival agent on the same queue drains it, or leaves.
Rival ==
  /\ registered = "rival"
  /\ \/ mq # <<>> /\ mq' = Tail(mq) /\ UNCHANGED registered
     \/ registered' = "none" /\ UNCHANGED mq
  /\ UNCHANGED <<nsent, agentVars, pc, bufVars, histVars>>

Goto(t, step) == pc' = [pc EXCEPT ![t] = step]

\* mq_close also drops the process's registration.
DropRegistration == registered' = IF registered = "agent" THEN "none" ELSE registered

\* ipcAgentStart creates the receive thread unless the flag says it runs.
Start ==
  /\ ~running /\ ~stopping
  /\ pc["recv"] = "none"
  /\ running' = TRUE
  /\ Goto("recv", "open")
  /\ UNCHANGED <<kernelVars, mqd, stopping, bufVars, histVars>>

\* recvMqOpen fails: no descriptor, or one closed again as mq_getattr failed.
OpenFails ==
  /\ pc["recv"] = "open"
  /\ mqd' \in {"none", "closed"}
  /\ running' = FALSE
  /\ Goto("recv", "none")
  /\ UNCHANGED <<kernelVars, stopping, bufVars, histVars>>

\* recvMqOpen creates the queue or opens the one that exists, as it is.
OpenWorks ==
  /\ pc["recv"] = "open"
  /\ mqd' = "open"
  /\ Goto("recv", "notify")
  /\ UNCHANGED <<kernelVars, running, stopping, bufVars, histVars>>

\* ipcRecvTaskProduce registers; another registration is fatal to the thread.
RecvRegister ==
  /\ pc["recv"] = "notify"
  /\ \/ /\ registered = "none"
        /\ registered' = "agent"
        /\ Goto("recv", "take")
        /\ UNCHANGED agentVars
     \/ /\ registered # "none"
        /\ DropRegistration
        /\ mqd' = "closed"
        /\ running' = FALSE
        /\ Goto("recv", "none")
        /\ UNCHANGED stopping
  /\ UNCHANGED <<mq, nsent, bufVars, histVars>>

\* Mutant of HandlerRegister: the one-shot registration is not renewed.
HandlerRegisterNot(h) ==
  /\ pc[h] = "notify"
  /\ Goto(h, "take")
  /\ UNCHANGED <<kernelVars, agentVars, bufVars, histVars>>

\* recvNotifyThread registers again first; a failing mq_notify is ignored.
HandlerRegister(h) ==
  /\ pc[h] = "notify"
  /\ registered' = IF mqd = "open" /\ registered = "none" THEN "agent" ELSE registered
  /\ Goto(h, "take")
  /\ UNCHANGED <<mq, nsent, agentVars, bufVars, histVars>>

Holding(t) == pc[t] \in {"copy", "callback"}

\* mq_receive takes the oldest message (every message has priority 0) ...
Take(t) ==
  /\ pc[t] = "take"
  /\ mqd = "open" /\ mq # <<>>
  /\ mq' = Tail(mq)
  /\ got' = [got EXCEPT ![t] = Head(mq)]
  /\ taken' = Append(taken, Head(mq))
  /\ overlapped' = (overlapped \/ \E u \in Threads \ {t} : Holding(u))
  /\ Goto(t, "copy")
  /\ UNCHANGED <<nsent, registered, agentVars, recv_buf, delivered>>

\* ... and copies it into the shared buffer.
Copy(t) ==
  /\ pc[t] = "copy"
  /\ recv_buf' = got[t]
  /\ Goto(t, "callback")
  /\ UNCHANGED <<kernelVars, agentVars, got, histVars>>

\* m_ipcRecvCallBack reads the shared buffer; then the next mq_receive.
Callback(t) ==
  /\ pc[t] = "callback"
  /\ delivered' = Append(delivered, recv_buf)
  /\ Goto(t, "take")
  /\ UNCHANGED <<kernelVars, agentVars, bufVars, taken, overlapped>>

\* Mutant of TakeNone: the receive thread tests the length only after the callback.
TakeNoneDelivers(t) ==
  /\ pc[t] = "take"
  /\ mqd # "open" \/ mq = <<>>
  /\ delivered' = Append(delivered, recv_buf)
  /\ Goto(t, IF t = "recv" THEN "test" ELSE "none")
  /\ UNCHANGED <<kernelVars, agentVars, bufVars, taken, overlapped>>

\* EAGAIN, or after one second any other error: a notify thread exits, the
\* receive thread goes on to its pause loop.
TakeNone(t) ==
  /\ pc[t] = "take"
  /\ mqd # "open" \/ mq = <<>>
  /\ Goto(t, IF t = "recv" THEN "test" ELSE "none")
  /\ UNCHANGED <<kernelVars, agentVars, bufVars, histVars>>

Drain(t) == Take(t) \/ Copy(t) \/ Callback(t) \/ TakeNone(t)

\* while (m_bIPCRecvRunning) pause();
RecvTest ==
  /\ pc["recv"] = "test"
  /\ Goto("recv", IF running THEN "pause" ELSE "close")
  /\ UNCHANGED <<kernelVars, agentVars, bufVars, histVars>>

\* A caught signal ends the pause; one that arrives before it is lost.
Signal ==
  /\ pc["recv"] = "pause"
  /\ Goto("recv", "test")
  /\ UNCHANGED <<kernelVars, agentVars, bufVars, histVars>>

\* recvMqClose and return.
RecvClose ==
  /\ pc["recv"] = "close"
  /\ mqd' = "closed"
  /\ running' = FALSE
  /\ DropRegistration
  /\ Goto("recv", "none")
  /\ UNCHANGED <<mq, nsent, stopping, bufVars, histVars>>

\* ipcAgentStop clears the flag and joins the receive thread.
Stop ==
  /\ ~stopping
  /\ pc["recv"] # "none"
  /\ running' = FALSE
  /\ stopping' = TRUE
  /\ UNCHANGED <<kernelVars, mqd, pc, bufVars, histVars>>

StopReturns ==
  /\ stopping
  /\ pc["recv"] = "none"
  /\ stopping' = FALSE
  /\ UNCHANGED <<kernelVars, mqd, running, pc, bufVars, histVars>>

RecvThread == OpenFails \/ OpenWorks \/ RecvRegister \/ Drain("recv") \/ RecvTest \/ RecvClose
Handler(h) == HandlerRegister(h) \/ Drain(h)

Next ==
  \/ PeerSend
  \/ Rival
  \/ Start
  \/ RecvThread
  \/ \E h \in Handlers : Handler(h)
  \/ Signal
  \/ Stop
  \/ StopReturns

Spec == Init /\ [][Next]_vars

-----------------------------------------------------------------------------
\* Every variable keeps its type; the queue never exceeds its capacity.
TypeOK ==
  /\ mq \in Seq(1 .. MaxSends) /\ Len(mq) <= RECV_MAXMSG
  /\ nsent \in Ids
  /\ registered \in {"none", "agent", "rival"}
  /\ mqd \in {"none", "open", "closed"}
  /\ running \in BOOLEAN /\ stopping \in BOOLEAN /\ overlapped \in BOOLEAN
  /\ pc \in [Threads -> Steps]
  /\ got \in [Threads -> Ids]
  /\ recv_buf \in Ids
  /\ taken \in Seq(Ids) /\ delivered \in Seq(Ids)

\* A message in the queue of a running agent is never left to itself: as the
\* registration is renewed before the drain and not after it, some thread has
\* yet to find the queue empty (ipc_mq.cpp:251, :310).
HasAttention ==
  (running /\ mq # <<>>) =>
     \E t \in Threads : pc[t] \in {"open", "notify", "take", "copy", "callback"}

\* An idle agent (no thread in the queue) is still registered: the next
\* message will be noticed (ipc_mq.cpp:310).
IdleIsRegistered ==
  (running /\ pc["recv"] \in {"test", "pause"} /\ \A h \in Handlers : pc[h] = "none")
     => registered = "agent"

\* The receive half is attentive: a message in the queue of a running agent
\* has a thread that has yet to find the queue empty, as the registration is
\* renewed before the drain and not after it, and an idle agent is registered
\* (ipc_mq.cpp:251, :310).
NothingSleeps == HasAttention /\ IdleIsRegistered

\* As long as no thread takes a message while another still works on the
\* shared buffer, the callback is given every message once and in order: all
\* that were taken, or all but the one that a thread holds
\* (recv_buf, ipc_mq.cpp:257-260, :321-324).
LoneDrainIsExact ==
  ~overlapped =>
    \/ taken = delivered /\ \A t \in Threads : ~Holding(t)
    \/ \E t \in Threads : Holding(t) /\ taken = Append(delivered, got[t])
=============================================================================
