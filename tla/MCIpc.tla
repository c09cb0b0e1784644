------------------------------- MODULE MCIpc --------------------------------
(***************************************************************************)
(* The three models of ipc_mq.cpp in one run: a behaviour is one of the    *)
(* receive half, of the send half or of starting and stopping, as part     *)
(* says; the others rest in their initial states.                          *)
(***************************************************************************)
EXTENDS IpcReceive, IpcSend, IpcAgent

VARIABLE part

ipcVars == <<part, vars, sendVars, lifeVars>>

IpcInit ==
  /\ part \in {"receive", "send", "agent"}
  /\ Init /\ (part # "receive" => registered = "none")
  /\ SendInit
  /\ AgentInit

IpcNext ==
  \/ part = "receive" /\ Next /\ UNCHANGED <<part, sendVars, lifeVars>>
  \/ part = "send" /\ SendNext /\ UNCHANGED <<part, vars, lifeVars>>
  \/ part = "agent" /\ AgentNext /\ UNCHANGED <<part, vars, sendVars>>

\* A thread that can run does run; nobody owes the process a signal, a message,
\* room in the peer's queue, or a call of start or stop.
ReceiveRuns(A) == part = "receive" /\ A /\ UNCHANGED <<part, sendVars, lifeVars>>
SendRuns(A) == part = "send" /\ A /\ UNCHANGED <<part, vars, lifeVars>>

IpcSpec ==
  /\ IpcInit /\ [][IpcNext]_ipcVars
  /\ WF_ipcVars(ReceiveRuns(RecvThread))
  /\ \A h \in Handlers : WF_ipcVars(ReceiveRuns(Handler(h)))
  /\ WF_ipcVars(ReceiveRuns(StopReturns))
  /\ WF_ipcVars(SendRuns(SendThread))
  /\ WF_ipcVars(SendRuns(SendStopReturns))

-----------------------------------------------------------------------------
\* When the peer falls silent, ipcAgentStop ends, unless the receive thread
\* sleeps in pause() or the send thread in MsgDeQueue over an empty queue:
\* neither messages still queued, nor a drain by several threads, nor a retry
\* in progress holds it up for good (ipc_mq.cpp:339, :376, :496, :513).  MaxSends
\* is the silence: the drain loops of :257 and :321 never test the flag, and a
\* peer that sends for ever, at the pace of the drain, would hold stop up.
StopEndsOrSleeps ==
  /\ stopping ~> (~stopping \/ pc["recv"] = "pause")
  /\ sendStopping ~> (~sendStopping \/ (spc = "dequeue" /\ queue = <<>>))
=============================================================================
