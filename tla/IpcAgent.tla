------------------------------ MODULE IpcAgent ------------------------------
(***************************************************************************)
(* Starting and stopping the inter-process agent of ipc_mq.cpp: the two    *)
(* running flags, the two threads, which clear their flag when they end,   *)
(* the two thread attributes and the thread that calls ipcAgentStart and   *)
(* ipcAgentStop.  What the threads do meanwhile is in IpcReceive and       *)
(* IpcSend; here a thread opens its queue and serves it, or fails.         *)
(* The caller stops only what a start reported as started.                 *)
(***************************************************************************)
EXTENDS ThreadAttr

VARIABLES
  flag,       \* m_bIPCRecvRunning, m_bIPCSendRunning
  thread,     \* state of the thread the agent's handle names
  attr,       \* m_recv_thread_attr, m_send_thread_attr
  caller,     \* where the caller is: a step and the thread it is about
  started,    \* what the last ipcAgentStart returned was 0, and no stop since
  initFailed  \* history: threads whose last initThreadAttr failed

lifeVars == <<flag, thread, attr, caller, started, initFailed>>

Sides == {"recv", "send"}
Alive == {"opening", "serving"}
Idle == <<"idle", "recv">>

AgentInit ==
  /\ flag = [s \in Sides |-> FALSE]
  /\ thread = [s \in Sides |-> "none"]
  /\ attr = [s \in Sides |-> "raw"]
  /\ caller = Idle
  /\ started = FALSE
  /\ initFailed = {}

-----------------------------------------------------------------------------
\* ipcAgentStart: the next thread to create, past the ones whose flag is set.
Begin(s) == IF ~flag[s] THEN <<"attr", s>>
            ELSE IF s = "recv" /\ ~flag["send"] THEN <<"attr", "send">> ELSE Idle

CallStart ==
  /\ caller = Idle
  /\ caller' = Begin("recv")
  /\ started' = (started \/ Begin("recv") = Idle)
  /\ UNCHANGED <<flag, thread, attr, initFailed>>

\* A failing initThreadAttr is logged and ignored; the flag is set before
\* the thread exists.
InitAttr(s) ==
  /\ caller = <<"attr", s>>
  /\ \E o \in initThreadAttr(attr[s], TRUE) :
       /\ attr' = [attr EXCEPT ![s] = o.attr]
       /\ initFailed' = IF o.ok THEN initFailed \ {s} ELSE initFailed \cup {s}
  /\ flag' = [flag EXCEPT ![s] = TRUE]
  /\ caller' = <<"create", s>>
  /\ UNCHANGED <<thread, started>>

\* pthread_create, with an attribute that may be destroyed or raw.
CreateWorks(s) ==
  /\ caller = <<"create", s>>
  /\ thread' = [thread EXCEPT ![s] = "opening"]
  /\ caller' = IF s = "recv" /\ ~flag["send"] THEN <<"attr", "send">> ELSE Idle
  /\ started' = (caller' = Idle)
  /\ UNCHANGED <<flag, attr, initFailed>>

CreateFails(s) ==
  /\ caller = <<"create", s>>
  /\ flag' = [flag EXCEPT ![s] = FALSE]
  /\ caller' = Idle
  /\ started' = FALSE
  /\ UNCHANGED <<thread, attr, initFailed>>

\* The thread opens its queue; or it cannot, clears its flag and ends; or it
\* sees its flag cleared, closes the queue and ends.
ThreadServes(s) ==
  /\ thread[s] = "opening"
  /\ thread' = [thread EXCEPT ![s] = "serving"]
  /\ UNCHANGED <<flag, attr, caller, started, initFailed>>

\* Mutant of ThreadEnds: the flag is left set by a thread that fails.
ThreadEndsSilently(s) ==
  /\ \/ thread[s] = "opening"
     \/ thread[s] = "serving" /\ ~flag[s]
  /\ thread' = [thread EXCEPT ![s] = "ended"]
  /\ UNCHANGED <<flag, attr, caller, started, initFailed>>

ThreadEnds(s) ==
  /\ \/ thread[s] = "opening"
     \/ thread[s] = "serving" /\ ~flag[s]
  /\ flag' = [flag EXCEPT ![s] = FALSE]
  /\ thread' = [thread EXCEPT ![s] = "ended"]
  /\ UNCHANGED <<attr, caller, started, initFailed>>

\* ipcAgentStop
CallStop ==
  /\ caller = Idle
  /\ started
  /\ flag' = [s \in Sides |-> FALSE]
  /\ started' = FALSE
  /\ caller' = <<"join", "recv">>
  /\ UNCHANGED <<thread, attr, initFailed>>

\* pthread_join waits for the thread; a thread that ended by itself is joined at once.
Join(s) ==
  /\ caller = <<"join", s>>
  /\ thread[s] \notin Alive
  /\ thread' = [thread EXCEPT ![s] = "none"]
  /\ flag' = [flag EXCEPT !["send"] = FALSE]
  /\ caller' = <<"destroy", s>>
  /\ UNCHANGED <<attr, started, initFailed>>

DestroyAttr(s) ==
  /\ caller = <<"destroy", s>>
  /\ \E o \in destoryThreadAttr(attr[s]) : attr' = [attr EXCEPT ![s] = o.attr]
  /\ caller' = IF s = "recv" THEN <<"join", "send">> ELSE Idle
  /\ UNCHANGED <<flag, thread, started, initFailed>>

AgentNext ==
  \/ CallStart
  \/ CallStop
  \/ \E s \in Sides :
       \/ InitAttr(s) \/ CreateWorks(s) \/ CreateFails(s)
       \/ Join(s) \/ DestroyAttr(s)
       \/ ThreadServes(s) \/ ThreadEnds(s)

AgentSpec == AgentInit /\ [][AgentNext]_lifeVars

-----------------------------------------------------------------------------
\* Every variable keeps its type.
AgentTypeOK ==
  /\ flag \in [Sides -> BOOLEAN]
  /\ thread \in [Sides -> Alive \cup {"none", "ended"}]
  /\ attr \in [Sides -> AttrStates]
  /\ caller \in {"idle", "attr", "create", "join", "destroy"} \X Sides
  /\ started \in BOOLEAN
  /\ initFailed \subseteq Sides

\* Between two calls a flag is set exactly while its thread is alive, whoever
\* ended it: a start creates neither a second thread nor none
\* (ipc_mq.cpp:424, :438, :177).
FlagIsAlive ==
  caller = Idle => \A s \in Sides : flag[s] = (thread[s] \in Alive)

\* ipcAgentStop joins only threads that were created and not joined before,
\* whatever failed in the starts before it (ipc_mq.cpp:496, :513).
JoinsOnlyCreated ==
  \A s \in Sides : caller = <<"join", s>> => thread[s] # "none"

\* An attribute is used or destroyed while it is not live only on a side whose
\* last initThreadAttr failed, which its caller ignored (thread_attr.cpp:141).
MisuseOnlyAfterFailedInit ==
  \A s \in Sides :
    caller \in {<<"create", s>>, <<"destroy", s>>} /\ attr[s] # "live" => s \in initFailed

\* Starting and stopping keep flags, threads and attributes together: between
\* two calls a flag is set exactly while its thread is alive, whoever ended it;
\* a stop joins only threads that were created and not joined before, whatever
\* failed in the starts; and an attribute that is not live is used only after
\* an initThreadAttr whose failure was ignored (ipc_mq.cpp:424, :438, :496,
\* :513, thread_attr.cpp:141).
FlagTellsTruth == FlagIsAlive /\ JoinsOnlyCreated /\ MisuseOnlyAfterFailedInit
=============================================================================
