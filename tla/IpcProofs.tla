----------------------------- MODULE IpcProofs ------------------------------
(***************************************************************************)
(* Theorems about the inter-process agent, for every capacity of the two   *)
(* queues, any number of notify threads and any number of messages: its    *)
(* start and stop, its receive half and its send half.                     *)
(***************************************************************************)
EXTENDS IpcReceive, IpcSend, IpcAgent, TLAPS

-----------------------------------------------------------------------------
(***************************************************************************)
(* Starting and stopping.                                                  *)
(***************************************************************************)
Agrees(s) == flag[s] <=> thread[s] \in Alive

\* What each step of the caller may rely on.
CallerInv ==
  /\ caller = Idle => \A s \in Sides : Agrees(s)
  /\ \A s \in Sides :
       /\ caller = <<"attr", s>> => ~flag[s] /\ thread[s] \notin Alive
       /\ caller = <<"create", s>> => flag[s] /\ thread[s] \notin Alive
       /\ caller \in {<<"attr", s>>, <<"create", s>>} =>
            \A r \in Sides \ {s} : Agrees(r)
       /\ caller \in {<<"join", s>>, <<"destroy", s>>} =>
            \A r \in Sides : ~flag[r]
       /\ caller = <<"join", s>> => thread[s] # "none"
       /\ caller = <<"destroy", s>> => thread[s] = "none"
  /\ caller \in {<<"attr", "send">>, <<"create", "send">>} =>
       thread["recv"] # "none"
  /\ caller \in {<<"join", "recv">>, <<"destroy", "recv">>} =>
       thread["send"] # "none"
  /\ caller = <<"join", "send">> => thread["recv"] = "none"
  /\ caller = <<"destroy", "send">> => thread["recv"] = "none"

\* A start that was reported has a thread to join on each side, until a stop.
StartedInv ==
  \A s \in Sides :
    /\ started => thread[s] # "none"
    /\ caller \in {<<"join", s>>, <<"destroy", s>>} => ~started

\* The attribute that a thread was, or is about to be, created with.
AttrInv ==
  \A s \in Sides :
    \/ thread[s] # "none"
    \/ caller \in {<<"create", s>>, <<"destroy", s>>}
    => attr[s] = "live" \/ s \in initFailed

AgentInv == AgentTypeOK /\ CallerInv /\ StartedInv /\ AttrInv

LEMMA AgentInvInit == AgentInit => AgentInv
<1> SUFFICES ASSUME AgentInit PROVE AgentInv
  OBVIOUS
<1> USE DEF AgentInit, Idle, Sides, Alive
<1>1. AgentTypeOK
  BY DEF AgentTypeOK, AttrStates
<1>2. CallerInv
  BY DEF CallerInv, Agrees
<1>3. StartedInv /\ AttrInv
  BY DEF StartedInv, AttrInv
<1> QED BY <1>1, <1>2, <1>3 DEF AgentInv

LEMMA AgentInvStep ==
  ASSUME AgentInv, [AgentNext]_lifeVars
  PROVE  AgentInv'
<1> USE DEF AgentInv, AgentTypeOK, Idle, Sides, Alive
<1>1. CASE CallStart
  <2> USE DEF CallStart, Begin
  <2>1. AgentTypeOK'
    BY <1>1 DEF AttrStates
  <2>2. CallerInv'
    BY <1>1 DEF CallerInv, StartedInv, Agrees
  <2>3. StartedInv'
    BY <1>1 DEF CallerInv, StartedInv, Agrees
  <2>4. AttrInv'
    BY <1>1 DEF CallerInv, AttrInv
  <2> QED BY <2>1, <2>2, <2>3, <2>4
<1>2. CASE CallStop
  <2> USE DEF CallStop
  <2>1. AgentTypeOK'
    BY <1>2 DEF AttrStates
  <2>2. CallerInv'
    BY <1>2 DEF CallerInv, StartedInv, Agrees
  <2>3. StartedInv'
    BY <1>2 DEF CallerInv, StartedInv, Agrees
  <2>4. AttrInv'
    BY <1>2 DEF CallerInv, AttrInv
  <2> QED BY <2>1, <2>2, <2>3, <2>4
<1>3. ASSUME NEW s \in Sides, InitAttr(s) PROVE AgentInv'
  <2> USE DEF InitAttr, initThreadAttr, setThreadPriority,
                destoryThreadAttr, Outcome
  <2>1. AgentTypeOK'
    BY <1>3 DEF AttrStates
  <2>2. CallerInv'
    BY <1>3 DEF CallerInv, StartedInv, Agrees
  <2>3. StartedInv'
    BY <1>3 DEF CallerInv, StartedInv, Agrees
  <2>4. AttrInv'
    BY <1>3 DEF CallerInv, AttrInv
  <2> QED BY <2>1, <2>2, <2>3, <2>4
<1>4. ASSUME NEW s \in Sides, CreateWorks(s) PROVE AgentInv'
  <2> USE DEF CreateWorks
  <2>1. AgentTypeOK'
    BY <1>4 DEF AttrStates
  <2>2. CallerInv'
    BY <1>4 DEF CallerInv, StartedInv, Agrees
  <2>3. StartedInv'
    BY <1>4 DEF CallerInv, StartedInv, Agrees
  <2>4. AttrInv'
    BY <1>4 DEF CallerInv, AttrInv
  <2> QED BY <2>1, <2>2, <2>3, <2>4
<1>5. ASSUME NEW s \in Sides, CreateFails(s) PROVE AgentInv'
  <2> USE DEF CreateFails
  <2>1. AgentTypeOK'
    BY <1>5 DEF AttrStates
  <2>2. CallerInv'
    BY <1>5 DEF CallerInv, StartedInv, Agrees
  <2>3. StartedInv'
    BY <1>5 DEF CallerInv, StartedInv, Agrees
  <2>4. AttrInv'
    BY <1>5 DEF CallerInv, AttrInv
  <2> QED BY <2>1, <2>2, <2>3, <2>4
<1>6. ASSUME NEW s \in Sides, Join(s) PROVE AgentInv'
  <2> USE DEF Join
  <2>1. AgentTypeOK'
    BY <1>6 DEF AttrStates
  <2>2. CallerInv'
    BY <1>6 DEF CallerInv, StartedInv, Agrees
  <2>3. StartedInv'
    BY <1>6 DEF CallerInv, StartedInv, Agrees
  <2>4. AttrInv'
    BY <1>6 DEF CallerInv, AttrInv
  <2> QED BY <2>1, <2>2, <2>3, <2>4
<1>7. ASSUME NEW s \in Sides, DestroyAttr(s) PROVE AgentInv'
  <2> USE DEF DestroyAttr, destoryThreadAttr, Outcome
  <2>1. AgentTypeOK'
    BY <1>7 DEF AttrStates
  <2>2. CallerInv'
    BY <1>7 DEF CallerInv, StartedInv, Agrees
  <2>3. StartedInv'
    BY <1>7 DEF CallerInv, StartedInv, Agrees
  <2>4. AttrInv'
    BY <1>7 DEF CallerInv, AttrInv
  <2> QED BY <2>1, <2>2, <2>3, <2>4
<1>8. ASSUME NEW s \in Sides, ThreadServes(s) PROVE AgentInv'
  <2> USE DEF ThreadServes
  <2>1. AgentTypeOK'
    BY <1>8 DEF AttrStates
  <2>2. CallerInv'
    BY <1>8 DEF CallerInv, StartedInv, Agrees
  <2>3. StartedInv'
    BY <1>8 DEF CallerInv, StartedInv, Agrees
  <2>4. AttrInv'
    BY <1>8 DEF CallerInv, AttrInv
  <2> QED BY <2>1, <2>2, <2>3, <2>4
<1>9. ASSUME NEW s \in Sides, ThreadEnds(s) PROVE AgentInv'
  <2> USE DEF ThreadEnds
  <2>1. AgentTypeOK'
    BY <1>9 DEF AttrStates
  <2>2. CallerInv'
    BY <1>9 DEF CallerInv, StartedInv, Agrees
  <2>3. StartedInv'
    BY <1>9 DEF CallerInv, StartedInv, Agrees
  <2>4. AttrInv'
    BY <1>9 DEF CallerInv, AttrInv
  <2> QED BY <2>1, <2>2, <2>3, <2>4
<1>10. CASE UNCHANGED lifeVars
  <2> USE DEF lifeVars
  <2>1. AgentTypeOK'
    BY <1>10 DEF AttrStates
  <2>2. CallerInv'
    BY <1>10 DEF CallerInv, StartedInv, Agrees
  <2>3. StartedInv'
    BY <1>10 DEF CallerInv, StartedInv, Agrees
  <2>4. AttrInv'
    BY <1>10 DEF CallerInv, AttrInv
  <2> QED BY <2>1, <2>2, <2>3, <2>4
<1> QED
  BY <1>1, <1>2, <1>3, <1>4, <1>5, <1>6, <1>7, <1>8, <1>9, <1>10 DEF AgentNext

\* Whatever fails in initThreadAttr and pthread_create and whenever a thread
\* ends by itself, flags, threads and attributes stay together through any
\* sequence of starts and stops: AgentSpec => []FlagTellsTruth.
THEOREM AgentFlags == AgentSpec => []FlagTellsTruth
<1>1. AgentInv => FlagTellsTruth
  <2> SUFFICES ASSUME AgentInv PROVE FlagTellsTruth
    OBVIOUS
  <2>1. FlagIsAlive
    BY DEF AgentInv, AgentTypeOK, CallerInv, Agrees, FlagIsAlive
  <2>2. JoinsOnlyCreated
    BY DEF AgentInv, CallerInv, JoinsOnlyCreated
  <2>3. MisuseOnlyAfterFailedInit
    BY DEF AgentInv, AttrInv, MisuseOnlyAfterFailedInit
  <2> QED BY <2>1, <2>2, <2>3 DEF FlagTellsTruth
<1>2. AgentInv /\ [AgentNext]_lifeVars => AgentInv'
  BY AgentInvStep
<1> QED BY <1>1, <1>2, AgentInvInit, PTL DEF AgentSpec

-----------------------------------------------------------------------------
(***************************************************************************)
(* The receive half.                                                       *)
(***************************************************************************)
\* From its registration until it closes the queue the receive thread, or a
\* notify thread about to renew it, has the registration; no rival comes.
Registered ==
  pc["recv"] \in {"take", "copy", "callback", "test", "pause"} =>
    /\ registered # "rival"
    /\ registered = "agent" \/ \E h \in Handlers : pc[h] = "notify"

\* The descriptor is open as long as the receive thread relies on it.
OpenInside ==
  pc["recv"] \in {"notify", "take", "copy", "callback", "test",
  "pause"} => mqd = "open"

\* The flag is up only while the thread is there to see it.
RunsInside == running => pc["recv"] \notin {"none", "close"}

AttentionInv == Registered /\ OpenInside /\ RunsInside /\ HasAttention

\* Until two threads overlap, one at most holds a message, and what it is
\* about to deliver is what it took.
DrainInv ==
  ~overlapped =>
    /\ \A t, u \in Threads : Holding(t) /\ Holding(u) => t = u
    /\ \A t \in Threads : pc[t] = "callback" => recv_buf = got[t]
    /\ \/ taken = delivered /\ \A t \in Threads : ~Holding(t)
       \/ \E t \in Threads : Holding(t) /\ taken = Append(delivered, got[t])

ReceiveInv == TypeOK /\ AttentionInv /\ DrainInv

LEMMA ReceiveInvInit == Init => ReceiveInv
<1> SUFFICES ASSUME Init PROVE ReceiveInv
  OBVIOUS
<1>1. TypeOK
  <2>1. mq \in Seq(1 .. MaxSends) /\ Len(mq) <= RECV_MAXMSG
    BY ReceiveAssumption DEF Init
  <2>2. nsent \in Ids /\ got \in [Threads -> Ids] /\ recv_buf \in Ids
    BY ReceiveAssumption DEF Init, Ids
  <2>3. taken \in Seq(Ids) /\ delivered \in Seq(Ids)
    BY DEF Init
  <2>4. running \in BOOLEAN /\ stopping \in BOOLEAN /\ overlapped \in BOOLEAN
    BY DEF Init
  <2>5. pc \in [Threads -> Steps]
    BY DEF Init, Steps
  <2> QED BY <2>1, <2>2, <2>3, <2>4, <2>5 DEF Init, TypeOK
<1>2. AttentionInv
  BY DEF Init, AttentionInv, Registered, OpenInside, RunsInside, HasAttention,
     Threads
<1>3. DrainInv
  BY DEF Init, DrainInv, Holding
<1> QED BY <1>1, <1>2, <1>3 DEF ReceiveInv

\* No step takes a variable out of its type or the queue over its capacity.
LEMMA ReceiveTypeStep ==
  ASSUME TypeOK, [Next]_vars
  PROVE  TypeOK'
<1> USE ReceiveAssumption
  DEF TypeOK, Steps, Ids, Threads, Goto, kernelVars, agentVars, bufVars,
      histVars
<1>1. CASE PeerSend
  <2>1. mq' \in Seq(1 .. MaxSends) /\ Len(mq') <= RECV_MAXMSG
    <3>1. nsent + 1 \in 1 .. MaxSends
      BY <1>1 DEF PeerSend
    <3> QED BY <1>1, <3>1 DEF PeerSend
  <2>2. nsent' \in Ids
    BY <1>1 DEF PeerSend
  <2>3. pc' \in [Threads -> Steps] /\ registered' \in {"none", "agent",
    "rival"}
    BY <1>1 DEF PeerSend
  <2> QED BY <1>1, <2>1, <2>2, <2>3 DEF PeerSend
<1>2. CASE Rival
  <2>1. mq' \in Seq(1 .. MaxSends) /\ Len(mq') <= RECV_MAXMSG
    <3>1. CASE mq # <<>> /\ mq' = Tail(mq)
      BY <3>1
    <3>2. CASE mq' = mq
      BY <3>2
    <3> QED BY <1>2, <3>1, <3>2 DEF Rival
  <2>2. registered' \in {"none", "agent", "rival"}
    BY <1>2 DEF Rival
  <2> QED BY <1>2, <2>1, <2>2 DEF Rival
<1>3. CASE Start
  BY <1>3 DEF Start
<1>4. CASE OpenFails
  BY <1>4 DEF OpenFails
<1>5. CASE OpenWorks
  BY <1>5 DEF OpenWorks
<1>6. CASE RecvRegister
  BY <1>6 DEF RecvRegister, DropRegistration
<1>7. ASSUME NEW t \in Threads, Take(t) PROVE TypeOK'
  BY <1>7 DEF Take
<1>8. ASSUME NEW t \in Threads, Copy(t) PROVE TypeOK'
  BY <1>8 DEF Copy
<1>9. ASSUME NEW t \in Threads, Callback(t) PROVE TypeOK'
  BY <1>9 DEF Callback
<1>10. ASSUME NEW t \in Threads, TakeNone(t) PROVE TypeOK'
  BY <1>10 DEF TakeNone
<1>11. CASE RecvTest
  BY <1>11 DEF RecvTest
<1>12. CASE RecvClose
  BY <1>12 DEF RecvClose, DropRegistration
<1>13. ASSUME NEW h \in Handlers, HandlerRegister(h) PROVE TypeOK'
  BY <1>13 DEF HandlerRegister
<1>14. CASE Signal
  BY <1>14 DEF Signal
<1>15. CASE Stop
  BY <1>15 DEF Stop
<1>16. CASE StopReturns
  BY <1>16 DEF StopReturns
<1>17. CASE UNCHANGED vars
  BY <1>17 DEF vars
<1>18. "recv" \in Threads /\ Handlers \subseteq Threads
  BY DEF Threads
<1> QED
  BY <1>1, <1>2, <1>3, <1>4, <1>5, <1>6, <1>7, <1>8, <1>9, <1>10, <1>11,
     <1>12, <1>13, <1>14, <1>15, <1>16, <1>17, <1>18
  DEF Next, RecvThread, Handler, Drain

\* No step leaves a message to itself or an idle agent unregistered.
LEMMA AttentionStep ==
  ASSUME TypeOK, AttentionInv, [Next]_vars
  PROVE  AttentionInv'
<1> USE ReceiveAssumption
  DEF TypeOK, AttentionInv, Registered, OpenInside, RunsInside, HasAttention,
            Threads, Goto, kernelVars, agentVars, bufVars, histVars
<1>0. "recv" \in Threads /\ pc["recv"] \in Steps
  BY DEF Threads
<1>1. CASE PeerSend
  <2>1. CASE registered' = registered /\ pc' = pc
    <3>1. Registered' /\ OpenInside' /\ RunsInside'
      BY <1>1, <2>1 DEF PeerSend
    <3>2. HasAttention'
      <4> SUFFICES ASSUME running
                   PROVE  \E t \in Threads : pc[t] \in
                            {"open", "notify", "take", "copy", "callback"}
        BY <1>1, <2>1 DEF PeerSend
      <4>1. CASE mq # <<>>
        BY <4>1
      <4>2. CASE pc["recv"] \in {"test", "pause"} /\ registered # "agent"
        <5>1. PICK h \in Handlers : pc[h] = "notify"
          BY <4>2
        <5> QED BY <5>1
      <4>3. CASE pc["recv"] \notin {"test", "pause"}
        BY <1>0, <4>3 DEF Steps
      <4>4. mq # <<>> \/ registered # "agent"
        BY <1>1, <2>1 DEF PeerSend
      <4> QED BY <4>1, <4>2, <4>3, <4>4
    <3> QED BY <3>1, <3>2
  <2>2. ASSUME NEW h \in Handlers, pc' = [pc EXCEPT ![h] = "notify"],
               registered' = "none"
        PROVE  AttentionInv'
    <3>1. pc'[h] = "notify" /\ pc'["recv"] = pc["recv"]
      BY <2>2
    <3>2. Registered' /\ OpenInside' /\ RunsInside'
      BY <1>1, <2>2, <3>1 DEF PeerSend
    <3>3. HasAttention'
      BY <3>1
    <3> QED BY <3>2, <3>3
  <2> QED BY <1>1, <2>1, <2>2 DEF PeerSend
<1>2. CASE Rival
  BY <1>2 DEF Rival
<1>3. CASE Start
  BY <1>3 DEF Start
<1>4. CASE OpenFails
  BY <1>4 DEF OpenFails
<1>5. CASE OpenWorks
  BY <1>5 DEF OpenWorks
<1>6. CASE RecvRegister
  <2>1. CASE registered = "none"
    <3>1. /\ pc' = [pc EXCEPT !["recv"] = "take"] /\ registered' = "agent"
          /\ UNCHANGED agentVars
      BY <1>6, <2>1 DEF RecvRegister
    <3>2. pc'["recv"] = "take"
      BY <1>0, <3>1
    <3>3. mqd = "open"
      BY <1>6 DEF RecvRegister
    <3> QED BY <1>0, <3>1, <3>2, <3>3
  <2>2. CASE registered # "none"
    <3>1. pc' = [pc EXCEPT !["recv"] = "none"] /\ running' = FALSE
      BY <1>6, <2>2 DEF RecvRegister
    <3>2. pc'["recv"] = "none"
      BY <1>0, <3>1
    <3> QED BY <3>1, <3>2
  <2> QED BY <2>1, <2>2
<1>7. ASSUME NEW t \in Threads, Take(t) PROVE AttentionInv'
  BY <1>7 DEF Take
<1>8. ASSUME NEW t \in Threads, Copy(t) PROVE AttentionInv'
  BY <1>8 DEF Copy
<1>9. ASSUME NEW t \in Threads, Callback(t) PROVE AttentionInv'
  BY <1>9 DEF Callback
<1>10. ASSUME NEW t \in Threads, TakeNone(t) PROVE AttentionInv'
  <2> DEFINE to == IF t = "recv" THEN "test" ELSE "none"
  <2>1. /\ pc[t] = "take" /\ pc' = [pc EXCEPT ![t] = to]
        /\ mqd # "open" \/ mq = <<>>
        /\ UNCHANGED <<mq, registered, mqd, running>>
    BY <1>10 DEF TakeNone
  <2>2. \A h \in Handlers : pc[h] = "notify" => pc'[h] = "notify"
    BY <2>1
  <2>3. /\ t = "recv" => pc'["recv"] = "test"
        /\ t # "recv" => pc'["recv"] = pc["recv"]
    BY <1>0, <2>1
  <2>4. Registered'
    BY <2>1, <2>2, <2>3
  <2>5. OpenInside' /\ RunsInside'
    BY <2>1, <2>3
  <2>6. HasAttention'
    <3> SUFFICES ASSUME running, mqd # "open"
                 PROVE  pc'["recv"] \in {"open", "notify"}
      BY <1>0, <2>1
    <3> QED BY <1>0, <2>1, <2>3 DEF Steps
  <2> QED BY <2>4, <2>5, <2>6
<1>11. CASE RecvTest
  BY <1>11 DEF RecvTest
<1>12. CASE RecvClose
  BY <1>12 DEF RecvClose, DropRegistration
<1>13. ASSUME NEW h \in Handlers, HandlerRegister(h) PROVE AttentionInv'
  BY <1>13 DEF HandlerRegister
<1>14. CASE Signal
  BY <1>14 DEF Signal
<1>15. CASE Stop
  BY <1>15 DEF Stop
<1>16. CASE StopReturns
  BY <1>16 DEF StopReturns
<1>17. CASE UNCHANGED vars
  BY <1>17 DEF vars
<1>18. "recv" \in Threads /\ Handlers \subseteq Threads
  BY DEF Threads
<1> QED
  BY <1>1, <1>2, <1>3, <1>4, <1>5, <1>6, <1>7, <1>8, <1>9, <1>10, <1>11,
     <1>12, <1>13, <1>14, <1>15, <1>16, <1>17, <1>18
  DEF Next, RecvThread, Handler, Drain

\* No step of a lone thread delivers anything but the message it took.
LEMMA DrainStep ==
  ASSUME TypeOK, DrainInv, [Next]_vars
  PROVE  DrainInv'
<1> USE ReceiveAssumption
  DEF TypeOK, DrainInv, Holding, Goto, kernelVars, agentVars, bufVars, histVars
<1>1. CASE PeerSend
  BY <1>1 DEF PeerSend
<1>2. CASE Rival
  BY <1>2 DEF Rival
<1>3. CASE Start
  BY <1>3 DEF Start
<1>4. CASE OpenFails
  BY <1>4 DEF OpenFails
<1>5. CASE OpenWorks
  BY <1>5 DEF OpenWorks
<1>6. CASE RecvRegister
  BY <1>6 DEF RecvRegister, DropRegistration
<1>7. ASSUME NEW t \in Threads, Take(t) PROVE DrainInv'
  BY <1>7 DEF Take
<1>8. ASSUME NEW t \in Threads, Copy(t) PROVE DrainInv'
  BY <1>8 DEF Copy
<1>9. ASSUME NEW t \in Threads, Callback(t) PROVE DrainInv'
  BY <1>9 DEF Callback
<1>10. ASSUME NEW t \in Threads, TakeNone(t) PROVE DrainInv'
  BY <1>10 DEF TakeNone
<1>11. CASE RecvTest
  BY <1>11 DEF RecvTest
<1>12. CASE RecvClose
  BY <1>12 DEF RecvClose, DropRegistration
<1>13. ASSUME NEW h \in Handlers, HandlerRegister(h) PROVE DrainInv'
  BY <1>13 DEF HandlerRegister
<1>14. CASE Signal
  BY <1>14 DEF Signal
<1>15. CASE Stop
  BY <1>15 DEF Stop
<1>16. CASE StopReturns
  BY <1>16 DEF StopReturns
<1>17. CASE UNCHANGED vars
  BY <1>17 DEF vars
<1>18. "recv" \in Threads /\ Handlers \subseteq Threads
  BY DEF Threads
<1> QED
  BY <1>1, <1>2, <1>3, <1>4, <1>5, <1>6, <1>7, <1>8, <1>9, <1>10, <1>11,
     <1>12, <1>13, <1>14, <1>15, <1>16, <1>17, <1>18
  DEF Next, RecvThread, Handler, Drain

LEMMA ReceiveInvariance == Spec => []ReceiveInv
<1>1. ReceiveInv /\ [Next]_vars => ReceiveInv'
  BY ReceiveTypeStep, AttentionStep, DrainStep DEF ReceiveInv
<1> QED BY <1>1, ReceiveInvInit, PTL DEF Spec

\* Whatever the threads interleave, the queue stays within its capacity and
\* every variable of the receive half keeps its type: Spec => []TypeOK.
THEOREM ReceiveTypes == Spec => []TypeOK
<1>1. ReceiveInv => TypeOK
  BY DEF ReceiveInv
<1> QED BY <1>1, ReceiveInvariance, PTL

\* For any number of notify threads and any rival, no message of a running
\* agent is left to itself and no idle agent goes unnotified, as mq_notify
\* comes before the drain (ipc_mq.cpp:251, :310): Spec => []NothingSleeps.
THEOREM ReceiveAttention == Spec => []NothingSleeps
<1>1. ReceiveInv => NothingSleeps
  BY DEF ReceiveInv, AttentionInv, Registered, NothingSleeps, IdleIsRegistered
<1> QED BY <1>1, ReceiveInvariance, PTL

\* As long as no two threads are at the shared recv_buf together, the callback
\* is given every message once, in order and unchanged
\* (ipc_mq.cpp:257-260, :321-324): Spec => []LoneDrainIsExact.
THEOREM ReceiveExactly == Spec => []LoneDrainIsExact
<1>1. ReceiveInv => LoneDrainIsExact
  BY DEF ReceiveInv, DrainInv, LoneDrainIsExact
<1> QED BY <1>1, ReceiveInvariance, PTL

-----------------------------------------------------------------------------
(***************************************************************************)
(* The send half.  First, what Append, Tail, Head and \o do to the order   *)
(* and to the contents of a line of messages.                              *)
(***************************************************************************)
Before(S, T) == \A a \in S, b \in T : a < b
Mark(m) == {m} \ {0}

LEMMA InContents ==
  ASSUME NEW s, NEW x
  PROVE  x \in Contents(s) <=> x # 0 /\ \E i \in 1 .. Len(s) : s[i] = x
BY DEF Contents

LEMMA AppendLine ==
  ASSUME NEW s \in Seq(Nat), NEW m \in Nat
  PROVE  /\ Contents(Append(s, m)) = Contents(s) \cup Mark(m)
         /\ Rising(Append(s, m)) <=> Rising(s) /\ Before(Contents(s), Mark(m))
<1> DEFINE t == Append(s, m)
<1>1. /\ Len(t) = Len(s) + 1 /\ t[Len(s) + 1] = m
      /\ \A i \in 1 .. Len(s) : t[i] = s[i]
  OBVIOUS
<1> HIDE DEF t
<1>2. Len(s) \in Nat /\ \A i \in 1 .. Len(s) : s[i] \in Nat
  OBVIOUS
<1>3. \A i \in 1 .. Len(t) : i \in 1 .. Len(s) \/ i = Len(s) + 1
  BY <1>1, <1>2
<1>4. \A i \in 1 .. Len(s) : i \in 1 .. Len(t) /\ Len(s) + 1 \in 1 .. Len(t)
  BY <1>1, <1>2
<1>5. Len(s) + 1 \in 1 .. Len(t)
  BY <1>1, <1>2
<1>6. Contents(t) = Contents(s) \cup Mark(m)
  <2>1. ASSUME NEW x \in Contents(t) PROVE x \in Contents(s) \cup Mark(m)
    <3>1. x # 0 /\ \E i \in 1 .. Len(t) : t[i] = x
      BY InContents
    <3>2. PICK i \in 1 .. Len(t) : t[i] = x
      BY <3>1
    <3>3. CASE i \in 1 .. Len(s)
      BY <1>1, <3>1, <3>2, <3>3, InContents
    <3>4. CASE i = Len(s) + 1
      BY <1>1, <3>1, <3>2, <3>4 DEF Mark
    <3> QED BY <1>3, <3>3, <3>4
  <2>2. ASSUME NEW x \in Contents(s) PROVE x \in Contents(t)
    <3>1. x # 0 /\ \E i \in 1 .. Len(s) : s[i] = x
      BY InContents
    <3>2. PICK i \in 1 .. Len(s) : s[i] = x
      BY <3>1
    <3>3. i \in 1 .. Len(t) /\ t[i] = x
      BY <1>1, <1>4, <3>2
    <3> QED BY <3>1, <3>3, InContents
  <2>3. ASSUME NEW x \in Mark(m) PROVE x \in Contents(t)
    <3>1. x # 0 /\ t[Len(s) + 1] = x
      BY <1>1 DEF Mark
    <3> QED BY <1>5, <3>1, InContents
  <2> QED BY <2>1, <2>2, <2>3
<1>7. ASSUME Rising(t) PROVE Rising(s) /\ Before(Contents(s), Mark(m))
  <2>1. Rising(s)
    BY <1>1, <1>2, <1>4, <1>7 DEF Rising
  <2>2. Before(Contents(s), Mark(m))
    <3> SUFFICES ASSUME NEW a \in Contents(s), m # 0 PROVE a < m
      BY DEF Before, Mark
    <3>1. a # 0 /\ \E i \in 1 .. Len(s) : s[i] = a
      BY InContents
    <3>2. PICK i \in 1 .. Len(s) : s[i] = a
      BY <3>1
    <3>3. i < Len(s) + 1 /\ t[i] = a /\ t[Len(s) + 1] = m /\ i \in 1 .. Len(t)
      BY <1>1, <1>2, <1>4, <3>2
    <3> QED BY <1>5, <1>7, <3>1, <3>3 DEF Rising
  <2> QED BY <2>1, <2>2
<1>8. ASSUME Rising(s), Before(Contents(s), Mark(m)) PROVE Rising(t)
  <2> SUFFICES ASSUME NEW i \in 1 .. Len(t), NEW j \in 1 .. Len(t),
                      i < j, t[i] # 0, t[j] # 0
               PROVE  t[i] < t[j]
    BY DEF Rising
  <2>1. i \in 1 .. Len(s)
    BY <1>1, <1>2
  <2>2. CASE j \in 1 .. Len(s)
    BY <1>1, <1>8, <2>1, <2>2 DEF Rising
  <2>3. CASE j = Len(s) + 1
    <3>1. t[i] = s[i] /\ t[j] = m
      BY <1>1, <2>1, <2>3
    <3>2. t[i] \in Contents(s) /\ m \in Mark(m)
      BY <2>1, <3>1, InContents DEF Mark
    <3> QED BY <1>8, <3>1, <3>2 DEF Before
  <2> QED BY <1>3, <2>2, <2>3
<1> QED BY <1>6, <1>7, <1>8 DEF t

LEMMA TailLine ==
  ASSUME NEW s \in Seq(Nat), s # <<>>
  PROVE  /\ Head(s) \in Nat /\ Tail(s) \in Seq(Nat)
         /\ Contents(s) = Mark(Head(s)) \cup Contents(Tail(s))
         /\ Rising(s) =>
              Rising(Tail(s)) /\ Before(Mark(Head(s)), Contents(Tail(s)))
<1> DEFINE t == Tail(s)
<1>1. /\ t \in Seq(Nat) /\ Len(t) = Len(s) - 1 /\ Head(s) = s[1]
      /\ \A i \in 1 .. Len(t) : t[i] = s[i + 1]
  OBVIOUS
<1>2. Len(s) \in Nat \ {0} /\ \A i \in 1 .. Len(s) : s[i] \in Nat
  OBVIOUS
<1> HIDE DEF t
<1>3. /\ 1 \in 1 .. Len(s)
      /\ \A i \in 1 .. Len(t) : i + 1 \in 1 .. Len(s) /\ 1 < i + 1
  BY <1>1, <1>2
<1>4. Contents(s) = Mark(Head(s)) \cup Contents(t)
  <2>1. ASSUME NEW x \in Contents(s) PROVE x \in Mark(Head(s)) \cup Contents(t)
    <3>1. x # 0 /\ \E i \in 1 .. Len(s) : s[i] = x
      BY InContents
    <3>2. PICK i \in 1 .. Len(s) : s[i] = x
      BY <3>1
    <3>3. CASE i = 1
      BY <1>1, <3>1, <3>2, <3>3 DEF Mark
    <3>4. CASE i # 1
      <4>1. i - 1 \in 1 .. Len(t) /\ (i - 1) + 1 = i
        BY <1>1, <1>2, <3>4
      <4>2. t[i - 1] = x
        BY <1>1, <3>2, <4>1
      <4> QED BY <3>1, <4>1, <4>2, InContents
    <3> QED BY <3>3, <3>4
  <2>2. ASSUME NEW x \in Contents(t) PROVE x \in Contents(s)
    <3>1. x # 0 /\ \E i \in 1 .. Len(t) : t[i] = x
      BY InContents
    <3>2. PICK i \in 1 .. Len(t) : t[i] = x
      BY <3>1
    <3>3. i + 1 \in 1 .. Len(s) /\ s[i + 1] = x
      BY <1>1, <1>3, <3>2
    <3> QED BY <3>1, <3>3, InContents
  <2>3. ASSUME NEW x \in Mark(Head(s)) PROVE x \in Contents(s)
    <3>1. x # 0 /\ s[1] = x
      BY <1>1 DEF Mark
    <3> QED BY <1>3, <3>1, InContents
  <2> QED BY <2>1, <2>2, <2>3
<1>5. ASSUME Rising(s) PROVE Rising(t) /\ Before(Mark(Head(s)), Contents(t))
  <2>1. Rising(t)
    <3> SUFFICES ASSUME NEW i \in 1 .. Len(t), NEW j \in 1 .. Len(t),
                        i < j, t[i] # 0, t[j] # 0
                 PROVE  t[i] < t[j]
      BY DEF Rising
    <3>1. t[i] = s[i + 1] /\ t[j] = s[j + 1] /\ i + 1 < j + 1
      BY <1>1
    <3>2. i + 1 \in 1 .. Len(s) /\ j + 1 \in 1 .. Len(s)
      BY <1>3
    <3> QED BY <1>5, <3>1, <3>2 DEF Rising
  <2>2. Before(Mark(Head(s)), Contents(t))
    <3> SUFFICES ASSUME s[1] # 0, NEW b \in Contents(t) PROVE s[1] < b
      BY <1>1 DEF Before, Mark
    <3>1. b # 0 /\ \E i \in 1 .. Len(t) : t[i] = b
      BY InContents
    <3>2. PICK i \in 1 .. Len(t) : t[i] = b
      BY <3>1
    <3>3. i + 1 \in 1 .. Len(s) /\ s[i + 1] = b /\ 1 < i + 1
      BY <1>1, <1>3, <3>2
    <3> QED BY <1>3, <1>5, <3>1, <3>3 DEF Rising
  <2> QED BY <2>1, <2>2
<1> QED BY <1>1, <1>2, <1>3, <1>4, <1>5 DEF t

LEMMA JoinLines ==
  ASSUME NEW s \in Seq(Nat), NEW t \in Seq(Nat)
  PROVE  /\ s \o t \in Seq(Nat)
         /\ Contents(s \o t) = Contents(s) \cup Contents(t)
         /\ Rising(s) /\ Rising(t) /\ Before(Contents(s), Contents(t))
              => Rising(s \o t)
<1> DEFINE u == s \o t
           l == Len(s)
           n == Len(t)
<1>1. /\ Len(u) = l + n /\ l \in Nat /\ n \in Nat /\ u \in Seq(Nat)
      /\ \A i \in 1 .. l : u[i] = s[i]
      /\ \A i \in 1 .. n : u[l + i] = t[i]
  OBVIOUS
<1> HIDE DEF u, l, n
<1>2. ASSUME NEW i \in 1 .. Len(u), i \notin 1 .. l
      PROVE  i - l \in 1 .. n /\ u[i] = t[i - l]
  <2>1. i - l \in 1 .. n /\ l + (i - l) = i
    BY <1>1, <1>2
  <2> QED BY <1>1, <2>1
<1>3. /\ \A i \in 1 .. n : l + i \in 1 .. Len(u)
      /\ \A i \in 1 .. l : i \in 1 .. Len(u)
  BY <1>1
<1>4. Contents(u) = Contents(s) \cup Contents(t)
  <2>1. ASSUME NEW x \in Contents(u) PROVE x \in Contents(s) \cup Contents(t)
    <3>1. x # 0 /\ \E i \in 1 .. Len(u) : u[i] = x
      BY InContents
    <3>2. PICK i \in 1 .. Len(u) : u[i] = x
      BY <3>1
    <3>3. CASE i \in 1 .. l
      BY <1>1, <3>1, <3>2, <3>3, InContents DEF l
    <3>4. CASE i \notin 1 .. l
      BY <1>2, <3>1, <3>2, <3>4, InContents DEF n
    <3> QED BY <3>3, <3>4
  <2>2. ASSUME NEW x \in Contents(s) PROVE x \in Contents(u)
    <3>1. x # 0 /\ \E i \in 1 .. l : s[i] = x
      BY InContents DEF l
    <3> QED BY <1>1, <1>3, <3>1, InContents
  <2>3. ASSUME NEW x \in Contents(t) PROVE x \in Contents(u)
    <3>1. x # 0 /\ \E i \in 1 .. n : t[i] = x
      BY InContents DEF n
    <3>2. PICK i \in 1 .. n : t[i] = x
      BY <3>1
    <3>3. l + i \in 1 .. Len(u) /\ u[l + i] = x
      BY <1>1, <1>3, <3>2
    <3> QED BY <3>1, <3>3, InContents
  <2> QED BY <2>1, <2>2, <2>3
<1>5. ASSUME Rising(s), Rising(t), Before(Contents(s), Contents(t))
      PROVE  Rising(u)
  <2> SUFFICES ASSUME NEW i \in 1 .. Len(u), NEW j \in 1 .. Len(u),
                      i < j, u[i] # 0, u[j] # 0
               PROVE  u[i] < u[j]
    BY DEF Rising
  <2>1. CASE j \in 1 .. l
    <3>1. i \in 1 .. l
      BY <1>1, <2>1
    <3> QED BY <1>1, <1>5, <2>1, <3>1 DEF Rising, l
  <2>2. CASE i \in 1 .. l /\ j \notin 1 .. l
    <3>1. u[i] \in Contents(s)
      BY <1>1, <2>2, InContents DEF l
    <3>2. u[j] \in Contents(t)
      BY <1>2, <2>2, InContents DEF n
    <3> QED BY <1>5, <3>1, <3>2 DEF Before
  <2>3. CASE i \notin 1 .. l /\ j \notin 1 .. l
    <3>1. /\ i - l \in 1 .. n /\ u[i] = t[i - l]
          /\ j - l \in 1 .. n /\ u[j] = t[j - l]
      BY <1>2, <2>3
    <3>2. i - l < j - l
      BY <1>1
    <3> QED BY <1>5, <3>1, <3>2 DEF Rising, n
  <2> QED BY <2>1, <2>2, <2>3
<1> QED BY <1>1, <1>4, <1>5 DEF u

-----------------------------------------------------------------------------
(***************************************************************************)
(* The invariant of the send half.                                         *)
(***************************************************************************)
\* The sleeps that doubling can reach, and what has been slept before each.
Sleeps == {5000, 10000, 20000, 40000, 80000, 160000, 320000, 640000,
           1280000, 2560000, 5120000}
BackoffInv == sleepUs \in Sleeps /\ slept + FIRST_SLEEP = sleepUs

\* The thread holds a message exactly while it tries to send it.
HoldsInv == msg # 0 <=> spc \in {"send", "sleep"}

\* The four places of a message, each in order and each before the next, and
\* together all that was enqueued and not given up.
OrderInv ==
  LET A == Contents(arrived)
      Q == Contents(send_mq)
      M == Mark(msg)
      W == Contents(queue)
  IN  /\ Rising(arrived) /\ Rising(send_mq) /\ Rising(queue)
      /\ Before(A, Q) /\ Before(A, M) /\ Before(A, W)
      /\ Before(Q, M) /\ Before(Q, W) /\ Before(M, W)
      /\ A \cup Q \cup M \cup W = (1 .. nput) \ dropped
      /\ dropped \subseteq 1 .. nput

SendInv == SendTypeOK /\ BackoffInv /\ HoldsInv /\ OrderInv

LEMMA SendTyped ==
  ASSUME SendTypeOK
  PROVE  /\ queue \in Seq(Nat) /\ send_mq \in Seq(Nat) /\ arrived \in Seq(Nat)
         /\ msg \in Nat /\ nput \in Nat
<1>1. SendIds \subseteq Nat /\ SendIds \cup {0} \subseteq Nat
  BY SendAssumption DEF SendIds
<1>2. nput \in Nat /\ msg \in Nat
  BY <1>1, SendAssumption DEF SendTypeOK
<1>3. queue \in Seq(Nat) /\ send_mq \in Seq(Nat) /\ arrived \in Seq(Nat)
  <2>1. \A S, T : S \subseteq T => Seq(S) \subseteq Seq(T)
    OBVIOUS
  <2> QED BY ONLY <1>1, <2>1, SendTypeOK DEF SendTypeOK
<1> QED BY <1>2, <1>3

LEMMA SleepRange ==
  ASSUME NEW x \in Sleeps, NEW y \in Int, y + FIRST_SLEEP = x
  PROVE  /\ x \in FIRST_SLEEP .. RETRY_LIMIT /\ y \in 0 .. RETRY_LIMIT
         /\ x < RETRY_LIMIT => 2 * x \in Sleeps
<1>1. FIRST_SLEEP \in Int /\ RETRY_LIMIT \in Int /\ x \in Int
  BY SMT DEF FIRST_SLEEP, RETRY_LIMIT, Sleeps
<1>2. FIRST_SLEEP <= x /\ x <= RETRY_LIMIT /\ 0 <= FIRST_SLEEP
  BY SMT DEF FIRST_SLEEP, RETRY_LIMIT, Sleeps
<1>3. x < RETRY_LIMIT => 2 * x \in Sleeps
  BY SMT DEF RETRY_LIMIT, Sleeps
<1> QED BY <1>1, <1>2, <1>3

LEMMA SendInvInit == SendInit => SendInv
<1> SUFFICES ASSUME SendInit PROVE SendInv
  OBVIOUS
<1>1. SendTypeOK
  <2>1. /\ queue \in Seq(SendIds) /\ send_mq \in Seq(SendIds \cup {0})
        /\ arrived \in Seq(SendIds \cup {0}) /\ Len(send_mq) <= SEND_MAXMSG
    BY SendAssumption DEF SendInit
  <2>2. nput \in 0 .. MaxMsgs /\ ndirect \in 0 .. MaxDirect
    BY SendAssumption DEF SendInit
  <2>3. sleepUs \in FIRST_SLEEP .. RETRY_LIMIT /\ slept \in 0 .. RETRY_LIMIT
    <3>1. sleepUs \in Sleeps /\ slept = 0 /\ slept + FIRST_SLEEP = sleepUs
      BY SMT DEF SendInit, Sleeps, FIRST_SLEEP
    <3> QED BY <3>1, SleepRange
  <2>4. /\ spare \in BOOLEAN /\ sendRunning \in BOOLEAN
        /\ sendStopping \in BOOLEAN
    BY DEF SendInit
  <2> QED BY <2>1, <2>2, <2>3, <2>4 DEF SendInit, SendTypeOK
<1>2. BackoffInv /\ HoldsInv
  BY SMT DEF SendInit, BackoffInv, Sleeps, FIRST_SLEEP, HoldsInv
<1>3. OrderInv
  <2>1. Contents(<<>>) = {} /\ Rising(<<>>) /\ Mark(0) = {} /\ 1 .. 0 = {}
    BY DEF Contents, Rising, Mark
  <2> QED BY <2>1 DEF SendInit, OrderInv, Before
<1> QED BY <1>1, <1>2, <1>3 DEF SendInv

\* No step takes a variable out of its type, the sleep off the powers of two
\* or the held message away from the send loop.
LEMMA SendTypeStep ==
  ASSUME SendTypeOK, BackoffInv, HoldsInv, [SendNext]_sendVars
  PROVE  SendTypeOK' /\ BackoffInv' /\ HoldsInv'
<1> USE SendAssumption DEF SendTypeOK, SendIds, HoldsInv,
                           queueVars, peerVars, senderVars, msgVars
<1> DEFINE P == SendTypeOK' /\ BackoffInv' /\ HoldsInv'
<1>1. CASE EnQueue
  <2>1. nput + 1 \in SendIds /\ nput' \in 0 .. MaxMsgs
    BY <1>1 DEF EnQueue
  <2>2. queue' \in Seq(SendIds)
    BY <1>1, <2>1 DEF EnQueue
  <2> QED BY <1>1, <2>1, <2>2 DEF EnQueue, BackoffInv
<1>2. CASE SendDirect
  <2>1. /\ send_mq' \in Seq(SendIds \cup {0}) /\ Len(send_mq') <= SEND_MAXMSG
        /\ ndirect' \in 0 .. MaxDirect
    BY <1>2 DEF SendDirect, Accepts
  <2> QED BY <1>2, <2>1 DEF SendDirect, BackoffInv
<1>3. CASE PeerReceive
  <2>1. /\ send_mq' \in Seq(SendIds \cup {0}) /\ Len(send_mq') <= SEND_MAXMSG
        /\ arrived' \in Seq(SendIds \cup {0})
    BY <1>3 DEF PeerReceive
  <2> QED BY <1>3, <2>1 DEF PeerReceive, BackoffInv
<1>4. CASE SendStart
  BY <1>4 DEF SendStart, BackoffInv
<1>5. CASE SendOpenFails
  BY <1>5 DEF SendOpenFails, BackoffInv
<1>6. CASE SendOpenWorks
  BY <1>6 DEF SendOpenWorks, BackoffInv
<1>7. CASE Test
  BY <1>7 DEF Test, BackoffInv
<1>8. CASE DeQueueEmpty
  BY <1>8 DEF DeQueueEmpty, BackoffInv
<1>9. CASE DeQueue
  <2>1. queue' \in Seq(SendIds) /\ msg' \in SendIds /\ msg' # 0
    BY <1>9 DEF DeQueue
  <2>2. /\ BackoffInv'
        /\ sleepUs' \in FIRST_SLEEP .. RETRY_LIMIT
        /\ slept' \in 0 .. RETRY_LIMIT
    <3>1. BackoffInv' /\ slept' = 0
      BY <1>9, SMT DEF DeQueue, BackoffInv, Sleeps, FIRST_SLEEP
    <3> QED BY <3>1, SleepRange DEF BackoffInv
  <2> QED BY <1>9, <2>1, <2>2 DEF DeQueue
<1>10. CASE SendWorks
  <2>1. send_mq' \in Seq(SendIds \cup {0}) /\ Len(send_mq') <= SEND_MAXMSG
    BY <1>10 DEF SendWorks, Accepts
  <2> QED BY <1>10, <2>1 DEF SendWorks, BackoffInv
<1>11. CASE SendRetry
  <2>1. /\ sleepUs \in Sleeps /\ sleepUs < RETRY_LIMIT
        /\ slept \in Int /\ slept + FIRST_SLEEP = sleepUs
        /\ slept' = slept + sleepUs /\ sleepUs' = 2 * sleepUs
    BY <1>11 DEF SendRetry, BackoffInv
  <2>2. sleepUs' \in Sleeps
    BY <2>1, SleepRange
  <2>3. slept' \in Int /\ slept' + FIRST_SLEEP = sleepUs'
    BY <2>1, SMT DEF Sleeps, FIRST_SLEEP
  <2>4. slept' \in 0 .. RETRY_LIMIT /\ sleepUs' \in FIRST_SLEEP .. RETRY_LIMIT
    BY <2>2, <2>3, SleepRange
  <2> QED BY <1>11, <2>2, <2>3, <2>4 DEF SendRetry, BackoffInv
<1>12. CASE Wake
  BY <1>12 DEF Wake, BackoffInv
<1>13. CASE SendGivesUp
  BY <1>13 DEF SendGivesUp, BackoffInv
<1>14. CASE Close
  BY <1>14 DEF Close, BackoffInv
<1>15. CASE SendStop
  BY <1>15 DEF SendStop, BackoffInv
<1>16. CASE SendStopReturns
  BY <1>16 DEF SendStopReturns, BackoffInv
<1>17. CASE UNCHANGED sendVars
  BY <1>17 DEF sendVars, BackoffInv
<1> QED
  BY <1>1, <1>2, <1>3, <1>4, <1>5, <1>6, <1>7, <1>8, <1>9, <1>10, <1>11,
     <1>12, <1>13, <1>14, <1>15, <1>16, <1>17
  DEF SendNext, SendThread

\* No step lets a message overtake another, come twice or get lost.
LEMMA OrderStep ==
  ASSUME SendTypeOK, HoldsInv, OrderInv, [SendNext]_sendVars
  PROVE  OrderInv'
<1> DEFINE lines == <<arrived, send_mq, msg, queue, nput, dropped>>
<1>0. /\ queue \in Seq(Nat) /\ send_mq \in Seq(Nat) /\ arrived \in Seq(Nat)
      /\ msg \in Nat /\ nput \in Nat
  BY SendTyped
<1>1. CASE UNCHANGED lines
  BY <1>1 DEF OrderInv
<1>2. CASE EnQueue
  <2>1. /\ queue' = Append(queue, nput + 1) /\ nput' = nput + 1
        /\ UNCHANGED <<arrived, send_mq, msg, dropped>>
    BY <1>2 DEF EnQueue, peerVars, msgVars
  <2>2. /\ Contents(queue') = Contents(queue) \cup Mark(nput + 1)
        /\ Rising(queue) /\ Before(Contents(queue), Mark(nput + 1))
             => Rising(queue')
    BY <1>0, <2>1, AppendLine
  <2>3. Mark(nput + 1) = {nput + 1} /\ 1 .. nput' = (1 .. nput) \cup {nput + 1}
    BY <1>0, <2>1 DEF Mark
  <2>4. nput + 1 \notin dropped /\ dropped' \subseteq 1 .. nput'
    BY <1>0, <2>1, <2>3 DEF OrderInv
  <2>5. \A S : S \subseteq 1 .. nput => Before(S, Mark(nput + 1))
    BY <1>0, <2>3 DEF Before
  <2>6. /\ Contents(arrived) \subseteq 1 .. nput
        /\ Contents(send_mq) \subseteq 1 .. nput
        /\ Mark(msg) \subseteq 1 .. nput /\ Contents(queue) \subseteq 1 .. nput
    BY DEF OrderInv
  <2>7. /\ Before(Contents(arrived), Contents(queue'))
        /\ Before(Contents(send_mq), Contents(queue'))
        /\ Before(Mark(msg), Contents(queue')) /\ Rising(queue')
    BY <2>2, <2>5, <2>6 DEF OrderInv, Before
  <2>8. Contents(arrived) \cup Contents(send_mq) \cup Mark(msg)
          \cup Contents(queue')
          = (1 .. nput') \ dropped
    BY <2>2, <2>3, <2>4 DEF OrderInv
  <2> QED BY <2>1, <2>4, <2>7, <2>8 DEF OrderInv
<1>3. CASE SendDirect
  <2>1. send_mq' = Append(send_mq, 0) /\ UNCHANGED <<arrived, msg, queue,
    nput, dropped>>
    BY <1>3 DEF SendDirect, msgVars
  <2>2. Mark(0) = {}
    BY DEF Mark
  <2>3. /\ Contents(send_mq') = Contents(send_mq)
        /\ Rising(send_mq) => Rising(send_mq')
    BY <1>0, <2>1, <2>2, AppendLine, ZenonT(60) DEF Before
  <2> QED BY <2>1, <2>3 DEF OrderInv
<1>4. CASE PeerReceive
  <2> DEFINE m == Head(send_mq)
  <2>1. /\ send_mq # <<>> /\ send_mq' = Tail(send_mq)
        /\ arrived' = Append(arrived, m)
        /\ UNCHANGED <<msg, queue, nput, dropped>>
    BY <1>4 DEF PeerReceive, queueVars, msgVars
  <2>2. /\ m \in Nat /\ Contents(send_mq) = Mark(m) \cup Contents(send_mq')
        /\ Rising(send_mq) =>
             Rising(send_mq') /\ Before(Mark(m), Contents(send_mq'))
    BY <1>0, <2>1, TailLine
  <2> HIDE DEF m
  <2>3. /\ Contents(arrived') = Contents(arrived) \cup Mark(m)
        /\ Rising(arrived) /\ Before(Contents(arrived), Mark(m))
             => Rising(arrived')
    BY <1>0, <2>1, <2>2, AppendLine
  <2>4. Rising(arrived') /\ Rising(send_mq') /\ Rising(queue')
    BY <2>1, <2>2, <2>3 DEF OrderInv, Before
  <2>5. /\ Before(Contents(arrived'), Contents(send_mq'))
        /\ Before(Contents(arrived'), Mark(msg))
        /\ Before(Contents(arrived'), Contents(queue))
        /\ Before(Contents(send_mq'), Mark(msg))
        /\ Before(Contents(send_mq'), Contents(queue))
    BY <2>2, <2>3 DEF OrderInv, Before
  <2>6. Contents(arrived') \cup Contents(send_mq')
          = Contents(arrived) \cup Contents(send_mq)
    BY <2>2, <2>3
  <2> QED BY <2>1, <2>4, <2>5, <2>6 DEF OrderInv
<1>5. CASE DeQueue
  <2>1. /\ queue # <<>> /\ queue' = Tail(queue) /\ msg' = Head(queue)
        /\ UNCHANGED <<arrived, send_mq, nput, dropped>> /\ msg = 0
    BY <1>5 DEF DeQueue, peerVars, HoldsInv
  <2>2. /\ Contents(queue) = Mark(msg') \cup Contents(queue')
        /\ Rising(queue) =>
             Rising(queue') /\ Before(Mark(msg'), Contents(queue'))
    BY <1>0, <2>1, TailLine
  <2>3. Mark(msg) = {}
    BY <2>1 DEF Mark
  <2>4. /\ Before(Contents(arrived), Mark(msg'))
        /\ Before(Contents(arrived), Contents(queue'))
        /\ Before(Contents(send_mq), Mark(msg'))
        /\ Before(Contents(send_mq), Contents(queue'))
    BY <2>2 DEF OrderInv, Before
  <2> QED BY <2>1, <2>2, <2>3, <2>4 DEF OrderInv
<1>6. CASE SendWorks
  <2>1. /\ send_mq' = Append(send_mq, msg) /\ msg' = 0
        /\ UNCHANGED <<arrived, queue, nput, dropped>>
    BY <1>6 DEF SendWorks, queueVars
  <2>2. /\ Contents(send_mq') = Contents(send_mq) \cup Mark(msg)
        /\ Rising(send_mq) /\ Before(Contents(send_mq), Mark(msg))
             => Rising(send_mq')
    BY <1>0, <2>1, AppendLine
  <2>3. Mark(msg') = {}
    BY <2>1 DEF Mark
  <2>4. /\ Before(Contents(arrived), Contents(send_mq'))
        /\ Before(Contents(send_mq'), Contents(queue))
    BY <2>2 DEF OrderInv, Before
  <2>5. \A S : Before(S, Mark(msg')) /\ Before(Mark(msg'), S)
    BY <2>3 DEF Before
  <2> QED BY <2>1, <2>2, <2>3, <2>4, <2>5 DEF OrderInv
<1>7. CASE SendGivesUp
  <2>1. /\ msg # 0 /\ msg' = 0 /\ dropped' = dropped \cup {msg}
        /\ UNCHANGED <<arrived, send_mq, queue, nput>>
    BY <1>7 DEF SendGivesUp, HoldsInv, queueVars, peerVars
  <2>2. Mark(msg') = {} /\ Mark(msg) = {msg}
    BY <2>1 DEF Mark
  <2>3. msg \notin
          Contents(arrived) \cup Contents(send_mq) \cup Contents(queue)
    BY <1>0, <2>2 DEF OrderInv, Before
  <2>4. msg \in 1 .. nput
    BY <2>2 DEF OrderInv
  <2>5. \A S : Before(S, Mark(msg')) /\ Before(Mark(msg'), S)
    BY <2>2 DEF Before
  <2> QED BY <2>1, <2>2, <2>3, <2>4, <2>5 DEF OrderInv
<1>8. [SendNext]_sendVars =>
        \/ UNCHANGED lines \/ EnQueue \/ SendDirect \/ PeerReceive
        \/ DeQueue \/ SendWorks \/ SendGivesUp
  BY DEF SendNext, SendThread, SendStart, SendOpenFails, SendOpenWorks, Test,
         DeQueueEmpty, SendRetry, Wake, Close, SendStop, SendStopReturns,
         queueVars, peerVars, senderVars, msgVars, sendVars
<1> QED BY <1>1, <1>2, <1>3, <1>4, <1>5, <1>6, <1>7, <1>8

LEMMA SendInvariance == SendSpec => []SendInv
<1>1. SendInv /\ [SendNext]_sendVars => SendInv'
  BY SendTypeStep, OrderStep DEF SendInv
<1> QED BY <1>1, SendInvInit, PTL DEF SendSpec

\* However the sends are retried, given up or overtaken by direct calls of
\* ipcSendCommand, the peer gets the enqueued messages in order, once and
\* without gaps but for those given up: SendSpec => []SentInOrder.
THEOREM SentWithoutOvertaking == SendSpec => []SentInOrder
<1>1. SendInv => SentInOrder
  <2> SUFFICES ASSUME SendInv PROVE SentInOrder
    OBVIOUS
  <2> DEFINE l1 == arrived \o send_mq
             l2 == l1 \o <<msg>>
  <2>0. /\ queue \in Seq(Nat) /\ send_mq \in Seq(Nat) /\ arrived \in Seq(Nat)
        /\ msg \in Nat /\ <<msg>> \in Seq(Nat)
    BY SendTyped DEF SendInv
  <2>1. Contents(<<msg>>) = Mark(msg) /\ Rising(<<msg>>)
    <3>1. <<msg>> = Append(<<>>, msg) /\ <<>> \in Seq(Nat)
      OBVIOUS
    <3>2. Contents(<<>>) = {} /\ Rising(<<>>)
      BY DEF Contents, Rising
    <3>3. /\ Contents(<<msg>>) = Contents(<<>>) \cup Mark(msg)
          /\ Rising(<<msg>>) <=>
               Rising(<<>>) /\ Before(Contents(<<>>), Mark(msg))
      BY ONLY <2>0, <3>1, AppendLine
    <3> QED BY <3>2, <3>3 DEF Before
  <2>2. /\ l1 \in Seq(Nat)
        /\ Contents(l1) = Contents(arrived) \cup Contents(send_mq)
        /\ Rising(l1)
    BY <2>0, JoinLines DEF SendInv, OrderInv
  <2> HIDE DEF l1
  <2>3. /\ Before(Contents(l1), Contents(<<msg>>))
        /\ Before(Contents(l1), Contents(queue))
    BY <2>1, <2>2 DEF SendInv, OrderInv, Before
  <2>4. /\ l2 \in Seq(Nat) /\ Contents(l2) = Contents(l1) \cup Mark(msg)
        /\ Rising(l2)
    <3>1. /\ l2 \in Seq(Nat)
          /\ Contents(l2) = Contents(l1) \cup Contents(<<msg>>)
          /\ /\ Rising(l1) /\ Rising(<<msg>>)
             /\ Before(Contents(l1), Contents(<<msg>>))
             => Rising(l2)
      BY ONLY <2>0, <2>2, JoinLines
    <3> QED BY <2>1, <2>2, <2>3, <3>1
  <2> HIDE DEF l2
  <2>5. Before(Contents(l2), Contents(queue))
    BY <2>3, <2>4 DEF SendInv, OrderInv, Before
  <2>6. /\ Contents(l2 \o queue) = Contents(l2) \cup Contents(queue)
        /\ Rising(l2 \o queue)
    BY <2>0, <2>4, <2>5, JoinLines DEF SendInv, OrderInv
  <2>7. Line = l2 \o queue
    BY DEF Line, l1, l2
  <2> QED BY <2>2, <2>4, <2>6, <2>7 DEF SendInv, OrderInv, SentInOrder
<1> QED BY <1>1, SendInvariance, PTL

\* A running agent gives no message up before it has slept at least 5.115 seconds
\* over it, whatever happened to the messages before (ipc_mq.cpp:376, :391):
\* SendSpec => DropsAreLate.
THEOREM NoEarlyDrop == SendSpec => DropsAreLate
<1>1. SendInv /\ [SendNext]_sendVars => [DropIsLate]_sendVars
  <2> SUFFICES ASSUME SendInv, SendNext, dropped' # dropped, sendRunning
               PROVE  slept >= RETRY_LIMIT - FIRST_SLEEP
    BY DEF DropIsLate
  <2>1. SendGivesUp
    BY DEF SendNext, SendThread, EnQueue, SendDirect, PeerReceive, SendStart,
           SendOpenFails, SendOpenWorks, Test, DeQueueEmpty, DeQueue,
           SendWorks,
           SendRetry, Wake, Close, SendStop, SendStopReturns
  <2>2. /\ ~(sleepUs < RETRY_LIMIT) /\ sleepUs \in Sleeps
        /\ slept + FIRST_SLEEP = sleepUs
    BY <2>1 DEF SendGivesUp, SendInv, BackoffInv
  <2>3. slept \in Int
    BY DEF SendInv, SendTypeOK
  <2>4. sleepUs = RETRY_LIMIT
    BY <2>2, SMT DEF Sleeps, RETRY_LIMIT
  <2> QED BY <2>2, <2>3, <2>4, SMT DEF FIRST_SLEEP, RETRY_LIMIT
<1> QED BY <1>1, SendInvariance, PTL DEF SendSpec, DropsAreLate
=============================================================================
