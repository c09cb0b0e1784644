------------------------------- MODULE MCCall -------------------------------
(***************************************************************************)
(* state_machine.cpp in one run: a behaviour is one of the table-driven    *)
(* machine alone, fed every condition, or of the whole service with its    *)
(* queue and its threads, fed few of them, as part says.  The service      *)
(* lives once, under the fairness of its threads, or again and again, for  *)
(* what its restarts may break.  Its variables are at Off in the machine.  *)
(***************************************************************************)
EXTENDS CallService

VARIABLE part

\* Alone: every condition, a reset after the fourth trap in a row.
Alone == INSTANCE CallStateMachine WITH Conditions <- 1 .. 11, TRAP_LIMIT <- 2
\* In the service: the condition and the trap limit of Call.cfg.
Once == INSTANCE CallService WITH MaxLives <- 1

serviceVars == <<queueVars, flagVars, dispatch, timeoutVars, appVars>>
callVars == <<part, vars>>

Off(v) == v = "off"
NoService ==
  /\ Off(head) /\ Off(rear) /\ Off(data)
  /\ Off(msg_enqueue_sem) /\ Off(msg_dequeue_sem)
  /\ Off(ppc) /\ Off(pmsg) /\ Off(cpc) /\ Off(cmsg) /\ Off(cret)
  /\ Off(m_bDispatchProcessRunning) /\ Off(m_bTimeoutStateUpdateRunning)
  /\ Off(dispatch) /\ Off(timeout) /\ Off(treport) /\ Off(app) /\ Off(lives)
  /\ Off(disturbed)

CallInit ==
  \/ part = "machine" /\ Alone!Init /\ NoService
  \/ part \in {"once", "service"} /\ Init

CallNext ==
  \/ part = "machine" /\ Alone!Next /\ UNCHANGED <<part, serviceVars>>
  \/ part = "once" /\ Once!Next /\ UNCHANGED part
  \/ part = "service" /\ Next /\ UNCHANGED part

\* Every thread of the service that can run does; a client in a call finishes
\* it, and the application finishes a destroy it has begun.
Runs(A) == part = "once" /\ A /\ UNCHANGED part

CallSpec ==
  /\ CallInit /\ [][CallNext]_callVars
  /\ WF_callVars(Runs(Once!Dispatcher))
  /\ WF_callVars(Runs(Once!Reporter))
  /\ \A p \in Producers : WF_callVars(Runs(Once!FinishCall(p)))
  /\ WF_callVars(Runs(Once!FinishDestroy))

-----------------------------------------------------------------------------
\* The application may be told an old state (the argument of the timeout
\* callback is read early) or nothing (a reset to idle is not reported), but
\* the periodic report catches up.
ReportCatchesUp ==
  (part = "once" /\ app = "up" /\ timeout # "none" /\ reported # current)
    ~> (reported = current \/ app # "up")

\* A destroy ends, well or not or in the join of a thread that was never
\* created, unless from some time on the dispatch thread sleeps in sem_wait
\* over an empty queue: any client that brings it a message ends the destroy
\* (state_machine.cpp:788-826).
DestroyEndsOrStarves ==
  \/ <>[](part = "once" /\ cpc = "wait" /\ msg_dequeue_sem = 0 /\ rear = head)
  \/ (part = "once" /\ app = "stopping")
       ~> (part = "once" /\ app \in {"down", "failed", "badjoin"})
=============================================================================
