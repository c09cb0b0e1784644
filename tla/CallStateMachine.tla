-------------------------- MODULE CallStateMachine --------------------------
(***************************************************************************)
(* executeConditionStateTransform of state_machine.cpp: the table-driven   *)
(* machine for Alexa and PSTN calls, its filter of repeated messages and   *)
(* its way out of a run of unexpected ones.                                *)
(*                                                                         *)
(* States and conditions carry the numbers of the comments in the source:  *)
(* state k is s_k (enumerator k-1 of CALL_STATUS_E), 16 the trap st;       *)
(* condition k is c_k (enumerator k-1 of CALL_STATUS_CONDITION_E), 11 is   *)
(* CALL_STATUS_CONDITION_UNKNOW.                                           *)
(***************************************************************************)
EXTENDS Integers

CONSTANTS
  MsgTypes,    \* values of hdr.msg_type that are sent
  Conditions,  \* values of hdr.msg_produce that are sent, among 1 .. 11
  TRAP_LIMIT   \* 15: continue_except_count is compared with CALL_STATUS_UNKNOW

\* What the constants are.
CallAssumption ==
  /\ MsgTypes # {}
  /\ Conditions \subseteq 1 .. 11
  /\ Conditions # {}
  /\ TRAP_LIMIT \in Nat
  /\ 255 \notin MsgTypes

CONDITIONS == 10
CALL_STATUS_IDLE == 1
CONDITION_UNKNOW == 11
NoType == 255  \* initial last_msg_type, a type no caller uses

VARIABLES
  current,                \* pStateMachine->current
  last,                   \* last_msg_type and last_msg_produce
  continue_except_count,
  held,                   \* what the actions have started and not stopped
  reported,               \* the state m_stateUpdateCallback was last given
  displaced               \* history: since the last message was recorded,
                          \* current was set by something but the table

machineVars == <<current, last, continue_except_count, held, reported,
                 displaced>>

CallMsgs == [type : MsgTypes, produce : Conditions]
CallStates == 1 .. 15

-----------------------------------------------------------------------------
\* transition_table without its &tt entries: (s, c, next, action).
Transitions == {
  <<1, 1, 2, 1>>,    <<1, 2, 3, 2>>,    <<1, 9, 12, 12>>,  <<1, 10, 13, 13>>,
  <<2, 3, 5, 4>>,    <<2, 4, 1, 6>>,    <<2, 6, 9, 8>>,
  <<3, 4, 1, 9>>,    <<3, 5, 4, 3>>,    <<3, 6, 10, 8>>,
  <<4, 3, 6, 5>>,    <<4, 4, 1, 10>>,   <<4, 6, 11, 8>>,
  <<5, 4, 1, 7>>,    <<5, 6, 7, 8>>,
  <<6, 4, 1, 11>>,   <<6, 6, 8, 8>>,
  <<7, 4, 1, 7>>,    <<8, 4, 1, 11>>,   <<9, 4, 1, 6>>,
  <<10, 4, 1, 9>>,   <<11, 4, 1, 10>>,
  <<12, 6, 1, 15>>,  <<12, 7, 1, 16>>,  <<12, 8, 15, 13>>,
  <<13, 5, 14, 14>>, <<13, 6, 1, 15>>,  <<13, 7, 1, 13>>,
  <<14, 6, 1, 15>>,  <<14, 7, 1, 13>>,
  <<15, 6, 1, 15>>,  <<15, 7, 1, 16>> }

\* The entry transition_table[s][c], or none for the trap.  The condition is
\* not range-checked: c_11 reads the first entry of the row after s.
Entry(s, c) ==
  {r \in Transitions :
     (r[1] - 1) * CONDITIONS + r[2] = (s - 1) * CONDITIONS + c}

Trapped(s, c) == Entry(s, c) = {}

\* Mutant of Starts: action3 forgets the microphone.
StartsNoMic(a) ==
  CASE a = 1 -> {"mic"}
    [] a = 2 -> {"alert"}
    [] a \in {4, 5} -> {"playback"}
    [] OTHER -> {}

\* What action a starts (the code under MIMULATED_CONDITION_SWITCH).
Starts(a) ==
  CASE a = 1 -> {"mic"}
    [] a = 2 -> {"alert"}
    [] a = 3 -> {"mic"}
    [] a \in {4, 5} -> {"playback"}
    [] OTHER -> {}

\* What action a stops.
Stops(a) ==
  CASE a = 6 -> {"mic"}
    [] a = 7 -> {"mic", "playback"}
    [] a = 9 -> {"alert"}
    [] a = 10 -> {"alert", "mic"}
    [] a = 11 -> {"alert", "mic", "playback"}
    [] a = 16 -> {"alert"}
    [] OTHER -> {}

-----------------------------------------------------------------------------
\* Before the first message; s is the state given to initializeStateMachine.
StartIn(s) ==
  /\ current = s
  /\ last = [type |-> NoType, produce |-> CONDITION_UNKNOW]
  /\ continue_except_count = 0
  /\ held = {}
  /\ reported = s
  /\ displaced = FALSE

Init == StartIn(CALL_STATUS_IDLE)

\* A message equal to the one before it is not looked up.
Repeated(m) ==
  /\ m = last
  /\ UNCHANGED machineVars

\* No transition, and not yet too many of them in a row.
Trap(m) ==
  /\ m # last
  /\ Trapped(current, m.produce)
  /\ continue_except_count <= TRAP_LIMIT
  /\ continue_except_count' = continue_except_count + 1
  /\ last' = m
  /\ displaced' = FALSE
  /\ UNCHANGED <<current, held, reported>>

\* One trap too many: back to idle, no action run, nobody told.
ResetIdle(m) ==
  /\ m # last
  /\ Trapped(current, m.produce)
  /\ continue_except_count > TRAP_LIMIT
  /\ current' = CALL_STATUS_IDLE
  /\ continue_except_count' = 1
  /\ last' = m
  /\ displaced' = (current # CALL_STATUS_IDLE)
  /\ UNCHANGED <<held, reported>>

\* Mutant of Transit: last_msg_* not recorded.
TransitForgetsLast(m) ==
  /\ m # last
  /\ \E r \in Entry(current, m.produce) :
       /\ continue_except_count' = 0
       /\ held' = (held \ Stops(r[4])) \cup Starts(r[4])
       /\ current' = r[3]
       /\ reported' = r[3]
  /\ displaced' = FALSE
  /\ UNCHANGED last

\* A transition: its action, the new state, the callback.
Transit(m) ==
  /\ m # last
  /\ \E r \in Entry(current, m.produce) :
       /\ continue_except_count' = 0
       /\ held' = (held \ Stops(r[4])) \cup Starts(r[4])
       /\ current' = r[3]
       /\ reported' = r[3]
  /\ last' = m
  /\ displaced' = FALSE

executeConditionStateTransform(m) ==
  Repeated(m) \/ Trap(m) \/ ResetIdle(m) \/ Transit(m)

Next == \E m \in CallMsgs : executeConditionStateTransform(m)

Spec == Init /\ [][Next]_machineVars

-----------------------------------------------------------------------------
\* The machine stays in s1 .. s15, never in the trap state, and the counter
\* of trapped messages stays within its limit.
TypeOK ==
  /\ current \in CallStates
  /\ last \in CallMsgs \cup [type : {NoType}, produce : {CONDITION_UNKNOW}]
  /\ continue_except_count \in 0 .. TRAP_LIMIT + 1
  /\ held \subseteq {"mic", "playback", "alert"}
  /\ reported \in CallStates
  /\ displaced \in BOOLEAN

\* The filter on repeated messages never swallows one that would have moved
\* the machine, unless the machine was moved behind the table's back since.
FilterIsHarmless ==
  ~displaced /\ last.type # NoType => Trapped(current, last.produce)

\* What a call in state s has switched on, from the order of its actions.
CallNeeds(s) ==
  CASE s \in {2, 9} -> {"mic"}
    [] s \in {5, 7} -> {"mic", "playback"}
    [] s \in {3, 10} -> {"alert"}
    [] s \in {4, 11} -> {"alert", "mic"}
    [] s \in {6, 8} -> {"alert", "mic", "playback"}
    [] OTHER -> {}

\* Whatever came before, resets included, a call in progress has its
\* microphone, playback and alert on, so each "exit action" of the table
\* (action6, 7, 9, 10, 11) stops things that run.
CallIsEquipped == CallNeeds(current) \subseteq held
=============================================================================
