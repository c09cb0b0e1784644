-------------------------- MODULE ShmSegmentProofs --------------------------
(***************************************************************************)
(* Theorems about ShmSegment for every set of processes, every size each   *)
(* of them asks for and every content of an uninitialised lock counter.    *)
(*                                                                         *)
(* Exclusion, the common segment and the clean-up rest on one another:     *)
(* the lock is held in every section because nobody removes the semaphore  *)
(* under an open handle; nobody does because the last detach is counted    *)
(* under the lock; and what is counted is right because a handle is        *)
(* attached exactly between its attach and its detach.  So one inductive   *)
(* invariant carries all of them.                                          *)
(***************************************************************************)
EXTENDS ShmSegment, TLAPS

\* Where a process is attached to the key's segment.
Attached == {"magic", "params", "openup", "open", "closedown",
"detach"} \cup UseSteps
\* Where it is neither before nor after its use of the key.
Active(p) == pc[p] \notin {"off", "leaving"}

\* The counters of a handle stay in their range.
CountsInv ==
  \A p \in Procs :
    /\ pc[p] \in {"semget", "down", "open", "closedown", "usedown"} =>
         locked[p] <= Garbage
    /\ pc[p] \in InSection => locked[p] >= 1
    /\ pc[p] \in {"semget", "down"} => tries[p] >= 1

\* Who is in a section holds the lock, and the lock is on the key's set.
LockInv ==
  /\ \A p \in Procs : pc[p] \in InSection => owner = p
  /\ \A p \in Procs : pc[p] \in InSection \cup Attached => semid[p] = "cur"
  /\ \A p \in Procs : semid[p] = "cur" => sem
  /\ owner # Nobody => sem

\* Handles and segment: who is attached, and when nobody else is.
AttachInv ==
  /\ \A p \in Procs : att[p] = "cur" <=> pc[p] \in Attached
  /\ \A p \in Procs :
       pc[p] \in Attached \cup {"shmat", "remove"} => shmid[p] = "cur"
  /\ \A p \in Procs : shmid[p] = "cur" => seg.live
  /\ \A p \in Procs :
       pc[p] \in {"magic", "params", "remove", "semrm"} => ~OthersAttached(p)
  /\ \A p \in Procs : pc[p] = "semrm" => ~seg.live

\* The header is written in the order magic number, sizes.
HeaderInv ==
  /\ \A p \in Procs : pc[p] \in Attached \ {"magic"} => seg.magic
  /\ seg.live /\ seg.magic /\ ~seg.sized =>
       torn \/ \E p \in Procs : pc[p] = "params"

\* Unless somebody died: what exists has a user who will see to its removal.
KeptInv ==
  ~crashed =>
    /\ seg.live => \E p \in Procs : pc[p] \in Attached \cup {"remove"}
    /\ seg.live /\ ~seg.magic => \E p \in Procs : pc[p] = "magic"
    /\ sem => \E p \in Procs : Active(p) /\ semid[p] = "cur"
    /\ \A p \in Procs : pc[p] \in {"final", "undo"} => OthersAttached(p)

SegmentInv == TypeOK /\ CountsInv /\ LockInv /\ AttachInv /\ HeaderInv /\ KeptInv

-----------------------------------------------------------------------------
\* Once outdated, no id names what the key names.
LEMMA OutdatedIds ==
  ASSUME NEW ids \in [Procs -> Ids], NEW p \in Procs, NEW new,
         new = [Outdated(ids) EXCEPT ![p] = "none"]
  PROVE  /\ new \in [Procs -> Ids]
         /\ \A q \in Procs : new[q] # "cur"
<1>1. Outdated(ids) \in [Procs -> Ids] /\ \A q \in Procs : Outdated(ids)[q] # "cur"
  BY DEF Outdated, Ids
<1> QED BY <1>1 DEF Ids

\* The initial state has the invariant.
LEMMA SegmentInvInit == Init => SegmentInv
<1> SUFFICES ASSUME Init PROVE SegmentInv
  OBVIOUS
<1>1. TypeOK
  <2>1. /\ pc \in [Procs -> Steps]
        /\ semid \in [Procs -> Ids] /\ shmid \in [Procs -> Ids] /\ att \in [Procs -> Ids]
    BY DEF Init, Steps, Ids
  <2>2. locked \in [Procs -> 0 .. Garbage + 1] /\ tries \in [Procs -> 0 .. FAIL_SEM_LOOP]
    BY SegmentAssumption DEF Init
  <2>3. seg \in [live : BOOLEAN, len : Nat, magic : BOOLEAN, sized : BOOLEAN]
    BY DEF Init, NoSegment
  <2> QED BY <2>1, <2>2, <2>3 DEF Init, TypeOK
<1>2. CountsInv /\ LockInv
  BY DEF Init, CountsInv, LockInv, InSection, Attached, UseSteps
<1>3. AttachInv /\ HeaderInv /\ KeptInv
  BY DEF Init, AttachInv, HeaderInv, KeptInv, NoSegment, Attached, UseSteps
<1> QED BY <1>1, <1>2, <1>3 DEF SegmentInv

\* Every step keeps the invariant.
LEMMA SegmentInvStep == SegmentInv /\ [Next]_vars => SegmentInv'
<1> SUFFICES ASSUME SegmentInv, [Next]_vars PROVE SegmentInv'
  OBVIOUS
<1> USE SegmentAssumption
    DEF SegmentInv, TypeOK, LockInv, OthersAttached, InSection, Attached,
        UseSteps, Goto
<1>1. ASSUME NEW p \in Procs, OpenCall(p) PROVE SegmentInv'
  <2>1. TypeOK'
    BY <1>1 DEF CountsInv, Steps, OpenSteps, CloseSteps, Ids, OpenCall
  <2>2. CountsInv'
    BY <1>1 DEF CountsInv, OpenCall
  <2>3. LockInv'
    BY <1>1 DEF AttachInv, OpenCall
  <2>4. AttachInv'
    BY <1>1 DEF AttachInv, OpenCall
  <2>5. HeaderInv'
    BY <1>1 DEF HeaderInv, AttachInv, OpenCall
  <2>6. KeptInv'
    BY <1>1 DEF KeptInv, AttachInv, HeaderInv, Active, OpenCall
  <2> QED BY <2>1, <2>2, <2>3, <2>4, <2>5, <2>6
<1>2. ASSUME NEW p \in Procs, OpenSemget(p) PROVE SegmentInv'
  <2>1. TypeOK'
    BY <1>2 DEF CountsInv, Steps, OpenSteps, CloseSteps, Ids, OpenSemget
  <2>2. CountsInv'
    BY <1>2 DEF CountsInv, OpenSemget
  <2>3. LockInv'
    BY <1>2 DEF AttachInv, OpenSemget
  <2>4. AttachInv'
    BY <1>2 DEF AttachInv, OpenSemget
  <2>5. HeaderInv'
    BY <1>2 DEF HeaderInv, AttachInv, OpenSemget
  <2>6. KeptInv'
    BY <1>2 DEF KeptInv, AttachInv, HeaderInv, Active, OpenSemget
  <2> QED BY <2>1, <2>2, <2>3, <2>4, <2>5, <2>6
<1>3. ASSUME NEW p \in Procs, OpenDown(p) PROVE SegmentInv'
  <2>1. TypeOK'
    BY <1>3 DEF CountsInv, Steps, OpenSteps, CloseSteps, Ids, OpenDown, Down
  <2>2. CountsInv'
    BY <1>3 DEF CountsInv, OpenDown, Down
  <2>3. LockInv'
    BY <1>3 DEF AttachInv, OpenDown, Down
  <2>4. AttachInv'
    BY <1>3 DEF AttachInv, OpenDown, Down
  <2>5. HeaderInv'
    BY <1>3 DEF HeaderInv, AttachInv, OpenDown, Down
  <2>6. KeptInv'
    BY <1>3 DEF KeptInv, AttachInv, HeaderInv, Active, OpenDown, Down
  <2> QED BY <2>1, <2>2, <2>3, <2>4, <2>5, <2>6
<1>4. ASSUME NEW p \in Procs, OpenDownFails(p) PROVE SegmentInv'
  <2>1. TypeOK'
    BY <1>4 DEF CountsInv, Steps, OpenSteps, CloseSteps, Ids, OpenDownFails
  <2>2. CountsInv'
    BY <1>4 DEF CountsInv, OpenDownFails
  <2>3. LockInv'
    BY <1>4 DEF AttachInv, OpenDownFails
  <2>4. AttachInv'
    BY <1>4 DEF AttachInv, OpenDownFails
  <2>5. HeaderInv'
    BY <1>4 DEF HeaderInv, AttachInv, OpenDownFails
  <2>6. KeptInv'
    BY <1>4 DEF KeptInv, AttachInv, HeaderInv, Active, OpenDownFails
  <2> QED BY <2>1, <2>2, <2>3, <2>4, <2>5, <2>6
<1>5. ASSUME NEW p \in Procs, OpenConnect(p) PROVE SegmentInv'
  <2>1. TypeOK'
    BY <1>5 DEF CountsInv, Steps, OpenSteps, CloseSteps, Ids, OpenConnect
  <2>2. CountsInv'
    BY <1>5 DEF CountsInv, OpenConnect
  <2>3. LockInv'
    BY <1>5 DEF AttachInv, OpenConnect
  <2>4. AttachInv'
    BY <1>5 DEF AttachInv, OpenConnect
  <2>5. HeaderInv'
    BY <1>5 DEF HeaderInv, AttachInv, OpenConnect
  <2>6. KeptInv'
    BY <1>5 DEF KeptInv, AttachInv, HeaderInv, Active, OpenConnect
  <2> QED BY <2>1, <2>2, <2>3, <2>4, <2>5, <2>6
<1>6. ASSUME NEW p \in Procs, OpenCreate(p) PROVE SegmentInv'
  <2>1. TypeOK'
    BY <1>6 DEF CountsInv, Steps, OpenSteps, CloseSteps, Ids, OpenCreate,
       Outdated
  <2>2. CountsInv'
    BY <1>6 DEF CountsInv, OpenCreate, Outdated
  <2>3. LockInv'
    BY <1>6 DEF AttachInv, OpenCreate, Outdated
  <2>4. AttachInv'
    BY <1>6 DEF AttachInv, OpenCreate, Outdated
  <2>5. HeaderInv'
    BY <1>6 DEF HeaderInv, AttachInv, OpenCreate, Outdated
  <2>6. KeptInv'
    BY <1>6 DEF KeptInv, AttachInv, HeaderInv, Active, OpenCreate, Outdated
  <2> QED BY <2>1, <2>2, <2>3, <2>4, <2>5, <2>6
<1>7. ASSUME NEW p \in Procs, OpenTooSmall(p) PROVE SegmentInv'
  <2>1. TypeOK'
    BY <1>7 DEF CountsInv, Steps, OpenSteps, CloseSteps, Ids, OpenTooSmall
  <2>2. CountsInv'
    BY <1>7 DEF CountsInv, OpenTooSmall
  <2>3. LockInv'
    BY <1>7 DEF AttachInv, OpenTooSmall
  <2>4. AttachInv'
    BY <1>7 DEF AttachInv, OpenTooSmall
  <2>5. HeaderInv'
    BY <1>7 DEF HeaderInv, AttachInv, OpenTooSmall
  <2>6. KeptInv'
    BY <1>7 DEF KeptInv, AttachInv, HeaderInv, Active, OpenTooSmall
  <2> QED BY <2>1, <2>2, <2>3, <2>4, <2>5, <2>6
<1>8. ASSUME NEW p \in Procs, OpenAttach(p) PROVE SegmentInv'
  <2>1. TypeOK'
    BY <1>8 DEF CountsInv, Steps, OpenSteps, CloseSteps, Ids, OpenAttach
  <2>2. CountsInv'
    BY <1>8 DEF CountsInv, OpenAttach
  <2>3. LockInv'
    BY <1>8 DEF AttachInv, OpenAttach
  <2>4. AttachInv'
    BY <1>8 DEF AttachInv, OpenAttach
  <2>5. HeaderInv'
    BY <1>8 DEF HeaderInv, AttachInv, OpenAttach
  <2>6. KeptInv'
    BY <1>8 DEF KeptInv, AttachInv, HeaderInv, Active, OpenAttach
  <2> QED BY <2>1, <2>2, <2>3, <2>4, <2>5, <2>6
<1>9. ASSUME NEW p \in Procs, OpenBadMagic(p) PROVE SegmentInv'
  <2>1. TypeOK'
    <3>1. CASE OthersAttached(p)
      BY <1>9, <3>1
      DEF CountsInv, Steps, OpenSteps, CloseSteps, Ids, OpenBadMagic,
          SegRemove, NoSegment, Outdated
    <3>2. CASE ~OthersAttached(p)
      <4>1. shmid' \in [Procs -> Ids] /\ att' \in [Procs -> Ids]
        BY <1>9, <3>2, OutdatedIds DEF OpenBadMagic, SegRemove
      <4>2. seg' \in [live : BOOLEAN, len : Nat, magic : BOOLEAN,
        sized : BOOLEAN] /\ torn' \in BOOLEAN
        <5>1. seg' = NoSegment /\ torn' = FALSE
          BY <1>9, <3>2 DEF OpenBadMagic, SegRemove
        <5> QED BY <5>1 DEF NoSegment
      <4> QED BY <1>9, <4>1, <4>2 DEF Steps, OpenSteps, OpenBadMagic
    <3> QED BY <3>1, <3>2
  <2>2. CountsInv'
    BY <1>9 DEF CountsInv, OpenBadMagic, SegRemove, NoSegment, Outdated
  <2>3. LockInv'
    BY <1>9 DEF AttachInv, OpenBadMagic, SegRemove, NoSegment, Outdated
  <2>4. AttachInv'
    <3>1. CASE OthersAttached(p)
      BY <1>9, <3>1 DEF AttachInv, OpenBadMagic, SegRemove, NoSegment, Outdated
    <3>2. CASE ~OthersAttached(p)
      <4>1. \A q \in Procs : shmid'[q] # "cur" /\ att'[q] # "cur"
        BY <1>9, <3>2, OutdatedIds DEF OpenBadMagic, SegRemove
      <4>2. \A q \in Procs : pc'[q] \notin Attached \cup {"shmat", "remove",
        "semrm"}
        BY <1>9, <3>2 DEF AttachInv, OpenBadMagic
      <4> QED BY <4>1, <4>2 DEF AttachInv
    <3> QED BY <3>1, <3>2
  <2>5. HeaderInv'
    BY <1>9 DEF HeaderInv, AttachInv, OpenBadMagic, SegRemove, NoSegment,
       Outdated
  <2>6. KeptInv'
    BY <1>9 DEF KeptInv, AttachInv, HeaderInv, Active, OpenBadMagic,
       SegRemove, NoSegment, Outdated
  <2> QED BY <2>1, <2>2, <2>3, <2>4, <2>5, <2>6
<1>10. ASSUME NEW p \in Procs, OpenMagic(p) PROVE SegmentInv'
  <2>1. TypeOK'
    BY <1>10 DEF CountsInv, Steps, OpenSteps, CloseSteps, Ids, OpenMagic
  <2>2. CountsInv'
    BY <1>10 DEF CountsInv, OpenMagic
  <2>3. LockInv'
    BY <1>10 DEF AttachInv, OpenMagic
  <2>4. AttachInv'
    BY <1>10 DEF AttachInv, OpenMagic
  <2>5. HeaderInv'
    BY <1>10 DEF HeaderInv, AttachInv, OpenMagic
  <2>6. KeptInv'
    BY <1>10 DEF KeptInv, AttachInv, HeaderInv, Active, OpenMagic
  <2> QED BY <2>1, <2>2, <2>3, <2>4, <2>5, <2>6
<1>11. ASSUME NEW p \in Procs, OpenParams(p) PROVE SegmentInv'
  <2>1. TypeOK'
    BY <1>11 DEF CountsInv, Steps, OpenSteps, CloseSteps, Ids, OpenParams
  <2>2. CountsInv'
    BY <1>11 DEF CountsInv, OpenParams
  <2>3. LockInv'
    BY <1>11 DEF AttachInv, OpenParams
  <2>4. AttachInv'
    BY <1>11 DEF AttachInv, OpenParams
  <2>5. HeaderInv'
    BY <1>11 DEF HeaderInv, AttachInv, OpenParams
  <2>6. KeptInv'
    BY <1>11 DEF KeptInv, AttachInv, HeaderInv, Active, OpenParams
  <2> QED BY <2>1, <2>2, <2>3, <2>4, <2>5, <2>6
<1>12. ASSUME NEW p \in Procs, OpenUp(p) PROVE SegmentInv'
  <2>1. TypeOK'
    BY <1>12 DEF CountsInv, Steps, OpenSteps, CloseSteps, Ids, OpenUp, Up
  <2>2. CountsInv'
    BY <1>12 DEF CountsInv, OpenUp, Up
  <2>3. LockInv'
    BY <1>12 DEF AttachInv, OpenUp, Up
  <2>4. AttachInv'
    BY <1>12 DEF AttachInv, OpenUp, Up
  <2>5. HeaderInv'
    BY <1>12 DEF HeaderInv, AttachInv, OpenUp, Up
  <2>6. KeptInv'
    BY <1>12 DEF KeptInv, AttachInv, HeaderInv, Active, OpenUp, Up
  <2> QED BY <2>1, <2>2, <2>3, <2>4, <2>5, <2>6
<1>13. ASSUME NEW p \in Procs, OpenUndo(p) PROVE SegmentInv'
  <2>1. TypeOK'
    BY <1>13 DEF CountsInv, Steps, OpenSteps, CloseSteps, Ids, OpenUndo, Up
  <2>2. CountsInv'
    BY <1>13 DEF CountsInv, OpenUndo, Up
  <2>3. LockInv'
    BY <1>13 DEF AttachInv, OpenUndo, Up
  <2>4. AttachInv'
    BY <1>13 DEF AttachInv, OpenUndo, Up
  <2>5. HeaderInv'
    BY <1>13 DEF HeaderInv, AttachInv, OpenUndo, Up
  <2>6. KeptInv'
    BY <1>13 DEF KeptInv, AttachInv, HeaderInv, Active, OpenUndo, Up
  <2> QED BY <2>1, <2>2, <2>3, <2>4, <2>5, <2>6
<1>14. ASSUME NEW p \in Procs, CloseCall(p) PROVE SegmentInv'
  <2>1. TypeOK'
    BY <1>14 DEF CountsInv, Steps, OpenSteps, CloseSteps, Ids, CloseCall
  <2>2. CountsInv'
    BY <1>14 DEF CountsInv, CloseCall
  <2>3. LockInv'
    BY <1>14 DEF AttachInv, CloseCall
  <2>4. AttachInv'
    BY <1>14 DEF AttachInv, CloseCall
  <2>5. HeaderInv'
    BY <1>14 DEF HeaderInv, AttachInv, CloseCall
  <2>6. KeptInv'
    BY <1>14 DEF KeptInv, AttachInv, HeaderInv, Active, CloseCall
  <2> QED BY <2>1, <2>2, <2>3, <2>4, <2>5, <2>6
<1>15. ASSUME NEW p \in Procs, CloseDown(p) PROVE SegmentInv'
  <2>1. TypeOK'
    BY <1>15 DEF CountsInv, Steps, OpenSteps, CloseSteps, Ids, CloseDown,
       DownOrNot, Down
  <2>2. CountsInv'
    BY <1>15 DEF CountsInv, CloseDown, DownOrNot, Down
  <2>3. LockInv'
    BY <1>15 DEF AttachInv, CloseDown, DownOrNot, Down
  <2>4. AttachInv'
    BY <1>15 DEF AttachInv, CloseDown, DownOrNot, Down
  <2>5. HeaderInv'
    BY <1>15 DEF HeaderInv, AttachInv, CloseDown, DownOrNot, Down
  <2>6. KeptInv'
    BY <1>15 DEF KeptInv, AttachInv, HeaderInv, Active, CloseDown, DownOrNot,
       Down
  <2> QED BY <2>1, <2>2, <2>3, <2>4, <2>5, <2>6
<1>16. ASSUME NEW p \in Procs, CloseDetach(p) PROVE SegmentInv'
  <2>1. TypeOK'
    BY <1>16 DEF CountsInv, Steps, OpenSteps, CloseSteps, Ids, CloseDetach,
       AfterDetach
  <2>2. CountsInv'
    BY <1>16 DEF CountsInv, CloseDetach, AfterDetach
  <2>3. LockInv'
    BY <1>16 DEF AttachInv, CloseDetach, AfterDetach
  <2>4. AttachInv'
    BY <1>16 DEF AttachInv, CloseDetach, AfterDetach
  <2>5. HeaderInv'
    BY <1>16 DEF HeaderInv, AttachInv, CloseDetach, AfterDetach
  <2>6. KeptInv'
    BY <1>16 DEF KeptInv, AttachInv, HeaderInv, Active, CloseDetach,
       AfterDetach
  <2> QED BY <2>1, <2>2, <2>3, <2>4, <2>5, <2>6
<1>17. ASSUME NEW p \in Procs, CloseRemove(p) PROVE SegmentInv'
  <2>1. TypeOK'
    BY <1>17 DEF CountsInv, Steps, OpenSteps, CloseSteps, Ids, CloseRemove,
       SegRemove, NoSegment, Outdated
  <2>2. CountsInv'
    BY <1>17 DEF CountsInv, CloseRemove, SegRemove, NoSegment, Outdated
  <2>3. LockInv'
    BY <1>17 DEF AttachInv, CloseRemove, SegRemove, NoSegment, Outdated
  <2>4. AttachInv'
    BY <1>17 DEF AttachInv, CloseRemove, SegRemove, NoSegment, Outdated
  <2>5. HeaderInv'
    BY <1>17 DEF HeaderInv, AttachInv, CloseRemove, SegRemove, NoSegment,
       Outdated
  <2>6. KeptInv'
    BY <1>17 DEF KeptInv, AttachInv, HeaderInv, Active, CloseRemove,
       SegRemove, NoSegment, Outdated
  <2> QED BY <2>1, <2>2, <2>3, <2>4, <2>5, <2>6
<1>18. ASSUME NEW p \in Procs, CloseSemRemove(p) PROVE SegmentInv'
  <2>1. TypeOK'
    <3>1. pc' \in [Procs -> Steps]
      BY <1>18 DEF Steps, OpenSteps, CloseSteps, CloseSemRemove
    <3>2. semid' \in [Procs -> Ids]
      <4>1. Outdated(semid) \in [Procs -> Ids]
        BY DEF Ids, Outdated
      <4>2. "none" \in Ids
        BY DEF Ids
      <4>3. CASE semid[p] = "cur"
        BY <1>18, <4>1, <4>2, <4>3 DEF CloseSemRemove, SemRemove
      <4>4. CASE semid[p] # "cur"
        BY <1>18, <4>4 DEF CloseSemRemove, SemRemove
      <4> QED BY <4>3, <4>4
    <3>3. sem' \in BOOLEAN
      BY <1>18 DEF CloseSemRemove, SemRemove
    <3>4. owner' \in Procs \cup {Nobody}
      BY <1>18 DEF CloseSemRemove, SemRemove
    <3> QED BY <1>18, <3>1, <3>2, <3>3, <3>4 DEF CloseSemRemove
  <2>2. CountsInv'
    BY <1>18 DEF CountsInv, CloseSemRemove, SemRemove, Outdated
  <2>3. LockInv'
    <3>1. /\ semid[p] = "cur" /\ owner = p /\ sem' = FALSE /\ owner' = Nobody
          /\ \A q \in Procs : semid'[q] # "cur"
      BY <1>18, OutdatedIds DEF CloseSemRemove, SemRemove
    <3>2. \A q \in Procs : pc'[q] \notin InSection \cup Attached
      BY <1>18 DEF AttachInv, CloseSemRemove
    <3> QED BY <3>1, <3>2
  <2>4. AttachInv'
    BY <1>18 DEF AttachInv, CloseSemRemove, SemRemove, Outdated
  <2>5. HeaderInv'
    BY <1>18 DEF HeaderInv, AttachInv, CloseSemRemove, SemRemove, Outdated
  <2>6. KeptInv'
    BY <1>18 DEF KeptInv, AttachInv, HeaderInv, Active, CloseSemRemove,
       SemRemove, Outdated
  <2> QED BY <2>1, <2>2, <2>3, <2>4, <2>5, <2>6
<1>19. ASSUME NEW p \in Procs, CloseFinal(p) PROVE SegmentInv'
  <2>1. TypeOK'
    BY <1>19 DEF CountsInv, Steps, OpenSteps, CloseSteps, Ids, CloseFinal, Up
  <2>2. CountsInv'
    BY <1>19 DEF CountsInv, CloseFinal, Up
  <2>3. LockInv'
    BY <1>19 DEF AttachInv, CloseFinal, Up
  <2>4. AttachInv'
    BY <1>19 DEF AttachInv, CloseFinal, Up
  <2>5. HeaderInv'
    BY <1>19 DEF HeaderInv, AttachInv, CloseFinal, Up
  <2>6. KeptInv'
    BY <1>19 DEF KeptInv, AttachInv, HeaderInv, Active, CloseFinal, Up
  <2> QED BY <2>1, <2>2, <2>3, <2>4, <2>5, <2>6
<1>20. ASSUME NEW p \in Procs, UseCall(p) PROVE SegmentInv'
  <2>1. TypeOK'
    BY <1>20 DEF CountsInv, Steps, OpenSteps, CloseSteps, Ids, UseCall
  <2>2. CountsInv'
    BY <1>20 DEF CountsInv, UseCall
  <2>3. LockInv'
    BY <1>20 DEF AttachInv, UseCall
  <2>4. AttachInv'
    BY <1>20 DEF AttachInv, UseCall
  <2>5. HeaderInv'
    BY <1>20 DEF HeaderInv, AttachInv, UseCall
  <2>6. KeptInv'
    BY <1>20 DEF KeptInv, AttachInv, HeaderInv, Active, UseCall
  <2> QED BY <2>1, <2>2, <2>3, <2>4, <2>5, <2>6
<1>21. ASSUME NEW p \in Procs, UseDown(p) PROVE SegmentInv'
  <2>1. TypeOK'
    BY <1>21 DEF CountsInv, Steps, OpenSteps, CloseSteps, Ids, UseDown,
       DownOrNot, Down
  <2>2. CountsInv'
    BY <1>21 DEF CountsInv, UseDown, DownOrNot, Down
  <2>3. LockInv'
    BY <1>21 DEF AttachInv, UseDown, DownOrNot, Down
  <2>4. AttachInv'
    BY <1>21 DEF AttachInv, UseDown, DownOrNot, Down
  <2>5. HeaderInv'
    BY <1>21 DEF HeaderInv, AttachInv, UseDown, DownOrNot, Down
  <2>6. KeptInv'
    BY <1>21 DEF KeptInv, AttachInv, HeaderInv, Active, UseDown, DownOrNot,
       Down
  <2> QED BY <2>1, <2>2, <2>3, <2>4, <2>5, <2>6
<1>22. ASSUME NEW p \in Procs, UseUp(p) PROVE SegmentInv'
  <2>1. TypeOK'
    BY <1>22 DEF CountsInv, Steps, OpenSteps, CloseSteps, Ids, UseUp, Up
  <2>2. CountsInv'
    BY <1>22 DEF CountsInv, UseUp, Up
  <2>3. LockInv'
    BY <1>22 DEF AttachInv, UseUp, Up
  <2>4. AttachInv'
    BY <1>22 DEF AttachInv, UseUp, Up
  <2>5. HeaderInv'
    BY <1>22 DEF HeaderInv, AttachInv, UseUp, Up
  <2>6. KeptInv'
    BY <1>22 DEF KeptInv, AttachInv, HeaderInv, Active, UseUp, Up
  <2> QED BY <2>1, <2>2, <2>3, <2>4, <2>5, <2>6
<1>23. ASSUME NEW p \in Procs, Exit(p) PROVE SegmentInv'
  <2>1. TypeOK'
    BY <1>23 DEF CountsInv, Steps, OpenSteps, CloseSteps, Ids, Exit, Gone, Undo
  <2>2. CountsInv'
    BY <1>23 DEF CountsInv, Exit, Gone, Undo
  <2>3. LockInv'
    BY <1>23 DEF AttachInv, Exit, Gone, Undo
  <2>4. AttachInv'
    BY <1>23 DEF AttachInv, Exit, Gone, Undo
  <2>5. HeaderInv'
    BY <1>23 DEF HeaderInv, AttachInv, Exit, Gone, Undo
  <2>6. KeptInv'
    BY <1>23 DEF KeptInv, AttachInv, HeaderInv, Active, Exit, Gone, Undo
  <2> QED BY <2>1, <2>2, <2>3, <2>4, <2>5, <2>6
<1>24. ASSUME NEW p \in Procs, Crash(p) PROVE SegmentInv'
  <2>1. TypeOK'
    BY <1>24 DEF CountsInv, Steps, OpenSteps, CloseSteps, Ids, Crash, Gone,
       Undo
  <2>2. CountsInv'
    BY <1>24 DEF CountsInv, Crash, Gone, Undo
  <2>3. LockInv'
    BY <1>24 DEF AttachInv, Crash, Gone, Undo
  <2>4. AttachInv'
    BY <1>24 DEF AttachInv, Crash, Gone, Undo
  <2>5. HeaderInv'
    BY <1>24 DEF HeaderInv, AttachInv, Crash, Gone, Undo
  <2>6. KeptInv'
    BY <1>24 DEF KeptInv, AttachInv, HeaderInv, Active, Crash, Gone, Undo
  <2> QED BY <2>1, <2>2, <2>3, <2>4, <2>5, <2>6
<1>25. CASE UNCHANGED vars
  BY <1>25 DEF vars, procVars, CountsInv, AttachInv, HeaderInv, KeptInv, Active
<1> QED
  BY <1>1, <1>2, <1>3, <1>4, <1>5, <1>6, <1>7, <1>8, <1>9, <1>10, <1>11,
     <1>12, <1>13, <1>14, <1>15, <1>16, <1>17, <1>18, <1>19, <1>20, <1>21,
       <1>22, <1>23, <1>24, <1>25
         DEF Next, local_ipc_data_shm_open, local_ipc_data_shm_close,
             local_ipc_data_shm_use

\* The invariant holds throughout.
THEOREM SegmentInvariant == Spec => []SegmentInv
BY SegmentInvInit, SegmentInvStep, PTL DEF Spec

-----------------------------------------------------------------------------
\* Every variable keeps its type; the lock counter of a handle that nobody
\* initialised stays within one of the value found in it
\* (local_ipc_data_share_memory.c:50-104).
THEOREM SegmentTypes == Spec => []TypeOK
<1>1. SegmentInv => TypeOK
  BY DEF SegmentInv
<1> QED BY <1>1, SegmentInvariant, PTL

\* No two processes are between down and up, although read, write, ioctl and
\* close go on when their semaphore_down fails, however many processes open,
\* close and die (local_ipc_data_share_memory.c:50-104, :276).
THEOREM SegmentExclusion == Spec => []SectionsExclude
<1>1. SegmentInv => SectionsExclude
  BY DEF SegmentInv, LockInv, SectionsExclude
<1> QED BY <1>1, SegmentInvariant, PTL

\* Every open handle is on the segment and the semaphore that the key names
\* (local_ipc_data_share_memory.c:116-255).
THEOREM SegmentIsOne == Spec => []OneSegment
<1>1. SegmentInv => OneSegment
  BY DEF SegmentInv, LockInv, AttachInv, OneSegment, Attached, UseSteps
<1> QED BY <1>1, SegmentInvariant, PTL

\* A handle that open returned is on a segment with its magic number, and with
\* its sizes unless a creator died between the two stores
\* (local_ipc_data_share_memory.c:160-255).
THEOREM SegmentUsable == Spec => []OpenIsUsable
<1>1. SegmentInv => OpenIsUsable
  <2> SUFFICES ASSUME SegmentInv, NEW p \in Procs,
    pc[p] \in {"open"} \cup UseSteps
               PROVE  seg.magic /\ (seg.sized \/ torn)
    BY DEF OpenIsUsable
  <2>1. att[p] = "cur" /\ seg.live /\ seg.magic
    BY DEF SegmentInv, AttachInv, HeaderInv, Attached, UseSteps
  <2>2. ASSUME NEW q \in Procs, pc[q] = "params" PROVE FALSE
    <3>1. p # q
      BY <2>2 DEF UseSteps
    <3> QED BY <2>1, <2>2, <3>1 DEF SegmentInv, AttachInv, OthersAttached
  <2> QED BY <2>1, <2>2 DEF SegmentInv, HeaderInv
<1> QED BY <1>1, SegmentInvariant, PTL

\* When every process has ended with close or a failed open, neither segment
\* nor semaphore is left in the kernel
\* (local_ipc_data_share_memory.c:106-114, :171-190, :257-270).
THEOREM SegmentCleanUp == Spec => []NothingLeftBehind
<1>1. SegmentInv => NothingLeftBehind
  BY DEF SegmentInv, TypeOK, KeptInv, LockInv, NothingLeftBehind, Active,
     Attached, UseSteps
<1> QED BY <1>1, SegmentInvariant, PTL
=============================================================================
