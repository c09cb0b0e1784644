----------------------------- MODULE ShmSegment -----------------------------
(***************************************************************************)
(* Opening, using, closing and crashing with the System V segment and      *)
(* semaphore of local_ipc_data_share_memory.c.  One key names at most one  *)
(* semaphore set and one segment; a process holds ids that may have been   *)
(* removed under it.  The semaphore is a lock taken with SEM_UNDO: the     *)
(* kernel gives it back when its holder dies.  The frames are ShmRing's.   *)
(*                                                                         *)
(* semop is not interrupted by signals here, and the calls of the kernel   *)
(* fail only for the reasons the code looks at: a removed id, a segment    *)
(* that is too small, a segment without the magic number.                  *)
(***************************************************************************)
EXTENDS Integers, FiniteSets

CONSTANTS
  Procs,          \* the processes that share the key
  ShmSize,        \* shm_size each of them asks for
  Nobody,
  Garbage,        \* what an uninitialised lock counter may hold
  FAIL_SEM_LOOP   \* 10: attempts to take the semaphore in open

\* What the constants are.
ASSUME SegmentAssumption ==
  /\ Nobody \notin Procs
  /\ ShmSize \in [Procs -> Nat \ {0}]
  /\ Garbage \in Nat
  /\ FAIL_SEM_LOOP \in Nat \ {0}

VARIABLES
  pc,         \* where each process is
  semid,      \* its semaphore id: "none", "cur" (the key's set) or "old"
  shmid,      \* its segment id, likewise
  att,        \* what its shmptr is attached to, likewise
  locked,     \* phandle->locked[0]
  tries,      \* fail_sem_loop
  sem,        \* does the key have a semaphore set
  owner,      \* who holds it, its value being 0 for Nobody and 1 otherwise
  seg,        \* the key's segment: exists, length, magic, size and esize set
  torn,       \* history: the segment's creator died between magic and size
  crashed     \* history: some process died without close

procVars == <<pc, semid, shmid, att, locked, tries>>
vars == <<procVars, sem, owner, seg, torn, crashed>>

Ids == {"none", "cur", "old"}
NoSegment == [live |-> FALSE, len |-> 0, magic |-> FALSE, sized |-> FALSE]
OpenSteps == {"semget", "down", "shmget", "shmat", "magic", "params", "openup",
              "undo"}
CloseSteps == {"closedown", "detach", "remove", "semrm", "final"}
UseSteps == {"usedown", "use"}
Steps ==
  {"off", "open", "leaving"} \cup OpenSteps \cup CloseSteps \cup UseSteps

Init ==
  /\ pc = [p \in Procs |-> "off"]
  /\ semid = [p \in Procs |-> "none"]
  /\ shmid = [p \in Procs |-> "none"]
  /\ att = [p \in Procs |-> "none"]
  /\ locked = [p \in Procs |-> 0]
  /\ tries = [p \in Procs |-> 0]
  /\ sem = FALSE
  /\ owner = Nobody
  /\ seg = NoSegment
  /\ torn = FALSE
  /\ crashed = FALSE

-----------------------------------------------------------------------------
Goto(p, from, to) == pc[p] = from /\ pc' = [pc EXCEPT ![p] = to]

\* Ids that named what the key names now no longer do.
Outdated(ids) == [q \in Procs |-> IF ids[q] = "cur" THEN "old" ELSE ids[q]]

\* shm_nattch of the key's segment without p.
OthersAttached(p) == \E q \in Procs \ {p} : att[q] = "cur"

\* smd_semaphore_down once semop can succeed.
Down(p) ==
  /\ semid[p] = "cur"
  /\ owner = Nobody
  /\ owner' = p
  /\ locked' = [locked EXCEPT ![p] = @ + 1]

\* smd_semaphore_up: IPC_NOWAIT, it fails on a removed or a free semaphore
\* and otherwise frees it, whoever took it.
Up(p) ==
  IF semid[p] = "cur" /\ owner # Nobody
    THEN owner' = Nobody /\ locked' = [locked EXCEPT ![p] = @ - 1]
    ELSE UNCHANGED <<owner, locked>>

\* smd_semaphore_discard of a set that is still there: waiters get EIDRM.
SemRemove(p) ==
  IF semid[p] = "cur"
    THEN /\ sem' = FALSE
         /\ owner' = Nobody
         /\ semid' = [Outdated(semid) EXCEPT ![p] = "none"]
    ELSE UNCHANGED <<sem, owner, semid>>

\* IPC_RMID by p: the key is free; who is attached keeps the old memory.
SegRemove(p) ==
  /\ seg' = NoSegment
  /\ torn' = FALSE
  /\ shmid' = [Outdated(shmid) EXCEPT ![p] = "none"]
  /\ att' = [Outdated(att) EXCEPT ![p] = "none"]

-----------------------------------------------------------------------------
\* A program starts and calls open.  Its handle is a local variable nobody
\* initialises: the lock counter is 0 only by luck.
OpenCall(p) ==
  /\ Goto(p, "off", "semget")
  /\ \E n \in {0, Garbage} : locked' = [locked EXCEPT ![p] = n]
  /\ tries' = [tries EXCEPT ![p] = FAIL_SEM_LOOP]
  /\ UNCHANGED <<semid, shmid, att, sem, owner, seg, torn, crashed>>

\* smd_semaphore_create_or_connect.
OpenSemget(p) ==
  /\ Goto(p, "semget", "down")
  /\ sem' = TRUE
  /\ semid' = [semid EXCEPT ![p] = "cur"]
  /\ UNCHANGED <<shmid, att, locked, tries, owner, seg, torn, crashed>>

OpenDown(p) ==
  /\ Goto(p, "down", "shmget")
  /\ Down(p)
  /\ UNCHANGED <<semid, shmid, att, tries, sem, seg, torn, crashed>>

\* The set was removed while p waited or before it did.
OpenDownFails(p) ==
  /\ pc[p] = "down"
  /\ semid[p] = "old"
  /\ tries' = [tries EXCEPT ![p] = @ - 1]
  /\ pc' = [pc EXCEPT ![p] = IF tries[p] - 1 <= 0 THEN "leaving" ELSE "semget"]
  /\ UNCHANGED <<semid, shmid, att, locked, sem, owner, seg, torn, crashed>>

\* shmget finds the segment ...
OpenConnect(p) ==
  /\ Goto(p, "shmget", "shmat")
  /\ seg.live
  /\ seg.len >= ShmSize[p]
  /\ shmid' = [shmid EXCEPT ![p] = "cur"]
  /\ UNCHANGED <<semid, att, locked, tries, sem, owner, seg, torn, crashed>>

\* ... or creates it, after removing one that is too small and unused ...
OpenCreate(p) ==
  /\ Goto(p, "shmget", "magic")
  /\ seg.live => seg.len < ShmSize[p] /\ ~OthersAttached(p)
  /\ seg' = [live |-> TRUE, len |-> ShmSize[p], magic |-> FALSE,
             sized |-> FALSE]
  /\ shmid' = [Outdated(shmid) EXCEPT ![p] = "cur"]
  /\ att' = [att EXCEPT ![p] = "cur"]
  /\ torn' = FALSE
  /\ UNCHANGED <<semid, locked, tries, sem, owner, crashed>>

\* ... or finds it too small and in use: -EINVAL.
OpenTooSmall(p) ==
  /\ Goto(p, "shmget", "undo")
  /\ seg.live
  /\ seg.len < ShmSize[p]
  /\ OthersAttached(p)
  /\ shmid' = [shmid EXCEPT ![p] = "none"]
  /\ UNCHANGED <<semid, att, locked, tries, sem, owner, seg, torn, crashed>>

\* Mutant of OpenAttach: the magic number is not looked at.
OpenAttachUnchecked(p) ==
  /\ Goto(p, "shmat", "openup")
  /\ shmid[p] = "cur"
  /\ att' = [att EXCEPT ![p] = "cur"]
  /\ UNCHANGED <<semid, shmid, locked, tries, sem, owner, seg, torn, crashed>>

\* shmat on the segment found, magic number right.
OpenAttach(p) ==
  /\ Goto(p, "shmat", "openup")
  /\ shmid[p] = "cur"
  /\ seg.magic
  /\ att' = [att EXCEPT ![p] = "cur"]
  /\ UNCHANGED <<semid, shmid, locked, tries, sem, owner, seg, torn, crashed>>

\* Wrong magic number: smd_shm_discard detaches, and removes the segment if
\* that leaves it unused; open returns -EINVAL.
OpenBadMagic(p) ==
  /\ Goto(p, "shmat", "undo")
  /\ shmid[p] = "cur"
  /\ ~seg.magic
  /\ IF OthersAttached(p)
       THEN /\ shmid' = [shmid EXCEPT ![p] = "none"]
            /\ UNCHANGED <<att, seg, torn>>
       ELSE SegRemove(p)
  /\ UNCHANGED <<semid, locked, tries, sem, owner, crashed>>

\* The creator: cleared memory, the magic number, then the header.
OpenMagic(p) ==
  /\ Goto(p, "magic", "params")
  /\ seg' = [seg EXCEPT !.magic = TRUE]
  /\ UNCHANGED <<semid, shmid, att, locked, tries, sem, owner, torn, crashed>>

OpenParams(p) ==
  /\ Goto(p, "params", "openup")
  /\ seg' = [seg EXCEPT !.sized = TRUE]
  /\ UNCHANGED <<semid, shmid, att, locked, tries, sem, owner, torn, crashed>>

OpenUp(p) ==
  /\ Goto(p, "openup", "open")
  /\ Up(p)
  /\ UNCHANGED <<semid, shmid, att, tries, sem, seg, torn, crashed>>

\* The _err exit, with no segment in hand.
OpenUndo(p) ==
  /\ Goto(p, "undo", "leaving")
  /\ Up(p)
  /\ UNCHANGED <<semid, shmid, att, tries, sem, seg, torn, crashed>>

local_ipc_data_shm_open(p) ==
  \/ OpenCall(p) \/ OpenSemget(p) \/ OpenDown(p) \/ OpenDownFails(p)
  \/ OpenConnect(p) \/ OpenCreate(p) \/ OpenTooSmall(p)
  \/ OpenAttach(p) \/ OpenBadMagic(p)
  \/ OpenMagic(p) \/ OpenParams(p) \/ OpenUp(p) \/ OpenUndo(p)

-----------------------------------------------------------------------------
\* A smd_semaphore_down whose result the caller ignores: it waits for the
\* key's set, and goes on without the lock if its own set is gone.
DownOrNot(p) ==
  IF semid[p] = "cur" THEN Down(p) ELSE UNCHANGED <<owner, locked>>

CloseCall(p) ==
  /\ Goto(p, "open", "closedown")
  /\ UNCHANGED <<semid, shmid, att, locked, tries, sem, owner, seg, torn,
                 crashed>>

CloseDown(p) ==
  /\ Goto(p, "closedown", "detach")
  /\ DownOrNot(p)
  /\ UNCHANGED <<semid, shmid, att, tries, sem, seg, torn, crashed>>

\* Mutants of AfterDetach: the semaphore removed although others are
\* attached; nothing ever removed.
AfterDetachSem(p) ==
  IF shmid[p] # "cur" \/ OthersAttached(p) THEN "semrm" ELSE "remove"
AfterDetachKeep(p) == IF shmid[p] # "cur" THEN "semrm" ELSE "final"

\* What the close does next: the segment id was removed, other users are
\* left, or p was the last one.
AfterDetach(p) ==
  CASE shmid[p] # "cur" -> "semrm"
    [] shmid[p] = "cur" /\ OthersAttached(p) -> "final"
    [] OTHER -> "remove"

\* smd_shm_discard: detach and ask who is left.
CloseDetach(p) ==
  /\ Goto(p, "detach", AfterDetach(p))
  /\ att' = [att EXCEPT ![p] = "none"]
  /\ shmid' = [shmid EXCEPT ![p] =
                IF @ = "cur" /\ OthersAttached(p) THEN "none" ELSE @]
  /\ UNCHANGED <<semid, locked, tries, sem, owner, seg, torn, crashed>>

CloseRemove(p) ==
  /\ Goto(p, "remove", "semrm")
  /\ SegRemove(p)
  /\ UNCHANGED <<semid, locked, tries, sem, owner, crashed>>

\* The last user removes the semaphore too, with the lock in hand.
CloseSemRemove(p) ==
  /\ Goto(p, "semrm", IF semid[p] = "cur" THEN "leaving" ELSE "final")
  /\ SemRemove(p)
  /\ UNCHANGED <<shmid, att, locked, tries, seg, torn, crashed>>

\* smd_semaphore_final: -EBUSY, and the lock kept, unless the counter is 1.
CloseFinal(p) ==
  /\ Goto(p, "final", "leaving")
  /\ IF locked[p] = 1 THEN Up(p) ELSE UNCHANGED <<owner, locked>>
  /\ UNCHANGED <<semid, shmid, att, tries, sem, seg, torn, crashed>>

local_ipc_data_shm_close(p) ==
  \/ CloseCall(p) \/ CloseDown(p) \/ CloseDetach(p) \/ CloseRemove(p)
  \/ CloseSemRemove(p) \/ CloseFinal(p)

-----------------------------------------------------------------------------
\* read, write and ioctl, which ignore whether they got the lock.
UseCall(p) ==
  /\ Goto(p, "open", "usedown")
  /\ UNCHANGED <<semid, shmid, att, locked, tries, sem, owner, seg, torn,
                 crashed>>

UseDown(p) ==
  /\ Goto(p, "usedown", "use")
  /\ DownOrNot(p)
  /\ UNCHANGED <<semid, shmid, att, tries, sem, seg, torn, crashed>>

UseUp(p) ==
  /\ Goto(p, "use", "open")
  /\ Up(p)
  /\ UNCHANGED <<semid, shmid, att, tries, sem, seg, torn, crashed>>

local_ipc_data_shm_use(p) == UseCall(p) \/ UseDown(p) \/ UseUp(p)

-----------------------------------------------------------------------------
\* What SEM_UNDO does at the end of a process: a lock it holds is free.
Undo(p) == owner' = IF owner = p THEN Nobody ELSE owner

Gone(p) ==
  /\ pc' = [pc EXCEPT ![p] = "off"]
  /\ semid' = [semid EXCEPT ![p] = "none"]
  /\ shmid' = [shmid EXCEPT ![p] = "none"]
  /\ att' = [att EXCEPT ![p] = "none"]
  /\ locked' = [locked EXCEPT ![p] = 0]
  /\ tries' = [tries EXCEPT ![p] = 0]
  /\ Undo(p)
  /\ UNCHANGED <<sem, seg>>

\* The programs return from main after close or a failed open.
Exit(p) ==
  /\ pc[p] = "leaving"
  /\ Gone(p)
  /\ UNCHANGED <<torn, crashed>>

\* Killed, anywhere; or gone without close, as when fopen fails.
Crash(p) ==
  /\ pc[p] \notin {"off", "leaving"}
  /\ Gone(p)
  /\ torn' = (torn \/ pc[p] = "params")
  /\ crashed' = TRUE

Next ==
  \E p \in Procs :
    \/ local_ipc_data_shm_open(p)
    \/ local_ipc_data_shm_close(p)
    \/ local_ipc_data_shm_use(p)
    \/ Exit(p)
    \/ Crash(p)

Spec == Init /\ [][Next]_vars

-----------------------------------------------------------------------------
TypeOK ==
  /\ pc \in [Procs -> Steps]
  /\ semid \in [Procs -> Ids]
  /\ shmid \in [Procs -> Ids]
  /\ att \in [Procs -> Ids]
  /\ locked \in [Procs -> 0 .. Garbage + 1]
  /\ tries \in [Procs -> 0 .. FAIL_SEM_LOOP]
  /\ sem \in BOOLEAN
  /\ owner \in Procs \cup {Nobody}
  /\ seg \in [live : BOOLEAN, len : Nat, magic : BOOLEAN, sized : BOOLEAN]
  /\ torn \in BOOLEAN
  /\ crashed \in BOOLEAN

\* Steps that look at or change the segment, between down and up.
InSection == {"shmget", "shmat", "magic", "params", "openup", "undo",
              "detach", "remove", "semrm", "final", "use"}

\* Although read, write, ioctl and close ignore a failing semaphore_down, no
\* two processes are between down and up at the same time: the set is removed
\* only when nobody else is attached, and who still waits on it starts over.
SectionsExclude ==
  \A p, q \in Procs : pc[p] \in InSection /\ pc[q] \in InSection => p = q

\* Every open handle is on the segment and the set that the key names now: a
\* reader and a writer that both succeeded in open never talk past each other.
OneSegment ==
  \A p \in Procs :
    pc[p] \in {"open", "closedown", "detach"} \cup UseSteps =>
      att[p] = "cur" /\ shmid[p] = "cur" /\ semid[p] = "cur" /\ seg.live /\ sem

\* A handle open returned has a segment with its magic number, and with its
\* frame count unless the creator died between writing one and the other;
\* then nothing tells the next user, and its modulo by size is by 0.
OpenIsUsable ==
  \A p \in Procs :
    pc[p] \in {"open"} \cup UseSteps => seg.magic /\ (seg.sized \/ torn)

\* If every process ended with close or a failed open, nothing is left in the
\* kernel for the key, whichever of them came last.
NothingLeftBehind ==
  ~crashed /\ (\A p \in Procs : pc[p] \in {"off", "leaving"})
    => ~seg.live /\ ~sem /\ owner = Nobody
=============================================================================
