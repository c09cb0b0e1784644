------------------------------- MODULE ShmRing -------------------------------
(***************************************************************************)
(* The frames in the segment of local_ipc_data_share_memory.c: read, write *)
(* and the clearing ioctl, called by the writer and the reader program of  *)
(* the same directory.  in and out are free-running unsigned counters; the *)
(* slot of a frame is its counter modulo size.  Each call works under the  *)
(* semaphore (ShmSegment shows that it excludes), but the process that     *)
(* holds it may be killed between two stores, and the kernel then gives    *)
(* the semaphore to the next one.                                          *)
(*                                                                         *)
(* A frame is the sequence number its writer put in its header.  Calls     *)
(* pass between 1 and size frames, as the programs do.                     *)
(***************************************************************************)
EXTENDS Integers, Sequences

CONSTANTS
  SIZE,         \* shmptr->size, the number of frames the segment holds
  WORD,         \* 2^32, the range of the unsigned counters
  SEQ,          \* 2^16, the range of current_sequence
  WriteCounts,  \* payload_count of the writer
  ReadCounts    \* payload_count of the reader

\* What the constants are.
ASSUME RingAssumption ==
  /\ SIZE \in Nat \ {0}
  /\ WORD \in Nat
  /\ WORD > SIZE
  /\ SEQ \in Nat \ {0}
  /\ WriteCounts \subseteq 1 .. SIZE
  /\ ReadCounts \subseteq 1 .. SIZE

VARIABLES
  in, out,   \* shmptr->in, shmptr->out
  slots,     \* the frames behind the header
  wpc, wn,   \* where the writer is, and its frame_count
  fresh,     \* s_u16_media_type is still 0: the writer wrote nothing yet
  seq,       \* s_u16_current_sequence of the writer
  rpc, rn,   \* where the reader is, and its frame_count
  rbuf,      \* the reader's buffer
  unread,    \* history: frames written and neither read nor discarded
  halfReset, \* history: a process died between the two stores of a reset
  wrapped    \* history: a counter has passed 2^32 since the last reset

shared == <<in, out, slots, unread, halfReset, wrapped>>
writer == <<wpc, wn, fresh, seq>>
reader == <<rpc, rn, rbuf>>
ringVars == <<shared, writer, reader>>

\* Memory of a new segment, cleared by its creator: no frame at all.
Blank == SEQ
Frames == 0 .. SEQ - 1
Indices == 0 .. SIZE - 1

\* Between down and up.
Resetting == {"clear2", "reset2"}
WriterInside ==
  {"clear1", "reset1", "copy1", "copy2", "advance"} \cup Resetting
ReaderInside == {"copy", "advance"}

RingInit ==
  /\ in = 0 /\ out = 0
  /\ slots = [i \in Indices |-> Blank]
  /\ wpc = "off" /\ wn = 1 /\ fresh = TRUE /\ seq = 0
  /\ rpc = "top" /\ rn = 1 /\ rbuf = <<>>
  /\ unread = <<>> /\ halfReset = FALSE /\ wrapped = FALSE

-----------------------------------------------------------------------------
SemFree == wpc \notin WriterInside /\ rpc \notin ReaderInside

\* in - out, in unsigned arithmetic.
Used == (in - out) % WORD

\* Mutant of NoRoom: one frame too late.
NoRoomLate(n) == (SIZE - Used) % WORD < n - 1

NoRoom(n) == (SIZE - Used) % WORD < n

\* The slot of the k-th frame (from 0) of a copy that starts at counter c:
\* up to the end of the buffer, then from its beginning.
SlotOf(c, k) == LET off == c % SIZE
                    l == SIZE - off
                IN  IF k < l THEN off + k ELSE k - l

Frame(k) == (seq + k) % SEQ

\* The two stores of a reset.  The build may order them either way.
FirstStore ==
  /\ \/ in' = 0 /\ out' = out
     \/ out' = 0 /\ in' = in
  /\ UNCHANGED <<slots, unread, halfReset, wrapped>>

SecondStore ==
  /\ in' = 0
  /\ out' = 0
  /\ unread' = <<>>
  /\ halfReset' = FALSE /\ wrapped' = FALSE
  /\ slots' = slots

WriterGoto(from, to) == wpc = from /\ wpc' = to

-----------------------------------------------------------------------------
WriterStart ==
  /\ WriterGoto("off", "top")
  /\ fresh' = TRUE
  /\ seq' = 0
  /\ UNCHANGED <<wn, shared, reader>>

\* The next frames of the file; the first ones of a writer clear the buffer.
WriterFrame(n) ==
  /\ WriterGoto("top", IF fresh THEN "clear" ELSE "write")
  /\ wn' = n
  /\ UNCHANGED <<fresh, seq, shared, reader>>

\* local_ipc_data_shm_ioctl(CLEAR_BUF).
ClearDown ==
  /\ WriterGoto("clear", "clear1")
  /\ SemFree
  /\ UNCHANGED <<wn, fresh, seq, shared, reader>>

ClearFirst ==
  /\ WriterGoto("clear1", "clear2")
  /\ FirstStore
  /\ UNCHANGED <<wn, fresh, seq, reader>>

ClearSecond ==
  /\ WriterGoto("clear2", "write")
  /\ SecondStore
  /\ UNCHANGED <<wn, fresh, seq, reader>>

\* local_ipc_data_shm_write.
WriteDown ==
  /\ WriterGoto("write", IF NoRoom(wn) THEN "reset1" ELSE "copy1")
  /\ SemFree
  /\ UNCHANGED <<wn, fresh, seq, shared, reader>>

ResetFirst ==
  /\ WriterGoto("reset1", "reset2")
  /\ FirstStore
  /\ UNCHANGED <<wn, fresh, seq, reader>>

ResetSecond ==
  /\ WriterGoto("reset2", "copy1")
  /\ SecondStore
  /\ UNCHANGED <<wn, fresh, seq, reader>>

\* What a memcpy of the frames ks of the caller's buffer leaves in the slots.
Copied(ks) ==
  [i \in Indices |->
     IF \E k \in ks : SlotOf(in, k) = i
       THEN Frame(CHOOSE k \in ks : SlotOf(in, k) = i)
       ELSE slots[i]]

ToTheEnd == {k \in 0 .. wn - 1 : k < SIZE - (in % SIZE)}

WriteCopyEnd ==
  /\ WriterGoto("copy1", "copy2")
  /\ slots' = Copied(ToTheEnd)
  /\ UNCHANGED <<in, out, unread, halfReset, wrapped, wn, fresh, seq, reader>>

WriteCopyBegin ==
  /\ WriterGoto("copy2", "advance")
  /\ slots' = Copied((0 .. wn - 1) \ ToTheEnd)
  /\ UNCHANGED <<in, out, unread, halfReset, wrapped, wn, fresh, seq, reader>>

\* in += frame_count, up, and the program's own bookkeeping.
WriteAdvance ==
  /\ WriterGoto("advance", "top")
  /\ in' = (in + wn) % WORD
  /\ wrapped' = (wrapped \/ in + wn >= WORD)
  /\ unread' = unread \o [k \in 1 .. wn |-> Frame(k - 1)]
  /\ seq' = (seq + wn) % SEQ
  /\ fresh' = FALSE
  /\ UNCHANGED <<out, slots, halfReset, wn, reader>>

\* The end of the file, or the end of the process anywhere else.
WriterStop ==
  /\ wpc # "off"
  /\ wpc' = "off"
  /\ halfReset' = (halfReset \/ wpc \in Resetting)
  /\ UNCHANGED <<in, out, slots, unread, wrapped, wn, fresh, seq, reader>>

Writer ==
  \/ WriterStart \/ (\E n \in WriteCounts : WriterFrame(n))
  \/ ClearDown \/ ClearFirst \/ ClearSecond
  \/ WriteDown \/ ResetFirst \/ ResetSecond
  \/ WriteCopyEnd \/ WriteCopyBegin \/ WriteAdvance \/ WriterStop

-----------------------------------------------------------------------------
\* local_ipc_data_shm_read; -EAGAIN with fewer frames than asked for.
ReadAgain(n) ==
  /\ rpc = "top"
  /\ SemFree
  /\ n > Used
  /\ UNCHANGED ringVars

ReadDown(n) ==
  /\ rpc = "top"
  /\ SemFree
  /\ n <= Used
  /\ rpc' = "copy"
  /\ rn' = n
  /\ UNCHANGED <<rbuf, shared, writer>>

\* Mutant of ReadCopy: the second memcpy starts where the first one did.
ReadCopyTwice ==
  /\ rpc = "copy"
  /\ rpc' = "advance"
  /\ rbuf' = [k \in 1 .. rn |->
               LET off == out % SIZE
                   l == SIZE - off
                   j == IF k <= l THEN k - 1 ELSE k - 1 - l
               IN  slots[(off + j) % SIZE]]
  /\ UNCHANGED <<rn, shared, writer>>

ReadCopy ==
  /\ rpc = "copy"
  /\ rpc' = "advance"
  /\ rbuf' = [k \in 1 .. rn |-> slots[SlotOf(out, k - 1)]]
  /\ UNCHANGED <<rn, shared, writer>>

ReadAdvance ==
  /\ rpc = "advance"
  /\ rpc' = "top"
  /\ out' = (out + rn) % WORD
  /\ unread' = SubSeq(unread, rn + 1, Len(unread))
  /\ rbuf' = <<>>
  /\ UNCHANGED <<in, slots, halfReset, wrapped, rn, writer>>

\* The reader dies and is started again.
ReaderRestart ==
  /\ rpc # "top"
  /\ rpc' = "top"
  /\ rbuf' = <<>>
  /\ UNCHANGED <<rn, shared, writer>>

Reader ==
  \/ (\E n \in ReadCounts : ReadAgain(n) \/ ReadDown(n))
  \/ ReadCopy \/ ReadAdvance \/ ReaderRestart

RingNext == Writer \/ Reader

RingSpec == RingInit /\ [][RingNext]_ringVars

-----------------------------------------------------------------------------
RingTypeOK ==
  /\ in \in 0 .. WORD - 1
  /\ out \in 0 .. WORD - 1
  /\ slots \in [Indices -> Frames \cup {Blank}]
  /\ wpc \in {"off", "top", "clear", "write"} \cup WriterInside
  /\ wn \in 1 .. SIZE
  /\ fresh \in BOOLEAN
  /\ seq \in Frames
  /\ rpc \in {"top"} \cup ReaderInside
  /\ rn \in 1 .. SIZE
  /\ rbuf \in Seq(Frames \cup {Blank})
  /\ unread \in Seq(Frames)
  /\ halfReset \in BOOLEAN
  /\ wrapped \in BOOLEAN

\* Outside a reset the counters and the slots hold exactly the frames that
\* were written and neither read nor discarded, in order: a write never runs
\* over an unread frame, even while the writer is killed halfway through its
\* copies, and the clearing of a restarted writer mends what a death between
\* the two stores of a reset broke.
RingHoldsUnread ==
  ~halfReset /\ wpc \notin Resetting =>
    /\ Len(unread) <= SIZE
    /\ Used = Len(unread)
    /\ \A k \in 1 .. Len(unread) : slots[SlotOf(out, k - 1)] = unread[k]

\* What a read copies out is the oldest unread frames, in the order written,
\* across the end of the buffer and across the wrap of the counters.
ReadsInOrder ==
  rpc = "advance" /\ ~halfReset =>
    /\ rn <= Len(unread)
    /\ rbuf = SubSeq(unread, 1, rn)
=============================================================================
