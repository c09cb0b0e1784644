---------------------------- MODULE JitterSample ----------------------------
(***************************************************************************)
(* sharemem_sample/UnitTestShareMem.c: an earlier form of the jitter       *)
(* buffer of sharemem_mmap.c and the program that tries it out, in one     *)
(* process: map the file, put the packets 1 to 3, read once, unmap.  The   *)
(* head of the mapping is a record, the payload of a block a pointer to    *)
(* the one buffer that main fills for each packet in turn.                 *)
(***************************************************************************)
EXTENDS Integers, FiniteSets

CONSTANTS
  Capacity,           \* 256 blocks of 10 ms
  MIN_PAYLOAD_COUNT,  \* 1
  SEQ_MOD,            \* sequence numbers, 65536
  Packets             \* how many packets main puts, 3

\* What the constants are.
SampleAssumption ==
  /\ Capacity \in Nat \ {0} /\ SEQ_MOD \in Nat /\ Capacity < SEQ_MOD
  /\ MIN_PAYLOAD_COUNT \in Nat \ {0} /\ Packets \in 1 .. Capacity - 1

VARIABLES
  step,    \* where main is
  i,       \* the packet to put next
  head,    \* jiter_buffer_head_t
  block,   \* the attribute blocks: the sequence number, 0 in a block of zeros
  inBuff,  \* in_data_buff: the packet it was filled for
  read      \* what the read returned: the block's sequence number and data, or None

sampleVars == <<step, i, head, block, inBuff, read>>

Blocks == 0 .. Capacity - 1
None == [seq |-> -1, data |-> -1]

\* get_packet_time: the types other than OPUS have no time.
get_packet_time(media) == IF media = "OPUS" THEN 10 ELSE 0

\* The head of a fresh buffer for a media type that has a packet time, and
\* blocks of zeros; without one the capacity is a division by zero.
Formatted(media) ==
  /\ get_packet_time(media) # 0
  /\ head' = [media |-> media, status |-> "PREFETCHING", count |-> 0, getOffset |-> 0,
              lastGot |-> 0, lastPutPos |-> 0, lastPut |-> 0, late |-> 0, exists |-> 0]
  /\ block' = [b \in Blocks |-> 0]

Init ==
  /\ step = "init" /\ i = 1 /\ inBuff = 0 /\ read = None
  /\ head = None /\ block = [b \in Blocks |-> 0]

\* init_mmap truncates the file, so its head is always formatted.
init_mmap ==
  /\ step = "init"
  /\ Formatted("OPUS")
  /\ step' = "write"
  /\ UNCHANGED <<i, inBuff, read>>

\* The file cannot be opened, extended or mapped: main does not look at the
\* result, and write_mmap, which tests for NULL only, faults.
InitFails ==
  /\ step = "init"
  /\ step' = "crashed"
  /\ UNCHANGED <<i, head, block, inBuff, read>>

-----------------------------------------------------------------------------
\* delta_senq: the four cases of sequence and timestamp agree modulo 65536.
Delta(a, b) == (a - b) % SEQ_MOD

\* The capacity is added, and taken away again.
cur_position(s) ==
  LET q == head.lastPutPos + Delta(s, head.lastPut) + Capacity
  IN IF q >= Capacity THEN q - Capacity ELSE q

\* The loop of main ends after the last packet.
Looped == i' = i + 1 /\ step' = (IF i < Packets THEN "write" ELSE "read")

\* The head after a packet that comes too late or a second time, or None.
Discarded(s) ==
  CASE Delta(s, head.lastGot) < 1 -> [head EXCEPT !.late = @ + 1]
    [] Delta(s, head.lastGot) >= 1 /\ block[cur_position(s)] = s -> [head EXCEPT !.exists = @ + 1]
    [] OTHER -> None

\* The head after a packet was stored: enough packets end the prefetching.
Counted(s) ==
  [head EXCEPT !.lastPutPos = cur_position(s), !.lastPut = s, !.count = @ + 1,
               !.status = IF head.count + 1 >= MIN_PAYLOAD_COUNT THEN "PROCESSING" ELSE @]

\* write_mmap with the next packet.  main's packets are OPUS as its buffer is,
\* so the buffer is not reset.
write_mmap ==
  /\ step = "write" /\ head.media = "OPUS"
  /\ inBuff' = i
  /\ head' = IF Discarded(i) # None THEN Discarded(i) ELSE Counted(i)
  /\ block' = IF Discarded(i) # None THEN block ELSE [block EXCEPT ![cur_position(i)] = i]
  /\ Looped
  /\ UNCHANGED read

\* read_mmap in the state PROCESSING: the block at the get offset, whatever
\* it holds; its data is what the pointer in it points to by now.
read_mmap ==
  /\ step = "read" /\ head.status = "PROCESSING"
  /\ LET g == head.getOffset % Capacity IN
     /\ read' = [seq |-> block[g], data |-> IF block[g] = 0 THEN 0 ELSE inBuff]
     /\ head' = [head EXCEPT !.getOffset = g + 1, !.lastGot = block[g], !.count = @ - 1,
                             !.status = IF head.count - 1 < MIN_PAYLOAD_COUNT THEN "PREFETCHING" ELSE @]
  /\ step' = "destroy"
  /\ UNCHANGED <<i, block, inBuff>>

\* destory_mmap: the file keeps the buffer.
destory_mmap ==
  /\ step = "destroy"
  /\ step' = "done"
  /\ UNCHANGED <<i, head, block, inBuff, read>>

Next == init_mmap \/ InitFails \/ write_mmap \/ read_mmap \/ destory_mmap

-----------------------------------------------------------------------------
\* No packet is put over another one or discarded, and up to the read the count
\* is the number of packets stored.  (The read takes block 0, where none was
\* put, and counts it: UnitTestShareMem.c:325-329, :398-423.)
PacketsCounted ==
  LET stored == Cardinality({b \in Blocks : block[b] # 0}) IN
  step \in {"write", "read", "destroy", "done"} =>
    stored = i - 1 /\ (read = None => head.count = stored)
=============================================================================
