---------------------------- MODULE JitterBuffer ----------------------------
(***************************************************************************)
(* sharemem_mmap.c: a jitter buffer in a mapped file, filled by one        *)
(* process (UnitTestShareMem_MMap_Write.c) and emptied by another (..Read.c)*)
(* without a lock.  The network may lose a packet or deliver it twice.     *)
(* A put or a get is cut where the two share the packet count and the      *)
(* state: up to the count, the load of the count, its store, the test, the  *)
(* store of the state.  The test may use the stored count or load it again. *)
(* Once a count was stored over the other process's, none of the numbers   *)
(* means anything: no put or get starts after that.                        *)
(***************************************************************************)
EXTENDS Integers, Sequences, FiniteSets

CONSTANTS
  Capacity,           \* MAX_BLOCK_COUNT, 256
  MIN_PAYLOAD_COUNT,  \* 6
  READ_FRAME_COUNT,   \* 3
  SEQ_MOD,             \* sequence numbers, 65536
  MaxSeq              \* packets the sender makes (bound)

\* What the constants are.
JitterAssumption ==
  /\ Capacity \in Nat \ {0} /\ SEQ_MOD \in Nat \ {0} /\ Capacity < SEQ_MOD
  /\ MIN_PAYLOAD_COUNT \in Nat \ {0} /\ READ_FRAME_COUNT \in 1 .. Capacity
  /\ MaxSeq \in Nat

Blocks == 0 .. Capacity - 1
Empty == -1   \* a block of zeros

VARIABLES
  attr,       \* attribute blocks: the sequence number, 0 at first
  payload,    \* payload blocks: the packet, or Empty
  count,      \* jiter_cached_paload_count
  status,     \* jiter_status
  getOffset, lastGot, lastPutPos, lastPut,
  late, exists, prefetches,        \* counters of the head
  wpc, pkt, wcount,                \* the writer: its packet and loaded count
  rpc, rcount,                     \* the reader
  sent,       \* packets made
  put,        \* history: packets put
  got,        \* history: the blocks read, in order
  raced,      \* history: a count was stored that the other process had changed since its load
  stale       \* history: the state stored last did not fit the count any more

headVars == <<status, getOffset, lastGot, lastPutPos, lastPut, late, exists, prefetches>>
vars == <<attr, payload, count, headVars, wpc, pkt, wcount, rpc, rcount, sent, put, got, raced, stale>>

\* init_mmap by the writer; the reader maps the file afterwards.
Init ==
  /\ attr = [b \in Blocks |-> 0] /\ payload = [b \in Blocks |-> Empty]
  /\ count = 0 /\ status = "PREFETCHING"
  /\ getOffset = 0 /\ lastGot = 0 /\ lastPutPos = 0 /\ lastPut = 0
  /\ late = 0 /\ exists = 0 /\ prefetches = 0
  /\ wpc = "idle" /\ pkt = Empty /\ wcount = 0 /\ rpc = "idle" /\ rcount = 0
  /\ sent = 0 /\ put = {} /\ got = <<>> /\ raced = FALSE /\ stale = FALSE

\* delta_senq, an unsigned short: the four cases of sequence and timestamp
\* agree modulo its size.
Delta(a, b) == (a - b) % SEQ_MOD

\* cur_position: the capacity is added and taken away again.
Position(p) ==
  LET q == lastPutPos + Delta(p, lastPut) + Capacity IN IF q >= Capacity THEN q - Capacity ELSE q

-----------------------------------------------------------------------------
\* The sender makes a packet: it arrives, or it is lost.
Lose ==
  /\ wpc = "idle" /\ sent < MaxSeq /\ ~raced
  /\ sent' = sent + 1
  /\ UNCHANGED <<attr, payload, count, headVars, wpc, pkt, wcount, rpc, rcount, put, got, raced, stale>>

Arrive ==
  /\ wpc = "idle" /\ sent < MaxSeq /\ ~raced
  /\ pkt' = sent /\ sent' = sent + 1 /\ wpc' = "put"
  /\ UNCHANGED <<attr, payload, count, headVars, wcount, rpc, rcount, put, got, raced, stale>>

\* The packet delivered last is delivered again.
Again ==
  /\ wpc = "idle" /\ pkt # Empty /\ ~raced /\ exists + late < 2
  /\ wpc' = "put"
  /\ UNCHANGED <<attr, payload, count, headVars, pkt, wcount, rpc, rcount, sent, put, got, raced, stale>>

\* Mutant of Discarded: a packet delivered twice is not recognised.
DiscardedNever(p) == "no"

\* write_mmap drops a packet that is too late or already there.
Discarded(p) ==
  LET s == p % SEQ_MOD IN
  IF count # 0 /\ Delta(s, lastGot) < 1 THEN "late"
  ELSE IF count # 0 /\ Position(s) \in Blocks /\ attr[Position(s)] = s THEN "exists"
  ELSE "no"

\* write_mmap up to the count.  A position outside the buffer writes elsewhere
\* in the mapping or beyond it: nothing is known after that.
Put ==
  /\ wpc = "put"
  /\ LET s == pkt % SEQ_MOD
         pos == Position(s)
     IN CASE Discarded(pkt) # "no" ->
               /\ late' = IF Discarded(pkt) = "late" THEN late + 1 ELSE late
               /\ exists' = IF Discarded(pkt) = "exists" THEN exists + 1 ELSE exists
               /\ wpc' = "idle"
               /\ UNCHANGED <<attr, payload, lastPutPos, lastPut, put>>
          [] Discarded(pkt) = "no" /\ pos \in Blocks ->
               /\ attr' = [attr EXCEPT ![pos] = s] /\ payload' = [payload EXCEPT ![pos] = pkt]
               /\ lastPutPos' = pos /\ lastPut' = s
               /\ put' = put \cup {pkt}
               /\ wpc' = "load" /\ UNCHANGED <<late, exists>>
          [] OTHER ->
               /\ lastPutPos' = pos /\ wpc' = "wild"
               /\ UNCHANGED <<attr, payload, lastPut, late, exists, put>>
  /\ UNCHANGED <<count, status, getOffset, lastGot, prefetches, pkt, wcount, rpc, rcount, sent, got, raced, stale>>

LoadCount ==
  /\ wpc = "load"
  /\ wcount' = count /\ wpc' = "store"
  /\ UNCHANGED <<attr, payload, count, headVars, pkt, rpc, rcount, sent, put, got, raced, stale>>

\* The count is increased.
StoreCount ==
  /\ wpc = "store"
  /\ count' = wcount + 1
  /\ raced' = (raced \/ count # wcount)
  /\ wpc' = "test"
  /\ UNCHANGED <<attr, payload, headVars, pkt, wcount, rpc, rcount, sent, put, got, stale>>

\* Enough packets ...
TestCount ==
  /\ wpc = "test"
  /\ \E v \in {count, wcount + 1} : wpc' = IF v >= MIN_PAYLOAD_COUNT THEN "status" ELSE "idle"
  /\ UNCHANGED <<attr, payload, count, headVars, pkt, wcount, rpc, rcount, sent, put, got, raced, stale>>

\* ... end the prefetching.
StoreStatus ==
  /\ wpc = "status"
  /\ status' = "PROCESSING" /\ stale' = (count < MIN_PAYLOAD_COUNT)
  /\ wpc' = "idle"
  /\ UNCHANGED <<attr, payload, count, getOffset, lastGot, lastPutPos, lastPut, late, exists, prefetches,
                 pkt, wcount, rpc, rcount, sent, put, got, raced>>

-----------------------------------------------------------------------------
\* The conditions of read_mmap; the first one of its checks is never true.
Readable == count > READ_FRAME_COUNT /\ status = "PROCESSING"

\* The blocks copied: from the index of the first one's attributes, 0 in a
\* block where nothing was put, up to the end of the buffer, and the rest from its start.
Copied(o) ==
  LET start == attr[o] % Capacity
      remain == Capacity - o
  IN [i \in 1 .. READ_FRAME_COUNT |->
        IF i <= remain THEN payload[(start + i - 1) % Capacity] ELSE payload[i - remain - 1]]

\* read_mmap up to the count; the frames are taken from getOffset on.
Get ==
  /\ rpc = "idle" /\ ~raced /\ Readable
  /\ LET o == getOffset % Capacity
     IN /\ got' = got \o Copied(o)
        /\ lastGot' = attr[o]
        /\ getOffset' = o
  /\ rpc' = "load"
  /\ UNCHANGED <<attr, payload, count, status, lastPutPos, lastPut, late, exists, prefetches,
                 wpc, pkt, wcount, rcount, sent, put, raced, stale>>

GetLoad ==
  /\ rpc = "load"
  /\ rcount' = count /\ rpc' = "store"
  /\ UNCHANGED <<attr, payload, count, headVars, wpc, pkt, wcount, sent, put, got, raced, stale>>

\* The count is reduced and the head moves on.
GetStore ==
  /\ rpc = "store"
  /\ count' = rcount - READ_FRAME_COUNT
  /\ raced' = (raced \/ count # rcount)
  /\ getOffset' = getOffset + READ_FRAME_COUNT
  /\ rpc' = "test"
  /\ UNCHANGED <<attr, payload, status, lastGot, lastPutPos, lastPut, late, exists, prefetches,
                 wpc, pkt, wcount, rcount, sent, put, got, stale>>

\* Too few packets ...
GetTest ==
  /\ rpc = "test"
  /\ \E v \in {count, rcount - READ_FRAME_COUNT} :
       rpc' = IF v < MIN_PAYLOAD_COUNT THEN "status" ELSE "idle"
  /\ UNCHANGED <<attr, payload, count, headVars, wpc, pkt, wcount, rcount, sent, put, got, raced, stale>>

\* ... mean prefetching.
GetStatus ==
  /\ rpc = "status"
  /\ status' = "PREFETCHING" /\ prefetches' = prefetches + 1
  /\ stale' = (count >= MIN_PAYLOAD_COUNT)
  /\ rpc' = "idle"
  /\ UNCHANGED <<attr, payload, count, getOffset, lastGot, lastPutPos, lastPut, late, exists,
                 wpc, pkt, wcount, rcount, sent, put, got, raced>>

Next ==
  \/ Lose \/ Arrive \/ Again \/ Put \/ LoadCount \/ StoreCount \/ TestCount \/ StoreStatus
  \/ Get \/ GetLoad \/ GetStore \/ GetTest \/ GetStatus

Spec == Init /\ [][Next]_vars

-----------------------------------------------------------------------------
\* The types.
TypeOK ==
  /\ attr \in [Blocks -> 0 .. SEQ_MOD - 1] /\ payload \in [Blocks -> {Empty} \cup 0 .. MaxSeq]
  /\ count \in Nat /\ status \in {"PREFETCHING", "PROCESSING"}
  /\ getOffset \in 0 .. 2 * Capacity /\ lastPutPos \in Nat
  /\ wpc \in {"idle", "put", "load", "store", "test", "status", "wild"}
  /\ rpc \in {"idle", "load", "store", "test", "status"}
  /\ put \subseteq 0 .. MaxSeq /\ Len(got) <= MaxSeq

Quiet == wpc = "idle" /\ rpc = "idle"

\* While nobody is at work the state is PROCESSING exactly when enough packets
\* are there, unless a process stored it after the other had changed the count:
\* then it is wrong until the next put or get stores it again.
StatusFollowsCount ==
  Quiet /\ ~raced /\ ~stale => ((status = "PROCESSING") <=> (count >= MIN_PAYLOAD_COUNT))

\* Without a loss and as long as the count is right the reader gets every packet
\* once, in order, the repeated ones included.
ReadsInOrder == (Cardinality(put) = sent /\ ~raced) => \A i \in DOMAIN got : got[i] = i - 1

\* Until one process stores a count the other has changed, the count is the
\* packets put less the blocks read: a lost packet's empty block counts as one.
CountIsBlocks == Quiet /\ ~raced => count = Cardinality(put) - Len(got)

\* The comment on the field: the number of packets in the buffer, put and not
\* read.  So it is without a loss.
CountIsCached ==
  Quiet /\ ~raced /\ Cardinality(put) = sent =>
    count = Cardinality({p \in put : \A i \in DOMAIN got : got[i] # p})

\* What the comment on the position says: it is in 0 .. capacity - 1.
PositionInRange == lastPutPos \in Blocks
=============================================================================
