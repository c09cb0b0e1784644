------------------------------ MODULE MCMedia -------------------------------
(***************************************************************************)
(* What carries and stores sound, in one run: the shared segment, the      *)
(* frame ring in it, the jitter buffer with its earlier form, and the      *)
(* recorder.  A behaviour is one of the component that part names; the     *)
(* segment and the ring rest in their initial state in the others'         *)
(* behaviours, the variables of the other parts are at Off.                *)
(***************************************************************************)
EXTENDS ShmSegment, ShmRing

CONSTANTS
  c,
  Capacity, MIN_PAYLOAD_COUNT, READ_FRAME_COUNT, SEQ_MOD, MaxSeq,
  RECORD_SAMPLE_RATE, Rates, Periods, AskedRates, AskedFormats, AskedChannels, Durations,
  SizeT, ShortReads, Older, MaxData

VARIABLES
  part,
  attr, payload, count, status, getOffset, lastGot, lastPutPos, lastPut,
  late, exists, prefetches, putting, pkt, wcount, getting, rcount, sent, put, got, raced, stale,
  at, params, pcm, devRate, handle, buffer, fd, dirs, older, size, header, total, result,
  step, i, head, block, inBuff, read

\* One process asks for a larger segment than the others (a program built with
\* another FRAME_NUM).
MCShmSize == [p \in Procs |-> IF p = c THEN 2 ELSE 1]

Jitter == INSTANCE JitterBuffer WITH wpc <- putting, rpc <- getting
Record == INSTANCE AlsaRecord WITH WORD <- SizeT, pc <- at
Sample == INSTANCE JitterSample WITH MIN_PAYLOAD_COUNT <- 1, Packets <- 3

ASSUME MediaAssumption == Jitter!JitterAssumption /\ Record!RecordAssumption /\ Sample!SampleAssumption

jitterVars ==
  <<attr, payload, count, status, getOffset, lastGot, lastPutPos, lastPut, late, exists, prefetches,
    putting, pkt, wcount, getting, rcount, sent, put, got, raced, stale>>
recordVars == <<at, params, pcm, devRate, handle, buffer, fd, dirs, older, size, header, total, result>>
sampleVars == <<step, i, head, block, inBuff, read>>
mediaVars == <<part, vars, ringVars, jitterVars, recordVars, sampleVars>>

Off(v) == v = "off"
NoJitter ==
  /\ Off(attr) /\ Off(payload) /\ Off(count) /\ Off(status) /\ Off(getOffset) /\ Off(lastGot)
  /\ Off(lastPutPos) /\ Off(lastPut) /\ Off(late) /\ Off(exists) /\ Off(prefetches)
  /\ Off(putting) /\ Off(pkt) /\ Off(wcount) /\ Off(getting) /\ Off(rcount)
  /\ Off(sent) /\ Off(put) /\ Off(got) /\ Off(raced) /\ Off(stale)
NoRecord ==
  /\ Off(at) /\ Off(params) /\ Off(pcm) /\ Off(devRate) /\ Off(handle) /\ Off(buffer) /\ Off(fd)
  /\ Off(dirs) /\ Off(older) /\ Off(size) /\ Off(header) /\ Off(total) /\ Off(result)
NoSample == Off(step) /\ Off(i) /\ Off(head) /\ Off(block) /\ Off(inBuff) /\ Off(read)

MediaInit ==
  /\ Init /\ RingInit
  /\ \/ part \in {"segment", "ring"} /\ NoJitter /\ NoRecord /\ NoSample
     \/ part = "jitter" /\ Jitter!Init /\ NoRecord /\ NoSample
     \/ part = "record" /\ Record!Init /\ NoJitter /\ NoSample
     \/ part = "sample" /\ Sample!Init /\ NoJitter /\ NoRecord

\* The jitter buffer's sender stops after MaxSeq packets, a recording and the
\* sample program end.
Rest == part \in {"jitter", "record", "sample"} /\ UNCHANGED mediaVars

MediaNext ==
  \/ part = "segment" /\ Next /\ UNCHANGED <<part, ringVars, jitterVars, recordVars, sampleVars>>
  \/ part = "ring" /\ RingNext /\ UNCHANGED <<part, vars, jitterVars, recordVars, sampleVars>>
  \/ part = "jitter" /\ Jitter!Next /\ UNCHANGED <<part, vars, ringVars, recordVars, sampleVars>>
  \/ part = "record" /\ Record!Next /\ UNCHANGED <<part, vars, ringVars, jitterVars, sampleVars>>
  \/ part = "sample" /\ Sample!Next /\ UNCHANGED <<part, vars, ringVars, jitterVars, recordVars>>
  \/ Rest

MediaSpec == MediaInit /\ [][MediaNext]_mediaVars

-----------------------------------------------------------------------------
\* While neither process of the jitter buffer is at work, its count is what was
\* put less the blocks that were read, the empty blocks of lost packets
\* included; without a loss it is the number of packets in the buffer, and the
\* reader gets every packet once and in order, repeated ones included.  The
\* state is PROCESSING exactly when the count is enough, unless the last state
\* was stored after the count it was meant for had changed (sharemem_mmap.c:44,
\* :348-354, :443-451).  In the earlier form no packet is put over another one,
\* and they are counted up to the read (UnitTestShareMem.c:325-343).
CountIsCached ==
  /\ part = "jitter" =>
       /\ Jitter!TypeOK /\ Jitter!CountIsBlocks /\ Jitter!CountIsCached
       /\ Jitter!StatusFollowsCount /\ Jitter!ReadsInOrder
  /\ part = "sample" => Sample!PacketsCounted

\* On every path of the recorder, whatever failed, the device, the buffer and
\* the file that were taken are given back, but for a file that got descriptor
\* 0 (alsa_record.c:177, :182, :314-319).
AllReleased == part = "record" => Record!TypeOK /\ Record!AllReleased

\* A recording that ends without an error leaves a file of the bytes its header
\* announces, or of those and whole turns of the unsigned countdown, through
\* overruns, short reads and a length that wraps: the countdown ends at 0 and
\* nowhere else.  The file is not truncated when it is opened: over an older,
\* longer one only the bytes written agree (alsa_record.c:222, :248, :278-303).
HeaderAgrees == part = "record" => Record!HeaderAgrees
=============================================================================
