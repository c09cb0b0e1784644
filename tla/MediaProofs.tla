---------------------------- MODULE MediaProofs ----------------------------
(***************************************************************************)
(* Proofs about the parts of MCMedia that have no module of proofs of      *)
(* their own: the recorder, for every device, request and width of a       *)
(* size_t, and the jitter buffer and its earlier form, for every capacity  *)
(* and number of packets.                                                  *)
(***************************************************************************)
EXTENDS MCMedia, SequenceTheorems, FiniteSetTheorems, TLAPS

-----------------------------------------------------------------------------
\* Division with remainder.
LEMMA DivMod ==
  ASSUME NEW W \in Nat \ {0}, NEW x \in Int
  PROVE  /\ x % W \in 0 .. W - 1
         /\ x \div W \in Int
         /\ x = W * (x \div W) + (x % W)
  OBVIOUS

\* ... whose remainder is unique.
LEMMA ModUnique ==
  ASSUME NEW W \in Nat \ {0}, NEW q \in Int, NEW r \in 0 .. W - 1
  PROVE  (W * q + r) % W = r
  OBVIOUS

\* Small numbers are their own remainders.
LEMMA ModSmall ==
  ASSUME NEW W \in Nat \ {0}, NEW r \in 0 .. W - 1
  PROVE  r % W = r
  OBVIOUS

\* A summand may be reduced first.
LEMMA ModAdds ==
  ASSUME NEW W \in Nat \ {0}, NEW x \in Int, NEW y \in Int
  PROVE  (x + (y % W)) % W = (x + y) % W
<1> DEFINE q == y \div W
           p == (x + (y % W)) \div W
           r == (x + (y % W)) % W
<1>1. y = W * q + (y % W) /\ q \in Int /\ y % W \in Int
  BY DivMod
<1>2. x + (y % W) = W * p + r /\ p \in Int /\ r \in 0 .. W - 1
  <2>1. x + (y % W) \in Int
    BY <1>1
  <2> QED BY <2>1, DivMod
<1>3. W * (q + p) = W * q + W * p
  BY <1>1, <1>2
<1>4. x + y = W * (q + p) + r
  BY <1>1, <1>2, <1>3
<1>5. (W * (q + p) + r) % W = r
  <2>1. q + p \in Int
    BY <1>1, <1>2
  <2> QED BY <2>1, <1>2, ModUnique
<1> QED BY <1>4, <1>5

-----------------------------------------------------------------------------
\* What the requests and the handle are.
Requests == [rate : AskedRates, format : AskedFormats, channel : AskedChannels, duration : Durations]
Handles == [rate : Nat, channels : {1, 2}, bits : {8, 16}, chunk : Nat \ {0}]

\* What the recorder holds at each point: the device, the buffer, the file.
Holds ==
  /\ at = "open" => pcm = "none" /\ buffer = "none" /\ fd = "none"
  /\ at \in {"configure", "malloc", "init_fail"} => buffer = "none" /\ fd = "none"
  /\ at \in {"safe_open", "create_path"} => fd = "none"
  /\ at = "create_path" => dirs < 2
  /\ at = "destroy" => fd # "open"
  /\ at = "done" => pcm = "closed" /\ buffer = "freed" /\ fd # "open"
  /\ at = "failed" => pcm \in {"none", "closed"} /\ buffer = "none" /\ fd = "none"

\* Between the header and the end of the countdown the bytes recorded and
\* those still to be recorded are, modulo the width, those announced.
Recording == at = "loop" \/ result = "SUCCESS"
Announced ==
  /\ result # "none" => at \in {"close", "destroy", "done"}
  /\ result = "SUCCESS" => total = 0
  /\ Recording => (size - Record!HEADER + total) % SizeT = Record!Little(header.data)

RecordInv ==
  /\ Record!TypeOK
  /\ params \in Requests
  /\ at \in {"malloc", "safe_open", "create_path", "header", "loop"} => handle \in Handles
  /\ Holds
  /\ Announced

RecordIsSound == part = "record" => RecordInv

-----------------------------------------------------------------------------
\* The four bytes of the header hold a size_t.
LEMMA FourBytes ==
  ASSUME NEW num \in 0 .. SizeT - 1
  PROVE  Record!Little(Record!number_to_string(num, 4)) = num
<1>1. SizeT \in Nat /\ (SizeT - 1) \div 65536 < 65536
  BY MediaAssumption DEF Record!RecordAssumption
<1>2. num \in Nat /\ num \div 65536 < 65536
  BY <1>1
<1> DEFINE byte == Record!number_to_string(num, 4)
<1>3. /\ byte[1] = (num \div 1) % 256 /\ byte[2] = (num \div 256) % 256
      /\ byte[3] = (num \div 65536) % 256 /\ byte[4] = (num \div 16777216) % 256
  BY DEF Record!number_to_string, Record!Weight
<1>4. Record!Little(byte) = byte[1] * 1 + byte[2] * 256 + byte[3] * 65536 + byte[4] * 16777216
  BY DEF Record!Little, Record!Weight
<1> HIDE DEF byte
<1>5. num = 256 * (num \div 256) + (num % 256) /\ num \div 1 = num
  BY <1>2
<1>6. num \div 256 = 256 * (num \div 65536) + ((num \div 256) % 256)
  BY <1>2
<1>7. num \div 65536 = 256 * (num \div 16777216) + ((num \div 65536) % 256)
  BY <1>2
<1>8. (num \div 16777216) % 256 = num \div 16777216
  BY <1>2
<1>9. /\ num \div 256 \in Int /\ num \div 65536 \in Int /\ num \div 16777216 \in Int
      /\ num % 256 \in Int /\ (num \div 256) % 256 \in Int /\ (num \div 65536) % 256 \in Int
  BY <1>2
<1>10. Record!Little(byte) = num
  BY <1>2, <1>3, <1>4, <1>5, <1>6, <1>7, <1>8, <1>9
<1> QED BY <1>10 DEF byte

\* A number's four bytes are a sequence of four.
LEMMA FourLong ==
  ASSUME NEW num
  PROVE  Len(Record!number_to_string(num, 4)) = 4
<1> DEFINE f(j) == (num \div Record!Weight[j]) % 256
<1>1. Record!number_to_string(num, 4) = [j \in 1 .. 4 |-> f(j)]
  BY DEF Record!number_to_string
<1> QED BY <1>1

\* Bytes that go from the countdown to the file leave the sum as it is.
LEMMA CountdownKept ==
  ASSUME NEW W \in Nat \ {0}, NEW s \in Int, NEW t \in Int, NEW b \in Int
  PROVE  (s + b - 44 + ((t - b) % W)) % W = (s - 44 + t) % W
<1>1. s + b - 44 \in Int /\ t - b \in Int
  OBVIOUS
<1>2. (s + b - 44 + ((t - b) % W)) % W = ((s + b - 44) + (t - b)) % W
  BY <1>1, ModAdds
<1>3. (s + b - 44) + (t - b) = s - 44 + t
  OBVIOUS
<1> QED BY <1>2, <1>3

LEMMA RecordInvInit == part = "record" /\ Record!Init => RecordInv
<1> SUFFICES ASSUME part = "record", Record!Init PROVE RecordInv
  OBVIOUS
<1> USE DEF Record!Init, Record!NoHandle, Record!NoHeader
<1>1. Record!TypeOK
  <2>1. SizeT \in Nat \ {0} /\ older \in Nat
    BY MediaAssumption DEF Record!RecordAssumption
  <2> QED BY <2>1 DEF Record!TypeOK
<1>2. Holds /\ Announced
  BY DEF Holds, Announced, Recording
<1> QED BY <1>1, <1>2 DEF RecordInv, Requests

\* The actions that only move on, take or give back.
LEMMA RecordInvMoves ==
  ASSUME RecordInv,
         \/ Record!Open \/ Record!Configure \/ Record!Malloc \/ Record!init_recorder_fail
         \/ Record!safe_open \/ Record!create_path \/ Record!ReadFails \/ Record!RecordDone
         \/ Record!Close \/ Record!destroy_recorder \/ Record!Overrun
  PROVE  RecordInv'
<1> USE DEF RecordInv, Record!TypeOK, Holds, Announced, Recording
<1>1. CASE Record!Open
  BY <1>1 DEF Record!Open
<1>2. CASE Record!Configure
  <2>1. Record!get_rate_from_params(params) \in Nat
    <3>1. params \in Requests
      OBVIOUS
    <3>2. AskedRates \subseteq Nat /\ RECORD_SAMPLE_RATE \in Nat
      BY MediaAssumption DEF Record!RecordAssumption
    <3> HIDE DEF RecordInv
    <3>3. params.rate \in Nat
      BY <3>1, <3>2 DEF Requests
    <3> QED BY <3>2, <3>3 DEF Record!get_rate_from_params
  <2>2. Record!get_channel_from_params(params) \in {1, 2} /\ Record!get_bits_from_params(params) \in {8, 16}
    BY DEF Record!get_channel_from_params, Record!get_bits_from_params
  <2>3. at' = "malloc" => handle' \in Handles
    BY <1>2, <2>1, <2>2, MediaAssumption DEF Record!Configure, Record!RecordAssumption, Handles
  <2>4. at' \in {"malloc", "init_fail"} /\ at = "configure"
    BY <1>2 DEF Record!Configure
  <2>5. pcm' \in {"none", "open", "ready", "xrun", "suspended", "closed"}
    BY <1>2 DEF Record!Configure
  <2>6. UNCHANGED <<params, buffer, fd, dirs, older, size, header, total, result>>
    BY <1>2 DEF Record!Configure
  <2> QED BY <2>3, <2>4, <2>5, <2>6
<1>3. CASE Record!Malloc
  BY <1>3 DEF Record!Malloc
<1>4. CASE Record!init_recorder_fail
  BY <1>4 DEF Record!init_recorder_fail
<1>5. CASE Record!safe_open
  BY <1>5 DEF Record!safe_open
<1>6. CASE Record!create_path
  BY <1>6 DEF Record!create_path
<1>7. CASE Record!ReadFails
  BY <1>7 DEF Record!ReadFails
<1>8. CASE Record!RecordDone
  BY <1>8 DEF Record!RecordDone
<1>9. CASE Record!Close
  BY <1>9 DEF Record!Close
<1>10. CASE Record!destroy_recorder
  BY <1>10 DEF Record!destroy_recorder
<1>11. CASE Record!Overrun
  BY <1>11 DEF Record!Overrun
<1> QED BY <1>1, <1>2, <1>3, <1>4, <1>5, <1>6, <1>7, <1>8, <1>9, <1>10, <1>11

\* The header announces what is to be recorded.
LEMMA RecordInvHeader ==
  ASSUME RecordInv, Record!WriteHeader
  PROVE  RecordInv'
<1> DEFINE product == params.duration * handle.rate * handle.bits * handle.channels
<1>1. SizeT \in Nat \ {0}
  BY MediaAssumption DEF Record!RecordAssumption
<1>2. product \in Nat
  <2>1. handle \in Handles /\ params \in Requests /\ Durations \subseteq Nat
    BY MediaAssumption DEF RecordInv, Record!WriteHeader, Record!RecordAssumption
  <2>2. params.duration \in Nat /\ handle.rate \in Nat /\ handle.bits \in Nat /\ handle.channels \in Nat
    <3>1. params.duration \in Durations
      BY <2>1 DEF Requests
    <3>2. handle.rate \in Nat /\ handle.bits \in {8, 16} /\ handle.channels \in {1, 2}
      BY <2>1 DEF Handles
    <3>3. params.duration \in Nat
      BY <2>1, <3>1
    <3> QED BY <3>2, <3>3
  <2> QED BY <2>2
<1>3. total' = (product % SizeT) \div 8
  BY DEF Record!WriteHeader
<1> HIDE DEF product
<1>4. total' \in 0 .. SizeT - 1
  <2>1. product % SizeT \in 0 .. SizeT - 1
    BY <1>1, <1>2, DivMod
  <2> QED BY <1>1, <1>3, <2>1
<1>5. (44 - 44 + total') % SizeT = total'
  <2>1. \A t \in 0 .. SizeT - 1 : (44 - 44 + t) % SizeT = t
    BY <1>1, ModSmall
  <2> QED BY <1>4, <2>1
<1>6. Record!Little(Record!number_to_string(total', 4)) = total'
  BY <1>4, FourBytes
<1>7. Recording' => /\ header'.data = Record!number_to_string(total', 4)
                    /\ size' = Record!HEADER
  BY DEF RecordInv, Announced, Recording, Record!WriteHeader
<1>8. Recording' => (size - Record!HEADER + total)' % SizeT = Record!Little(header.data)'
  <2> SUFFICES ASSUME Recording'
               PROVE  (size' - 44 + total') % SizeT = Record!Little(header'.data)
    BY DEF Record!HEADER, Record!Little, Record!Weight
  <2>1. size' = 44
    BY <1>7 DEF Record!HEADER
  <2> QED BY <1>5, <1>6, <1>7, <2>1
<1>9. Len(header.data)' = 4 /\ Len(header.rate)' = 4 /\ size' \in Nat
  <2>1. CASE /\ header' = [data |-> Record!number_to_string(total', 4), rate |-> Record!number_to_string(handle.rate, 4)]
             /\ size' = Record!HEADER
    BY <2>1, FourLong DEF Record!HEADER
  <2>2. CASE UNCHANGED <<header, size>>
    BY <2>2 DEF RecordInv, Record!TypeOK
  <2> QED BY <2>1, <2>2 DEF Record!WriteHeader
<1>10. Record!TypeOK'
  BY <1>4, <1>9 DEF RecordInv, Record!TypeOK, Record!WriteHeader
<1>11. Holds' /\ params' \in Requests /\ (at' = "loop" => handle' \in Handles) /\ at' \in {"loop", "close"}
  BY DEF RecordInv, Holds, Record!WriteHeader
<1>12. Announced'
  BY <1>8 DEF RecordInv, Announced, Record!WriteHeader
<1> QED BY <1>10, <1>11, <1>12 DEF RecordInv

\* A read moves bytes from what is to be recorded to what is.
LEMMA RecordInvRead ==
  ASSUME RecordInv, Record!Read
  PROVE  RecordInv'
<1>1. SizeT \in Nat \ {0}
  BY MediaAssumption DEF Record!RecordAssumption
<1>2. handle \in Handles /\ at = "loop" /\ total \in 0 .. SizeT - 1 /\ size \in Nat
  BY <1>1 DEF RecordInv, Record!Read, Record!TypeOK
<1>3. PICK frames \in 1 .. handle.chunk :
        LET count_ == frames * Record!FrameByte(handle) IN
          \/ size' = size + count_ /\ total' = Record!Left(total, count_) /\ UNCHANGED <<at, result>>
          \/ size' \in size .. size + count_ - 1 /\ result' = "FAIL" /\ at' = "close" /\ UNCHANGED total
  BY DEF Record!Read
<1> DEFINE bytes == frames * Record!FrameByte(handle)
<1>4. bytes \in Nat
  <2>1. handle.chunk \in Nat /\ handle.bits \in {8, 16} /\ handle.channels \in {1, 2}
    BY <1>2 DEF Handles
  <2>2. Record!FrameByte(handle) \in 1 .. 4
    BY <2>1 DEF Record!FrameByte
  <2> QED BY <2>1, <2>2
<1> HIDE DEF bytes
<1>5. CASE size' = size + bytes /\ total' = Record!Left(total, bytes) /\ UNCHANGED <<at, result>>
  <2>1. total' = (total - bytes) % SizeT
    BY <1>5 DEF Record!Left
  <2>2. total' \in 0 .. SizeT - 1 /\ size' \in Nat
    BY <1>1, <1>2, <1>4, <1>5, <2>1, DivMod
  <2>5. (size' - 44 + total') % SizeT = (size - 44 + total) % SizeT
    <3>1. size \in Int /\ total \in Int /\ bytes \in Int
      BY <1>1, <1>2, <1>4
    <3>2. size' = size + bytes /\ total' = (total - bytes) % SizeT
      BY <1>5, <2>1
    <3>3. (size + bytes - 44 + ((total - bytes) % SizeT)) % SizeT = (size - 44 + total) % SizeT
      BY <1>1, <3>1, CountdownKept, ZenonT(60)
    <3> QED BY <3>1, <3>2, <3>3
  <2>6. (size - 44 + total) % SizeT = Record!Little(header.data) /\ result = "none"
    BY <1>2 DEF RecordInv, Announced, Recording, Record!HEADER, Record!TypeOK
  <2>7. Announced'
    BY <1>2, <1>5, <2>5, <2>6 DEF Announced, Recording, Record!HEADER, Record!Read
  <2> QED BY <1>2, <1>5, <2>2, <2>7 DEF RecordInv, Record!TypeOK, Holds, Record!Read
<1>6. CASE size' \in size .. size + bytes - 1 /\ result' = "FAIL" /\ at' = "close" /\ UNCHANGED total
  <2>1. size' \in Nat
    BY <1>2, <1>4, <1>6
  <2> QED BY <1>2, <1>6, <2>1 DEF RecordInv, Record!TypeOK, Holds, Announced, Recording, Record!Read
<1> QED BY <1>3, <1>5, <1>6 DEF bytes

LEMMA RecordInvStep ==
  ASSUME RecordInv, Record!Next
  PROVE  RecordInv'
BY RecordInvMoves, RecordInvHeader, RecordInvRead DEF Record!Next, Record!Recorder

LEMMA RecordInvRests ==
  ASSUME RecordInv, UNCHANGED recordVars
  PROVE  RecordInv'
BY DEF recordVars, RecordInv, Record!TypeOK, Holds, Announced, Recording, Record!Little, Record!Weight

-----------------------------------------------------------------------------
\* The recorder holds at each point what Holds says, and what it has recorded
\* and still has to record is what the header announces, whatever fails.
THEOREM RecorderSound == MediaSpec => []RecordIsSound
<1>1. MediaInit => RecordIsSound
  BY RecordInvInit DEF MediaInit, RecordIsSound
<1>2. RecordIsSound /\ [MediaNext]_mediaVars => RecordIsSound'
  <2> SUFFICES ASSUME part' = "record", RecordIsSound, [MediaNext]_mediaVars PROVE RecordInv'
    BY DEF RecordIsSound
  <2>1. CASE part = "record" /\ Record!Next
    BY <2>1, RecordInvStep DEF RecordIsSound
  <2>2. CASE part = "record" /\ UNCHANGED recordVars
    BY <2>2, RecordInvRests DEF RecordIsSound
  <2> QED BY <2>1, <2>2 DEF MediaNext, Rest, mediaVars
<1> QED BY <1>1, <1>2, PTL DEF MediaSpec

\* Whatever call fails, the device, the buffer and the file are given back
\* (alsa_record.c:177, :182, :314).
THEOREM RecorderReleases == MediaSpec => []AllReleased
<1>1. RecordIsSound => AllReleased
  BY DEF RecordIsSound, RecordInv, Holds, AllReleased, Record!AllReleased, Record!Ended
<1> QED BY <1>1, RecorderSound, PTL

\* A recording that ends without an error agrees with its header, for every
\* width of the countdown, and every length of an older file that is not longer;
\* over a longer one the bytes written agree (alsa_record.c:222, :248, :278-303).
THEOREM RecorderAgrees == MediaSpec => []HeaderAgrees
<1>1. RecordIsSound => HeaderAgrees
  <2> SUFFICES ASSUME part = "record", RecordInv, at = "done", result = "SUCCESS"
               PROVE  \/ (Record!FileLength - Record!HEADER) % SizeT = Record!Little(header.data)
                      \/ older > size /\ (size - Record!HEADER) % SizeT = Record!Little(header.data)
    BY DEF RecordIsSound, HeaderAgrees, Record!HeaderAgrees
  <2>1. total = 0 /\ size \in Nat
    BY DEF RecordInv, Announced, Record!TypeOK
  <2>2. size - Record!HEADER + total = size - Record!HEADER
    BY <2>1 DEF Record!HEADER
  <2>3. (size - Record!HEADER) % SizeT = Record!Little(header.data)
    BY <2>2 DEF RecordInv, Announced, Recording
  <2> QED BY <2>3 DEF Record!FileLength
<1> QED BY <1>1, RecorderSound, PTL

-----------------------------------------------------------------------------
\* The counts each process of the jitter buffer has loaded: nobody but the
\* reader makes the count smaller and nobody but the writer larger.
Loaded ==
  /\ wcount \in Nat /\ rcount \in Nat
  /\ putting = "store" => count <= wcount
  /\ getting = "load" => count > READ_FRAME_COUNT
  /\ getting = "store" => rcount > READ_FRAME_COUNT /\ rcount <= count
  /\ putting = "test" => count <= wcount + 1
  /\ getting = "test" => rcount - READ_FRAME_COUNT <= count

\* What is on its way: a packet put but not counted, frames read but counted.
Uncounted == IF putting \in {"load", "store"} THEN 1 ELSE 0
Unsubtracted == IF getting \in {"load", "store"} THEN READ_FRAME_COUNT ELSE 0

\* The packets: pkt is the last to arrive, and the last put when it was put.
Arrivals ==
  /\ sent \in 0 .. MaxSeq /\ pkt \in -1 .. sent - 1
  /\ putting = "put" => pkt # -1
  /\ put \subseteq 0 .. pkt
  /\ pkt \in put => /\ lastPut = pkt % SEQ_MOD /\ lastPutPos \in Jitter!Blocks
                    /\ attr[lastPutPos] = lastPut
  /\ put # {} /\ putting \in {"idle", "put", "test", "status"} => count # 0

\* Until one process overwrites the other's count, it tells what is there.
Counts == ~raced => count = Cardinality(put) - Uncounted - Len(got) + Unsubtracted

\* A state that does not fit the count is about to be tested by the process
\* that made the count what it is, unless it was stored too late.
Fits ==
  ~stale =>
    /\ status = "PREFETCHING" /\ count >= MIN_PAYLOAD_COUNT => putting \in {"test", "status"}
    /\ status = "PROCESSING" /\ count < MIN_PAYLOAD_COUNT => getting \in {"test", "status"}

\* Every packet but perhaps the last one, still on its way, was put.
NoLoss == (sent = 0 \/ pkt = sent - 1) /\ 0 .. sent - 2 \subseteq put

\* Without a loss packet b is in block b, and the reader is where it stopped.
InOrder ==
  ~raced /\ NoLoss =>
    /\ \A b \in put : b \in Jitter!Blocks /\ attr[b] = b /\ payload[b] = b
    /\ \A b \in Jitter!Blocks \ put : attr[b] = 0
    /\ put # {} => put = 0 .. lastPut /\ (putting # "wild" => lastPutPos = lastPut)
    /\ put = {} => lastPut = 0 /\ lastPutPos = 0
    /\ lastGot \in put \cup {0}
    /\ getOffset + Unsubtracted = Len(got)
    /\ \A k \in DOMAIN got : got[k] = k - 1

JitterInv ==
  /\ Jitter!TypeOK
  /\ got \in Seq(Int) /\ raced \in BOOLEAN /\ stale \in BOOLEAN
  /\ lastPut \in 0 .. SEQ_MOD - 1 /\ lastGot \in 0 .. SEQ_MOD - 1
  /\ getOffset < 2 * Capacity /\ (getting \in {"load", "store"} => getOffset < Capacity)
  /\ Loaded
  /\ Arrivals
  /\ Counts
  /\ Fits
  /\ InOrder

JitterIsSound == part = "jitter" => JitterInv

-----------------------------------------------------------------------------
\* The sample program: packet b goes to block b, and the one read takes block 0.
Filled(st, k) ==
  [media |-> "OPUS", status |-> st, count |-> k, getOffset |-> 0, lastGot |-> 0,
   lastPutPos |-> k, lastPut |-> k, late |-> 0, exists |-> 0]

SampleInv ==
  /\ step \in {"init", "write", "read", "destroy", "done", "crashed"}
  /\ step = "init" => i = 1 /\ read = Sample!None
  /\ step \in {"write", "read", "destroy", "done"} =>
       /\ i \in 1 .. 4 /\ (step = "write" => i \in 1 .. 3)
       /\ block = [b \in Sample!Blocks |-> IF b \in 1 .. i - 1 THEN b ELSE 0]
  /\ step \in {"write", "read"} =>
       /\ read = Sample!None
       /\ \E st \in {"PREFETCHING", "PROCESSING"} : head = Filled(st, i - 1)
  /\ step \in {"destroy", "done"} => read = [seq |-> 0, data |-> 0] /\ head.count = i - 2

SampleIsSound == part = "sample" => SampleInv

\* The instances count as this module does.
LEMMA SameCardinality ==
  ASSUME NEW S
  PROVE  Sample!Cardinality(S) = Cardinality(S) /\ Jitter!Cardinality(S) = Cardinality(S)
BY DEF Cardinality, Sample!Cardinality, Jitter!Cardinality

\* Which blocks the sample program has filled.
LEMMA SampleStored ==
  ASSUME SampleInv, step \in {"write", "read", "destroy", "done"}
  PROVE  Cardinality({b \in Sample!Blocks : block[b] # 0}) = i - 1
<1>1. Capacity \in Nat /\ 3 \in 1 .. Capacity - 1
  BY MediaAssumption DEF Sample!SampleAssumption
<1>2. i \in 1 .. 4 /\ block = [b \in Sample!Blocks |-> IF b \in 1 .. i - 1 THEN b ELSE 0]
  BY DEF SampleInv
<1>3. \A b \in Sample!Blocks : block[b] # 0 <=> b \in 1 .. i - 1
  BY <1>2
<1>4. 1 .. i - 1 \subseteq Sample!Blocks
  BY <1>1, <1>2 DEF Sample!Blocks
<1>5. {b \in Sample!Blocks : block[b] # 0} = 1 .. i - 1
  BY <1>3, <1>4
<1>6. Cardinality(1 .. i - 1) = i - 1
  <2>1. 1 \in Int /\ i - 1 \in Int
    BY <1>2
  <2>2. Cardinality(1 .. i - 1) = IF 1 > i - 1 THEN 0 ELSE (i - 1) - 1 + 1
    BY <2>1, FS_Interval
  <2> QED BY <1>2, <2>2
<1> QED BY <1>5, <1>6

\* The next packet is neither late nor there, and goes to the block of its number.
LEMMA SampleWrites ==
  ASSUME SampleInv, Sample!write_mmap
  PROVE  /\ head' = Sample!Counted(i) /\ Sample!cur_position(i) = i
         /\ block' = [block EXCEPT ![i] = i]
<1>1. Capacity \in Nat /\ 3 \in 1 .. Capacity - 1 /\ SEQ_MOD \in Nat /\ Capacity < SEQ_MOD
  BY MediaAssumption DEF Sample!SampleAssumption
<1>2. step = "write" /\ i \in 1 .. 3
  BY DEF SampleInv, Sample!write_mmap
<1>3. head.lastPutPos = i - 1 /\ head.lastPut = i - 1 /\ head.lastGot = 0
  BY <1>2 DEF SampleInv, Filled
<1>4. block = [b \in Sample!Blocks |-> IF b \in 1 .. i - 1 THEN b ELSE 0]
  BY <1>2 DEF SampleInv
<1>5. Sample!Delta(i, head.lastPut) = 1
  <2>1. 1 % SEQ_MOD = 1
    BY <1>1, ModSmall
  <2>2. i - (i - 1) = 1
    BY <1>2
  <2> QED BY <1>3, <2>1, <2>2 DEF Sample!Delta
<1>6. Sample!cur_position(i) = i
  BY <1>1, <1>2, <1>3, <1>5 DEF Sample!cur_position
<1>7. Sample!Delta(i, head.lastGot) = i
  <2>1. i \in 0 .. SEQ_MOD - 1 /\ i - 0 = i /\ SEQ_MOD \in Nat \ {0}
    BY <1>1, <1>2
  <2> QED BY <1>3, <2>1, ModSmall DEF Sample!Delta
<1>8. block[i] = 0
  BY <1>1, <1>2, <1>4 DEF Sample!Blocks
<1>9. Sample!Discarded(i) = Sample!None
  <2>1. ~(i < 1) /\ 0 # i
    BY <1>2
  <2> QED BY <1>6, <1>7, <1>8, <2>1 DEF Sample!Discarded
<1> QED BY <1>6, <1>9 DEF Sample!write_mmap

LEMMA SampleInvStep ==
  ASSUME SampleInv, Sample!Next
  PROVE  SampleInv'
<1>1. CASE Sample!init_mmap
  <2>1. i = 1 /\ read = Sample!None /\ UNCHANGED <<i, read>> /\ step' = "write"
    BY <1>1 DEF SampleInv, Sample!init_mmap
  <2>2. block' = [b \in Sample!Blocks |-> 0]
    BY <1>1 DEF Sample!init_mmap, Sample!Formatted
  <2>3. block' = [b \in Sample!Blocks |-> IF b \in 1 .. 1 - 1 THEN b ELSE 0]
    BY <2>2
  <2>4. head' = Filled("PREFETCHING", 0)
    BY <1>1 DEF Sample!init_mmap, Sample!Formatted, Filled
  <2> QED BY <2>1, <2>3, <2>4 DEF SampleInv, Sample!None
<1>2. CASE Sample!InitFails
  BY <1>2 DEF SampleInv, Sample!InitFails
<1>3. CASE Sample!write_mmap
  <2>1. Capacity \in Nat /\ 3 \in 1 .. Capacity - 1
    BY MediaAssumption DEF Sample!SampleAssumption
  <2>2. step = "write" /\ i \in 1 .. 3 /\ i' = i + 1 /\ step' = (IF i < 3 THEN "write" ELSE "read")
    BY <1>3 DEF SampleInv, Sample!write_mmap, Sample!Looped
  <2>3. block = [b \in Sample!Blocks |-> IF b \in 1 .. i - 1 THEN b ELSE 0]
    BY <2>2 DEF SampleInv
  <2>4. block' = [b \in Sample!Blocks |-> IF b \in 1 .. i THEN b ELSE 0]
    <3>1. block' = [block EXCEPT ![i] = i]
      BY <1>3, SampleWrites
    <3>2. \A b \in Sample!Blocks : (b \in 1 .. i) <=> (b = i \/ b \in 1 .. i - 1)
      BY <2>1, <2>2 DEF Sample!Blocks
    <3> QED BY <2>3, <3>1, <3>2
  <2>5. i' - 1 = i
    BY <2>2
  <2>6. PICK st \in {"PREFETCHING", "PROCESSING"} : head = Filled(st, i - 1)
    BY <2>2 DEF SampleInv
  <2>7. head' = [head EXCEPT !.lastPutPos = i, !.lastPut = i, !.count = @ + 1,
                             !.status = IF head.count + 1 >= 1 THEN "PROCESSING" ELSE @]
    BY <1>3, SampleWrites DEF Sample!Counted
  <2>8. head' = Filled("PROCESSING", i)
    <3>1. head.count = i - 1 /\ head.count + 1 = i /\ i >= 1
      BY <2>2, <2>6 DEF Filled
    <3> QED BY <2>6, <2>7, <3>1 DEF Filled
  <2>9. read = Sample!None /\ read' = read
    BY <1>3, <2>2 DEF SampleInv, Sample!write_mmap
  <2>10. i' \in 1 .. 4 /\ (step' = "write" => i' \in 1 .. 3) /\ step' \in {"write", "read"}
    BY <2>2
  <2>11. block' = [b \in Sample!Blocks |-> IF b \in 1 .. i' - 1 THEN b ELSE 0]
    BY <2>4, <2>5
  <2> QED BY <2>5, <2>8, <2>9, <2>10, <2>11 DEF SampleInv, Sample!None, Sample!Blocks
<1>4. CASE Sample!read_mmap
  <2>1. step = "read" /\ i \in 1 .. 4 /\ i' = i /\ block' = block /\ step' = "destroy"
    BY <1>4 DEF SampleInv, Sample!read_mmap
  <2>2. Capacity \in Nat \ {0}
    BY MediaAssumption DEF Sample!SampleAssumption
  <2>3. PICK st \in {"PREFETCHING", "PROCESSING"} : head = Filled(st, i - 1)
    BY <2>1 DEF SampleInv
  <2>4. head.getOffset % Capacity = 0
    BY <2>2, <2>3 DEF Filled
  <2>5. block[0] = 0
    BY <2>1, <2>2 DEF SampleInv, Sample!Blocks
  <2>6. read' = [seq |-> 0, data |-> 0]
    BY <1>4, <2>4, <2>5 DEF Sample!read_mmap
  <2>7. head'.count = i - 1 - 1
    BY <1>4, <2>1, <2>3, <2>4 DEF Filled, Sample!read_mmap
  <2>8. i - 1 - 1 = i - 2
    BY <2>1
  <2> QED BY <2>1, <2>6, <2>7, <2>8 DEF SampleInv, Sample!Blocks
<1>5. CASE Sample!destory_mmap
  BY <1>5 DEF SampleInv, Sample!destory_mmap, Sample!None, Sample!Blocks
<1> QED BY <1>1, <1>2, <1>3, <1>4, <1>5 DEF Sample!Next

\* The sample program counts what it puts.
LEMMA SampleCounts ==
  ASSUME SampleInv
  PROVE  Sample!PacketsCounted
<1> DEFINE stored == Cardinality({b \in Sample!Blocks : block[b] # 0})
<1> SUFFICES ASSUME step \in {"write", "read", "destroy", "done"}
             PROVE  stored = i - 1 /\ (read = Sample!None => head.count = stored)
  BY SameCardinality DEF Sample!PacketsCounted
<1>1. stored = i - 1
  BY SampleStored
<1>2. read = Sample!None => head.count = i - 1
  BY DEF SampleInv, Sample!None, Filled
<1> HIDE DEF stored
<1> QED BY <1>1, <1>2

-----------------------------------------------------------------------------
LEMMA JitterConstants ==
  /\ Capacity \in Nat \ {0} /\ SEQ_MOD \in Nat \ {0} /\ Capacity < SEQ_MOD
  /\ MIN_PAYLOAD_COUNT \in Nat \ {0} /\ READ_FRAME_COUNT \in 1 .. Capacity /\ MaxSeq \in Nat
BY MediaAssumption DEF Jitter!JitterAssumption

\* The packets put can be counted, and are at most those made.
LEMMA PutCounted ==
  ASSUME Arrivals
  PROVE  IsFiniteSet(put) /\ Cardinality(put) \in Nat /\ Cardinality(put) <= MaxSeq
<1>1. put \subseteq 0 .. MaxSeq - 1 /\ MaxSeq \in Nat
  BY JitterConstants DEF Arrivals
<1>2. 0 \in Int /\ MaxSeq - 1 \in Int
  BY <1>1
<1>3. IsFiniteSet(0 .. MaxSeq - 1) /\ Cardinality(0 .. MaxSeq - 1) = IF 0 > MaxSeq - 1 THEN 0 ELSE MaxSeq - 1 - 0 + 1
  BY <1>2, FS_Interval
<1>4. Cardinality(0 .. MaxSeq - 1) = MaxSeq
  BY <1>1, <1>3
<1>5. IsFiniteSet(put) /\ Cardinality(put) <= Cardinality(0 .. MaxSeq - 1)
  BY <1>1, <1>3, FS_Subset
<1>6. Cardinality(put) \in Nat
  BY <1>5, FS_CardinalityType
<1> QED BY <1>4, <1>5, <1>6

\* The capacity that is added to a position is always taken away again.
LEMMA PositionSum ==
  ASSUME lastPutPos \in Nat, lastPut \in Int, NEW s \in Int
  PROVE  /\ Jitter!Delta(s, lastPut) \in 0 .. SEQ_MOD - 1
         /\ Jitter!Position(s) = lastPutPos + Jitter!Delta(s, lastPut)
         /\ Jitter!Position(s) \in Nat
<1>1. Jitter!Delta(s, lastPut) \in 0 .. SEQ_MOD - 1
  <2>1. s - lastPut \in Int
    OBVIOUS
  <2> QED BY <2>1, DivMod, JitterConstants DEF Jitter!Delta
<1>2. Jitter!Position(s) = lastPutPos + Jitter!Delta(s, lastPut)
  BY <1>1, JitterConstants DEF Jitter!Position
<1> QED BY <1>1, <1>2, JitterConstants

\* A packet that was put is recognised when it comes again.
LEMMA AgainDiscarded ==
  ASSUME JitterInv, putting = "put", pkt \in put
  PROVE  Jitter!Discarded(pkt) # "no"
<1>1. /\ lastPut = pkt % SEQ_MOD /\ lastPutPos \in Jitter!Blocks /\ attr[lastPutPos] = lastPut
      /\ count # 0
  BY DEF JitterInv, Arrivals
<1>2. lastPutPos \in Nat /\ lastPut \in Int
  BY DEF JitterInv, Jitter!TypeOK
<1>3. Jitter!Delta(lastPut, lastPut) = 0
  <2>1. lastPut - lastPut = 0 /\ 0 \in 0 .. SEQ_MOD - 1
    BY <1>2, JitterConstants
  <2> QED BY <2>1, ModSmall, JitterConstants DEF Jitter!Delta
<1>4. Jitter!Position(lastPut) = lastPutPos
  BY <1>2, <1>3, PositionSum
<1> QED BY <1>1, <1>4 DEF Jitter!Discarded

LEMMA JitterInvInit == Jitter!Init => JitterInv
<1> SUFFICES ASSUME Jitter!Init PROVE JitterInv
  OBVIOUS
<1> USE JitterConstants DEF Jitter!Init, Jitter!Empty
<1>1. Jitter!TypeOK
  BY DEF Jitter!TypeOK, Jitter!Blocks
<1>2. Loaded /\ Arrivals
  BY DEF Loaded, Arrivals
<1>3. Counts /\ Fits
  BY FS_EmptySet DEF Counts, Fits, Uncounted, Unsubtracted
<1>4. InOrder
  BY DEF InOrder, Unsubtracted, Jitter!Blocks
<1>5. got \in Seq(Int) /\ raced \in BOOLEAN /\ stale \in BOOLEAN
  <2>1. got = <<>> /\ raced = FALSE /\ stale = FALSE
    OBVIOUS
  <2>2. got \in Seq(Int)
    BY <2>1
  <2> HIDE DEF Jitter!Init
  <2> QED BY <2>1, <2>2
<1>6. lastPut \in 0 .. SEQ_MOD - 1 /\ lastGot \in 0 .. SEQ_MOD - 1 /\ getOffset < 2 * Capacity
  OBVIOUS
<1>7. getting \in {"load", "store"} => getOffset < Capacity
  OBVIOUS
<1> HIDE DEF Jitter!Init
<1> QED BY <1>1, <1>2, <1>3, <1>4, <1>5, <1>6, <1>7 DEF JitterInv

\* A packet is made: lost, arrived, or delivered again.
LEMMA JitterInvArrives ==
  ASSUME JitterInv, Jitter!Lose \/ Jitter!Arrive \/ Jitter!Again
  PROVE  JitterInv'
<1> USE DEF Jitter!headVars
<1>1. /\ UNCHANGED <<attr, payload, count, status, getOffset, lastGot, lastPutPos, lastPut, late, exists, prefetches,
                     wcount, getting, rcount, put, got, raced, stale>>
      /\ putting = "idle" /\ putting' \in {"idle", "put"}
  BY DEF Jitter!Lose, Jitter!Arrive, Jitter!Again
<1>2. sent \in 0 .. MaxSeq /\ pkt \in -1 .. sent - 1 /\ put \subseteq 0 .. pkt /\ MaxSeq \in Nat
  BY JitterConstants DEF JitterInv, Arrivals
<1>3. Jitter!TypeOK' /\ Loaded'
  BY <1>1 DEF JitterInv, Jitter!TypeOK, Jitter!Blocks, Loaded
<1>4. Arrivals'
  <2>1. CASE Jitter!Lose
    BY <1>1, <1>2, <2>1 DEF JitterInv, Arrivals, Jitter!Lose, Jitter!Blocks
  <2>2. CASE Jitter!Arrive
    <3>1. sent' = sent + 1 /\ pkt' = sent /\ sent < MaxSeq
      BY <2>2 DEF Jitter!Arrive
    <3>2. sent \notin put /\ put \subseteq 0 .. sent
      BY <1>2
    <3> QED BY <1>1, <1>2, <3>1, <3>2 DEF JitterInv, Arrivals
  <2>3. CASE Jitter!Again
    BY <1>1, <1>2, <2>3 DEF JitterInv, Arrivals, Jitter!Again, Jitter!Empty, Jitter!Blocks
  <2> QED BY <2>1, <2>2, <2>3
<1>5. Counts' /\ Fits'
  BY <1>1 DEF JitterInv, Counts, Fits, Uncounted, Unsubtracted
<1>6. NoLoss' => NoLoss
  <2>1. CASE Jitter!Lose
    BY <1>2, <2>1 DEF NoLoss, Jitter!Lose
  <2>2. CASE Jitter!Arrive
    <3> SUFFICES ASSUME NoLoss' PROVE NoLoss
      OBVIOUS
    <3>1. 0 .. (sent + 1) - 2 \subseteq put
      BY <2>2 DEF NoLoss, Jitter!Arrive
    <3>2. 0 .. sent - 2 \subseteq put
      BY <1>2, <3>1
    <3>3. sent # 0 => sent - 1 \in put
      BY <1>2, <3>1
    <3> QED BY <1>2, <3>2, <3>3 DEF NoLoss
  <2>3. CASE Jitter!Again
    BY <2>3 DEF NoLoss, Jitter!Again
  <2> QED BY <2>1, <2>2, <2>3
<1>7. InOrder'
  BY <1>1, <1>6 DEF JitterInv, InOrder, Unsubtracted, Jitter!Blocks
<1> QED BY <1>1, <1>3, <1>4, <1>5, <1>7 DEF JitterInv

\* Without a loss the next packet is the successor of the last one put; it is
\* not taken for another one and goes to the block of its number, or beyond.
LEMMA NextInOrder ==
  ASSUME JitterInv, putting = "put", ~raced, NoLoss, pkt \notin put
  PROVE  /\ pkt \in 0 .. Capacity /\ pkt % SEQ_MOD = pkt
         /\ put = 0 .. pkt - 1
         /\ Jitter!Position(pkt) = pkt
         /\ Jitter!Discarded(pkt) = "no"
<1> USE JitterConstants
<1>1. /\ sent \in 0 .. MaxSeq /\ pkt \in 0 .. sent - 1 /\ put \subseteq 0 .. pkt
      /\ pkt = sent - 1 /\ 0 .. pkt - 1 \subseteq put
  BY DEF JitterInv, Arrivals, NoLoss
<1>2. put = 0 .. pkt - 1
  <2>1. \A b \in put : b \in 0 .. pkt - 1
    <3> TAKE b \in put
    <3>1. b \in 0 .. pkt /\ b # pkt
      BY <1>1
    <3> QED BY <1>1, <3>1
  <2> QED BY <1>1, <2>1
<1>3. /\ \A b \in put : b \in Jitter!Blocks /\ attr[b] = b
      /\ \A b \in Jitter!Blocks \ put : attr[b] = 0
      /\ put # {} => put = 0 .. lastPut /\ lastPutPos = lastPut
      /\ put = {} => lastPut = 0 /\ lastPutPos = 0
      /\ lastGot \in put \cup {0}
  BY DEF JitterInv, InOrder
<1>4. lastPut \in Nat /\ lastPutPos \in Nat /\ count \in Nat
  BY DEF JitterInv, Jitter!TypeOK
<1>5. pkt # 0 => lastPut = pkt - 1 /\ lastPutPos = pkt - 1
  <2> SUFFICES ASSUME pkt # 0 PROVE lastPut = pkt - 1 /\ lastPutPos = pkt - 1
    OBVIOUS
  <2>1. pkt - 1 \in put
    BY <1>1, <1>2
  <2>2. 0 .. pkt - 1 = 0 .. lastPut /\ lastPutPos = lastPut
    BY <1>2, <1>3, <2>1
  <2>3. pkt - 1 \in 0 .. lastPut /\ lastPut \in 0 .. pkt - 1
    BY <1>1, <1>4, <2>2
  <2> QED BY <1>1, <1>4, <2>2, <2>3
<1>6. pkt = 0 => put = {} /\ lastPut = 0 /\ lastPutPos = 0
  BY <1>2, <1>3
<1>7. pkt \in 0 .. Capacity
  <2>1. CASE pkt = 0
    BY <2>1
  <2>2. CASE pkt # 0
    <3>1. pkt - 1 \in Jitter!Blocks
      BY <1>1, <1>2, <1>3, <2>2
    <3> QED BY <1>1, <3>1 DEF Jitter!Blocks
  <2> QED BY <2>1, <2>2
<1>8. pkt % SEQ_MOD = pkt
  BY <1>7, ModSmall
<1>9. Jitter!Position(pkt) = pkt
  <2>1. CASE pkt = 0
    <3>1. Jitter!Delta(pkt, lastPut) = 0
      <4>1. pkt - lastPut = 0 /\ 0 \in 0 .. SEQ_MOD - 1
        BY <1>6, <2>1
      <4> QED BY <4>1, ModSmall DEF Jitter!Delta
    <3> QED BY <1>1, <1>4, <1>6, <2>1, <3>1, PositionSum
  <2>2. CASE pkt # 0
    <3>1. Jitter!Delta(pkt, lastPut) = 1
      <4>1. pkt - lastPut = 1 /\ 1 \in 0 .. SEQ_MOD - 1
        BY <1>1, <1>5, <2>2
      <4> QED BY <4>1, ModSmall DEF Jitter!Delta
    <3>2. Jitter!Position(pkt) = lastPutPos + 1
      BY <1>1, <1>4, <3>1, PositionSum
    <3> QED BY <1>1, <1>5, <2>2, <3>2
  <2> QED BY <2>1, <2>2
<1>10. Jitter!Discarded(pkt) = "no"
  <2>1. CASE pkt = 0
    <3>1. put = {} /\ Cardinality(put) = 0
      BY <1>6, <2>1, FS_EmptySet
    <3>2. count = 0
      <4>1. count = Cardinality(put) - Uncounted - Len(got) + Unsubtracted
        BY DEF JitterInv, Counts
      <4>2. Uncounted = 0 /\ Len(got) \in Nat
        BY DEF JitterInv, Uncounted
      <4>3. count = Unsubtracted - Len(got)
        BY <3>1, <4>1, <4>2 DEF Unsubtracted
      <4>4. getting \notin {"load", "store"} => Unsubtracted = 0
        BY DEF Unsubtracted
      <4>5. getting \in {"load", "store"} => count > READ_FRAME_COUNT /\ Unsubtracted = READ_FRAME_COUNT
        BY <1>4 DEF JitterInv, Loaded, Jitter!TypeOK, Unsubtracted
      <4> QED BY <1>4, <4>2, <4>3, <4>4, <4>5
    <3> QED BY <3>2 DEF Jitter!Discarded
  <2>2. CASE pkt # 0
    <3>1. lastGot \in 0 .. pkt - 1
      BY <1>1, <1>2, <1>3, <2>2
    <3>2. Jitter!Delta(pkt, lastGot) = pkt - lastGot
      <4>1. pkt - lastGot \in 0 .. SEQ_MOD - 1
        BY <1>7, <3>1
      <4> QED BY <4>1, ModSmall DEF Jitter!Delta
    <3>3. ~(Jitter!Delta(pkt, lastGot) < 1)
      BY <1>1, <3>1, <3>2
    <3>4. pkt \in Jitter!Blocks => attr[pkt] # pkt
      BY <1>3, <2>2
    <3> QED BY <1>8, <1>9, <3>3, <3>4 DEF Jitter!Discarded
  <2> QED BY <2>1, <2>2
<1> QED BY <1>2, <1>7, <1>8, <1>9, <1>10

\* A packet is put, discarded, or written outside the buffer.
LEMMA JitterInvPut ==
  ASSUME JitterInv, Jitter!Put
  PROVE  JitterInv'
<1> USE JitterConstants
<1> DEFINE s == pkt % SEQ_MOD
           pos == Jitter!Position(s)
<1>1. /\ putting = "put"
      /\ UNCHANGED <<count, status, getOffset, lastGot, prefetches, pkt, wcount, getting, rcount, sent, got, raced, stale>>
  BY DEF Jitter!Put
<1>2. sent \in 0 .. MaxSeq /\ pkt \in 0 .. sent - 1 /\ put \subseteq 0 .. pkt
  BY <1>1 DEF JitterInv, Arrivals
<1>3. s \in 0 .. SEQ_MOD - 1 /\ s \in Int /\ pos \in Nat
  <2>1. s \in 0 .. SEQ_MOD - 1
    BY <1>2, DivMod
  <2>2. lastPutPos \in Nat /\ lastPut \in Int
    BY DEF JitterInv, Jitter!TypeOK
  <2> QED BY <2>1, <2>2, PositionSum
<1> HIDE DEF s, pos
<1>4. CASE /\ putting' = "idle"
           /\ UNCHANGED <<attr, payload, lastPutPos, lastPut, put>>
  <2>1. Jitter!TypeOK' /\ Loaded' /\ Arrivals'
    BY <1>1, <1>4 DEF JitterInv, Jitter!TypeOK, Loaded, Arrivals, Jitter!Blocks
  <2>2. Counts' /\ Fits'
    BY <1>1, <1>4 DEF JitterInv, Counts, Fits, Uncounted, Unsubtracted
  <2>3. InOrder'
    BY <1>1, <1>4 DEF JitterInv, InOrder, NoLoss, Unsubtracted, Jitter!Blocks
  <2> QED BY <1>1, <1>4, <2>1, <2>2, <2>3 DEF JitterInv
<1>5. CASE /\ Jitter!Discarded(pkt) = "no" /\ pos \in Jitter!Blocks
           /\ attr' = [attr EXCEPT ![pos] = s] /\ payload' = [payload EXCEPT ![pos] = pkt]
           /\ lastPutPos' = pos /\ lastPut' = s /\ put' = put \cup {pkt} /\ putting' = "load"
  <2>1. pkt \notin put
    BY <1>1, <1>5, AgainDiscarded
  <2>2. /\ attr \in [Jitter!Blocks -> 0 .. SEQ_MOD - 1]
        /\ payload \in [Jitter!Blocks -> {-1} \cup 0 .. MaxSeq] /\ put \subseteq 0 .. MaxSeq
    BY DEF JitterInv, Jitter!TypeOK, Jitter!Empty
  <2>3. /\ attr' \in [Jitter!Blocks -> 0 .. SEQ_MOD - 1]
        /\ payload' \in [Jitter!Blocks -> {-1} \cup 0 .. MaxSeq] /\ put' \subseteq 0 .. MaxSeq
    <3>1. pkt \in 0 .. MaxSeq
      BY <1>2
    <3> QED BY <1>3, <1>5, <2>2, <3>1
  <2>4. Jitter!TypeOK' /\ Loaded'
    BY <1>1, <1>3, <1>5, <2>3 DEF JitterInv, Jitter!TypeOK, Loaded, Jitter!Blocks, Jitter!Empty
  <2>5. Arrivals'
    <3>1. attr'[pos] = s
      BY <1>5, <2>2
    <3>2. put' \subseteq 0 .. pkt
      BY <1>2, <1>5
    <3> QED BY <1>1, <1>2, <1>5, <3>1, <3>2 DEF Arrivals, JitterInv, s, Jitter!Blocks
  <2>6. Counts'
    <3>1. IsFiniteSet(put) /\ Cardinality(put) \in Nat
      BY PutCounted DEF JitterInv
    <3>2. Cardinality(put') = Cardinality(put) + 1
      BY <1>5, <2>1, <3>1, FS_AddElement
    <3>3. Uncounted = 0 /\ Uncounted' = 1 /\ Unsubtracted' = Unsubtracted /\ Unsubtracted \in Nat
      BY <1>1, <1>5 DEF Uncounted, Unsubtracted
    <3>4. Len(got) \in Nat
      BY DEF JitterInv
    <3> QED BY <1>1, <3>1, <3>2, <3>3, <3>4 DEF JitterInv, Counts
  <2>7. InOrder'
    <3> SUFFICES ASSUME ~raced', NoLoss' PROVE InOrder'
      BY DEF InOrder
    <3>1. ~raced /\ NoLoss
      <4>1. pkt = sent - 1 /\ 0 .. sent - 2 \subseteq put \cup {pkt}
        BY <1>1, <1>2, <1>5 DEF NoLoss
      <4>2. pkt \notin 0 .. sent - 2
        BY <1>2, <4>1
      <4> QED BY <1>1, <4>1, <4>2 DEF NoLoss
    <3>2. pkt \in 0 .. Capacity /\ s = pkt /\ put = 0 .. pkt - 1 /\ pos = pkt
      BY <1>1, <2>1, <3>1, NextInOrder DEF s, pos
    <3>3. /\ \A b \in put : b \in Jitter!Blocks /\ attr[b] = b /\ payload[b] = b
          /\ \A b \in Jitter!Blocks \ put : attr[b] = 0
          /\ lastGot \in put \cup {0}
          /\ getOffset + Unsubtracted = Len(got)
          /\ \A k \in DOMAIN got : got[k] = k - 1
      BY <3>1 DEF JitterInv, InOrder
    <3>4. \A b \in put' : b \in Jitter!Blocks /\ attr'[b] = b /\ payload'[b] = b
      BY <1>5, <2>2, <3>2, <3>3
    <3>5. \A b \in Jitter!Blocks \ put' : attr'[b] = 0
      BY <1>5, <2>2, <3>2, <3>3
    <3>6. put' = 0 .. pkt /\ put' # {}
      BY <1>2, <1>5, <3>2
    <3>7. Unsubtracted' = Unsubtracted
      BY <1>1 DEF Unsubtracted
    <3> QED BY <1>1, <1>5, <3>2, <3>3, <3>4, <3>5, <3>6, <3>7 DEF InOrder, Jitter!Blocks
  <2>8. Fits'
    BY <1>1, <1>5 DEF JitterInv, Fits
  <2> QED BY <1>1, <1>3, <1>5, <2>4, <2>5, <2>6, <2>7, <2>8 DEF JitterInv
<1>6. CASE /\ Jitter!Discarded(pkt) = "no" /\ pos \notin Jitter!Blocks
           /\ lastPutPos' = pos /\ putting' = "wild" /\ UNCHANGED <<attr, payload, lastPut, put>>
  <2>1. pkt \notin put
    BY <1>1, <1>6, AgainDiscarded
  <2>2. Jitter!TypeOK' /\ Loaded' /\ Arrivals'
    BY <1>1, <1>3, <1>6, <2>1 DEF JitterInv, Jitter!TypeOK, Loaded, Arrivals, Jitter!Blocks
  <2>3. Counts' /\ Fits'
    BY <1>1, <1>6 DEF JitterInv, Counts, Fits, Uncounted, Unsubtracted
  <2>4. InOrder'
    <3> SUFFICES ASSUME ~raced', NoLoss' PROVE InOrder'
      BY DEF InOrder
    <3>1. ~raced /\ NoLoss
      BY <1>1, <1>6 DEF NoLoss
    <3>2. pkt \in 0 .. Capacity /\ put = 0 .. pkt - 1 /\ pos = pkt
      BY <1>1, <2>1, <3>1, NextInOrder DEF s, pos
    <3>3. pkt = Capacity
      BY <1>6, <3>2 DEF Jitter!Blocks
    <3>4. 0 \in put
      BY <3>2, <3>3
    <3> QED BY <1>1, <1>6, <3>1, <3>4 DEF JitterInv, InOrder, Unsubtracted, Jitter!Blocks
  <2> QED BY <1>1, <1>6, <2>2, <2>3, <2>4 DEF JitterInv
<1> QED BY <1>4, <1>5, <1>6 DEF Jitter!Put, s, pos

\* The count is loaded by the writer or by the reader.
LEMMA JitterInvLoads ==
  ASSUME JitterInv, Jitter!LoadCount \/ Jitter!GetLoad
  PROVE  JitterInv'
<1> USE JitterConstants DEF Jitter!headVars
<1>1. /\ UNCHANGED <<attr, payload, count, status, getOffset, lastGot, lastPutPos, lastPut, pkt, sent, put, got, raced, stale>>
      /\ \/ putting = "load" /\ putting' = "store" /\ wcount' = count /\ UNCHANGED <<getting, rcount>>
         \/ getting = "load" /\ getting' = "store" /\ rcount' = count /\ UNCHANGED <<putting, wcount>>
  BY DEF Jitter!LoadCount, Jitter!GetLoad
<1>2. Jitter!TypeOK' /\ Arrivals'
  BY <1>1 DEF JitterInv, Jitter!TypeOK, Arrivals, Jitter!Blocks
<1>3. Loaded'
  BY <1>1 DEF JitterInv, Jitter!TypeOK, Loaded
<1>4. Uncounted' = Uncounted /\ Unsubtracted' = Unsubtracted
  BY <1>1 DEF Uncounted, Unsubtracted
<1>5. Counts' /\ Fits'
  BY <1>1, <1>4 DEF JitterInv, Counts, Fits
<1>6. InOrder'
  BY <1>1, <1>4 DEF JitterInv, InOrder, NoLoss, Jitter!Blocks
<1>7. getting' \in {"load", "store"} => getOffset' < Capacity
  BY <1>1 DEF JitterInv
<1> QED BY <1>1, <1>2, <1>3, <1>5, <1>6, <1>7 DEF JitterInv

\* The writer stores its count.
LEMMA JitterInvStore ==
  ASSUME JitterInv, Jitter!StoreCount
  PROVE  JitterInv'
<1> USE JitterConstants DEF Jitter!headVars
<1>1. /\ UNCHANGED <<attr, payload, status, getOffset, lastGot, lastPutPos, lastPut, pkt, wcount, getting, rcount, sent, put, got, stale>>
      /\ putting = "store" /\ putting' = "test" /\ count' = wcount + 1
  BY DEF Jitter!StoreCount
<1>2. wcount \in Nat /\ count \in Nat /\ count <= wcount /\ rcount \in Nat
  BY <1>1 DEF JitterInv, Loaded, Jitter!TypeOK
<1>3. count' \in Nat /\ count' > count /\ count' # 0
  BY <1>1, <1>2
<1>4. raced' \in BOOLEAN /\ (~raced' => ~raced /\ count = wcount)
  BY DEF JitterInv, Jitter!StoreCount
<1>5. Jitter!TypeOK' /\ Arrivals'
  BY <1>1, <1>3 DEF JitterInv, Jitter!TypeOK, Arrivals, Jitter!Blocks
<1>6. Loaded'
  BY <1>1, <1>2, <1>3 DEF JitterInv, Loaded
<1>7. Uncounted = 1 /\ Uncounted' = 0 /\ Unsubtracted' = Unsubtracted /\ Unsubtracted \in Nat
  BY <1>1 DEF Uncounted, Unsubtracted
<1>8. Counts'
  <2> SUFFICES ASSUME ~raced'
               PROVE  count' = Cardinality(put') - Uncounted' - Len(got') + Unsubtracted'
    BY DEF Counts
  <2>1. count = Cardinality(put) - Uncounted - Len(got) + Unsubtracted
    BY <1>4 DEF JitterInv, Counts
  <2>2. Cardinality(put) \in Nat /\ Len(got) \in Nat
    BY PutCounted DEF JitterInv
  <2>3. count + 1 = Cardinality(put) - 0 - Len(got) + Unsubtracted
    BY <1>2, <1>7, <2>1, <2>2
  <2>4. count' = count + 1
    BY <1>1, <1>4
  <2> QED BY <1>1, <1>7, <2>3, <2>4
<1>9. Fits'
  BY <1>1, <1>2, <1>3 DEF JitterInv, Fits
<1>10. InOrder'
  BY <1>1, <1>4, <1>7 DEF JitterInv, InOrder, NoLoss, Jitter!Blocks
<1> QED BY <1>1, <1>4, <1>5, <1>6, <1>8, <1>9, <1>10 DEF JitterInv

\* The reader stores its count and moves on.
LEMMA JitterInvGetStore ==
  ASSUME JitterInv, Jitter!GetStore
  PROVE  JitterInv'
<1> USE JitterConstants
<1>1. /\ UNCHANGED <<attr, payload, status, lastGot, lastPutPos, lastPut, putting, pkt, wcount, rcount, sent, put, got, stale>>
      /\ getting = "store" /\ getting' = "test" /\ count' = rcount - READ_FRAME_COUNT
      /\ getOffset' = getOffset + READ_FRAME_COUNT
  BY DEF Jitter!GetStore
<1>2. rcount \in Nat /\ rcount > READ_FRAME_COUNT /\ count \in Nat /\ rcount <= count /\ wcount \in Nat
  BY <1>1 DEF JitterInv, Loaded, Jitter!TypeOK
<1>3. count' \in Nat /\ count' < count /\ count' # 0
  BY <1>1, <1>2
<1>4. raced' \in BOOLEAN /\ (~raced' => ~raced /\ count = rcount)
  BY DEF JitterInv, Jitter!GetStore
<1>5. getOffset \in Nat /\ getOffset < Capacity
  BY <1>1 DEF JitterInv, Jitter!TypeOK
<1>6. getOffset' \in 0 .. 2 * Capacity /\ getOffset' < 2 * Capacity
  BY <1>1, <1>5
<1>7. Jitter!TypeOK' /\ Arrivals'
  BY <1>1, <1>3, <1>6 DEF JitterInv, Jitter!TypeOK, Arrivals, Jitter!Blocks
<1>8. Loaded'
  BY <1>1, <1>2, <1>3 DEF JitterInv, Loaded
<1>9. Unsubtracted = READ_FRAME_COUNT /\ Unsubtracted' = 0 /\ Uncounted' = Uncounted /\ Uncounted \in Nat
  BY <1>1 DEF Uncounted, Unsubtracted
<1>10. Counts'
  <2> SUFFICES ASSUME ~raced'
               PROVE  count' = Cardinality(put') - Uncounted' - Len(got') + Unsubtracted'
    BY DEF Counts
  <2>1. count = Cardinality(put) - Uncounted - Len(got) + Unsubtracted
    BY <1>4 DEF JitterInv, Counts
  <2>2. Cardinality(put) \in Nat /\ Len(got) \in Nat
    BY PutCounted DEF JitterInv
  <2>3. count - READ_FRAME_COUNT = Cardinality(put) - Uncounted - Len(got) + 0
    BY <1>2, <1>9, <2>1, <2>2
  <2>4. count' = count - READ_FRAME_COUNT
    BY <1>1, <1>4
  <2> QED BY <1>1, <1>9, <2>3, <2>4
<1>11. Fits'
  BY <1>1, <1>2, <1>3 DEF JitterInv, Fits
<1>12. InOrder'
  <2> SUFFICES ASSUME ~raced', NoLoss' PROVE InOrder'
    BY DEF InOrder
  <2>1. ~raced /\ NoLoss
    BY <1>1, <1>4 DEF NoLoss
  <2>2. getOffset + Unsubtracted = Len(got)
    BY <2>1 DEF JitterInv, InOrder
  <2>3. getOffset' + Unsubtracted' = Len(got')
    BY <1>1, <1>5, <1>9, <2>2
  <2> QED BY <1>1, <2>1, <2>3 DEF JitterInv, InOrder, Jitter!Blocks
<1> QED BY <1>1, <1>4, <1>6, <1>7, <1>8, <1>10, <1>11, <1>12 DEF JitterInv

\* A process tests the count, as stored or as it is now: the other has only
\* moved it away from the limit the first one looks for.
LEMMA JitterInvTests ==
  ASSUME JitterInv, Jitter!TestCount \/ Jitter!GetTest
  PROVE  JitterInv'
<1> USE JitterConstants DEF Jitter!headVars
<1>1. /\ UNCHANGED <<attr, payload, count, status, getOffset, lastGot, lastPutPos, lastPut, pkt, wcount, rcount,
                     sent, put, got, raced, stale>>
      /\ \/ putting = "test" /\ putting' \in {"status", "idle"} /\ UNCHANGED getting
         \/ getting = "test" /\ getting' \in {"status", "idle"} /\ UNCHANGED putting
  BY DEF Jitter!TestCount, Jitter!GetTest
<1>2. Jitter!TypeOK' /\ Arrivals'
  BY <1>1 DEF JitterInv, Jitter!TypeOK, Arrivals, Jitter!Blocks
<1>3. Loaded'
  BY <1>1 DEF JitterInv, Jitter!TypeOK, Loaded
<1>4. Uncounted' = Uncounted /\ Unsubtracted' = Unsubtracted
  BY <1>1 DEF Uncounted, Unsubtracted
<1>5. Counts'
  BY <1>1, <1>4 DEF JitterInv, Counts
<1>6. Fits'
  <2>1. count \in Nat /\ wcount \in Nat /\ rcount \in Nat
    BY DEF JitterInv, Jitter!TypeOK, Loaded
  <2>2. CASE Jitter!TestCount
    <3>1. count <= wcount + 1 /\ UNCHANGED <<count, status, getting, stale>>
      BY <2>2 DEF JitterInv, Loaded, Jitter!TestCount
    <3>2. putting' = "idle" => count < MIN_PAYLOAD_COUNT
      BY <2>1, <2>2, <3>1 DEF Jitter!TestCount
    <3>3. putting' \in {"status", "idle"}
      BY <2>2 DEF Jitter!TestCount
    <3> QED BY <2>1, <3>1, <3>2, <3>3 DEF JitterInv, Fits
  <2>3. CASE Jitter!GetTest
    <3>1. rcount - READ_FRAME_COUNT <= count /\ UNCHANGED <<count, status, putting, stale>>
      BY <2>3 DEF JitterInv, Loaded, Jitter!GetTest
    <3>2. getting' = "idle" => count >= MIN_PAYLOAD_COUNT
      BY <2>1, <2>3, <3>1 DEF Jitter!GetTest
    <3>3. getting' \in {"status", "idle"}
      BY <2>3 DEF Jitter!GetTest
    <3> QED BY <2>1, <3>1, <3>2, <3>3 DEF JitterInv, Fits
  <2> QED BY <2>2, <2>3
<1>7. InOrder'
  BY <1>1, <1>4 DEF JitterInv, InOrder, NoLoss, Jitter!Blocks
<1> QED BY <1>1, <1>2, <1>3, <1>5, <1>6, <1>7 DEF JitterInv

\* A process stores the state.
LEMMA JitterInvStatus ==
  ASSUME JitterInv, Jitter!StoreStatus \/ Jitter!GetStatus
  PROVE  JitterInv'
<1> USE JitterConstants
<1>1. /\ UNCHANGED <<attr, payload, count, getOffset, lastGot, lastPutPos, lastPut, pkt, wcount, rcount,
                     sent, put, got, raced>>
      /\ \/ putting = "status" /\ putting' = "idle" /\ UNCHANGED getting
         \/ getting = "status" /\ getting' = "idle" /\ UNCHANGED putting
      /\ status' \in {"PROCESSING", "PREFETCHING"}
  BY DEF Jitter!StoreStatus, Jitter!GetStatus
<1>2. Jitter!TypeOK' /\ Arrivals'
  BY <1>1 DEF JitterInv, Jitter!TypeOK, Arrivals, Jitter!Blocks
<1>3. Loaded'
  BY <1>1 DEF JitterInv, Loaded
<1>4. Uncounted' = Uncounted /\ Unsubtracted' = Unsubtracted
  BY <1>1 DEF Uncounted, Unsubtracted
<1>5. Counts'
  BY <1>1, <1>4 DEF JitterInv, Counts
<1>6. Fits'
  <2>1. count \in Nat /\ count' = count
    BY <1>1 DEF JitterInv, Jitter!TypeOK
  <2>2. CASE Jitter!StoreStatus
    <3>1. status' = "PROCESSING" /\ (~stale' => ~(count < MIN_PAYLOAD_COUNT))
      BY <2>2 DEF Jitter!StoreStatus
    <3> QED BY <2>1, <3>1 DEF Fits
  <2>3. CASE Jitter!GetStatus
    <3>1. status' = "PREFETCHING" /\ (~stale' => ~(count >= MIN_PAYLOAD_COUNT))
      BY <2>3 DEF Jitter!GetStatus
    <3> QED BY <2>1, <3>1 DEF Fits
  <2> QED BY <2>2, <2>3
<1>7. InOrder'
  BY <1>1, <1>4 DEF JitterInv, InOrder, NoLoss, Jitter!Blocks
<1>8. stale' \in BOOLEAN
  <2>1. stale' = (count < MIN_PAYLOAD_COUNT) \/ stale' = (count >= MIN_PAYLOAD_COUNT)
    BY Zenon DEF Jitter!StoreStatus, Jitter!GetStatus
  <2>2. (count < MIN_PAYLOAD_COUNT) \in BOOLEAN /\ (count >= MIN_PAYLOAD_COUNT) \in BOOLEAN
    BY DEF JitterInv, Jitter!TypeOK
  <2> QED BY <2>1, <2>2, Zenon
<1> QED BY <1>1, <1>2, <1>3, <1>5, <1>6, <1>7, <1>8 DEF JitterInv

\* What a read copies is a sequence of packets or blocks of zeros.
LEMMA CopiedSeq ==
  ASSUME JitterInv, NEW o \in Jitter!Blocks
  PROVE  Jitter!Copied(o) \in Seq(Int) /\ Len(Jitter!Copied(o)) = READ_FRAME_COUNT
<1> USE JitterConstants
<1> DEFINE start == attr[o] % Capacity
           remain == Capacity - o
           f(k) == IF k <= remain THEN payload[(start + k - 1) % Capacity] ELSE payload[k - remain - 1]
<1>1. Jitter!Copied(o) = [k \in 1 .. READ_FRAME_COUNT |-> f(k)]
  BY DEF Jitter!Copied
<1>2. o \in Nat /\ o < Capacity /\ attr[o] \in Int
  BY DEF JitterInv, Jitter!TypeOK, Jitter!Blocks
<1>3. start \in 0 .. Capacity - 1 /\ remain \in 1 .. Capacity
  <2>1. start \in 0 .. Capacity - 1
    BY <1>2, DivMod
  <2>2. remain \in 1 .. Capacity
    BY <1>2
  <2> QED BY <2>1, <2>2
<1>4. \A b \in Jitter!Blocks : payload[b] \in Int
  BY DEF JitterInv, Jitter!TypeOK, Jitter!Empty
<1> HIDE DEF start, remain
<1>5. \A k \in 1 .. READ_FRAME_COUNT : f(k) \in Int
  <2> TAKE k \in 1 .. READ_FRAME_COUNT
  <2>1. (start + k - 1) % Capacity \in Jitter!Blocks
    <3>1. start + k - 1 \in Int
      BY <1>3
    <3> QED BY <3>1, DivMod DEF Jitter!Blocks
  <2>2. ~(k <= remain) => k - remain - 1 \in Jitter!Blocks
    BY <1>3 DEF Jitter!Blocks
  <2> QED BY <1>4, <2>1, <2>2
<1> HIDE DEF f
<1> QED BY <1>1, <1>5

\* The reader takes the next frames.
LEMMA JitterInvGet ==
  ASSUME JitterInv, Jitter!Get
  PROVE  JitterInv'
<1> USE JitterConstants
<1> DEFINE o == getOffset % Capacity
           new == Jitter!Copied(o)
<1>1. /\ UNCHANGED <<attr, payload, count, status, lastPutPos, lastPut, putting, pkt, wcount, rcount, sent, put, raced, stale>>
      /\ getting = "idle" /\ getting' = "load" /\ ~raced /\ count > READ_FRAME_COUNT
      /\ got' = got \o new /\ lastGot' = attr[o] /\ getOffset' = o
  BY DEF Jitter!Get, Jitter!Readable
<1>2. getOffset \in Nat /\ count \in Nat /\ got \in Seq(Int) /\ Len(got) \in Nat
  BY DEF JitterInv, Jitter!TypeOK
<1>3. o \in Jitter!Blocks /\ o \in 0 .. Capacity - 1
  BY <1>2, DivMod DEF Jitter!Blocks
<1>4. new \in Seq(Int) /\ Len(new) = READ_FRAME_COUNT
  BY <1>3, CopiedSeq
<1>5. attr[o] \in 0 .. SEQ_MOD - 1
  BY <1>3 DEF JitterInv, Jitter!TypeOK
<1> HIDE DEF new
<1>6. got' \in Seq(Int) /\ Len(got') = Len(got) + READ_FRAME_COUNT
  <2>1. got \o new \in Seq(Int) /\ Len(got \o new) = Len(got) + Len(new)
    BY <1>2, <1>4, ConcatProperties
  <2> QED BY <1>1, <1>4, <2>1
<1>7. Cardinality(put) \in Nat /\ Cardinality(put) <= MaxSeq
  BY PutCounted DEF JitterInv
<1>8. Uncounted' = Uncounted /\ Uncounted \in {0, 1} /\ Unsubtracted = 0 /\ Unsubtracted' = READ_FRAME_COUNT
  BY <1>1 DEF Uncounted, Unsubtracted
<1>9. count = Cardinality(put) - Uncounted - Len(got) + Unsubtracted
  BY <1>1 DEF JitterInv, Counts
<1>10. Len(got) + READ_FRAME_COUNT < Cardinality(put)
  BY <1>1, <1>2, <1>7, <1>8, <1>9
<1>11. Jitter!TypeOK' /\ Arrivals'
  <2>1. Len(got') <= MaxSeq
    BY <1>2, <1>6, <1>7, <1>10
  <2>2. getOffset' \in 0 .. 2 * Capacity
    BY <1>1, <1>3
  <2> QED BY <1>1, <2>1, <2>2 DEF JitterInv, Jitter!TypeOK, Arrivals, Jitter!Blocks
<1>12. Loaded'
  BY <1>1 DEF JitterInv, Loaded
<1>13. Counts'
  <2>1. count = Cardinality(put) - Uncounted - (Len(got) + READ_FRAME_COUNT) + READ_FRAME_COUNT
    BY <1>2, <1>7, <1>8, <1>9
  <2>2. count' = Cardinality(put') - Uncounted' - Len(got') + Unsubtracted'
    BY <1>1, <1>6, <1>8, <2>1
  <2> QED BY <2>2 DEF Counts
<1>14. InOrder'
  <2> SUFFICES ASSUME NoLoss' PROVE InOrder'
    BY DEF InOrder
  <2>1. NoLoss
    BY <1>1 DEF NoLoss
  <2>2. /\ \A b \in put : b \in Jitter!Blocks /\ attr[b] = b /\ payload[b] = b
        /\ \A b \in Jitter!Blocks \ put : attr[b] = 0
        /\ put # {} => put = 0 .. lastPut /\ (putting # "wild" => lastPutPos = lastPut)
        /\ put = {} => lastPut = 0 /\ lastPutPos = 0
        /\ getOffset + Unsubtracted = Len(got)
        /\ \A k \in DOMAIN got : got[k] = k - 1
    BY <1>1, <2>1 DEF JitterInv, InOrder
  <2>3. put # {}
    <3>1. put = {} => Cardinality(put) = 0
      BY FS_EmptySet
    <3> QED BY <1>2, <1>10, <3>1
  <2>4. lastPut \in Nat /\ Cardinality(put) = lastPut + 1
    <3>1. lastPut \in Nat /\ 0 \in Int /\ lastPut \in Int
      BY DEF JitterInv
    <3>2. Cardinality(0 .. lastPut) = IF 0 > lastPut THEN 0 ELSE lastPut - 0 + 1
      BY <3>1, FS_Interval
    <3> QED BY <2>2, <2>3, <3>1, <3>2
  <2>5. lastPut \in Jitter!Blocks /\ lastPut < Capacity
    <3>1. lastPut \in put
      BY <2>2, <2>3, <2>4
    <3> QED BY <2>2, <3>1 DEF Jitter!Blocks
  <2>6. getOffset = Len(got) /\ getOffset + READ_FRAME_COUNT <= lastPut
    BY <1>2, <1>8, <1>10, <2>2, <2>4
  <2>7. o = getOffset
    <3>1. getOffset \in 0 .. Capacity - 1
      BY <1>2, <2>4, <2>5, <2>6
    <3> QED BY <3>1, ModSmall
  <2>8. attr[o] = o /\ attr[o] \in put
    BY <1>2, <2>2, <2>3, <2>4, <2>6, <2>7
  <2>9. \A k \in 1 .. READ_FRAME_COUNT : new[k] = getOffset + k - 1
    <3> TAKE k \in 1 .. READ_FRAME_COUNT
    <3>1. getOffset + k - 1 \in put
      BY <1>2, <2>2, <2>3, <2>4, <2>6
    <3>2. getOffset % Capacity = getOffset
      BY <2>7
    <3>3. getOffset + k - 1 \in 0 .. Capacity - 1
      BY <2>2, <3>1 DEF Jitter!Blocks
    <3>4. (getOffset + k - 1) % Capacity = getOffset + k - 1
      BY <3>3, ModSmall
    <3>5. k <= Capacity - getOffset
      BY <1>2, <3>3
    <3>6. payload[getOffset + k - 1] = getOffset + k - 1
      BY <2>2, <3>1
    <3>7. new[k] = IF k <= Capacity - o THEN payload[((attr[o] % Capacity) + k - 1) % Capacity]
                   ELSE payload[k - (Capacity - o) - 1]
      BY DEF new, Jitter!Copied
    <3> QED BY <2>7, <2>8, <3>2, <3>4, <3>5, <3>6, <3>7
  <2>10. \A k \in DOMAIN got' : got'[k] = k - 1
    <3>1. \A k \in 1 .. Len(got) + READ_FRAME_COUNT :
             (got \o new)[k] = IF k <= Len(got) THEN got[k] ELSE new[k - Len(got)]
      BY <1>2, <1>4
    <3>2. \A k \in 1 .. Len(got) + READ_FRAME_COUNT : (got \o new)[k] = k - 1
      <4> TAKE k \in 1 .. Len(got) + READ_FRAME_COUNT
      <4>1. CASE k <= Len(got)
        BY <1>2, <2>2, <3>1, <4>1
      <4>2. CASE ~(k <= Len(got))
        <5>1. k - Len(got) \in 1 .. READ_FRAME_COUNT
          BY <1>2, <4>2
        <5>2. new[k - Len(got)] = getOffset + (k - Len(got)) - 1
          BY <2>9, <5>1
        <5>3. getOffset + (k - Len(got)) - 1 = k - 1
          BY <1>2, <2>6
        <5> QED BY <3>1, <4>2, <5>2, <5>3
      <4> QED BY <4>1, <4>2
    <3>3. DOMAIN got' = 1 .. Len(got) + READ_FRAME_COUNT
      BY <1>6
    <3> QED BY <1>1, <3>2, <3>3
  <2>11. getOffset' + Unsubtracted' = Len(got')
    BY <1>1, <1>6, <1>8, <2>6, <2>7
  <2>12. lastGot' \in put' \cup {0}
    BY <1>1, <2>8
  <2> QED BY <1>1, <2>2, <2>3, <2>10, <2>11, <2>12 DEF InOrder, Jitter!Blocks
<1>15. lastGot' \in 0 .. SEQ_MOD - 1 /\ getOffset' < Capacity /\ getOffset' < 2 * Capacity
  BY <1>1, <1>3, <1>5
<1>16. Fits'
  BY <1>1 DEF JitterInv, Fits
<1> QED BY <1>1, <1>6, <1>11, <1>12, <1>13, <1>14, <1>15, <1>16 DEF JitterInv

LEMMA JitterInvStep ==
  ASSUME JitterInv, Jitter!Next
  PROVE  JitterInv'
BY JitterInvArrives, JitterInvPut, JitterInvLoads, JitterInvStore, JitterInvGet, JitterInvGetStore,
  JitterInvTests, JitterInvStatus
  DEF Jitter!Next

LEMMA JitterInvRests ==
  ASSUME JitterInv, UNCHANGED jitterVars
  PROVE  JitterInv'
<1> USE DEF jitterVars
<1>1. Jitter!TypeOK' /\ Loaded' /\ Arrivals'
  BY DEF JitterInv, Jitter!TypeOK, Loaded, Arrivals, Jitter!Blocks
<1>2. Counts' /\ Fits'
  BY DEF JitterInv, Counts, Fits, Uncounted, Unsubtracted
<1>3. InOrder'
  BY DEF JitterInv, InOrder, NoLoss, Unsubtracted, Jitter!Blocks
<1> QED BY <1>1, <1>2, <1>3 DEF JitterInv

\* The invariant is what the run checks.
LEMMA JitterReads ==
  ASSUME JitterInv
  PROVE  /\ Jitter!CountIsBlocks /\ Jitter!CountIsCached
         /\ Jitter!StatusFollowsCount /\ Jitter!ReadsInOrder
<1>0. Cardinality(put) \in Nat /\ Len(got) \in Nat /\ count \in Nat
  BY PutCounted DEF JitterInv, Jitter!TypeOK
<1>1. Jitter!Quiet /\ ~raced => count = Cardinality(put) - Len(got)
  <2>1. Jitter!Quiet /\ ~raced => count = Cardinality(put) - 0 - Len(got) + 0
    BY DEF JitterInv, Counts, Uncounted, Unsubtracted, Jitter!Quiet
  <2> QED BY <1>0, <2>1
<1>2. Jitter!CountIsBlocks
  BY <1>1, SameCardinality DEF Jitter!CountIsBlocks
<1>3. Jitter!StatusFollowsCount
  <2> SUFFICES ASSUME putting = "idle", getting = "idle", ~stale
               PROVE  (status = "PROCESSING") <=> (count >= MIN_PAYLOAD_COUNT)
    BY DEF Jitter!StatusFollowsCount, Jitter!Quiet
  <2>1. status \in {"PREFETCHING", "PROCESSING"}
    BY DEF JitterInv, Jitter!TypeOK
  <2>2. ~(status = "PREFETCHING" /\ count >= MIN_PAYLOAD_COUNT) /\ ~(status = "PROCESSING" /\ count < MIN_PAYLOAD_COUNT)
    BY DEF JitterInv, Fits
  <2> QED BY <1>0, <2>1, <2>2, JitterConstants
<1>4. Cardinality(put) = sent /\ ~raced =>
        /\ \A k \in DOMAIN got : got[k] = k - 1
        /\ put = 0 .. sent - 1
  <2> SUFFICES ASSUME Cardinality(put) = sent, ~raced
               PROVE  /\ \A k \in DOMAIN got : got[k] = k - 1
                      /\ put = 0 .. sent - 1
    OBVIOUS
  <2>1. sent \in Nat /\ pkt \in -1 .. sent - 1 /\ put \subseteq 0 .. pkt
    BY DEF JitterInv, Arrivals
  <2>2. put \subseteq 0 .. sent - 1 /\ 0 \in Int /\ sent - 1 \in Int
    BY <2>1
  <2>3. IsFiniteSet(0 .. sent - 1) /\ Cardinality(0 .. sent - 1) = IF 0 > sent - 1 THEN 0 ELSE sent - 1 - 0 + 1
    BY <2>2, FS_Interval
  <2>4. Cardinality(0 .. sent - 1) = sent
    BY <2>1, <2>3
  <2>5. put = 0 .. sent - 1
    BY <2>2, <2>3, <2>4, FS_Subset
  <2>6. NoLoss
    BY <2>1, <2>5 DEF NoLoss
  <2> QED BY <2>5, <2>6 DEF JitterInv, InOrder
<1>5. Jitter!ReadsInOrder
  BY <1>4, SameCardinality DEF Jitter!ReadsInOrder
<1>6. Jitter!CountIsCached
  <2> DEFINE cached == {p \in put : \A k \in DOMAIN got : got[k] # p}
  <2> SUFFICES ASSUME Jitter!Quiet, ~raced, Cardinality(put) = sent
               PROVE  count = Cardinality(cached)
    BY SameCardinality DEF Jitter!CountIsCached
  <2>1. count = sent - Len(got) /\ sent \in Nat /\ Len(got) <= sent
    BY <1>0, <1>1
  <2>2. DOMAIN got = 1 .. Len(got)
    BY DEF JitterInv
  <2>3. cached = Len(got) .. sent - 1
    <3>1. ASSUME NEW p \in cached PROVE p \in Len(got) .. sent - 1
      <4>1. p \in 0 .. sent - 1
        BY <1>4
      <4>2. p < Len(got) => p + 1 \in DOMAIN got
        BY <1>0, <2>2, <4>1
      <4>3. ~(p < Len(got))
        BY <1>4, <4>1, <4>2
      <4> QED BY <1>0, <4>1, <4>3
    <3>2. ASSUME NEW p \in Len(got) .. sent - 1 PROVE p \in cached
      <4>1. p \in put
        BY <1>0, <1>4
      <4>2. \A k \in DOMAIN got : got[k] # p
        BY <1>0, <1>4, <2>2
      <4> QED BY <4>1, <4>2
    <3> QED BY <3>1, <3>2
  <2>4. Cardinality(Len(got) .. sent - 1) = IF Len(got) > sent - 1 THEN 0 ELSE sent - 1 - Len(got) + 1
    <3>1. Len(got) \in Int /\ sent - 1 \in Int
      BY <1>0, <2>1
    <3> QED BY <3>1, FS_Interval
  <2> HIDE DEF cached
  <2> QED BY <1>0, <2>1, <2>3, <2>4
<1> QED BY <1>2, <1>3, <1>5, <1>6

-----------------------------------------------------------------------------
\* The jitter buffer's invariant, for every capacity and number of packets.
THEOREM JitterSound == MediaSpec => []JitterIsSound
<1>1. MediaInit => JitterIsSound
  BY JitterInvInit DEF MediaInit, JitterIsSound
<1>2. JitterIsSound /\ [MediaNext]_mediaVars => JitterIsSound'
  <2> SUFFICES ASSUME part' = "jitter", JitterIsSound, [MediaNext]_mediaVars PROVE JitterInv'
    BY DEF JitterIsSound
  <2>1. CASE part = "jitter" /\ Jitter!Next
    BY <2>1, JitterInvStep DEF JitterIsSound
  <2>2. CASE part = "jitter" /\ UNCHANGED jitterVars
    BY <2>2, JitterInvRests DEF JitterIsSound
  <2> QED BY <2>1, <2>2 DEF MediaNext, Rest, mediaVars
<1> QED BY <1>1, <1>2, PTL DEF MediaSpec

\* The sample program's invariant, for every capacity.
THEOREM SampleSound == MediaSpec => []SampleIsSound
<1>1. MediaInit => SampleIsSound
  BY DEF MediaInit, SampleIsSound, SampleInv, Sample!Init
<1>2. SampleIsSound /\ [MediaNext]_mediaVars => SampleIsSound'
  <2> SUFFICES ASSUME part' = "sample", SampleIsSound, [MediaNext]_mediaVars PROVE SampleInv'
    BY DEF SampleIsSound
  <2>1. CASE part = "sample" /\ Sample!Next
    BY <2>1, SampleInvStep DEF SampleIsSound
  <2>2. CASE part = "sample" /\ UNCHANGED sampleVars
    BY <2>2 DEF SampleIsSound, sampleVars, SampleInv, Sample!None, Sample!Blocks
  <2> QED BY <2>1, <2>2 DEF MediaNext, Rest, mediaVars
<1> QED BY <1>1, <1>2, PTL DEF MediaSpec

\* The jitter buffer's count tells what was put less the blocks read, without a
\* loss the packets that are there, which the reader gets once and in order, as
\* long as no count was stored over the other process's; its state fits the
\* count unless it was stored too late; the earlier form counts what it puts
\* (sharemem_mmap.c:44, :348-354, :443-451, UnitTestShareMem.c:325-343).
THEOREM MediaCountIsCached == MediaSpec => []CountIsCached
<1>1. JitterIsSound /\ SampleIsSound => CountIsCached
  BY JitterReads, SampleCounts DEF JitterIsSound, SampleIsSound, JitterInv, CountIsCached
<1> QED BY <1>1, JitterSound, SampleSound, PTL

=============================================================================
