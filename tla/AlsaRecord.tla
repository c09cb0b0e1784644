----------------------------- MODULE AlsaRecord -----------------------------
(***************************************************************************)
(* alsa_record.c: do_alsa_record opens and configures a capture device,    *)
(* opens the file (making the directories of its path), writes a WAV       *)
(* header and copies what the device delivers until the time asked for is  *)
(* recorded, then releases everything.  Built with WDP_SAVE_FILE.          *)
(* total_size is a size_t: it is counted down modulo 2^w, here WORD.       *)
(***************************************************************************)
EXTENDS Integers, Sequences

CONSTANTS
  RECORD_SAMPLE_RATE,  \* the lowest rate asked of the device, 8000
  Rates,               \* rates the device has
  Periods,             \* frames in a period, by device
  AskedRates, AskedFormats, AskedChannels, Durations,   \* record_params_t
  WORD,                \* values of a size_t
  ShortReads,          \* may a read return fewer frames than asked for?
  Older,               \* lengths of the file that is there before, 0 for none
  MaxData              \* bytes recorded before a run is given up (bound)

\* What the constants are.  A size_t has at most 32 bits, so that the four
\* bytes of the header hold one (printf prints total_size as an int).
RecordAssumption ==
  /\ RECORD_SAMPLE_RATE \in Nat \ {0} /\ Rates \subseteq Nat \ {0} /\ Periods \subseteq Nat \ {0}
  /\ AskedRates \subseteq Nat /\ Durations \subseteq Nat
  /\ ShortReads \in BOOLEAN /\ Older \subseteq Nat /\ MaxData \in Nat
  /\ WORD \in Nat \ {0} /\ (WORD - 1) \div 65536 < 65536

HEADER == 44   \* sizeof(wav_format_t)

VARIABLES
  pc,
  params,     \* what the caller asks for
  pcm,        \* external: the device
  devRate,    \* external: the rate it runs at
  handle,     \* rate, channels, bits_per_sample, chunk_size
  buffer,     \* handle.buffer
  fd,         \* the file: not open, open, closed, or open as descriptor 0
  dirs,       \* directories of the path that exist
  older,      \* external: length of the file before it is opened
  size,       \* bytes written to the file, from its start
  header,     \* what the header says: size of the data and rate
  total,      \* total_size
  result      \* what do_record returned

vars == <<pc, params, pcm, devRate, handle, buffer, fd, dirs, older, size, header, total, result>>

NoHandle == [rate |-> 0, channels |-> 0, bits |-> 0, chunk |-> 0]
NoHeader == [data |-> <<0, 0, 0, 0>>, rate |-> <<0, 0, 0, 0>>]

Init ==
  /\ pc = "open"
  /\ params \in [rate : AskedRates, format : AskedFormats, channel : AskedChannels, duration : Durations]
  /\ pcm = "none" /\ devRate = 0 /\ handle = NoHandle
  /\ buffer = "none" /\ fd = "none" /\ dirs \in 0 .. 2
  /\ older \in Older /\ (older # 0 => dirs = 2)
  /\ size = 0 /\ header = NoHeader /\ total = 0 /\ result = "none"

get_bits_from_params(p) == IF p.format \in {0, 1} THEN 8 ELSE 16
get_channel_from_params(p) == IF p.channel = 2 THEN 2 ELSE 1
get_rate_from_params(p) == IF p.rate < RECORD_SAMPLE_RATE THEN RECORD_SAMPLE_RATE ELSE p.rate

FrameByte(h) == (h.bits * h.channels) \div 8

Weight == <<1, 256, 65536, 16777216>>   \* of the bytes of a number

\* Mutant of number_to_string: the highest byte first.
number_to_stringBig(src, len) == [i \in 1 .. len |-> (src \div Weight[len + 1 - i]) % 256]

\* Little-endian, the bytes that fit.
number_to_string(src, len) == [i \in 1 .. len |-> (src \div Weight[i]) % 256]

\* How a player reads the four bytes.
Little(s) == s[1] * Weight[1] + s[2] * Weight[2] + s[3] * Weight[3] + s[4] * Weight[4]

-----------------------------------------------------------------------------
\* init_recorder: snd_pcm_open.
Open ==
  /\ pc = "open"
  /\ \/ pcm' = "open" /\ pc' = "configure"
     \/ pc' = "failed" /\ UNCHANGED pcm
  /\ UNCHANGED <<params, devRate, handle, buffer, fd, dirs, older, size, header, total, result>>

\* The parameters are set one by one; the device takes the nearest rate it has
\* and chooses its period.  A call may fail, or the period be the buffer.
Configure ==
  /\ pc = "configure"
  /\ \/ \E r \in Rates, c \in Periods :
          /\ devRate' = r
          /\ handle' = [rate |-> get_rate_from_params(params), channels |-> get_channel_from_params(params),
                        bits |-> get_bits_from_params(params), chunk |-> c]
          /\ pcm' = "ready" /\ pc' = "malloc"
     \/ pc' = "init_fail" /\ UNCHANGED <<devRate, handle, pcm>>
  /\ UNCHANGED <<params, buffer, fd, dirs, older, size, header, total, result>>

Malloc ==
  /\ pc = "malloc"
  /\ \/ buffer' = "allocated" /\ pc' = "safe_open"
     \/ pc' = "init_fail" /\ UNCHANGED buffer
  /\ UNCHANGED <<params, pcm, devRate, handle, fd, dirs, older, size, header, total, result>>

init_recorder_fail ==
  /\ pc = "init_fail"
  /\ pcm' = "closed" /\ pc' = "failed"
  /\ UNCHANGED <<params, devRate, handle, buffer, fd, dirs, older, size, header, total, result>>

\* safe_open: without the directories ENOENT, and create_path makes them.  The
\* file is not truncated.  Descriptor 0 is taken for a failure.
safe_open ==
  /\ pc = "safe_open"
  /\ \/ dirs = 2 /\ fd' = "open" /\ pc' = "header" /\ UNCHANGED dirs
     \/ dirs = 2 /\ fd' = "zero" /\ pc' = "destroy" /\ UNCHANGED dirs
     \/ dirs < 2 /\ pc' = "create_path" /\ UNCHANGED <<fd, dirs>>
     \/ dirs = 2 /\ pc' = "destroy" /\ UNCHANGED <<fd, dirs>>
  /\ UNCHANGED <<params, pcm, devRate, handle, buffer, older, size, header, total, result>>

create_path ==
  /\ pc = "create_path"
  /\ \/ dirs' = dirs + 1 /\ pc' = IF dirs' = 2 THEN "safe_open" ELSE "create_path"
     \/ pc' = "destroy" /\ UNCHANGED dirs
  /\ UNCHANGED <<params, pcm, devRate, handle, buffer, fd, older, size, header, total, result>>

\* do_record: total_size, whose product may wrap, the header and its write.
WriteHeader ==
  /\ pc = "header"
  /\ total' = ((params.duration * handle.rate * handle.bits * handle.channels) % WORD) \div 8
  /\ \/ /\ header' = [data |-> number_to_string(total', 4), rate |-> number_to_string(handle.rate, 4)]
        /\ size' = HEADER /\ pc' = "loop" /\ UNCHANGED result
     \/ result' = "FAIL" /\ pc' = "close" /\ UNCHANGED <<header, size>>
  /\ UNCHANGED <<params, pcm, devRate, handle, buffer, fd, dirs, older>>

\* The device runs over, or the system is suspended, at any time.
Overrun ==
  /\ pcm = "ready" /\ pc = "loop"
  /\ pcm' \in {"xrun", "suspended"}
  /\ UNCHANGED <<pc, params, devRate, handle, buffer, fd, dirs, older, size, header, total, result>>

\* snd_pcm_readi reports it: an overrun is prepared again, a suspension only
\* reported.  EAGAIN waits and changes nothing.
ReadFails ==
  /\ pc = "loop" /\ total > 0
  /\ \/ pcm = "xrun" /\ pcm' = "ready" /\ UNCHANGED <<pc, result>>
     \/ pcm = "ready" /\ result' = "FAIL" /\ pc' = "close" /\ UNCHANGED pcm
  /\ UNCHANGED <<params, devRate, handle, buffer, fd, dirs, older, size, header, total>>

\* total_size -= count, unsigned.
Left(t, c) == (t - c) % WORD

\* A period, or fewer frames, is read and written.
Read ==
  /\ pc = "loop" /\ total > 0 /\ pcm = "ready" /\ size < HEADER + MaxData
  /\ \E frames \in 1 .. handle.chunk :
       /\ frames = handle.chunk \/ ShortReads
       /\ LET count == frames * FrameByte(handle) IN
            \/ size' = size + count /\ total' = Left(total, count) /\ UNCHANGED <<pc, result>>
            \/ size' \in size .. size + count - 1 /\ result' = "FAIL" /\ pc' = "close" /\ UNCHANGED total
  /\ UNCHANGED <<params, pcm, devRate, handle, buffer, fd, dirs, older, header>>

RecordDone ==
  /\ pc = "loop" /\ total = 0
  /\ result' = "SUCCESS" /\ pc' = "close"
  /\ UNCHANGED <<params, pcm, devRate, handle, buffer, fd, dirs, older, size, header, total>>

Close ==
  /\ pc = "close"
  /\ fd' = "closed" /\ pc' = "destroy"
  /\ UNCHANGED <<params, pcm, devRate, handle, buffer, dirs, older, size, header, total, result>>

\* Mutant of destroy_recorder: the device is left open.
destroy_recorderOpen ==
  /\ pc = "destroy"
  /\ buffer' = "freed" /\ pc' = "done"
  /\ UNCHANGED <<params, pcm, devRate, handle, fd, dirs, older, size, header, total, result>>

destroy_recorder ==
  /\ pc = "destroy"
  /\ buffer' = "freed" /\ pcm' = "closed" /\ pc' = "done"
  /\ UNCHANGED <<params, devRate, handle, fd, dirs, older, size, header, total, result>>

Recorder ==
  \/ Open \/ Configure \/ Malloc \/ init_recorder_fail \/ safe_open \/ create_path
  \/ WriteHeader \/ ReadFails \/ Read \/ RecordDone \/ Close \/ destroy_recorder

Next == Recorder \/ Overrun

Spec == Init /\ [][Next]_vars

-----------------------------------------------------------------------------
Ended == pc \in {"done", "failed"}

\* The types.
TypeOK ==
  /\ pc \in {"open", "configure", "malloc", "init_fail", "safe_open", "create_path", "header", "loop",
             "close", "destroy", "done", "failed"}
  /\ pcm \in {"none", "open", "ready", "xrun", "suspended", "closed"}
  /\ buffer \in {"none", "allocated", "freed"} /\ fd \in {"none", "open", "closed", "zero"}
  /\ dirs \in 0 .. 2 /\ older \in Nat /\ size \in Nat /\ total \in 0 .. WORD - 1
  /\ result \in {"none", "SUCCESS", "FAIL"}
  /\ Len(header.data) = 4 /\ Len(header.rate) = 4

\* On every path, whatever failed, the device, the buffer and the file that
\* were taken are given back; only descriptor 0, which a process without a
\* standard input gets, is never closed.
AllReleased == Ended => pcm \in {"none", "closed"} /\ buffer # "allocated" /\ fd # "open"

\* The length of the file: what was written over it, and the rest of an older one.
FileLength == IF older > size THEN older ELSE size

\* A recording that ends without an error leaves a file of the bytes its header
\* announces, or of those and whole turns of the unsigned countdown, which ends
\* at 0 and nowhere else.  Over an older, longer file only the bytes written
\* agree, and the old end follows them.
HeaderAgrees ==
  (pc = "done" /\ result = "SUCCESS") =>
    \/ (FileLength - HEADER) % WORD = Little(header.data)
    \/ older > size /\ (size - HEADER) % WORD = Little(header.data)

\* What the comment on the loop says: it ends when the data written exceed
\* total_size.
EndsWhenEnough == pc = "loop" /\ total > 0 => size - HEADER <= Little(header.data)
=============================================================================
