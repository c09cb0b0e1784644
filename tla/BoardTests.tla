----------------------------- MODULE BoardTests -----------------------------
(***************************************************************************)
(* The PCBA test programs that look at the board itself: the clock         *)
(* (echo_rtc_test.c), the flash and memory sizes (echo_emmc_test.c,        *)
(* echo_ddr_test.c) and the processor frequency (echo_cpu_test.c).  Each   *)
(* reads or sets something, prints a message and then a result line.       *)
(* A device that cannot be opened or read is a choice at each step that    *)
(* uses it; the frequency governor works beside the program.               *)
(***************************************************************************)
EXTENDS Integers, Sequences

CONSTANTS
  MaxDelay,  \* seconds after which a sleeping program runs again (bound)
  Sectors,   \* eMMC sizes tried, in sectors of 512 bytes
  Pages,     \* memory sizes tried, in pages of 4 KB
  Tables     \* frequency tables tried, sequences of frequencies

\* What the constants are.
BoardAssumption ==
  /\ MaxDelay \in Nat /\ Sectors \subseteq Nat /\ Pages \subseteq Nat
  /\ \A t \in Tables : t \in Seq(Nat)

EMMC_CAPACITY == 8
DDR_CAPACITY == 256
RTC_TIME_DIFF == 1    \* seconds slept, and the least difference accepted
SET_SECOND == 10      \* of time_set, 20170513.180010
GB == 2 * 1024 * 1024 \* sectors
Garbage == {0, 7}     \* values of a buffer nothing was read into

VARIABLES
  prog, pc,
  line,    \* the result printed
  said,    \* the message printed before
  failed,  \* history: a call failed
  ticks,   \* does the clock run
  second,  \* the seconds the clock shows since 18:00:00, after it was set
  delay,   \* seconds that have passed since then
  size,    \* what was read: sectors or pages
  table,   \* the frequencies the kernel offers
  freqs,   \* cpu_0, the list the program makes of them
  freq_num, \* words it has read
  freq,    \* the frequency the processor runs at
  wanted,  \* freq_set
  gov      \* its governor

clock == <<ticks, second, delay>>
cpu == <<table, freqs, freq_num, freq, wanted, gov>>
vars == <<prog, pc, line, said, failed, clock, size, cpu>>

Init ==
  /\ prog \in {"rtc", "emmc", "ddr", "cpu"} /\ pc = "start"
  /\ line = "none" /\ said = "none" /\ failed = FALSE
  /\ ticks \in BOOLEAN /\ second = 0 /\ delay = 0
  /\ size = 0
  /\ table \in Tables /\ freqs = <<0>> /\ freq_num = 0
  /\ freq \in {table[i] : i \in 1 .. Len(table)} \cup {1}
  /\ wanted = 0 /\ gov = "ondemand"

\* Each test ends at one of two labels, with the value main judges.
Ends(message, ret) ==
  /\ said' = message
  /\ line' = IF ret < 0 THEN "FAIL" ELSE "PASS"
  /\ pc' = "done"

Fault == failed' = TRUE /\ Ends("failed", -1)

-----------------------------------------------------------------------------
\* rtc_set_system_time_test: the date is taken apart and written.
rtc_set_system_time_test ==
  /\ prog = "rtc" /\ pc = "start"
  /\ \/ second' = SET_SECOND /\ pc' = "get" /\ UNCHANGED <<line, said, failed>>
     \/ Fault /\ UNCHANGED second
  /\ UNCHANGED <<prog, ticks, delay, size, cpu>>

ClockMoved(set, get) == ~(RTC_TIME_DIFF > (get % 60) - (set % 60))

\* sleep, rtc_get_system_time_test and the comparison; the sleep may take
\* longer than asked.
rtc_get_system_time_test ==
  /\ prog = "rtc" /\ pc = "get"
  /\ delay' \in RTC_TIME_DIFF .. MaxDelay
  /\ second' = IF ticks THEN second + delay' ELSE second
  /\ \/ /\ IF ClockMoved(SET_SECOND, second')
             THEN Ends("success", 0) ELSE Ends("failed", -1)
        /\ UNCHANGED failed
     \/ Fault
  /\ UNCHANGED <<prog, ticks, size, cpu>>

-----------------------------------------------------------------------------
\* The values emmc_size takes in the loop of get_emmc_size.
Classes == {1, 2, 4, 8, 16, 32, 64, 128, 256}

\* get_emmc_size: at most 1 GB counts as 1, otherwise the power of two up to
\* 512 that the size lies below or at, and half of which it exceeds.
get_emmc_size(sectors) ==
  IF sectors > 0 /\ sectors <= GB THEN 1
  ELSE LET fits == {c \in Classes : sectors > c * GB /\ sectors <= c * 2 * GB} IN
       IF fits = {} THEN -1 ELSE 2 * (CHOOSE c \in fits : TRUE)

\* readFromFile returns the characters read; they stay the result of a test
\* that finds the wrong capacity.
emmc_test ==
  /\ prog = "emmc" /\ pc = "start"
  /\ \/ /\ size' \in Sectors
        /\ LET e == get_emmc_size(size') IN
             IF e < 0 THEN Ends("failed", -1)
             ELSE IF e # EMMC_CAPACITY THEN Ends("failed", 1)
             ELSE Ends("success", 1)
        /\ UNCHANGED failed
     \/ Fault /\ UNCHANGED size
  /\ UNCHANGED <<prog, clock, cpu>>

\* ddr_exec returns 0, which stays the result of a wrong capacity.
ddr_test ==
  /\ prog = "ddr" /\ pc = "start"
  /\ \/ /\ size' \in Pages
        /\ IF (size' * 4) \div 1024 # DDR_CAPACITY THEN Ends("failed", 0) ELSE Ends("success", 0)
        /\ UNCHANGED failed
     \/ Fault /\ UNCHANGED size
  /\ UNCHANGED <<prog, clock, cpu>>

-----------------------------------------------------------------------------
\* Insert_list: a last element without a frequency is filled, otherwise the
\* item is appended.
Insert_list(list, f) ==
  IF list[Len(list)] = 0 THEN [list EXCEPT ![Len(list)] = f] ELSE Append(list, f)

\* The word in buf after k words were read and fscanf was called again: at the
\* end of the file it stays what it was.
Word(k) ==
  IF table = <<>> THEN Garbage
  ELSE {table[IF k < Len(table) THEN k + 1 ELSE Len(table)]}

\* The loop of get_cpu_freq_table, a word at a time: feof is noticed with the
\* last word, or one read too late when the file ends with a blank, and then
\* the last word is inserted twice.  The file may not open, calloc may fail.
get_cpu_freq_table ==
  /\ prog = "cpu" /\ pc = "start"
  /\ \/ /\ \E w \in Word(freq_num) : freqs' = Insert_list(freqs, w)
        /\ freq_num' = freq_num + 1
        /\ \/ freq_num' <= Len(table) /\ pc' = "start"
           \/ freq_num' >= Len(table) /\ pc' = "current"
        /\ UNCHANGED <<line, said, failed>>
     \/ Fault /\ UNCHANGED <<freqs, freq_num>>
  /\ UNCHANGED <<prog, clock, size, table, freq, wanted, gov>>

\* The table of the other processor and the frequencies they run at.
ReadCurrent ==
  /\ prog = "cpu" /\ pc = "current"
  /\ \/ pc' = "mode" /\ UNCHANGED <<line, said, failed>>
     \/ Fault
  /\ UNCHANGED <<prog, clock, size, cpu>>

\* cpu_set_mode writes the governor, and does not look whether that worked.
cpu_set_mode ==
  /\ prog = "cpu" /\ pc = "mode"
  /\ gov' \in {gov, "userspace"}
  /\ pc' = "set"
  /\ UNCHANGED <<prog, line, said, failed, clock, size, table, freqs, freq_num, freq, wanted>>

\* set_curl_freq walks freq_num - 1 elements down the list and not past its
\* end; freq_num is rand() modulo the number of words read.
Pick(list, n) == list[IF n <= 1 THEN 1 ELSE IF n > Len(list) THEN Len(list) ELSE n]

set_curl_freq ==
  /\ prog = "cpu" /\ pc = "set"
  /\ \E n \in 0 .. freq_num - 1 : wanted' = Pick(freqs, n)
  /\ freq' = IF gov = "userspace" /\ \E i \in 1 .. Len(table) : table[i] = wanted'
             THEN wanted' ELSE freq
  /\ pc' = "compare"
  /\ UNCHANGED <<prog, line, said, failed, clock, size, table, freqs, freq_num, gov>>

\* The kernel's governor changes the frequency as long as it is in charge.
Governor ==
  /\ gov = "ondemand" /\ pc # "done" /\ prog = "cpu"
  /\ \E i \in 1 .. Len(table) : freq' = table[i]
  /\ UNCHANGED <<prog, pc, line, said, failed, clock, size, table, freqs, freq_num, wanted, gov>>

\* get_curl_freq and the comparison with what was set.
Compare ==
  /\ prog = "cpu" /\ pc = "compare"
  /\ \/ /\ IF freq = wanted THEN Ends("success", 0) ELSE Ends("failed", -1)
        /\ UNCHANGED failed
     \/ Fault
  /\ UNCHANGED <<prog, clock, size, cpu>>

Next ==
  \/ rtc_set_system_time_test \/ rtc_get_system_time_test
  \/ emmc_test \/ ddr_test
  \/ get_cpu_freq_table \/ ReadCurrent \/ cpu_set_mode \/ set_curl_freq \/ Compare
  \/ Governor

Spec == Init /\ [][Next]_vars

-----------------------------------------------------------------------------
\* The types of the variables.
TypeOK ==
  /\ prog \in {"rtc", "emmc", "ddr", "cpu"}
  /\ pc \in {"start", "get", "current", "mode", "set", "compare", "done"}
  /\ line \in {"none", "PASS", "FAIL"} /\ said \in {"none", "success", "failed"}
  /\ failed \in BOOLEAN /\ ticks \in BOOLEAN
  /\ second \in 0 .. SET_SECOND + MaxDelay /\ delay \in 0 .. MaxDelay
  /\ size \in Nat /\ table \in Tables
  /\ freqs \in Seq(Nat) /\ Len(freqs) \in 1 .. Len(table) + 1
  /\ freq_num \in 0 .. Len(table) + 1 /\ gov \in {"ondemand", "userspace"}

\* No PASS after a call that failed.  PASS of the clock test means a clock that
\* was set and moved, PASS of the processor test a processor that ran at the
\* frequency it was asked for when it was asked, and either test has printed
\* success.  PASS of the flash test means only that the size has a class, of at
\* most 512 GB, and PASS of the memory test only that it was read: both print
\* PASS after having printed that the size is wrong.
PassMeansMeasured ==
  line = "PASS" =>
    /\ ~failed
    /\ prog \in {"rtc", "cpu"} => said = "success"
    /\ prog = "rtc" => ticks /\ second > SET_SECOND
    /\ prog = "emmc" => size > 0 /\ size <= 512 * GB
    /\ prog = "cpu" => freq = wanted

\* The size class of a flash is the least power of two of gigabytes that
\* holds it, at every boundary.
EmmcSizeIsCeiling ==
  prog = "emmc" /\ size > 0 /\ size <= 512 * GB =>
    LET c == get_emmc_size(size) IN
    /\ c \in Classes \cup {512}
    /\ size <= c * GB
    /\ c > 1 => size > (c \div 2) * GB

\* The processor is only ever asked for a frequency that the kernel's table
\* lists, whichever element is drawn and however often the last is read,
\* unless the table was empty.
AsksForListed ==
  pc = "compare" /\ table # <<>> => \E i \in 1 .. Len(table) : table[i] = wanted

\* A clock that runs is failed only when the program was kept from running
\* for at least 50 s: the seconds are compared within their minutes.
FalseAlarmNeedsDelay ==
  prog = "rtc" /\ line = "FAIL" /\ ~failed /\ ticks => delay >= 50
=============================================================================
