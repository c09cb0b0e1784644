------------------------------ MODULE MCTests -------------------------------
(***************************************************************************)
(* The programs around the PCBA server, in one run: the radio tests, the   *)
(* tests of the board's parts, the tests a person takes part in,           *)
(* write_storage, and the detection of the USB link.  A behaviour is one   *)
(* of those that part names, and has the variables of the others at Off.   *)
(***************************************************************************)
EXTENDS Integers, Sequences, SequencesExt, TLC

CONSTANTS
  MaxTests, Old,                                    \* radio tests
  MaxDelay, Sectors, Pages, Tables,                 \* board tests
  LED_NUM, PASSES,                                  \* manual tests
  UID_SIZE, MAC_SIZE, BUF, CharSigned, Scan, Commands, MaxRuns,  \* write_storage
  QueueMax, MaxFaults                               \* USB link

VARIABLES
  part, prog, pc, line, err, addr,
  time_out, loaders, wpas, missed, hciUp, wlanUp, softap, logged, facts, nruns,
  said, failed, ticks, second, delay, size, table, freqs, freq_num, freq, wanted, gov,
  result, lines, moved, busy, pass, phase, n, lit, broken, rec, file, late, signalled,
  opts, index, prop_rw, msg, store, has, value, before, shown, runs,
  cable, due, queue, lost, misread, det, acted, hand, tests, disc, faults

\* Every power of two of gigabytes, a sector less and a sector more.
Giga == 2 * 1024 * 1024
MCSectors == {0, 1} \cup {2^k * Giga + d : k \in 0 .. 9, d \in {-1, 0, 1}}

\* Around the 65536 pages of 256 MB.
MCPages == {0, 65535, 65536, 65791, 65792}

MCTables == {<<>>, <<3>>, <<3, 5>>, <<3, 5, 8>>}

\* The addresses tried, of two bytes, and what sscanf reads of them: 5f50, 055f,
\* 5f00, 005f, 55f5, 55555, with a capital 5Af, with blanks " 5 f", with signs
\* "-1-1".
MCAddresses ==
  (<<53, 102, 53, 48>> :> <<95, 80>>) @@ (<<48, 53, 53, 102>> :> <<5, 95>>)
    @@ (<<53, 102, 48, 48>> :> <<95, 0>>) @@ (<<48, 48, 53, 102>> :> <<0, 95>>)
    @@ (<<53, 53, 102, 53>> :> <<85, 245>>) @@ (<<53, 53, 53, 53, 53>> :> <<85, 85>>)
    @@ (<<53, 65, 102>> :> <<90, 15>>) @@ (<<32, 53, 32, 102>> :> <<5, 15>>)
    @@ (<<45, 49, 45, 49>> :> <<255, 255>>)

\* Other texts, 5z55 among them: too short, or not a number.
Texts == BoundedSeq({48, 53, 102}, 2) \cup {<<122>>, <<53, 122, 53, 53>>} \cup DOMAIN MCAddresses
MCScan == [t \in Texts |-> IF t \in DOMAIN MCAddresses THEN MCAddresses[t] ELSE <<>>]

Params == {"UID", "WIFIMAC", "BLUETOOTH"}
Opt(o, p, v) == [o |-> o, p |-> p, v |-> v]
Set(p) == Opt("s", p, <<>>)
Get(p) == Opt("g", p, <<>>)
Val(v) == Opt("v", "", v)
MCCommands ==
  {<<Set(p), Val(v)>> : p \in Params, v \in Texts}
    \cup {<<Get(p)>> : p \in Params}
    \cup {<<Get("UID"), Val(v)>> : v \in {<<53>>, <<53, 65, 102>>}}
    \cup {<<Set("UID"), Val(<<53>>), Get("WIFIMAC")>>, <<Set("UID"), Val(<<53>>), Opt("?", "", <<>>)>>,
          <<Val(<<53>>), Set("UID")>>, <<Set("none"), Val(<<53>>)>>, <<Set("UID")>>, <<>>}

Radio == INSTANCE RadioTests WITH MaxRuns <- MaxTests
Board == INSTANCE BoardTests
Manual == INSTANCE ManualTests
Storage == INSTANCE WriteStorage
Usb == INSTANCE UsbLink

ASSUME TestsAssumption ==
  /\ Radio!RadioAssumption /\ Board!BoardAssumption /\ Manual!ManualAssumption
  /\ Storage!StorageAssumption /\ Usb!UsbAssumption

radioVars == <<time_out, loaders, missed, wpas, hciUp, wlanUp, softap, logged, facts, nruns>>
boardVars == <<said, failed, ticks, second, delay, size, table, freqs, freq_num, freq, wanted, gov>>
manualVars == <<result, lines, moved, busy, pass, phase, n, lit, broken, rec, file, late, signalled>>
storageVars == <<opts, index, prop_rw, msg, store, has, value, before, shown, runs>>
usbVars == <<cable, due, queue, lost, misread, det, acted, hand, tests, disc, faults>>
vars == <<part, prog, pc, line, err, addr, radioVars, boardVars, manualVars, storageVars, usbVars>>

Off(v) == v = "off"
NoRadio ==
  /\ Off(time_out) /\ Off(loaders) /\ Off(missed) /\ Off(wpas) /\ Off(logged) /\ Off(hciUp) /\ Off(wlanUp)
  /\ Off(softap) /\ Off(facts) /\ Off(nruns)
NoBoard ==
  /\ Off(said) /\ Off(failed) /\ Off(ticks) /\ Off(second) /\ Off(delay) /\ Off(size)
  /\ Off(table) /\ Off(freqs) /\ Off(freq_num) /\ Off(freq) /\ Off(wanted) /\ Off(gov)
NoManual ==
  /\ Off(result) /\ Off(lines) /\ Off(moved) /\ Off(busy) /\ Off(pass) /\ Off(phase) /\ Off(n)
  /\ Off(lit) /\ Off(broken) /\ Off(rec) /\ Off(file) /\ Off(late) /\ Off(signalled)
NoStorage ==
  /\ Off(opts) /\ Off(index) /\ Off(prop_rw) /\ Off(msg) /\ Off(store)
  /\ Off(has) /\ Off(value) /\ Off(before) /\ Off(shown) /\ Off(runs)
NoUsb ==
  /\ Off(cable) /\ Off(due) /\ Off(queue) /\ Off(lost) /\ Off(misread) /\ Off(det) /\ Off(acted)
  /\ Off(hand) /\ Off(tests) /\ Off(disc) /\ Off(faults)

Init ==
  \/ /\ part = "radio" /\ Radio!Init
     /\ NoBoard /\ NoManual /\ NoStorage /\ NoUsb /\ Off(err)
  \/ /\ part = "board" /\ Board!Init
     /\ NoRadio /\ NoManual /\ NoStorage /\ NoUsb /\ Off(err) /\ Off(addr)
  \/ /\ part = "manual" /\ Manual!Init
     /\ NoRadio /\ NoBoard /\ NoStorage /\ NoUsb /\ Off(line) /\ Off(addr)
  \/ /\ part = "storage" /\ Storage!Init
     /\ NoRadio /\ NoBoard /\ NoManual /\ NoUsb /\ Off(prog) /\ Off(line) /\ Off(addr)
  \/ /\ part = "usb" /\ Usb!Init
     /\ NoRadio /\ NoBoard /\ NoManual /\ NoStorage /\ Off(prog) /\ Off(pc) /\ Off(line) /\ Off(err)

\* A step of each, the others at rest.
OfRadio(A) ==
  part = "radio" /\ A /\ UNCHANGED <<part, err, boardVars, manualVars, storageVars, usbVars>>
OfBoard(A) ==
  part = "board" /\ A /\ UNCHANGED <<part, err, addr, radioVars, manualVars, storageVars, usbVars>>
OfManual(A) ==
  part = "manual" /\ A /\ UNCHANGED <<part, line, addr, radioVars, boardVars, storageVars, usbVars>>
OfStorage(A) ==
  part = "storage" /\ A /\ UNCHANGED <<part, prog, line, addr, radioVars, boardVars, manualVars, usbVars>>
OfUsb(A) ==
  part = "usb" /\ A /\ UNCHANGED <<part, prog, pc, line, err, radioVars, boardVars, manualVars, storageVars>>

Next ==
  \/ OfRadio(Radio!Next) \/ OfBoard(Board!Next) \/ OfManual(Manual!Next)
  \/ OfStorage(Storage!Next) \/ OfUsb(Usb!Next)

\* A running program, its arecord, the kernel's work, the detector and the
\* services go on when they can, and a select that nothing disturbs times out;
\* no test has to be started, killed or lucky, and the cable, the PC, the person
\* and the devices do what they like.
Spec ==
  /\ Init /\ [][Next]_vars
  /\ WF_vars(OfRadio(Radio!Step))
  /\ WF_vars(OfManual(Manual!Step)) /\ WF_vars(OfManual(Manual!Arecord))
  /\ WF_vars(OfUsb(Usb!KernelSends)) /\ WF_vars(OfUsb(Usb!Detector))
  /\ \A s \in Usb!Slots : WF_vars(OfUsb(Usb!Service(s)))

-----------------------------------------------------------------------------
\* What a result line rests on, whatever failed or was interrupted.  Bluetooth:
\* an interface that came up, or a chip that is not tested.  WLAN: levels that
\* are levels, or an empty scan over a lucky stack; and a broadcast in the kernel
\* log, of this run or an earlier one.  Clock and processor: a clock that moved
\* within a minute, a frequency of the table, and a message of success.  Flash
\* and memory: only that a size was read, right or wrong.  Keys and knob: VERIFY
\* for a key released or a knob turned both ways; and the lines that main and a
\* signal handler print do not contradict each other (echo_bt_test.c:451,
\* echo_wlan_test.c:125, echo_rtc_test.c:217, echo_emmc_test.c:110,
\* echo_cpu_test.c:118, echo_key_test.c:108).
VerdictIsEarned ==
  /\ part = "radio" => Radio!TypeOK /\ Radio!PassIsEarned
  /\ part = "board" =>
       /\ Board!TypeOK /\ Board!PassMeansMeasured
       /\ Board!EmmcSizeIsCeiling /\ Board!AsksForListed /\ Board!FalseAlarmNeedsDelay
  /\ part = "manual" => Manual!VerifyIsEarned /\ Manual!LinesAgree

\* What is left on the board, however a test ends: at most one firmware loader,
\* and one more for each time close_brcm hit another process; none, and no WLAN
\* interface up, after a radio test that was not killed, and no access point
\* after a WLAN test that passed; no LED lit after the signal came between any
\* two writes, but those whose write failed or was left out; a recording of the
\* recording test only if arecord opened its file after the handler looked
\* (echo_bt_test.c:235, echo_wlan_test.c:241, echo_led_test.c:182,
\* echo_audio_record_test.c:45).  Not in it: the supplicant, which the WLAN test
\* leaves running, and the recording of audio_test, which nobody removes.
LeftAsFound ==
  /\ part = "radio" => Radio!OneLoader /\ Radio!RadiosLeftQuiet
  /\ part = "manual" =>
       /\ Manual!TypeOK /\ Manual!LedsLeftDark
       /\ Manual!ShinesOneColour /\ Manual!RecordingLeftOnlyLate

\* write_storage changes nothing when it reports a wrong message or crashes; it
\* stores an address as sscanf read it unless a byte before the last is zero; and
\* what it shows is what is stored except for values longer than their parameter
\* and for bytes that do not print as two digits (write_storage.c:122, :131,
\* :204, :219).
StoredAsTold ==
  part = "storage" =>
    /\ Storage!TypeOK /\ Storage!BadMessageKeepsStore /\ Storage!ShownIsStored
    /\ Storage!AddressStored /\ Storage!AddressShown

\* The detector acts on the state it reads when it comes to an event, which may
\* be later than the event: once it has caught up and none was lost, its last
\* action is the one for the cable as it is, and on an unplugged board every test
\* has been sent the signal but one started from a command that the server had
\* in hand (echo_uevent_detect.c:100, :106).
CableIsFollowed ==
  part = "usb" => Usb!TypeOK /\ Usb!CaughtUpIsRight /\ Usb!NoTestUnplugged

\* Nothing hangs: a radio test reports or is ended although the firmware may
\* never load; a manual test ends although nobody acts, unless its device never
\* lets select time out, as one whose reads keep failing does; a board left
\* plugged in becomes discoverable unless an event was lost or a call failed,
\* although restarts overlap with the services they end (echo_bt_test.c:298,
\* echo_key_test.c:137, ipconfig.sh:19).
NothingHangs ==
  /\ (part = "radio" /\ pc \notin {"idle", "printed"}) ~> (part = "radio" /\ pc \in {"idle", "printed"})
  /\ []<>(part # "manual" \/ pc = "gone" \/ (pc = "wait" /\ busy))
  /\ []<>(part # "usb" \/ cable # "CONFIGURED" \/ lost \/ faults > 0 \/ Usb!Listening)

\* What the readme says of the vendor storage: it keeps the serial number and
\* the addresses, the Bluetooth one among them (write_storage.c:38).
StoredAsGiven ==
  (part = "storage" /\ Storage!Passed /\ prop_rw = 1 /\ index \notin Storage!Macs /\ Len(value) <= UID_SIZE)
    => Storage!CStr(store[index]) = value
=============================================================================
