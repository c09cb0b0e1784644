---------------------------- MODULE TestsProofs ----------------------------
(***************************************************************************)
(* Proofs about the programs around the PCBA server, the parts of MCTests, *)
(* for every number of runs, faults, LEDs and frequencies and every queue  *)
(* of events: the detection of the USB link, the radio tests, the tests of *)
(* the board's parts, the tests a person takes part in and the tool that   *)
(* stores what a factory writes into the board.                            *)
(***************************************************************************)
EXTENDS MCTests, SequenceTheorems, TLAPS

-----------------------------------------------------------------------------
\* The USB link: a USB event is on its way to the detector, or never was.
Uncertain ==
  \/ due \/ lost \/ misread \/ det = "read"
  \/ \E i \in 1 .. Len(queue) : queue[i] = "usb"

\* Otherwise what the detector does or has done last fits the cable.
Follows ==
  \/ Uncertain
  \/ /\ det \in {"ifconfig", "look", "killall", "start"} => cable = "CONFIGURED"
     /\ det = "kill" => cable # "CONFIGURED"
     /\ det = "recv" =>
          /\ (acted = "configure") <=> (cable = "CONFIGURED")
          /\ cable # "CONFIGURED" => tests # "one"

UsbInv == Usb!TypeOK /\ Follows
UsbIsSound == part = "usb" => UsbInv

-----------------------------------------------------------------------------
\* The radio tests: which program is where, and what it has seen by then.
BtPlaces == {"init_rfkill", "bt_get_chip_name", "close_brcm", "bt_test_bluez", "confirm", "activate"}
WlanPlaces == {"close_wpa_supplicant", "wlan_exec", "wlan_test_ap"}
RadioPlaces ==
  /\ pc \in BtPlaces => prog = "bt"
  /\ pc \in WlanPlaces => prog = "wlan"
  /\ pc \in BtPlaces \cup WlanPlaces => line = "none"
  /\ pc = "wlan_test_ap" => "levels" \in facts \/ "unheard" \in facts
  /\ pc = "end" /\ prog # "bt" /\ line = "PASS" => ~softap
  /\ "nought" \notin facts

\* The daemons: a loader is started after the one before was killed or missed,
\* and a run leaves at most one supplicant more.
Daemons ==
  /\ Radio!OneLoader /\ (pc = "bt_test_bluez" => loaders <= missed)
  /\ wpas <= Old + nruns /\ (pc = "close_wpa_supplicant" => wpas < Old + nruns)

RadioInv ==
  /\ Radio!TypeOK /\ time_out % 3 = 0
  /\ RadioPlaces /\ Daemons /\ Radio!PassIsEarned /\ Radio!RadiosLeftQuiet
RadioIsSound == part = "radio" => RadioInv

-----------------------------------------------------------------------------
\* The board tests: the list made of the frequency table so far.
Listed ==
  /\ freq_num = 0 => freqs = <<0>>
  /\ freq_num > 0 => Len(freqs) <= freq_num
  /\ (freq_num > 0 /\ table # <<>>) =>
       \A i \in 1 .. Len(freqs) : \E j \in 1 .. Len(table) : freqs[i] = table[j]
  /\ pc = "start" => freq_num <= Len(table)
  /\ pc \in {"current", "mode", "set", "compare"} => prog = "cpu" /\ freq_num > 0

\* The clock, and a test that has not ended: nothing failed or was printed.
Clock ==
  /\ pc = "start" => second = 0
  /\ pc = "get" => second = Board!SET_SECOND
  /\ pc # "done" => line = "none" /\ ~failed

BoardInv ==
  /\ Board!TypeOK /\ Listed /\ Clock
  /\ Board!PassMeansMeasured /\ Board!AsksForListed /\ Board!FalseAlarmNeedsDelay
BoardIsSound == part = "board" => BoardInv

-----------------------------------------------------------------------------
\* The manual tests: where each may be.
ManualPlaces ==
  /\ pc \in {"open", "wait", "exit"} => prog \in Manual!Input
  /\ pc \in {"led", "play", "record", "audio"} => pc = prog
  /\ pc = "recording" => prog \in {"record", "audio"}
  /\ pc = "handler" => prog \in Manual!Handled
  /\ signalled => pc \in {"handler", "gone"}
  /\ pc = "handler" => signalled

\* What is printed, and what the result rests on.
Earned == IF prog = "key" THEN moved = {"up"} ELSE moved = {"cw", "ccw"}
Printed ==
  /\ pc \notin {"return", "handler", "gone"} => lines = <<>>
  /\ pc # "gone" => Len(lines) <= 1
  /\ \A i \in 1 .. Len(lines) : lines[i] = result
  /\ prog \in Manual!Input =>
       /\ result # "PASS"
       /\ result = "VERIFY" => Earned
       /\ pc = "exit" /\ err = "0" => Earned
  /\ prog \notin Manual!Input =>
       /\ pc = "send" => err # "0"
       /\ \A i \in 1 .. Len(lines) : lines[i] = "FAIL"

\* The LEDs: what this phase, or the handler, has written so far.
Written ==
  prog = "led" =>
    /\ pc = "led" => \A i \in (1 .. n - 1) \ broken : (i \in lit) <=> Manual!Shines(i, phase)
    /\ pc = "handler" => \A i \in lit \ broken : i >= n
    /\ pc \in {"send", "return", "gone"} => lit \subseteq broken

\* The recording: arecord runs inside its parent, or has outlived it.
Recorded ==
  prog = "record" =>
    /\ ~signalled /\ rec # "none" => pc = "recording"
    /\ signalled /\ rec = "started" => late
    /\ pc \in {"send", "return"} => ~file
    /\ pc = "gone" /\ file => late

ManualInv == Manual!TypeOK /\ ManualPlaces /\ Printed /\ Written /\ Recorded
ManualIsSound == part = "manual" => ManualInv

-----------------------------------------------------------------------------
\* A sequence of words with one more at its end, and without its first.
LEMMA AppendFacts ==
  ASSUME NEW S, NEW s \in Seq(S), NEW e \in S
  PROVE  /\ Append(s, e) \in Seq(S)
         /\ Len(Append(s, e)) = Len(s) + 1
         /\ \A i \in 1 .. Len(s) : Append(s, e)[i] = s[i]
         /\ Append(s, e)[Len(s) + 1] = e
  BY AppendProperties

LEMMA TailFacts ==
  ASSUME NEW S, NEW s \in Seq(S), s # <<>>
  PROVE  /\ Head(s) = s[1] /\ Head(s) \in S
         /\ Tail(s) \in Seq(S) /\ Len(s) > 0
         /\ Len(Tail(s)) = Len(s) - 1
         /\ \A i \in 1 .. Len(s) - 1 : Tail(s)[i] = s[i + 1]
  BY HeadTailProperties, EmptySeq

-----------------------------------------------------------------------------
\* The detector's invariant holds at the start,
LEMMA UsbInvInit ==
  ASSUME Usb!Init PROVE UsbInv
<1> USE TestsAssumption DEF Usb!Init, Usb!UsbAssumption
<1>1. Usb!TypeOK
  <2>1. queue \in Seq({"usb", "other"}) /\ Len(queue) = 0
    BY EmptySeq
  <2>2. disc \in [Usb!Slots -> {"none", "forked", "socket", "listen", "dying"}]
    OBVIOUS
  <2>3. Len(queue) <= QueueMax
    BY <2>1
  <2>4. lost \in BOOLEAN
    BY Zenon
  <2> QED BY <2>1, <2>2, <2>3, <2>4, Zenon DEF Usb!TypeOK
<1>2. Follows
  BY DEF Follows, Uncertain
<1> QED BY <1>1, <1>2 DEF UsbInv

\* and a step of anyone keeps its parts: the types,
LEMMA UsbTypeStep ==
  ASSUME UsbInv, Usb!Next PROVE Usb!TypeOK'
<1> USE DEF Usb!detVars, Usb!testVars
<1>1. Usb!TypeOK /\ QueueMax \in Nat
  BY TestsAssumption DEF UsbInv, Usb!UsbAssumption
<1>2. ASSUME NEW c \in Usb!States, Usb!Cable(c) PROVE Usb!TypeOK'
  BY <1>1, <1>2 DEF Usb!Cable, Usb!TypeOK
<1>3. CASE Usb!KernelSends
  <2>1. Append(queue, "usb") \in Seq({"usb", "other"}) /\ Len(Append(queue, "usb")) = Len(queue) + 1
    BY <1>1, AppendFacts DEF Usb!TypeOK
  <2>2. queue' \in Seq({"usb", "other"}) /\ Len(queue') <= QueueMax
    <3>1. CASE Len(queue) < QueueMax
      <4>1. Len(queue) + 1 <= QueueMax
        BY <1>1, <3>1, LenProperties DEF Usb!TypeOK
      <4>2. queue' = Append(queue, "usb")
        BY <1>3, <3>1 DEF Usb!KernelSends
      <4> QED BY <2>1, <4>1, <4>2
    <3>2. CASE ~(Len(queue) < QueueMax)
      BY <1>1, <1>3, <3>2 DEF Usb!KernelSends, Usb!TypeOK
    <3> QED BY <3>1, <3>2
  <2> QED BY <1>1, <1>3, <2>2, ZenonT(60) DEF Usb!KernelSends, Usb!TypeOK
<1>4. CASE Usb!OtherEvent
  BY <1>1, <1>4, AppendFacts DEF Usb!OtherEvent, Usb!TypeOK
<1>5. CASE Usb!Command \/ Usb!StartTest \/ Usb!TestEnds
  BY <1>1, <1>5, ZenonT(60) DEF Usb!Command, Usb!StartTest, Usb!TestEnds, Usb!TypeOK
<1>6. CASE Usb!Receive
  <2>1. Tail(queue) \in Seq({"usb", "other"}) /\ Len(Tail(queue)) <= QueueMax
    BY <1>1, <1>6, TailFacts, LenProperties DEF Usb!Receive, Usb!TypeOK
  <2> QED BY <1>1, <1>6, <2>1 DEF Usb!Receive, Usb!TypeOK
<1>7. CASE Usb!usb_state_get
  BY <1>1, <1>7, ZenonT(60) DEF Usb!usb_state_get, Usb!TypeOK
<1>8. CASE Usb!KillTests \/ Usb!Ifconfig \/ Usb!Look
  BY <1>1, <1>8, ZenonT(60) DEF Usb!KillTests, Usb!Ifconfig, Usb!Look, Usb!TypeOK
<1>9. CASE Usb!Killall
  BY <1>1, <1>9 DEF Usb!Killall, Usb!TypeOK
<1>10. ASSUME NEW s \in Usb!Slots, Usb!StartDiscovery(s) PROVE Usb!TypeOK'
  BY <1>1, <1>10 DEF Usb!StartDiscovery, Usb!TypeOK
<1>11. ASSUME NEW s \in Usb!Slots, Usb!Service(s) \/ Usb!Answer(s) PROVE Usb!TypeOK'
  <2>1. PICK from, to \in {"none", "forked", "socket", "listen", "dying"} : Usb!Goes(s, from, to)
    BY <1>11 DEF Usb!Service, Usb!Executes, Usb!Dies, Usb!Bind, Usb!Answer
  <2> QED BY <1>1, <2>1 DEF Usb!Goes, Usb!TypeOK
<1> QED BY <1>2, <1>3, <1>4, <1>5, <1>6, <1>7, <1>8, <1>9, <1>10, <1>11
  DEF Usb!Next, Usb!Detector

\* and the last action fits the cable.
LEMMA FollowsStep ==
  ASSUME UsbInv, Usb!Next PROVE Follows'
<1> USE DEF Usb!detVars, Usb!testVars
<1>1. Usb!TypeOK /\ Follows /\ QueueMax \in Nat /\ Len(queue) \in Nat
  BY TestsAssumption, LenProperties DEF UsbInv, Usb!TypeOK, Usb!UsbAssumption
<1>2. ASSUME NEW c \in Usb!States, Usb!Cable(c) PROVE Follows'
  BY <1>2 DEF Usb!Cable, Follows, Uncertain
<1>3. CASE Usb!KernelSends
  <2>1. CASE lost'
    BY <2>1 DEF Follows, Uncertain
  <2>2. CASE queue' = Append(queue, "usb")
    <3>1. queue'[Len(queue) + 1] = "usb" /\ Len(queue') = Len(queue) + 1
      BY <1>1, <2>2, AppendFacts DEF Usb!TypeOK
    <3>2. \E i \in 1 .. Len(queue') : queue'[i] = "usb"
      BY <1>1, <3>1
    <3> QED BY <3>2 DEF Follows, Uncertain
  <2> QED BY <1>3, <2>1, <2>2 DEF Usb!KernelSends
<1>4. CASE Usb!OtherEvent
  <2>1. Len(queue') = Len(queue) + 1 /\ \A i \in 1 .. Len(queue) : queue'[i] = queue[i]
    BY <1>1, <1>4, AppendFacts DEF Usb!TypeOK, Usb!OtherEvent
  <2>2. (\E i \in 1 .. Len(queue) : queue[i] = "usb") => \E i \in 1 .. Len(queue') : queue'[i] = "usb"
    BY <1>1, <2>1
  <2> QED BY <1>1, <1>4, <2>2 DEF Usb!OtherEvent, Follows, Uncertain
<1>5. CASE Usb!Command \/ Usb!StartTest \/ Usb!TestEnds
  BY <1>1, <1>5 DEF Usb!Command, Usb!StartTest, Usb!TestEnds, Follows, Uncertain
<1>6. CASE Usb!Receive
  <2>1. CASE Head(queue) = "usb"
    BY <1>6, <2>1 DEF Usb!Receive, Follows, Uncertain
  <2>2. CASE Head(queue) # "usb"
    <3>1. /\ queue[1] # "usb" /\ Len(queue') = Len(queue) - 1
          /\ \A i \in 1 .. Len(queue) - 1 : queue'[i] = queue[i + 1]
      BY <1>1, <1>6, <2>2, TailFacts DEF Usb!TypeOK, Usb!Receive
    <3>2. (\E i \in 1 .. Len(queue) : queue[i] = "usb") => \E i \in 1 .. Len(queue') : queue'[i] = "usb"
      <4> SUFFICES ASSUME NEW i \in 1 .. Len(queue), queue[i] = "usb" PROVE \E j \in 1 .. Len(queue') : queue'[j] = "usb"
        OBVIOUS
      <4>1. i # 1 /\ i - 1 \in 1 .. Len(queue) - 1 /\ (i - 1) + 1 = i
        BY <1>1, <3>1
      <4>2. queue'[i - 1] = "usb"
        BY <3>1, <4>1
      <4> QED BY <3>1, <4>1, <4>2
    <3> QED BY <1>1, <1>6, <2>2, <3>2 DEF Usb!Receive, Follows, Uncertain
  <2> QED BY <2>1, <2>2
<1>7. CASE Usb!usb_state_get
  BY <1>1, <1>7 DEF Usb!usb_state_get, Usb!TypeOK, Follows, Uncertain
<1>8. CASE Usb!KillTests
  BY <1>1, <1>8 DEF Usb!KillTests, Follows, Uncertain
<1>9. CASE Usb!Ifconfig \/ Usb!Look \/ Usb!Killall
  BY <1>1, <1>9 DEF Usb!Ifconfig, Usb!Look, Usb!Killall, Follows, Uncertain
<1>10. ASSUME NEW s \in Usb!Slots, Usb!StartDiscovery(s) PROVE Follows'
  BY <1>1, <1>10 DEF Usb!StartDiscovery, Follows, Uncertain
<1>11. ASSUME NEW s \in Usb!Slots, Usb!Service(s) \/ Usb!Answer(s) PROVE Follows'
  <2>1. UNCHANGED <<cable, due, queue, lost, misread, det, acted, tests>>
    BY <1>11 DEF Usb!Service, Usb!Executes, Usb!Dies, Usb!Bind, Usb!Answer, Usb!Goes
  <2> QED BY <1>1, <2>1 DEF Follows, Uncertain
<1> QED BY <1>2, <1>3, <1>4, <1>5, <1>6, <1>7, <1>8, <1>9, <1>10, <1>11
  DEF Usb!Next, Usb!Detector

\* The invariant of the USB link, for every queue and every stream of events.
THEOREM UsbSound == Spec => []UsbIsSound
<1>1. Init => UsbIsSound
  BY UsbInvInit DEF Init, UsbIsSound
<1>2. UsbIsSound /\ [Next]_vars => UsbIsSound'
  <2> SUFFICES ASSUME part' = "usb", UsbIsSound, [Next]_vars PROVE UsbInv'
    BY DEF UsbIsSound
  <2>1. CASE part = "usb" /\ Usb!Next
    BY <2>1, UsbTypeStep, FollowsStep DEF UsbIsSound, UsbInv
  <2>2. CASE part = "usb" /\ UNCHANGED <<usbVars, addr>>
    BY <2>2 DEF UsbIsSound, UsbInv, usbVars, Usb!TypeOK, Follows, Uncertain
  <2> QED BY <2>1, <2>2 DEF Next, vars, OfRadio, OfBoard, OfManual, OfStorage, OfUsb
<1> QED BY <1>1, <1>2, PTL DEF Spec

\* Once the detector has caught up and no event was lost, its last action is the
\* one for the cable as it is and every test that runs on an unplugged board has
\* been sent the signal, but one started from a command that the server had in
\* hand; whatever the kernel, the PC and the services did meanwhile
\* (echo_uevent_detect.c:100, :106).
THEOREM CableFollowed == Spec => []CableIsFollowed
<1>1. UsbIsSound => CableIsFollowed
  <2> SUFFICES ASSUME part = "usb", UsbInv
               PROVE  Usb!TypeOK /\ Usb!CaughtUpIsRight /\ Usb!NoTestUnplugged
    BY DEF UsbIsSound, CableIsFollowed
  <2>1. Usb!Caught => ~Uncertain
    BY EmptySeq DEF Usb!Caught, Uncertain
  <2>2. Usb!CaughtUpIsRight /\ Usb!NoTestUnplugged
    BY <2>1 DEF UsbInv, Follows, Usb!Caught, Usb!CaughtUpIsRight, Usb!NoTestUnplugged
  <2> QED BY <2>2 DEF UsbInv
<1> QED BY <1>1, UsbSound, PTL

-----------------------------------------------------------------------------
\* The radio tests' invariant holds at the start,
LEMMA RadioInvInit ==
  ASSUME Radio!Init PROVE RadioInv
<1> USE TestsAssumption DEF Radio!Init, Radio!RadioAssumption
<1>1. Radio!TypeOK
  <2>1. /\ time_out \in 0 .. Radio!BT_TIMEOUT_FIRMWARE /\ nruns \in 0 .. MaxTests
        /\ loaders \in Nat /\ missed \in Nat /\ wpas \in 0 .. Old + MaxTests
    BY DEF Radio!BT_TIMEOUT_FIRMWARE
  <2>2. addr \in BOOLEAN
    OBVIOUS
  <2> QED BY <2>1, <2>2, Zenon DEF Radio!TypeOK
<1>2. RadioPlaces /\ Radio!PassIsEarned /\ Radio!RadiosLeftQuiet
  BY DEF RadioPlaces, BtPlaces, WlanPlaces, Radio!PassIsEarned, Radio!RadiosLeftQuiet
<1>3. time_out % 3 = 0 /\ Daemons
  BY DEF Daemons, Radio!OneLoader
<1> QED BY <1>1, <1>2, <1>3 DEF RadioInv

\* and a step keeps its parts: the types,
LEMMA RadioTypeStep ==
  ASSUME RadioInv, Radio!Next PROVE Radio!TypeOK'
<1> USE DEF Radio!runVars, Radio!btVars, Radio!wlanVars, Radio!BT_TIMEOUT_FIRMWARE, Radio!PERIOD_TIME
<1>1. /\ Radio!TypeOK /\ MaxTests \in Nat /\ Old \in Nat
      /\ wpas <= Old + nruns /\ (pc = "close_wpa_supplicant" => wpas < Old + nruns)
  BY TestsAssumption DEF RadioInv, Daemons, Radio!RadioAssumption
<1>2. ASSUME NEW p \in {"bt", "wlan"}, Radio!Start(p) PROVE Radio!TypeOK'
  BY <1>1, <1>2 DEF Radio!Start, Radio!TypeOK
<1>3. CASE Radio!Killed \/ Radio!FirmwareLoads
  <2>1. softap' \in BOOLEAN
    BY <1>1, <1>3 DEF Radio!Killed, Radio!FirmwareLoads, Radio!TypeOK
  <2> QED BY <1>1, <1>3, <2>1, ZenonT(60) DEF Radio!Killed, Radio!FirmwareLoads, Radio!TypeOK
<1>4. CASE Radio!init_rfkill \/ Radio!bt_get_chip_name
  BY <1>1, <1>4, ZenonT(60)
  DEF Radio!init_rfkill, Radio!bt_get_chip_name, Radio!Goto, Radio!Fails, Radio!Sees, Radio!TypeOK
<1>5. CASE Radio!close_brcm \/ Radio!bt_test_bluez
  <2>1. loaders + 1 \in Nat /\ missed + 1 \in Nat /\ (IF loaders = 0 THEN 0 ELSE loaders - 1) \in Nat
    BY <1>1 DEF Radio!TypeOK
  <2>2. loaders' \in Nat /\ missed' \in Nat
    BY <1>1, <1>5, <2>1 DEF Radio!close_brcm, Radio!bt_test_bluez, Radio!TypeOK
  <2>3. addr' \in BOOLEAN /\ hciUp' \in BOOLEAN
    BY <1>1, <1>5 DEF Radio!close_brcm, Radio!bt_test_bluez, Radio!TypeOK
  <2> QED BY <1>1, <1>5, <2>2, <2>3 DEF Radio!close_brcm, Radio!bt_test_bluez, Radio!Goto, Radio!Fails, Radio!TypeOK
<1>6. CASE Radio!confirm_firmware_test
  <2>1. time_out < 30 => time_out + 3 \in 0 .. 30
    BY <1>1 DEF RadioInv, Radio!TypeOK
  <2>2. time_out' \in 0 .. 30
    BY <1>1, <1>6, <2>1 DEF Radio!confirm_firmware_test, Radio!TypeOK
  <2>3. facts' \subseteq {"skipped", "address", "active", "levels", "nought", "unheard"}
    BY <1>1, <1>6 DEF Radio!confirm_firmware_test, Radio!SeesAddress, Radio!Sees, Radio!TypeOK
  <2>4. pc' \in {"confirm", "activate", "end"} /\ line' \in {"none", "PASS", "FAIL"}
    BY <1>1, <1>6 DEF Radio!confirm_firmware_test, Radio!Goto, Radio!Fails, Radio!TypeOK
  <2> QED BY <1>1, <1>6, <2>2, <2>3, <2>4 DEF Radio!confirm_firmware_test, Radio!TypeOK
<1>7. CASE Radio!activate_bt_test
  BY <1>1, <1>7 DEF Radio!activate_bt_test, Radio!Sees, Radio!Goto, Radio!Fails, Radio!TypeOK
<1>8. CASE Radio!close_wpa_supplicant
  BY <1>1, <1>8 DEF Radio!close_wpa_supplicant, Radio!Goto, Radio!TypeOK
<1>9. CASE Radio!wlan_test_ap
  BY <1>1, <1>9, ZenonT(60) DEF Radio!wlan_test_ap, Radio!Goto, Radio!Fails, Radio!TypeOK
<1>10. ASSUME NEW levels \in SUBSET {-201, -60, 0}, Radio!wlan_exec(levels) PROVE Radio!TypeOK'
  BY <1>1, <1>10, ZenonT(60) DEF Radio!wlan_exec, Radio!Goto, Radio!Fails, Radio!TypeOK
<1>11. CASE Radio!End
  <2>1. loaders' \in Nat
    BY <1>1, <1>11 DEF Radio!End, Radio!TypeOK
  <2>2. addr' \in BOOLEAN /\ hciUp' \in BOOLEAN /\ wlanUp' \in BOOLEAN
    BY <1>1, <1>11 DEF Radio!End, Radio!TypeOK
  <2> QED BY <1>1, <1>11, <2>1, <2>2 DEF Radio!End, Radio!Goto, Radio!TypeOK
<1> QED BY <1>2, <1>3, <1>4, <1>5, <1>6, <1>7, <1>8, <1>9, <1>10, <1>11 DEF Radio!Next, Radio!Step

\* the rounds of the wait, the loaders and the supplicants,
LEMMA DaemonsStep ==
  ASSUME RadioInv, Radio!Next PROVE time_out' % 3 = 0 /\ Daemons'
<1> USE DEF Radio!runVars, Radio!btVars, Radio!wlanVars, Radio!OneLoader, Radio!PERIOD_TIME
<1>1. /\ loaders \in Nat /\ missed \in Nat /\ wpas \in Nat /\ nruns \in Nat /\ time_out \in Nat /\ Old \in Nat
      /\ time_out % 3 = 0 /\ Daemons
  BY TestsAssumption DEF RadioInv, Radio!TypeOK, Radio!RadioAssumption, Radio!BT_TIMEOUT_FIRMWARE
<1>2. ASSUME NEW p \in {"bt", "wlan"}, Radio!Start(p) PROVE time_out' % 3 = 0 /\ Daemons'
  BY <1>1, <1>2 DEF Radio!Start, Daemons
<1>3. CASE Radio!Killed \/ Radio!FirmwareLoads
  BY <1>1, <1>3 DEF Radio!Killed, Radio!FirmwareLoads, Daemons
<1>4. CASE Radio!init_rfkill \/ Radio!bt_get_chip_name
  BY <1>1, <1>4 DEF Radio!init_rfkill, Radio!bt_get_chip_name, Radio!Goto, Radio!Fails, Daemons
<1>5. CASE Radio!close_brcm \/ Radio!bt_test_bluez
  BY <1>1, <1>5 DEF Radio!close_brcm, Radio!bt_test_bluez, Radio!Goto, Radio!Fails, Daemons
<1>6. CASE Radio!confirm_firmware_test
  BY <1>1, <1>6 DEF Radio!confirm_firmware_test, Radio!Goto, Radio!Fails, Daemons
<1>7. CASE Radio!activate_bt_test
  BY <1>1, <1>7 DEF Radio!activate_bt_test, Radio!Goto, Radio!Fails, Daemons
<1>8. CASE Radio!close_wpa_supplicant
  BY <1>1, <1>8 DEF Radio!close_wpa_supplicant, Radio!Goto, Daemons
<1>9. CASE Radio!wlan_test_ap
  BY <1>1, <1>9 DEF Radio!wlan_test_ap, Radio!Goto, Radio!Fails, Daemons
<1>10. ASSUME NEW levels \in SUBSET {-201, -60, 0}, Radio!wlan_exec(levels) PROVE time_out' % 3 = 0 /\ Daemons'
  BY <1>1, <1>10 DEF Radio!wlan_exec, Radio!Goto, Radio!Fails, Daemons
<1>11. CASE Radio!End
  BY <1>1, <1>11 DEF Radio!End, Radio!Goto, Daemons
<1> QED BY <1>2, <1>3, <1>4, <1>5, <1>6, <1>7, <1>8, <1>9, <1>10, <1>11 DEF Radio!Next, Radio!Step

\* where a program is and what it has seen, and what its line and its end say.
LEMMA RadioPlacesStep ==
  ASSUME RadioInv, Radio!Next PROVE RadioPlaces' /\ Radio!PassIsEarned' /\ Radio!RadiosLeftQuiet'
<1> DEFINE P == RadioPlaces /\ Radio!PassIsEarned /\ Radio!RadiosLeftQuiet
<1> USE DEF Radio!runVars, Radio!btVars, Radio!wlanVars, RadioPlaces, BtPlaces, WlanPlaces,
            Radio!PassIsEarned, Radio!RadiosLeftQuiet
<1>1. P /\ Radio!TypeOK
  BY DEF RadioInv
<1>2. ASSUME NEW p \in {"bt", "wlan"}, Radio!Start(p) PROVE P'
  BY <1>1, <1>2 DEF Radio!Start
<1>3. CASE Radio!Killed
  BY <1>1, <1>3 DEF Radio!Killed
<1>4. CASE Radio!FirmwareLoads
  BY <1>1, <1>4 DEF Radio!FirmwareLoads
<1>5. CASE Radio!init_rfkill
  BY <1>1, <1>5 DEF Radio!init_rfkill, Radio!Goto, Radio!Fails
<1>6. CASE Radio!bt_get_chip_name
  BY <1>1, <1>6 DEF Radio!bt_get_chip_name, Radio!Goto, Radio!Fails, Radio!Sees
<1>7. CASE Radio!close_brcm \/ Radio!bt_test_bluez
  BY <1>1, <1>7 DEF Radio!close_brcm, Radio!bt_test_bluez, Radio!Goto, Radio!Fails
<1>8. CASE Radio!confirm_firmware_test
  BY <1>1, <1>8 DEF Radio!confirm_firmware_test, Radio!SeesAddress, Radio!Sees, Radio!Goto, Radio!Fails
<1>9. CASE Radio!activate_bt_test
  BY <1>1, <1>9 DEF Radio!activate_bt_test, Radio!Sees, Radio!Goto, Radio!Fails
<1>10. CASE Radio!close_wpa_supplicant
  BY <1>1, <1>10 DEF Radio!close_wpa_supplicant, Radio!Goto
<1>11. ASSUME NEW levels \in SUBSET {-201, -60, 0}, Radio!wlan_exec(levels) PROVE P'
  <2>1. CASE Radio!Goto("wlan_exec", "wlan_test_ap")
    <3>1. 0 \notin levels \/ Radio!Fails("wlan_exec", -1)
      BY <1>11 DEF Radio!wlan_exec, Radio!PlausibleLevel
    <3> QED BY <1>1, <1>11, <2>1, <3>1 DEF Radio!wlan_exec, Radio!Goto, Radio!Fails
  <2>2. CASE Radio!Fails("wlan_exec", -1) /\ UNCHANGED facts
    BY <1>1, <1>11, <2>2 DEF Radio!wlan_exec, Radio!Fails
  <2> QED BY <1>11, <2>1, <2>2 DEF Radio!wlan_exec
<1>12. CASE Radio!wlan_test_ap
  <2>1. /\ pc = "wlan_test_ap" /\ pc' = "end" /\ prog' = prog /\ facts' = facts
        /\ line' = "FAIL" \/ (line' = "PASS" /\ ~softap' /\ logged')
    <3>1. -1 < 0
      OBVIOUS
    <3>2. \/ Radio!Fails("wlan_test_ap", -1)
          \/ Radio!Goto("wlan_test_ap", "end") /\ line' = "PASS" /\ softap' = FALSE /\ logged' = TRUE
      BY <1>12, Zenon DEF Radio!wlan_test_ap
    <3>3. prog' = prog /\ facts' = facts
      BY <1>12 DEF Radio!wlan_test_ap
    <3> QED BY <3>1, <3>2, <3>3, ZenonT(60) DEF Radio!Goto, Radio!Fails
  <2>2. prog = "wlan" /\ ("levels" \in facts \/ "unheard" \in facts) /\ "nought" \notin facts
    BY <1>1, <2>1
  <2> QED BY <2>1, <2>2
<1>13. CASE Radio!End
  BY <1>1, <1>13 DEF Radio!End, Radio!Goto
<1> QED BY <1>2, <1>3, <1>4, <1>5, <1>6, <1>7, <1>8, <1>9, <1>10, <1>11, <1>12, <1>13
  DEF Radio!Next, Radio!Step

\* The invariant of the radio tests, for every number of runs.
THEOREM RadioSound == Spec => []RadioIsSound
<1>1. Init => RadioIsSound
  BY RadioInvInit DEF Init, RadioIsSound
<1>2. RadioIsSound /\ [Next]_vars => RadioIsSound'
  <2> SUFFICES ASSUME part' = "radio", RadioIsSound, [Next]_vars PROVE RadioInv'
    BY DEF RadioIsSound
  <2>1. CASE part = "radio" /\ Radio!Next
    BY <2>1, RadioTypeStep, DaemonsStep, RadioPlacesStep DEF RadioIsSound, RadioInv
  <2>2. CASE part = "radio" /\ UNCHANGED <<radioVars, prog, pc, line, addr>>
    BY <2>2 DEF RadioIsSound, RadioInv, radioVars, Radio!TypeOK, RadioPlaces, Daemons, Radio!OneLoader,
      Radio!PassIsEarned, Radio!RadiosLeftQuiet
  <2> QED BY <2>1, <2>2 DEF Next, vars, OfRadio, OfBoard, OfManual, OfStorage, OfUsb
<1> QED BY <1>1, <1>2, PTL DEF Spec

-----------------------------------------------------------------------------
\* The manual tests' invariant holds at the start,
LEMMA ManualInvInit ==
  ASSUME Manual!Init PROVE ManualInv
<1> USE TestsAssumption DEF Manual!Init, Manual!ManualAssumption
<1>1. lines \in Seq({"FAIL", "VERIFY", "PASS"}) /\ Len(lines) = 0
  BY EmptySeq
<1>2. Manual!TypeOK
  <2>1. /\ pass \in 0 .. PASSES - 1 /\ phase \in 1 .. 5
        /\ n \in 1 .. LED_NUM + 1
    OBVIOUS
  <2>2. prog \in Manual!Input \cup {"led", "play", "record", "audio"}
    OBVIOUS
  <2>3. /\ pc \in {"open", "led", "play", "record", "audio"}
        /\ result \in {"FAIL", "VERIFY", "PASS"}
    BY <2>2 DEF Manual!Input
  <2>4. Len(lines) <= 2 /\ lit \subseteq Manual!Leds /\ broken \subseteq Manual!Leds
    BY <1>1
  <2> QED BY <1>1, <2>1, <2>2, <2>3, <2>4, Zenon DEF Manual!TypeOK
<1>3. ManualPlaces
  BY DEF ManualPlaces, Manual!Input
<1>4. Printed
  BY <1>1 DEF Printed, Manual!Input
<1>5. Written /\ Recorded
  BY DEF Written, Recorded
<1> QED BY <1>2, <1>3, <1>4, <1>5 DEF ManualInv

\* and a step keeps its parts: the types,
LEMMA ManualTypeStep ==
  ASSUME ManualInv, Manual!Next PROVE Manual!TypeOK'
<1> USE DEF Manual!ledVars, Manual!recVars
<1>1. /\ Manual!TypeOK /\ ManualPlaces /\ Printed
      /\ LED_NUM \in Nat /\ PASSES \in Nat \ {0}
  BY TestsAssumption DEF ManualInv, Manual!ManualAssumption
<1>2. ASSUME NEW name \in {"led", "play", "record", "audio"}, Manual!PassDone(name)
      PROVE  /\ pass' \in 0 .. PASSES - 1
             /\ err' \in {"0", "OPEN_FAIL", "EVENT_TIMEOUT", "LED_PROC_ERR", "TIMEOUT"}
             /\ pc' \in {"send", "led", "play", "record", "audio"}
  <2>1. CASE pass + 1 >= PASSES
    BY <1>1, <1>2, <2>1 DEF Manual!PassDone, Manual!TimeIsUp, Manual!TypeOK
  <2>2. CASE ~(pass + 1 >= PASSES)
    <3>1. pass + 1 \in 0 .. PASSES - 1
      BY <1>1, <2>2 DEF Manual!TypeOK
    <3> QED BY <1>1, <1>2, <2>2, <3>1 DEF Manual!PassDone, Manual!TimeIsUp, Manual!TypeOK
  <2> QED BY <2>1, <2>2
<1>3. ASSUME NEW r \in {"FAIL", "VERIFY", "PASS"}, Len(lines) <= 1
      PROVE  Append(lines, r) \in Seq({"FAIL", "VERIFY", "PASS"}) /\ Len(Append(lines, r)) <= 2
  BY <1>1, <1>3, AppendFacts, LenProperties DEF Manual!TypeOK
<1>4. CASE Manual!OpenDevice \/ Manual!WaitFails \/ Manual!ExitVerify \/ Manual!Return
  <2>1. /\ pc' \in {"wait", "exit", "send", "gone"} /\ result' \in {result, "VERIFY"}
        /\ err' \in {err, "OPEN_FAIL", "EVENT_TIMEOUT"}
    BY <1>4 DEF Manual!OpenDevice, Manual!WaitFails, Manual!ExitVerify, Manual!Return
  <2>2. UNCHANGED <<prog, lines, moved, busy, pass, phase, n, lit, broken, rec, file, late, signalled>>
    BY <1>4 DEF Manual!OpenDevice, Manual!WaitFails, Manual!ExitVerify, Manual!Return
  <2> QED BY <1>1, <2>1, <2>2 DEF Manual!TypeOK
<1>5. CASE Manual!KeyReleased
  BY <1>1, <1>5 DEF Manual!KeyReleased, Manual!TypeOK
<1>6. ASSUME NEW d \in {"cw", "ccw"}, Manual!Turned(d) PROVE Manual!TypeOK'
  BY <1>1, <1>6 DEF Manual!Turned, Manual!TypeOK
<1>7. CASE Manual!Send
  <2>1. result' \in {"FAIL", "VERIFY", "PASS"} /\ Len(lines) <= 1 /\ lines' = Append(lines, result')
    BY <1>1, <1>7 DEF Manual!Send, Manual!TypeOK, Printed
  <2>2. lines' \in Seq({"FAIL", "VERIFY", "PASS"}) /\ Len(lines') <= 2
    BY <1>3, <2>1
  <2> QED BY <1>1, <1>7, <2>1, <2>2 DEF Manual!Send, Manual!TypeOK
<1>8. CASE Manual!led_test
  <2>1. n' \in 1 .. LED_NUM + 1 /\ lit' \subseteq Manual!Leds
    <3>1. n \in Manual!Leds /\ n + 1 \in 1 .. LED_NUM + 1
      BY <1>1, <1>8 DEF Manual!led_test, Manual!TypeOK, Manual!Leds
    <3>2. lit \subseteq Manual!Leds /\ n \in 1 .. LED_NUM + 1
      BY <1>1 DEF Manual!TypeOK
    <3>3. n' = n + 1 \/ n' = n
      BY <1>8 DEF Manual!led_test
    <3>4. lit' = lit \cup {n} \/ lit' = lit \ {n} \/ lit' = lit
      BY <1>8 DEF Manual!led_test, Manual!Writes, Manual!LeftOut
    <3> QED BY <3>1, <3>2, <3>3, <3>4, Zenon
  <2>4. broken' \subseteq Manual!Leds
    <3>1. n \in Manual!Leds /\ broken \subseteq Manual!Leds
      BY <1>1, <1>8 DEF Manual!led_test, Manual!TypeOK, Manual!Leds
    <3>2. broken' = broken \ {n} \/ broken' = broken \cup {n} \/ broken' = Manual!Leds
      BY <1>8 DEF Manual!led_test, Manual!Writes, Manual!LeftOut
    <3> QED BY <3>1, <3>2, Zenon
  <2>2. /\ pc' \in {"led", "send"}
        /\ err' \in {"0", "OPEN_FAIL", "EVENT_TIMEOUT", "LED_PROC_ERR", "TIMEOUT"}
    BY <1>1, <1>8 DEF Manual!led_test, Manual!TypeOK
  <2>3. UNCHANGED <<prog, result, lines, moved, busy, pass, phase, rec, file, late, signalled>>
    BY <1>8 DEF Manual!led_test
  <2> QED BY <1>1, <2>1, <2>2, <2>3, <2>4, ZenonT(60) DEF Manual!TypeOK
<1>9. CASE Manual!NextPhase
  <2>1. n' \in 1 .. LED_NUM + 1 /\ phase' \in 1 .. 5
    BY <1>1, <1>9 DEF Manual!NextPhase, Manual!TypeOK
  <2>2. /\ pass' \in 0 .. PASSES - 1
        /\ err' \in {"0", "OPEN_FAIL", "EVENT_TIMEOUT", "LED_PROC_ERR", "TIMEOUT"}
        /\ pc' \in {"send", "led", "play", "record", "audio"}
    <3>1. CASE Manual!PassDone("led")
      BY <1>2, <3>1
    <3>2. CASE UNCHANGED <<pass, err, pc>>
      BY <1>1, <1>9, <3>2 DEF Manual!NextPhase, Manual!TypeOK
    <3> QED BY <1>9, <3>1, <3>2 DEF Manual!NextPhase
  <2> QED BY <1>1, <1>9, <2>1, <2>2 DEF Manual!NextPhase, Manual!TypeOK
<1>10. CASE Manual!audio_play_test
  <2>1. Manual!PassDone("play")
    BY <1>10 DEF Manual!audio_play_test
  <2> QED BY <1>1, <1>2, <1>10, <2>1 DEF Manual!audio_play_test, Manual!TypeOK
<1>11. CASE Manual!StartRecord \/ Manual!Arecord
  <2>1. /\ pc' \in {"open", "wait", "exit", "send", "return", "led", "play", "record", "audio",
                  "recording", "handler", "gone"}
        /\ rec' \in {"none", "started", "recording"} /\ file' \in BOOLEAN
    BY <1>1, <1>11 DEF Manual!StartRecord, Manual!Arecord, Manual!TypeOK
  <2>2. UNCHANGED <<prog, result, err, lines, moved, busy, pass, phase, n, lit, broken, late, signalled>>
    BY <1>11 DEF Manual!StartRecord, Manual!Arecord
  <2> QED BY <1>1, <2>1, <2>2, ZenonT(60) DEF Manual!TypeOK
<1>12. CASE Manual!RecordEnds
  <2>1. prog \in {"record", "audio"} /\ Manual!PassDone(prog)
    BY <1>1, <1>12 DEF Manual!RecordEnds, ManualPlaces
  <2>2. /\ pass' \in 0 .. PASSES - 1
        /\ err' \in {"0", "OPEN_FAIL", "EVENT_TIMEOUT", "LED_PROC_ERR", "TIMEOUT"}
        /\ pc' \in {"send", "led", "play", "record", "audio"}
    BY <1>2, <2>1
  <2> QED BY <1>1, <1>12, <2>2, ZenonT(60) DEF Manual!RecordEnds, Manual!TypeOK
<1>13. CASE Manual!OtherEvent
  BY <1>1, <1>13, ZenonT(60) DEF Manual!OtherEvent, Manual!TypeOK
<1>14. CASE Manual!SigTerm
  BY <1>1, <1>14 DEF Manual!SigTerm, Manual!TypeOK
<1>15. CASE Manual!result_send
  <2>1. result \in {"FAIL", "VERIFY", "PASS"} /\ Len(lines) <= 1 /\ lines' = Append(lines, result)
    BY <1>1, <1>15 DEF Manual!result_send, Manual!TypeOK, Printed
  <2>2. lines' \in Seq({"FAIL", "VERIFY", "PASS"}) /\ Len(lines') <= 2
    BY <1>3, <2>1
  <2> QED BY <1>1, <1>15, <2>2 DEF Manual!result_send, Manual!TypeOK
<1>16. CASE Manual!leds_all_off
  <2>1. n' \in 1 .. LED_NUM + 1 /\ lit' \subseteq Manual!Leds
    <3>1. n <= LED_NUM => n + 1 \in 1 .. LED_NUM + 1
      BY <1>1 DEF Manual!TypeOK
    <3>2. lit \subseteq Manual!Leds /\ n \in 1 .. LED_NUM + 1
      BY <1>1 DEF Manual!TypeOK
    <3>3. (n <= LED_NUM /\ n' = n + 1) \/ n' = n
      BY <1>16 DEF Manual!leds_all_off
    <3>4. lit' = lit \ {n} \/ lit' = lit
      BY <1>16 DEF Manual!leds_all_off, Manual!Writes, Manual!LeftOut
    <3> QED BY <3>1, <3>2, <3>3, <3>4, Zenon
  <2>4. broken' \subseteq Manual!Leds
    <3>1. broken \subseteq Manual!Leds /\ n .. LED_NUM \subseteq Manual!Leds /\ (n <= LED_NUM => n \in Manual!Leds)
      BY <1>1 DEF Manual!TypeOK, Manual!Leds
    <3>2. \/ broken' = broken \ {n} \/ broken' = broken
          \/ n <= LED_NUM /\ broken' = broken \cup {n}
          \/ broken' = broken \cup n .. LED_NUM
      BY <1>16 DEF Manual!leds_all_off, Manual!Writes, Manual!LeftOut
    <3> QED BY <3>1, <3>2, Zenon
  <2>2. pc' \in {"handler", "gone"}
    BY <1>1, <1>16 DEF Manual!leds_all_off, Manual!TypeOK
  <2>3. UNCHANGED <<prog, result, err, lines, moved, busy, pass, phase, rec, file, late, signalled>>
    BY <1>16 DEF Manual!leds_all_off
  <2> QED BY <1>1, <2>1, <2>2, <2>3, <2>4, ZenonT(60) DEF Manual!TypeOK
<1>17. CASE Manual!del_record_pcm
  BY <1>1, <1>17 DEF Manual!del_record_pcm, Manual!TypeOK
<1> QED BY <1>4, <1>5, <1>6, <1>7, <1>8, <1>9, <1>10, <1>11, <1>12, <1>13, <1>14, <1>15, <1>16, <1>17
  DEF Manual!Next, Manual!Step, Manual!TimesOut

\* where each program is,
LEMMA ManualPlacesStep ==
  ASSUME ManualInv, Manual!Next PROVE ManualPlaces'
<1> USE DEF Manual!ledVars, Manual!recVars, ManualPlaces, Manual!Handled, Manual!Input, Manual!PassDone
<1>1. Manual!TypeOK /\ ManualPlaces
  BY DEF ManualInv
<1>2. prog' = prog
  BY DEF Manual!Next, Manual!Step, Manual!TimesOut, Manual!OpenDevice, Manual!WaitFails, Manual!KeyReleased, Manual!Turned,
    Manual!ExitVerify, Manual!Send, Manual!Return, Manual!led_test, Manual!NextPhase, Manual!audio_play_test,
    Manual!StartRecord, Manual!RecordEnds, Manual!result_send, Manual!leds_all_off, Manual!del_record_pcm,
    Manual!OtherEvent, Manual!Arecord, Manual!SigTerm
<1>3. CASE Manual!OpenDevice \/ Manual!WaitFails \/ Manual!ExitVerify \/ Manual!Return \/ Manual!KeyReleased
  BY <1>1, <1>3 DEF Manual!OpenDevice, Manual!WaitFails, Manual!ExitVerify, Manual!Return, Manual!KeyReleased
<1>4. ASSUME NEW d \in {"cw", "ccw"}, Manual!Turned(d) PROVE ManualPlaces'
  BY <1>1, <1>4 DEF Manual!Turned
<1>5. CASE Manual!Send \/ Manual!led_test
  BY <1>1, <1>5 DEF Manual!Send, Manual!led_test
<1>6. CASE Manual!NextPhase \/ Manual!audio_play_test
  BY <1>1, <1>6 DEF Manual!NextPhase, Manual!audio_play_test
<1>7. CASE Manual!StartRecord \/ Manual!Arecord
  BY <1>1, <1>7 DEF Manual!StartRecord, Manual!Arecord
<1>8. CASE Manual!RecordEnds
  BY <1>1, <1>8 DEF Manual!RecordEnds
<1>9. CASE Manual!OtherEvent
  BY <1>1, <1>9 DEF Manual!OtherEvent
<1>10. CASE Manual!SigTerm
  BY <1>1, <1>10 DEF Manual!SigTerm
<1>11. CASE Manual!result_send \/ Manual!leds_all_off \/ Manual!del_record_pcm
  BY <1>1, <1>11 DEF Manual!result_send, Manual!leds_all_off, Manual!del_record_pcm
<1> QED BY <1>3, <1>4, <1>5, <1>6, <1>7, <1>8, <1>9, <1>10, <1>11 DEF Manual!Next, Manual!Step, Manual!TimesOut

\* what it has printed,
LEMMA PrintedStep ==
  ASSUME ManualInv, Manual!Next PROVE Printed'
<1> USE DEF Manual!ledVars, Manual!recVars, Manual!Input, Manual!PassDone, Earned
<1>1. Manual!TypeOK /\ ManualPlaces /\ Printed
  BY DEF ManualInv
<1>2. ASSUME NEW r \in {"FAIL", "VERIFY", "PASS"}, Len(lines) <= 1, \A i \in 1 .. Len(lines) : lines[i] = r
      PROVE  \A i \in 1 .. Len(Append(lines, r)) : Append(lines, r)[i] = r
  BY <1>1, <1>2, AppendFacts, LenProperties DEF Manual!TypeOK
<1>3. CASE Manual!OpenDevice \/ Manual!WaitFails \/ Manual!Return
  BY <1>1, <1>3 DEF Manual!OpenDevice, Manual!WaitFails, Manual!Return, Printed, ManualPlaces
<1>4. CASE Manual!KeyReleased
  BY <1>1, <1>4, EmptySeq DEF Manual!KeyReleased, Printed
<1>5. ASSUME NEW d \in {"cw", "ccw"}, Manual!Turned(d) PROVE Printed'
  <2>1. prog = "rotary" /\ d \notin moved /\ moved' = moved \cup {d} /\ lines = <<>>
    BY <1>1, <1>5 DEF Manual!Turned, Printed
  <2>2. result # "VERIFY"
    BY <1>1, <2>1 DEF Printed
  <2>3. pc' = "exit" => moved' = {"cw", "ccw"}
    BY <1>5 DEF Manual!Turned
  <2> QED BY <1>1, <1>5, <2>1, <2>2, <2>3 DEF Manual!Turned, Printed
<1>6. CASE Manual!ExitVerify
  BY <1>1, <1>6, EmptySeq DEF Manual!ExitVerify, Printed, ManualPlaces
<1>7. CASE Manual!Send
  <2>1. lines = <<>> /\ Len(lines) = 0 /\ result' \in {"FAIL", "VERIFY", "PASS"}
    BY <1>1, <1>7, EmptySeq DEF Manual!Send, Printed, Manual!TypeOK
  <2>2. /\ lines' = Append(lines, result')
        /\ Len(Append(lines, result')) = 1
        /\ \A i \in 1 .. Len(Append(lines, result')) : Append(lines, result')[i] = result'
    BY <1>1, <1>2, <1>7, <2>1, AppendFacts DEF Manual!Send, Manual!TypeOK
  <2>3. prog \notin Manual!Input => result' = "FAIL"
    BY <1>1, <1>7 DEF Manual!Send, Printed
  <2>4. prog \in Manual!Input => result' = result
    BY <1>7 DEF Manual!Send
  <2> QED BY <1>1, <1>7, <2>2, <2>3, <2>4 DEF Manual!Send, Printed
<1>8. CASE Manual!led_test
  BY <1>1, <1>8 DEF Manual!led_test, Printed, ManualPlaces
<1>9. CASE Manual!NextPhase \/ Manual!audio_play_test
  BY <1>1, <1>9 DEF Manual!NextPhase, Manual!audio_play_test, Printed, ManualPlaces
<1>10. CASE Manual!StartRecord \/ Manual!Arecord
  BY <1>1, <1>10 DEF Manual!StartRecord, Manual!Arecord, Printed, ManualPlaces
<1>11. CASE Manual!RecordEnds
  BY <1>1, <1>11 DEF Manual!RecordEnds, Printed, ManualPlaces
<1>12. CASE Manual!OtherEvent \/ Manual!SigTerm
  BY <1>1, <1>12 DEF Manual!OtherEvent, Manual!SigTerm, Printed
<1>13. CASE Manual!result_send
  <2>1. /\ result \in {"FAIL", "VERIFY", "PASS"} /\ Len(lines) <= 1 /\ lines' = Append(lines, result)
        /\ result' = result /\ pc' = "gone" /\ prog \in Manual!Input
    BY <1>1, <1>13 DEF Manual!result_send, Printed, Manual!TypeOK
  <2>2. \A i \in 1 .. Len(lines') : lines'[i] = result'
    BY <1>1, <1>2, <2>1 DEF Printed
  <2> QED BY <1>1, <1>13, <2>1, <2>2 DEF Manual!result_send, Printed
<1>14. CASE Manual!leds_all_off \/ Manual!del_record_pcm
  BY <1>1, <1>14 DEF Manual!leds_all_off, Manual!del_record_pcm, Printed
<1> QED BY <1>3, <1>4, <1>5, <1>6, <1>7, <1>8, <1>9, <1>10, <1>11, <1>12, <1>13, <1>14
  DEF Manual!Next, Manual!Step, Manual!TimesOut

\* what it has written to the LEDs,
LEMMA WrittenStep ==
  ASSUME ManualInv, Manual!Next PROVE Written'
<1> USE DEF Manual!ledVars, Manual!recVars
<1>1. Manual!TypeOK /\ ManualPlaces /\ Written /\ LED_NUM \in Nat
  BY TestsAssumption DEF ManualInv, Manual!ManualAssumption
<1>0. n \in 1 .. LED_NUM + 1 /\ lit \subseteq 1 .. LED_NUM /\ phase \in 1 .. 5
  BY <1>1 DEF Manual!TypeOK, Manual!Leds
<1>2. CASE prog' # "led"
  BY <1>2 DEF Written
<1>3. CASE Manual!Send \/ Manual!Return
  BY <1>1, <1>3 DEF Manual!Send, Manual!Return, Written
<1>4. CASE Manual!led_test
  <2>1. prog' = prog /\ phase' = phase /\ pc = "led" /\ n \in 1 .. LED_NUM
    BY <1>0, <1>1, <1>4 DEF Manual!led_test
  <2>2. CASE pc' = "send" /\ broken' = Manual!Leds /\ lit' = lit
    BY <1>0, <2>2 DEF Written, Manual!Leds
  <2>3. CASE pc' = "led" /\ n' = n + 1 /\ (Manual!Writes(Manual!Shines(n, phase)) \/ Manual!LeftOut)
    <3> SUFFICES ASSUME prog = "led", NEW i \in (1 .. n) \ broken' PROVE (i \in lit') <=> Manual!Shines(i, phase)
      BY <1>0, <2>1, <2>3 DEF Written, Manual!Shines, Manual!Colour
    <3>1. CASE i = n
      BY <2>3, <3>1 DEF Manual!Writes, Manual!LeftOut
    <3>2. CASE i # n
      <4>1. i \in (1 .. n - 1) \ broken /\ ((i \in lit') <=> (i \in lit))
        BY <1>0, <2>3, <3>2 DEF Manual!Writes, Manual!LeftOut
      <4> QED BY <1>1, <2>1, <4>1 DEF Written
    <3> QED BY <3>1, <3>2
  <2> QED BY <1>4, <2>1, <2>2, <2>3 DEF Manual!led_test
<1>5. CASE Manual!NextPhase
  <2>1. prog' = prog /\ pc = "led" /\ n = LED_NUM + 1 /\ n' = 1 /\ lit' = lit /\ broken' = broken
    BY <1>0, <1>1, <1>5 DEF Manual!NextPhase
  <2>2. CASE pc' = "led"
    BY <2>1, <2>2 DEF Written
  <2>3. CASE phase = 5 /\ pc' = "send"
    <3>1. \A i \in 1 .. LED_NUM : ~Manual!Shines(i, phase)
      BY <2>3 DEF Manual!Shines, Manual!Colour
    <3>2. prog = "led" => lit \subseteq broken
      BY <1>0, <1>1, <2>1, <3>1 DEF Written
    <3> QED BY <2>1, <2>3, <3>2 DEF Written
  <2> QED BY <1>0, <1>5, <2>1, <2>2, <2>3 DEF Manual!NextPhase, Manual!PassDone
<1>6. CASE Manual!SigTerm
  BY <1>0, <1>1, <1>6 DEF Manual!SigTerm, Manual!Handled, Written
<1>7. CASE Manual!leds_all_off
  <2>1. prog = "led" /\ prog' = prog /\ pc = "handler" /\ \A i \in lit \ broken : i >= n
    BY <1>1, <1>7 DEF Manual!leds_all_off, Written
  <2>2. CASE n' = n + 1 /\ (Manual!Writes(FALSE) \/ Manual!LeftOut) /\ pc' = pc
    <3>1. \A i \in lit' \ broken' : i \in lit \ broken /\ i # n
      BY <2>2 DEF Manual!Writes, Manual!LeftOut
    <3>2. ASSUME NEW i \in lit' \ broken' PROVE i >= n + 1
      <4>1. i \in 1 .. LED_NUM /\ i >= n /\ i # n
        BY <1>0, <2>1, <3>1
      <4> QED BY <1>0, <1>1, <4>1
    <3> QED BY <2>1, <2>2, <3>2 DEF Written
  <2>3. CASE broken' = broken \cup n .. LED_NUM /\ lit' = lit /\ pc' = "gone"
    <3>1. lit' \subseteq broken'
      BY <1>0, <1>1, <2>1, <2>3
    <3> QED BY <2>3, <3>1 DEF Written
  <2>4. CASE n > LED_NUM /\ pc' = "gone" /\ lit' = lit /\ broken' = broken
    <3>1. lit \subseteq broken
      BY <1>0, <1>1, <2>1, <2>4
    <3> QED BY <2>4, <3>1 DEF Written
  <2> QED BY <1>7, <2>2, <2>3, <2>4 DEF Manual!leds_all_off
<1>8. CASE Manual!Arecord \/ Manual!OtherEvent
  BY <1>1, <1>8 DEF Manual!Arecord, Manual!OtherEvent, Written
<1>9. CASE Manual!OpenDevice \/ Manual!WaitFails \/ Manual!KeyReleased \/ Manual!ExitVerify
           \/ (\E d \in {"cw", "ccw"} : Manual!Turned(d)) \/ Manual!result_send
  BY <1>1, <1>2, <1>9 DEF Manual!OpenDevice, Manual!WaitFails, Manual!KeyReleased, Manual!ExitVerify,
    Manual!Turned, Manual!result_send, ManualPlaces, Manual!Input
<1>10. CASE Manual!audio_play_test \/ Manual!StartRecord \/ Manual!RecordEnds \/ Manual!del_record_pcm
  BY <1>1, <1>2, <1>10 DEF Manual!audio_play_test, Manual!StartRecord, Manual!RecordEnds,
    Manual!del_record_pcm, ManualPlaces
<1> QED BY <1>3, <1>4, <1>5, <1>6, <1>7, <1>8, <1>9, <1>10 DEF Manual!Next, Manual!Step, Manual!TimesOut

\* and what is left of a recording.
LEMMA RecordedStep ==
  ASSUME ManualInv, Manual!Next PROVE Recorded'
<1> USE DEF Manual!ledVars, Manual!recVars
<1>1. Manual!TypeOK /\ ManualPlaces /\ Recorded
  BY DEF ManualInv
<1>2. CASE prog' # "record"
  BY <1>2 DEF Recorded
<1>3. CASE Manual!Send \/ Manual!Return
  BY <1>1, <1>3 DEF Manual!Send, Manual!Return, Recorded
<1>4. CASE Manual!StartRecord
  BY <1>1, <1>4 DEF Manual!StartRecord, Recorded, ManualPlaces
<1>5. CASE Manual!RecordEnds
  BY <1>1, <1>5 DEF Manual!RecordEnds, Manual!PassDone, Recorded, ManualPlaces
<1>6. CASE Manual!Arecord
  BY <1>1, <1>6 DEF Manual!Arecord, Recorded, ManualPlaces
<1>7. CASE Manual!SigTerm
  BY <1>1, <1>7 DEF Manual!SigTerm, Manual!Handled, Recorded
<1>8. CASE Manual!OtherEvent
  BY <1>1, <1>8 DEF Manual!OtherEvent, Recorded
<1>9. CASE Manual!del_record_pcm
  BY <1>1, <1>9 DEF Manual!del_record_pcm, Recorded, ManualPlaces
<1>10. CASE Manual!OpenDevice \/ Manual!WaitFails \/ Manual!KeyReleased \/ Manual!ExitVerify
            \/ (\E d \in {"cw", "ccw"} : Manual!Turned(d)) \/ Manual!result_send
  BY <1>1, <1>2, <1>10 DEF Manual!OpenDevice, Manual!WaitFails, Manual!KeyReleased, Manual!ExitVerify,
    Manual!Turned, Manual!result_send, ManualPlaces, Manual!Input
<1>11. CASE Manual!audio_play_test \/ Manual!led_test \/ Manual!NextPhase \/ Manual!leds_all_off
  BY <1>1, <1>2, <1>11 DEF Manual!audio_play_test, Manual!led_test, Manual!NextPhase,
    Manual!leds_all_off, ManualPlaces
<1> QED BY <1>3, <1>4, <1>5, <1>6, <1>7, <1>8, <1>9, <1>10, <1>11 DEF Manual!Next, Manual!Step, Manual!TimesOut

\* The invariant of the manual tests, for every number of LEDs and passes.
THEOREM ManualSound == Spec => []ManualIsSound
<1>1. Init => ManualIsSound
  BY ManualInvInit DEF Init, ManualIsSound
<1>2. ManualIsSound /\ [Next]_vars => ManualIsSound'
  <2> SUFFICES ASSUME part' = "manual", ManualIsSound, [Next]_vars PROVE ManualInv'
    BY DEF ManualIsSound
  <2>1. CASE part = "manual" /\ Manual!Next
    BY <2>1, ManualTypeStep, ManualPlacesStep, PrintedStep, WrittenStep, RecordedStep DEF ManualIsSound, ManualInv
  <2>2. CASE part = "manual" /\ UNCHANGED <<manualVars, prog, pc, err>>
    BY <2>2 DEF ManualIsSound, ManualInv, manualVars, Manual!TypeOK, ManualPlaces, Printed, Earned,
      Written, Recorded, Manual!Shines, Manual!Colour
  <2> QED BY <2>1, <2>2 DEF Next, vars, OfRadio, OfBoard, OfManual, OfStorage, OfUsb
<1> QED BY <1>1, <1>2, PTL DEF Spec

\* What is left on the board however a test is ended, for every number of runs,
\* LEDs and passes: at most one firmware loader and one for each miss of
\* close_brcm, none and no WLAN interface up after a radio test that was not
\* killed, no access point after a WLAN test that passed; no LED lit but those
\* whose write failed or was left out; a recording of the recording test only if
\* arecord opened its file after the handler.  It says nothing of the supplicant
\* or of audio_test (echo_bt_test.c:235, echo_wlan_test.c:241,
\* echo_led_test.c:182, echo_audio_record_test.c:45).
THEOREM TestsLeaveAsFound == Spec => []LeftAsFound
<1>1. RadioIsSound /\ ManualIsSound => LeftAsFound
  <2>1. ASSUME RadioInv PROVE Radio!OneLoader /\ Radio!RadiosLeftQuiet
    BY <2>1 DEF RadioInv, Daemons
  <2>2. ASSUME ManualInv PROVE Manual!LedsLeftDark /\ Manual!RecordingLeftOnlyLate
    BY <2>2 DEF ManualInv, Written, Recorded, Manual!LedsLeftDark, Manual!RecordingLeftOnlyLate
  <2>3. ASSUME ManualInv PROVE Manual!ShinesOneColour
    <3> SUFFICES ASSUME prog = "led", pc = "led", n > LED_NUM
                 PROVE  lit \ broken = (CASE phase = 1 -> {i \in Manual!Leds : i % 3 = 2}
                                          [] phase = 2 -> {i \in Manual!Leds : i % 3 = 1}
                                          [] phase = 3 -> {i \in Manual!Leds : i % 3 = 0}
                                          [] phase = 4 -> Manual!Leds
                                          [] OTHER -> {}) \ broken
      BY DEF Manual!ShinesOneColour
    <3>1. LED_NUM \in Nat /\ n = LED_NUM + 1 /\ lit \subseteq Manual!Leds /\ phase \in 1 .. 5
      BY <2>3, TestsAssumption DEF ManualInv, Manual!TypeOK, Manual!ManualAssumption
    <3>2. \A i \in Manual!Leds \ broken : (i \in lit) <=> Manual!Shines(i, phase)
      BY <2>3, <3>1 DEF ManualInv, Written, Manual!Leds
    <3>3. \A i \in Manual!Leds : i \in Int /\ i % 3 \in 0 .. 2
      BY <3>1 DEF Manual!Leds
    <3>4. CASE phase = 1
      BY <3>1, <3>2, <3>3, <3>4 DEF Manual!Shines, Manual!Colour
    <3>5. CASE phase = 2
      BY <3>1, <3>2, <3>3, <3>5 DEF Manual!Shines, Manual!Colour
    <3>6. CASE phase = 3
      BY <3>1, <3>2, <3>3, <3>6 DEF Manual!Shines, Manual!Colour
    <3>7. CASE phase = 4
      BY <3>1, <3>2, <3>7 DEF Manual!Shines, Manual!Colour
    <3>8. CASE phase = 5
      BY <3>1, <3>2, <3>3, <3>8 DEF Manual!Shines, Manual!Colour
    <3> QED BY <3>1, <3>4, <3>5, <3>6, <3>7, <3>8
  <2> QED BY <2>1, <2>2, <2>3 DEF RadioIsSound, ManualIsSound, ManualInv, LeftAsFound
<1> QED BY <1>1, RadioSound, ManualSound, PTL

-----------------------------------------------------------------------------
\* get_emmc_size finds the least power of two of gigabytes that holds the size,
LEMMA EmmcCeiling ==
  ASSUME NEW s \in Nat, s > 0, s <= 512 * Board!GB
  PROVE  LET c == Board!get_emmc_size(s) IN
         /\ c \in Board!Classes \cup {512}
         /\ s <= c * Board!GB
         /\ c > 1 => s > (c \div 2) * Board!GB
<1> USE DEF Board!GB
<1> DEFINE fits == {c \in Board!Classes : s > c * Board!GB /\ s <= c * 2 * Board!GB}
<1>1. CASE s <= Board!GB
  <2>1. Board!get_emmc_size(s) = 1
    BY <1>1 DEF Board!get_emmc_size
  <2> QED BY <1>1, <2>1 DEF Board!Classes
<1>2. CASE s > Board!GB
  <2>1. \E c \in Board!Classes : s > c * Board!GB /\ s <= c * 2 * Board!GB
    BY <1>2 DEF Board!Classes
  <2> DEFINE c == CHOOSE d \in fits : TRUE
  <2>2. fits # {} /\ c \in fits
    <3>1. \E d \in fits : TRUE
      BY <2>1
    <3> HIDE DEF fits
    <3> QED BY <3>1
  <2>3. Board!get_emmc_size(s) = 2 * c
    <3>1. ~(s > 0 /\ s <= Board!GB)
      BY <1>2
    <3>2. Board!get_emmc_size(s) =
            IF s > 0 /\ s <= Board!GB THEN 1 ELSE IF fits = {} THEN -1 ELSE 2 * c
      BY DEF Board!get_emmc_size
    <3> HIDE DEF fits, c
    <3> QED BY <2>2, <3>1, <3>2
  <2>4. c \in Board!Classes /\ s > c * Board!GB /\ s <= c * 2 * Board!GB
    BY <2>2
  <2> HIDE DEF c
  <2> QED BY <2>3, <2>4 DEF Board!Classes
<1> QED BY <1>1, <1>2

\* and none for a size of nothing or of more than 512 GB.
LEMMA EmmcOutside ==
  ASSUME NEW s \in Nat, s = 0 \/ s > 512 * Board!GB
  PROVE  Board!get_emmc_size(s) = -1
<1> USE DEF Board!GB
<1>1. {c \in Board!Classes : s > c * Board!GB /\ s <= c * 2 * Board!GB} = {}
  BY DEF Board!Classes
<1> QED BY <1>1 DEF Board!get_emmc_size

\* Insert_list fills the last element or adds one.
LEMMA InsertList ==
  ASSUME NEW l \in Seq(Nat), Len(l) > 0, NEW f \in Nat
  PROVE  /\ Board!Insert_list(l, f) \in Seq(Nat)
         /\ Len(Board!Insert_list(l, f)) = IF l[Len(l)] = 0 THEN Len(l) ELSE Len(l) + 1
         /\ \A i \in 1 .. Len(Board!Insert_list(l, f)) :
              Board!Insert_list(l, f)[i] = f \/ (i <= Len(l) /\ Board!Insert_list(l, f)[i] = l[i])
<1>1. Len(l) \in Nat
  BY LenProperties
<1>2. CASE l[Len(l)] = 0
  <2>1. Board!Insert_list(l, f) = [l EXCEPT ![Len(l)] = f]
    BY <1>2 DEF Board!Insert_list
  <2>2. [l EXCEPT ![Len(l)] = f] \in Seq(Nat) /\ Len([l EXCEPT ![Len(l)] = f]) = Len(l)
    BY <1>1, ExceptSeq
  <2>3. \A i \in 1 .. Len(l) : [l EXCEPT ![Len(l)] = f][i] = IF i = Len(l) THEN f ELSE l[i]
    BY <1>1
  <2> DEFINE g == [l EXCEPT ![Len(l)] = f]
  <2>4. Len(g) = IF l[Len(l)] = 0 THEN Len(l) ELSE Len(l) + 1
    BY <1>2, <2>2
  <2>5. \A i \in 1 .. Len(l) : g[i] = f \/ (i <= Len(l) /\ g[i] = l[i])
    BY <1>1, <2>3
  <2>6. g \in Seq(Nat) /\ Len(g) = Len(l) /\ Board!Insert_list(l, f) = g
    BY <2>1, <2>2
  <2> HIDE DEF g
  <2> QED BY <2>4, <2>5, <2>6, Zenon
<1>3. CASE l[Len(l)] # 0
  <2>1. Board!Insert_list(l, f) = Append(l, f)
    BY <1>3 DEF Board!Insert_list
  <2>2. /\ Append(l, f) \in Seq(Nat) /\ Len(Append(l, f)) = Len(l) + 1
        /\ \A i \in 1 .. Len(l) : Append(l, f)[i] = l[i]
        /\ Append(l, f)[Len(l) + 1] = f
    BY AppendFacts
  <2>3. \A i \in 1 .. Len(l) + 1 : Append(l, f)[i] = f \/ (i <= Len(l) /\ Append(l, f)[i] = l[i])
    BY <1>1, <2>2
  <2>4. Len(Append(l, f)) = IF l[Len(l)] = 0 THEN Len(l) ELSE Len(l) + 1
    BY <1>3, <2>2
  <2>5. \A i \in 1 .. Len(Append(l, f)) : Append(l, f)[i] = f \/ (i <= Len(l) /\ Append(l, f)[i] = l[i])
    BY <2>2, <2>3, Zenon
  <2> QED BY <2>1, <2>2, <2>4, <2>5, Zenon
<1> QED BY <1>2, <1>3

-----------------------------------------------------------------------------
\* The board tests' invariant holds at the start,
LEMMA BoardInvInit ==
  ASSUME Board!Init PROVE BoardInv
<1> USE TestsAssumption DEF Board!Init, Board!BoardAssumption
<1>1. Len(table) \in Nat
  BY LenProperties
<1>2. freqs \in Seq(Nat) /\ Len(freqs) = 1
  OBVIOUS
<1>3. Board!TypeOK
  <2>1. /\ second \in 0 .. Board!SET_SECOND + MaxDelay /\ delay \in 0 .. MaxDelay
        /\ size \in Nat /\ Len(freqs) \in 1 .. Len(table) + 1 /\ freq_num \in 0 .. Len(table) + 1
    BY <1>1, <1>2 DEF Board!SET_SECOND
  <2> QED BY <1>2, <2>1, Zenon DEF Board!TypeOK
<1>4. Listed
  BY <1>1 DEF Listed
<1>5. Clock
  BY DEF Clock
<1>6. /\ Board!PassMeansMeasured
      /\ Board!AsksForListed /\ Board!FalseAlarmNeedsDelay
  BY DEF Board!PassMeansMeasured, Board!AsksForListed, Board!FalseAlarmNeedsDelay
<1> QED BY <1>3, <1>4, <1>5, <1>6 DEF BoardInv

\* and a step keeps its parts: the types and the list,
LEMMA BoardTypeStep ==
  ASSUME BoardInv, Board!Next PROVE Board!TypeOK' /\ Listed'
<1> DEFINE P == Board!TypeOK /\ Listed
<1> USE DEF Board!clock, Board!cpu, Board!Fault, Board!Ends
<1>1. /\ P /\ Clock /\ MaxDelay \in Nat /\ Sectors \subseteq Nat /\ Pages \subseteq Nat
      /\ table \in Seq(Nat) /\ Len(table) \in Nat
  BY TestsAssumption, LenProperties DEF BoardInv, Board!BoardAssumption, Board!TypeOK
<1>2. CASE Board!rtc_set_system_time_test
  <2>1. second' \in 0 .. Board!SET_SECOND + MaxDelay
    <3>1. Board!SET_SECOND \in 0 .. Board!SET_SECOND + MaxDelay
      BY <1>1 DEF Board!SET_SECOND
    <3> QED BY <1>1, <1>2, <3>1 DEF Board!rtc_set_system_time_test, Board!TypeOK
  <2>2. Board!TypeOK'
    BY <1>1, <1>2, <2>1 DEF Board!rtc_set_system_time_test, Board!TypeOK
  <2>3. Listed'
    BY <1>1, <1>2 DEF Board!rtc_set_system_time_test, Listed
  <2> QED BY <2>2, <2>3
<1>3. CASE Board!rtc_get_system_time_test
  <2>1. PICK d \in Board!RTC_TIME_DIFF .. MaxDelay : d = delay'
    BY <1>3 DEF Board!rtc_get_system_time_test
  <2>2. d \in 0 .. MaxDelay /\ Board!SET_SECOND + d \in 0 .. Board!SET_SECOND + MaxDelay
    BY <1>1 DEF Board!RTC_TIME_DIFF, Board!SET_SECOND
  <2>3. second' = Board!SET_SECOND + d \/ second' = second
    BY <1>1, <1>3, <2>1 DEF Board!rtc_get_system_time_test, Clock
  <2>4. second' \in 0 .. Board!SET_SECOND + MaxDelay /\ delay' \in 0 .. MaxDelay
    BY <1>1, <2>1, <2>2, <2>3, Zenon DEF Board!TypeOK
  <2>5. pc' = "done" /\ line' \in {"PASS", "FAIL"} /\ said' \in {"success", "failed"} /\ failed' \in BOOLEAN
    BY <1>1, <1>3 DEF Board!rtc_get_system_time_test, Board!TypeOK
  <2>6. Board!TypeOK'
    BY <1>1, <1>3, <2>4, <2>5 DEF Board!rtc_get_system_time_test, Board!TypeOK
  <2>7. Listed'
    BY <1>1, <1>3, <2>5 DEF Board!rtc_get_system_time_test, Listed
  <2> QED BY <2>6, <2>7
<1>4. CASE Board!emmc_test \/ Board!ddr_test
  <2>1. size' \in Nat
    BY <1>1, <1>4, ZenonT(60) DEF Board!emmc_test, Board!ddr_test, Board!TypeOK
  <2>2. pc' = "done" /\ line' \in {"PASS", "FAIL"} /\ said' \in {"success", "failed"} /\ failed' \in BOOLEAN
    <3>1. failed' \in BOOLEAN
      BY <1>1, <1>4, ZenonT(60) DEF Board!emmc_test, Board!ddr_test, Board!TypeOK
    <3>2. \E m \in {"success", "failed"} : \E ret : Board!Ends(m, ret)
      <4> HIDE DEF Board!Ends
      <4>1. CASE Board!emmc_test
        BY <4>1, ZenonT(60) DEF Board!emmc_test
      <4>2. CASE Board!ddr_test
        BY <4>2, ZenonT(60) DEF Board!ddr_test
      <4> QED BY <1>4, <4>1, <4>2
    <3>3. PICK m \in {"success", "failed"} : \E ret : Board!Ends(m, ret)
      BY <3>2
    <3>4. PICK ret : Board!Ends(m, ret)
      BY <3>3
    <3> QED BY <3>1, <3>4
  <2>3. UNCHANGED <<prog, ticks, second, delay, table, freqs, freq_num, freq, wanted, gov>>
    BY <1>4 DEF Board!emmc_test, Board!ddr_test
  <2>4. Board!TypeOK'
    BY <1>1, <2>1, <2>2, <2>3 DEF Board!TypeOK
  <2>5. Listed'
    BY <1>1, <2>2, <2>3 DEF Listed
  <2> QED BY <2>4, <2>5
<1>5. CASE Board!get_cpu_freq_table
  <2>1. CASE pc' = "done" /\ UNCHANGED <<freqs, freq_num>>
    <3>1. Board!TypeOK'
      BY <1>1, <1>5, <2>1 DEF Board!get_cpu_freq_table, Board!TypeOK
    <3>2. Listed'
      BY <1>1, <1>5, <2>1 DEF Board!get_cpu_freq_table, Listed
    <3> QED BY <3>1, <3>2
  <2>2. CASE /\ \E w \in Board!Word(freq_num) : freqs' = Board!Insert_list(freqs, w)
             /\ freq_num' = freq_num + 1
             /\ \/ freq_num' <= Len(table) /\ pc' = "start"
                \/ freq_num' >= Len(table) /\ pc' = "current"
             /\ UNCHANGED <<line, said, failed>>
    <3>1. PICK w \in Board!Word(freq_num) : freqs' = Board!Insert_list(freqs, w)
      BY <2>2
    <3>2. freq_num \in 0 .. Len(table) /\ Len(freqs) \in Nat \ {0} /\ freqs \in Seq(Nat) /\ prog = "cpu"
      BY <1>1, <1>5 DEF Board!TypeOK, Listed, Board!get_cpu_freq_table
    <3>3. w \in Nat /\ (table # <<>> => \E j \in 1 .. Len(table) : w = table[j])
      BY <1>1, <3>2, EmptySeq DEF Board!Word, Board!Garbage
    <3>4. /\ freqs' \in Seq(Nat) /\ Len(freqs') = IF freqs[Len(freqs)] = 0 THEN Len(freqs) ELSE Len(freqs) + 1
          /\ \A i \in 1 .. Len(freqs') : freqs'[i] = w \/ (i <= Len(freqs) /\ freqs'[i] = freqs[i])
      BY <3>1, <3>2, <3>3, InsertList
    <3>5. freq_num = 0 => Len(freqs') = 1 /\ freqs'[1] = w
      <4> SUFFICES ASSUME freq_num = 0 PROVE Len(freqs') = 1 /\ freqs'[1] = w
        OBVIOUS
      <4>1. freqs = <<0>>
        BY <1>1 DEF Listed
      <4>2. Board!Insert_list(<<0>>, w) = <<w>>
        BY <3>3 DEF Board!Insert_list
      <4> QED BY <3>1, <4>1, <4>2
    <3>6. freq_num > 0 => Len(freqs) <= freq_num
      BY <1>1 DEF Listed
    <3>7. Len(freqs') \in 1 .. freq_num + 1
      BY <3>2, <3>4, <3>5, <3>6
    <3>8. table # <<>> => \A i \in 1 .. Len(freqs') : \E j \in 1 .. Len(table) : freqs'[i] = table[j]
      <4> SUFFICES ASSUME table # <<>>, NEW i \in 1 .. Len(freqs') PROVE \E j \in 1 .. Len(table) : freqs'[i] = table[j]
        OBVIOUS
      <4>1. CASE freq_num = 0
        <5>1. i \in 1 .. 1
          BY <3>5, <4>1, Zenon
        <5> QED BY <3>3, <3>5, <4>1, <5>1
      <4>2. CASE freq_num > 0
        <5>1. \A k \in 1 .. Len(freqs) : \E j \in 1 .. Len(table) : freqs[k] = table[j]
          BY <1>1, <4>2 DEF Listed
        <5>2. i <= Len(freqs) => i \in 1 .. Len(freqs)
          BY <3>2, <3>7
        <5> QED BY <3>3, <3>4, <5>1, <5>2
      <4> QED BY <3>2, <4>1, <4>2
    <3>9. /\ prog' = prog /\ pc' \in {"start", "current"} /\ (pc' = "start" => freq_num + 1 <= Len(table))
          /\ UNCHANGED <<ticks, second, delay, size, table, gov, line, said, failed>>
      BY <1>5, <2>2 DEF Board!get_cpu_freq_table
    <3>10. /\ freq_num + 1 \in 0 .. Len(table) + 1
           /\ \A k \in 1 .. freq_num + 1 : k \in 1 .. Len(table) + 1 /\ k <= freq_num + 1
           /\ freq_num + 1 > 0 /\ freq_num + 1 # 0
      BY <1>1, <3>2
    <3>11. freq_num' \in 0 .. Len(table') + 1 /\ Len(freqs') \in 1 .. Len(table') + 1
      BY <2>2, <3>7, <3>9, <3>10
    <3>12. Board!TypeOK'
      BY <1>1, <3>4, <3>9, <3>11 DEF Board!TypeOK
    <3>13. /\ freq_num' # 0 /\ freq_num' > 0 /\ Len(freqs') <= freq_num'
           /\ (pc' = "start" => freq_num' <= Len(table'))
      BY <2>2, <3>7, <3>9, <3>10
    <3>14. Listed'
      BY <3>2, <3>8, <3>9, <3>13 DEF Listed
    <3> QED BY <3>12, <3>14
  <2> QED BY <1>5, <2>1, <2>2 DEF Board!get_cpu_freq_table
<1>6. CASE Board!ReadCurrent \/ Board!Compare
  <2>1. /\ pc' \in {"mode", "done"} /\ line' \in {line, "PASS", "FAIL"} /\ said' \in {said, "success", "failed"}
        /\ failed' \in BOOLEAN /\ prog = "cpu" /\ pc \in {"current", "compare"}
    BY <1>1, <1>6 DEF Board!ReadCurrent, Board!Compare, Board!TypeOK
  <2>2. UNCHANGED <<prog, ticks, second, delay, size, table, freqs, freq_num, freq, wanted, gov>>
    BY <1>6 DEF Board!ReadCurrent, Board!Compare
  <2>3. Board!TypeOK'
    BY <1>1, <2>1, <2>2 DEF Board!TypeOK
  <2>4. Listed'
    BY <1>1, <2>1, <2>2 DEF Listed
  <2> QED BY <2>3, <2>4
<1>7. CASE Board!cpu_set_mode \/ Board!set_curl_freq \/ Board!Governor
  <2>1. /\ pc' \in {pc, "set", "compare"} /\ gov' \in {gov, "userspace"} /\ prog = "cpu"
        /\ (pc' # pc => pc \in {"mode", "set"})
    BY <1>7 DEF Board!cpu_set_mode, Board!set_curl_freq, Board!Governor
  <2>2. UNCHANGED <<prog, line, said, failed, ticks, second, delay, size, table, freqs, freq_num>>
    BY <1>7 DEF Board!cpu_set_mode, Board!set_curl_freq, Board!Governor
  <2>3. Board!TypeOK'
    BY <1>1, <2>1, <2>2 DEF Board!TypeOK
  <2>4. Listed'
    BY <1>1, <2>1, <2>2 DEF Listed
  <2> QED BY <2>3, <2>4
<1> QED BY <1>2, <1>3, <1>4, <1>5, <1>6, <1>7 DEF Board!Next

\* and what the clock showed, what was printed and what the processor was asked for.
LEMMA BoardVerdictStep ==
  ASSUME BoardInv, Board!Next
  PROVE  /\ Clock' /\ Board!PassMeansMeasured'
         /\ Board!AsksForListed' /\ Board!FalseAlarmNeedsDelay'
<1> DEFINE Q == /\ Clock /\ Board!PassMeansMeasured
                /\ Board!AsksForListed /\ Board!FalseAlarmNeedsDelay
<1> USE DEF Board!clock, Board!cpu
<1>1. Board!TypeOK /\ Listed /\ Q /\ MaxDelay \in Nat /\ Sectors \subseteq Nat /\ Pages \subseteq Nat
  BY TestsAssumption DEF BoardInv, Board!BoardAssumption
\* A call that fails ends the test with FAIL.
<1>2. ASSUME Board!Fault PROVE Q'
  BY <1>2 DEF Board!Fault, Board!Ends, Clock, Board!PassMeansMeasured,
    Board!AsksForListed, Board!FalseAlarmNeedsDelay
\* A step to another place that ends nothing.
<1>3. ASSUME pc \notin {"done", "compare"}, pc' \notin {"done", "compare", "start", "get"}, UNCHANGED <<line, failed>> PROVE Q'
  BY <1>1, <1>3 DEF Clock, Board!PassMeansMeasured,
    Board!AsksForListed, Board!FalseAlarmNeedsDelay
<1>4. CASE Board!rtc_set_system_time_test
  <2>1. CASE second' = Board!SET_SECOND /\ pc' = "get" /\ UNCHANGED <<line, said, failed>>
    BY <1>1, <1>4, <2>1 DEF Board!rtc_set_system_time_test, Clock, Board!PassMeansMeasured,
      Board!AsksForListed, Board!FalseAlarmNeedsDelay
  <2> QED BY <1>2, <1>4, <2>1 DEF Board!rtc_set_system_time_test
<1>5. CASE Board!rtc_get_system_time_test
  <2>1. PICK d \in Board!RTC_TIME_DIFF .. MaxDelay : d = delay'
    BY <1>5 DEF Board!rtc_get_system_time_test
  <2>2. /\ second = Board!SET_SECOND /\ prog = "rtc" /\ prog' = "rtc" /\ ticks' = ticks /\ line = "none"
        /\ second' = IF ticks THEN Board!SET_SECOND + d ELSE Board!SET_SECOND
    BY <1>1, <1>5, <2>1 DEF Board!rtc_get_system_time_test, Clock
  <2>3. Board!ClockMoved(Board!SET_SECOND, second') => ticks /\ second' > Board!SET_SECOND
    <3>1. ~Board!ClockMoved(Board!SET_SECOND, Board!SET_SECOND)
      BY DEF Board!ClockMoved, Board!SET_SECOND, Board!RTC_TIME_DIFF
    <3>2. Board!SET_SECOND + d > Board!SET_SECOND
      BY DEF Board!SET_SECOND, Board!RTC_TIME_DIFF
    <3> QED BY <2>2, <3>1, <3>2
  <2>4. ~Board!ClockMoved(Board!SET_SECOND, second') /\ ticks => delay' >= 50
    <3>1. ~Board!ClockMoved(Board!SET_SECOND, Board!SET_SECOND + d) => d >= 50
      BY DEF Board!ClockMoved, Board!SET_SECOND, Board!RTC_TIME_DIFF
    <3> QED BY <2>1, <2>2, <3>1
  <2>5. CASE Board!ClockMoved(Board!SET_SECOND, second') /\ Board!Ends("success", 0) /\ UNCHANGED failed
    <3>1. pc' = "done" /\ line' = "PASS" /\ said' = "success" /\ failed' = failed
      BY <2>5 DEF Board!Ends
    <3>2. ~failed'
      BY <1>1, <1>5, <3>1 DEF Clock, Board!rtc_get_system_time_test
    <3> QED BY <2>2, <2>3, <2>5, <3>1, <3>2 DEF Clock, Board!PassMeansMeasured,
          Board!AsksForListed, Board!FalseAlarmNeedsDelay
  <2>6. CASE ~Board!ClockMoved(Board!SET_SECOND, second') /\ Board!Ends("failed", -1) /\ UNCHANGED failed
    <3>1. pc' = "done" /\ line' = "FAIL"
      BY <2>6 DEF Board!Ends
    <3> QED BY <2>2, <2>4, <2>6, <3>1 DEF Clock, Board!PassMeansMeasured,
          Board!AsksForListed, Board!FalseAlarmNeedsDelay
  <2> QED BY <1>2, <1>5, <2>5, <2>6 DEF Board!rtc_get_system_time_test
<1>6. CASE Board!emmc_test
  <2>1. CASE Board!Fault
    BY <1>2, <2>1
  <2>2. CASE /\ size' \in Sectors
             /\ LET e == Board!get_emmc_size(size') IN
                  IF e < 0 THEN Board!Ends("failed", -1)
                  ELSE IF e # Board!EMMC_CAPACITY THEN Board!Ends("failed", 1)
                  ELSE Board!Ends("success", 1)
             /\ UNCHANGED failed
    <3>1. PICK s \in Nat : s = size'
      BY <1>1, <2>2
    <3>2. prog = "emmc" /\ prog' = "emmc" /\ ~failed' /\ pc' = "done" /\ line' \in {"PASS", "FAIL"}
      <4>1. pc = "start" /\ prog = "emmc" /\ prog' = "emmc" /\ failed' = failed
        BY <1>6, <2>2 DEF Board!emmc_test
      <4>2. ~failed
        BY <1>1, <4>1 DEF Clock
      <4>3. pc' = "done" /\ line' \in {"PASS", "FAIL"}
        BY <2>2, Zenon DEF Board!Ends
      <4> QED BY <4>1, <4>2, <4>3
    <3>3. line' = "PASS" => s > 0 /\ s <= 512 * Board!GB
      <4>1. Board!get_emmc_size(s) < 0 => line' = "FAIL"
        BY <2>2, <3>1 DEF Board!Ends
      <4>2. -1 < 0
        OBVIOUS
      <4>3. s = 0 \/ s > 512 * Board!GB => line' = "FAIL"
        BY <4>1, <4>2, EmmcOutside
      <4> QED BY <4>3 DEF Board!GB
    <3> QED BY <3>1, <3>2, <3>3 DEF Clock, Board!PassMeansMeasured,
          Board!AsksForListed, Board!FalseAlarmNeedsDelay
  <2> QED BY <1>6, <2>1, <2>2 DEF Board!emmc_test
<1>7. CASE Board!ddr_test
  <2>1. CASE Board!Fault
    BY <1>2, <2>1
  <2>2. CASE failed' = failed
    <3>1. pc = "start" /\ prog = "ddr" /\ prog' = "ddr"
      BY <1>7 DEF Board!ddr_test
    <3>2. ~failed'
      BY <1>1, <2>2, <3>1 DEF Clock
    <3>3. pc' = "done"
      BY <1>7, ZenonT(60) DEF Board!ddr_test, Board!Fault, Board!Ends
    <3> QED BY <3>1, <3>2, <3>3 DEF Clock, Board!PassMeansMeasured,
          Board!AsksForListed, Board!FalseAlarmNeedsDelay
  <2> QED BY <1>7, <2>1, <2>2 DEF Board!ddr_test
<1>8. CASE Board!get_cpu_freq_table
  <2>1. CASE Board!Fault
    BY <1>2, <2>1
  <2>2. CASE pc' = "start" /\ UNCHANGED <<line, said, failed>>
    <3>1. prog = "cpu" /\ prog' = "cpu" /\ pc = "start" /\ second' = second
      BY <1>8 DEF Board!get_cpu_freq_table
    <3> QED BY <1>1, <2>2, <3>1 DEF Clock, Board!PassMeansMeasured,
          Board!AsksForListed, Board!FalseAlarmNeedsDelay
  <2>3. CASE pc' = "current" /\ UNCHANGED <<line, said, failed>>
    <3>1. pc = "start"
      BY <1>8 DEF Board!get_cpu_freq_table
    <3> QED BY <1>3, <2>3, <3>1
  <2> QED BY <1>8, <2>1, <2>2, <2>3 DEF Board!get_cpu_freq_table
<1>9. CASE Board!ReadCurrent
  <2>1. CASE Board!Fault
    BY <1>2, <2>1
  <2>2. CASE pc' = "mode" /\ UNCHANGED <<line, said, failed>>
    <3>1. pc = "current"
      BY <1>9 DEF Board!ReadCurrent
    <3> QED BY <1>3, <2>2, <3>1
  <2> QED BY <1>9, <2>1, <2>2 DEF Board!ReadCurrent
<1>10. CASE Board!cpu_set_mode
  <2>1. pc = "mode" /\ pc' = "set" /\ UNCHANGED <<line, failed>>
    BY <1>10 DEF Board!cpu_set_mode
  <2> QED BY <1>3, <2>1
<1>11. CASE Board!set_curl_freq
  <2>1. pc = "set" /\ pc' = "compare" /\ table' = table /\ line' = line /\ failed' = failed
    BY <1>11 DEF Board!set_curl_freq
  <2>2. PICK k \in 0 .. freq_num - 1 : wanted' = Board!Pick(freqs, k)
    BY <1>11 DEF Board!set_curl_freq
  <2>3. freq_num \in Nat /\ freq_num > 0 /\ Len(freqs) \in Nat \ {0}
    BY <1>1, <2>1, LenProperties DEF Board!TypeOK, Listed
  <2>4. \E i \in 1 .. Len(freqs) : Board!Pick(freqs, k) = freqs[i]
    <3> DEFINE at == IF k <= 1 THEN 1 ELSE IF k > Len(freqs) THEN Len(freqs) ELSE k
    <3>1. at \in 1 .. Len(freqs)
      BY <2>3
    <3>2. Board!Pick(freqs, k) = freqs[at]
      BY DEF Board!Pick
    <3> HIDE DEF at
    <3> QED BY <3>1, <3>2
  <2>5. table # <<>> => \E j \in 1 .. Len(table) : table[j] = wanted'
    BY <1>1, <2>2, <2>3, <2>4 DEF Listed
  <2> QED BY <1>1, <2>1, <2>5 DEF Clock, Board!PassMeansMeasured,
        Board!AsksForListed, Board!FalseAlarmNeedsDelay
<1>12. CASE Board!Governor
  <2>1. /\ pc # "done" /\ UNCHANGED <<prog, pc, line, said, failed, ticks, second, delay, size, table, wanted, gov>>
    BY <1>12 DEF Board!Governor
  <2> QED BY <1>1, <2>1 DEF Clock, Board!PassMeansMeasured,
        Board!AsksForListed, Board!FalseAlarmNeedsDelay
<1>13. CASE Board!Compare
  <2>1. CASE Board!Fault
    BY <1>2, <2>1
  <2>2. CASE failed' = failed /\ (IF freq = wanted THEN Board!Ends("success", 0) ELSE Board!Ends("failed", -1))
    <3>1. pc = "compare" /\ prog = "cpu" /\ prog' = "cpu" /\ UNCHANGED <<freq, wanted, gov>>
      BY <1>13 DEF Board!Compare
    <3>2. ~failed'
      BY <1>1, <2>2, <3>1 DEF Clock
    <3>3. pc' = "done" /\ (line' = "PASS" => freq = wanted /\ said' = "success")
      BY <2>2 DEF Board!Ends
    <3> QED BY <3>1, <3>2, <3>3 DEF Clock, Board!PassMeansMeasured,
          Board!AsksForListed, Board!FalseAlarmNeedsDelay
  <2> QED BY <1>13, <2>1, <2>2 DEF Board!Compare
<1> QED BY <1>4, <1>5, <1>6, <1>7, <1>8, <1>9, <1>10, <1>11, <1>12, <1>13 DEF Board!Next

\* The invariant of the board tests, for every size and frequency table.
THEOREM BoardSound == Spec => []BoardIsSound
<1>1. Init => BoardIsSound
  BY BoardInvInit DEF Init, BoardIsSound
<1>2. BoardIsSound /\ [Next]_vars => BoardIsSound'
  <2> SUFFICES ASSUME part' = "board", BoardIsSound, [Next]_vars PROVE BoardInv'
    BY DEF BoardIsSound
  <2>1. CASE part = "board" /\ Board!Next
    BY <2>1, BoardTypeStep, BoardVerdictStep DEF BoardIsSound, BoardInv
  <2>2. CASE part = "board" /\ UNCHANGED <<boardVars, prog, pc, line>>
    BY <2>2 DEF BoardIsSound, BoardInv, boardVars, Board!TypeOK, Listed, Clock, Board!PassMeansMeasured,
      Board!AsksForListed, Board!FalseAlarmNeedsDelay
  <2> QED BY <2>1, <2>2 DEF Next, vars, OfRadio, OfBoard, OfManual, OfStorage, OfUsb
<1> QED BY <1>1, <1>2, PTL DEF Spec

\* What a PASS or a VERIFY rests on, for every flash size, frequency table, delay,
\* number of runs and instant of the signal: a Bluetooth interface that came up or
\* a chip that is not tested; levels that are levels or an empty scan, and a
\* broadcast in the log, new or old; a clock that moved and a processor at the
\* frequency set, each after a message of success; of a flash or a memory only
\* that its size was read; a key released, a knob turned both ways
\* (echo_bt_test.c:451, echo_wlan_test.c:125, echo_rtc_test.c:217,
\* echo_emmc_test.c:110, echo_cpu_test.c:118, echo_key_test.c:108).
THEOREM VerdictsEarned == Spec => []VerdictIsEarned
<1>1. RadioIsSound /\ BoardIsSound /\ ManualIsSound => VerdictIsEarned
  <2>1. ASSUME RadioInv PROVE Radio!TypeOK /\ Radio!PassIsEarned
    BY <2>1 DEF RadioInv
  <2>2. ASSUME BoardInv PROVE Board!EmmcSizeIsCeiling
    <3>1. size \in Nat
      BY <2>2 DEF BoardInv, Board!TypeOK
    <3> QED BY <3>1, EmmcCeiling DEF Board!EmmcSizeIsCeiling
  <2>3. ASSUME ManualInv PROVE Manual!VerifyIsEarned /\ Manual!LinesAgree
    <3>1. DOMAIN lines = 1 .. Len(lines) /\ prog \in Manual!Input \cup {"led", "play", "record", "audio"}
      BY <2>3, LenProperties DEF ManualInv, Manual!TypeOK
    <3>2. Printed
      BY <2>3 DEF ManualInv
    <3>3. Manual!LinesAgree
      BY <3>1, <3>2 DEF Printed, Manual!LinesAgree
    <3>4. Manual!VerifyIsEarned
      BY <3>1, <3>2 DEF Printed, Earned, Manual!Input, Manual!VerifyIsEarned
    <3> QED BY <3>3, <3>4
  <2> QED BY <2>1, <2>2, <2>3 DEF RadioIsSound, BoardIsSound, BoardInv, ManualIsSound, VerdictIsEarned
<1> QED BY <1>1, RadioSound, BoardSound, ManualSound, PTL

-----------------------------------------------------------------------------
\* write_storage: memory m holds the C string t.
Carries(m, t) ==
  /\ m \in Seq(Int) /\ Len(m) = BUF /\ t \in Seq(1 .. 255) /\ Len(t) < BUF
  /\ \A i \in 1 .. Len(t) : m[i] = t[i]
  /\ m[Len(t) + 1] = 0

\* An address strcpy carries whole.
Whole(t) == \A k \in 1 .. MAC_SIZE - 1 : Scan[t][k] # 0
Address == prop_rw = 1 /\ index \in Storage!Macs /\ Whole(value)

\* A value that msg_buf has room for.
Fits(t) == Len(t) < BUF /\ t \in DOMAIN Scan

StorageInv ==
  /\ prop_rw \in -1 .. 1 /\ (prop_rw >= 0 => index \in Storage!Params) /\ DOMAIN store = Storage!Params
  /\ pc = "parse" => Carries(msg, value) /\ value \in DOMAIN Scan /\ opts \in Seq(Storage!Options)
                     /\ \A i \in 1 .. Len(opts) : Fits(opts[i].v)
  /\ pc \in {"parse", "write", "read", "show"} => err = "0"
  /\ (pc \in {"parse", "write"} \/ (pc \in {"exit", "done"} /\ err \in {"MSG_ERR", "CRASH"})) => store = before
  /\ pc = "write" => prop_rw = 1
  /\ pc = "write" /\ Address => SubSeq(msg, 1, MAC_SIZE) = Scan[value]
  /\ pc \in {"read", "show", "exit", "done"} /\ err = "0" /\ Address => store[index] = Scan[value]
StorageIsSound == part = "storage" => StorageInv

\* A function on 1 .. k is a sequence.
LEMMA FunIsSeq ==
  ASSUME NEW S, NEW k \in Nat, NEW f \in [1 .. k -> S]
  PROVE  f \in Seq(S) /\ Len(f) = k
<1>1. f \in Seq(S)
  OBVIOUS
<1>2. DOMAIN f = 1 .. Len(f) /\ Len(f) \in Nat
  BY <1>1, LenProperties
<1>3. DOMAIN f = 1 .. k
  OBVIOUS
<1> QED BY <1>1, <1>2, <1>3

\* The characters of a text are numbers other than zero.
LEMMA TextBytes ==
  ASSUME NEW t \in Seq(1 .. 255)
  PROVE  t \in Seq(Int) /\ \A i \in 1 .. Len(t) : t[i] \in Int /\ t[i] # 0
<1>1. 1 .. 255 \subseteq Int /\ \A c \in 1 .. 255 : c \in Int /\ c # 0
  OBVIOUS
<1>2. t \in Seq(Int)
  BY <1>1, SeqMonotonic
<1>3. \A i \in 1 .. Len(t) : t[i] \in 1 .. 255
  BY ElementOfSeq
<1> QED BY <1>1, <1>2, <1>3, Zenon

\* The C string ends before the first zero,
LEMMA CStrEnds ==
  ASSUME NEW m \in Seq(Int), NEW z \in 1 .. Len(m), m[z] = 0, \A i \in 1 .. z - 1 : m[i] # 0
  PROVE  Storage!CStr(m) = SubSeq(m, 1, z - 1)
<1> DEFINE Z == {i \in DOMAIN m : m[i] = 0}
<1>1. DOMAIN m = 1 .. Len(m) /\ Len(m) \in Nat
  BY LenProperties
<1>2. z \in Z /\ \A y \in Z : y \in Int /\ z <= y
  BY <1>1
<1>3. Storage!Min(Z) = z
  <2> HIDE DEF Z
  <2>1. \A x \in Z : (\A y \in Z : x <= y) => x = z
    BY <1>2
  <2> QED BY <1>2, <2>1 DEF Storage!Min
<1>4. \E i \in DOMAIN m : m[i] = 0
  BY <1>2
<1> QED BY <1>3, <1>4 DEF Storage!CStr

\* or never.
LEMMA CStrWhole ==
  ASSUME NEW t \in Seq(Int), \A i \in 1 .. Len(t) : t[i] # 0
  PROVE  Storage!CStr(t) = t
<1>1. DOMAIN t = 1 .. Len(t)
  BY LenProperties
<1> QED BY <1>1 DEF Storage!CStr

\* Memory that carries a text is read as it,
LEMMA CarriesText ==
  ASSUME NEW m, NEW t, Carries(m, t)
  PROVE  Storage!CStr(m) = t
<1>1. m \in Seq(Int) /\ Len(m) \in Nat /\ Len(t) \in Nat /\ Len(t) + 1 \in 1 .. Len(m) /\ t \in Seq(1 .. 255)
  BY LenProperties DEF Carries
<1>2. \A i \in 1 .. Len(t) : m[i] = t[i] /\ t[i] \in 1 .. 255 /\ t[i] # 0
  BY <1>1, ElementOfSeq, TextBytes DEF Carries
<1>3. m[Len(t) + 1] = 0 /\ \A i \in 1 .. (Len(t) + 1) - 1 : m[i] # 0
  <2>1. \A i \in 1 .. (Len(t) + 1) - 1 : i \in 1 .. Len(t)
    BY <1>1
  <2> QED BY <1>2, <2>1 DEF Carries
<1>4. Storage!CStr(m) = SubSeq(m, 1, (Len(t) + 1) - 1)
  BY <1>1, <1>3, CStrEnds
<1>5. /\ SubSeq(m, 1, Len(t)) \in Seq(1 .. 255) /\ Len(SubSeq(m, 1, Len(t))) = Len(t)
      /\ \A i \in 1 .. Len(t) : SubSeq(m, 1, Len(t))[i] = t[i]
  <2>1. \A i \in 1 .. Len(t) : m[i] \in 1 .. 255
    BY <1>2
  <2>2. 1 \in Int /\ Len(t) \in Int
    BY <1>1
  <2>3. /\ SubSeq(m, 1, Len(t)) \in Seq(1 .. 255)
        /\ Len(SubSeq(m, 1, Len(t))) = IF 1 <= Len(t) THEN Len(t) - 1 + 1 ELSE 0
        /\ \A i \in 1 .. Len(t) - 1 + 1 : SubSeq(m, 1, Len(t))[i] = m[1 + i - 1]
    BY <2>1, <2>2, SubSeqProperties
  <2>4. Len(SubSeq(m, 1, Len(t))) = Len(t)
    BY <1>1, <2>3
  <2>5. \A i \in 1 .. Len(t) : SubSeq(m, 1, Len(t))[i] = m[i]
    BY <1>1, <2>3
  <2> QED BY <1>2, <2>3, <2>4, <2>5
<1>6. SubSeq(m, 1, Len(t)) = t
  BY <1>1, <1>5, SeqEqual
<1>7. (Len(t) + 1) - 1 = Len(t)
  BY <1>1
<1> QED BY <1>4, <1>6, <1>7

\* memcpy over memory.
LEMMA OverMemory ==
  ASSUME NEW m \in Seq(Int), NEW s \in Seq(Int)
  PROVE  /\ Storage!Over(m, s) \in Seq(Int) /\ Len(Storage!Over(m, s)) = Len(m)
         /\ \A i \in 1 .. Len(m) : Storage!Over(m, s)[i] = IF i <= Len(s) THEN s[i] ELSE m[i]
<1>1. DOMAIN m = 1 .. Len(m) /\ Len(m) \in Nat /\ Len(s) \in Nat
  BY LenProperties
<1>2. \A i \in 1 .. Len(m) : (IF i <= Len(s) THEN s[i] ELSE m[i]) \in Int
  <2> TAKE i \in 1 .. Len(m)
  <2>1. CASE i <= Len(s)
    BY <1>1, <2>1, ElementOfSeq
  <2>2. CASE ~(i <= Len(s))
    BY <1>1, <2>2, ElementOfSeq
  <2> QED BY <2>1, <2>2
<1>3. Storage!Over(m, s) = [i \in 1 .. Len(m) |-> IF i <= Len(s) THEN s[i] ELSE m[i]]
  BY <1>1 DEF Storage!Over
<1>4. Storage!Over(m, s) \in [1 .. Len(m) -> Int]
  BY <1>2, <1>3
<1> QED BY <1>1, <1>3, <1>4, FunIsSeq

\* strcpy of a text into memory that has room for it.
LEMMA CopyText ==
  ASSUME NEW m \in Seq(Int), Len(m) = BUF, NEW t \in Seq(1 .. 255), Len(t) < BUF
  PROVE  Carries(Storage!StrCopy(m, t), t)
<1> DEFINE a == Append(t, 0)
<1>1. Len(t) \in Nat /\ BUF \in Nat /\ t \in Seq(Int)
  BY LenProperties, TextBytes
<1>2. \A i \in 1 .. Len(t) : t[i] # 0
  BY TextBytes
<1>3. Storage!CStr(t) = t
  BY <1>1, <1>2, CStrWhole
<1>4. a \in Seq(Int) /\ Len(a) = Len(t) + 1 /\ (\A i \in 1 .. Len(t) : a[i] = t[i]) /\ a[Len(t) + 1] = 0
  BY <1>1, AppendFacts
<1>5. Storage!StrCopy(m, t) = Storage!Over(m, a)
  BY <1>3 DEF Storage!StrCopy
<1> HIDE DEF a
<1>6. /\ Storage!Over(m, a) \in Seq(Int) /\ Len(Storage!Over(m, a)) = BUF
      /\ \A i \in 1 .. BUF : Storage!Over(m, a)[i] = IF i <= Len(t) + 1 THEN a[i] ELSE m[i]
  BY <1>4, OverMemory
<1>7. \A i \in 1 .. Len(t) : i \in 1 .. BUF /\ i <= Len(t) + 1
  BY <1>1
<1>8. Len(t) + 1 \in 1 .. BUF /\ Len(t) + 1 <= Len(t) + 1
  BY <1>1
<1>9. (\A i \in 1 .. Len(t) : Storage!Over(m, a)[i] = t[i]) /\ Storage!Over(m, a)[Len(t) + 1] = 0
  BY <1>4, <1>6, <1>7, <1>8
<1> QED BY <1>5, <1>6, <1>9 DEF Carries

\* strcpy of an address none of whose bytes but the last may be zero: a zero at
\* the end is the terminator itself.
LEMMA CopyAddress ==
  ASSUME NEW m \in Seq(Int), Len(m) = BUF, NEW k \in Nat \ {0}, k < BUF,
         NEW b \in Seq(Int), Len(b) = k, \A i \in 1 .. k - 1 : b[i] # 0
  PROVE  SubSeq(Storage!StrCopy(m, b), 1, k) = b
<1> DEFINE a == Append(Storage!CStr(b), 0)
           c == Storage!Over(m, a)
<1>1. a \in Seq(Int) /\ Len(a) >= k /\ \A i \in 1 .. k : a[i] = b[i]
  <2>1. CASE b[k] # 0
    <3>1. \A i \in 1 .. Len(b) : b[i] # 0
      BY <2>1
    <3>2. Storage!CStr(b) = b
      BY <3>1, CStrWhole
    <3>3. Append(b, 0) \in Seq(Int) /\ Len(Append(b, 0)) = k + 1 /\ \A i \in 1 .. k : Append(b, 0)[i] = b[i]
      BY AppendFacts
    <3> QED BY <3>2, <3>3
  <2>2. CASE b[k] = 0
    <3> DEFINE d == SubSeq(b, 1, k - 1)
    <3>1. Storage!CStr(b) = d
      BY <2>2, CStrEnds, SMTT(40)
    <3>2. \A i \in 1 .. k - 1 : b[i] \in Int
      BY ElementOfSeq
    <3>3. 1 \in Int /\ k - 1 \in Int
      OBVIOUS
    <3>4. /\ d \in Seq(Int) /\ Len(d) = IF 1 <= k - 1 THEN (k - 1) - 1 + 1 ELSE 0
          /\ \A i \in 1 .. (k - 1) - 1 + 1 : d[i] = b[1 + i - 1]
      BY <3>2, <3>3, SubSeqProperties
    <3> HIDE DEF d
    <3>5. Len(d) = k - 1 /\ \A i \in 1 .. k - 1 : d[i] = b[i]
      BY <3>4
    <3>6. /\ Append(d, 0) \in Seq(Int) /\ Len(Append(d, 0)) = (k - 1) + 1
          /\ (\A i \in 1 .. k - 1 : Append(d, 0)[i] = d[i]) /\ Append(d, 0)[(k - 1) + 1] = 0
      BY <3>4, <3>5, AppendFacts
    <3>7. (k - 1) + 1 = k /\ \A i \in 1 .. k : i = k \/ i \in 1 .. k - 1
      OBVIOUS
    <3>8. \A i \in 1 .. k : Append(d, 0)[i] = b[i]
      <4> TAKE i \in 1 .. k
      <4>1. CASE i = k
        BY <2>2, <3>6, <3>7, <4>1
      <4>2. CASE i \in 1 .. k - 1
        BY <3>5, <3>6, <4>2
      <4> QED BY <3>7, <4>1, <4>2
    <3> QED BY <3>1, <3>6, <3>7, <3>8
  <2> QED BY <2>1, <2>2
<1>2. Storage!StrCopy(m, b) = c
  BY DEF Storage!StrCopy
<1> HIDE DEF a
<1>3. /\ c \in Seq(Int) /\ Len(c) = BUF
      /\ \A i \in 1 .. BUF : c[i] = IF i <= Len(a) THEN a[i] ELSE m[i]
  BY <1>1, OverMemory
<1> HIDE DEF c
<1>4. Len(a) \in Nat /\ BUF \in Nat
  BY <1>1, <1>3, LenProperties
<1>5. \A i \in 1 .. k : c[i] = b[i] /\ c[i] \in Int
  <2>1. \A i \in 1 .. k : i \in 1 .. BUF /\ i <= Len(a) /\ b[i] \in Int
    BY <1>1, <1>4, ElementOfSeq
  <2> QED BY <1>1, <1>3, <2>1
<1>6. 1 \in Int /\ k \in Int
  OBVIOUS
<1>7. /\ SubSeq(c, 1, k) \in Seq(Int) /\ Len(SubSeq(c, 1, k)) = IF 1 <= k THEN k - 1 + 1 ELSE 0
      /\ \A i \in 1 .. k - 1 + 1 : SubSeq(c, 1, k)[i] = c[1 + i - 1]
  BY <1>5, <1>6, SubSeqProperties
<1>8. Len(SubSeq(c, 1, k)) = k /\ \A i \in 1 .. k : SubSeq(c, 1, k)[i] = b[i]
  BY <1>5, <1>7
<1>9. SubSeq(c, 1, k) = b
  BY <1>7, <1>8, SeqEqual
<1> QED BY <1>2, <1>9

\* The bytes of a text that scans.
LEMMA ScannedBytes ==
  ASSUME NEW t \in DOMAIN Scan, Scan[t] # <<>>
  PROVE  Scan[t] \in Seq(Int) /\ Len(Scan[t]) = MAC_SIZE
<1>1. Scan[t] \in Seq(0 .. 255) /\ Len(Scan[t]) \in {0, MAC_SIZE}
  BY TestsAssumption DEF Storage!StorageAssumption
<1>2. 0 .. 255 \subseteq Int
  OBVIOUS
<1>3. Scan[t] \in Seq(Int)
  BY <1>1, <1>2, SeqMonotonic
<1> QED BY <1>1, <1>3, EmptySeq

\* The invariant of write_storage holds at the start,
LEMMA StorageInvInit ==
  ASSUME Storage!Init PROVE StorageInv
  BY DEF Storage!Init, StorageInv

\* Memory of zeros carries no text.
LEMMA ZerosCarry ==
  ASSUME BUF \in Nat \ {0} PROVE Carries(Storage!Zeros(BUF), <<>>)
<1>1. Storage!Zeros(BUF) \in [1 .. BUF -> Int] /\ Storage!Zeros(BUF)[1] = 0
  BY DEF Storage!Zeros
<1>2. Storage!Zeros(BUF) \in Seq(Int) /\ Len(Storage!Zeros(BUF)) = BUF
  BY <1>1, FunIsSeq
<1>3. <<>> \in Seq(1 .. 255) /\ Len(<<>>) = 0
  BY EmptySeq
<1>4. Len(<<>>) < BUF /\ Len(<<>>) + 1 = 1 /\ \A i \in 1 .. Len(<<>>) : FALSE
  BY <1>3
<1> QED BY <1>1, <1>2, <1>3, <1>4, Zenon DEF Carries

\* and a step of a run keeps it.
LEMMA StorageInvStep ==
  ASSUME StorageInv, Storage!Next PROVE StorageInv'
<1>1. /\ MAC_SIZE \in Nat \ {0} /\ BUF \in Nat \ {0} /\ MAC_SIZE < BUF
      /\ \A c \in Commands : c \in Seq(Storage!Options) /\ \A i \in 1 .. Len(c) : Fits(c[i].v)
      /\ <<>> \in DOMAIN Scan
  BY TestsAssumption DEF Storage!StorageAssumption, Fits
<1>2. ASSUME NEW c \in Commands, Storage!Start(c) PROVE StorageInv'
  <2>1. Carries(msg', value') /\ value' \in DOMAIN Scan
    BY <1>1, <1>2, ZerosCarry DEF Storage!Start
  <2>2. opts' \in Seq(Storage!Options) /\ \A i \in 1 .. Len(opts') : Fits(opts'[i].v)
    BY <1>1, <1>2 DEF Storage!Start
  <2>3. pc' = "parse" /\ err' = "0" /\ prop_rw' = -1 /\ store' = store /\ before' = store
    BY <1>2 DEF Storage!Start
  <2> QED BY <2>1, <2>2, <2>3 DEF StorageInv, Address
<1>3. CASE Storage!get_msg_form_server
  <2> DEFINE o == Head(opts)
  <2>1. pc = "parse" /\ opts # <<>> /\ store' = store /\ before' = before
    BY <1>3 DEF Storage!get_msg_form_server
  <2>2. /\ Carries(msg, value) /\ opts \in Seq(Storage!Options) /\ err = "0" /\ store = before
        /\ value \in DOMAIN Scan /\ \A i \in 1 .. Len(opts) : Fits(opts[i].v)
    BY <2>1 DEF StorageInv
  <2>3. o \in Storage!Options /\ Fits(o.v) /\ o.v \in Seq(1 .. 255)
    <3>1. o = opts[1] /\ o \in Storage!Options /\ 1 \in 1 .. Len(opts)
      BY <2>1, <2>2, TailFacts, LenProperties
    <3> HIDE DEF o
    <3> QED BY <2>2, <3>1 DEF Storage!Options
  <2>4. Tail(opts) \in Seq(Storage!Options) /\ \A i \in 1 .. Len(Tail(opts)) : Fits(Tail(opts)[i].v)
    <3>1. /\ Tail(opts) \in Seq(Storage!Options) /\ Len(opts) \in Nat /\ Len(Tail(opts)) = Len(opts) - 1
          /\ \A i \in 1 .. Len(opts) - 1 : Tail(opts)[i] = opts[i + 1]
      BY <2>1, <2>2, TailFacts, LenProperties
    <3>2. \A i \in 1 .. Len(opts) - 1 : i + 1 \in 1 .. Len(opts)
      BY <3>1
    <3> QED BY <2>2, <3>1, <3>2
  <2>5. CASE /\ index' \in Storage!Params /\ prop_rw' \in {0, 1}
             /\ opts' = Tail(opts) /\ UNCHANGED <<msg, value, err, pc>>
    BY <2>1, <2>2, <2>4, <2>5 DEF StorageInv
  <2>6. CASE /\ msg' = Storage!StrCopy(msg, o.v) /\ value' = o.v
             /\ opts' = Tail(opts) /\ UNCHANGED <<index, prop_rw, err, pc>>
    <3>1. Carries(msg', value') /\ value' \in DOMAIN Scan
      <4> HIDE DEF o
      <4>1. msg \in Seq(Int) /\ Len(msg) = BUF
        BY <2>2 DEF Carries
      <4>2. Carries(Storage!StrCopy(msg, o.v), o.v)
        BY <2>3, <4>1, CopyText, ZenonT(60) DEF Fits
      <4> QED BY <2>3, <2>6, <4>2, ZenonT(60) DEF Fits
    <3> QED BY <2>1, <2>2, <2>4, <2>6, <3>1 DEF StorageInv
  <2>7. CASE Storage!Fail("MSG_ERR") /\ UNCHANGED <<index, prop_rw, msg, value>>
    BY <2>1, <2>2, <2>7 DEF StorageInv, Storage!Fail
  <2>8. \/ /\ index' \in Storage!Params /\ prop_rw' \in {0, 1}
           /\ opts' = Tail(opts) /\ UNCHANGED <<msg, value, err, pc>>
        \/ /\ msg' = Storage!StrCopy(msg, o.v) /\ value' = o.v
           /\ opts' = Tail(opts) /\ UNCHANGED <<index, prop_rw, err, pc>>
        \/ Storage!Fail("MSG_ERR") /\ UNCHANGED <<index, prop_rw, msg, value>>
    <3>1. CASE o.o \in {"s", "g"} /\ o.p \in Storage!Params
      BY <1>3, <3>1 DEF Storage!get_msg_form_server
    <3>2. CASE ~(o.o \in {"s", "g"} /\ o.p \in Storage!Params) /\ o.o = "v" /\ prop_rw >= 0
      BY <1>3, <3>2 DEF Storage!get_msg_form_server
    <3>3. CASE ~(o.o \in {"s", "g"} /\ o.p \in Storage!Params) /\ ~(o.o = "v" /\ prop_rw >= 0)
      BY <1>3, <3>3 DEF Storage!get_msg_form_server
    <3> QED BY <3>1, <3>2, <3>3
  <2> QED BY <2>5, <2>6, <2>7, <2>8
<1>4. CASE Storage!Parsed
  <2>1. pc = "parse" /\ UNCHANGED <<index, prop_rw, store, before, value>>
    BY <1>4 DEF Storage!Parsed
  <2>2. Carries(msg, value) /\ value \in DOMAIN Scan /\ err = "0" /\ store = before /\ prop_rw \in -1 .. 1
    BY <2>1 DEF StorageInv
  <2>3. CASE Storage!Fail("MSG_ERR")
    BY <2>1, <2>2, <2>3 DEF StorageInv, Storage!Fail
  <2>4. CASE prop_rw = 0 /\ pc' = "read" /\ UNCHANGED err
    BY <2>1, <2>2, <2>4 DEF StorageInv, Address
  <2>5. CASE prop_rw = 1 /\ pc' = "write" /\ UNCHANGED err /\ (index \in Storage!Macs => Scan[Storage!CStr(msg)] # <<>>)
    <3>1. ASSUME Address' PROVE SubSeq(msg', 1, MAC_SIZE) = Scan[value']
      <4>1. index \in Storage!Macs /\ Whole(value) /\ value' = value
        BY <2>1, <3>1 DEF Address, Whole
      <4>2. Storage!CStr(msg) = value
        BY <2>2, CarriesText
      <4>3. msg' = Storage!StrCopy(msg, Scan[value])
        BY <1>4, <2>5, <4>1, <4>2 DEF Storage!Parsed, Storage!mac_addr_str_to_hex
      <4>4. Scan[value] \in Seq(Int) /\ Len(Scan[value]) = MAC_SIZE
        BY <2>2, <2>5, <4>1, <4>2, ScannedBytes
      <4>5. \A k \in 1 .. MAC_SIZE - 1 : Scan[value][k] # 0
        BY <4>1 DEF Whole
      <4>6. SubSeq(Storage!StrCopy(msg, Scan[value]), 1, MAC_SIZE) = Scan[value]
        BY <1>1, <2>2, <4>4, <4>5, CopyAddress DEF Carries
      <4> QED BY <4>1, <4>3, <4>6
    <3> QED BY <2>1, <2>2, <2>5, <3>1 DEF StorageInv
  <2>6. \/ Storage!Fail("MSG_ERR")
        \/ prop_rw = 0 /\ pc' = "read" /\ UNCHANGED err
        \/ prop_rw = 1 /\ pc' = "write" /\ UNCHANGED err /\ (index \in Storage!Macs => Scan[Storage!CStr(msg)] # <<>>)
    BY <1>4, <2>2 DEF Storage!Parsed
  <2> QED BY <2>3, <2>4, <2>5, <2>6
<1>5. CASE Storage!vendor_storage_write
  <2>1. pc = "write" /\ UNCHANGED <<index, prop_rw, value, before>>
    BY <1>5 DEF Storage!vendor_storage_write
  <2>2. prop_rw = 1 /\ index \in Storage!Params /\ err = "0" /\ store = before /\ DOMAIN store = Storage!Params
    BY <2>1 DEF StorageInv
  <2>3. CASE Storage!Fail("WRITE_VENDOR_ERR") /\ UNCHANGED store
    BY <2>1, <2>2, <2>3 DEF StorageInv, Storage!Fail
  <2>4. CASE /\ store' = [store EXCEPT ![index] = SubSeq(msg, 1, Storage!Size(index))]
             /\ pc' = "read" /\ UNCHANGED err
    <3>1. DOMAIN store' = Storage!Params /\ store'[index] = SubSeq(msg, 1, Storage!Size(index))
      BY <2>2, <2>4
    <3>2. index \in Storage!Macs => Storage!Size(index) = MAC_SIZE
      BY DEF Storage!Macs, Storage!Size
    <3>3. Address' => store'[index'] = Scan[value']
      <4> SUFFICES ASSUME Address' PROVE store'[index'] = Scan[value']
        OBVIOUS
      <4>1. Address /\ index \in Storage!Macs /\ index' = index /\ value' = value
        BY <2>1 DEF Address, Whole
      <4>2. SubSeq(msg, 1, MAC_SIZE) = Scan[value]
        BY <2>1, <4>1 DEF StorageInv
      <4> QED BY <3>1, <3>2, <4>1, <4>2
    <3> QED BY <2>1, <2>2, <2>4, <3>1, <3>3 DEF StorageInv
  <2> QED BY <1>5, <2>3, <2>4 DEF Storage!vendor_storage_write
<1>6. CASE Storage!vendor_storage_read \/ Storage!Show \/ Storage!Exit \/ Storage!Ended
  <2>1. /\ UNCHANGED <<index, prop_rw, value, before, store>>
        /\ \/ pc = "read" /\ pc' = "show" /\ err' = err
           \/ pc = "read" /\ pc' = "exit" /\ err' = "READ_VENDOR_ERR"
           \/ pc = "show" /\ pc' = "exit" /\ err' = err
           \/ pc = "exit" /\ pc' = "done" /\ err' = err
           \/ pc = "done" /\ pc' = "idle" /\ err' = err
    BY <1>6 DEF Storage!vendor_storage_read, Storage!Show, Storage!Exit, Storage!Ended, Storage!Fail
  <2>2. Address' = Address /\ Scan[value'] = Scan[value]
    BY <2>1 DEF Address, Whole
  <2> QED BY <2>1, <2>2 DEF StorageInv
<1>7. CASE Storage!Overrun
  <2>1. UNCHANGED <<index, prop_rw, store, before>> /\ pc = "parse" /\ pc' = "done" /\ err' = "CRASH"
    BY <1>7 DEF Storage!Overrun
  <2> QED BY <2>1 DEF StorageInv
<1> QED BY <1>2, <1>3, <1>4, <1>5, <1>6, <1>7 DEF Storage!Next

\* The invariant of write_storage, for every command line, size and signedness,
\* and whatever sscanf reads of a text.
THEOREM StorageSound == Spec => []StorageIsSound
<1>1. Init => StorageIsSound
  BY StorageInvInit DEF Init, StorageIsSound
<1>2. StorageIsSound /\ [Next]_vars => StorageIsSound'
  <2> SUFFICES ASSUME part' = "storage", StorageIsSound, [Next]_vars PROVE StorageInv'
    BY DEF StorageIsSound
  <2>1. CASE part = "storage" /\ Storage!Next
    BY <2>1, StorageInvStep DEF StorageIsSound
  <2>2. CASE part = "storage" /\ UNCHANGED <<storageVars, pc, err>>
    BY <2>2 DEF StorageIsSound, StorageInv, storageVars, Carries, Address, Whole, Fits
  <2> QED BY <2>1, <2>2 DEF Next, vars, OfRadio, OfBoard, OfManual, OfStorage, OfUsb
<1> QED BY <1>1, <1>2, PTL DEF Spec

\* A run of write_storage that reports a wrong message, or is ended by the int
\* stored past mac_hex, has changed nothing; and one that passes has stored an
\* address as sscanf read it, whatever that is, although strcpy carries it,
\* unless a byte before its last is zero (write_storage.c:115, :122, :204).
THEOREM AddressKept ==
  Spec => [](part = "storage" => Storage!BadMessageKeepsStore /\ Storage!AddressStored)
<1>1. StorageIsSound => (part = "storage" => Storage!BadMessageKeepsStore /\ Storage!AddressStored)
  BY DEF StorageIsSound, StorageInv, Address, Whole, Storage!Passed, Storage!BadMessageKeepsStore,
    Storage!AddressStored
<1> QED BY <1>1, StorageSound, PTL

=============================================================================
