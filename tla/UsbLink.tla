------------------------------ MODULE UsbLink -------------------------------
(***************************************************************************)
(* The USB link of the board to the PC that runs its tests:                *)
(* echo_uevent_detect.c takes the kernel's events from a netlink socket    *)
(* and, at each USB event, reads the state of the cable: with a PC it runs *)
(* ipconfig.sh, which sets the address of rndis0 and starts or restarts    *)
(* echo_discovery (echo_discovery.c); without one it sends the test        *)
(* programs a signal.  The PC looks for the board with datagrams, and has  *)
(* the server start tests.                                                 *)
(***************************************************************************)
EXTENDS Integers, Sequences

CONSTANTS
  QueueMax,   \* events the netlink socket holds (64 KiB of messages)
  MaxFaults   \* failing calls (bound)

\* What the constants are.
UsbAssumption == {QueueMax, MaxFaults} \subseteq Nat

Slots == {1, 2}   \* places for processes of echo_discovery, dying ones too (bound)
States == {"DISCONNECTED", "CONNECTED", "CONFIGURED"}

VARIABLES
  cable,     \* external: the state file of android_usb
  due,       \* external: the kernel has an event to send
  queue,     \* the netlink socket
  lost,      \* history: a USB event did not reach the detector
  misread,   \* history: the last reading of the state failed
  det,       \* echo_uevent_detect: recv, read, kill, or a line of ipconfig.sh
  acted,     \* history: what the last USB event led to
  hand,      \* external: the server has a START in hand, or a child that is no test yet
  tests,     \* external: a test program runs that was not sent the signal: none;
             \* one, started with the PC there; a stray one, started without
  addr,      \* rndis0 has an address
  disc,      \* the processes of echo_discovery
  faults

detVars == <<queue, lost, misread, det, acted>>
testVars == <<hand, tests>>
vars == <<cable, due, detVars, testVars, addr, disc, faults>>

\* PcbaTestLunch.sh enables the gadget before it starts the detector, which
\* therefore may have missed the event of a cable that is configured by now.
Init ==
  /\ cable \in States /\ due \in BOOLEAN
  /\ queue = <<>> /\ misread = FALSE /\ det = "recv" /\ acted = "none"
  /\ lost = (cable = "CONFIGURED" /\ ~due)
  /\ hand = FALSE /\ tests = "none" /\ addr = FALSE
  /\ disc = [s \in Slots |-> "none"]
  /\ faults = 0

Fault == faults < MaxFaults /\ faults' = faults + 1

-----------------------------------------------------------------------------
\* The cable: plugged in, CONNECTED and then CONFIGURED by the PC; or pulled
\* out.  The state changes first, the event follows when the kernel's work
\* runs, one for all the changes before it.
Cable(new) ==
  /\ \/ new = "CONNECTED" /\ cable = "DISCONNECTED"
     \/ new = "CONFIGURED" /\ cable = "CONNECTED"
     \/ new = "DISCONNECTED" /\ cable # "DISCONNECTED"
  /\ cable' = new /\ due' = TRUE
  /\ UNCHANGED <<detVars, testVars, addr, disc, faults>>

\* An event into the socket; a full socket loses it.
KernelSends ==
  /\ due /\ due' = FALSE
  /\ IF Len(queue) < QueueMax
       THEN queue' = Append(queue, "usb") /\ UNCHANGED lost
       ELSE lost' = TRUE /\ UNCHANGED queue
  /\ UNCHANGED <<cable, misread, det, acted, testVars, addr, disc, faults>>

\* Another device's event, or one of 1024 bytes and more, if there is room.
OtherEvent ==
  /\ Len(queue) < QueueMax
  /\ queue' = Append(queue, "other")
  /\ UNCHANGED <<cable, due, lost, misread, det, acted, testVars, addr, disc, faults>>

\* The server receives a START from a PC that sees the board configured.
Command ==
  /\ cable = "CONFIGURED" /\ addr /\ ~hand
  /\ hand' = TRUE
  /\ UNCHANGED <<cable, due, detVars, tests, addr, disc, faults>>

\* Its child becomes the test program, whatever has become of the cable.
StartTest ==
  /\ hand /\ hand' = FALSE
  /\ tests' = IF cable = "CONFIGURED" THEN "one" ELSE "stray"
  /\ UNCHANGED <<cable, due, detVars, addr, disc, faults>>

\* A test ends by itself.
TestEnds ==
  /\ tests # "none" /\ tests' = "none"
  /\ UNCHANGED <<cable, due, detVars, hand, addr, disc, faults>>

-----------------------------------------------------------------------------
\* recv and parse_event: a message that fills the buffer is discarded, an
\* event of another subsystem ignored.
Receive ==
  /\ det = "recv" /\ queue # <<>>
  /\ queue' = Tail(queue)
  /\ det' = IF Head(queue) = "usb" THEN "read" ELSE "recv"
  /\ UNCHANGED <<cable, due, lost, misread, acted, testVars, addr, disc, faults>>

\* Mutant of usb_state_get: CONNECTED is taken for CONFIGURED.
usb_state_getPrefix ==
  /\ det = "read"
  /\ misread' = FALSE /\ det' = IF cable # "DISCONNECTED" THEN "ifconfig" ELSE "kill"
  /\ UNCHANGED <<cable, due, queue, lost, acted, testVars, addr, disc, faults>>

\* The state as it is now, not as it was when the event was sent.  popen may
\* fail (-1, not connected) and fgets may read nothing, which leaves buf as it was.
usb_state_get ==
  /\ det = "read"
  /\ \/ /\ misread' = FALSE /\ UNCHANGED faults
        /\ det' = IF cable = "CONFIGURED" THEN "ifconfig" ELSE "kill"
     \/ Fault /\ misread' = TRUE /\ det' \in {"ifconfig", "kill"}
  /\ UNCHANGED <<cable, due, queue, lost, acted, testVars, addr, disc>>

\* kill `ps | grep echo.*test | ...`: a signal to each test that ps lists, the
\* server and its children that are no test yet excepted.
KillTests ==
  /\ det = "kill"
  /\ tests' = "none" /\ acted' = "kill" /\ det' = "recv"
  /\ UNCHANGED <<cable, due, queue, lost, misread, hand, addr, disc, faults>>

\* ipconfig.sh: ifconfig rndis0, which may fail; then the route and dnsmasq,
\* which nothing here looks at.
Ifconfig ==
  /\ det = "ifconfig"
  /\ \/ addr' = TRUE /\ UNCHANGED faults
     \/ Fault /\ UNCHANGED addr
  /\ det' = "look"
  /\ UNCHANGED <<cable, due, queue, lost, misread, acted, testVars, disc>>

\* The processes that ps and killall know as echo_discovery: not the child of a
\* script that has not executed it yet.
Named(s) == disc[s] \notin {"none", "forked"}

\* ps: is there one?
Look ==
  /\ det = "look"
  /\ det' = IF \E s \in Slots : Named(s) THEN "killall" ELSE "start"
  /\ UNCHANGED <<cable, due, queue, lost, misread, acted, testVars, addr, disc, faults>>

\* killall sends the signal and does not wait.
Killall ==
  /\ det = "killall"
  /\ disc' = [s \in Slots |-> IF Named(s) THEN "dying" ELSE disc[s]]
  /\ det' = "start"
  /\ UNCHANGED <<cable, due, queue, lost, misread, acted, testVars, addr, faults>>

\* echo_discovery &, in either branch.
StartDiscovery(s) ==
  /\ det = "start" /\ disc[s] = "none"
  /\ disc' = [disc EXCEPT ![s] = "forked"]
  /\ det' = "recv" /\ acted' = "configure"
  /\ UNCHANGED <<cable, due, queue, lost, misread, testVars, addr, faults>>

-----------------------------------------------------------------------------
\* A step of process s from one place to another.
Goes(s, from, to) ==
  /\ disc[s] = from /\ disc' = [disc EXCEPT ![s] = to]
  /\ UNCHANGED <<cable, due, detVars, testVars, addr>>

\* The child of the script executes the program; a process that was signalled
\* ends.
Executes(s) == Goes(s, "forked", "socket") /\ UNCHANGED faults
Dies(s) == Goes(s, "dying", "none") /\ UNCHANGED faults

\* broadcast_service: wait for the address and the MAC of rndis0, asking once
\* a second; then bind, with SO_REUSEADDR, so that a dying service is not in
\* the way.  A failing socket call ends the service.
Bind(s) ==
  /\ addr
  /\ \/ Goes(s, "socket", "listen") /\ UNCHANGED faults
     \/ Goes(s, "socket", "none") /\ Fault

\* recvfrom and sendto: a datagram that is lost, that is not CMD_DISCOVER or that
\* is answered, with the serial number or an empty one, leaves the service where
\* it is; an answer that cannot be sent ends it.
Answer(s) == cable = "CONFIGURED" /\ Goes(s, "listen", "none") /\ Fault

Detector ==
  \/ Receive \/ usb_state_get \/ KillTests \/ Ifconfig \/ Look \/ Killall
  \/ \E s \in Slots : StartDiscovery(s)

Service(s) == Executes(s) \/ Dies(s) \/ Bind(s)

Next ==
  \/ \E c \in States : Cable(c)
  \/ KernelSends \/ OtherEvent
  \/ Command \/ StartTest \/ TestEnds
  \/ Detector
  \/ \E s \in Slots : Service(s) \/ Answer(s)

Spec == Init /\ [][Next]_vars

-----------------------------------------------------------------------------
\* The types.
TypeOK ==
  /\ cable \in States /\ due \in BOOLEAN
  /\ queue \in Seq({"usb", "other"}) /\ Len(queue) <= QueueMax
  /\ lost \in BOOLEAN /\ misread \in BOOLEAN
  /\ det \in {"recv", "read", "kill", "ifconfig", "look", "killall", "start"}
  /\ acted \in {"none", "kill", "configure"}
  /\ hand \in BOOLEAN /\ tests \in {"none", "one", "stray"}
  /\ addr \in BOOLEAN
  /\ disc \in [Slots -> {"none", "forked", "socket", "listen", "dying"}]

Caught == ~due /\ queue = <<>> /\ det = "recv" /\ ~lost /\ ~misread

\* The detector acts on the state it reads when it comes to an event, which
\* may be later than the event: once it has caught up and no event was lost,
\* its last action is nevertheless the one for the cable as it is.
CaughtUpIsRight == Caught => ((acted = "configure") <=> (cable = "CONFIGURED"))

\* With the cable unplugged and the detector caught up every test that runs has
\* been sent the signal, even one that was started while earlier events were
\* waiting; except one started from a command that the server still had in hand.
NoTestUnplugged == (Caught /\ cable # "CONFIGURED") => tests # "one"

\* A service answers the PC.
Listening == \E s \in Slots : disc[s] = "listen"
=============================================================================
