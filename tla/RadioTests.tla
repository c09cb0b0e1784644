----------------------------- MODULE RadioTests -----------------------------
(***************************************************************************)
(* The Bluetooth and the WLAN test program of the PCBA tests,              *)
(* echo_bt_test.c and echo_wlan_test.c.  Each restarts the daemon of its   *)
(* radio, looks at what the radio does and prints one result line.  The    *)
(* server may start them again and may end them at any point, and the      *)
(* daemons outlive a program that is ended.  A command or file that fails  *)
(* is a choice at each step that uses one.                                 *)
(***************************************************************************)
EXTENDS Integers, FiniteSets

CONSTANTS
  MaxRuns,  \* program runs (bound)
  Old       \* daemons of each radio that run before the first test, 0 or 1

\* What the constants are.
RadioAssumption == MaxRuns \in Nat /\ Old \in 0 .. 1

PERIOD_TIME == 3
BT_TIMEOUT_FIRMWARE == 30

VARIABLES
  prog,      \* the program that runs or ran last: "bt", "wlan" or "none"
  pc,        \* the function it is in, "idle" once it is gone, "printed"
  line,      \* the result it printed
  time_out,  \* in confirm_firmware_test
  loaders,   \* running brcm_patchram_plus1 processes
  wpas,      \* running wpa_supplicant processes
  addr,      \* hci0 has an address: the firmware is loaded
  missed,    \* history: runs of close_brcm that ended another process
  hciUp, wlanUp, softap,
  logged,    \* history: the kernel log has had a line of a broadcast SSID
  facts,     \* history: what this run has seen
  nruns

btVars == <<time_out, loaders, missed, addr, hciUp>>
wlanVars == <<wpas, wlanUp, softap, logged>>
runVars == <<prog, line, nruns>>
vars == <<runVars, pc, btVars, wlanVars, facts>>

Init ==
  /\ prog = "none" /\ pc = "idle" /\ line = "none"
  /\ time_out = 0
  /\ loaders = Old /\ wpas = Old
  /\ addr \in {FALSE, Old = 1} /\ hciUp = FALSE
  /\ missed = 0 /\ wlanUp = FALSE /\ softap = FALSE /\ logged \in BOOLEAN
  /\ facts = {} /\ nruns = 0

Start(p) ==
  /\ pc \in {"idle", "printed"} /\ nruns < MaxRuns
  /\ prog' = p
  /\ pc' = IF p = "bt" THEN "init_rfkill" ELSE "close_wpa_supplicant"
  /\ line' = "none"
  /\ time_out' = 0 /\ facts' = {}
  /\ nruns' = nruns + 1
  /\ UNCHANGED <<loaders, missed, addr, hciUp, wlanVars>>

\* The server's killall or the USB watcher ends the program; neither
\* installs a handler.  The access point may be up in wlan_test_ap.
Killed ==
  /\ pc \notin {"idle", "printed"}
  /\ pc' = "idle"
  /\ softap' \in (IF pc = "wlan_test_ap" THEN BOOLEAN ELSE {softap})
  /\ UNCHANGED <<runVars, btVars, wpas, wlanUp, logged, facts>>

Goto(here, there) == pc = here /\ pc' = there

Sees(f) == facts' = facts \cup {f}

-----------------------------------------------------------------------------
\* The Bluetooth chips get_chip_type knows, with the families it maps them to.
ChipFamily ==
  [rk903 |-> "RK903", mt6622 |-> "MT5931", rda587x |-> "RDA587x", rda5990 |-> "RDA5990",
   rtk8723as |-> "RTK8723AS", rtk8723bs |-> "RTK8723BS", rtk8723au |-> "RTK8723AU",
   rtk8723bu |-> "RTK8723BU", bk3515 |-> "BK3515", sofia3gr |-> "SOFIA_3GR",
   ap6210 |-> "RK903", ap6335 |-> "RK903", ap6476 |-> "RK903", ap6493 |-> "RK903"]

Chips == DOMAIN ChipFamily \cup {"ap6255"}

get_chip_type(name) ==
  IF name \in DOMAIN ChipFamily THEN ChipFamily[name] ELSE "BT_UNKNOWN"

\* The fail label of bt_test and wlan_test: ret decides the line.
Fails(here, ret) ==
  /\ pc = here
  /\ pc' = "end"
  /\ line' = IF ret < 0 THEN "FAIL" ELSE "PASS"

\* rfkill entries are tried until one is of type bluetooth or none is left.
init_rfkill ==
  /\ \/ Goto("init_rfkill", "bt_get_chip_name") /\ UNCHANGED line
     \/ Fails("init_rfkill", -1)
  /\ UNCHANGED <<prog, nruns, btVars, wlanVars, facts>>

\* A chip that is not supported fails with ret still 0, as
\* bt_get_chip_name left it.
bt_get_chip_name ==
  /\ \/ /\ \E name \in Chips : get_chip_type(name) # "BT_UNKNOWN"
        /\ Goto("bt_get_chip_name", "close_brcm") /\ UNCHANGED <<line, facts>>
     \/ /\ \E name \in Chips : get_chip_type(name) = "BT_UNKNOWN"
        /\ Fails("bt_get_chip_name", 0) /\ Sees("skipped")
     \/ Fails("bt_get_chip_name", -1) /\ UNCHANGED facts
  /\ UNCHANGED <<prog, nruns, btVars, wlanVars>>

\* close_brcm_pathcram_plus1 kills the first process whose ps line names the
\* loader: the oldest loader, unless the shell of the pipe itself has a lower
\* number, and is gone when kill comes to it.
close_brcm ==
  /\ \/ /\ Goto("close_brcm", "bt_test_bluez")
        /\ \/ /\ loaders' = IF loaders = 0 THEN 0 ELSE loaders - 1
              /\ addr' = FALSE /\ hciUp' = FALSE /\ UNCHANGED missed
           \/ missed' = missed + 1 /\ UNCHANGED <<loaders, addr, hciUp>>
        /\ UNCHANGED line
     \/ Fails("close_brcm", -1) /\ UNCHANGED <<loaders, missed, addr, hciUp>>
  /\ UNCHANGED <<prog, nruns, time_out, wlanVars, facts>>

\* Power off, power on, and a loader in the background.
bt_test_bluez ==
  /\ Goto("bt_test_bluez", "confirm")
  /\ loaders' = loaders + 1
  /\ addr' = FALSE /\ hciUp' = FALSE
  /\ UNCHANGED <<runVars, time_out, missed, wlanVars, facts>>

\* The loader succeeds.
FirmwareLoads ==
  /\ loaders > 0 /\ ~addr
  /\ addr' = TRUE
  /\ UNCHANGED <<runVars, pc, time_out, loaders, missed, hciUp, wlanVars, facts>>

\* get_bdaddr_test: hciconfig shows an address other than 00:00:00:00:00:00;
\* it may fail although there is one.
SeesAddress == addr /\ Sees("address")

\* Mutant of confirm_firmware_test: the waiting time is not counted.
confirm_firmware_testForever ==
  /\ pc = "confirm"
  /\ \/ SeesAddress /\ pc' = "activate"
     \/ UNCHANGED <<facts, pc>>
  /\ UNCHANGED <<runVars, btVars, wlanVars>>

\* A round of confirm_firmware_test, or its end after the last.
confirm_firmware_test ==
  /\ pc = "confirm"
  /\ \/ /\ time_out < BT_TIMEOUT_FIRMWARE
        /\ \/ SeesAddress /\ pc' = "activate" /\ UNCHANGED time_out
           \/ /\ time_out' = time_out + PERIOD_TIME
              /\ UNCHANGED <<facts, pc>>
        /\ UNCHANGED line
     \/ /\ time_out >= BT_TIMEOUT_FIRMWARE
        /\ IF time_out > BT_TIMEOUT_FIRMWARE
             THEN Fails("confirm", -1)
             ELSE Goto("confirm", "activate") /\ UNCHANGED line
        /\ UNCHANGED <<time_out, facts>>
  /\ UNCHANGED <<prog, nruns, loaders, missed, addr, hciUp, wlanVars>>

\* Mutant of activate_bt_test: the answer of hcitool is not looked at.
activate_bt_testBlind ==
  /\ Goto("activate", "end")
  /\ line' = "PASS"
  /\ hciUp' = addr
  /\ UNCHANGED <<prog, nruns, time_out, loaders, missed, addr, wlanVars, facts>>

\* hciconfig hci0 up, which needs the firmware; hcitool lists the interface.
activate_bt_test ==
  /\ hciUp' = (hciUp \/ addr)
  /\ \/ /\ hciUp' /\ Sees("active")
        /\ Goto("activate", "end")
        /\ line' = "PASS"
     \/ Fails("activate", -1) /\ UNCHANGED facts
  /\ UNCHANGED <<prog, nruns, time_out, loaders, missed, addr, wlanVars>>

-----------------------------------------------------------------------------
\* close_wpa_supplicant, whose failure is ignored; the driver is reloaded,
\* the interface brought up and a supplicant started.
close_wpa_supplicant ==
  /\ Goto("close_wpa_supplicant", "wlan_exec")
  /\ wpas' \in {wpas + 1, IF wpas = 0 THEN 1 ELSE wpas}
  /\ wlanUp' = TRUE
  /\ UNCHANGED <<runVars, softap, logged, btVars, facts>>

PlausibleLevel(l) == l >= -200 /\ l < 0

\* wlan_exec reads the levels of the scan.  Without a network the level tested
\* is whatever the stack holds, and may pass; popen fails as if there were none.
wlan_exec(levels) ==
  /\ \/ /\ \A l \in levels : PlausibleLevel(l)
        /\ Goto("wlan_exec", "wlan_test_ap")
        /\ facts' = facts \cup {IF levels = {} THEN "unheard" ELSE "levels"}
                          \cup (IF 0 \in levels THEN {"nought"} ELSE {})
        /\ UNCHANGED line
     \/ /\ levels = {} \/ \E l \in levels : ~PlausibleLevel(l)
        /\ Fails("wlan_exec", -1) /\ UNCHANGED facts
  /\ UNCHANGED <<prog, nruns, btVars, wlanVars>>

\* wlan_test_ap: the chip offers AP mode, softapDemo runs, the last lines of the
\* kernel log say whether an SSID is broadcast, by this run or an earlier one;
\* softapDemo is stopped unless the log could not be read.
wlan_test_ap ==
  /\ \/ /\ Fails("wlan_test_ap", -1)  \* no list, no AP mode
        /\ UNCHANGED <<softap, logged>>
     \/ /\ Fails("wlan_test_ap", -1)  \* no log
        /\ softap' \in BOOLEAN /\ logged' \in {logged, TRUE}
     \/ /\ Fails("wlan_test_ap", -1)  \* no such line among the last
        /\ softap' = FALSE /\ logged' \in {logged, TRUE}
     \/ /\ Goto("wlan_test_ap", "end")
        /\ line' = "PASS"
        /\ softap' = FALSE
        /\ logged' = TRUE
  /\ UNCHANGED <<prog, nruns, wpas, wlanUp, btVars, facts>>

-----------------------------------------------------------------------------
\* The end of bt_test kills every loader; the end of wlan_test takes the
\* interface down and runs "kill all wpa_supplicant", which names no process.
End ==
  /\ Goto("end", "printed")
  /\ IF prog = "bt"
       THEN /\ loaders' = 0 /\ addr' = FALSE /\ hciUp' = FALSE
            /\ UNCHANGED wlanUp
       ELSE /\ wlanUp' = FALSE
            /\ UNCHANGED <<loaders, addr, hciUp>>
  /\ UNCHANGED <<runVars, time_out, missed, wpas, softap, logged, facts>>

Step ==
  \/ init_rfkill \/ bt_get_chip_name \/ close_brcm \/ bt_test_bluez
  \/ confirm_firmware_test \/ activate_bt_test
  \/ close_wpa_supplicant \/ wlan_test_ap
  \/ \E levels \in SUBSET {-201, -60, 0} : wlan_exec(levels)
  \/ End

Next == \/ \E p \in {"bt", "wlan"} : Start(p)
        \/ Killed \/ FirmwareLoads \/ Step

Spec == Init /\ [][Next]_vars

-----------------------------------------------------------------------------
\* The types; after each test at most one loader and one supplicant more
\* than its radio had.
TypeOK ==
  /\ prog \in {"none", "bt", "wlan"}
  /\ pc \in {"idle", "printed", "end", "init_rfkill", "bt_get_chip_name", "close_brcm",
             "bt_test_bluez", "confirm", "activate", "close_wpa_supplicant", "wlan_exec",
             "wlan_test_ap"}
  /\ line \in {"none", "PASS", "FAIL"}
  /\ time_out \in 0 .. BT_TIMEOUT_FIRMWARE
  /\ loaders \in Nat /\ missed \in Nat /\ wpas \in 0 .. Old + MaxRuns /\ logged \in BOOLEAN
  /\ addr \in BOOLEAN /\ hciUp \in BOOLEAN /\ wlanUp \in BOOLEAN /\ softap \in BOOLEAN
  /\ facts \subseteq {"skipped", "address", "active", "levels", "nought", "unheard"}
  /\ nruns \in 0 .. MaxRuns

\* However often a Bluetooth test is ended before it cleans up, there are never
\* two loaders, which would fight over the serial line, unless close_brcm hit
\* another process: the next test kills the one that was left before it starts
\* its own, and each miss adds one at most.
OneLoader == loaders <= 1 + missed

\* PASS of the Bluetooth test means an interface that came up, or a chip that is
\* not tested.  PASS of the WLAN test means that every level read was a level,
\* or that none was read and the stack held one; and that the kernel log has had
\* a line of a broadcast access point, though not that this run put it there.
PassIsEarned ==
  line = "PASS" =>
    IF prog = "bt" THEN "active" \in facts \/ "skipped" \in facts
    ELSE /\ "levels" \in facts \/ "unheard" \in facts
         /\ logged /\ "nought" \notin facts

\* A Bluetooth test that was not ended leaves no loader behind.  A WLAN test
\* that was not ended leaves the interface down, and no access point if it
\* passed; its supplicant is left running.
RadiosLeftQuiet ==
  pc = "printed" => IF prog = "bt" THEN loaders = 0 /\ ~hciUp
                    ELSE ~wlanUp /\ (line = "PASS" => ~softap)
=============================================================================
