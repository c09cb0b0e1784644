---------------------------- MODULE ManualTests -----------------------------
(***************************************************************************)
(* The PCBA test programs a person takes part in: keys (echo_key_test.c),  *)
(* rotary knob (echo_rotary_test.c), LEDs (echo_led_test.c), and sound     *)
(* played and recorded (echo_audio_play_test.c, echo_audio_record_test.c,  *)
(* echo_audio_test.c).  The server ends them with SIGTERM, which may come  *)
(* at any instruction; four of them install a handler.  arecord runs as a  *)
(* child of system() and outlives a program that is ended.                 *)
(***************************************************************************)
EXTENDS Integers, Sequences

CONSTANTS
  LED_NUM,   \* LEDs, 36 in echo_led_test.c, every third of one colour
  PASSES     \* passes of a looping test before MANUAL_TEST_TIMEOUT is over

\* What the constants are.
ManualAssumption == LED_NUM \in Nat /\ PASSES \in Nat \ {0}

VARIABLES
  prog, pc,
  result,    \* the static result of key and rotary, the local one of the others
  err,       \* err_code
  lines,     \* history: result lines printed
  moved,     \* clockwise and anticlockwise seen, or the key released
  busy,      \* external: the input device keeps select from timing out
  pass,      \* passes done
  phase, n,  \* led_test: colour phase and led_num
  lit,       \* LEDs that are on
  broken,    \* history: the LEDs the last write of which failed or was left out
  rec,       \* arecord: not running, started, recording
  file,      \* the recording exists
  late,      \* history: the signal came before arecord had opened its file
  signalled

ledVars == <<phase, n, lit, broken>>
recVars == <<rec, file, late>>
vars == <<prog, pc, result, err, lines, moved, busy, pass, ledVars, recVars, signalled>>

Leds == 1 .. LED_NUM
Input == {"key", "rotary"}
Handled == Input \cup {"led", "record"}

\* A program that has installed its handler, the first thing main does; LEDs
\* may be lit from before.
Init ==
  /\ prog \in Input \cup {"led", "play", "record", "audio"}
  /\ pc = IF prog \in Input THEN "open" ELSE prog
  /\ result = IF prog \in Input THEN "FAIL" ELSE IF prog = "play" THEN "VERIFY" ELSE "PASS"
  /\ err = "0" /\ lines = <<>> /\ moved = {} /\ busy \in BOOLEAN /\ (prog \notin Input => ~busy) /\ pass = 0
  /\ phase = 1 /\ n = 1 /\ lit \in SUBSET Leds /\ (prog # "led" => lit = {}) /\ broken = {}
  /\ rec = "none" /\ file = FALSE /\ late = FALSE
  /\ signalled = FALSE

-----------------------------------------------------------------------------
\* main of key and rotary opens the event device.
OpenDevice ==
  /\ pc = "open"
  /\ \/ pc' = "wait" /\ UNCHANGED err
     \/ pc' = "exit" /\ err' = "OPEN_FAIL"
  /\ UNCHANGED <<prog, result, lines, moved, busy, pass, ledVars, recVars, signalled>>

\* select fails or times out.
WaitFails ==
  /\ pc = "wait"
  /\ err' = "EVENT_TIMEOUT" /\ pc' = "exit"
  /\ UNCHANGED <<prog, result, lines, moved, busy, pass, ledVars, recVars, signalled>>

TimesOut == ~busy /\ WaitFails

\* Events of type 0, keys that go down, reads that fail: each lets the loop wait
\* again with its whole timeout, and a device whose reads go on failing keeps
\* it there.
OtherEvent ==
  /\ pc = "wait"
  /\ busy' = ~busy
  /\ UNCHANGED <<prog, pc, result, err, lines, moved, pass, ledVars, recVars, signalled>>

\* A key comes up.
KeyReleased ==
  /\ pc = "wait" /\ prog = "key"
  /\ moved' = {"up"}
  /\ result' = "VERIFY" /\ pc' = "exit"
  /\ UNCHANGED <<prog, err, lines, busy, pass, ledVars, recVars, signalled>>

\* The knob is turned; both directions end the wait.
Turned(d) ==
  /\ pc = "wait" /\ prog = "rotary" /\ d \notin moved
  /\ moved' = moved \cup {d}
  /\ pc' = IF moved' = {"cw", "ccw"} THEN "exit" ELSE "wait"
  /\ UNCHANGED <<prog, result, err, lines, busy, pass, ledVars, recVars, signalled>>

\* EXIT of key and rotary: without an error the result is VERIFY.
ExitVerify ==
  /\ pc = "exit"
  /\ result' = IF err = "0" THEN "VERIFY" ELSE result
  /\ pc' = "send"
  /\ UNCHANGED <<prog, err, lines, moved, busy, pass, ledVars, recVars, signalled>>

\* send_msg_to_server by main, which then returns; the looping tests turn
\* their result into FAIL first.
Send ==
  /\ pc = "send"
  /\ result' = IF prog \notin Input /\ err # "0" THEN "FAIL" ELSE result
  /\ lines' = Append(lines, result')
  /\ pc' = "return"
  /\ UNCHANGED <<prog, err, moved, busy, pass, ledVars, recVars, signalled>>

Return ==
  /\ pc = "return"
  /\ pc' = "gone"
  /\ UNCHANGED <<prog, result, err, lines, moved, busy, pass, ledVars, recVars, signalled>>

-----------------------------------------------------------------------------
\* delay_t > MANUAL_TEST_TIMEOUT after the pass.
TimeIsUp(p) == p >= PASSES

\* The end of a pass of a looping test.
PassDone(name) ==
  /\ pass' = IF TimeIsUp(pass + 1) THEN pass ELSE pass + 1
  /\ IF TimeIsUp(pass + 1)
       THEN err' = "TIMEOUT" /\ pc' = "send"
       ELSE pc' = name /\ UNCHANGED err

\* The phase an LED shines in: led_num % 3 is LED_BLUE = 0, LED_GREEN = 1 or
\* LED_RED = 2; the phases are red, green, blue.
Colour(i) == CASE i % 3 = 2 -> 1 [] i % 3 = 1 -> 2 [] OTHER -> 3

\* Is LED i to be lit in the phase?  Phase 4 is white, phase 5 dark.
Shines(i, p) == p = 4 \/ p = Colour(i)

\* write_int, to the LED n: done; left out, for a read of no bytes compares equal
\* to every value; or failed.
Writes(on) == lit' = (IF on THEN lit \cup {n} ELSE lit \ {n}) /\ broken' = broken \ {n}
LeftOut == lit' = lit /\ broken' = broken \cup {n}

\* A write of led_test; a failed one ends the test with the LEDs as they are.
led_test ==
  /\ pc = "led" /\ n <= LED_NUM
  /\ \/ /\ Writes(Shines(n, phase)) \/ LeftOut
        /\ n' = n + 1 /\ UNCHANGED <<pc, err>>
     \/ /\ broken' = Leds /\ err' = "LED_PROC_ERR" /\ pc' = "send"
        /\ UNCHANGED <<lit, n>>
  /\ UNCHANGED <<prog, result, lines, moved, busy, pass, phase, recVars, signalled>>

\* The phase ends with a second's sleep.
NextPhase ==
  /\ pc = "led" /\ n > LED_NUM
  /\ n' = 1
  /\ IF phase < 5
       THEN phase' = phase + 1 /\ UNCHANGED <<pass, err, pc>>
       ELSE phase' = 1 /\ PassDone("led")
  /\ UNCHANGED <<prog, result, lines, moved, busy, lit, broken, recVars, signalled>>

\* A pass of the playing test.
audio_play_test ==
  /\ pc = "play"
  /\ PassDone("play")
  /\ UNCHANGED <<prog, result, lines, moved, busy, ledVars, recVars, signalled>>

\* A pass of a recording test: system(arecord), wait for its end, play, and
\* in audio_record_test remove the recording; audio_test only builds the
\* command that would.
StartRecord ==
  /\ pc \in {"record", "audio"}
  /\ rec' = "started"
  /\ pc' = "recording"
  /\ UNCHANGED <<prog, result, err, lines, moved, busy, pass, ledVars, file, late, signalled>>

RecordEnds ==
  /\ pc = "recording" /\ rec = "none"
  /\ IF prog = "record" THEN file' = FALSE ELSE UNCHANGED file
  /\ PassDone(prog)
  /\ UNCHANGED <<prog, result, lines, moved, busy, ledVars, rec, late, signalled>>

\* The child arecord opens its file and ends, whatever its parent does.
Arecord ==
  /\ \/ rec = "started" /\ rec' = "recording" /\ file' = TRUE
     \/ rec = "started" /\ rec' = "none" /\ UNCHANGED file
     \/ rec = "recording" /\ rec' = "none" /\ UNCHANGED file
  /\ UNCHANGED <<prog, pc, result, err, lines, moved, busy, pass, ledVars, late, signalled>>

-----------------------------------------------------------------------------
\* SIGTERM: a program without a handler ends; a handler never returns.
SigTerm ==
  /\ ~signalled /\ pc # "gone"
  /\ signalled' = TRUE
  /\ late' = (rec = "started")
  /\ pc' = IF prog \in Handled THEN "handler" ELSE "gone"
  /\ n' = 1
  /\ UNCHANGED <<prog, result, err, lines, moved, busy, pass, phase, lit, broken, rec, file>>

\* key_result_send, rotary_result_send.
result_send ==
  /\ pc = "handler" /\ prog \in Input
  /\ lines' = Append(lines, result)
  /\ pc' = "gone"
  /\ UNCHANGED <<prog, result, err, moved, busy, pass, ledVars, recVars, signalled>>

\* Mutant of leds_all_off: the last LED is forgotten.
leds_all_offShort ==
  /\ pc = "handler" /\ prog = "led"
  /\ IF n < LED_NUM THEN lit' = lit \ {n} /\ n' = n + 1 /\ UNCHANGED pc
     ELSE pc' = "gone" /\ UNCHANGED <<lit, n>>
  /\ UNCHANGED <<prog, result, err, lines, moved, busy, pass, phase, broken, recVars, signalled>>

leds_all_off ==
  /\ pc = "handler" /\ prog = "led"
  /\ \/ n <= LED_NUM /\ (Writes(FALSE) \/ LeftOut) /\ n' = n + 1 /\ UNCHANGED pc
     \/ n <= LED_NUM /\ broken' = broken \cup n .. LED_NUM /\ pc' = "gone" /\ UNCHANGED <<lit, n>>
     \/ n > LED_NUM /\ pc' = "gone" /\ UNCHANGED <<lit, n, broken>>
  /\ UNCHANGED <<prog, result, err, lines, moved, busy, pass, phase, recVars, signalled>>

del_record_pcm ==
  /\ pc = "handler" /\ prog = "record"
  /\ file' = FALSE
  /\ pc' = "gone"
  /\ UNCHANGED <<prog, result, err, lines, moved, busy, pass, ledVars, rec, late, signalled>>

\* What the program does by itself, and what a person or the device does.
Step ==
  \/ OpenDevice \/ TimesOut
  \/ ExitVerify \/ Send \/ Return
  \/ led_test \/ NextPhase \/ audio_play_test \/ StartRecord \/ RecordEnds
  \/ result_send \/ leds_all_off \/ del_record_pcm

Next ==
  \/ Step \/ WaitFails \/ OtherEvent \/ KeyReleased \/ \E d \in {"cw", "ccw"} : Turned(d)
  \/ Arecord \/ SigTerm

Spec == Init /\ [][Next]_vars

-----------------------------------------------------------------------------
\* The types; a run prints two lines at most.
TypeOK ==
  /\ prog \in Input \cup {"led", "play", "record", "audio"}
  /\ pc \in {"open", "wait", "exit", "send", "return", "led", "play", "record", "audio",
             "recording", "handler", "gone"}
  /\ result \in {"FAIL", "VERIFY", "PASS"}
  /\ err \in {"0", "OPEN_FAIL", "EVENT_TIMEOUT", "LED_PROC_ERR", "TIMEOUT"}
  /\ lines \in Seq({"FAIL", "VERIFY", "PASS"}) /\ Len(lines) <= 2
  /\ moved \subseteq {"up", "cw", "ccw"} /\ busy \in BOOLEAN
  /\ pass \in 0 .. PASSES - 1
  /\ phase \in 1 .. 5 /\ n \in 1 .. LED_NUM + 1 /\ lit \subseteq Leds
  /\ broken \subseteq Leds /\ file \in BOOLEAN /\ late \in BOOLEAN /\ signalled \in BOOLEAN
  /\ rec \in {"none", "started", "recording"}

\* Whenever the signal comes, the lines that one run prints say the same:
\* the server keeps the first, main or handler may be the one to print it.
LinesAgree == \A i, j \in DOMAIN lines : lines[i] = lines[j]

\* VERIFY is printed only for a key that came up or a knob turned both ways,
\* and no program prints PASS: the looping ones end by running out of time.
VerifyIsEarned ==
  /\ \A i \in DOMAIN lines : lines[i] # "PASS"
  /\ (\E i \in DOMAIN lines : lines[i] = "VERIFY") =>
       IF prog = "key" THEN moved = {"up"} ELSE prog = "rotary" /\ moved = {"cw", "ccw"}

\* When the LED test is gone, by itself or by the signal between any two
\* writes, no LED is lit but those whose last write failed or was left out; a
\* failure in the test itself leaves all as they are.
LedsLeftDark == (prog = "led" /\ pc = "gone") => lit \subseteq broken

\* At the end of each phase exactly the LEDs of its colour shine, as the
\* comment of led_test orders them (red, green, blue, white), apart from those
\* whose write was left out.
ShinesOneColour ==
  (prog = "led" /\ pc = "led" /\ n > LED_NUM) =>
    lit \ broken = (CASE phase = 1 -> {i \in Leds : i % 3 = 2}
                      [] phase = 2 -> {i \in Leds : i % 3 = 1}
                      [] phase = 3 -> {i \in Leds : i % 3 = 0}
                      [] phase = 4 -> Leds
                      [] OTHER -> {}) \ broken

\* A recording is left by the recording test only if the signal came when
\* arecord was started and had not yet opened its file; audio_test never
\* removes its own.
RecordingLeftOnlyLate == (prog = "record" /\ pc = "gone" /\ file) => late
=============================================================================
