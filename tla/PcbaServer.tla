----------------------------- MODULE PcbaServer -----------------------------
(***************************************************************************)
(* The PCBA test server of echo_pcbatest_server.c.  main forks a process   *)
(* for each client that connects; the process receives commands, answers   *)
(* them, and forks a child for each test it starts.  The child runs the    *)
(* test program with popen, waits for its end and saves the line it        *)
(* printed in a file of the item, which QUERY reads.  The processes share  *)
(* the result files, the process table that ps and killall look at, and    *)
(* the wake-word service; the test-mode flag is a static variable, one per *)
(* client process.  The test item of Storage is answered by the child, the *)
(* others before the child is forked.                                      *)
(***************************************************************************)
EXTENDS Integers, FiniteSets

CONSTANTS
  Clients,    \* connections the server may get
  Items,      \* names of test programs
  Storage,    \* STORAGE_TESTITEM, "write_storage"
  Like,       \* pairs <<i, j>>: grep for item i also finds the program j
  MaxTests,   \* children forked for tests (bound)
  MaxCmds,    \* commands received in all (bound)
  MaxFaults,  \* calls of the system that fail in all (bound)
  Crowd       \* the commands clients send, a subset of Commands

KILLS == 4              \* killall is tried while count <= 3
Names == {"ENTER", "EXIT", "START", "STOP", "QUERY", "HEARBEAT"}
Tests == 1 .. MaxTests
Outs == {"PASS", "FAIL", "garbled"}  \* the line a program prints first

VARIABLES
  up,     \* main still accepts
  pc,     \* where each client process is
  cmd,    \* the command it handles
  ans,    \* the answer it has prepared: err_code, the local ret, result
  flag,   \* its test_flag
  kills,  \* count in stop_pcba_test
  note,   \* history: tests of the item that ran, and that were over, when
          \* START removed the result or STOP arrived
  test,   \* the children: item, owner, state, line printed, open result file
  file,   \* the result file of each item: its inode, whose line it holds
  wake,   \* the wake-word service runs
  owed,   \* history: commands received and neither answered nor given up
  ncmd, nfault

procVars == <<pc, cmd, ans, flag, kills, note>>
vars == <<up, procVars, test, file, wake, owed, ncmd, nfault>>

-----------------------------------------------------------------------------
\* What tcp_command_parse makes of a request: format errors are skipped
\* without an answer, other errors are answered, the rest is dispatched.
Commands ==
  [name : Names, item : Items, parse : {"OK"}]
    \cup [name : {"?"}, item : Items,
          parse : {"RECV_FORMAT_ERR", "CMD_TYPE_ERR", "CMD_ERR", "CMD_OVERLONG"}]

\* What the constants are.
ASSUME PcbaAssumption ==
  /\ Storage \in Items
  /\ MaxTests \in Nat /\ MaxCmds \in Nat /\ MaxFaults \in Nat
  /\ Crowd \subseteq Commands

NoCmd == [name |-> "?", item |-> Storage, parse |-> "OK"]
NoAns == [err |-> "OK", ret |-> "-1", result |-> "TESTING"]
NoFile == [ino |-> 0, from |-> 0]
NoNote == [live |-> {}, over |-> {}]
NoTest == [item |-> Storage, owner |-> 0, st |-> "unused", out |-> "none",
           ino |-> 0, note |-> NoNote, ans |-> NoAns]

\* if (err_code & ret): ret is -1, 0 or the error code itself.
status(a) == IF a.err # "OK" /\ a.ret # "0" THEN "NAK" ELSE "ACK"

Init ==
  /\ up = TRUE
  /\ pc = [c \in Clients |-> "none"]
  /\ cmd = [c \in Clients |-> NoCmd]
  /\ ans = [c \in Clients |-> NoAns]
  /\ flag = [c \in Clients |-> FALSE]
  /\ kills = [c \in Clients |-> 0]
  /\ note = [c \in Clients |-> NoNote]
  /\ test = [t \in Tests |-> NoTest]
  /\ file = [i \in Items |-> NoFile]
  /\ wake = TRUE
  /\ owed = [c \in Clients |-> 0]
  /\ ncmd = 0 /\ nfault = 0

\* One more of the calls that may fail has failed.
Fault == nfault < MaxFaults /\ nfault' = nfault + 1
NoFault == UNCHANGED nfault

Err(e) == [NoAns EXCEPT !.err = e]

\* A program of the item runs, as far as ps and grep can tell.
Visible(i) ==
  \E t \in Tests : test[t].st = "run" /\ (test[t].item = i \/ <<i, test[t].item>> \in Like)

Noted(i) == [live |-> {t \in Tests : test[t].st = "run" /\ test[t].item = i},
             over |-> {t \in Tests : test[t].st = "done" /\ test[t].item = i}]

\* query_test_result: no file means the test goes on; an empty or a garbled
\* one is an error; otherwise the error code is the program's own.
query_test_result(i) ==
  LET f == file[i] IN
  IF f.ino = 0 THEN [NoAns EXCEPT !.ret = "0"]
  ELSE IF f.from = 0 \/ test[f.from].out = "garbled"
    THEN [NoAns EXCEPT !.err = "QUERY_RESULT_ERR", !.ret = "QUERY_RESULT_ERR"]
  ELSE [err |-> IF test[f.from].out = "PASS" THEN "OK" ELSE "test", ret |-> "0",
        result |-> test[f.from].out]

-----------------------------------------------------------------------------
\* main: accept and fork; the server ends when either fails.
Accept(c) ==
  /\ up /\ pc[c] = "none"
  /\ pc' = [pc EXCEPT ![c] = "recv"]
  /\ UNCHANGED <<up, cmd, ans, flag, kills, note, test, file, wake, owed, ncmd, nfault>>

AcceptFails ==
  /\ up /\ Fault
  /\ up' = FALSE
  /\ UNCHANGED <<procVars, test, file, wake, owed, ncmd>>

\* Tests forked or about to be, for the bound.
Starts ==
  Cardinality({t \in Tests : test[t].st # "unused"})
    + Cardinality({c \in Clients : cmd[c].name = "START"
                                     /\ pc[c] \in {"START", "ps", "reply", "fork"}})

\* recv, tcp_command_para_init, tcp_command_parse.  What one recv returns is
\* taken for one command: of a buffer that holds two the parser takes the first
\* and drops the rest, and a part of one is a format error.
Receive(c, m) ==
  /\ pc[c] = "recv" /\ ncmd < MaxCmds
  /\ m.name = "START" => Starts < MaxTests
  /\ ncmd' = ncmd + 1
  /\ IF m.parse = "RECV_FORMAT_ERR"
       THEN UNCHANGED <<procVars, owed>>
       ELSE /\ cmd' = [cmd EXCEPT ![c] = m]
            /\ owed' = [owed EXCEPT ![c] = @ + 1]
            /\ ans' = [ans EXCEPT ![c] = IF m.parse # "OK" THEN Err(m.parse) ELSE NoAns]
            /\ pc' = [pc EXCEPT ![c] = IF m.parse # "OK" THEN "reply" ELSE m.name]
            /\ kills' = [kills EXCEPT ![c] = 0]
            /\ note' = [note EXCEPT ![c] =
                 IF m.name = "STOP" THEN Noted(m.item) ELSE NoNote]
            /\ UNCHANGED flag
  /\ UNCHANGED <<up, test, file, wake, nfault>>

\* Mutant of Leave: the wake-word service is not restarted.
LeaveQuiet(c) ==
  /\ pc' = [pc EXCEPT ![c] = "ended"]
  /\ UNCHANGED wake

\* ERR_FREE_EXIT of tcp_client_process.
Leave(c) ==
  /\ pc' = [pc EXCEPT ![c] = "ended"]
  /\ wake' = TRUE

\* recv returns 0 or fails.
Disconnect(c) ==
  /\ pc[c] = "recv"
  /\ Leave(c)
  /\ UNCHANGED <<up, cmd, ans, flag, kills, note, test, file, owed, ncmd, nfault>>

\* A handler that needs no further step prepares its answer.
Prepared(c, a) ==
  /\ ans' = [ans EXCEPT ![c] = a]
  /\ pc' = [pc EXCEPT ![c] = "reply"]

enter_pcba_test_mode(c) ==
  /\ pc[c] = "ENTER"
  /\ wake' = FALSE
  /\ flag' = [flag EXCEPT ![c] = TRUE]
  /\ Prepared(c, NoAns)
  /\ UNCHANGED <<up, cmd, kills, note, test, file, owed, ncmd, nfault>>

\* Every result file is removed; running tests are left alone.
exit_pcba_test_mode(c) ==
  /\ pc[c] = "EXIT"
  /\ \/ /\ NoFault
        /\ file' = [i \in Items |-> NoFile]
        /\ flag' = [flag EXCEPT ![c] = FALSE]
        /\ Prepared(c, NoAns)
     \/ /\ Fault
        /\ Prepared(c, Err("EXIT_TEST_ERR"))
        /\ UNCHANGED <<file, flag>>
  /\ UNCHANGED <<up, cmd, kills, note, test, wake, owed, ncmd>>

\* Mutant of start_remove: the result of an earlier test is kept.
start_removeNot(c) ==
  /\ pc[c] = "START"
  /\ LET i == cmd[c].item IN
       /\ note' = [note EXCEPT ![c] = Noted(i)]
       /\ ans' = [ans EXCEPT ![c] = IF flag[c] THEN NoAns ELSE Err("TEST_MODE_ERR")]
  /\ pc' = [pc EXCEPT ![c] = "ps"]
  /\ UNCHANGED <<up, cmd, flag, kills, test, file, wake, owed, ncmd, nfault>>

\* start_pcba_test_preproccess up to remove: outside test mode too.
start_remove(c) ==
  /\ pc[c] = "START"
  /\ LET i == cmd[c].item IN
       /\ file' = [file EXCEPT ![i] = NoFile]
       /\ note' = [note EXCEPT ![c] = Noted(i)]
       /\ ans' = [ans EXCEPT ![c] = IF flag[c] THEN NoAns ELSE Err("TEST_MODE_ERR")]
  /\ pc' = [pc EXCEPT ![c] = "ps"]
  /\ UNCHANGED <<up, cmd, flag, kills, test, wake, owed, ncmd, nfault>>

\* Mutant of Checked: the storage START is answered like the others.
CheckedAlike(c, a) ==
  /\ ans' = [ans EXCEPT ![c] = a]
  /\ pc' = [pc EXCEPT ![c] = "reply"]

\* After the check: the storage item is forked at once, others are answered.
Checked(c, a) ==
  /\ ans' = [ans EXCEPT ![c] = a]
  /\ pc' = [pc EXCEPT ![c] =
       IF a.err = "OK" /\ cmd[c].item = Storage THEN "fork" ELSE "reply"]

\* Mutant of start_check: a busy item is started all the same.
start_checkNot(c) ==
  /\ pc[c] = "ps"
  /\ NoFault
  /\ Checked(c, ans[c])
  /\ UNCHANGED <<up, cmd, flag, kills, note, test, file, wake, owed, ncmd>>

\* The rest: process_is_exists, whose -1 counts as found.
start_check(c) ==
  /\ pc[c] = "ps"
  /\ \/ NoFault /\ Visible(cmd[c].item) /\ Checked(c, Err("TEST_ITEM_BUSY"))
     \/ NoFault /\ ~Visible(cmd[c].item) /\ Checked(c, ans[c])
     \/ Fault /\ Checked(c, Err("TEST_ITEM_BUSY"))
  /\ UNCHANGED <<up, cmd, flag, kills, note, test, file, wake, owed, ncmd>>

\* Mutant of stop_pcba_test: a single killall is trusted.
stop_pcba_testOnce(c) ==
  /\ pc[c] = "STOP"
  /\ NoFault
  /\ kills' = [kills EXCEPT ![c] = 1]
  /\ Prepared(c, NoAns)
  /\ UNCHANGED <<up, cmd, flag, note, test, file, wake, owed, ncmd>>

\* Mutant of stop_pcba_test: the tries are not counted.
stop_pcba_testForever(c) ==
  /\ pc[c] = "STOP"
  /\ NoFault
  /\ IF Visible(cmd[c].item) THEN UNCHANGED <<ans, pc>> ELSE Prepared(c, NoAns)
  /\ UNCHANGED <<up, cmd, flag, kills, note, test, file, wake, owed, ncmd>>

\* A round of stop_pcba_test: ps, whose -1 counts as not found, then killall
\* and a second of sleep, in which the program may end (End below) or not.
stop_pcba_test(c) ==
  /\ pc[c] = "STOP"
  /\ \/ /\ NoFault /\ ~Visible(cmd[c].item)
        /\ Prepared(c, NoAns)
        /\ UNCHANGED <<kills, note>>
     \/ /\ Fault
        /\ Prepared(c, NoAns)
        /\ note' = [note EXCEPT ![c] = NoNote]
        /\ UNCHANGED kills
     \/ /\ NoFault /\ Visible(cmd[c].item)
        /\ kills' = [kills EXCEPT ![c] = @ + 1]
        /\ IF kills[c] + 1 = KILLS
             THEN Prepared(c, Err("STOP_TEST_ERR"))
             ELSE UNCHANGED <<ans, pc>>
        /\ UNCHANGED note
  /\ UNCHANGED <<up, cmd, flag, test, file, wake, owed, ncmd>>

Query(c) ==
  /\ pc[c] = "QUERY"
  /\ Prepared(c, query_test_result(cmd[c].item))
  /\ UNCHANGED <<up, cmd, flag, kills, note, test, file, wake, owed, ncmd, nfault>>

\* HEARBEAT passes the check of its name and no branch handles it.
Heartbeat(c) ==
  /\ pc[c] = "HEARBEAT"
  /\ Prepared(c, Err("CMD_ERR"))
  /\ UNCHANGED <<up, cmd, flag, kills, note, test, file, wake, owed, ncmd, nfault>>

\* The process is back at recv, and tcp_command_para_init forgets the command.
Again(c) ==
  /\ pc' = [pc EXCEPT ![c] = "recv"]
  /\ cmd' = [cmd EXCEPT ![c] = NoCmd]
  /\ ans' = [ans EXCEPT ![c] = NoAns]
  /\ kills' = [kills EXCEPT ![c] = 0]
  /\ note' = [note EXCEPT ![c] = NoNote]

\* SIGPIPE, which main leaves at its default, ends the process inside send: no
\* ERR_FREE_EXIT, no restart of the wake-word service.
Killed(c) ==
  /\ pc' = [pc EXCEPT ![c] = "killed"]
  /\ UNCHANGED <<cmd, ans, kills, note>>

\* SEND_CMD: the answer is sent, or is too long or refused by the socket, or
\* the connection is gone and send raises the signal; a test other than the
\* storage one is started once its START was answered.
tcp_command_send(c) ==
  /\ pc[c] = "reply"
  /\ owed' = [owed EXCEPT ![c] = @ - 1]
  /\ \/ /\ NoFault
        /\ IF ans[c].err = "OK" /\ cmd[c].name = "START"
             THEN pc' = [pc EXCEPT ![c] = "fork"] /\ UNCHANGED <<cmd, ans, kills, note>>
             ELSE Again(c)
     \/ Fault /\ (Again(c) \/ Killed(c))
  /\ UNCHANGED <<up, flag, test, file, wake, ncmd>>

\* start_pcba_test_proccess: the child is forked, or the client is left.
start_pcba_test_proccess(c) ==
  /\ pc[c] = "fork"
  /\ \/ /\ NoFault
        /\ \E t \in Tests :
             /\ test[t].st = "unused" /\ \A s \in Tests : s < t => test[s].st # "unused"
             /\ test' = [test EXCEPT ![t] = [NoTest EXCEPT !.item = cmd[c].item,
                           !.owner = c, !.st = "forked", !.note = note[c]]]
        /\ Again(c)
        /\ UNCHANGED <<wake, owed>>
     \/ /\ Fault
        /\ Leave(c)
        /\ owed' = [owed EXCEPT ![c] = IF cmd[c].item = Storage THEN @ - 1 ELSE @]
        /\ UNCHANGED <<cmd, ans, kills, note, test>>
  /\ UNCHANGED <<up, flag, file, ncmd>>

-----------------------------------------------------------------------------
childFrame == <<up, procVars, wake, ncmd>>

\* The child of a test ends pcba_test_item_process with a server error.
ItemFails(t, e) ==
  test' = [test EXCEPT ![t].st = IF test[t].item = Storage THEN "reply" ELSE "done",
                       ![t].ans = IF test[t].item = Storage THEN Err(e) ELSE NoAns]

\* popen of the program.
Launch(t) ==
  /\ test[t].st = "forked"
  /\ \/ NoFault /\ test' = [test EXCEPT ![t].st = "run"]
     \/ Fault /\ ItemFails(t, "TEST_FORK_ERR")
  /\ UNCHANGED <<childFrame, file, owed>>

\* The program prints its line, and ends by itself or when it is killed.
PrintLine(t, o) ==
  /\ test[t].st = "run" /\ test[t].out = "none"
  /\ test' = [test EXCEPT ![t].out = o]
  /\ UNCHANGED <<childFrame, file, owed, nfault>>

End(t) ==
  /\ test[t].st = "run"
  /\ test' = [test EXCEPT ![t].st = "save"]
  /\ UNCHANGED <<childFrame, file, owed, nfault>>

\* What the child of a test does after it has saved its line.
AfterSave(t) == IF test[t].item = Storage THEN "query" ELSE "done"

\* pcba_test_result_rw, writing: nothing without a line; the file is created
\* or emptied, and written in a second step to the inode it had then.
OpenResult(t) ==
  LET i == test[t].item IN
  /\ test[t].st = "save"
  /\ \/ /\ NoFault /\ test[t].out = "none"
        /\ test' = [test EXCEPT ![t].st = AfterSave(t)]
        /\ UNCHANGED file
     \/ /\ NoFault /\ test[t].out # "none"
        /\ file' = [file EXCEPT ![i] = [ino |-> IF @.ino = 0 THEN t ELSE @.ino, from |-> 0]]
        /\ test' = [test EXCEPT ![t].st = "write", ![t].ino = file'[i].ino]
     \/ /\ Fault /\ test[t].out # "none"
        /\ ItemFails(t, "SAVE_RESULE_ERR")
        /\ UNCHANGED file
  /\ UNCHANGED <<childFrame, owed>>

WriteResult(t) ==
  LET i == test[t].item IN
  /\ test[t].st = "write"
  /\ file' = [file EXCEPT ![i].from = IF file[i].ino = test[t].ino THEN t ELSE @]
  /\ test' = [test EXCEPT ![t].st = AfterSave(t), ![t].ino = 0]
  /\ UNCHANGED <<childFrame, owed, nfault>>

\* The child of the storage test reads the result and answers START.
StorageQuery(t) ==
  /\ test[t].st = "query"
  /\ test' = [test EXCEPT ![t].st = "reply", ![t].ans = query_test_result(Storage)]
  /\ UNCHANGED <<childFrame, file, owed, nfault>>

\* Whether it answers, fails to, or is ended by SIGPIPE, the child is over.
StorageReply(t) ==
  LET c == test[t].owner IN
  /\ test[t].st = "reply"
  /\ owed' = [owed EXCEPT ![c] = @ - 1]
  /\ test' = [test EXCEPT ![t].st = "done", ![t].ans = NoAns]
  /\ NoFault \/ Fault
  /\ UNCHANGED <<childFrame, file>>

-----------------------------------------------------------------------------
ClientStep(c) ==
  \/ enter_pcba_test_mode(c) \/ exit_pcba_test_mode(c)
  \/ start_remove(c) \/ start_check(c) \/ start_pcba_test_proccess(c)
  \/ stop_pcba_test(c) \/ Query(c) \/ Heartbeat(c) \/ tcp_command_send(c)

ChildStep(t) ==
  \/ Launch(t) \/ OpenResult(t) \/ WriteResult(t) \/ StorageQuery(t) \/ StorageReply(t)

Next ==
  \/ AcceptFails
  \/ \E c \in Clients : Accept(c) \/ Disconnect(c) \/ ClientStep(c)
  \/ \E c \in Clients, m \in Crowd : Receive(c, m)
  \/ \E t \in Tests : ChildStep(t) \/ End(t)
  \/ \E t \in Tests, o \in Outs : PrintLine(t, o)

\* A process that can run does; test programs may run for ever.
Spec ==
  /\ Init /\ [][Next]_vars
  /\ \A c \in Clients : WF_vars(ClientStep(c))
  /\ \A t \in Tests : WF_vars(ChildStep(t))
-----------------------------------------------------------------------------
Errs == {"OK", "test", "QUERY_RESULT_ERR", "CMD_TYPE_ERR", "CMD_ERR", "CMD_OVERLONG",
         "EXIT_TEST_ERR", "TEST_MODE_ERR", "TEST_ITEM_BUSY", "STOP_TEST_ERR",
         "TEST_FORK_ERR", "SAVE_RESULE_ERR"}
Answers == [err : Errs, ret : {"-1", "0", "QUERY_RESULT_ERR"},
            result : {"TESTING", "PASS", "FAIL"}]
Notes == [live : SUBSET Tests, over : SUBSET Tests]

\* The types of the variables; every command of echo_pcbatest_server.c is
\* answered at most once, so that no client is owed less than nothing.
TypeOK ==
  /\ up \in BOOLEAN /\ wake \in BOOLEAN
  /\ pc \in [Clients -> Names \cup {"none", "recv", "ps", "reply", "fork", "ended", "killed"}]
  /\ cmd \in [Clients -> Commands \cup {NoCmd}]
  /\ ans \in [Clients -> Answers]
  /\ flag \in [Clients -> BOOLEAN]
  /\ kills \in [Clients -> 0 .. KILLS]
  /\ note \in [Clients -> Notes]
  /\ test \in [Tests -> [item : Items, owner : Clients \cup {0},
        st : {"unused", "forked", "run", "save", "write", "query", "reply", "done"},
        out : Outs \cup {"none"}, ino : 0 .. MaxTests, note : Notes, ans : Answers]]
  /\ file \in [Items -> [ino : 0 .. MaxTests, from : 0 .. MaxTests]]
  /\ owed \in [Clients -> 0 .. MaxCmds]
  /\ ncmd \in 0 .. MaxCmds /\ nfault \in 0 .. MaxFaults

\* A test that was over when START removed the item's result never has its
\* line read as the result of the test started: whatever the other clients
\* and children do, only tests that were still going on can be mistaken for
\* it.
NoGhostResult ==
  /\ \A t \in Tests : test[t].st # "unused" =>
       file[test[t].item].from \notin test[t].note.over
  /\ \A c \in Clients : pc[c] \in {"ps", "fork"} =>
       file[cmd[c].item].from \notin note[c].over

\* Two programs of one item run together only if the second START looked at
\* the process table before the first program was in it: a START that comes
\* when the program runs does not lead to a second one beside it.
TwiceOnlyIfUnseen ==
  \A t \in Tests : test[t].st = "run" => \A s \in test[t].note.live : test[s].st # "run"

\* A STOP about to be answered without error, ps having worked, has outlived
\* every program of the item that ran when it arrived.
StoppedMeansEnded ==
  \A c \in Clients :
    (pc[c] = "reply" /\ cmd[c].name = "STOP" /\ ans[c].err = "OK")
      => \A t \in note[c].live : test[t].st # "run"

\* The client reads NAK exactly for the server's own errors: a test that ran
\* and failed is acknowledged, with the program's error code.
NakIsServerError ==
  /\ \A c \in Clients : pc[c] = "reply" =>
       (status(ans[c]) = "NAK" <=> ans[c].err \notin {"OK", "test"})
  /\ \A t \in Tests : test[t].st = "reply" =>
       (status(test[t].ans) = "NAK" <=> test[t].ans.err \notin {"OK", "test"})

\* Every command that parses is answered once, or given up once: by a failed or
\* fatal send or, for the storage item, by a failed fork.  The answer of a storage
\* START is owed until its child ends, while its client goes on receiving; and
\* an answer is NAK exactly for the server's own errors
\* (echo_pcbatest_server.c:652, :671).
AnswersAddUp ==
  /\ TypeOK
  /\ \A c \in Clients :
       owed[c] = (IF \/ pc[c] \in Names \cup {"ps", "reply"}
                     \/ pc[c] = "fork" /\ cmd[c].item = Storage THEN 1 ELSE 0)
                 + Cardinality({t \in Tests : /\ test[t].owner = c /\ test[t].item = Storage
                                              /\ test[t].st \notin {"unused", "done"}})
  /\ NakIsServerError

Connected(c) == pc[c] \notin {"none", "ended", "killed"}

\* The wake-word service is off only while some client is connected, however
\* clients come, enter test mode, disconnect and fail, unless an answer sent on
\* a reset connection has ended a process by SIGPIPE: that way out does not
\* restart the service (echo_pcbatest_server.c:560, :739, :804).
WakeWordComesBack ==
  ~wake => \E c \in Clients : Connected(c) \/ pc[c] = "killed"

\* Every command is dealt with: the client process receives again or is over,
\* even if the program to be stopped ignores its signals, and the child that
\* answers a storage START in its place ends too, once its program has ended
\* (echo_pcbatest_server.c:361, :652).
CommandsReturn ==
  /\ \A c \in Clients : Connected(c) /\ pc[c] # "recv" ~> pc[c] = "recv" \/ ~Connected(c)
  /\ \A t \in Tests : (test[t].st = "save" /\ test[t].item = Storage) ~> test[t].st = "done"
=============================================================================
