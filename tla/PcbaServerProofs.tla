-------------------------- MODULE PcbaServerProofs --------------------------
(***************************************************************************)
(* Proofs about PcbaServer, for every set of clients and items, every      *)
(* bound and every set of commands the clients may send.                   *)
(***************************************************************************)
EXTENDS PcbaServer, FiniteSetTheorems, TLAPS

-----------------------------------------------------------------------------
\* Programs that have been launched, and those of them that have ended.
Launched == {"run", "save", "write", "query", "reply", "done"}
Ended == Launched \ {"run"}

\* Where a client process is follows from the command it handles.
CommandOK(c) ==
  /\ pc[c] \in Names => cmd[c].name = pc[c]
  /\ pc[c] \in {"ps", "fork"} => cmd[c].name = "START"
  /\ pc[c] = "STOP" => kills[c] < KILLS

\* A START between the removal of the result and the fork of its child, the
\* answer in between included.
Starting(c) == cmd[c].name = "START" /\ pc[c] \in {"ps", "reply", "fork"}

\* Tests noted as over are over for good, and none has its line in the file;
\* programs noted as running have been launched, and have ended once a check
\* did not see them.
NoteOK(c) ==
  /\ \A s \in note[c].over : test[s].st = "done"
  /\ Starting(c) => file[cmd[c].item].from \notin note[c].over
  /\ pc[c] \in {"ps", "STOP"} =>
       \A s \in note[c].live : test[s].item = cmd[c].item /\ test[s].st \in Launched
  /\ (\/ pc[c] = "fork"
      \/ pc[c] = "reply" /\ ans[c].err = "OK" /\ cmd[c].name \in {"START", "STOP"})
     => \A s \in note[c].live : test[s].st \in Ended

\* ret and err_code are set together.
Consistent(a) ==
  /\ a.ret = "0" => a.err \in {"OK", "test"}
  /\ a.err = "test" => a.ret = "0"

\* Children that still owe the answer of a storage START.
Pending(c) ==
  {t \in Tests : /\ test[t].owner = c /\ test[t].item = Storage
                 /\ test[t].st \notin {"unused", "done"}}

\* The process itself still owes an answer.
Owing(c) == pc[c] \in Names \cup {"ps", "reply"} \/ (pc[c] = "fork" /\ cmd[c].item = Storage)

OwedOK(c) ==
  /\ owed[c] <= ncmd
  /\ owed[c] = (IF Owing(c) THEN 1 ELSE 0) + Cardinality(Pending(c))
  /\ pc[c] = "reply" /\ cmd[c].name = "START" /\ ans[c].err = "OK" => cmd[c].item # Storage

ClientOK(c) == CommandOK(c) /\ NoteOK(c) /\ Consistent(ans[c]) /\ OwedOK(c)

\* The same of the children.
TestOK(t) ==
  /\ \A s \in test[t].note.over : test[s].st = "done"
  /\ test[t].st # "unused" => file[test[t].item].from \notin test[t].note.over
  /\ \A s \in test[t].note.live : test[s].st \in Ended
  /\ test[t].st = "write" => test[t].out # "none"
  /\ Consistent(test[t].ans)
  /\ test[t].st # "unused" => test[t].owner \in Clients
  /\ test[t].st \in {"query", "reply"} => test[t].item = Storage

\* A result file names a test that printed a line.
FileOK(i) ==
  file[i].from # 0 => test[file[i].from].st # "unused" /\ test[file[i].from].out # "none"

PcbaInv ==
  /\ TypeOK
  /\ \A c \in Clients : ClientOK(c)
  /\ \A t \in Tests : TestOK(t)
  /\ \A i \in Items : FileOK(i)
  /\ WakeWordComesBack

-----------------------------------------------------------------------------
\* What an answer prepared by a handler looks like.
LEMMA AnswerShapes ==
  /\ NoAns \in Answers /\ Consistent(NoAns)
  /\ \A e \in Errs \ {"test"} : Err(e) \in Answers /\ Consistent(Err(e)) /\ Err(e).err = e
  BY DEF NoAns, Err, Answers, Errs, Consistent

\* query_test_result makes such an answer.
LEMMA QueryShape ==
  ASSUME PcbaInv, NEW i \in Items
  PROVE  query_test_result(i) \in Answers /\ Consistent(query_test_result(i))
<1> DEFINE f == file[i]
<1>1. f.ino \in 0 .. MaxTests /\ f.from \in 0 .. MaxTests
  BY DEF PcbaInv, TypeOK
<1>2. f.from # 0 => f.from \in Tests /\ test[f.from].out \in Outs
  <2>1. f.from # 0 => f.from \in Tests /\ test[f.from].out # "none"
    BY <1>1, PcbaAssumption DEF PcbaInv, FileOK, Tests
  <2> QED
    BY <2>1 DEF PcbaInv, TypeOK
<1>3. \A a \in {[NoAns EXCEPT !.ret = "0"],
                  [NoAns EXCEPT !.err = "QUERY_RESULT_ERR", !.ret = "QUERY_RESULT_ERR"]} :
        a \in Answers /\ Consistent(a)
  BY DEF NoAns, Answers, Errs, Consistent
<1>4. CASE f.ino = 0
  BY <1>3, <1>4 DEF query_test_result
<1>5. CASE f.ino # 0 /\ (f.from = 0 \/ test[f.from].out = "garbled")
  BY <1>3, <1>5 DEF query_test_result
<1>6. CASE f.ino # 0 /\ ~(f.from = 0 \/ test[f.from].out = "garbled")
  <2>1. query_test_result(i) =
          [err |-> IF test[f.from].out = "PASS" THEN "OK" ELSE "test", ret |-> "0",
           result |-> test[f.from].out]
    BY <1>6 DEF query_test_result
  <2> QED
    BY <1>2, <1>6, <2>1 DEF Answers, Errs, Consistent, Outs
<1> QED
  BY <1>4, <1>5, <1>6

\* The children of a client that owe an answer are finitely many.
LEMMA PendingFinite ==
  ASSUME NEW c
  PROVE  IsFiniteSet(Pending(c)) /\ Cardinality(Pending(c)) \in Nat
<1>1. IsFiniteSet(Tests)
  BY FS_Interval, PcbaAssumption DEF Tests
<1>2. Pending(c) \subseteq Tests
  BY DEF Pending
<1> QED
  BY <1>1, <1>2, FS_Subset, FS_CardinalityType

LEMMA PcbaInvInit == Init => PcbaInv
<1> SUFFICES ASSUME Init PROVE PcbaInv
  OBVIOUS
<1> USE PcbaAssumption
<1>1. TypeOK
  BY AnswerShapes DEF Init, TypeOK, NoCmd, NoTest, NoFile, NoNote, Notes, KILLS, Tests
<1>2. \A c \in Clients : ClientOK(c)
  <2> SUFFICES ASSUME NEW c \in Clients PROVE ClientOK(c)
    OBVIOUS
  <2>1. Pending(c) = {}
    BY DEF Init, Pending, NoTest
  <2>2. Cardinality(Pending(c)) = 0
    BY <2>1, FS_EmptySet
  <2>3. pc[c] = "none" /\ cmd[c] = NoCmd /\ note[c] = NoNote /\ ans[c] = NoAns
        /\ owed[c] = 0 /\ ncmd = 0
    BY DEF Init
  <2> QED
    BY <2>2, <2>3, AnswerShapes DEF ClientOK, CommandOK, NoteOK, OwedOK, Starting, Owing,
       NoNote, Names
<1>3. \A t \in Tests : TestOK(t)
  BY AnswerShapes DEF Init, TestOK, NoTest, NoNote
<1>4. \A i \in Items : FileOK(i)
  BY DEF Init, FileOK, NoFile
<1>5. WakeWordComesBack
  BY DEF Init, WakeWordComesBack, Connected
<1> QED
  BY <1>1, <1>2, <1>3, <1>4, <1>5 DEF PcbaInv

-----------------------------------------------------------------------------
\* Only the process of client c moves; test programs stay, results stay or go.
Alone(c) ==
  /\ test' = test
  /\ \A i \in Items : file'[i].from \in {file[i].from, 0}
  /\ ncmd <= ncmd'
  /\ \A d \in Clients \ {c} :
       UNCHANGED <<pc[d], cmd[d], ans[d], kills[d], note[d], owed[d]>>

\* A step of one client keeps what holds of the others.
LEMMA AloneKeeps ==
  ASSUME PcbaInv, TypeOK', NEW c \in Clients, Alone(c), ClientOK(c)', WakeWordComesBack'
  PROVE  PcbaInv'
<1>1. ASSUME NEW d \in Clients \ {c} PROVE ClientOK(d)'
  <2>1. Pending(d)' = Pending(d)
    BY DEF Alone, Pending
  <2>2. ClientOK(d) /\ ncmd \in Nat /\ ncmd' \in Nat /\ owed[d] \in Nat /\ ncmd <= ncmd'
    BY PcbaAssumption DEF PcbaInv, TypeOK, Alone
  <2>3. UNCHANGED <<test, pc[d], cmd[d], ans[d], kills[d], note[d], owed[d]>>
    BY DEF Alone
  <2>4. file[cmd[d].item].from \notin note[d].over => file'[cmd[d].item].from \notin note[d].over
    <3>1. cmd[d].item \in Items /\ note[d] \in Notes
      BY PcbaAssumption DEF PcbaInv, TypeOK, Commands, NoCmd
    <3>2. 0 \notin note[d].over
      BY <3>1 DEF Notes, Tests
    <3> QED
      BY <3>1, <3>2 DEF Alone
  <2> QED
    BY <2>1, <2>2, <2>3, <2>4 DEF ClientOK, CommandOK, NoteOK, OwedOK, Starting, Owing,
       Consistent
<1>2. ASSUME NEW t \in Tests PROVE TestOK(t)'
  <2>1. test[t].item \in Items /\ test[t].note \in Notes
    BY DEF PcbaInv, TypeOK
  <2>2. 0 \notin test[t].note.over
    BY <2>1 DEF Notes, Tests
  <2> QED
    BY <2>1, <2>2 DEF PcbaInv, TestOK, Alone
<1>3. \A i \in Items : FileOK(i)'
  BY DEF PcbaInv, FileOK, Alone
<1> QED
  BY <1>1, <1>2, <1>3 DEF PcbaInv

\* What is known before a step of client c.
LEMMA ClientFacts ==
  ASSUME PcbaInv, NEW c \in Clients
  PROVE  /\ ClientOK(c)
         /\ pc[c] \in Names \cup {"none", "recv", "ps", "reply", "fork", "ended", "killed"}
         /\ cmd[c] \in Commands \cup {NoCmd} /\ cmd[c].item \in Items
         /\ ans[c] \in Answers /\ kills[c] \in 0 .. KILLS /\ note[c] \in Notes
         /\ owed[c] \in 0 .. MaxCmds /\ ncmd \in 0 .. MaxCmds /\ nfault \in 0 .. MaxFaults
  BY PcbaAssumption DEF PcbaInv, TypeOK, Commands, NoCmd

\* accept, and its failure.
LEMMA PcbaInvAccept ==
  ASSUME PcbaInv, AcceptFails \/ (\E c \in Clients : Accept(c))
  PROVE  PcbaInv'
<1> USE PcbaAssumption
<1>1. CASE AcceptFails
  <2>1. TypeOK'
    <3>1. up' = FALSE /\ nfault' \in 0 .. MaxFaults
      BY <1>1 DEF PcbaInv, TypeOK, AcceptFails, Fault
    <3> QED
      BY <1>1, <3>1 DEF PcbaInv, TypeOK, AcceptFails, procVars
  <2>2. \A c \in Clients : ClientOK(c)'
    <3>1. \A c \in Clients : Pending(c)' = Pending(c)
      BY <1>1 DEF AcceptFails, Pending
    <3> QED
      BY <1>1, <3>1 DEF PcbaInv, AcceptFails, procVars, ClientOK, CommandOK, NoteOK, OwedOK,
         Starting, Owing, Consistent
  <2> QED
    BY <1>1, <2>1, <2>2 DEF PcbaInv, TestOK, FileOK, WakeWordComesBack, Connected, AcceptFails, procVars
<1>2. ASSUME NEW c \in Clients, Accept(c) PROVE PcbaInv'
  <2>1. TypeOK'
    BY <1>2 DEF PcbaInv, TypeOK, Accept
  <2>2. Alone(c)
    BY <1>2 DEF PcbaInv, TypeOK, Accept, Alone
  <2>3. ClientOK(c)'
    <3>1. Pending(c)' = Pending(c)
      BY <1>2 DEF Accept, Pending
    <3>2. pc[c] = "none" /\ pc'[c] = "recv" /\ UNCHANGED <<cmd, ans, kills, note, test, file, owed, ncmd>>
      BY <1>2 DEF PcbaInv, TypeOK, Accept
    <3> QED
      BY <3>1, <3>2, ClientFacts DEF ClientOK, CommandOK, NoteOK, OwedOK, Starting, Owing,
         Consistent, Names
  <2>4. WakeWordComesBack'
    BY <1>2 DEF PcbaInv, TypeOK, WakeWordComesBack, Connected, Accept
  <2> QED
    BY <2>1, <2>2, <2>3, <2>4, AloneKeeps
<1> QED
  BY <1>1, <1>2

\* recv of a command.
LEMMA PcbaInvReceive ==
  ASSUME PcbaInv, NEW c \in Clients, NEW m \in Crowd, Receive(c, m)
  PROVE  PcbaInv'
<1> USE PcbaAssumption
<1>1. m \in Commands /\ pc[c] = "recv"
  BY DEF Receive
<1>2. Noted(m.item) \in Notes /\ NoNote \in Notes
  BY DEF Noted, Notes, NoNote
<1>3. Pending(c)' = Pending(c)
  BY DEF Receive, Pending
<1>4. CASE m.parse = "RECV_FORMAT_ERR"
  <2>1. UNCHANGED <<up, procVars, test, file, wake, owed, nfault>> /\ ncmd' = ncmd + 1 /\ ncmd < MaxCmds
    BY <1>4 DEF Receive
  <2>2. TypeOK'
    BY <2>1 DEF PcbaInv, TypeOK, procVars
  <2>3. Alone(c)
    BY <2>1 DEF PcbaInv, TypeOK, Alone, procVars
  <2>4. ClientOK(c)'
    BY <1>3, <2>1, ClientFacts DEF procVars, ClientOK, CommandOK, NoteOK, OwedOK, Starting,
       Owing, Consistent
  <2>5. WakeWordComesBack'
    BY <2>1 DEF PcbaInv, WakeWordComesBack, Connected, procVars
  <2> QED
    BY <2>2, <2>3, <2>4, <2>5, AloneKeeps
<1>5. CASE m.parse # "RECV_FORMAT_ERR"
  <2> DEFINE a == IF m.parse # "OK" THEN Err(m.parse) ELSE NoAns
             p == IF m.parse # "OK" THEN "reply" ELSE m.name
             n == IF m.name = "STOP" THEN Noted(m.item) ELSE NoNote
  <2>1. /\ cmd' = [cmd EXCEPT ![c] = m] /\ owed' = [owed EXCEPT ![c] = @ + 1]
        /\ ans' = [ans EXCEPT ![c] = a] /\ pc' = [pc EXCEPT ![c] = p]
        /\ kills' = [kills EXCEPT ![c] = 0] /\ note' = [note EXCEPT ![c] = n]
        /\ UNCHANGED <<flag, up, test, file, wake, nfault>>
        /\ ncmd' = ncmd + 1 /\ ncmd < MaxCmds
    BY <1>5 DEF Receive
  <2>2. a \in Answers /\ Consistent(a) /\ n \in Notes
        /\ p \in Names \cup {"reply"}
        /\ \/ p = "reply" /\ m.name = "?"
           \/ p \in Names /\ m.name = p
    BY <1>1, <1>2, <1>5, AnswerShapes DEF Commands, Errs, Names
  <2>3. /\ \A s \in n.over : test[s].st = "done"
        /\ \A s \in n.live : test[s].item = m.item /\ test[s].st = "run"
    BY DEF Noted, NoNote
  <2> HIDE DEF a, p, n
  <2>4. owed[c] <= ncmd /\ owed[c] = Cardinality(Pending(c))
    BY <1>1, ClientFacts, PendingFinite DEF ClientOK, OwedOK, Owing, Names
  <2>5. TypeOK'
    <3>1. owed[c] + 1 \in 0 .. MaxCmds /\ ncmd + 1 \in 0 .. MaxCmds
      BY <2>1, <2>4, ClientFacts
    <3> QED
      BY <1>1, <2>1, <2>2, <3>1 DEF PcbaInv, TypeOK, KILLS
  <2>6. Alone(c)
    BY <2>1, ClientFacts DEF PcbaInv, TypeOK, Alone
  <2>7. /\ cmd'[c] = m /\ owed'[c] = owed[c] + 1 /\ ans'[c] = a /\ pc'[c] = p
        /\ kills'[c] = 0 /\ note'[c] = n
    BY <2>1 DEF PcbaInv, TypeOK
  <2>8. ClientOK(c)'
    <3>1. CommandOK(c)'
      BY <2>2, <2>7 DEF CommandOK, KILLS, Names
    <3>2. NoteOK(c)'
      BY <2>1, <2>2, <2>3, <2>7 DEF NoteOK, Starting, Names, Launched
    <3>3. OwedOK(c)'
      <4>1. Owing(c)'
        BY <2>2, <2>7 DEF Owing
      <4> QED
        BY <1>3, <2>1, <2>2, <2>4, <2>7, <4>1, ClientFacts, PendingFinite DEF OwedOK, Names
    <3> QED
      BY <2>2, <2>7, <3>1, <3>2, <3>3 DEF ClientOK
  <2>9. WakeWordComesBack'
    BY <2>1, <2>2 DEF PcbaInv, TypeOK, WakeWordComesBack, Connected, Names
  <2> QED
    BY <2>5, <2>6, <2>8, <2>9, AloneKeeps
<1> QED
  BY <1>4, <1>5

\* A handler that owes the answer prepares it and does not wait for more.
LEMMA PreparedKeeps ==
  ASSUME PcbaInv, NEW c \in Clients, NEW a \in Answers, Consistent(a), Prepared(c, a),
         pc[c] \in Names, cmd[c].name # "START", UNCHANGED <<cmd, test, owed, ncmd>>,
         cmd[c].name = "STOP" /\ a.err = "OK" => \A s \in note'[c].live : test[s].st \in Ended,
         \A s \in note'[c].over : test[s].st = "done"
  PROVE  /\ ClientOK(c)'
         /\ pc' \in [Clients -> Names \cup {"none", "recv", "ps", "reply", "fork", "ended", "killed"}]
         /\ ans' \in [Clients -> Answers]
         /\ WakeWordComesBack'
         /\ \A d \in Clients \ {c} : UNCHANGED <<pc[d], ans[d]>>
<1>1. /\ pc'[c] = "reply" /\ ans'[c] = a
      /\ pc' \in [Clients -> Names \cup {"none", "recv", "ps", "reply", "fork", "ended", "killed"}]
      /\ ans' \in [Clients -> Answers]
      /\ \A d \in Clients \ {c} : UNCHANGED <<pc[d], ans[d]>>
  BY DEF PcbaInv, TypeOK, Prepared
<1>2. Pending(c)' = Pending(c)
  BY DEF Pending
<1>3. Owing(c) /\ Owing(c)'
  BY <1>1 DEF Owing
<1>4. OwedOK(c)'
  BY <1>1, <1>2, <1>3, ClientFacts DEF ClientOK, OwedOK
<1>5. CommandOK(c)' /\ NoteOK(c)'
  BY <1>1 DEF CommandOK, NoteOK, Starting, Names
<1> QED
  BY <1>1, <1>4, <1>5 DEF ClientOK, WakeWordComesBack, Connected

\* ENTER, EXIT, QUERY and the unhandled HEARBEAT.
LEMMA PcbaInvSimple ==
  ASSUME PcbaInv, NEW c \in Clients,
         enter_pcba_test_mode(c) \/ exit_pcba_test_mode(c) \/ Query(c) \/ Heartbeat(c)
  PROVE  PcbaInv'
<1> USE PcbaAssumption
<1>1. /\ pc[c] \in {"ENTER", "EXIT", "QUERY", "HEARBEAT"} /\ pc[c] \in Names
      /\ UNCHANGED <<up, cmd, kills, note, test, owed, ncmd>>
  BY DEF enter_pcba_test_mode, exit_pcba_test_mode, Query, Heartbeat, Names
<1>2. PICK a \in Answers : Consistent(a) /\ Prepared(c, a)
  <2>1. NoAns \in Answers /\ Consistent(NoAns)
    BY AnswerShapes
  <2>2. Err("EXIT_TEST_ERR") \in Answers /\ Consistent(Err("EXIT_TEST_ERR"))
    BY AnswerShapes DEF Errs
  <2>3. Err("CMD_ERR") \in Answers /\ Consistent(Err("CMD_ERR"))
    BY AnswerShapes DEF Errs
  <2>4. query_test_result(cmd[c].item) \in Answers /\ Consistent(query_test_result(cmd[c].item))
    BY ClientFacts, QueryShape
  <2> QED
    BY <2>1, <2>2, <2>3, <2>4 DEF enter_pcba_test_mode, exit_pcba_test_mode, Query, Heartbeat
<1>3. cmd[c].name \notin {"START", "STOP"} /\ \A s \in note'[c].over : test[s].st = "done"
  BY <1>1, ClientFacts DEF ClientOK, CommandOK, NoteOK
<1>4. /\ ClientOK(c)' /\ WakeWordComesBack' /\ ans' \in [Clients -> Answers]
      /\ pc' \in [Clients -> Names \cup {"none", "recv", "ps", "reply", "fork", "ended", "killed"}]
      /\ \A d \in Clients \ {c} : UNCHANGED <<pc[d], ans[d]>>
  BY <1>1, <1>2, <1>3, PreparedKeeps
<1>5. /\ file' \in [Items -> [ino : 0 .. MaxTests, from : 0 .. MaxTests]]
      /\ \A i \in Items : file'[i].from \in {file[i].from, 0}
  BY DEF PcbaInv, TypeOK, enter_pcba_test_mode, exit_pcba_test_mode, Query, Heartbeat, NoFile
<1>6. nfault' \in 0 .. MaxFaults /\ wake' \in BOOLEAN /\ flag' \in [Clients -> BOOLEAN]
  <2>1. nfault' \in 0 .. MaxFaults
    BY DEF PcbaInv, TypeOK, enter_pcba_test_mode, exit_pcba_test_mode, Query, Heartbeat,
       Fault, NoFault
  <2>2. wake' \in BOOLEAN /\ flag' \in [Clients -> BOOLEAN]
    BY DEF PcbaInv, TypeOK, enter_pcba_test_mode, exit_pcba_test_mode, Query, Heartbeat
  <2> QED
    BY <2>1, <2>2
<1>7. TypeOK'
  BY <1>1, <1>4, <1>5, <1>6 DEF PcbaInv, TypeOK
<1>8. Alone(c)
  <2>1. ncmd <= ncmd'
    BY <1>1 DEF PcbaInv, TypeOK
  <2> QED
    BY <1>1, <1>4, <1>5, <2>1 DEF Alone
<1> QED
  BY <1>4, <1>7, <1>8, AloneKeeps

\* recv returns 0 or fails.
LEMMA PcbaInvDisconnect ==
  ASSUME PcbaInv, NEW c \in Clients, Disconnect(c)
  PROVE  PcbaInv'
<1> USE PcbaAssumption
<1>1. /\ pc[c] = "recv" /\ pc' = [pc EXCEPT ![c] = "ended"] /\ wake' = TRUE
      /\ UNCHANGED <<up, cmd, ans, flag, kills, note, test, file, owed, ncmd, nfault>>
  BY DEF Disconnect, Leave
<1>2. TypeOK'
  BY <1>1 DEF PcbaInv, TypeOK
<1>3. Alone(c)
  BY <1>1 DEF PcbaInv, TypeOK, Alone
<1>4. pc'[c] = "ended" /\ Pending(c)' = Pending(c)
  BY <1>1 DEF PcbaInv, TypeOK, Pending
<1>5. ClientOK(c)'
  BY <1>1, <1>4, ClientFacts DEF ClientOK, CommandOK, NoteOK, OwedOK, Starting, Owing,
     Consistent, Names
<1>6. WakeWordComesBack'
  BY <1>1 DEF WakeWordComesBack, Connected
<1> QED
  BY <1>2, <1>3, <1>5, <1>6, AloneKeeps

\* START up to the removal of the result: tests that are over are noted, and
\* none of them has its line in the file any more.
LEMMA PcbaInvRemove ==
  ASSUME PcbaInv, NEW c \in Clients, start_remove(c)
  PROVE  PcbaInv'
<1> USE PcbaAssumption
<1> DEFINE i == cmd[c].item
           a == IF flag[c] THEN NoAns ELSE Err("TEST_MODE_ERR")
<1>1. /\ pc[c] = "START" /\ pc' = [pc EXCEPT ![c] = "ps"]
      /\ file' = [file EXCEPT ![i] = NoFile] /\ note' = [note EXCEPT ![c] = Noted(i)]
      /\ ans' = [ans EXCEPT ![c] = a]
      /\ UNCHANGED <<up, cmd, flag, kills, test, wake, owed, ncmd, nfault>>
  BY DEF start_remove
<1>2. a \in Answers /\ Consistent(a)
  BY AnswerShapes DEF Errs
<1> HIDE DEF a
<1>3. i \in Items /\ cmd[c].name = "START" /\ Noted(i) \in Notes
  BY <1>1, ClientFacts DEF ClientOK, CommandOK, Names, Noted, Notes
<1>4. /\ \A s \in Noted(i).over : test[s].st = "done"
      /\ \A s \in Noted(i).live : test[s].item = i /\ test[s].st = "run"
      /\ 0 \notin Noted(i).over
  BY DEF Noted, Tests
<1>5. TypeOK'
  BY <1>1, <1>2, <1>3 DEF PcbaInv, TypeOK, NoFile
<1>6. Alone(c)
  <2>1. \A j \in Items : file'[j].from \in {file[j].from, 0}
    BY <1>1, <1>3 DEF PcbaInv, TypeOK, NoFile
  <2> QED
    BY <1>1, <2>1 DEF PcbaInv, TypeOK, Alone
<1>7. /\ pc'[c] = "ps" /\ note'[c] = Noted(i) /\ ans'[c] = a /\ file'[i].from = 0
      /\ Pending(c)' = Pending(c) /\ cmd'[c].item = i
  BY <1>1, <1>3 DEF PcbaInv, TypeOK, Pending, NoFile
<1>8. CommandOK(c)' /\ OwedOK(c)'
  BY <1>1, <1>3, <1>7, ClientFacts DEF ClientOK, CommandOK, OwedOK, Owing, Names
<1>9. NoteOK(c)'
  <2> HIDE DEF i
  <2> QED
    BY <1>1, <1>4, <1>7 DEF NoteOK, Starting, Launched
<1>10. WakeWordComesBack'
  BY <1>1, <1>7 DEF WakeWordComesBack, Connected
<1> QED
  BY <1>2, <1>5, <1>6, <1>7, <1>8, <1>9, <1>10, AloneKeeps DEF ClientOK

\* The check of START: a program that ran when the result was removed and is
\* not found has ended.
LEMMA PcbaInvCheck ==
  ASSUME PcbaInv, NEW c \in Clients, start_check(c)
  PROVE  PcbaInv'
<1> USE PcbaAssumption
<1> DEFINE i == cmd[c].item
<1>1. /\ pc[c] = "ps" /\ cmd[c].name = "START" /\ i \in Items
      /\ UNCHANGED <<up, cmd, flag, kills, note, test, file, wake, owed, ncmd>>
  BY ClientFacts DEF start_check, ClientOK, CommandOK
<1>2. PICK a \in Answers : /\ Consistent(a) /\ Checked(c, a)
                           /\ a.err = "OK" => ~Visible(i)
  <2>1. /\ Err("TEST_ITEM_BUSY") \in Answers /\ Consistent(Err("TEST_ITEM_BUSY"))
        /\ Err("TEST_ITEM_BUSY").err = "TEST_ITEM_BUSY"
    BY AnswerShapes DEF Errs
  <2>2. ans[c] \in Answers /\ Consistent(ans[c])
    BY ClientFacts DEF ClientOK
  <2> QED
    BY <2>1, <2>2 DEF start_check
<1> DEFINE p == IF a.err = "OK" /\ i = Storage THEN "fork" ELSE "reply"
<1>3. ans' = [ans EXCEPT ![c] = a] /\ pc' = [pc EXCEPT ![c] = p]
  BY <1>2 DEF Checked
<1>4. nfault' \in 0 .. MaxFaults
  BY DEF PcbaInv, TypeOK, start_check, Fault, NoFault
<1>5. TypeOK'
  BY <1>1, <1>2, <1>3, <1>4 DEF PcbaInv, TypeOK
<1>6. Alone(c)
  BY <1>1, <1>3 DEF PcbaInv, TypeOK, Alone
<1>7. pc'[c] = p /\ ans'[c] = a /\ Pending(c)' = Pending(c)
  BY <1>1, <1>3 DEF PcbaInv, TypeOK, Pending
<1>8. a.err = "OK" => \A s \in note[c].live : test[s].st \in Ended
  <2>1. note[c].live \subseteq Tests
    BY ClientFacts DEF Notes
  <2>2. \A s \in note[c].live : test[s].item = i /\ test[s].st \in Launched
    BY <1>1, ClientFacts DEF ClientOK, NoteOK
  <2> QED
    BY <1>2, <2>1, <2>2 DEF Visible, Ended
<1>9. NoteOK(c)'
  <2>1. \A s \in note[c].over : test[s].st = "done"
    BY ClientFacts DEF ClientOK, NoteOK
  <2>2. file[i].from \notin note[c].over
    BY <1>1, ClientFacts DEF ClientOK, NoteOK, Starting
  <2> QED
    BY <1>1, <1>7, <1>8, <2>1, <2>2 DEF NoteOK, Starting
<1>10. CommandOK(c)'
  BY <1>1, <1>7 DEF CommandOK, Names
<1>11. OwedOK(c)'
  BY <1>1, <1>7, ClientFacts DEF ClientOK, OwedOK, Owing, Names
<1>12. WakeWordComesBack'
  BY <1>1, <1>7 DEF WakeWordComesBack, Connected
<1> QED
  BY <1>2, <1>5, <1>6, <1>7, <1>9, <1>10, <1>11, <1>12, AloneKeeps DEF ClientOK

\* A round of STOP.
LEMMA PcbaInvStop ==
  ASSUME PcbaInv, NEW c \in Clients, stop_pcba_test(c)
  PROVE  PcbaInv'
<1> USE PcbaAssumption
<1> DEFINE i == cmd[c].item
<1>1. /\ pc[c] = "STOP" /\ pc[c] \in Names /\ cmd[c].name = "STOP" /\ i \in Items
      /\ kills[c] \in 0 .. KILLS /\ kills[c] < KILLS
      /\ UNCHANGED <<up, cmd, flag, test, file, wake, owed, ncmd>>
  BY ClientFacts DEF stop_pcba_test, ClientOK, CommandOK, Names
<1>2. /\ \A s \in note[c].over : test[s].st = "done"
      /\ \A s \in note[c].live : s \in Tests /\ test[s].item = i /\ test[s].st \in Launched
  BY <1>1, ClientFacts DEF ClientOK, NoteOK, Notes
<1>3. nfault' \in 0 .. MaxFaults
  BY DEF PcbaInv, TypeOK, stop_pcba_test, Fault, NoFault
<1>4. NoAns \in Answers /\ Consistent(NoAns) /\ NoNote \in Notes /\ NoNote.over = {} /\ NoNote.live = {}
  BY AnswerShapes DEF NoNote, Notes
<1>5. /\ Err("STOP_TEST_ERR") \in Answers /\ Consistent(Err("STOP_TEST_ERR"))
      /\ Err("STOP_TEST_ERR").err # "OK"
  BY AnswerShapes DEF Errs
<1>6. ASSUME NEW a \in Answers, Consistent(a), Prepared(c, a),
             note' \in [Clients -> Notes], \A d \in Clients \ {c} : note'[d] = note[d],
             kills' \in [Clients -> 0 .. KILLS], \A d \in Clients \ {c} : kills'[d] = kills[d],
             a.err = "OK" => \A s \in note'[c].live : test[s].st \in Ended,
             \A s \in note'[c].over : test[s].st = "done"
      PROVE  PcbaInv'
  <2>1. /\ ClientOK(c)' /\ WakeWordComesBack' /\ ans' \in [Clients -> Answers]
        /\ pc' \in [Clients -> Names \cup {"none", "recv", "ps", "reply", "fork", "ended", "killed"}]
        /\ \A d \in Clients \ {c} : UNCHANGED <<pc[d], ans[d]>>
    BY <1>1, <1>6, PreparedKeeps
  <2>2. TypeOK'
    BY <1>1, <1>3, <1>6, <2>1 DEF PcbaInv, TypeOK
  <2>3. Alone(c)
    BY <1>1, <1>6, <2>1 DEF PcbaInv, TypeOK, Alone
  <2> QED
    BY <2>1, <2>2, <2>3, AloneKeeps
<1>7. CASE ~Visible(i) /\ Prepared(c, NoAns) /\ UNCHANGED <<kills, note>>
  <2>1. \A s \in note[c].live : test[s].st \in Ended
    BY <1>2, <1>7 DEF Visible, Ended
  <2>2. note' \in [Clients -> Notes] /\ kills' \in [Clients -> 0 .. KILLS]
    BY <1>7 DEF PcbaInv, TypeOK
  <2> QED
    BY <1>2, <1>4, <1>6, <1>7, <2>1, <2>2
<1>8. CASE Prepared(c, NoAns) /\ note' = [note EXCEPT ![c] = NoNote] /\ UNCHANGED kills
  <2>1. /\ note' \in [Clients -> Notes] /\ kills' \in [Clients -> 0 .. KILLS]
        /\ note'[c] = NoNote /\ \A d \in Clients \ {c} : note'[d] = note[d]
    BY <1>4, <1>8 DEF PcbaInv, TypeOK
  <2> QED
    BY <1>4, <1>6, <1>8, <2>1
<1>9. CASE /\ kills' = [kills EXCEPT ![c] = @ + 1] /\ kills[c] + 1 = KILLS
           /\ Prepared(c, Err("STOP_TEST_ERR")) /\ UNCHANGED note
  <2>1. /\ note' \in [Clients -> Notes] /\ kills' \in [Clients -> 0 .. KILLS]
        /\ \A d \in Clients \ {c} : kills'[d] = kills[d]
    BY <1>1, <1>9 DEF PcbaInv, TypeOK, KILLS
  <2> QED
    BY <1>2, <1>5, <1>6, <1>9, <2>1
<1>10. CASE /\ kills' = [kills EXCEPT ![c] = @ + 1] /\ kills[c] + 1 # KILLS
            /\ UNCHANGED <<ans, pc, note>>
  <2>1. kills[c] + 1 \in 0 .. KILLS /\ kills[c] + 1 < KILLS
    BY <1>1, <1>10 DEF KILLS
  <2>2. TypeOK'
    BY <1>1, <1>3, <1>10, <2>1 DEF PcbaInv, TypeOK
  <2>3. Alone(c)
    BY <1>1, <1>10 DEF PcbaInv, TypeOK, Alone
  <2>4. kills'[c] < KILLS /\ Pending(c)' = Pending(c)
    BY <1>1, <1>10, <2>1 DEF PcbaInv, TypeOK, Pending
  <2>5. ClientOK(c)'
    BY <1>1, <1>10, <2>4, ClientFacts DEF ClientOK, CommandOK, NoteOK, OwedOK, Starting,
       Owing, Consistent
  <2>6. WakeWordComesBack'
    BY <1>1, <1>10 DEF WakeWordComesBack, Connected
  <2> QED
    BY <2>2, <2>3, <2>5, <2>6, AloneKeeps
<1> QED
  BY <1>7, <1>8, <1>9, <1>10 DEF stop_pcba_test

\* Back at recv, the command and what was noted of it are forgotten.
LEMMA AgainKeeps ==
  ASSUME PcbaInv, NEW c \in Clients, Again(c)
  PROVE  /\ pc' \in [Clients -> Names \cup {"none", "recv", "ps", "reply", "fork", "ended", "killed"}]
         /\ cmd' \in [Clients -> Commands \cup {NoCmd}]
         /\ ans' \in [Clients -> Answers]
         /\ kills' \in [Clients -> 0 .. KILLS]
         /\ note' \in [Clients -> Notes]
         /\ pc'[c] = "recv" /\ ~Owing(c)'
         /\ CommandOK(c)' /\ NoteOK(c)' /\ Consistent(ans'[c])
         /\ \A d \in Clients \ {c} : UNCHANGED <<pc[d], cmd[d], ans[d], kills[d], note[d]>>
<1>1. /\ NoAns \in Answers /\ Consistent(NoAns) /\ NoNote \in Notes
      /\ NoNote.over = {} /\ NoNote.live = {}
  BY AnswerShapes DEF NoNote, Notes
<1>2. /\ pc' \in [Clients -> Names \cup {"none", "recv", "ps", "reply", "fork", "ended", "killed"}]
      /\ cmd' \in [Clients -> Commands \cup {NoCmd}]
      /\ ans' \in [Clients -> Answers]
      /\ kills' \in [Clients -> 0 .. KILLS]
      /\ note' \in [Clients -> Notes]
      /\ pc'[c] = "recv" /\ ans'[c] = NoAns /\ note'[c] = NoNote
  BY <1>1 DEF PcbaInv, TypeOK, Again, KILLS
<1>3. \A d \in Clients \ {c} : UNCHANGED <<pc[d], cmd[d], ans[d], kills[d], note[d]>>
  BY DEF PcbaInv, TypeOK, Again
<1> QED
  BY <1>1, <1>2, <1>3 DEF CommandOK, NoteOK, Starting, Owing, Names

\* SEND_CMD.
LEMMA PcbaInvSend ==
  ASSUME PcbaInv, NEW c \in Clients, tcp_command_send(c)
  PROVE  PcbaInv'
<1> USE PcbaAssumption
<1>1. /\ pc[c] = "reply" /\ owed' = [owed EXCEPT ![c] = @ - 1]
      /\ UNCHANGED <<up, flag, test, file, wake, ncmd>>
  BY DEF tcp_command_send
<1>2. /\ owed[c] \in 0 .. MaxCmds /\ owed[c] <= ncmd /\ ncmd \in Nat
      /\ owed[c] = 1 + Cardinality(Pending(c)) /\ Cardinality(Pending(c)) \in Nat
  BY <1>1, ClientFacts, PendingFinite DEF ClientOK, OwedOK, Owing
<1>3. /\ owed' \in [Clients -> 0 .. MaxCmds] /\ owed'[c] = Cardinality(Pending(c))
      /\ \A d \in Clients \ {c} : owed'[d] = owed[d]
      /\ owed'[c] <= ncmd /\ Pending(c)' = Pending(c)
  BY <1>1, <1>2 DEF PcbaInv, TypeOK, Pending
<1>4. nfault' \in 0 .. MaxFaults
  BY DEF PcbaInv, TypeOK, tcp_command_send, Fault, NoFault
<1>5. CASE Again(c)
  <2>1. TypeOK'
    BY <1>1, <1>3, <1>4, <1>5, AgainKeeps DEF PcbaInv, TypeOK
  <2>2. Alone(c)
    <3>1. ncmd <= ncmd' /\ \A i \in Items : file'[i].from \in {file[i].from, 0}
      BY <1>1, <1>2
    <3> QED
      BY <1>1, <1>3, <1>5, <3>1, AgainKeeps DEF Alone
  <2>3. ClientOK(c)'
    <3>1. OwedOK(c)'
      BY <1>1, <1>2, <1>3, <1>5, AgainKeeps DEF OwedOK
    <3> QED
      BY <1>5, <3>1, AgainKeeps DEF ClientOK
  <2>4. WakeWordComesBack'
    BY <1>1, <1>5, AgainKeeps DEF WakeWordComesBack, Connected
  <2> QED
    BY <2>1, <2>2, <2>3, <2>4, AloneKeeps
<1>6. CASE /\ ans[c].err = "OK" /\ cmd[c].name = "START"
           /\ pc' = [pc EXCEPT ![c] = "fork"] /\ UNCHANGED <<cmd, ans, kills, note>>
  <2>1. TypeOK'
    BY <1>1, <1>3, <1>4, <1>6 DEF PcbaInv, TypeOK
  <2>2. Alone(c)
    <3>1. ncmd <= ncmd' /\ \A i \in Items : file'[i].from \in {file[i].from, 0}
      BY <1>1, <1>2
    <3> QED
      BY <1>1, <1>3, <1>6, <3>1 DEF PcbaInv, TypeOK, Alone
  <2>3. pc'[c] = "fork" /\ cmd[c].item # Storage
    BY <1>1, <1>6, ClientFacts DEF PcbaInv, TypeOK, ClientOK, OwedOK
  <2>4. OwedOK(c)'
    BY <1>1, <1>2, <1>3, <1>6, <2>3 DEF OwedOK, Owing, Names
  <2>5. CommandOK(c)' /\ NoteOK(c)' /\ Consistent(ans'[c])
    BY <1>1, <1>6, <2>3, ClientFacts DEF ClientOK, CommandOK, NoteOK, Starting, Names
  <2>6. WakeWordComesBack'
    BY <1>1, <2>3 DEF WakeWordComesBack, Connected
  <2> QED
    BY <2>1, <2>2, <2>4, <2>5, <2>6, AloneKeeps DEF ClientOK
<1>7. CASE Killed(c)
  <2>1. pc' = [pc EXCEPT ![c] = "killed"] /\ UNCHANGED <<cmd, ans, kills, note>>
    BY <1>7 DEF Killed
  <2>2. TypeOK'
    BY <1>1, <1>3, <1>4, <2>1 DEF PcbaInv, TypeOK
  <2>3. Alone(c)
    <3>1. ncmd <= ncmd' /\ \A i \in Items : file'[i].from \in {file[i].from, 0}
      BY <1>1, <1>2
    <3> QED
      BY <1>1, <1>3, <2>1, <3>1 DEF PcbaInv, TypeOK, Alone
  <2>4. pc'[c] = "killed"
    BY <2>1 DEF PcbaInv, TypeOK
  <2>5. OwedOK(c)'
    BY <1>1, <1>2, <1>3, <2>4 DEF OwedOK, Owing, Names
  <2>6. CommandOK(c)' /\ NoteOK(c)' /\ Consistent(ans'[c])
    BY <1>1, <2>1, <2>4, ClientFacts DEF ClientOK, CommandOK, NoteOK, Starting, Names
  <2>7. WakeWordComesBack'
    BY <2>4 DEF WakeWordComesBack, Connected
  <2> QED
    BY <2>2, <2>3, <2>5, <2>6, <2>7, AloneKeeps DEF ClientOK
<1> QED
  BY <1>5, <1>6, <1>7 DEF tcp_command_send

\* The fork fails and the client is left.
LEMMA PcbaInvForkFails ==
  ASSUME PcbaInv, NEW c \in Clients, pc[c] = "fork", Fault, Leave(c),
         owed' = [owed EXCEPT ![c] = IF cmd[c].item = Storage THEN @ - 1 ELSE @],
         UNCHANGED <<cmd, ans, kills, note, test, up, flag, file, ncmd>>
  PROVE  PcbaInv'
<1> USE PcbaAssumption
<1>1. /\ owed[c] \in 0 .. MaxCmds /\ owed[c] <= ncmd /\ ncmd \in Nat
      /\ owed[c] = (IF cmd[c].item = Storage THEN 1 ELSE 0) + Cardinality(Pending(c))
      /\ Cardinality(Pending(c)) \in Nat
  BY ClientFacts, PendingFinite DEF ClientOK, OwedOK, Owing, Names
<1>2. /\ owed' \in [Clients -> 0 .. MaxCmds] /\ owed'[c] = Cardinality(Pending(c))
      /\ owed'[c] <= ncmd /\ Pending(c)' = Pending(c)
  BY <1>1 DEF PcbaInv, TypeOK, Pending
<1>3. nfault' \in 0 .. MaxFaults
  BY DEF PcbaInv, TypeOK, Fault
<1>4. TypeOK'
  BY <1>2, <1>3 DEF PcbaInv, TypeOK, Leave
<1>5. Alone(c)
  <2>1. \A d \in Clients \ {c} : owed'[d] = owed[d] /\ pc'[d] = pc[d]
    BY DEF PcbaInv, TypeOK, Leave
  <2>2. ncmd <= ncmd' /\ \A i \in Items : file'[i].from \in {file[i].from, 0}
    BY <1>1
  <2> QED
    BY <2>1, <2>2 DEF Alone
<1>6. pc'[c] = "ended"
  BY DEF PcbaInv, TypeOK, Leave
<1>7. OwedOK(c)'
  BY <1>1, <1>2, <1>6 DEF OwedOK, Owing, Names
<1>8. CommandOK(c)' /\ NoteOK(c)' /\ Consistent(ans'[c])
  BY <1>6, ClientFacts DEF ClientOK, CommandOK, NoteOK, Starting, Names
<1>9. WakeWordComesBack'
  BY DEF WakeWordComesBack, Connected, Leave
<1> QED
  BY <1>4, <1>5, <1>7, <1>8, <1>9, AloneKeeps DEF ClientOK

\* The child of a test is forked: it owes the answer in place of its parent if
\* the test is the storage one.
LEMMA PcbaInvFork ==
  ASSUME PcbaInv, NEW c \in Clients, pc[c] = "fork", NEW t \in Tests, test[t].st = "unused",
         test' = [test EXCEPT ![t] = [NoTest EXCEPT !.item = cmd[c].item,
                    !.owner = c, !.st = "forked", !.note = note[c]]],
         Again(c), UNCHANGED <<wake, owed, up, flag, file, ncmd, nfault>>
  PROVE  PcbaInv'
<1> USE PcbaAssumption
<1> DEFINE new == [NoTest EXCEPT !.item = cmd[c].item, !.owner = c, !.st = "forked",
                                 !.note = note[c]]
           R == [item : Items, owner : Clients \cup {0},
                 st : {"unused", "forked", "run", "save", "write", "query", "reply", "done"},
                 out : Outs \cup {"none"}, ino : 0 .. MaxTests, note : Notes, ans : Answers]
<1>1. /\ new \in R /\ new.item = cmd[c].item /\ new.owner = c /\ new.st = "forked"
      /\ new.note = note[c] /\ new.ans = NoAns
  <2>1. NoTest \in R
    BY AnswerShapes DEF NoTest, NoNote, Notes
  <2>2. cmd[c].item \in Items /\ note[c] \in Notes
    BY ClientFacts
  <2>3. NoTest.ans = NoAns
    BY DEF NoTest
  <2> QED
    BY <2>1, <2>2, <2>3
<1> HIDE DEF new
<1>2. test \in [Tests -> R] /\ test' \in [Tests -> R]
  BY <1>1 DEF PcbaInv, TypeOK, new
<1>3. test'[t] = new /\ \A s \in Tests \ {t} : test'[s] = test[s]
  BY <1>2 DEF new
<1>4. TypeOK'
  BY <1>2, AgainKeeps DEF PcbaInv, TypeOK
<1>5. \A d \in Clients : note[d].over \subseteq Tests /\ note[d].live \subseteq Tests
  BY DEF PcbaInv, TypeOK, Notes
<1>6. \A s \in Tests : test[s].note.over \subseteq Tests /\ test[s].note.live \subseteq Tests
  BY DEF PcbaInv, TypeOK, Notes
<1>7. ASSUME NEW d \in Clients \ {c} PROVE ClientOK(d)'
  <2>1. UNCHANGED <<pc[d], cmd[d], ans[d], kills[d], note[d], owed[d], ncmd, file>>
    BY <1>7, AgainKeeps
  <2>2. Pending(d)' = Pending(d)
    BY <1>1, <1>3, <1>7 DEF Pending
  <2>3. ClientOK(d)
    BY DEF PcbaInv
  <2>4. NoteOK(d)'
    BY <1>3, <1>5, <2>1, <2>3 DEF ClientOK, NoteOK, Starting, Launched, Ended
  <2> QED
    BY <2>1, <2>2, <2>3, <2>4 DEF ClientOK, CommandOK, OwedOK, Owing
<1>8. ClientOK(c)'
  <2>1. owed[c] = (IF cmd[c].item = Storage THEN 1 ELSE 0) + Cardinality(Pending(c))
    BY ClientFacts DEF ClientOK, OwedOK, Owing, Names
  <2>2. owed[c] = Cardinality(Pending(c)')
    <3>1. CASE cmd[c].item = Storage
      <4>1. Pending(c)' = Pending(c) \cup {t} /\ t \notin Pending(c)
        BY <1>1, <1>3, <3>1 DEF Pending
      <4>2. Cardinality(Pending(c) \cup {t}) = Cardinality(Pending(c)) + 1
        BY <4>1, PendingFinite, FS_AddElement
      <4> QED
        BY <2>1, <3>1, <4>1, <4>2, PendingFinite
    <3>2. CASE cmd[c].item # Storage
      <4>1. Pending(c)' = Pending(c)
        BY <1>1, <1>3, <3>2 DEF Pending
      <4> QED
        BY <2>1, <3>2, <4>1, PendingFinite
    <3> QED
      BY <3>1, <3>2
  <2>3. OwedOK(c)'
    BY <2>2, AgainKeeps, ClientFacts DEF ClientOK, OwedOK
  <2> QED
    BY <2>3, AgainKeeps DEF ClientOK
<1>9. ASSUME NEW s \in Tests PROVE TestOK(s)'
  <2>1. CASE s # t
    BY <1>3, <1>6, <2>1 DEF PcbaInv, TestOK, Ended, Launched, Consistent
  <2>2. CASE s = t
    <3>1. /\ \A r \in note[c].over : test[r].st = "done"
          /\ file[cmd[c].item].from \notin note[c].over
          /\ \A r \in note[c].live : test[r].st \in Ended
      <4>1. CommandOK(c) /\ NoteOK(c)
        BY ClientFacts DEF ClientOK
      <4>2. Starting(c)
        BY <4>1 DEF CommandOK, Starting
      <4> QED
        BY <4>1, <4>2 DEF NoteOK
    <3>2. /\ \A r \in note[c].over : test'[r].st = "done"
          /\ \A r \in note[c].live : test'[r].st \in Ended
      BY <1>3, <1>5, <3>1 DEF Ended, Launched
    <3> QED
      <4>1. /\ test'[s].note = note[c] /\ test'[s].item = cmd[c].item /\ test'[s].owner = c
            /\ test'[s].st = "forked" /\ test'[s].ans = NoAns
        BY <1>1, <1>3, <2>2
      <4>2. Consistent(test'[s].ans)
        BY <4>1, AnswerShapes
      <4> QED
        BY <3>1, <3>2, <4>1, <4>2 DEF TestOK
  <2> QED
    BY <2>1, <2>2
<1>10. ASSUME NEW i \in Items PROVE FileOK(i)'
  <2>1. file[i].from # 0 => file[i].from \in Tests /\ file[i].from # t
    BY SMTT(40) DEF PcbaInv, TypeOK, FileOK, Tests
  <2> QED
    BY <1>3, <2>1 DEF PcbaInv, FileOK
<1>11. WakeWordComesBack'
  BY AgainKeeps DEF WakeWordComesBack, Connected
<1> QED
  BY <1>4, <1>7, <1>8, <1>9, <1>10, <1>11 DEF PcbaInv

-----------------------------------------------------------------------------
\* A step of the child of test t: it goes on, its item, owner and note stay,
\* what has ended has ended, and only its own line gets into a file.
Progress(t) ==
  /\ UNCHANGED <<up, pc, cmd, ans, flag, kills, note, wake, ncmd>>
  /\ nfault' \in 0 .. MaxFaults
  /\ \A s \in Tests \ {t} : test'[s] = test[s]
  /\ test'[t].item = test[t].item /\ test'[t].owner = test[t].owner
  /\ test'[t].note = test[t].note
  /\ test[t].st \notin {"unused", "done"} /\ test'[t].st # "unused"
  /\ test[t].st \in Launched => test'[t].st \in Launched
  /\ test[t].st \in Ended => test'[t].st \in Ended
  /\ test[t].out # "none" => test'[t].out = test[t].out
  /\ test'[t].st = "write" => test'[t].out # "none"
  /\ Consistent(test'[t].ans)
  /\ test'[t].st \in {"query", "reply"} => test[t].item = Storage
  /\ \A i \in Items :
       \/ file'[i].from \in {file[i].from, 0}
       \/ file'[i].from = t /\ test[t].out # "none"

\* What such a step keeps, whether or not it answers a storage START.
LEMMA ProgressKeeps ==
  ASSUME PcbaInv, NEW t \in Tests, Progress(t),
         test' \in [Tests -> [item : Items, owner : Clients \cup {0},
           st : {"unused", "forked", "run", "save", "write", "query", "reply", "done"},
           out : Outs \cup {"none"}, ino : 0 .. MaxTests, note : Notes, ans : Answers]],
         file' \in [Items -> [ino : 0 .. MaxTests, from : 0 .. MaxTests]],
         \/ owed' = owed /\ (test'[t].st # "done" \/ test[t].item # Storage)
         \/ /\ owed' = [owed EXCEPT ![test[t].owner] = @ - 1]
            /\ test'[t].st = "done" /\ test[t].item = Storage
  PROVE  PcbaInv'
<1> USE PcbaAssumption
<1>1. \A d \in Clients : note[d].over \subseteq Tests /\ note[d].live \subseteq Tests
  BY DEF PcbaInv, TypeOK, Notes
<1>2. \A s \in Tests : test[s].note.over \subseteq Tests /\ test[s].note.live \subseteq Tests
  BY DEF PcbaInv, TypeOK, Notes
<1>3. \A s \in Tests : /\ test[s].st = "done" => test'[s].st = "done"
                       /\ test[s].st \in Launched => test'[s].st \in Launched
                       /\ test[s].st \in Ended => test'[s].st \in Ended
                       /\ test'[s].item = test[s].item /\ test'[s].note = test[s].note
                       /\ test[s].st # "unused" => test'[s].st # "unused"
                       /\ test'[s].st # "unused" => test[s].st # "unused"
                       /\ test[s].out # "none" => test'[s].out # "none"
  BY DEF Progress
<1>4. \A i \in Items : \A S \in SUBSET Tests :
        /\ file[i].from \notin S
        /\ \A s \in S : test[s].st = "done"
        => file'[i].from \notin S
  <2>1. \A S \in SUBSET Tests : 0 \notin S /\ ((\A s \in S : test[s].st = "done") => t \notin S)
    BY DEF Progress, Tests
  <2> QED
    BY <2>1 DEF Progress
<1>5. ASSUME NEW c \in Clients
      PROVE  /\ owed'[c] = (IF Owing(c) THEN 1 ELSE 0) + Cardinality(Pending(c)')
             /\ owed'[c] \in 0 .. MaxCmds /\ owed'[c] <= owed[c]
  <2>1. /\ owed[c] = (IF Owing(c) THEN 1 ELSE 0) + Cardinality(Pending(c))
        /\ owed[c] \in 0 .. MaxCmds /\ Cardinality(Pending(c)) \in Nat
    BY ClientFacts, PendingFinite DEF ClientOK, OwedOK
  <2>2. CASE owed' = owed /\ (test'[t].st # "done" \/ test[t].item # Storage)
    <3>1. Pending(c)' = Pending(c)
      BY <2>2 DEF Progress, Pending
    <3> QED
      BY <2>1, <2>2, <3>1
  <2>3. CASE /\ owed' = [owed EXCEPT ![test[t].owner] = @ - 1]
             /\ test'[t].st = "done" /\ test[t].item = Storage /\ c # test[t].owner
    <3>1. Pending(c)' = Pending(c)
      BY <2>3 DEF Progress, Pending
    <3>2. owed'[c] = owed[c]
      BY <2>3 DEF PcbaInv, TypeOK
    <3> QED
      BY <2>1, <3>1, <3>2
  <2>4. CASE /\ owed' = [owed EXCEPT ![test[t].owner] = @ - 1]
             /\ test'[t].st = "done" /\ test[t].item = Storage /\ c = test[t].owner
    <3>1. Pending(c)' = Pending(c) \ {t} /\ t \in Pending(c) /\ owed'[c] = owed[c] - 1
      BY <2>4 DEF Progress, Pending, PcbaInv, TypeOK
    <3>2. Cardinality(Pending(c) \ {t}) = Cardinality(Pending(c)) - 1
      BY <3>1, PendingFinite, FS_RemoveElement
    <3>3. Cardinality(Pending(c) \ {t}) \in Nat
      BY PendingFinite, FS_RemoveElement, FS_CardinalityType
    <3> QED
      BY <2>1, <3>1, <3>2, <3>3
  <2> QED
    BY <2>2, <2>3, <2>4
<1>6. TypeOK'
  <2>1. owed' \in [Clients -> 0 .. MaxCmds]
    BY <1>5 DEF PcbaInv, TypeOK
  <2> QED
    BY <2>1 DEF Progress, PcbaInv, TypeOK
<1>7. ASSUME NEW c \in Clients PROVE ClientOK(c)'
  <2>1. UNCHANGED <<pc, cmd, ans, kills, note, ncmd>> /\ ClientOK(c) /\ cmd[c].item \in Items
    BY ClientFacts DEF Progress
  <2>2. CommandOK(c)' /\ Consistent(ans'[c])
    BY <2>1 DEF ClientOK, CommandOK
  <2>3. NoteOK(c)'
    BY <1>1, <1>3, <1>4, <2>1 DEF ClientOK, NoteOK, Starting
  <2>4. OwedOK(c)'
    <3>1. Owing(c)' = Owing(c)
      BY <2>1 DEF Owing
    <3>2. owed'[c] <= ncmd
      BY <1>5, <2>1, ClientFacts DEF ClientOK, OwedOK
    <3> QED
      BY <1>5, <2>1, <3>1, <3>2 DEF ClientOK, OwedOK
  <2> QED
    BY <2>2, <2>3, <2>4 DEF ClientOK
<1>8. ASSUME NEW s \in Tests PROVE TestOK(s)'
  <2>1. TestOK(s) /\ test[s].item \in Items
    BY DEF PcbaInv, TypeOK
  <2>2. /\ \A r \in test'[s].note.over : test'[r].st = "done"
        /\ \A r \in test'[s].note.live : test'[r].st \in Ended
        /\ test'[s].st # "unused" => file'[test'[s].item].from \notin test'[s].note.over
    BY <1>2, <1>3, <1>4, <2>1 DEF TestOK
  <2>3. CASE s # t
    BY <2>1, <2>2, <2>3 DEF TestOK, Progress
  <2>4. CASE s = t
    BY <2>1, <2>2, <2>4 DEF TestOK, Progress
  <2> QED
    BY <2>3, <2>4
<1>9. ASSUME NEW i \in Items PROVE FileOK(i)'
  <2>1. file[i].from # 0 => /\ file[i].from \in Tests /\ test[file[i].from].st # "unused"
                            /\ test[file[i].from].out # "none"
    <3>1. file[i].from \in 0 .. MaxTests /\ FileOK(i)
      BY DEF PcbaInv, TypeOK
    <3>2. \A n \in 0 .. MaxTests : n # 0 => n \in Tests
      BY DEF Tests
    <3> QED
      BY <3>1, <3>2 DEF FileOK
  <2>2. file'[i].from \in {file[i].from, 0} \/ (file'[i].from = t /\ test[t].out # "none")
    BY DEF Progress
  <2> QED
    BY <1>3, <2>1, <2>2 DEF FileOK, Progress
<1>10. WakeWordComesBack'
  BY DEF PcbaInv, WakeWordComesBack, Connected, Progress
<1> QED
  BY <1>6, <1>7, <1>8, <1>9, <1>10 DEF PcbaInv

Records == [item : Items, owner : Clients \cup {0},
            st : {"unused", "forked", "run", "save", "write", "query", "reply", "done"},
            out : Outs \cup {"none"}, ino : 0 .. MaxTests, note : Notes, ans : Answers]

\* The steps of a child that leave the answer owed.
LEMMA PcbaInvChild ==
  ASSUME PcbaInv, NEW t \in Tests,
         \/ Launch(t) \/ End(t) \/ (\E o \in Outs : PrintLine(t, o))
         \/ OpenResult(t) \/ WriteResult(t) \/ StorageQuery(t)
  PROVE  PcbaInv'
<1> USE PcbaAssumption
<1>1. /\ test \in [Tests -> Records] /\ test[t] \in Records
      /\ file \in [Items -> [ino : 0 .. MaxTests, from : 0 .. MaxTests]]
      /\ test[t].item \in Items /\ TestOK(t)
  BY DEF PcbaInv, TypeOK, Records
<1>2. t \in 0 .. MaxTests /\ t # 0
  BY DEF Tests
<1>3. /\ UNCHANGED <<up, pc, cmd, ans, flag, kills, note, wake, ncmd>>
      /\ UNCHANGED owed
      /\ nfault' \in 0 .. MaxFaults
  BY DEF PcbaInv, TypeOK, Launch, End, PrintLine, OpenResult, WriteResult, StorageQuery,
     childFrame, procVars, Fault, NoFault
<1>4. /\ Err("TEST_FORK_ERR") \in Answers /\ Consistent(Err("TEST_FORK_ERR"))
      /\ Err("SAVE_RESULE_ERR") \in Answers /\ Consistent(Err("SAVE_RESULE_ERR"))
      /\ NoAns \in Answers /\ Consistent(NoAns)
      /\ query_test_result(Storage) \in Answers /\ Consistent(query_test_result(Storage))
  BY AnswerShapes, QueryShape DEF Errs
<1>5. ASSUME NEW r \in Records, test' = [test EXCEPT ![t] = r],
             file' \in [Items -> [ino : 0 .. MaxTests, from : 0 .. MaxTests]],
             r.item = test[t].item, r.owner = test[t].owner, r.note = test[t].note,
             test[t].st \notin {"unused", "done"}, r.st # "unused",
             test[t].st \in Launched => r.st \in Launched,
             test[t].st \in Ended => r.st \in Ended,
             test[t].out # "none" => r.out = test[t].out,
             r.st = "write" => r.out # "none",
             Consistent(r.ans),
             r.st \in {"query", "reply"} => test[t].item = Storage,
             r.st # "done" \/ test[t].item # Storage,
             \A i \in Items : \/ file'[i].from \in {file[i].from, 0}
                              \/ (file'[i].from = t /\ test[t].out # "none")
      PROVE  PcbaInv'
  <2>1. /\ test' \in [Tests -> Records] /\ test'[t] = r
        /\ \A s \in Tests \ {t} : test'[s] = test[s]
    BY <1>1, <1>5
  <2>2. Progress(t)
    BY <1>3, <1>5, <2>1 DEF Progress
  <2> QED
    BY <1>3, <1>5, <2>1, <2>2, ProgressKeeps DEF Records
<1> DEFINE fails(e) == [test[t] EXCEPT
             !.st = IF test[t].item = Storage THEN "reply" ELSE "done",
             !.ans = IF test[t].item = Storage THEN Err(e) ELSE NoAns]
<1>6. CASE Launch(t)
  <2>1. test[t].st = "forked" /\ file' = file
    BY <1>6 DEF Launch
  <2>2. CASE test' = [test EXCEPT ![t].st = "run"]
    <3> DEFINE r == [test[t] EXCEPT !.st = "run"]
    <3>1. test' = [test EXCEPT ![t] = r]
      BY <2>2
    <3>2. /\ r \in Records /\ r.item = test[t].item /\ r.owner = test[t].owner
          /\ r.note = test[t].note /\ r.st = "run" /\ r.out = test[t].out /\ r.ans = test[t].ans
      BY <1>1 DEF Records
    <3> HIDE DEF r
    <3> QED
      BY <1>1, <1>5, <2>1, <3>1, <3>2 DEF TestOK, Launched, Ended
  <2>3. CASE ItemFails(t, "TEST_FORK_ERR")
    <3> DEFINE r == fails("TEST_FORK_ERR")
    <3>1. test' = [test EXCEPT ![t] = r]
      BY <2>3 DEF ItemFails
    <3>2. /\ r \in Records /\ r.item = test[t].item /\ r.owner = test[t].owner
          /\ r.note = test[t].note /\ r.out = test[t].out /\ Consistent(r.ans)
          /\ r.st = IF test[t].item = Storage THEN "reply" ELSE "done"
      BY <1>1, <1>4 DEF Records
    <3> HIDE DEF r
    <3> QED
      BY <1>1, <1>5, <2>1, <3>1, <3>2 DEF Launched, Ended
  <2> QED
    BY <1>6, <2>2, <2>3 DEF Launch
<1>7. CASE End(t)
  <2> DEFINE r == [test[t] EXCEPT !.st = "save"]
  <2>1. test[t].st = "run" /\ file' = file /\ test' = [test EXCEPT ![t] = r]
    BY <1>7 DEF End
  <2>2. /\ r \in Records /\ r.item = test[t].item /\ r.owner = test[t].owner
        /\ r.note = test[t].note /\ r.st = "save" /\ r.out = test[t].out /\ r.ans = test[t].ans
    BY <1>1 DEF Records
  <2> HIDE DEF r
  <2> QED
    BY <1>1, <1>5, <2>1, <2>2 DEF TestOK, Launched, Ended
<1>8. ASSUME NEW o \in Outs, PrintLine(t, o) PROVE PcbaInv'
  <2> DEFINE r == [test[t] EXCEPT !.out = o]
  <2>1. /\ test[t].st = "run" /\ test[t].out = "none" /\ file' = file
        /\ test' = [test EXCEPT ![t] = r]
    BY <1>8 DEF PrintLine
  <2>2. /\ r \in Records /\ r.item = test[t].item /\ r.owner = test[t].owner
        /\ r.note = test[t].note /\ r.st = "run" /\ r.ans = test[t].ans
    BY <1>1, <2>1 DEF Records
  <2> HIDE DEF r
  <2> QED
    BY <1>1, <1>5, <2>1, <2>2 DEF TestOK, Launched, Ended
<1>9. CASE OpenResult(t)
  <2>1. test[t].st = "save"
    BY <1>9 DEF OpenResult
  <2>2. CASE test[t].out = "none" /\ test' = [test EXCEPT ![t].st = AfterSave(t)] /\ UNCHANGED file
    <3> DEFINE r == [test[t] EXCEPT !.st = AfterSave(t)]
    <3>1. test' = [test EXCEPT ![t] = r]
      BY <2>2
    <3>2. /\ r \in Records /\ r.item = test[t].item /\ r.owner = test[t].owner
          /\ r.note = test[t].note /\ r.out = test[t].out /\ r.ans = test[t].ans
          /\ r.st = IF test[t].item = Storage THEN "query" ELSE "done"
      BY <1>1 DEF Records, AfterSave
    <3> HIDE DEF r
    <3> QED
      BY <1>1, <1>5, <2>1, <2>2, <3>1, <3>2 DEF TestOK, Launched, Ended
  <2>3. CASE ItemFails(t, "SAVE_RESULE_ERR") /\ UNCHANGED file
    <3> DEFINE r == fails("SAVE_RESULE_ERR")
    <3>1. test' = [test EXCEPT ![t] = r]
      BY <2>3 DEF ItemFails
    <3>2. /\ r \in Records /\ r.item = test[t].item /\ r.owner = test[t].owner
          /\ r.note = test[t].note /\ r.out = test[t].out /\ Consistent(r.ans)
          /\ r.st = IF test[t].item = Storage THEN "reply" ELSE "done"
      BY <1>1, <1>4 DEF Records
    <3> HIDE DEF r
    <3> QED
      BY <1>1, <1>5, <2>1, <2>3, <3>1, <3>2 DEF Launched, Ended
  <2>4. CASE /\ test[t].out # "none"
             /\ file' = [file EXCEPT ![test[t].item] =
                           [ino |-> IF @.ino = 0 THEN t ELSE @.ino, from |-> 0]]
             /\ test' = [test EXCEPT ![t].st = "write", ![t].ino = file'[test[t].item].ino]
    <3> DEFINE n == file'[test[t].item].ino
               r == [test[t] EXCEPT !.st = "write", !.ino = n]
    <3>1. test' = [test EXCEPT ![t] = r]
      <4>1. test' = [test EXCEPT ![t].st = "write", ![t].ino = n]
        BY <2>4
      <4> HIDE DEF n
      <4> QED
        BY <4>1
    <3>2. /\ file' \in [Items -> [ino : 0 .. MaxTests, from : 0 .. MaxTests]]
          /\ \A i \in Items : file'[i].from \in {file[i].from, 0}
      BY <1>1, <1>2, <2>4
    <3>3. n \in 0 .. MaxTests
      BY <1>1, <3>2
    <3> HIDE DEF n
    <3>4. /\ r \in Records /\ r.item = test[t].item /\ r.owner = test[t].owner
          /\ r.note = test[t].note /\ r.out = test[t].out /\ r.ans = test[t].ans
          /\ r.st = "write"
      BY <1>1, <3>3 DEF Records
    <3> HIDE DEF r
    <3> QED
      BY <1>1, <1>5, <2>1, <2>4, <3>1, <3>2, <3>4 DEF TestOK, Launched, Ended
  <2> QED
    BY <1>9, <2>2, <2>3, <2>4 DEF OpenResult
<1>10. CASE WriteResult(t)
  <2> DEFINE r == [test[t] EXCEPT !.st = AfterSave(t), !.ino = 0]
  <2>1. test[t].st = "write" /\ test' = [test EXCEPT ![t] = r]
    BY <1>10 DEF WriteResult
  <2>2. test[t].out # "none"
    BY <1>1, <2>1 DEF TestOK
  <2>3. /\ file' \in [Items -> [ino : 0 .. MaxTests, from : 0 .. MaxTests]]
        /\ \A i \in Items : file'[i].from \in {file[i].from, t}
    BY <1>1, <1>2, <1>10 DEF WriteResult
  <2>4. /\ r \in Records /\ r.item = test[t].item /\ r.owner = test[t].owner
        /\ r.note = test[t].note /\ r.out = test[t].out /\ r.ans = test[t].ans
        /\ r.st = IF test[t].item = Storage THEN "query" ELSE "done"
    <3>1. /\ AfterSave(t) \in {"query", "done"} /\ 0 \in 0 .. MaxTests
          /\ AfterSave(t) = IF test[t].item = Storage THEN "query" ELSE "done"
      BY <1>1, <1>2 DEF AfterSave
    <3> QED
      BY <1>1, <3>1 DEF Records
  <2> HIDE DEF r
  <2> QED
    BY <1>1, <1>5, <2>1, <2>2, <2>3, <2>4 DEF TestOK, Launched, Ended
<1>11. CASE StorageQuery(t)
  <2> DEFINE q == query_test_result(Storage)
             r == [test[t] EXCEPT !.st = "reply", !.ans = q]
  <2>1. test[t].st = "query" /\ file' = file /\ test' = [test EXCEPT ![t] = r]
    BY <1>11 DEF StorageQuery
  <2>2. q \in Answers /\ Consistent(q)
    BY <1>4
  <2> HIDE DEF q
  <2>3. /\ r \in Records /\ r.item = test[t].item /\ r.owner = test[t].owner
        /\ r.note = test[t].note /\ r.out = test[t].out /\ r.ans = q /\ r.st = "reply"
    BY <1>1, <2>2 DEF Records
  <2> HIDE DEF r
  <2> QED
    BY <1>1, <1>5, <2>1, <2>2, <2>3 DEF TestOK, Launched, Ended
<1> QED
  BY <1>6, <1>7, <1>8, <1>9, <1>10, <1>11

\* The child of the storage test answers, or gives the answer up.
LEMMA PcbaInvReply ==
  ASSUME PcbaInv, NEW t \in Tests, StorageReply(t)
  PROVE  PcbaInv'
<1> USE PcbaAssumption
<1> DEFINE r == [test[t] EXCEPT !.st = "done", !.ans = NoAns]
<1>1. /\ test \in [Tests -> Records] /\ test[t] \in Records
      /\ file \in [Items -> [ino : 0 .. MaxTests, from : 0 .. MaxTests]]
      /\ TestOK(t)
  BY DEF PcbaInv, TypeOK, Records
<1>2. /\ test[t].st = "reply" /\ owed' = [owed EXCEPT ![test[t].owner] = @ - 1]
      /\ test' = [test EXCEPT ![t] = r] /\ file' = file
      /\ UNCHANGED <<up, pc, cmd, ans, flag, kills, note, wake, ncmd>>
  BY DEF StorageReply, childFrame, procVars
<1>3. nfault' \in 0 .. MaxFaults
  BY DEF PcbaInv, TypeOK, StorageReply, Fault, NoFault
<1>4. /\ r \in Records /\ r.item = test[t].item /\ r.owner = test[t].owner
      /\ r.note = test[t].note /\ r.out = test[t].out /\ Consistent(r.ans) /\ r.st = "done"
  BY <1>1, AnswerShapes DEF Records
<1> HIDE DEF r
<1>5. /\ test' \in [Tests -> Records] /\ test'[t] = r
      /\ \A s \in Tests \ {t} : test'[s] = test[s]
  BY <1>1, <1>2, <1>4
<1>6. test[t].item = Storage
  BY <1>1, <1>2 DEF TestOK
<1>7. Progress(t)
  BY <1>2, <1>3, <1>4, <1>5, <1>6 DEF Progress, Launched, Ended
<1> QED
  BY <1>1, <1>2, <1>4, <1>5, <1>6, <1>7, ProgressKeeps DEF Records

\* Every step keeps the invariant.
LEMMA PcbaInvStep ==
  ASSUME PcbaInv, [Next]_vars
  PROVE  PcbaInv'
<1>1. CASE UNCHANGED vars
  <2>1. \A c \in Clients : Pending(c)' = Pending(c)
    BY <1>1 DEF vars, Pending
  <2>2. TypeOK' /\ WakeWordComesBack'
    BY <1>1 DEF PcbaInv, TypeOK, WakeWordComesBack, Connected, vars, procVars
  <2>3. \A c \in Clients : ClientOK(c)'
    BY <1>1, <2>1 DEF PcbaInv, ClientOK, CommandOK, NoteOK, OwedOK, Starting, Owing, vars, procVars
  <2>4. (\A t \in Tests : TestOK(t)') /\ (\A i \in Items : FileOK(i)')
    BY <1>1 DEF PcbaInv, TestOK, FileOK, vars
  <2> QED
    BY <2>2, <2>3, <2>4 DEF PcbaInv
<1>2. ASSUME NEW c \in Clients, start_pcba_test_proccess(c) PROVE PcbaInv'
  BY <1>2, PcbaInvFork, PcbaInvForkFails DEF start_pcba_test_proccess, NoFault
<1>3. ASSUME NEW c \in Clients, Accept(c) \/ Disconnect(c) \/ ClientStep(c) PROVE PcbaInv'
  BY <1>2, <1>3, PcbaInvAccept, PcbaInvDisconnect, PcbaInvSimple, PcbaInvRemove, PcbaInvCheck,
     PcbaInvStop, PcbaInvSend DEF ClientStep
<1>4. ASSUME NEW t \in Tests, ChildStep(t) \/ End(t) PROVE PcbaInv'
  BY <1>4, PcbaInvChild, PcbaInvReply DEF ChildStep
<1>5. ASSUME NEW t \in Tests, NEW o \in Outs, PrintLine(t, o) PROVE PcbaInv'
  BY <1>5, PcbaInvChild
<1>6. CASE AcceptFails
  BY <1>6, PcbaInvAccept
<1>7. ASSUME NEW c \in Clients, NEW m \in Crowd, Receive(c, m) PROVE PcbaInv'
  BY <1>7, PcbaInvReceive
<1> QED
  BY <1>1, <1>3, <1>4, <1>5, <1>6, <1>7 DEF Next

-----------------------------------------------------------------------------
\* The invariant holds whatever the clients send, in whatever order client
\* processes, children and test programs take their steps, and whichever
\* calls of the system fail.
THEOREM PcbaInvariant == Spec => []PcbaInv
<1>1. Init => PcbaInv
  BY PcbaInvInit
<1>2. PcbaInv /\ [Next]_vars => PcbaInv'
  BY PcbaInvStep
<1> QED
  BY <1>1, <1>2, PTL DEF Spec

\* QUERY never answers with the line of a test that was over when START
\* removed the result (echo_pcbatest_server.c: start_pcba_test_preproccess,
\* pcba_test_result_rw).
THEOREM ResultsAreOwn == Spec => []NoGhostResult
<1>1. PcbaInv => NoGhostResult
  BY DEF PcbaInv, ClientOK, CommandOK, NoteOK, TestOK, Starting, NoGhostResult
<1> QED
  BY <1>1, PcbaInvariant, PTL

\* A START that finds the program running, or cannot look, starts no second
\* one: two run together only if the second check came before the first
\* program was in the process table.
THEOREM StartedTwiceUnseen == Spec => []TwiceOnlyIfUnseen
<1>1. PcbaInv => TwiceOnlyIfUnseen
  BY DEF PcbaInv, TestOK, TwiceOnlyIfUnseen, Ended
<1> QED
  BY <1>1, PcbaInvariant, PTL

\* STOP is answered without error only when the programs it was to stop have
\* ended (stop_pcba_test).
THEOREM StopIsTrue == Spec => []StoppedMeansEnded
<1>1. PcbaInv => StoppedMeansEnded
  BY DEF PcbaInv, ClientOK, NoteOK, StoppedMeansEnded, Ended
<1> QED
  BY <1>1, PcbaInvariant, PTL

\* Every command is answered or given up once, storage tests by their child,
\* and NAK means an error of the server (tcp_client_process, SEND_CMD).
THEOREM AnswersBalance == Spec => []AnswersAddUp
<1>1. PcbaInv => AnswersAddUp
  <2> SUFFICES ASSUME PcbaInv PROVE AnswersAddUp
    OBVIOUS
  <2>1. TypeOK
    BY DEF PcbaInv
  <2>2. NakIsServerError
    <3>1. ASSUME NEW a, Consistent(a)
          PROVE  status(a) = "NAK" <=> a.err \notin {"OK", "test"}
      BY <3>1 DEF Consistent, status
    <3> QED
      BY <3>1 DEF PcbaInv, ClientOK, TestOK, NakIsServerError
  <2>3. ASSUME NEW c \in Clients
        PROVE  owed[c] = (IF Owing(c) THEN 1 ELSE 0) + Cardinality(Pending(c))
    BY DEF PcbaInv, ClientOK, OwedOK
  <2> QED
    BY <2>1, <2>2, <2>3 DEF AnswersAddUp, Owing, Pending
<1> QED
  BY <1>1, PcbaInvariant, PTL

\* The wake-word service is off only while a client is connected or after a
\* process was ended by SIGPIPE: every other way out of a client process
\* restarts it (ERR_FREE_EXIT).
THEOREM WakeWordRestored == Spec => []WakeWordComesBack
<1>1. PcbaInv => WakeWordComesBack
  BY DEF PcbaInv
<1> QED
  BY <1>1, PcbaInvariant, PTL
=============================================================================
