---------------------------- MODULE WriteStorage ----------------------------
(***************************************************************************)
(* write_storage.c and rk_vendor_storage.c: the factory parameters (serial *)
(* number, addresses, test result) written to and read from the vendor     *)
(* storage.  Runs of the program follow one another; the storage stays.    *)
(* A text is the sequence of its characters and memory a sequence of       *)
(* bytes, because what goes wrong here are lengths and terminators; what   *)
(* sscanf reads of a text is a table, external.                            *)
(***************************************************************************)
EXTENDS Integers, Sequences, SequencesExt, FiniteSetsExt

CONSTANTS
  UID_SIZE,    \* bytes stored of a serial number, 20
  MAC_SIZE,    \* LANMAC_SIZE and WIFIMAC_SIZE, 6
  BUF,         \* COMMAND_VALUESIZE, 100
  CharSigned,  \* is the build's char signed?
  Scan,        \* external: the bytes sscanf reads of each text, none if fewer than MAC_SIZE
  Commands,    \* the command lines tried: sequences of options
  MaxRuns      \* runs of the program (bound)

\* An option with its name or value; a value is a C string.
Options == [o : {"s", "g", "v", "?"}, p : STRING, v : Seq(1 .. 255)]

\* What the constants are.
StorageAssumption ==
  /\ UID_SIZE \in Nat /\ MAC_SIZE \in Nat \ {0} /\ BUF \in Nat
  /\ 8 * MAC_SIZE < BUF /\ UID_SIZE < BUF
  /\ CharSigned \in BOOLEAN /\ MaxRuns \in Nat
  /\ \A t \in DOMAIN Scan : Scan[t] \in Seq(0 .. 255) /\ Len(Scan[t]) \in {0, MAC_SIZE}
  /\ <<>> \in DOMAIN Scan
  /\ \A c \in Commands : c \in Seq(Options) /\ \A i \in 1 .. Len(c) :
       Len(c[i].v) < BUF /\ c[i].v \in DOMAIN Scan

\* LANMAC is handled as WIFIMAC, TESTRESULT (8 bytes) as UID.
Params == {"UID", "WIFIMAC", "BLUETOOTH"}
Macs == {"WIFIMAC"}

\* The sizes of g_pcba_params.
Size(p) == CASE p = "UID" -> UID_SIZE [] p \in Macs -> MAC_SIZE [] OTHER -> 0

VARIABLES
  pc, opts, index, prop_rw,
  msg,      \* msg_buf
  err,      \* err_code
  store,    \* external: the bytes of each parameter in the vendor storage
  has,      \* external: the parameters ever written
  value,    \* history: the argument of the last -v
  before,   \* history: store when the run began
  shown,    \* history: the message part of the line sent, of an address its bytes
            \* with the digits each prints as
  runs

vars == <<pc, opts, index, prop_rw, msg, err, store, has, value, before, shown, runs>>

Zeros(k) == [i \in 1 .. k |-> 0]
Garbage == << -1 >>   \* buf, never written on the error paths

Init ==
  /\ pc = "idle" /\ opts = <<>> /\ index = "none" /\ prop_rw = -1
  /\ msg = Zeros(BUF) /\ err = "0"
  /\ store = [p \in Params |-> <<>>] /\ has = {}
  /\ value = <<>> /\ before = store /\ shown = <<>> /\ runs = 0

-----------------------------------------------------------------------------
\* The C string at the start of memory m.
CStr(m) ==
  IF \E i \in DOMAIN m : m[i] = 0 THEN SubSeq(m, 1, Min({i \in DOMAIN m : m[i] = 0}) - 1) ELSE m

\* memcpy and strcpy of s to the start of m.
Over(m, s) == [i \in DOMAIN m |-> IF i <= Len(s) THEN s[i] ELSE m[i]]
StrCopy(m, s) == Over(m, Append(CStr(s), 0))

\* Mutant of mac_addr_str_to_hex: the terminator of the scanned bytes is
\* written over the last of them.
mac_addr_str_to_hexCut(m) ==
  LET b == Scan[CStr(m)] IN
  IF b # <<>> THEN StrCopy(m, SubSeq(b, 1, MAC_SIZE - 1)) ELSE Over(m, Zeros(MAC_SIZE))

\* The scanned bytes go back by strcpy, which ends at the first zero byte: what
\* follows stays the text that was there.  "%2x" stores an int for each byte;
\* the last one's upper bytes, behind mac_hex, are the terminator.
mac_addr_str_to_hex(m) ==
  LET b == Scan[CStr(m)] IN
  IF b # <<>> THEN StrCopy(m, b) ELSE Over(m, Zeros(MAC_SIZE))

\* The digits that "%2x" prints of a char: a small one gets a blank before its
\* only digit, a negative one is sign extended.
Digits(b) == CASE b < 16 -> 1 [] b > 127 /\ CharSigned -> 8 [] OTHER -> 2

mac_addr_hex_to_str(m) == [k \in 1 .. MAC_SIZE |-> <<Digits(m[k]), m[k]>>]

-----------------------------------------------------------------------------
\* The server starts the program.
Start(c) ==
  /\ pc = "idle" /\ runs < MaxRuns
  /\ runs' = runs + 1
  /\ opts' = c /\ pc' = "parse"
  /\ index' = "none" /\ prop_rw' = -1 /\ msg' = Zeros(BUF) /\ err' = "0"
  /\ value' = <<>> /\ before' = store /\ shown' = <<>>
  /\ UNCHANGED <<store, has>>

Fail(code) == err' = code /\ pc' = "exit"

\* One turn of the getopt loop; an unknown name or option, or a value before
\* any name, ends it.
get_msg_form_server ==
  /\ pc = "parse" /\ opts # <<>>
  /\ LET o == Head(opts) IN
       CASE o.o \in {"s", "g"} /\ o.p \in Params ->
              /\ index' = o.p /\ prop_rw' = IF o.o = "s" THEN 1 ELSE 0
              /\ opts' = Tail(opts) /\ UNCHANGED <<msg, value, err, pc>>
         [] o.o = "v" /\ prop_rw >= 0 ->
              /\ msg' = StrCopy(msg, o.v) /\ value' = o.v
              /\ opts' = Tail(opts) /\ UNCHANGED <<index, prop_rw, err, pc>>
         [] OTHER -> Fail("MSG_ERR") /\ opts' = <<>> /\ UNCHANGED <<index, prop_rw, msg, value>>
  /\ UNCHANGED <<store, has, before, shown, runs>>

\* Nothing named: an error.  -g goes on to READ_ONLY, an address is converted.
Parsed ==
  /\ pc = "parse" /\ opts = <<>>
  /\ IF prop_rw = 1 /\ index \in Macs THEN msg' = mac_addr_str_to_hex(msg) ELSE UNCHANGED msg
  /\ CASE prop_rw < 0 \/ (prop_rw = 1 /\ index \in Macs /\ Scan[CStr(msg)] = <<>>) -> Fail("MSG_ERR")
       [] prop_rw = 0 -> pc' = "read" /\ UNCHANGED err
       [] OTHER -> pc' = "write" /\ UNCHANGED err
  /\ UNCHANGED <<opts, index, prop_rw, store, has, value, before, shown, runs>>

\* The int stored for the last byte reaches three bytes past mac_hex[6]: the
\* build may have something there that ends the program, without a line.
Overrun ==
  /\ pc = "parse" /\ opts = <<>> /\ prop_rw = 1 /\ index \in Macs
  /\ err' = "CRASH" /\ pc' = "done"
  /\ UNCHANGED <<opts, index, prop_rw, msg, store, has, value, before, shown, runs>>

\* The storage keeps the first Size bytes of msg_buf, or the call fails.
vendor_storage_write ==
  /\ pc = "write"
  /\ \/ /\ store' = [store EXCEPT ![index] = SubSeq(msg, 1, Size(index))]
        /\ has' = has \cup {index}
        /\ pc' = "read" /\ UNCHANGED err
     \/ Fail("WRITE_VENDOR_ERR") /\ UNCHANGED <<store, has>>
  /\ UNCHANGED <<opts, index, prop_rw, msg, value, before, shown, runs>>

\* What is stored is copied over msg_buf, whose rest stays.
vendor_storage_read ==
  /\ pc = "read"
  /\ \/ /\ index \in has
        /\ msg' = Over(msg, store[index])
        /\ pc' = "show" /\ UNCHANGED err
     \/ Fail("READ_VENDOR_ERR") /\ UNCHANGED msg
  /\ UNCHANGED <<opts, index, prop_rw, store, has, value, before, shown, runs>>

\* The message is formed.
Show ==
  /\ pc = "show"
  /\ shown' = IF index \in Macs THEN mac_addr_hex_to_str(msg) ELSE CStr(msg)
  /\ pc' = "exit"
  /\ UNCHANGED <<opts, index, prop_rw, msg, err, store, has, value, before, runs>>

\* EXIT: the line is sent; without a message formed it carries buf as it is.
Exit ==
  /\ pc = "exit"
  /\ shown' = IF err = "0" THEN shown ELSE Garbage
  /\ pc' = "done"
  /\ UNCHANGED <<opts, index, prop_rw, msg, err, store, has, value, before, runs>>

Ended == pc = "done" /\ pc' = "idle" /\ UNCHANGED <<opts, index, prop_rw, msg, err, store, has, value, before, shown, runs>>

Next ==
  \/ \E c \in Commands : Start(c)
  \/ get_msg_form_server \/ Parsed \/ Overrun \/ vendor_storage_write \/ vendor_storage_read \/ Show \/ Exit \/ Ended

Spec == Init /\ [][Next]_vars

-----------------------------------------------------------------------------
\* The types; what is stored of a parameter has its size, or nothing is.
TypeOK ==
  /\ pc \in {"idle", "parse", "write", "read", "show", "exit", "done"}
  /\ index \in Params \cup {"none"} /\ prop_rw \in -1 .. 1
  /\ DOMAIN msg = 1 .. BUF /\ \A i \in 1 .. BUF : msg[i] \in 0 .. 255
  /\ err \in {"0", "MSG_ERR", "CRASH", "WRITE_VENDOR_ERR", "READ_VENDOR_ERR"}
  /\ has \subseteq Params
  /\ \A p \in Params : Len(store[p]) = IF p \in has THEN Size(p) ELSE 0
  /\ runs \in 0 .. MaxRuns

Passed == pc = "done" /\ err = "0"

\* A run that reports a wrong message, or is ended by the overrun, has changed
\* nothing, however far its options had been understood.
BadMessageKeepsStore == (pc = "done" /\ err \in {"MSG_ERR", "CRASH"}) => store = before

\* The text a passing run shows is the text stored exactly when the buffer
\* held nothing beyond the stored bytes: msg_buf is the value given and the
\* value read, so that a longer value is shown whole and stored in part.
ShownIsStored ==
  (Passed /\ index \notin Macs) =>
    ((shown = CStr(store[index])) <=>
       (Len(value) <= Size(index) \/ 0 \in ToSet(store[index])))

\* An address whose bytes before the last are not zero is stored as sscanf read
\* it, though strcpy carries it: a zero ends the copy, and the bytes behind it
\* are then the characters of the text.
AddressStored ==
  (Passed /\ prop_rw = 1 /\ index \in Macs /\ \A k \in 1 .. MAC_SIZE - 1 : Scan[value][k] # 0) =>
    store[index] = Scan[value]

\* The address a passing run shows reads as the one that was given exactly
\* when each byte of it prints as two digits, and this although what is shown
\* was stored and read back in between.
AddressShown ==
  (Passed /\ prop_rw = 1 /\ index \in Macs) =>
    ((shown = [k \in 1 .. MAC_SIZE |-> <<2, Scan[value][k]>>])
       <=> \A k \in 1 .. MAC_SIZE : Scan[value][k] \in 16 .. (IF CharSigned THEN 127 ELSE 255))
=============================================================================
