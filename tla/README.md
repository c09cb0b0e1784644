# A TLA+ model of sw_pr

sw_pr is a collection of C and C++ components for voice devices: an in-process
message queue, a call state machine that runs on it, an inter-process queue
agent, shared-memory rings, a memory pool on a red-black tree, a recorder, and
the test server and test programs of a circuit board. The modules here model
the components that hold state; TLC checks them on small instances, and TLAPS
proves the safety properties of the message queue, the call service, the shared
segment, the frame ring, the queue agent, the jitter buffer, the recorder, the
test server and the test programs for all instances.

## Inventory

Paths are relative to `src/`.

| Component | State | Operations | What makes it hard |
|---|---|---|---|
| Message queue, `Common/Compement/src/MQ/msg_def.cpp` | ring `data`, `head`, `rear`, two semaphores | `MsgQueueInit`, `MsgQueueDestory`, `MsgEnQueue`, `MsgDeQueue` | producers and a consumer with no common lock; the full test before the lock; a semaphore that starts at 1 |
| Call state machine, `Common/Compement/src/StateMachine/state_machine.cpp` | `current`, the statics `last_msg_*` and `continue_except_count`, what the actions switched on | `executeConditionStateTransform` and its table | a filter of repeated messages, a reset that bypasses the table, an unchecked index |
| State machine service, same file | the machine, its queue, two threads and their flags | `initializeStateMachine`, `destoryStateMachine`, `msgEnStateMachine`, the two loops | joins of sleeping or absent threads, statics that outlive the machine, unlocked reads |
| Queue agent, `Common/Compement/src/MQ/ipc_mq.cpp` | two POSIX queues, a send and a receive thread, notify threads, one shared buffer | start, stop, send, notification | re-registration against arrival, back-off and drop, stop while asleep, half a start |
| Thread attributes, `Common/Compement/src/Thread/thread_attr.cpp` | a `pthread_attr_t` | init, set priority, destroy | failures its callers ignore |
| Memory pool, `Common/Compement/src/MemManager/memory_pool.c` | columns with counts, a tree of free and a tree of used blocks, lists handed out | `buffer_pool_init`, `buffer_malloc`, `buffer_free`, `buffer_pool_destory` | counts and trees must agree, a malloc fails half-way, unsigned counts |
| Red-black tree, `Common/Compement/src/MemManager/rbtree.c` | nodes with parent, children, colour | insert, erase, replace, first/next/last/prev, augmentation | rebalancing, both sides written out, equal keys |
| Tree template, `Common/Interfaces/include/Common/Interfaces/rbtree_cpp.h` | nodes of a class template | insert, remove, searches, traversals, `buffer_free`, destroy | the same rebalancing written a second time, in another shape |
| List exercises, `algorithms_datastructures/algorithms_datastructures.c` | linked lists, a linked queue | reverse, k-th from the end, merge, circles, common nodes, delete; enqueue, dequeue | cycles, shared tails, empty and one-node lists |
| Shared segment, `sharemem_sample/local_ipc_data_share_memory/` | System V semaphore and segment of one key, a handle per process | `open`, `close`, the locking of `read`, `write`, `ioctl` | processes that come, go and die at any point; ignored errors; removal by the last user |
| Frame ring, same file | `in`, `out`, `size`, the frames | `read`, `write`, `ioctl(CLEAR_BUF)` | unsigned wrap, overflow by reset, death between two stores |
| Jitter buffer, `sharemem_sample/sharemem_mmap.c`, and its earlier form `UnitTestShareMem.c` | positions, status, packet count, blocks in a mapped file | put, get | two processes without a lock, lost and repeated packets |
| Recorder, `alsa_record/alsa_record.c` | device handle, buffer, file, bytes left | `do_alsa_record` | failure after any acquisition, an unsigned countdown, overruns and short reads |
| PCBA server, `pcb_test/echo_pcbatest_server.c` | one process per client, one child per test, result files, the process table | enter, exit, start, stop, query, heartbeat | check-then-act between clients, stale results, children that answer for their parent |
| PCBA test programs, `pcb_test/echo_*_test.c` | daemons, LEDs, input devices, result lines | one program per test | timeouts, failing devices, signal handlers |
| Vendor storage, `pcb_test/write_storage.c`, `rk_vendor_storage.c` | the stored parameters, one buffer | set, get | conversions and lengths |
| USB link, `pcb_test/uevent/`, `pcb_test/echo_discovery.c` | netlink socket, detector, address of `rndis0`, discovery service | event, configure, kill tests, discovery | state read later than the event, lost events, look-kill-start in a script |

The queue feeds the state machine (`CallService`) and the send thread of the
queue agent. The frame ring lives in the shared segment and relies on its
semaphore. The memory pool keeps its blocks in two trees. The PCBA server starts
the test programs and reads the line they print; the USB detector starts and
kills what makes the server reachable.

The rest of the repository is vendored code (cJSON, tinyalsa, Android socket
helpers, rapidjson samples), logging, string exercises, `.orig` copies and
CMake output. `algorithms_datastructures/rbtree` repeats the pool and the tree
of `Common`; `pcb_test/echo_uevent_detect.c` is the same program as the one in
`pcb_test/uevent/`. These are not modelled again.

`PROJECT.json` lists every component, the hazards with their lines, and the
lines each definition models.

## Modules

A component has a module of its own. The modules that are small enough to share
a run are put together by a suite: `MCCall`, `MCIpc`, `MCMemory`, `MCMedia`,
`MCTests`. A suite has a variable `part` that names the component a behaviour is
about; the variables of the other components are at `"off"` throughout. Nothing
is shared between the parts, so the suite's state space is the disjoint union of
theirs, and a property of the suite says of each part what the comment above it
says. What the constants of a component must satisfy is an operator of its
module (`SegmentAssumption`, ...), which the suite asserts for the instance.

### MsgQueue, BoundedFifo

One action per statement of `MsgEnQueue` and `MsgDeQueue` that another thread
can observe. `ppc[p]` and `cpc` are the program counters of the producers and of
the one consumer, `pmsg` and `cmsg` their messages, `cret` the result of
`MsgDeQueue`. A full ring makes `MsgEnQueue` return -1 (`EnQueueFull`). The copy
of a slot is one step, so two threads on one slot is a state and `NoSlotRace`
speaks of it. `Messages` is any set: the 1044 bytes of a `Msg_t` are not told
apart further. `sem_post` at `SEM_VALUE_MAX` leaves the value alone, since the
code ignores its error. `sem_wait` is not interrupted by signals.

`BoundedFifo` is what callers are promised: `Offer` (a caller has a message in
hand), `Put` of that message, `Take`, weak fairness of `Take`. The mapping reads
the abstract queue off `head`, `rear` and `data`, less the message the consumer
has already copied, and the offers off `pmsg`.

### CallStateMachine

States and conditions have the numbers of the source's comments (`s1` to `s15`,
`c1` to `c10`; 11 is `CALL_STATUS_CONDITION_UNKNOW`). `Transitions` is the table
without its trap entries; `Entry` looks it up by flat index, since the code does
not check the condition: condition 11 in state `s` is condition 1 in the next
row. `Starts` and `Stops` are the effects of the actions in the build for the
hardware (`MIMULATED_CONDITION_SWITCH` undefined), reduced to microphone,
playback and alert. `Repeated`, `Trap`, `ResetIdle` and `Transit` are the four
ways through `executeConditionStateTransform`. `displaced` records that
`current` was set by something other than the table since the last message.

### CallService

Composes the two through INSTANCE. The application initialises and destroys the
machine up to `MaxLives` times; every call it makes may fail. A `pthread_create`
that fails leaves the application believing all is well (`return -1` from a
`bool` function) and a later join is of a thread that never was (`badjoin`,
where the model ends). The dispatch thread runs `MsgDeQueue` step by step. The
reporter reads `current` in one step and calls back in another. `sem_destroy`
leaves the values where they were, so a client still inside `MsgEnQueue` goes
on, also into a queue that is initialised again under it: `disturbed` says of a
life that it began so, and the queue's properties are about the other lives.

### ShmSegment

One key, any number of processes. A process's semaphore id, segment id and
attachment are `"cur"` if they are what the key names now, `"old"` if that was
removed since. `locked` starts at 0 or at `Garbage`, because the programs never
initialise their handle. Every system call of `open` and `close` that another
process can notice is a step. `Crash` ends a process anywhere and `SEM_UNDO`
(`Undo`) gives back its lock. `torn` records that the creator died between
writing the magic number and the frame count, `crashed` that anybody died. The
steps of `read`, `write` and `ioctl` here are their locking only.

### ShmRing

The frames under that lock. The writer clears the buffer before the first frame
of each of its lives, as `UnitTestShareMem_MMap_Write.c` does, and either
program may die between any two statements. The two stores of a reset are
separate steps in either order, since nothing keeps the compiler from swapping
them. `unread` is the history of what was written and neither read nor
discarded; `halfReset` is true from a death between the two stores of a reset until
the next reset is complete. `wrapped` says that a counter has passed its range
since the last reset.

### IpcReceive, IpcSend, IpcAgent, ThreadAttr

`IpcReceive` has the POSIX queue as a sequence, the registration for its
notification, and a program counter for the receive thread and each notify
thread. A notification is raised only when a message reaches an empty queue and
uses the registration up. `mq_receive` takes a message off the queue in one step
and copies it into the buffer that all threads share in the next; the callback
then gets what the buffer holds. `overlapped` records that a thread took a
message while another was still at work on the buffer. The peer falls silent
after `MaxSends` messages. That is an assumption of `StopEndsOrSleeps`: the drain
loops (`ipc_mq.cpp:257`, `:321`) do not test the running flag, and a peer that
sends for ever at the pace of the drain holds a stop up.

`IpcSend` is `ipcSendTask`: a message taken from the in-process queue is sent,
refused, and tried again after sleeps that double from 5 ms; `slept` adds up the
sleeps over the message in hand. The in-process queue is the FIFO that
`MsgQueue` implements, its spare token included. The application may send
directly as well.

`IpcAgent` is `ipcAgentStart` and `ipcAgentStop`: two flags, two threads that
clear their flag when they end, two attributes. `ThreadAttr` gives for each
function of `thread_attr.cpp` the set of its outcomes: `initThreadAttr` may fail
and hand back a destroyed attribute, which the agent goes on to use.

### RbTree, MemoryPool

`RbTree` models `rbtree.c` node by node: a tree is a record of root, children,
parents and colours, the C functions are operators on trees, and the two halves
of each case of the code are one operator with the side as parameter.
`rb_link_node` includes the pool's way down, where equal keys go left. The
callback of the augmentation is a count of the subtree, a value that is wrong
at once if a node of the path is missed. It uses RECURSIVE operators and is for
TLC only. `inside` is the history of what went in and did not come out.

`MemoryPool` has the two trees as bags of keys, justified by `RbTree`: a search
from the left finds the smallest key that fits. `Allocation` goes through the
columns from the last to the first as `buffer_malloc` does; `TakeFree` takes
blocks the column's counts promise, `MakeNew` makes the missing ones until a
malloc fails. How many mallocs succeed is chosen per call; the blocks of a call that
failed half-way, whose list is lost, are `stranded`. Counts are unsigned
(`WORD`). `buffer_pool_destory` reads each node after freeing it, so after it
nothing is known of a pool that has blocks (`"undefined"`).

### RbTreeTemplate, ListAlgorithms, LinkQueue

`RbTreeTemplate` is the class template of `rbtree_cpp.h`, whose fix-up loops
differ from those of `rbtree.c`; `buffer_free` removes a node under a key. Its
`destroy` returns after its first recursive call, so it deletes one leaf only.
`search` and `iterativeSearch` are the private functions. `ListAlgorithms` gives
each list function as an operator on a heap (`next` pointers) and compares it
with what its comment says over every small heap, circular and shared ones
included; of the merge loop and of the deletion of an only node less is claimed
than their comments say (see below). `LinkQueue` is the linked queue with
its allocation; the last `DeQueue` must move `rear` back to the head node.

### JitterBuffer, AlsaRecord

`JitterBuffer` has a writer that is given the sender's packets in order, some
lost and some twice, and a reader. A put and a get are cut where they share the
packet count and the state: what precedes the count, its load, its store, the
test, and the store of the state; the test may use the count just stored or load
it again. `raced` records that one store of the count overwrote the other's; no
put or get starts after that, since no number means anything. `stale` records
that the state stored last did not fit the count any more when it was stored.

`JitterSample` is the earlier form with its program. The first packet goes to
block 1 and the first read to block 0, so its one read returns an empty block
and takes the count down although no packet has left; a file that cannot be
mapped ends the program at its first write.

`AlsaRecord` goes through `do_alsa_record` call by call; each may fail. The
directories of the path, the fields of the WAV header as little-endian bytes,
overruns, suspension and short reads are in; samples are not told apart. The file
is opened without truncation, so an older one (`older`) may be longer than the
recording, and descriptor 0 is taken for a failure and never closed. The
length in bytes is a product of four numbers that wraps before it is divided by 8
(`alsa_record.c:248`), so `total` is below the width divided by 8; the countdown
then wraps at the width (`WORD`). A `size_t` is taken to have at most 32 bits, as
on the boards this is built for: the header has four bytes for it.

### PcbaServer

`main`, a process per client (`pc`, `cmd`, `ans`, `flag`, `kills`), and a child
per started test (`test`). The result file of an item has an inode and a line,
so that a child which opened the file before START unlinked it writes to a file
nobody reads. `Visible` is what `ps | grep` shows, which includes programs whose
name contains the item's (`Like`). `note` keeps which tests ran and which were
over when a START or a STOP looked; `owed` counts the commands that wait for an
answer. `MaxFaults` system calls may fail; a send that fails is one on a connection
that was reset, and kills the process (`Killed`), for nothing handles SIGPIPE. One
`recv` is one whole command.

### RadioTests, BoardTests, ManualTests, WriteStorage, UsbLink

`RadioTests` runs the Bluetooth and the WLAN test one after another, each killed
anywhere if the server likes; loaders and supplicants outlive their test.
`close_brcm` may end the wrong process, since its `ps | grep` has no `grep -v grep`
(`missed` counts these); a scan may be empty, which passes or not on what the
stack held (`"unheard"`); the broadcast found in the kernel log may be that of an
earlier run (`logged`).
`BoardTests` has the clock, flash, memory and frequency tests, with the delay of
a sleeping program and the governor beside it; `get_cpu_freq_table` reads one
word of the frequency table per step, finds the end of the file with the last
word or one read too late, and puts an uninitialised buffer into the list of a
table that is empty (`Garbage`). `freq_num` is the number it returns, from which
`set_curl_freq` draws. `ManualTests` has the key,
rotary, LED, playback and recording tests and the signal that ends them at any
step; `arecord` is a process of its own. A write of an LED may fail, or be left
out by `write_int`, which compares with a read of no bytes (`broken`); an input
device may keep `select` from timing out (`busy`). In `WriteStorage` memory is a
sequence of bytes, because what is interesting there are `strcpy`, terminators and
sizes; what `sscanf` reads of a text is a table (`Scan`), an address shown is its
bytes with the number of digits each prints as, and `CharSigned` is the build's
choice. In `UsbLink` the cable moves while the detector works through events that
may be lost, or were sent before it was started; the server may start a test from
a command it had in hand (`hand`) after the signal; `ipconfig.sh` sets the address,
looks for the service, signals it and starts another, each a step, and a service
that was signalled dies in its own time, while one that was only forked does not
show in `ps`.

## Runs

| Run | Instance | Shows |
|---|---|---|
| `msg_queue` | 1 producer, 4 slots, 2 messages | the slot of the full test stays free, tokens match messages, and the queue implements `BoundedFifo` with liveness |
| `call_service` | machine: 11 conditions, 2 types, reset after 4 traps; service: 1 client, 2 slots, one life with fairness (the two temporal properties) and two lives without (the invariants) | filter, equipment of calls, queue sound across restarts, reports catch up, how a destroy ends |
| `ipc` | 2 notify threads, queues of 2 and of 1 | no message sleeps, lone drains are exact, order, late drops, flags tell the truth, stop ends or sleeps |
| `media` | 3 processes on a segment; ring of 4, counters modulo 8; jitter buffers of 10 blocks; recorder with 2 rates, 3 periods, a `size_t` of 128 values, and no older file or one of 60 bytes | exclusion, one usable segment, nothing left; the ring holds the unread frames; reads in order; counts; everything released; a header that agrees with its file modulo the `size_t` |
| `memory` | 9 nodes, 3 with equal keys; 2 columns, 5 configurations, 5 blocks; small heaps and queues | both trees are sound, counts describe trees, every block is in a tree and every used one in a list or lost with one, lists come out as specified |
| `pcba_server` | 2 clients, 2 items, 2 tests, 3 commands, 1 fault | no ghost results, no seen program started twice, STOP means ended, answers add up, commands return |
| `pcba_tests` | 3 radio runs; all sizes around powers of two; 4 LEDs; about 80 command lines; a socket of one event | what verdicts rest on, what is left on the board, storage and cable followed, nothing hangs |
| `msg_queue_race` | 2 producers, 3 slots | **violation**: the full test is made before the lock |
| `shm_ring_wrap` | 3 frames, counters modulo 8 | **violation**: slots and counters disagree at the wrap |
| `jitter_buffer_position` | 10 blocks | **violation**: the put position leaves the buffer |
| `alsa_record_enough` | a period larger than the rest | **violation**: the countdown wraps and the recording goes on |
| `write_storage_bluetooth` | the constants of `pcba_tests` | **violation**: a Bluetooth address is accepted and not stored |

Bounds. Four slots let the ring be empty, partly full, full and wrapped with a
producer and the consumer in every position. In the machine's part of
`call_service` the limit on traps is 2 instead of 15, so the reset happens from
every state; two message types are enough to tell "same type" from "same
message". In the service's part one condition moves the machine once, which is
enough for the filter, the reset and the reports to differ, and a ring of two
slots is full with one message. Two notify threads and the receive thread are
the three that can meet in the buffer. The back-off is run with its real ten
sleeps. Three processes let one close while another opens and a third holds the
segment; a retry limit of 2 is reached. `SEQ` = 5 sequence numbers are more than
the ring holds, so frames in it are distinct; 8 is a multiple of 4, as 2^32 is
of any smaller power of two. Eleven packets go once around a jitter buffer of
ten blocks. A `size_t` of 128 values is wrapped by the length of some requests and
by the countdown of others, and 140 bytes go once around it. Nine nodes reach every case of insertion and erasure, on both sides.
The five configurations fit, rise, fall, are too short and too long for the
pool. Two clients and two tests are what a race of START, STOP and QUERY takes.
Four LEDs have every colour and a first LED again. The cable, the PC, other devices
and the input devices act without a bound. A socket that holds one event loses
events and still lets the cable be unplugged and plugged in again while the
detector is at the first; two places for services let an old one die while a new
one starts.

CHECK_DEADLOCK is off where a system may be done for good: the application has
destroyed its machine or hangs in a join (`DestroyEndsOrStarves`), a pool of
which no more is asked, commands or tests that are used up. `media` checks
deadlock, with `Rest` as the step of a sender or recorder that has finished.

Fairness. Each thread or process of the programs is weakly fair: it is scheduled
by the operating system. So are the kernel's sending of an event that is due and
`arecord`. No producer, client or PC has to call, no application has to start or
stop, no peer has to read its queue, no cable has to move, no signal has to
come, and no test has to be killed or lucky. A `select` that nothing disturbs times
out.

Findings. `msg_queue_race`: with two producers the semaphore of `MsgEnQueue` does
not prevent the loss the comment at `msg_def.cpp:9` says it is there to prevent.
`shm_ring_wrap`: the programs' frame count of 10 does not divide 2^32, so at the
wrap of `in` the reader is given frames that are not the next ones, although it
never fell behind, which is the only case the comment at
`local_ipc_data_share_memory.c:298` allows for. `jitter_buffer_position`: the
position is not reduced to `0 .. capacity-1` as the comment at
`sharemem_mmap.c:280` says. `alsa_record_enough`: the loop does not end "when the
data written exceed total size" (`alsa_record.c:278`), because the difference is
unsigned. `write_storage_bluetooth`: `BLUETOOTH_SIZE` is 0, while `readme:8` lists
BT among the data that are kept.

Some properties hold only with an exception, which their statement shows.

- The queue is not sound in a life of the service that began while a client was
  inside `MsgEnQueue` (`QueueSoundWhileUp`, `disturbed`).
- A handle may be on a segment whose frame count is 0 if the creator died at the
  wrong moment (`OpenIsUsable`, `torn`).
- A destroy or a stop may sleep for ever (`DestroyEndsOrStarves`,
  `StopEndsOrSleeps`).
- The filter swallows a message that would have moved the machine after a reset
  or a restart (`FilterIsHarmless`, `displaced`).
- The callback may get a message twice and lose another when two threads drain at
  once (`LoneDrainIsExact`, `overlapped`), the packet count of the jitter
  buffer loses an update when put and get overlap (`CountIsCached`, `raced`), and
  its state may be stored after the count it was decided on has changed (`stale`).
- A recording over an older, longer file is followed by the old one's end, and a
  file with descriptor 0 stays open (`HeaderAgrees`, `AllReleased`).
- The wake word stays off when a process was killed by its own answer to a
  connection that was reset (`WakeWordComesBack`, `"killed"`).
- An attribute is used after its destruction when `initThreadAttr` failed
  (`FlagTellsTruth`, `initFailed`).
- A program may be started twice if both STARTs looked before either ran
  (`TwiceOnlyIfUnseen`).
- PASS of the flash and memory tests says only that a size was read. The Bluetooth
  test passes chips it does not test, the WLAN test an empty scan over a lucky
  stack and an older broadcast, and the clock test may raise a false alarm when it
  sleeps past a minute (`VerdictIsEarned`).
- A loader may be left for each time `close_brcm` ended another process, an LED
  whose write failed or was left out may stay lit, and a recording stays if
  `arecord` opens its file after the handler looked (`LeftAsFound`). The
  supplicant, which the WLAN test leaves running, and the recording of
  `audio_test`, which nobody removes, are not in it.
- An address with a zero before its last byte is not stored as given, and the
  `int` that `"%2x"` stores behind `mac_hex` may end the program, which changes
  nothing in the store (`StoredAsTold`).
- A test started from a command in hand may run on an unplugged board
  (`CableIsFollowed`, `"stray"`); a board whose cable was configured before the
  detector listened is not discoverable until the cable moves, and an input test
  whose device never lets `select` time out goes on for ever (`NothingHangs`,
  `lost`, `busy`).

Disagreements with comments and headings that no run shows, met while modelling.
The properties claim only what the code does.

- `ipc_mq.cpp:394` lists eleven sleeps, the last of 5120 ms; the loop condition at
  `:391` ends after ten, 5.115 s in all, which is what `DropsAreLate` has.
- `algorithms_datastructures.c:188`, `:194`: the merge loop clears `m_pNext` of the
  first node before it follows it and loses the rest of that list, against the
  headings at `:9` and `:172`; at `:418` the only node is freed and the caller's
  head still names it.
- `rbtree_cpp.h:247`, `:270`: the public `search` and `iterativeSearch` return
  nothing.
- `echo_emmc_test.c:108-122` and `echo_ddr_test.c:81-92` print PASS after a message
  that the test failed.
- `echo_wlan_test.c:240` says that the supplicant is closed; the command there,
  `kill all`, names no process. A failing read of the log at `:176-180` leaves the
  access point up.
- `echo_audio_test.c:55` builds the command that would remove the recording and
  does not run it.
- `sharemem_mmap.c:365` and `UnitTestShareMem.c:382` say that the head starts at the
  position of the first packet put; it starts at block 0, whether or not the first
  packet went there, and in the earlier form it never does. The comment on the
  count says packets in the buffer; a lost packet's empty block that is read is
  taken off it too.

## Proofs

Eight modules hold 50 theorems and 168 lemmas under them. Each theorem is about
the specification of its module for every value of the constants; the assumptions
are the named ASSUMEs of the modules (`QueueAssumption`, `SegmentAssumption`, ...),
which say that sizes and bounds are natural numbers in the order the code's
`#define`s have, that distinguished values are distinct, and that option values
fit their buffer. TLC evaluates them in the runs. Two theorem groups have a
hypothesis of their own: one producer (`OneProducer`, refuted without it by
`msg_queue_race`) and one client (`OneClient`, the same for the service). The
ring's theorems are for every size, the programs' 10 included, and say what holds
in a state that is `Contiguous`: no counter has passed its range since the last
reset, or the size divides the range. `shm_ring_wrap` shows a state that is not.

| Module | Theorems | Why the property alone is not inductive |
|---|---|---|
| `MsgQueueProofs` | `TypeCorrect`, `EnqueueExclusion`; with one producer `RoomIsKept`, `SlotsAreNotShared`, `NothingIsLost`, `TokensBalance`, `SpareIsSpentOnce`, `ImplementsFifoSafety` | `ExclusionInv` adds that the semaphore is 0 or 1. `RoomInv` adds that a consumer past its test has a message. `CopyInv`: between copy and advance the message is at `rear` |
| `CallServiceProofs` | `ServiceTypes`, `FilterSwallowsNothing`, `CallsAreEquipped`; with one client `QueueIsSound` | `ServiceInv` ties each state of the application to the states of the two threads and their flags (`Lifecycle`), and the machine's filter to its table (`MachineInv`) |
| `ShmSegmentProofs` | `SegmentTypes`, `SegmentExclusion`, `SegmentIsOne`, `SegmentUsable`, `SegmentCleanUp` | `SegmentInv`: the lock counter a process starts with is garbage (`CountsInv`), a section is held through the set the key names (`LockInv`), who is attached and who is last (`AttachInv`), the order of the header's stores (`HeaderInv`), a user for whatever exists (`KeptInv`) |
| `ShmRingProofs` | `RingTypes`, `RingKeepsUnread`, `RingReadsInOrder` | `RingInv`: one process inside, the room found is still there, and what was copied before the advance is in the slots; `UsedAdds`, `SlotShift` and their like do the arithmetic of counters modulo `WORD` and slots modulo `SIZE` |
| `IpcProofs` | `AgentFlags`; `ReceiveTypes`, `ReceiveAttention`, `ReceiveExactly`; `SentWithoutOvertaking`, `NoEarlyDrop` | agent: what holds between two statements of start and stop. Receive: a message in the queue has a thread that will look, or a registration (`AttentionInv`); one thread holds a message (`DrainInv`). Send: the four places of a message are in order, each before the next (`OrderInv`), and sleeps add up (`BackoffInv`) |
| `PcbaServerProofs` | `ResultsAreOwn`, `StartedTwiceUnseen`, `StopIsTrue`, `AnswersBalance`, `WakeWordRestored` | `PcbaInv`: what a client's program counter says of its answer and of what it noted, what a test's state says of the file it has open, and which inode an item's file has |
| `MediaProofs` | `RecorderSound`, `RecorderReleases`, `RecorderAgrees`; `JitterSound`, `SampleSound`, `MediaCountIsCached` | recorder: what is held at each point (`Holds`), and that bytes recorded plus bytes left are those announced, modulo the width (`Announced`). Jitter buffer: what was loaded is still there or the count was raced (`Loaded`), which packets have arrived and which block has which (`Arrivals`, `InOrder`), what the count will be once both sides have stored (`Counts`), and what the state must be for the count (`Fits`) |
| `TestsProofs` | `UsbSound`, `CableFollowed`; `RadioSound`, `BoardSound`, `ManualSound`, `VerdictsEarned`, `TestsLeaveAsFound`; `StorageSound`, `AddressKept` | USB: an event is on its way or the last action fits (`Follows`). Radio: what a program counter says of the evidence (`RadioPlaces`), a run adds one daemon at most, and a loader too many needs a miss (`Daemons`). Board: the list made of the words read so far (`Listed`). Manual: what a line was printed on (`Printed`), how far the LEDs are written in a phase or by the handler (`Written`), when `arecord` outlives its parent (`Recorded`). Storage: the memory carries the text, and the bytes of an address from there to the store (`Carries`, `Address`) |

`ImplementsFifoSafety` is a refinement: under the mapping of `MsgQueue` the full
test is an `Offer`, the advance of `rear` a `Put`, the consumer's copy a `Take`, and
every other statement a stutter. The lemmas `UnreadGrows`, `UnreadShrinks` and
`UnreadKept` say what the three moves do to the sequence that is read off the
ring.

`QueueIsSound` reuses the invariant of `MsgQueueProofs` inside the service: the
service's steps on the queue are steps of the queue (`SameQueue`, `QueueMoves`),
and `initializeStateMachine` makes the invariant true again (`FreshQueue`) if
nobody is inside the queue then: the dispatch thread is not, which `Lifecycle`
says, and a client is not unless the life is `disturbed`.

Each inductive invariant was checked by TLC on the instance of its run before it
was proved.

`RecorderAgrees` needs the width twice: `Announced` is a congruence, which the
lemmas `ModAdds` and `ModUnique` carry through a store that wraps, and the four
bytes of the header are put together again because a `size_t` is not wider than
they are. What it shows is agreement modulo the width; `alsa_record_enough` shows
that a recording may go around it.

The jitter buffer's theorem stops at `raced`, at `stale` where it speaks of the
state, and at a packet that was lost where it speaks of order; all are in the
statement of `CountIsCached`.

Checked by TLC only:

- Liveness (`ReportCatchesUp`, `DestroyEndsOrStarves`, `StopEndsOrSleeps`,
  `CommandsReturn`, `NothingHangs`) and the fairness part of `ImplementsFifo`, which
  the prover does not do.
- The properties of `MCMemory`. `TreeSound` and `ListsAsSpecified` are about
  `RbTree`, `RbTreeTemplate`, `ListAlgorithms` and `LinkQueue`, whose operators
  recurse over the data. `CountsDescribeTrees`, `BlocksAccounted` and
  `ShortByHalfABlock` are about sums over the blocks of `MemoryPool`, and what
  `Allocation` computes over its columns needs induction over them.
- What `write_storage` shows. `AddressKept` proves the two parts of `StoredAsTold`
  about the store. The other parts (`ShownIsStored`, `AddressShown`, the type of
  the output) concern the C string in a buffer that several values went through. `ShownIsStored` is checked for command lines with one value: after a
  longer value the buffer still has its end, which a later read shows.

## Not modelled

Log output and the wording of messages; null-pointer checks of arguments the
callers never pass as null; `EINTR` from `semop` and `sem_wait` (no program here
installs a handler for the calls concerned; a stopped and continued process
would go on without the lock); failing `ftok`, `semget` and `shmat`; group
ownership of the segment (`ipc_gid`); two processes that disagree on the size of
a frame; calls with more frames than the ring has; clients that call
`msgEnStateMachine` after `destoryStateMachine` has returned; commands that TCP
joins into one `recv` of the server or splits over two
(`echo_pcbatest_server.c:716`).

The pool's report printing is output. `buffer_malloc` of the tree template calls
members that its nodes do not have and compiles in no program.

Of the jitter buffer: a packet that is overtaken (its position is outside the
buffer at once, as `jitter_buffer_position` shows), a change of the media type,
and the truncation of the file by a writer that starts again.

Of the test programs: the register tables of the LED driver and the helpers of
`common.h` that format and log; the route and the `dnsmasq` lines of
`uevent/ipconfig.sh` (`:7-17`), which nothing else looks at; the variant
`rk_pcba_test/ipconfig.sh`, in which the killall is commented out.

`printrunlog.cpp` and `clog.c` format text. `stringParse.c` is a demonstration of
character handling that no program uses. cJSON, tinyalsa, the socket helpers and
the JSON samples are third-party code.
