# A verification of aesdsocket and the aesdchar driver

The repository holds a socket server, `aesdsocket`, that appends every line a
client sends to a log and sends the whole log back, and a Linux character
device, `aesdchar`, that keeps the last ten lines written to it. In the
configuration that is built (`USE_AESD_CHAR_DEVICE` is 1 in
`src/server/cfg/aesdsocket_cfg.h`) the device is the server's log. The rest is
examples, scripts and course material.

This directory models the server (its threads, its packets and commands, what it
sends its clients, its start-up), the driver, the driver's ring, and two
examples in TLA+, checks them with TLC on small instances, and proves the central
invariants with TLAPS for all instances. `PROJECT.json` lists the
components, runs, mutants, theorems, findings and hazards, and maps every
definition to the source lines it models.

## Inventory

| Component | State | Operations | Hard behaviour | What makes it correct |
|---|---|---|---|---|
| Circular buffer, `aesd-circular-buffer.[ch]` | ten entries (pointer, size), `in_offs`, `out_offs`, `full` | `add_entry`, `init`, three searches | wrap-around, empty against full, offsets at the edge of a command | keeps the newest N commands; returns the pointer it drops; the searches agree with the concatenation of the commands |
| Driver, `main.c` | the ring, `temp_entry`, a mutex, a read/write semaphore, each file's `f_pos` | open, release, read, write, llseek, the seek ioctl, load, unload | concurrent calls, fatal signals while waiting, failing allocation and copies, positions that go stale | one owner per block; a command is a line; reads are exact; seeks find the byte |
| Server threads, `aesdsocket.c`, `aesdsocket_threads.c`, parts of `aesdsocket_client.c` | `process_running`, `server_sock_fd`, `thread_list` and its nodes, `log_file`, two mutexes, a condition | accept loop, thread creation, client thread, joiner, signal handler | every interleaving of main, joiner, clients and handlers; descriptor numbers given out again | no use after free, no lost wake-up, descriptors used by their owner only, shutdown ends |
| Packet assembly, `aesdsocket_client.c:107-133, 311-376` | `packet`, `packet_index`, `packet_size` (16 bits) | receive, store, double, process | lines in any pieces, doubling of a `uint16_t` | nothing is stored outside the memory; a packet is a line |
| Seek command parsing, `aesdsocket_client.c:135-234` | the place `strtok` keeps | `is_seekto_packet` and helpers | number limits on 32-bit `long`; threads that parse at the same time | recognises exactly the commands |
| Log protocol, `aesdsocket_client.c:63-105, 236-309` | the stream `log_file` | flush, seek, `send_file` | ignored errors, a packet written in several pieces, a failed send, a restart | a client receives the log it was promised |
| Start-up, `aesdsocket.c:64-120, 165-220, 311-350`, `aesdsocket_socket.c` | `run_as_daemon`, `server_sock_fd` | parameters, socket set-up, daemon | error paths, descriptors of the parent | every error path closes what it opened |
| Time stamps, `aesdsocket_threads.c:163-185` | none | append the time every ten seconds | not in the built configuration | |
| `queue.h` | a singly linked list | vendored macros | | |
| System calls example, `systemcalls.c` | the children of the process | `do_system`, `do_exec`, `do_exec_redirect` | `wait()` reaps any child; a descriptor kept when fork fails | the result is the command's; no child is left |
| Threading example, `threading.c` | `thread_data`, the caller's mutex | start a thread that locks and unlocks | unlock after a failed lock | nobody loses a mutex |
| `finder-app`, init and load scripts, build, CI | files | | pure I/O, build | |

How they interact: main accepts connections and passes each to a client thread
through a node of `thread_list`; client threads mark their node and signal
`thread_list_cond`; the joiner joins and frees; the signal handler clears
`process_running` and closes the listener to make `accept()` fail; main then
wakes the joiner, which closes the sockets of the remaining clients to make
their `recv()` fail. A client thread cuts its stream into packets; for each
one it takes `log_file_mutex`, opens the device, writes the packet (or performs
the seek ioctl), sends back what it reads, and closes the device. The driver
collects what is written in `temp_entry` until a newline ends it, then adds it
to the ring and frees the command it displaced.

## Modules

| Module | Models | State and actions |
|---|---|---|
| `RecentWrites` | the promise of the ring | `log`, `returned`; `AddWithRoom`, `AddEvicting` |
| `CircularBuffer` | `aesd-circular-buffer.c` | the fields of `struct aesd_circular_buffer`; `add_entry`; the searches are operators with the names of the C functions |
| `MCCircularBuffer` | reference definitions of the searches | all commands concatenated, byte by byte |
| `CircularBufferProofs` | theorems | |
| `LineLog` | the promise of the device | `lines`, `partial`; `Extend`, `Complete`, and the exceptions `Killed`, `NoMemory` |
| `AesdCharDriver` | `main.c` of the driver | one action per stretch of a system call between two lock operations; uses `CircularBuffer` through `Ring` |
| `MCAesdCharDriver` | chunks for the runs | |
| `AesdCharDriverProofs` | theorems | |
| `ServerThreads` | the threads from `run_server()` to `exit()` | program counters `mpc`, `jpc`, `cpc`, `spc` for main, joiner, clients and handlers; the descriptor table `file`; the globals and node fields under their C names |
| `MCServerThreads` | symmetry for the runs | |
| `ServerThreadsProofs` | theorems | |
| `ServerMain` | `main()` around `run_server()` | `pc`, descriptor table, `ret_val` and exit status of the process started and of the daemon it forks; one action per step of the start-up and of the way out, and one for the signal handler |
| `ServerMainProofs` | theorems | |
| `PacketAssembly` | packets out of received bytes | `packet_size`, `packet_index` and the memory behind them; one step per byte |
| `PacketAssemblyProofs` | theorems | |
| `SeektoParser` | `is_seekto_packet` and what it calls, `strtok` and `strtol` included | operators with the names of the C functions |
| `MCPacketAssembly` | the grammar of commands, and texts for packets | |
| `SeektoThreads` | threads in `is_seekto_packet` at the same time | each thread's strings, and `olds`, the place `strtok` keeps; one action per call of `strtok` |
| `LogService` | what the server promises its clients | `log`, and of each client its `request` and `reply`; one action per outcome of a packet |
| `LogProtocol` | `process_packet`, `flush_packet_to_client`, `process_seekto_packet`, `send_file` | the device, the stream, each thread's packet; one action per system call |
| `MCLogProtocol` | packets, and their text for the parser | |
| `LogProtocolProofs` | theorems | |
| `SystemCalls` | `systemcalls.c` | each caller's file and child, each child's life; one action per system call, of parent and child |
| `ThreadObtainingMutex` | `threading.c` | the mutex and its holder; one action per call |
| `MCExamples` | the two examples, one or the other | |
| `ExamplesProofs` | theorems | |
| `SequenceLemmas` | lemmas the proofs share: least numbers, sums, `FlattenSeq`, parts of sequences | |

Composition: `AesdCharDriver` contains `CircularBuffer` (its add and search
operators are used unchanged, and `RingUsedAsExpected` checks that the driver
uses the ring only in the way `CircularBuffer!Next` allows), and implements
`LineLog` (`KeepsPromise`). `CircularBuffer` implements `RecentWrites`
(`Implements`). `LogProtocol` uses the device through `LineLog`, the promise
`AesdCharDriver` keeps, and implements `LogService` (`Implements`), so that the
promise to the clients rests on the ring through three refinements.
`MCLogProtocol` obtains what its packets mean from `SeektoParser` (an assumption
TLC evaluates), `SeektoThreads` uses the operators of `SeektoParser`, and
`MCPacketAssembly` gives every packet `PacketAssembly` cuts to it.
`ServerThreads` and `PacketAssembly` meet at `ClientReceives`/`ClientProcesses`,
where the former leaves the contents of packets out; `ServerThreads` and
`LogProtocol` meet at `ClientProcesses`, which is the whole of the latter's work
on a packet.

### What the granularity of the models rests on

*ServerThreads.* Whatever a thread does under `thread_list_mutex` is one step,
except for the joiner, which can block in `pthread_join` holding it; the mutex
is held exactly when `jpc` is in `JoinerLocked`. `process_running` and
`server_sock_fd` are read and written without a lock, and each access is a step
of its own. A handler interrupts a thread (`host`), which does not run until
the handler returns; a second handler may interrupt the first. The order of the
list is left out: `thread_list` is a set, and sweeping and joining take nodes in
any order. A descriptor number refers, in `file`, to the listener, to a
connection, to the log, or to nothing, and the lowest free number is given out,
so that a number kept too long really refers to something else. `fopen` may
fail, and then the next use of the stream ends the process (`ClientCrashes`);
the code ignores that failure.

*AesdCharDriver.* The mutex and the semaphore are derived from the program
counters. A read keeps the semaphore over several copies, one step each. A
chunk is what one `write()` passes; whether its last byte is a newline is all
that matters, which is what the code looks at. A byte is a block and a place in
it. A read that returns an error does not move the file position, because the
kernel then discards the position `aesd_read` stored.

*ServerMain.* A step is a call of the C library, or a few that only matter
together (the three `dup2()`); each may fail. The socket itself is one object
both processes share, so that `shutdown()` in one reaches the other. A signal
kills the process as long as it has no handler; `Handles`, the handler, can run
between any two steps from the first `sigaction()` that succeeds until the
process ends, before `run_server()` has begun too. It is one step here;
`ServerThreads` has its steps one by one, and on any thread. `Serves` is
the return of `run_server()`: it stands for all of `ServerThreads`, whose first
state `mpc = "setup"` a handler may interrupt at once.

*PacketAssembly.* A byte is a newline or not. `MCPacketAssembly` gives packets
their characters.

*SeektoParser.* A string is a sequence of characters. The prefix is one
character, since it is only ever compared as a whole. `UINT32_MAX` and
`LONG_MAX` are constants.

*SeektoThreads.* A call of `strtok` is one step, although it is not atomic: the
order of whole calls is enough for the disagreement shown. A string that was
freed is read as anything.

*LogProtocol.* Chunks stand for bytes. What the C library makes of one `fwrite`
and `fflush` is one or several writes, which reach the device one by one;
when one fails the rest is dropped, which is what glibc does. `send_file` reads
as much as `packet_size`, and a `send()` accepts any part of it. The status of
the connection changes at any time. `Restarts` stands for every death of the
process, the NULL stream of a failed `fopen` and `exit()` with clients at work
included, followed by a new start; the device survives. Two things are left
out: other processes that write to the device, and threads that parse at the
same time (`SeektoThreads`). A `malloc` that fails in `parse_xy_str` makes a
command a line of the log; it is left out too.

*SystemCalls.* How a command ends is `success`, `failure` or `signal`; an
`open()` that fails is found by the child's `dup2()`. `system()` is modelled by
what it does: fork, exec, and `waitpid()` for its own child.

*ThreadObtainingMutex.* Why `pthread_mutex_lock` fails is left out (a normal
mutex with a priority ceiling below the thread's priority returns `EINVAL`);
unlocking a default mutex one does not hold releases it, as it does in practice.

## Runs

`tlc -workers 2 -config X.cfg M` in this directory.

| Run | Module / cfg | What it shows |
|---|---|---|
| `ring` | `MCCircularBuffer` / `CircularBuffer.cfg` | the ring's shape (`IInv`), its searches against their definition, and that it implements `RecentWrites` |
| `server` | `MCServerThreads` / `ServerThreads.cfg` | whatever fails, and with SIGINT and SIGTERM on two threads or nested: nodes outlive their threads and no wake-up is lost (`Inv`), descriptors belong to their connection, connections are private, the log stream is intact, nothing is left open |
| `progress` | `ServerThreadsProgress.cfg` | a stop is reported as success; liveness: every completed thread is joined and its node freed, and shutdown ends when main registers no further connection |
| `hang` | `ServerThreadsHang.cfg` | a violation: shutdown does not always end, nor always join every thread |
| `driver` | `MCAesdCharDriver` / `AesdCharDriver.cfg` | with failures and killed writers: sizes match (`Inv`), one owner per block, reads are exact, the ring is used as it expects, the promise of `LineLog` |
| `driver_seek` | `AesdCharDriverSeek.cfg` | a seek into a command finds its byte when one process uses the device |
| `driver_seek_race` | `AesdCharDriverSeekRace.cfg` | a violation: it may not when another process writes |
| `startup` | `ServerMain` / `ServerMain.cfg` | the exit status is truthful, the port is listened on from `listen()` until the first signal or the end of `run_server()`, in the daemon too, and a daemon is detached, whatever fails and whenever signals come |
| `packets` | `MCPacketAssembly` / `PacketAssembly.cfg` | stores stay in the memory, a packet is a line, and is taken for a command exactly as the grammar has it (`ParserMatchesGrammar`), or never where `long` has 32 bits (`NarrowLongRefusesAll`) |
| `log` | `MCLogProtocol` / `LogProtocol.cfg` | clients are sent what `LogService` promises; the stream has one user; no part of a packet is left for the next (`Inv`); liveness: the mutex is released as long as peers read |
| `seekto_race` | `MCSeektoThreads` / `SeektoThreads.cfg` | a violation: a thread's command gets another's number |
| `examples` | `MCExamples` / `Examples.cfg` | the result of a call is its own command's, no child is left behind; a mutex is held until it is unlocked, unless a lock fails |

Every property of a passing run has a mutant of the modelled code that breaks it
(the `Mut...` definitions, named in `PROJECT.json`).

### Bounds, and why they are enough

* `ring`: three entries instead of ten, so that the ring wraps several times and
  is empty, partly filled and full; two sizes, so that offsets fall inside and
  on the edge of commands; one address more than entries, since the caller adds
  memory the ring does not hold.
* Server: two connections (one to be served while the other is accepted,
  registered late, swept or joined), numbers for listener, two connections and
  log with one to spare so that `accept()` only lacks one when it may, and one or
  two signals. `MaxLines` bounds the newlines in what one `recv()` returns: 2 in
  `server`, so that a thread goes from one packet to the next without
  `recv()`, and 1 elsewhere.
  Connections are interchangeable, and so are signals, in the safety runs.
  The liveness runs use no symmetry.
* Driver: two processes, a ring of two, four blocks (two in the ring, one in
  `temp_entry`, one for `krealloc` to move to). `MaxLine` is the largest block in
  chunks (2: a partial write and the one that ends it), and beyond it there is no
  memory; `MaxCount` bounds the bytes a read asks for, and seek arguments (2: a
  read goes from one command to the next). The seek runs do without partial
  writes, the run `driver` without a line longer than one chunk: a line of two
  chunks is written in two parts.
* `startup`: numbers for the standard descriptors, the socket, `/dev/null` and
  one to spare; any of the standard descriptors may be closed at the start.
* `packets`: 2, 15 and 32 for 1024, 32762 and 65536. As in the code, the memory
  doubles to just over the maximum and one more doubling would wrap. `MaxText`
  is 5: two numbers of two characters and a comma, or shorter ones with spaces,
  signs, 0 bytes and further commas. 11 stands for 2^32 - 1, so that two digits
  may fit or not; 95 and 5 for the two widths of `long`, above and below it,
  with 95 < 99 so that `strtol` saturates.
* `log`: two clients; a packet of one write, one of two, whose text begins like a
  command, and a command for the second byte of the second line; a device of
  two lines, so that lines are evicted, and `SendSize` 2, so that a reply takes
  several reads. `MaxTorn` bounds what failed and killed writes leave in the
  line begun: one chunk, so that a line is glued to it. Two torn packets behind
  one another are left out.
* `seekto_race`: two clients with one command each.
* `examples`: two callers and the three children of their life, enough for a
  call to reap another's child and for a later call to find one; three threads
  at one mutex.

### Fairness

Only weak fairness, and only of steps a thread takes by itself: a runnable
thread is eventually scheduled, a mutex that stays free is eventually obtained,
`accept()` fails once the listener is shut down, and `recv()` or `send()` on a
connection that is shut returns. `LogProtocol` has the same for a thread inside
`process_packet` (`Works`): writes, ioctls and reads of the device return, and
`send()` on a connection that is shut fails. `MutexReleased` alone supposes more,
and says so in its formula: `PeersRead`, a client that is sent to keeps
reading or closes. Without it a peer that never reads blocks everybody, which
the code permits. Nothing else is assumed of peers (they may neither
send, read nor close), of signals (they may never come), of calls that may fail,
or of a `recv()` or `send()` that waits for the peer.

### Disagreements found

* `hang`: `handle_client_connections` registers a connection `accept()` returned
  before the signal (`aesdsocket.c:150`) although the joiner may already have
  closed the sockets of the nodes it found. Nobody makes this thread "break out
  of recv()" (`aesdsocket_threads.c:96`), and main waits for the joiner.
  If the joiner has even exited, the late thread is never joined and its node
  never freed, while `valgrind-out.txt:130` records that all heap blocks were
  freed; `EventuallyExits` asks for both.
* `driver_seek_race`: `aesd_ioctl` releases the semaphore between finding the
  position and storing it (`main.c:126-133`). Another process's write in between
  evicts a command, and the position is then in another command than the one
  `aesd_ioctl.h:27` promises. The server does all this under `log_file_mutex`
  and is exposed only if another process uses the device.
* `seekto_race`: `process_packet` calls `is_seekto_packet` before it takes
  `log_file_mutex` (`aesdsocket_client.c:299`), and `strtok`
  (`aesdsocket_client.c:165-166`) keeps one place for all threads. A second
  client's command between the two calls makes the first thread ask the device
  for the second client's number, or read a string that was freed.

The models also show what the code does where no document says otherwise:

* A `send()` that fails ends only the inner loop of `send_file`
  (`aesdsocket_client.c:91`): what was read is dropped and the rest of the log
  still sent, so that a client whose `send()` was interrupted may receive a reply
  with a hole before it is given up (`LogService!Cut`).
* What `fwrite` and `fflush` return is ignored (`aesdsocket_client.c:277`): the
  line is lost and the client is sent the log without it, as if all was well
  (`LogService!LoseLine`).
* What a failed or killed write leaves in the device is the beginning of
  the next client's line (`torn`), after a restart too.
* Where `long` has 32 bits, `(long)UINT32_MAX` is -1: every seek command is
  refused and becomes a line (`NarrowLongRefusesAll`).
* `wait()` in `do_exec` may reap the child `system()` waits for in another
  thread; then `do_system` returns false. `ResultIsOwn` is therefore about calls
  that do not overlap, while `NoChildLeft` holds for all.
* A thread whose `pthread_mutex_lock` failed unlocks all the same
  (`threading.c:37`) and, with a normal mutex, takes it from its holder;
  `HeldUntilUnlocked` excepts just that.

One line of documentation is wrong without a run that shows it, because the code
shows it at a glance: `do_exec_redirect` opens its file before `fork()`, and only
the branches of child and parent close it (`systemcalls.c:125-150`). When `fork()`
fails (`CannotFork`) it stays open, although "This file will be closed at
completion of the function call" (`systemcalls.c:99`).

The parent of a daemon reports success before the child has run `setup_daemon`
and `setup_signal_handlers`, so its caller (`aesdsocket-start-stop`) does not
learn of a failure there; `ExitTellsTruth` grants it that. And a daemon started
with a standard descriptor closed loses its socket: the socket gets that number
and `setup_daemon` redirects it. `Listening` therefore supposes, for a daemon,
that they are open. It ends with the first signal, whose handler closes the
socket as soon as it is installed, before `run_server()` too. In a daemon whose
socket got a redirected number that `close()` frees a standard number, which
`DaemonDetached` excepts.

With two signals on two threads the listener's number can be closed twice, the
second time when it already belongs to somebody else. `DescriptorsOwned` and
`LogStreamIntact` therefore hold until the second signal (`AtMostOneSignal`); no
document of the repository claims more.

Six hazards of the list are in the models and have no property, because the code
goes wrong there. One is the file left open by a failed `fork()`, one the unlock
after a failed lock, both just named. Of the others no document says what should
happen: the second `close()` of the listener's number just named; a client
thread's own copy of its number after the joiner has closed it
(`aesdsocket_client.c:350`; `SocketPrivate` holds while the server runs); the
death by a NULL stream when `fopen` fails (`aesdsocket_client.c:275`, excepted
by `NothingLeftOpen` and by `LogService!Restart`); and `free_resources` closing
the stream under a thread that was registered late (`aesdsocket.c:297`, after
what `hang` shows).

## Theorems

`tlapm M.tla` for the seven `...Proofs` modules and `SequenceLemmas`. All hold
for every value of the constants that satisfies the assumptions named here.

**`CircularBufferProofs`**, for every capacity above zero
(`CapacityAssumption`), every set of addresses without `NULL` and every set of
positive sizes (`SizesAssumption`: `aesd_write` returns early for `count == 0`).

* `RingInvariant` (`Spec => []IInv`) and `RingImplementsRecentWrites`
  (`Spec => Implements`). `TypeOK` alone is not inductive for the refinement:
  `RingShape` adds that `out_offs` is 0 until the ring is full and equals
  `in_offs` from then on, and which entries are used. Then `% N` is a single
  comparison, an addition with room appends to `Log`, and one without drops its
  head. The offsets are natural numbers; in the code they are `uint8_t`, which
  holds for capacities up to 255.
* `SearchFindsByte`, `AbsoluteOffsetInverts` and `EOFIsTotal`: the three searches
  against the concatenation of the commands (`FposFindsByte`,
  `AbsoluteOffsetInvertsFpos`, `EOFIsTotalSize`). They follow from `IInv` alone.
  The loops stop after `Count` commands (`WalkedIsCount`); `SizeBefore` grows with
  every command, so that one command contains a given place (`OneContains`), and
  byte `b` of command `k` is the one at `SizeBefore[k] + b` of the concatenation
  (`BytesInPlace`).

**`AesdCharDriverProofs`**, for any processes, chunks, memory, ring and failures.
`LargestChunkAssumption` says that the sizes of chunks are bounded, as the kernel
bounds what it passes to `write()`. What is known of the ring is not proved
again: the module instantiates `CircularBufferProofs` for the driver's ring
(`RingLemmas`) and cites its lemmas.

* `MemoryHasOneOwner` (`Spec => []OneOwner`), `LocksExcludeAlways` (one writer at
  `temp_entry`, no reader while a command is added) and `RingRestsWhileRead`.
  `OneOwner` is inductive only together with the exclusion, with
  `Ring!RingShape`, and with what a call is known to have (`CallsProgress`); that
  is `DriverInv`.
* `SizesMatchAlways` (`Spec => []Inv`) and `RingUsedAsExpectedAlways`, from
  `StoredInv`: besides the sizes, blocks hold lines of bounded length, and a line
  on its way to the ring is complete, hence not empty (`LineComplete`), so that
  the ring gets the positive size it expects. One owner per block is what keeps
  a write's memory from changing the commands in the ring.
* `ReadsAreExactAlways`, from `ReadingInv`: what a read has copied is the part of
  `Bytes` from its position on (`Copied`). A copy extends it by the rest of a
  command, which is the next part of `Bytes` (`CopiesBytes`), and no other step
  disturbs it because the ring rests while somebody reads.
* `KeepsPromiseAlways`: the driver implements `LineLog`. A write whose chunk ends
  a line stutters until its command is added, and only then the line counts;
  a writer killed in between is `Killed`; an addition is `Complete`, because the
  one block it frees is the one of the line dropped (`SlotsBehind`).
* `SeekFindsUnlessOvertaken`: `SeektoFindsCommand`, for any number of processes,
  in every behaviour in which no command is added while a process is between
  the two searches of a seek (`NotOvertaken`) -- exactly what the run
  `driver_seek_race` lets happen. `SeekFindsAlone` concludes the property for one
  process, which is what the run `driver_seek` checks.

**`ServerThreadsProofs`**, for any sets of connections, descriptors and signals
and any failing calls.

* `ServerInvariant` (`Spec => []Inv`). The two properties of interest are
  `NodesOutliveThreads` (no node is freed while its thread can still use it) and
  `NoLostWakeup` (a waiting joiner has nothing to do). `Bookkeeping` makes them
  inductive: a connection main is about to register has neither a node nor a
  thread, `thread_completed` says how far a thread is, and main's last steps
  follow `process_running = FALSE`. The proof has a lemma for each group of
  actions that changes the same variables.
* `DescriptorsOwnedAlways`, `SocketPrivateAlways`, `LogStreamIntactAlways` and
  `NothingLeftOpenAlways`. One invariant (`DInv`) carries all four. It extends
  `Inv` by two directions of one fact: what is open is on record
  (`OpenIsRecorded`: every number in use is recorded by its thread's node, by
  main, by `log_file` or by `server_sock_fd`), which holds whatever happens,
  and what is on record is still its owner's (`RecordedIsOwn`), which holds until
  a second signal. `Undisturbed` says what is still true while the server runs:
  then a thread's copy of its number is current, which `SocketPrivate` needs.
* `CleanStopAlways` (`Spec => []CleanStop`) where there are more descriptors than
  clients, listener and log need together (`EnoughDescriptors`; the run has five
  for two clients). Without that `accept()` fails for want of a number, and the
  server reports it. The proof counts: each number in use is in use for one thing
  (`DInv`), so one is free when main calls `accept()` (`OneIsFree`).

**`LogProtocolProofs`**, for any clients and packets.

* `StreamHasOneUserAlways` and `LogRestsWhileServed` (while a client is served no
  other thread changes the log).
* `PacketsStayWhole` (`Spec => []Inv`): what a thread has left to write is the
  rest of its own packet, and what it has written is the end of the line begun.
  A reply begins only when its packet is written or its place found.
* `ServesClients` (`Spec => Implements`): the server implements `LogService`. Each
  step of the server changes what one client sees, or none; a packet counts
  from its last write, and a reply is all of what was sent, what is in the
  buffer and what will still be read, so that reading and sending are
  stuttering steps.

**`PacketAssemblyProofs`**

* `PacketInvariant` (`Spec => []Inv`) and `PacketStoresInside`
  (`Spec => StoresInside`) for every `SOCKET_BUFFER_SIZE` above zero,
  `MAX_PACKET_SIZE` and width under `LimitAssumption`: a size that is doubled is
  below the maximum, and twice that fits. The configured values satisfy it
  (2 * 32761 < 65536). The invariant is inductive because `packet_index` never
  exceeds the memory, so a size is only doubled when it is at most the index,
  which is below the maximum.
* `NarrowLongRefuses` (`NarrowLongRefusesAll`): for packets of any text, where
  `long` has as many bits as `uint32_t` (`WidthAssumption`).
* `CommandsMatchGrammar` (`MCSpec => []ParserMatchesGrammar`): for texts of any
  length (`MaxText` is any value), where `long` has more bits than `uint32_t`
  (`WidthAssumption`) and `NULL`, which stands for FALSE, is neither a number, a
  string nor a place (`NullAssumption`). The only invariant is that a text is made
  of the characters the grammar tells apart; the rest is about what functions of a
  string return. The argument:
  - `Span` and `OtherSpan` say where `strspn` and `strcspn` stop. From them `TokenIs`
    says what `strtok` finds, and `FirstField`, `NextField` and `FieldsApart` that
    its first two tokens are the first two fields. `OneFirstTwo` and `NoFirstTwo`
    put that in the words of `Meanings`.
  - `StopsAtNumber` and `NumberWhereItStops` say that `strtol` converts a string
    to its end exactly if a numeral ends it with one sign at most and nothing but
    spaces before that. Then what it computes from left to right is what the
    grammar adds up from right to left (`NumeralIs`, by induction over the digits in
    `BothWays`).
  - `ConvertsNumber` and `RefusesOther` add the saturation and the bounds: a
    number that fits `uint32_t` is below `LONG_MAX64` and passes unchanged; a larger
    one, saturated or not, is above the bound; behind a minus only zero is within
    it.
  - `Between` and `PacketText` find the text in the packet as `parse_xy_str` copies
    it.

**`ServerMainProofs`**: `Inv`, `Listening` and `DaemonDetached`, for any
descriptors that include the standard ones (`FdAssumption`). `Turns` says where
the two processes can be at the same time; the rest, what each has done when it
is there, as long as no handler has run in it. `HasListener` adds that none can
before the first `sigaction()`, and that the socket has none of the standard
numbers if these were open, so that the handler does not free one.

**`ExamplesProofs`**: `ResultIsOwnAlways`, `NoChildLeftAlways` and
`MutexHeldAlways`, for finite sets of callers and children
(`FiniteAssumption`) and any threads. `NoChildLeft` is a count: without a failed
wait there are as many children to reap as callers that wait (`AsManyWait`),
which is inductive although a wait may reap anyone's child. For `ResultIsOwn`,
without overlapping calls the only caller that waits is the parent of the only
child.

**`SequenceLemmas`** holds what these proofs need about data. Induction is
possible where the induction hypothesis is a set: `SetInduction` derives from the
well-foundedness of finite sets that a set of numbers with 0 and with the
successor of each member is `Nat`; `InductionUpTo` is the same for an interval.
From it follows that a recursive *function* of numbers exists and has values of its
type (`Recursion`, used by `SumsExist`, `DecimalExists` and `UnitsExist`;
`SumsGrow`, `FlattensExist`), and with that facts about the sums of sizes, the
digits of a number and `FlattenSeq`, whose equation is `FlattenEquation`. That is
why the models write their sums, and `strtol`, as recursive functions.

Only model-checked: everything temporal under fairness (`CompletedIsJoined`,
`QuiescentShutdown`, `MutexReleased`), because liveness and ENABLED are out of the
proof system's reach; and the three disagreements, which are counterexamples of
TLC.

## Not modelled, and the plan

Modelled so far: the ring and its promise, the driver on top of it, the server's
threads, its packets, its commands, its replies, its start-up, and the two
examples. Every safety property of the passing runs is proved. What the plan has
left: `ServerThreads` with the time stamp thread (`USE_AESD_CHAR_DEVICE == 0`),
where the log file is one stream for the life of the process. It is not in the
configuration that is built.

Left out for good:

* `queue.h`: vendored macros. `ServerThreads` keeps the list as a set: nodes are
  inserted, found and removed under `thread_list_mutex` only, and the removal
  inside `SLIST_FOREACH_SAFE` is of the node the loop has already left.
* The init, load and unload scripts: one command after the other, without a
  state of their own. `Restarts` in `LogProtocol`, `Load` and `Unload` in
  `AesdCharDriver` are what they do to the programs.
* Build and CI files, generated test harnesses, `writer.c` and the finder scripts:
  pure I/O.
