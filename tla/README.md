# CAFE OS in TLA+

CAFE OS is a teaching kernel in C for the Cariri, a 16-bit CPU with one core.
It multiplexes up to three processes (`MAX_PROCESSES`, `kernel/sys_core.h:36`)
with one of three schedulers chosen at build time, and gives them processes and
threads, signals and alarms, a semaphore and a mutex, a pipe, mailboxes, shared
memory, a heap, a network device and programs loaded from a disk.  The repository
also has the programs themselves: network servers and clients, disk tools, shells
and games.

This directory is its formal companion: TLA+ modules translated from the C
sources, TLC configurations that check them on small instances, and proofs,
checked by TLAPS, of what holds for tables of any size.  Paths below are
relative to the root of the repository.

    tlc -workers 2 -config process_life.cfg MCResources   # a run
    tlapm ProcessProofs.tla                               # the proofs

`PROJECT.json` lists the components, the runs, the mutants, the lines each
definition models, the findings, the hazards and the theorems.

## 1. The system

### How it executes

Every entry into the kernel (timer, system call, fault: `kernel/sys_main.c`)
executes `INT CLI_INT` before it touches a table, and there is one CPU, so a
handler is atomic with respect to all processes.  A handler does three things in
order: `kernel_tick_update()` advances the clock, wakes sleepers and rings
alarms; the handler of the call changes the tables; then, if `kernel_need_resched`
was set, `schedule()` demotes the caller and elects another, and otherwise the
caller resumes.  Both ways end in `dispatcher_restore_context`, which calls
`kernel_signal_inject()` and pops the context.  The fault handler skips the
clock.  `schedule()` does not return while nobody can run: it turns its own copy
of the clock until somebody becomes READY, and halts the CPU when every process
has ended.

What is interleaved, then, is not instructions of the kernel but traps of the
processes, and what is hard is what a process finds when it runs again: who died
meanwhile, who took its slot, who was woken for the same resource, what was
posted to it.

### Components

| component | source | state | operations | what makes it correct |
|---|---|---|---|---|
| process table, scheduler, clock | `sys_core.h`, `sys_sched_{rr,fp,dp}.c`, `sys_tick.inc`, `sys_main.c` | `pcb[]`, `current_pid`, idle or halted | timer, yield, one turn of the idle loop, boot | one owner of the CPU; never idle while someone can run; nobody starves; sleepers wake; alarms ring |
| life cycle and signals | `sys_proc*.c`, `sys_thread*.c`, `sys_wakeup.c`, `sys_signal.c`, `sys_signal_inject.inc` | states, `waiting_for_pid`, `alarm_tick`, `pending_signal`, `in_signal` | exit, thread_exit, fault, wait, kill, sleep, alarm, pause, signal, sigreturn, spawn, thread_create | nobody waits for the dead; a signal is delivered on the next return; a signal wakes pause() |
| context frames | `sys_main.c`, `sys_signal_inject.inc`, `sys_signal.c`, `sys_proc.c` | 11 words on the stack, `sig_saved_*` | push, redirect, restore, pop | losing the CPU is invisible; a handler returns to what it interrupted |
| semaphore, mutex | `sys_sem.c`, `sys_mutex.c`, `user/usr_sync.c` | `SEM_STATE`, `MUTEX_STATE` | lock, unlock, trylock | exclusion; no lost wakeup; the flags, which have no owner, agree with the programs |
| pipe | `sys_pipe.c`, `user/usr_pipe.c` | a ring, two indices, a count | write, read | it is a FIFO; nobody waits for what is there |
| heap | `sys_mem.c` | block headers in `os_heap` | malloc, free, defrag | blocks in use are disjoint; no false out-of-memory |
| memory of processes | `sys_proc_resources.c`, `sys_proc_spawn.c`, `sys_thread.c`, `sys_overlay*.c` | `mem_base`, `data_is_heap`, `stack_mem` | taken at creation, given back at the end | no use after free, no double free, no leak |
| shared memory | `sys_shm.c` | keys and addresses | shmget | a segment is nobody else's block |
| mailboxes | `sys_msg.c` | a word per slot | send, recv | a letter reaches whom it was sent to |
| network and disk drivers | `sys_net.c`, `sys_fs.c`, `user/usr_net_core.c`, `user/usr_fs.c` | the bank the device was told to use | out, in | a command acts on the arguments of its own call |
| network library and programs | `user/usr_net_{tcp,udp}.c`, `apps/app_net_*.c` | sockets, numbers of polls | socket, bind, listen, connect, accept, send, recv, close, the waits | a socket is closed at the end of its use, unless its set-up was refused; the server comes back; an answer is not cut, and goes to its sender |
| file system, dynamic overlay | `sys_fs.c`, `user/usr_fs.c` | one window, in use or not | exec, collection | the window is not reloaded under a live process |
| disk tools, editor | `cov/utilitarios/*.c`, `apps/app_fs_demo.c` | two names, two descriptors | copy, move, remove, show, edit | a file is never lost; what was typed is what is stored |
| launcher and shells | `apps/app_fs_{shell,launcher}.c`, `apps/legado_19_shell*.c` | the child, the line | exec and wait; edit and answer a line | the menu comes back when the child is gone; the answer is to the line on the screen |
| games | `apps/app_cariri_*.c`, `cov/jogos/tetris.c` | wells, arenas, grids, scores | a turn of the loop, a key | rows, trails, enemies and scores stay consistent |
| console | `sys_io.c`, `user/usr_io.c`, ... | none | print, read | - |
| user library | `user/` | static variables | stubs that trap | a stub returns its own call's result |
| other programs, legacy, builds | `apps/`, `cov/`, `legacy/`, `build/` | | | read for how they use the kernel |

They interact through the process table: the semaphore, the pipe, `wait` and the
clock all park a process in a state of its own and make it READY again; the end
of a process touches the waiters, the heap and, by leaving them as they are, the
locks; creation takes a slot and blocks of the heap.  A program and a device
interact through a bank of registers that is the program's own, so a program at a
device is alone with it, and what is hard is not other processes but the device:
what it refuses, and what changes between two polls.

### What is hard here

* **Slots are reused.** A pid names a slot.  Whoever remembers a pid across a
  trap may find another process in it.
* **Death from four sides** (exit, thread_exit, kill, fault), each repeating the
  same three lines.
* **Two copies of the clock**, in `kernel_tick_update` and in `schedule()`.
* **Wakeups** that wake one (semaphore) or all (pipe), and locks without owner.
* **Shared data** freed by whoever of its users ends last.
* **A frame layout** written out by hand in five places.
* **Limits**: table full, ring full, heap exhausted, an index that wraps.
* **Refusals.** Every command of a device may fail, with its own way out.
* **Globals for locals.** The compiler gives programs few locals, so loops, helpers
  and threads share scratch words.

`PROJECT.json` has them one by one with their lines ("hazards").

## 2. The modules

    Scheduler ── Process ──┬── Sync
                           ├── Pipe ······ implements Channel
                           ├── Mailbox ··· implements Channel, one per slot
                           ├── Devices
                           ├── DynamicOverlay ── Launcher
                           ├── ThreadLock
                           └── Resources
    Heap ······ implements Allocator ······ assumed by Resources
    SignalFrame
    UserProgram ──┬── Network ──┬── NetTcp
                  │             └── NetUdp
                  ├── Disk ─────┬── DiskTools
                  │             └── Editor
                  └── LineShell
    Rows ──┬── Tetris       NeonCycles      Invaders
           └── Domino

    SchedulerProofs ── ProcessProofs ──┬── BlockingProofs   LoopProofs
                                       ├── ResourcesProofs  StandaloneProofs
                                       └── ServicesProofs   IoProofs

Five modules instantiate these for TLC: **MCProcess** (Process), **MCResources**
(Process with its memory), **MCIpc** (the services of the kernel), **MCIo** (the
programs at the devices) and **MCStandalone** (heap, frame and games).  The last
three hold parts that share no state, and a behaviour is of one part: that gives
the sum of their states and not the product.

**Scheduler** is the process table and what every handler shares.  `TickUpdate`,
`WarpUpdate`, `Elected`, `Inject` and so on are functions on tables; `Schedule(t)`
and `Resume(t)` are the two ways out of the kernel with the table `t` a handler
has produced.  An action is a whole trap: `Sleep(n)`, say, is the clock, the
change of state and `schedule()`, in that order, and its next state is the next
moment some process executes.  The idle loop of `schedule()` is the exception: an
iteration is an action (`IdleTick`, in mode "idle"), so that waiting for time to
pass is visible to temporal properties.  `Policy` selects the scheduler.  A
stored tick is represented by what is left until it (`wakeup_tick`,
`alarm_tick`), which keeps the state finite without bounding time.

**Process** adds the system calls of the life cycle and signals.  Arguments are
chosen from constants and include pids on either side of the table.
`kernel_spawn` and `kernel_thread_create` fail without cause here, since malloc
may fail.  A priority is any member of `Priorities`.  `Sigreturn` is guarded by
`in_signal`: programs are written to call it at the end of a handler only.

**Sync** adds the semaphore and the mutex.  Since the kernel does not record who
holds a lock, the model does: `inside[l]` is who has obtained it, `abandoned[l]`
that a holder ended inside.  These two are no state of the kernel.  Programs
release what they hold and do not lock twice.

**Pipe** adds the ring.  A call that finds it unusable parks the caller; the loop
of `user/usr_pipe.c` calls again when it runs, and any process may make any call
at any time, which includes those loops.  `delivered` records the last value
read, and **Channel** is the FIFO the pipe promises: `Contents` reads the queue
out of the ring, and waiting, waking and switching are stutters.

**Heap** is malloc, free and `kernel_defrag` over the words of the heap, headers
in line, so that header arithmetic can go wrong; `held` is what callers remember.
The loops are recursive functions of where the loop is (an address, or `Walks`, the
words and an address), because theorems are proved about them.
The owner of a block may fill it with words that look like headers.
**Allocator** is what callers are promised, in terms of extents only.

**Resources** adds to each action of Process the blocks it takes or gives back,
as a conjunction in one step (`ExitReleasing == Exit /\ ReleaseResources(...)`),
and shared segments.  It uses malloc by the contract of Allocator: a block not in
use, or none.  Data that belongs to an overlay's image is `Image`, shared by all
overlays here and never freed.

**Mailbox** adds one word per slot.  Boxes belong to slots: nothing empties them
when a process ends, and the model keeps that.

**Devices** adds the network and disk drivers and the calls of the library that use
them.  A call is a sequence of traps: it fills registers, or empties the FIFO and
sends a path letter by letter (`Word`), gives a command (`Command`) and takes what
the device answered (`Result`).  In each trap the kernel tells the device whose bank
of registers the word is for (`Context`, `selected`).  Between two words other
processes run, use the device, kill the caller and take its slot; the bank stays as
it is, so that the next owner of the slot finds registers and half a path in it,
while its own program starts at no call (`NoCall`).  The devices themselves are
external: what a command reads is `Reads`, and they answer anything.

**DynamicOverlay** adds `kernel_fs_exec`.  The image has no content but an identity
(`loads`, `runs`), enough to say whether a process still executes the code it was
started from.  `in_window` stands for a `cs` inside the window, which children
inherit.  An exec that fails may have overwritten the window or not, since the
errors of the disk do not tell.

**SignalFrame** is one process seen from inside: what its registers are before
and after a trap.  A trap is two steps (push, pop), since others run between.
Words are told apart by the register they come from, so a permutation is visible.

**ThreadLock** is one level lower than Sync: a call of the user library is three
steps (the trap leaves the result in the accumulator; STA puts it into
`sys_ret_val`; the return reads it back), the timer may come between them, and the
word belongs to the program's threads together.

**Launcher** is the shell of slot 0 over DynamicOverlay: it executes, then waits for
a slot number, and between the two the child may have ended and its slot have
another owner.  `child_lives` is what a person at the screen would know.

**Network**, **NetTcp**, **NetUdp** are one program and the network device.  A call
of the library writes several registers and reads some; since nobody else's words
reach it (`CallsAsMade` of Devices), nothing but the network happens in between, and
a call that does not wait is one step.  A wait polls, and each poll is a step.  `pc` is the call
that comes next.  The device refuses any command and breaks any connection, at most
`MAX_FAULTS` times; peers connect, put bytes, take bytes and close at any time;
datagrams come in any order or not at all.

**Disk**, **DiskTools**, **Editor** are one program and the disk: `files` maps names to
contents, and each kind of command may be refused once.  The error register is
that of the last command, which is what makes a late look at it wrong.  A name
the user types may be that of no file.

**LineShell** is the line of the two resident shells, an array that is never
cleared, with the comparison letter by letter of one and the 16-bit hash of the
other.  `typed` is the text as the user sees it.

**Rows**, **Tetris**, **Domino**, **NeonCycles**, **Invaders** are the games without
what they draw.  One action is one turn of the loop; keys are any of a set; what
the code derives from a counter only to look random is any value.  Scratch globals
stay where the logic reads them: `g_value` of Tetris, the rival's mind in `i` of
NeonCycles.

The refinements are checked, not assumed: `IsChannel` and `IsAllocator` are
`INSTANCE`s of the abstract specifications with the mapping written out.

## 3. What the runs show

| run | question | instance | result |
|---|---|---|---|
| `process_life` | Is the CPU always owned by exactly one process, or rightly by none? Does anyone wait for a dead process? Does Round-Robin advance? Is memory never used after free, aliased or leaked? | 3 slots, 2 at boot, SIGKILL, sleep 2, 4 blocks, 2 keys, 1 entry | holds |
| `process_live` | Does every READY process run, every sleeper wake, every alarm ring? Is every signal delivered on return? | 2 slots, sleep 2, alarm 0 or 2, SIGTERM, fair | holds |
| `process_aging` | Does aging bound the age, so that low priority does not starve? | 3 slots, 2 priorities, `dp` | holds |
| `ipc` | Locks: exclusion, agreement of the flags, no lost wakeup, with holders killed anywhere. Is the ring a FIFO that nobody waits for in vain, is each mailbox a channel, does each command of a device act on the arguments of its own call, is no program overwritten under its processes, and does the menu come back when the child is gone? | 3 slots, SIGKILL, sleep 1, ring of 3, 2 values, 2 letters, 2 devices, 7 kinds of calls of which 2 are begun, a window of 8 words | holds |
| `io` | Is each socket that was set up, and each descriptor, closed at the end, no answer cut or sent to the wrong host, no file lost? Does the server come back and the client end? Is a line answered for what it shows? | 13 programs, 3 sockets, 2 faults, 2 names, lines of 2 and 3 | holds |
| `standalone` | Do blocks tile the heap and implement the allocator, is memory refused only when there is none? Are traps transparent? Do the games keep their accounts? | heap of 12 words; small boards | holds |
| `process_pause` | Does a signal wake pause()? | 2 slots | **violated** |
| `process_handler` | Does get_signal tell the handler what woke it? | 2 slots | **violated** |
| `frame_sigreturn` | Does sigreturn return to what was interrupted? | 2 steps of the program | **violated** |
| `editor_saved` | Is the text stored when the editor says SALVO? | as `io` | **violated** |
| `tetris_rotate` | Does a turn that fits lead to the next of the four rotations? | as `standalone` | **violated** |
| `threads` | Does the mutex exclude threads of one program? | 3 slots | **violated** |

### Bounds

* **3 slots** is the size of the real table, not a scaled-down one.  The two runs
  with signals and liveness use 2: what they ask concerns a process and one that
  competes with it or signals it.
* **Ticks.** Time left is 0, 1 or 2: due now, due at the next tick, due later.
  The clock branches on nothing else.
* **Signals.** Each run has the signals its question needs: SIGKILL for death,
  another one for delivery.  `process_life` has no alarms, `process_live` no
  SIGKILL (exit and fault still end processes).
* **Ring of 3** words: it fills, empties and both indices wrap, and with 3
  processes two wait on the same side while the third fills or drains.  The real
  ring has 20 (`PIPE_SIZE`); nothing else depends on its size.
* **Heap of 12** words with requests of 1, 2 and 4: an exact fit, a fit whose rest
  is too short to split, a split, three blocks in a row, so that merging on both
  sides at once occurs.  It starts at 5: an address is never 0.
* **4 blocks** against a demand of 2 per process plus one segment, so that malloc
  fails at every point.  Blocks are interchangeable model values; the one temporal
  property of that run, `RoundRobinProgress`, is a property of single steps that
  mentions no block, so the symmetry is sound for it.
* **`PlainProcesses`** (ipc) leaves out handlers, and who may sleep, pause, wait and
  be a thread where the added operations do not look at it: no guard of the added
  operations depends on those fields, except that a thread may thread_exit, which
  ends it like exit, and that with the window it matters who outlives whom.
* **Device calls:** one of each shape (three registers, two, one, none; a path of two
  letters; a descriptor; a descriptor and a byte), with arguments that differ, and
  two in a behaviour, by either of two processes or by two owners of one slot, while
  the third process creates and kills.  An argument that came from another call is
  then visible.  A device keeps no state that a third call could add.
* **The window** of 8 words with a header of 6 takes an image of 7 and not one of 9;
  the disk may also report 0 and a negative size.
* **Ages** under `dp` are bounded by the code itself, which is `AgeBounded`.
* **Sockets, faults, polls, text.** The device has three sockets (the server needs
  two), so a lost one is missed soon; two faults are a failure and one more while
  recovering from it; two polls tell "answered in time" from "given up"; two bytes
  tell a cut answer from a whole one and a permuted from an ordered one.
* **Datagrams:** three from two hosts, so that one arrives while another is answered.
* **Files:** two names, contents of one or two bytes.  Both exist at the beginning only
  for the programs that take two names.
* **Lines** of 2 (editor) and 3 (shells), with 4 keys in the editor: a line fills,
  overflows, is erased and a shorter one follows a longer one.  The shells' words are
  `ps`, `u` (ends) and `o` (prints); `ou` has the hash of `ps`.
* **Boards:** wells of 6 by 6 and 4 by 4, where rows fill singly and next to each
  other; at most two rows taken away, and a piece that sticks out of the well ends
  the behaviour (`Bounded`: the code then writes outside its array).  An arena of 5
  by 4 with the cycles two apart, followed to the first sector won (`score <= 1`).
  One column of three enemies, two waves, two lives and a field of eleven rows.
* Deadlock is not checked: a halted CPU stops for good, and programs end.

### Properties worth a comment

* `WorkConserving` is exact about a corner of the priority schedulers: their
  search starts from -1 with `>`, so a process of negative effective priority is
  READY and never elected.
* `RoundRobinProgress` is the reason Round-Robin does not starve anyone, stated
  for one step: whenever the CPU changes hands, each READY process gets strictly
  nearer to the head of the circular search.  `ReadyRuns` is the consequence.
* `AlarmsRing` asks only about processes that cannot cancel the alarm themselves.
* `NobodyMissesPipe` implies that readers and writers never wait together.
* `LocksAgree` says in particular that a lock whose holder was killed stays taken
  for ever: the code's behaviour, not a promise.
* `ServerReturns` quotes the comment of the server and is a liveness property: from
  any failure it comes back to accept.  `EchoedBeforeClose` is the other side of it:
  coming back must not cut an answer, except after `TX_WAIT` polls.
* `TransferSafe` says that at every moment the source or the destination has the
  whole file, and that "OK" is true, with the one exception the programs leave: the
  error of the last close, which they do not look at.
* `CallsAsMade` is about the step that gives a command: at that moment each register
  the device reads holds the argument of this very call, and the FIFO its whole
  path and nothing else, though up to three processes have been writing to the same
  device since the call began; and the step that takes the result takes the answer
  to that command.  A driver that leaves the bank as the last caller selected it
  breaks it (the mutant), and so does a call that omits its `net_select_socket` or
  `fs_clear_tx`, by what an earlier call, or the last owner of the slot, has left.
* `SocketsClosed` states what is closed with the exceptions the programs make (end of
  section 4).  `ClientEnds` without it could hold of a client that just leaves.
* `AnswersLine` is up to the hash: the second shell takes `ou` for `ps`.
* `RowsCleared` compares the loop, which scans and shifts in place, with its
  definition by sets: full rows out, the others in their order.
* `DominoAccounts` and `ScoreAccounts` recompute score and cells from each other; a
  cell lost or an enemy counted twice breaks the equation.
* `NoFalseOutOfMemory` is stated over runs of words outside the blocks in use, so
  it does not depend on how the free blocks are cut.

### Fairness

`FairSpec` assumes weak fairness of `Timer` and of `IdleTick`, nothing about
system calls.  `Timer` is the hardware timer, which keeps firing while a process
executes with interrupts enabled (every frame built or popped enables them);
`IdleTick` is the loop of `schedule()`, which has no exit but an election.  No
process is assumed to make any call.

`TcpFairness` (run `io`) assumes that the program keeps running, which is what
`ReadyRuns` shows of the kernel, and that a peer does not keep a connection open for
ever.  The second is needed and real: the servers wait for a silent client without
a limit as long as it stays connected.  Faults are bounded, so a device that
refuses for ever is not assumed to let the server return.

Each property has a mutant ("mutants" in `PROJECT.json`): the change of one mapped
definition, such as waking one waiter instead of all, under which the run fails.

## 4. Findings

1. **An alarm does not always end pause()** (`process_pause`).
   `kernel_tick_update()` posts SIGALRM but leaves the process PAUSED; only the copy
   of the loop inside `schedule()` makes it READY (`sys_sched_rr.c:82`, "Sinais
   acordam processos em pause()").  With a busy neighbour the alarm falls due in
   the first one and pause() never ends.
2. **A second signal replaces the one being handled** (`process_handler`).
   `kernel_kill` and the alarm write `pending_signal` without looking at
   `in_signal`; `get_signal()` then tells the handler something else, and
   `sigreturn` discards both.
3. **sigreturn does not return** (`frame_sigreturn`).  A frame has 11 words, `step`
   on top and `pc` at the bottom; `kernel_sigreturn` writes 9 of them in the opposite
   order and the dispatcher pops 11.  With the order of the pop in its place the
   property holds.

4. **The editor says SALVO after a write that failed** (`editor_saved`).  A refused
   write ends the editing, but its error is that of the last call only; the close
   that follows succeeds, and `editor.c:205-209` prints SALVO after ERRO.
5. **A piece that turns may get some other rotation** (`tetris_rotate`).
   `rotate_piece()` computes the next rotation in `g_value` and tests whether it fits.
   If it does, the piece is erased before `g_value` is copied to `piece_rot`, and
   erasing overwrites `g_value` with the tens of a cursor position
   (`app_cariri_tetris.c:158-168, 610-621`): the piece gets a rotation for which no
   room was tested.  A turn that does not fit changes nothing.
6. **The mutex does not exclude threads** (`threads`).  `README.md:389` tells threads to
   use it; `mutex_lock()` reads the answer of the kernel through `sys_ret_val`, which
   the threads of a program share (`usr_sync.c:15-19`).

Oddities without a document that says otherwise, kept in the models: `fs_demo` reads
for ever when a read fails with anything but the end of the file
(`app_fs_demo.c:89`); the TCP client exits with its socket open when the connection
fails or is not answered in time (`app_net_client.c:52-54`), and the server that
serves once when the device refuses its bind, listen or accept
(`app_net_server.c:28-55`), so that only the device could take these sockets back;
Invaders can be won with no life left, loses with the wave
already reset, and lets dead columns fire and turn the grid; Tetris and Domino still let
the piece fall in the turn that ended the game.

## 5. What is proved

For every number of slots, policy, set of priorities, ticks and signals allowed by
`SchedulerAssumption` and `ProcessAssumption`, and every ring, heap, disk, arena and
grid allowed by the assumption of its module:

| theorem | says |
|---|---|
| `ProcessInvariant` | the inductive invariant below holds always |
| `ProcessTypeOK`, `ProcessOneRunning`, `ProcessNoStaleWaiter`, `ProcessWorkConserving`, `ProcessDelivered` | the invariants of the same names |
| `ProcessRoundRobin` | `RoundRobinProgress` |
| `ProcessAgeBounded` | `AgeBounded`: with aging nobody is passed over for ever |
| `SyncMutualExclusion`, `SyncLocksAgree`, `SyncNoLostWakeup` | the invariants of Sync of the same names |
| `PipeNobodyMisses` | `NobodyMissesPipe` |
| `PipeIsChannel` | `IsChannel`: the ring of any size implements Channel |
| `SyncTypes`, `PipeTypes`, `ResourcesTypes` | the variables of these modules stay well formed; no write of the kernel falls outside the ring |
| `ResourcesMemorySafe`, `ResourcesNoLeak` | `MemorySafe`, `NothingLeaks` |
| `ResourcesImplementsProcess` | a behaviour with memory is a behaviour of Process, so all theorems about Process hold of it |
| `MailboxesAreChannels`, `DevicesCallsAsMade`, `OverlayWindowStable` | `BoxesAreChannels`, `CallsAsMade`, `WindowStable` |
| `LauncherMenuAfterChild` | `MenuAfterChild` |
| `TcpSocketClosed`, `UdpSocketClosed`, `SocketsStayClosed` | the two halves of `SocketsClosed`, each of its own program, and `SocketsClosed` of all programs together |
| `TcpEchoedBeforeClose`, `UdpReplyToSender` | `EchoedBeforeClose`, `ReplyToSender` |
| `ToolsTransferSafe` | `TransferSafe` |
| `ToolsDescriptorsClosed`, `EditorDescriptorsClosed` | `DescriptorsClosed`, of the tools and of the editor |
| `EditorSavesText`, `ShellAnswersLine` | `EditorSaves`, `AnswersLine` |
| `FrameSavedIsInterrupted`, `FrameTrapTransparent` | `SavedIsInterrupted`, `TrapTransparent` |
| `NeonTrailsDisjoint`, `InvadersScoreAccounts` | `TrailsDisjoint`, `ScoreAccounts` |
| `NeonWonFairly` | `WonFairly` |
| `HeapStaysTiled`, `HeapRefusesRightly` | `HeapTiled`, `NoFalseOutOfMemory`, for a heap of any size and any requests |
| `HeapIsAllocator` | `IsAllocator`: the heap, headers and all, implements Allocator |
| `AllocatorKeepsApart` | blocks of Allocator, and so of the heap, are inside it, long enough and disjoint |
| `DominoKeepsAccounts` | `DominoAccounts`, for a well of any size |
| `TetrisClearsRows` | `RowsCleared`, for a well of any size, of the games whose pieces stay inside it |

**The invariant** is `Inv == SchedInv /\ NoStaleWaiter`, where `SchedInv` conjoins
the types, `OneRunning`, `WorkConserving` and `DeliveredOnReturn`.  None of these is
inductive alone: `OneRunning` needs the type of `current_pid`, and that idle and
halted tables have nobody RUNNING; the idle step needs `OneRunning` to know that
the winner is alone; `NoStaleWaiter` needs `OneRunning` to know that the process
that becomes WAITING is the caller, which is alive.

**The argument** is split as the code is.  `SchedulerProofs` shows once what the
shared part does: `TickUpdate` and `WarpUpdate` keep tables well typed and move
processes only between states they may (`TickUpdate` never ends anybody);
`Elected` is a member of `Electable` that beats the others, which for the priority
policies rests on a maximum existing among finitely many slots; and then that
`Schedule(t)` and `Resume(t)` restore `SchedInv` from any table a handler may hand
them, and change no process but the two that trade the CPU.  `ProcessProofs` then
has one lemma per system call that its table qualifies, one about the death of a
process and its waiters, and a step per action.  Each lemma also shows that its call
puts nobody in `Parked`, the states in which only Sync and Pipe make processes wait;
that is all those modules need to know of the calls of Process.

**Aging** is an argument of its own, about the table alone.  Fix any number `hi` no
priority exceeds and look at the effective priorities above it.  `Aging` says that
at most `MAX_PROCESSES - k` READY processes stand at level `hi + k` or higher: the
levels get emptier towards the top, and the last one is empty, which bounds the
age.  An election moves everybody up by one, so who is at a level now was one
level lower before, where one more was allowed; and the winner, who beats all
others, leaves every level that anybody is at.  The handlers themselves
only put an age back to 0 or leave it (`Rested`), which is all the proof asks of them.

`BlockingProofs`, locks: `SyncInv` is `Inv` with the three properties of Sync, which need each
other.  Who enters a free lock needs `LocksAgree` to know it is empty; who is handed
the semaphore was BLOCKED, so by `NoLostWakeup` not inside before.

`BlockingProofs`, pipe: `PipeInv` adds to `Inv`, the type and `NobodyMissesPipe` that the places
between the two ends hold written values, since a place never written holds 0.  The
refinement has two lemmas about the ring alone: a write appends to `Contents` and a
read takes its head, by the arithmetic of one wrap (lemma `Wrap`); a call that fails
and every call of another kind leaves `Contents` and `delivered` as they were.

`ResourcesProofs`: memory is correct when four things agree, and the proofs work on
them as sets, away from the table: who is alive, who owns which data and stack, which
blocks are in use, and the segments (`MemoryOK`).  Data is a block exactly when it is
from the heap, and a slot that is free owns nothing: without the second a birth
could leak what the slot had.  There is one lemma for a birth and one for a death.
The death of one of several threads that share data keeps the block because another
live owner exists at that moment, and the last death frees it because none does.

`ServicesProofs`: a mailbox needs no invariant but its type.  For the devices the
invariant follows a call (`Held`): what it has put in by its `n`-th word is in the
bank of its slot, whatever was there before; the other processes write to other
banks, a birth in the slot finds no call, and since the words of each call fill all
that its command reads (`CallsFill`), the command finds its arguments.  For the window the invariant is that it is marked in
use whenever somebody lives in it, and that then its size is past the header,
which rests on `DynamicOverlayAssumption` (an image has code).  The launcher waits for
a slot number, so its invariant says what the number still means: while the child
lives its slot is not free, so nobody else gets it, and a launcher whose `sh_at`
is back at the menu with the child alive is WAITING for that very slot.  Only the
end of the child wakes it, since `kernel_spawn` and the others take free slots only
and leave those who wait as they are (`WaitersStay`).

`StandaloneProofs`: while a process is trapped its frame is as it was pushed but for
the pc of one that was redirected, and while its handler runs the kernel's copy is
the interrupted state.  A cycle's head is always in the trail, so a cell that is
entered is no head's.  The rival tries the cell ahead and those on both sides, and
turns where it can; the fourth cell is where it came from, which is marked once it
has moved.  So `WonInv` says that the cell behind it is blocked or the one ahead is
free, and the second is what the first frame needs: it starts with a free cell ahead
(`NeonAssumption`).  The score of Invaders is a count over rows; taking an
enemy out of a row of the grid lowers that row's cardinality by one.  About
Allocator, only that sizes, header and slack are natural numbers is assumed.

`IoProofs` has one part for each kind of program at the devices.

* *Sockets.*  `HeldTcp` and `HeldUdp` are the sockets that may be open at each `pc`;
  the invariant is that no other is.  A step that could lose one is an assignment to
  a variable that still names an open socket, and at each such `pc` it has been
  closed before.  `TcpLeft` adds what is left at the end: a client that exits without
  the close has sent on no socket, and the server that serves once closes its client
  before its listener, and exits with neither open if it has heard from a client.
  `SocketsStayClosed` puts this together with the programs that use no socket.
* *Streams.*  What a client has put is cut into consecutive parts: what it has taken
  back, what is on its way to it, and what the server has not read.  Echoing a byte
  moves the border of two parts, and no gap comes between them (`NoGap`) until the
  last poll for the answer has been spent.
* *Datagrams.*  While the server echoes, the bytes of the datagram up to `udp_index`
  are in the FIFO of what is to be sent and the rest in the FIFO of what has come, and
  both FIFOs are empty between two datagrams, whatever was refused.
* *Files.*  While a transfer runs, the destination is the part of the source before
  the place of the descriptor that reads it (`Moving`), so the end of the file is
  answered only when the destination has everything.
* *The editor's file*, followed by what is still to be written of the line, is the text
  typed (`Faithful`): at each key, and at each byte of the flush of a line, be it
  ended or full.
* *The line of a shell* is an array whose first places are the text, followed by a 0
  once Enter is struck.  The loops that compare and hash stop at that 0 and see
  nothing of what earlier lines left behind it.  The first space is the least place
  that has one, which exists since `<` on the natural numbers is well founded.

`LoopProofs` is about loops over data, which no induction theorem of the library
reaches here.  A loop is a function of its own state that is `out` of it where it
stops and otherwise that of the next state (`IsLoop`).  `LoopExists` says that every
loop whose steps stay among its states has such a function: a state has what
comes out of the stopping states that every set closed under the step must meet.
`LoopEnds` says what a loop returns when a measure falls at each step: the result of a
stopping state of any set that its steps do not leave.  Had states of the set another
result, one of them would have the least measure, and its next state less.  What such
a set says is the invariant of the loop; each loop has its own:

* *First fit*: no header behind the walk fits.
* *Defragmentation*: the headers, less those swallowed, still tile the heap
  (`Tiling`), the words of blocks in use are as they were, and behind the walk no two
  neighbours are free (`Merged`).  The measure is the number of words from the walk to
  the end of the heap plus that from the next header, which is farther once a
  neighbour has been swallowed.
* *The rows of a well*: what the rows settle to (`Settled`) never changes, the count
  and the full rows left make up those of the beginning, no row behind the scan is
  full, and cells are only lost a row at a time.  Taking a row away moves the others
  by a one-to-one map that keeps their order (`Sunk`), which is why the height has to
  be scanned again: the measure is the height and the number of full rows.

The heap then has the invariant `HeapInv`: some set of headers tiles it, no two
neighbours are free, and the blocks in use are those of `held`, each with at most
two words more than asked (`Serves`). A run of words outside the blocks in use lies
in one free block, as the block its first word is in is free and so its neighbour is
not (`Covered`). In the refinement, malloc takes for Allocator the block that first
fit found, and Allocator does not see which blocks free() merges. Domino's invariant
`DominoGood` is the account itself with the piece inside the well, since a piece
outside could not be counted. Of Tetris the invariant is only that the board is a
well; `PieceInside` is a hypothesis of the theorem and not a consequence, since
finding 5 breaks it, and what the program then writes lies outside its array.

**Only model-checked:** liveness (`ReadyRuns`, `SleepersWake`, `AlarmsRing`,
`ServerReturns`, `ClientEnds`), which the prover does not treat under fairness, and the
six properties the code breaks, each shown by a counterexample.

## 6. Assumptions about the environment

Letters are not 0 (a letter 0 is accepted and never arrives); an image the disk
loads has code after its header. Programs call sigreturn in handlers only; users of
the locks release what they hold and nothing else; malloc is asked for sizes that
are not negative; the rival of NeonCycles starts with a free cell ahead; -1 is never
written to the pipe; the image boots at least one program. The network device and
the disk do what the library's use of them implies; they may refuse, break, delay,
lose and reorder, and do not invent data; a refused send of a datagram empties its
FIFO like one that was carried out. A device acts on a command with what is in the
bank of the process the kernel last selected. A program uses a device from one
thread and not from its signal handler, as all programs of the repository do. The command words of the shells are
printing characters other than the space, as the literals in their code are
(`LineShellAssumption`).

## 7. What is not modelled

* **The devices** themselves: they are Python programs outside the repository, and
  the models of Network and Disk are what the library expects of them.
* **What a reused slot inherits** is in the models.  Of a bank of registers nothing is
  acted upon (`CallsAsMade`); a letter is received by the next owner, and no property
  forbids it: the documents do not say whether a box belongs to the slot or to the
  process.
* **The 16-bit wrap of `system_ticks`**: the models count what is left until a tick,
  which makes liveness checkable and leaves the wrap out.
* **Heap requests of negative size** and other calls outside the assumptions above.
* **Threads' shared result word** in calls other than the mutex's and thread_create's:
  the wrappers have the same three steps.  In ThreadLock threads do not end, and the
  main thread creates and joins them.
* **What programs draw and print**, the commands of the shells, the listings of the
  launcher.
* **Console**: characters in and out, no state.
* **The other programs**: templates, examples of one or two calls, effects, and small
  games without state that outlives a frame; **legacy sources, generated assembly, the
  compiler and IDE**.

## 8. Where it could go on

The tick arithmetic near the wrap, in a module of its own; the commands of the shells
that change state of the kernel, by composing LineShell with Process; from liveness,
the step properties that make it true, as `RoundRobinProgress` and `AgeBounded` already
are for `ReadyRuns`.
