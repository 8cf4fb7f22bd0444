# Verification of FlyanxOS

TLA+ models of the FlyanxOS microkernel, its drivers, its memory manager and its
file system, the TLC configurations that check them, and proofs that TLAPS
checks. Paths below are those of the repository; `kernel/` stands for
`src/kernel/`, `mm/` for `src/mm/` and so on. The comments of the code are in
Chinese and are quoted in translation.

FlyanxOS is an i386 microkernel system in the manner of MINIX. A small kernel
passes messages and schedules; tasks (drivers, the clock, the system task), servers
(memory manager, file system, FLY) and user processes are separate processes
that do everything else by sending each other messages. There is one CPU.
Concurrency comes from preemption by interrupts, from the order in which
messages are sent and taken, and from tasks and servers that sleep in a call of
their own while their clients go on.

## 1. Inventory

| Component | Code | State | Operations | Status |
|---|---|---|---|---|
| Message passing | `kernel/message.c` | `flags`, `send_to`, `get_form`, `caller_head`/`caller_link`, `int_blocked` of every process | `flyanx_send`, `flyanx_receive`, `sys_call` (SEND, RECEIVE, SEND_REC) | `Kernel`, proved |
| Ready queues | `kernel/process.c` | `ready_head`, `ready_tail`, `next_ready`, `curr_proc` | `hunter`, `ready`, `unready`, `schedule` | `ReadyQueues`, proved |
| Interrupt entry and exit | `kernel/kernel.asm`, `interrupt` and `unhold` in `process.c` | kernel stack, `kernel_reenter`, `switching`, the list `held_head`..`held_tail` with `int_held`, the interrupt flag and the controller's mask | `save`, `hwint_*`, `flyanx_386_syscall`, `restart`, `interrupt`, `unhold` | `Interrupts`, proved |
| System task | `kernel/system.c` | the process table | `do_fork`, `do_new_map`, `do_exec`, `do_exit`, and calls that copy or look up | in `Kernel`, proved |
| Clock task | `kernel/clock.c` | `ticks`, `pending_ticks`, `next_alarm`, the alarms, `milli_delay_alarm`, the quantum | `clock_handler`, `milli_delay`, the four requests, the search for the next alarm | `Clock`; the tick's effect on the lists in `Kernel`, proved |
| Terminal task, keyboard | `kernel/tty.c`, `keyboard.c` | ring of scan codes, `tty_table`, `tty_wake_time` | read, write, open, input and its editing, wake-up, REVIVE; in the file system suspend and revive | `Terminal`, proved |
| Console driver | `kernel/console.c` | video memory, row, column, origin and queue of every console, the registers of the controller | write, echo, scrolling both ways, switching, F3, F5 | `Console`, implements `Screen`, proved |
| AT disk | `kernel/at_wind.c` | command in flight, `intr_open`, `hd_info` | open with identify and partition table, close, read, write | `Disk`, proved |
| Memory manager, processes | `mm/main.c`, `fork_exit.c`, `get_set.c` | `mmproc`, `procs_in_use`, `next_pid` | fork, exit, wait, waitpid, exec, getpid | `MemoryManager`, proved |
| Memory manager, memory | `mm/alloc.c` | the hole list, its free slots, `merge_count` | `alloc_mem`, `free_mem`, `merge_hole` | `Holes`, implements `Memory`, proved |
| File system, structure | `fs/open.c`, `link.c`, `inode.c`, `super.c`, `path.c`, `misc.c`, ... | `fsproc`, the open files, the inodes in memory with their counts, two bit maps, inodes and directory on the disk | open, create, close, stat, unlink; fork and exit from MM | `FileSystem`, proved |
| File system, contents | `fs/read_write.c`, `origin/tar.c` | the buffer, positions, sizes, sectors | read, write, lseek, truncation, `untar` | `ReadWrite`, proved |
| FLY server | `fly/` | none to speak of | sleep (unfinished) | not modelled |
| Origin, shell, libraries | `origin/`, `lib/` | none shared | the calls | the discipline of their calls is in `Kernel` and `ReadWrite` |
| Boot, protection, dumps | `boot/`, `kernel/protect.c`, `exception.c`, `dmp.c` | descriptor tables | start-up | not modelled: sequential I/O and data layout |

How they interact. Every arrow is a message through `sys_call`. Users call
servers with SEND_REC. MM calls the system task (`sys_fork`, `sys_new_map`,
`sys_exec`, `sys_exit`) and the file system (`tell_fs`); the file system calls
drivers with SEND_REC; drivers call the clock. Answers are plain SENDs in the
other direction, and so is the REVIVE of the terminal task. Devices reach their
task through `interrupt()`, which either delivers a message from HARDWARE, or
remembers it in `int_blocked`, or holds it until `unhold()`.

What is hard, component by component, and what makes it correct:

- *Message passing.* Rendezvous without buffers: either side may come first, a
  fork copies half of a rendezvous, an exit removes one. Correct means: caller
  lists and flags agree, nobody waits for a message that is there, senders never
  wait in a circle, no message is dropped.
- *Ready queues.* The tail pointers are kept by hand and are at times stale.
  Correct means: no runnable task or server is off its list, no blocked process
  on one, and the CPU belongs to a list head.
- *Interrupts.* Handlers nest, and the way out of the kernel is partly
  interruptible. Correct means: one delivery at a time, no interrupt lost,
  system calls made for their caller, and the kernel is always left again.
- *Clock.* Handler and task share counters, and one handler serves alarms,
  delays and quanta. Correct means: no tick is lost, no alarm is slept through or
  rings early, delays end.
- *Terminal.* Keys come in while the task looks at what came before, and a reader
  that was suspended is revived by a message that crosses the file system's next
  request. Correct means: nothing is forgotten, each suspended process is owed
  one revival and gets it, the count of complete lines is right.
- *Console.* One memory for all screens, with an origin that moves. Correct
  means: what is written is shown where a screen would show it.
- *Disk.* The interrupt says only that something has happened. Correct means: it
  is taken for the command that caused it, and the sectors are the right ones.
- *Memory manager.* It sleeps between its own update of a table and the
  kernel's, exit and wait come in either order, orphans change parents, process
  numbers start again. Correct means: its tables and the kernel's agree, each
  caller gets exactly one answer, each death is reported once, each click of
  memory has one owner.
- *File system.* Counts shared by fork, several tables changed one after the
  other, errors in the middle, sectors written whole. Correct means: what a
  descriptor reaches is there and stays the same file, no sector has two owners
  (true below the archive `cmd.tar` only), what is read is what was written.

The lines where each of these bites are the `hazards` of `PROJECT.json`.

## 2. Modules

| Module | Models | Notes |
|---|---|---|
| `ReadyQueues` | `kernel/process.c` | operators on a record (lists, tail pointers, running process), no state of its own |
| `Kernel` | `message.c`, `clock.c` (quantum end), `system.c` (four calls) | EXTENDS `ReadyQueues`; the process table as functions of the process |
| `Kernel_proofs` | | lemmas on the ready queue operators; the inductive invariant and the theorems |
| `Interrupts_proofs`, `Drivers_proofs`, `Terminal_proofs`, `Disk_proofs`, `MemoryManager_proofs`, `Holes_proofs`, `FileSystem_proofs` | | the inductive invariant of each of these modules and its theorems; `Drivers_proofs` is about `Clock` and `Console`, `FileSystem_proofs` also about `ReadWrite` |
| `Interrupts` | `kernel.asm`, `interrupt`, `unhold`, the three handlers | a step is what runs between two points at which an interrupt can come |
| `Clock` | `clock.c` | handler, task and spinning callers interleave |
| `Terminal` | `tty.c`, `keyboard.c`, `fs/pipe.c`, `fs/misc.c` (revive), `fs/device.c` | the task composed with its handlers and with the file system |
| `Console`, `Screen` | `console.c` | `Screen` is what a console promises; the first console implements it |
| `Disk` | `at_wind.c`, with an external controller | the task, its handler, the drive and its caller interleave |
| `MemoryManager` | `mm/main.c`, `mm/fork_exit.c`, and what the kernel and the hole list do for them | checked directly, its constants are numbers |
| `Memory`, `Holes` | `mm/alloc.c` | `Memory` is the promise, `Holes` implements it |
| `FileSystem` | `fs/`, but for contents and devices | one request is one action |
| `ReadWrite` | `fs/read_write.c`, `lseek`, and `untar` as its user | a fold over the rounds of the loop |
| `MCKernel`, `MCInterrupts`, `MCClock`, `MCConsole`, `MCFileSystem`, `MCReadWrite` | | instances for TLC; the other modules are checked directly |

Operators that are mutated forms of another carry its name with a suffix, and the
word mutant in it or in its comment; `PROJECT.json` says which property notices
each.

### Kernel

A state is the process table (`priority`, `flags`, `sendTo`, `getFrom`,
`callers`, `intBlocked`), the ready queues `rq`, and `secondHalf`, which is not
empty while a SEND_REC is between its send half and its receive half. A linked
list is the sequence of its elements. Actions: `CallSend`, `CallReceive`,
`CallSendRec`, `CallSendRecReceive` (`sys_call`), `Interrupt(t)`, `QuantumEnd`
(the part of `clock_handler` that calls `lock_schedule`), and the system task's
`do_fork`, `do_new_map`, `do_exec`, `do_exit`. The caller of `sys_call` is
`curr_proc`, so only the process that the scheduler chose acts.

Who may call whom. The kernel checks user processes only; tasks and servers are
trusted. The model gives them the discipline that their code keeps: SEND_REC goes
from users to anybody (the kernel refuses what is no server), from tasks and
servers to tasks, and from MM to other servers (`tell_fs`); a plain SEND is an
answer, `clock.c:124`, `system.c:81`, `tty.c:995`, `at_wind.c:120`,
`driver.c:54`, `mm/main.c:57`, `fs/main.c:91`, `fly/main.c:68`. It matters for
two things only: nobody sends to a user process that is not waiting for it, and
the system task serves MM, which is blocked in its call meanwhile.

Granularity. A half of `sys_call` is a step, and the clock tick comes between
halves as well (it does not look at `kernel_reenter`). A tick inside one half,
between two assignments of `unready()`, is a data race on list pointers that
this model does not describe; `Interrupts` shows where such ticks can come.

### Interrupts

`stack` holds the activities inside the kernel, so `kernel_reenter` is its length
less one; `intsOn` is the CPU's interrupt flag, `masked` the controller's mask.
The ready lists are `Kernel`'s; here only `curr` is kept, and whatever changes the
CPU's owner may choose any process that it could find (a quantum's end leaves a
running task alone, and picks any server or user process, or IDLE, otherwise).
`unhold` is taken apart into its loads and
stores, because `interrupt_unlock` at the end of its first round leaves
interrupts on in the later ones. The system task's `lock_ready`/`lock_unready` is
a section of its own (`lock_enter`, `lock_leave`).

Fairness: weak fairness of the kernel's own steps. The CPU executes
instructions, and nothing else than an interrupt comes between two of them.
Deadlock is not checked: when no interrupt is left (they are bounded) the
machine may halt in the idle task for good.

### Clock

The variables are those of `clock.c`, with `elapsed`, the interrupts that there
have been, `hard`, the message that waits for the task, and `task`, where the
task is. The task's steps end where a tick can come: after `receive`, after the
calibration (which is under `interrupt_lock`), after each turn of the loop over
the process table. `common_set_alarm` and `do_clock_int` search with the same
loop and share the action `search`; only the second rings alarms. A request of
an alarm comes from another task. `milli_delay` is called by tasks, which are not
preempted: while one spins nothing runs but the handler. Deadlock is not
checked: ticks are bounded (`MaxTicks`), and behind the last one a task may spin.

### Terminal

`ring` is the keyboard's buffer; `tty` has the fields of `struct tty_s` that a
transfer goes by; `task` says where the task is in its main loop, and in which
call of `tty_reply`. Nothing in the system ever changes termios (`do_ioctl` only
echoes its message back), so that a console is in canonical mode with `min = 1`:
a transfer ends the read, timers of consoles are never set. A character is a
member of `{"text", "newline", "eof"}` once it is in a queue.

The file system is modelled by what it does with terminals: it receives, calls
the task (`task_call` is a SEND_REC), looks at the answer, suspends or answers,
and revives. The task's REVIVE meets it in any of these places. Three of them are
bad ends and end the behaviour here (`halted`): the file system is just sending
to the task, the send is refused and the task panics (`tty.c:995`); the file
system waits for the answer to another request and takes the REVIVE for it; or
the task is blocked sending while the file system calls it, `dev_open` panics
and `dev_io` goes on with what it finds in its own message. That these are
reachable depends on the file system being ready while the task runs, which the
scheduler allows (`ready()` of a server on an empty list takes the CPU,
`process.c:209`).

Fairness: weak for the clock's tick, for the task's and for the file system's
steps (processes that are ready run). Strong for `do_revive`, because a blocked
task is on the caller list and receive takes senders in turn, and for the end of
`handle_read`: keys come in slower than the task takes them, so that the ring is
empty at some time, and at some such time no new key has set the event again.

### Disk

`drive` is the controller, external and modelled as the code takes it to be: a
read interrupts for every sector that is ready, a write for every sector taken,
the first sector of a write is asked for without an interrupt, reading the
status takes the interrupt back. `image` is what the disk ought to hold by the
answers given so far. The controller does what it has to do before the time-outs
of `wini_wait_for`. Requests are whole sectors in the partition, an open first,
which is what the file system sends. Fairness: weak for the drive, the handler
and the task.

The count of a command is a `u8_t` (`hd.h:150`), and 0 stands for 256; `COUNT_REG`
is that 256 and `Served` what the drive makes of a count. The file system asks
for up to 2048 sectors in one request (`fs/read_write.c:105`; `mm/exec.c:163` reads
whole programs). The task counts such a request in full and the drive does not:
after the sectors that were served a read waits for an interrupt for ever
(`ready?`), and a write waits for DRQ and panics (`write_panic`). So `Answered`
speaks of requests that fit a command, `EveryAnswered` of all of them is false,
and the other two properties, which hold for any request, hold beyond 256
sectors because no answer comes there. Deadlock is not checked: opens are bounded,
and the wait and the panic are ends.

### FileSystem

`Init` is the disk that `mkfs` makes: bit 0 and the sectors of "/" in the sector map,
and, at `INSTALL_BIT`, those of the archive `cmd.tar` (`fs/main.c:255`), which is
the last of the fixed inodes and entries. Files start at 1 + k * 2048, the
archive at the bit of `INSTALL_START_SECT`, about 93,900, in the middle of such a
row; `alloc_smap_bit` tests the first bit only (`super.c:134`), so the file that
gets bits 92,161 to 94,208, about the 45th, is laid over the archive's first
sectors (`ArchiveReserved`, section 3). Files below the archive's place are not
concerned, and `SectorsExclusive` is about these: all their sectors are marked and
no other file, the archive and what came to lie over it included, has one of them.

`open_file`, `file`, `inode` are the three tables; `disk` holds bit maps, inodes
and the one directory. A handler works on a copy of the tables, in the order of
the code, and `Commit` stores it. Every error return of `common_open` and
`do_unlink` is an action of its own. Some errors do not give back what they took:
a refused unlink, or an open with flags that fit nothing, leaves the count of the
inode too high. The model has that, and the properties say what is still right.
Where the code comes to a null pointer or a panic the behaviour ends (`halted`),
and also when the root inode's slot, whose count goes down whenever "/" is
closed, is taken by another file: from then on every path leads into that file.

### ReadWrite

Files lie side by side, as `alloc_smap_bit` puts them. A transfer is the record
that the loop of `read_write` carries from round to round. A write does not read
the sectors that it fills in part, and one that ends where a sector ends writes
the next sector from the buffer too. `Fits` and `untar_mark` are the two ways in
which `origin/tar.c`, the only writer, uses it: whole files from a sector's
start, less than the file can hold; and one byte at the start, after which only
that byte is promised. With `<=` for `<` in `Fits` a file written to its
capacity overwrites the next one's first sector, and `ReadsBack` fails. The
buffer must hold a file: the code's is 1 MB (`FS_BUFFER_SIZE`), which is its 2048
sectors of 512 bytes exactly (for the disk task that is too much in one request:
see Disk; here the disk answers). With `SECTS = 3` and `BUFFER = 2` `ReadsBack` fails
too, because the last round of the loop writes a whole chunk, as much as the ones
before it, and so the neighbour's first sector.

### Console and Screen

`Console` follows `out_char`, `flush` and `scroll_screen` on the record `s` of
what the driver keeps; a call is an action, because the terminal task is the only
caller and ends every call with a flush. `Screen` knows rows and columns only.
The refinement maps what is shown of the first console, from its origin on, to
`Screen`'s text. ESC M in the first row is the exception that `Screen` states
(`ReverseFeed`): the code clears a whole screen there, not a line. Because all that
is promised then is an empty first row, a text that goes on behind an ESC M could not
be followed, and `ScreenAssumption` keeps an ESC M of the first console for the end
of a text. It also says that a tab is not wider than a line (8 and 80 in the code).

### MemoryManager

`mm` is MM's memory: the table `proc`, `procs_in_use`, `next_pid`. `work` says
where MM is: in `receive`, with a call in hand, asleep in `sys_fork`, in
`sys_new_map` or in `sys_exit`, or sending answers. User processes run and queue
calls (`Call`) at every step. `kernel` and `noMap` are what the kernel thinks of
every user slot. Flags are joined with the field that is read only under them
(WAITING with `wait_pid`, REPLY with the answer), errors are one value, and
the content of a request is chosen when MM handles it. Free slots keep their pid
and parent, as in the code, because the code reads them. Deadlock is not
checked: a parent that waits for a child that is gone (`WaiterHasChild`, below)
is one.

### Holes and Memory

`Holes` keeps the list, the number of free slots and `merge_count`, and the images
that were given out. The recursion of `merge_hole` is one operator: it ends at
the first pair that touches, at the end of the list, or at the fifth step since
the count was last reset. `Memory` is a set of free clicks from which a request
gets any row that is free and is refused only if there is none.

## 3. Runs

| Run | Shows | States |
|---|---|---|
| `MCKernel` | `CallersAreSenders`, `NoSendCycle`, `NoMissedRendezvous`, `ReadyListsExact`, `CpuAtListHead`, `NothingDropped` in every interleaving of calls, interrupts, quantum ends, forks, execs and exits | 388,750 |
| `MCInterrupts` | no two handlers or deliveries at a time, no task twice on the held list, and the kernel is always left again | 1,062,224 |
| `MCClock` | no tick lost, `next_alarm` right whenever the task waits, alarms neither early nor slept through | 744,211 |
| `MCTerminal` | two consoles, a user and a server: each suspended process is owed one revival, the task never sleeps over work | 1,155,752 |
| `TerminalLine` | one console, all keys: the count of lines is right, and who is due runs again (liveness) | 482,305 |
| `MCConsole` | screens, origins, cursors and registers agree; the first console implements `Screen` | 138,240 |
| `MCDisk` | transfers are right, no interrupt is left for the next command, every request that fits a command is answered (liveness) | 26,422 |
| `MCMemoryManager` | tables agree, memory owned once, exactly the answers that are owed, no dead child waited for, every death reported | 1,323,986 |
| `MCHoles` | the list is sorted, disjoint, complete; a slot for every hole; `Holes` implements `Memory` | 2,158 |
| `MCFileSystem` | counts cover descriptors, memory and disk agree, sectors below the archive and entries have one owner, descriptors stay on their file | 89,559 |
| `MCReadWrite` | what is read is what was written | 193,392 |
| `KernelRoundRobin` (a violation) | `process.c:24` says a user process whose quantum is up goes to the tail of its queue; with one process on the list, or a stale tail, `schedule` takes it off the list and it is never run again | |

Properties that the code does not have. Each is defined in its module with its
comment, and is refuted by adding its name to the cfg of the run named:

| Property, run | The code's words or intention | What it does |
|---|---|---|
| `HighestPriorityRuns`, `MCKernel` | `process.c:22`: the first process of the highest queue is always the one that runs | a server made ready on an empty server list takes the CPU from a ready task (`process.c:210`) |
| `HeldIsKept`, `MCInterrupts` | `process.c:57`: held interrupts are dealt with by a later `unhold` | one that arrives between load and store of `held_head` is lost (`process.c:432`) |
| `FrameProtected`, `MCInterrupts` | `kernel.asm:419`: interrupts are off to protect the frame of the process to be started | after `unhold` they are on |
| `CallerIsTrapper`, `MCInterrupts` | `message.c:272`: `curr_proc` is the process that made the call | a tick between `sti` and that line can change it |
| `SwitchUndisturbed`, `MCInterrupts` | `process.c:31`: no hardware interrupt during a switch | a nested `lock_schedule` clears `switching` |
| `WaiterHasChild`, `MCMemoryManager` | `fork_exit.c:234`: wait without a child is an error | the free slot of a collected child still counts, and the caller sleeps for ever |
| `PreciseWait`, `MCMemoryManager` | `fork_exit.c:250`: waitpid waits for one particular child | any child ends it |
| `ExitCloses`, `MCFileSystem` | `fs/misc.c:77`: exit closes what is open | `do_fs_exit` looks the process up by `in_pid`, where MM puts 0: it closes what MM has open, which is nothing |
| `ArchiveReserved`, `MCFileSystem` | `include/flyanx/config.h:67`: sectors are reserved for the archive | a file whose first bit is free is laid over them, because `alloc_smap_bit` looks at no other bit (`super.c:134`); three creates in the run |
| `EveryAnswered`, `MCDisk` | `at_wind.c:116`: at last, the requester is given an answer | more than 256 sectors do not fit the count of a command (`at_wind.c:149`): a read waits for ever, a write panics |
| `TaskFinished`, `MCTerminal` | `fs/device.c:131`: the task has finished | the result of a failed `task_call` is not looked at |
| `TypedIsShown`, `MCTerminal` | what is typed goes to the console that is shown | keys struck after a switch go to the old console until the ring has been read (`keyboard.c:259`) |
| `DelayEnds`, `MCClock` | `milli_delay` returns | a tick that finds an alarm due returns before it looks at the delay (`clock.c:363`), and the clock task does not run meanwhile |
| `ScreensApart`, `MCConsole` with a text like `<<"M">>` for the second console | consoles have a screen each | a line cleared for scrolling is cleared with a whole screen of words behind it (`console.c:947`), into the next console's memory |
| `TransfersRight`, `MCDisk` with `LATCH = TRUE` | an interrupt answers its command | one that was polled for comes when interrupts are on and is taken for the next command's (`at_wind.c:513`) |

What else was met and is in the models as it is. In `console.c`: after ESC [
every character is swallowed for ever, because the tests of `;` and of the last
character are inside the test of a digit (lines 625-640). In `fs/`: `stat` and
`close` of "/" give back a count that was never taken; removing the last entry of
the directory shortens it to the number of entries in use, not to the last of
them; a table of inodes that is full is reported as a name that is not there;
running out of inode bits ends in a null pointer. In `clock.c` a request for an
alarm may find the time that is left of the old one negative.

Bounds, and why they are enough.

- `MCKernel`: a task with a device, the system task, MM and the file system, ORIGIN
  and one more user slot. Every class has two members, so lists have a head, a
  tail and an end to go to; three senders can queue on one process, chains of
  three can form, and fork, exec and exit meet a process in every state. Nothing
  else is bounded. `VIEW StateView` hides `sendTo` and `getFrom` of a process
  without the flag and a tail pointer that names nothing it could link behind:
  no guard and no property reads them. The proofs cover every other size.
- `MCInterrupts`: the clock, the terminal and the disk line, and at most four
  interrupts (`MaxInterrupts`). The worst cases need three: two that are held and
  one that comes in a later round of `unhold`. Five were tried once without an error.
- `MCMemoryManager`: ORIGIN and three more slots, so that there are grandchildren,
  orphans with a waiting stepparent and a full table. Three process numbers
  (`MAX_PID`, 50000 in the code) make them start again at every fourth fork and
  collide with those in use. One caller may queue while MM is busy
  (`MaxQueued`), and waitpid asks for any child or for number 1 (`PidsAsked`); the
  numbers rotate, so 1 is the number of a live child, of a zombie, of a free
  slot and of nobody in turn. With three images for three slots memory and
  slots run out together: both refusals of fork return an error with nothing
  changed and are one disjunct.
- `MCHoles`: eleven clicks and images of two, five of which fit, with one click
  left over; seven slots for holes, while the code has 64 (`NR_HOLES`, two for
  each of `NR_PROCS`) for fewer than 32 images.
  With images of different sizes `ImplementsMemory` fails: holes that touch and
  were not merged refuse a request that fits. Every image of the running system
  has the size of ORIGIN's, so the code is safe as it is used.

- `MCFileSystem`: two users, four names, one of them the archive's, and "/", one
  descriptor each, two open files, three slots for inodes (one is the root's), five
  inode numbers, ten sector bits in bytes of two, and files of two sectors: "/" on
  bits 1 and 2, room for two files behind it, a third that runs into the archive on
  bits 8 and 9, and a fourth that meets the panic. Every table can be full,
  a file can start inside a byte of the map or at its start, a directory can have
  an entry removed from its end or middle, the archive can be removed and made
  anew, and two processes can have one file open by fork or by name. `MaxEntries`
  and `MaxCount` bound the directory and a count. Names are interchangeable and are a
  symmetry. No special files: their path through open is that of any other existing
  name. `RootCalls` leaves `O_TRUNC` of "/" out: cutting the only directory to nothing
  ends the use of the disk. The `VIEW` joins halted states. `Unlapped`, the
  CONSTRAINT, leaves out what comes after a file was laid over the archive; the first
  state with such a file is checked, and the theorems are not bounded by it. Without
  it, on a smaller disk (three names, five inode bits, four entries, the archive at
  bit 6 of 8), the run passes too, with 120,523 states.
- `MCTerminal` and `TerminalLine`: a ring of one code and a queue of two
  characters, so that both overflow; the first has two consoles, a server
  that must not block and the keys that matter for who waits (newline, stop,
  switch), the second one process, one console, all ten keys and reads of zero
  (a bad argument), one and two characters. A third console is like the second
  for everything but the order in which events are looked at. Deadlock is not
  checked: `halted` ends a behaviour.
- `MCClock`: two processes, a quantum of two ticks, two ticks a second, five ticks
  in all. Alarms of one and two ticks and delays of one and two fall due before,
  at and after each other, and every step of the task has a tick before and
  after it.
- `MCDisk`: five sectors, a partition that starts at the second, transfers of one
  to four sectors, of which a command takes three (`COUNT_REG`), and two opens: an
  open with and without interrupts, a first, a middle and a last sector, and one
  more than was served.
- `MCReadWrite`: sectors of two bytes, files of two sectors, a buffer of two
  sectors, texts of one to three bytes. Transfers start in and at the start
  of a sector and end in and at the end of one; the second file lies behind the
  first, the first's superfluous sector in it.
- `MCConsole`: screens of two by two, consoles of seven words, so that the origin
  can move by one line before the end of the memory is met. The first console has
  texts of every character and of a line that is too long, the second scrolls up
  and down.

## 4. Proofs

### Kernel_proofs

`Kernel_proofs` proves, for any sets of tasks, servers and user slots that meet
`ProcAssumption`, `SpecialAssumption` and `BootAssumption` (the classes are
disjoint, the special values are no processes, the boot lists name every task
and server once), that every invariant and the action property of `MCKernel`
hold of `Spec`.

The argument. None of the invariants is inductive by itself. `IInv` joins

- `TypeOK`;
- `SchedInv`: which slot has which priority (`Classified`), what the tail
  pointers may name and that the running process heads a list (`GoodRq`, a
  property of the record `rq`), and `ReadyListsExact`;
- `IpcInv`: `CallersAreSenders`, `NoSendCycle`, `NoMissedRendezvous`, that a
  process blocked in both halves of SEND_REC waits for the process it sends to
  (`SameProcess`; otherwise a queued caller could miss its answer), and that only
  user processes wait for a memory map (`MapsUser`);
- `BetweenHalves`: the caller whose receive half is owed is unblocked or sending
  to that process, whatever a quantum end did to the lists in between.

Lemmas show once for `Hunter`, `Ready`, `Unready` and `Schedule` that they keep
`GoodRq` and what they do to each list. The proof then splits a step into what happens to the message links and what happens to the lists. That
no circle of senders forms is shown from the definition of the chain walk: if
the new sender closed one, the walk from its destination would have found it.

Theorems: `InductiveInvariant`, `TypeCorrect`, `CallerListsCorrect`,
`NoCycleOfSenders`, `RendezvousNotMissed`, `ReadyListsCorrect`,
`RunningProcessHeadsAList`, `MessagesAreTaken`.

### Interrupts_proofs

From `InterruptAssumption` (finitely many devices, the names are different ones),
for any number of lines and processes and any number of interrupts: `TypeOK`
(`EntryWellFormed`), `NoOverlap` (`HandlersNeverOverlap`), `ListedIsHeld`
(`ListedAlwaysHeld`).

`IInv` joins `RestOK` (kinds), `StackInv` (only handlers nest, a handler's line is
masked, so no line is on the stack twice, which also bounds the stack by the
number of lines), and five statements about the list of held interrupts.
`ListedIsHeld` alone says nothing about a handler that appends while `unhold` has a
task half taken off. What is needed: the list has no cycle (`NoCycle`), the task
that `heldTail` names has no successor (`TailEnds`), and the task that `unhold` holds
is not reachable from `heldHead` any more and still marked (`UnholdInv`). The
members of the list are those that every set which contains the head and is
closed under `next` contains (`Reach`); a lemma for each way in which the code
changes a link says what it does to that set.

### Drivers_proofs

*The clock.* From `ClockAssumption` (times stay below `LONG_MAX`): `TimeKept`
(`TimeIsKept`), `NextAlarmIsEarliest` (`EarliestAlarmIsNext`), and the action
property `AlarmsInTime` (`AlarmsRingInTime`). The search for the next alarm stops
between any two slots, and then `next_alarm` is the earliest of nothing.
`NextAlarmInv` says what it is meanwhile: not later than any alarm of the slots
already looked at, and, unless it is `LONG_MAX`, the alarm of somebody who is not
about to be rung.

*The console, its memory.* From `ScreenAssumption`, for any number of consoles, any
screen, video memory and texts: `ScreensInPlace` (`ScreensStayInPlace`). A call is
one step of the model but many routines, so the invariant is a statement about the
record the routines work on. Between two calls it is `Full`: nothing waits on any
console, every origin and cursor is right, the adapter shows the current console.
While console c is written to it is `Loose(s, c)`, which leaves out c's queue and
cursor, and `Writing(s, c)` between two characters: the queue is no longer than the
column, and so never overruns. Each routine has a lemma that says what it keeps.

A text is a fold over its characters. The library defines `FoldLeft` through a
function on sets of positions that CHOOSE picks, so the lemmas first show that there
is one (`ChainExists`, by the well-founded order of the number of positions) and that
what one step keeps holds to the end (`SubsetInduction`).

*The console, what is seen.* `FirstIsScreen` (`FirstConsoleIsScreen`): initial states
map to initial states, every step of the driver is a step of `Screen` or leaves the
first console's looks as they are. The argument:

- `Sim(s, a)` relates the driver's record to a screen in the middle of a text: the
  video memory from the origin on, with the queue already in its place, is the
  screen's text, and the queue ends where the screen's next character goes.
- One character keeps `Sim` (`CharShown`): printing (`LetterShown`), line feeds with
  all three ways of scrolling, tabs, backspace over a line's start, escape sequences.
- A text does (`TextShown`), by induction along the two folds side by side; the flush
  at its end leaves what `Looks` says. An ESC M in the first row has its own lemma
  (`EscMPushes`), for `ReverseFeed`.
- Other consoles' texts are invisible: their memory lies behind the first one's and
  none of their writes goes below it (`Apart`). The other direction is false: see
  `ScreensApart` in section 3.
- F3, F5, switching and scrolling back change the origin at most together with what
  is copied there (`OriginLooks`), or clear (`ClearedLooks`).

### Terminal_proofs

From `TerminalAssumption`, for any number of consoles, processes, keys and sizes of
ring and queue: `TypeOK` (`TablesInBounds`), `EotCounted` (`LinesAlwaysCounted`),
`EveryoneIsOwed` (`OneRevivalEach`), `NothingForgotten` (`NothingLeftBehind`).
`IInv` has three parts, which rest on each other.

- `BaseInv`: kinds, and for each console that its queue fits (`QueueOK`, with the
  count of line ends); the task goes over the consoles in order.
- `WakeInv`: every key in the ring, every whole line that has a reader and every
  console whose output may go on has its event bit; and when no wakeup is under
  way, the events that are set are ahead of where the task is in its main loop.
  `NothingForgotten` is its case of a task that is in `receive`.
- `OweInv`: what a process is owed is the set of the consoles and of the message
  that name it; it has one member for a suspended process and none for another.
  The process that the file system is busy with is the exception: `CallerOwed`
  says what it is owed in each of the five places of the call.

### Disk_proofs

From `DiskAssumption` and `~ LATCH`, for any disk, partition and counts, those that
do not fit a command included:
`TransfersRight` (`DiskTransfersRight`), `NothingLeftOver` (`NoInterruptLeftOver`).
`~ LATCH` is a hypothesis of the two theorems, because without it both are false
(see the table in section 3): it says that reading the status takes an interrupt
back also from the interrupt controller. `IInv` says for every place of the task how far the
controller is with its command (`DriveInv`) and which sectors have been carried
over (`DataInv`), and that a drive which owes nothing more (`owed`) stays idle while the
task waits for it. The task counts down `left`, the controller counts sectors of its own;
that both speak of the same sector is what makes a transfer right.

### MemoryManager_proofs

From `MMAssumption`, for any number of slots, blocks and process numbers: `TypeOK`
(`TablesWellFormed`), `TablesAgree` (`TablesAlwaysAgree`), `MemoryOwned`
(`MemoryAlwaysOwned`), `AnswersOwed` (`AnswersAlwaysOwed`), `FamilyKept`
(`FamilyAlwaysKept`), and the action property `EveryDeathReported`
(`DeathsReported`). `MMAssumption` has `MAX_PID >= NR_PROCS - LOW_USER - 1`: with fewer
process numbers than slots the search in `get_pid` would not end. The proof that
`get_pid` finds a free number is a count: fewer processes than numbers.
`IInv` adds `BootSlots`, `WorkInv` (the caller of the request in hand waits, nothing is
due meanwhile; the child of a fork is there for MM before it is there for the
kernel) and `InboxInv` to the checked invariants.

### FileSystem_proofs

From `TablesAssumption` and `MkfsAssumption` (the disk that mkfs makes has room for
what it puts there), for any number of processes, descriptors, open files, inodes,
sectors and bits of a byte: `TypeOK` (`TablesTyped`), `DescriptorsBacked`
(`DescriptorsAlwaysBacked`), `CacheCoherent` (`MemoryMatchesDisk`), `SectorsExclusive`
(`SectorsNeverShared`), `EntriesAllocated` (`EntriesAlwaysAllocated`), and the action
property `DescriptorsStable` (`DescriptorsKeepTheirFile`). All of them speak of
the time until `halted`, as in the runs: what comes after the root's slot is taken
is not modelled.

Handlers work on a record of tables, and so does the invariant. `Sound(t)` says of
such a record what holds between two calls of its operators, and each operator has a
lemma that says which fields it changes (`GetFields`, `SyncFields`, ...) and one that
it keeps `Sound` (`GetSound`, `CreateSound`, ...). What carries the induction:

- *Blocks.* `alloc_smap_bit` tests the first bit only, `do_unlink` clears fewer bits
  than were set. Below the archive it is right because all files have one size: the
  map is a row of blocks there (`LowBlocks`), the first bit of a block says whether
  it is taken, and a block with a clear first bit belongs to nobody, whatever marks are
  left in it (`SectorsRight`, `FirstFreeIsABlock`, `UnmarkedRight`). Whatever else is
  on the disk, the archive and the files laid over or behind it, starts behind
  all of these blocks (`High`, `HighApart`), and nothing more is known of it.
- *Counts.* `Counted`: no count is lower than the number of descriptors that lead
  there. So the inode that `do_unlink` loads with a count of one was in nobody's
  hands before, although counts are too high after some errors (`FreedRight`), and
  the slot that `get_inode` or `get_fd` takes is nobody's.
- *Numbers.* An inode that is held in memory is there once, its bit is set and the
  disk has the same (`MemoryRight`); an entry's inode is no other entry's
  (`EntryRight`, for every place of the sector and not only for those that a
  search sees, because the directory may grow over what was left behind its end).

Two lemmas bring this back to the state: `QuietStep` for a request that opens nothing,
`OpenStep` for one that does. close, fork and exit have proofs of their own; fork's
counts the child's descriptors.

*Contents.* From `SizesAssumption` and `SECTS <= BUFFER`, a hypothesis of the theorem
because it is false without (section 3), for any number of files, sizes and texts:
`ReadsBack` (`WrittenIsRead`). `ContentsInv` says of the disk what `ReadsBack` says of
a read: byte i of a file lies at its place, whatever the buffer holds. Under the
hypothesis the loop of `read_write` has one round (`OneRound`), for which it is shown
which bytes of the disk it changes: those of the sectors of the request, and with
`Fits` none of another file. What a write puts into a sector's rest comes from the
buffer and lies behind the end of the file.

### Holes_proofs

From `HolesAssumption`, for any memory, any sizes of images, any number of them and of
slots: `ListCorrect` (`ListAlwaysCorrect`). The invariant adds that images do not
overlap each other (`Shared`), without which an image that is given back could make
clicks free that another has. Lemmas say what the three changes of a list do to the
order and to the set of free clicks: cutting a hole or taking it out (`Carve`,
`TakeOut`), putting one in at its place (`PutIn`; `Place` counts the holes below,
`PlaceSplits` shows that they are the first ones), swallowing the next
(`TwoInOne`, `SameFree`). Where merging starts and when it gives up does not matter
to any of them.

Under the hypothesis that images have one size, which is what the code does and
what the other two properties need:

- `ImplementsMemory` (`PromiseKept`). Every hole begins, and but for the end of the
  memory ends, at a multiple of the size (`Aligned`). So any hole that does not reach
  the end of the memory is long enough, and when none is, what is free is one remainder
  shorter than an image (`NoRoom`). Initial states map to initial states
  and `alloc_mem`, its refusal and `free_mem` to `Allocate` and `Release`.
- `SlotForEveryImage` (`SlotsSuffice`), if there are more slots than images may be. First
  fit takes the lowest hole that is long enough, so with fewer images than may be the next
  one begins among the first `MaxImages` places (`TakenBelow`, by counting the images
  that would have to fill them otherwise). Hence no hole begins above them (`Below`), and
  all holes but the last, with any one image, begin at different ones (`FewHoles`).

### Only model-checked

Every invariant and action property and both refinements that the passing runs check
are proved. What is left to TLC is liveness under fairness: `KernelReturns`,
`EveryoneRevived`, `Answered` (the prover has no rule for `ENABLED` here). So is the
finding, `RoundRobin`, whose counterexample is TLC's.

The proofs take the constants as the assumptions describe them. The bounds of the
models (`MaxTicks`, `MaxInterrupts`, `MaxQueued`, ...) are constants too: a theorem
holds for every value of them, so that a bound only ends behaviours.

## 5. Not modelled, and why

- Message contents and copying, accounting (`system.c:233` overwrites the times of
  the parent instead of adding to them), wording: no property depends on them.
- Protection and exceptions: data layout. Boot code: sequential I/O. FLY's sleep
  is unfinished in the code. `nop_task` keeps no state.
- MM: exit statuses and user numbers; every process is the superuser's, so the
  guard for the last slots (`fork_exit.c:56`) is never met. Reading a program
  file in exec and building its first stack is data layout.
- File system: directories of more than one sector, the calls that are stubs, `dev_close` (nothing calls it; it would send twice), `do_close` of a
  descriptor that is not open, which goes through a null pointer.
- Terminal: raw mode and timers of consoles, ioctl, cancel, close: no call turns
  the first two on, the others are empty. Which key makes which character.
- Console: colours, the bell, the characters NUL, VT and FF (nothing, and a line feed
  that leaves the column alone), the arguments of ESC [ (never complete), adapters
  where `wrap` is TRUE.
- Disk: register values but for the count, time-outs of a controller that does not
  answer (they panic), extended partitions, requests
  that are not whole sectors (the loop of `wini_do_readwrite` would not end).
- Clock: `lost_ticks` (never counted up), the programming of the timer.

## 6. Plan

1. `Rendezvous`, the abstract specification of message passing (who offers and who
   accepts), and the proof that `Kernel` implements it.
2. The composition of `Terminal` with `Kernel`'s message passing in place of the
   file system's five places.
