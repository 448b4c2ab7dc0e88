# A verification of the kernel

This directory models the operating system of this repository, a small x86
microkernel in the line of Orange'S: a kernel that does message passing,
scheduling and interrupts, five server tasks above it (terminal, disk driver,
file system, memory manager, log) and user processes that call the servers by
messages. The modules are TLA+; TLC checks small instances and TLAPS proves the
safety properties for every instance. Paths below are relative to the repository; `proc.c:359`
is `src/src/kernel/proc.c` line 359 where the file name is unambiguous.

## The system

### Components, their state and their operations

| component | code | state | operations |
|---|---|---|---|
| message passing | `kernel/proc.c`, `kernel/kernel.asm`, `lib/misc.c` | `p_flags`, `p_msg`, `p_recvfrom`, `p_sendto`, `has_int_msg`, `q_sending`/`next_sending` of every `struct proc` | `msg_send`, `msg_receive`, `deadlock`, `inform_int`, `send_recv` |
| scheduler | `kernel/proc.c`, `kernel/clock.c` | `queue[3]`; `ticks`, `time`, `inqueue`, `isschedule`, `whichqueue`, `p_proc_ready` | `schedule`, `inqueue`, `outqueue`, `block`, `unblock`, `clock_handler` |
| memory manager (TASK_MM) | `mm/*.c`, `lib/fork.c`, `wait.c`, `exit.c`, `exec.c`, `command/kill.c` | `p_parent`, `exit_status`, flags `WAITING`, `HANGING`, `FREE_SLOT` | `do_fork`, `do_exit`, `do_kill`, `do_wait`, `cleanup`, `do_exec` |
| file system (TASK_FS) | `fs/*.c` | `f_desc_table`, `inode_table`, `filp[]`, the inode and sector maps, the root directory | `do_open`, `do_close`, `do_rdwt`, `do_lseek`, `do_unlink`, `do_stat`, `do_search`, `fs_fork`, `fs_exit` |
| terminal (TASK_TTY) | `kernel/tty.c`, `keyboard.c`, `console.c` | the ring of scan codes, `tty_table` (input ring, the suspended reader), cursor and origin of each console, `key_pressed` | `task_tty`, `keyboard_handler`, `keyboard_read`, `tty_do_read`, `tty_dev_write`, `tty_do_write`, `out_char` |
| disk driver (TASK_HD) | `kernel/hd.c` | `hd_info` (open count, partitions), `hd_status` | `hd_open`, `hd_rdwt`, `hd_ioctl`, `hd_cmd_out`, `interrupt_wait`, `hd_handler` |
| log (TASK_LOG) | `kernel/log.c`, `fs/disklog.c`, `syscall_logs` in `proc.c` | `pos`, `logdiskbuf`, a ring of 128 records | `task_log`, `disklog`, the prologue of `sys_sendrec` |
| system task (TASK_SYS) | `kernel/systask.c` | none | ticks, pid, clock |
| start | `kernel/main.c`, `start.c`, `protect.c`, `i8259.c` | `proc_table`, descriptor tables | `kernel_main`, `Init`, `untar`, `shabby_shell` |
| library and commands | `lib/*.c`, `command/*.c` | none | messages to the servers, and a log message after most of them |
| boot loaders | `boot/*.asm` | none that survives | load the kernel |

### How they interact

Everything above the kernel goes through `sendrec`. A call of a user process is
`send_recv(BOTH, server, m)`: a SEND, then a RECEIVE, two system calls, between
which the processor may go to somebody else. Servers loop over `RECEIVE ANY`, and
call one another the same way: MM asks FS (fork, exit, exec), FS asks the disk
driver and the terminal, the log task asks the disk driver, and nearly every
library call and every answer of FS ends in a SEND to the log task. The disk
driver and the terminal are woken by interrupts through `inform_int`. The kernel,
MM and FS share `proc_table`, which MM writes directly.

### What is hard in it

* **Interrupts nest in system calls.** `sys_call` executes `sti`
  (`kernel.asm:573`); `msg_receive` disables interrupts, `msg_send` does not.
  `clock_handler` returns before `schedule()` when it is nested, but only after
  it has called `inform_int(TASK_TTY)`.
* **A rendezvous has two sides that come in either order**, a queue of senders
  from whose middle one may be taken, and one bit that remembers an interrupt.
* **`schedule()` walks queues with counters read before**, while interrupts wake
  tasks, and `outqueue` takes the front of a queue whoever that is.
* **`fork` copies a `struct proc`** as it happens to be, the scheduler's fields
  included, and `exit` frees a slot that is still in a queue.
* **exit, wait, kill and adoption** relate two processes and INIT in any order.
* **Servers block in their SENDs**: a client that does not RECEIVE stops a server,
  and two servers that send to each other are a `DEADLOCK` panic.
* **Tables counted by hand** in FS; a directory, a position and a size that are
  changed through different descriptors.
* **A read of the terminal outlives its request**: TTY notes it, FS suspends the
  process, and a message in the other direction resumes it, across a request of FS
  to TTY. A key arrives while TTY is anywhere.
* **The log is written through static variables** by two tasks that block on the
  disk, by the driver's own messages, and survives power failures as it can.
* **A console is a ring of rows** whose screen, cursor and oldest line move
  separately.

PROJECT.json lists the hazards one by one, at their lines.

### What makes each component correct

* message passing: fields agree with flags; the queue of a process holds exactly
  who sends to it, in the order of arrival; no missed rendezvous; no cycle of
  senders; no lost interrupt; a message reaches the process that asked for it.
* scheduler: queue membership agrees with `inqueue` and `whichqueue`; only ready
  processes run; nobody is forgotten; a higher queue goes first; no starvation;
  `schedule()` returns.
* memory manager: no forgotten zombie; every process has a live parent; MM always
  returns to its loop; `fork` and `wait` return.
* file system: reference counts equal references; maps, inodes and directory
  agree; a file that was created and not removed is found; positions stay in the
  file.
* file data: reads, writes and seeks are those of a sequence of bytes.
* terminal: a line is what was typed since the request for it; a suspended reader is
  known to TTY and answered when its line is there.
* console: the cursor and the screen stay inside; no line is lost or out of order.
* disk and log: a request ends; the log is good up to its header at any moment; every
  record is in it once.
* start and shell: `cmd.tar` is marked as unpacked only when it is; a line is split into
  its commands; one process at a time reads a terminal, and some process does again.

## The modules

| module | stands for | extends / uses |
|---|---|---|
| `Rendezvous` | what message passing promises: an abstract specification with atomic rendezvous | |
| `Ipc` | `msg_send`, `msg_receive`, `deadlock`, `inform_int`, the gate and the interrupt stubs | implements `Rendezvous` |
| `IpcProofs` | type correctness, the safety invariants and the order of service of `Ipc`, the assertion of `msg_send` and the refinement of `Rendezvous`, proved | `Ipc`, TLAPS |
| `Scheduler` | `schedule`, the queues, the clock, and the slots of fork and exit | |
| `SchedulerProofs` | the safety invariants and action properties of `Scheduler`, proved | `Scheduler`, TLAPS |
| `Mm` | the life of user processes: TASK_MM and its callers | |
| `MmProofs` | the safety invariants of `Mm`, proved | `Mm`, TLAPS |
| `Fs` | the tables of TASK_FS: directory, maps, inode cache, descriptors | |
| `FsProofs` | the safety invariants and the action property of `Fs`, proved | `Fs`, TLAPS |
| `ByteFile` | what READ, WRITE and LSEEK promise: an abstract specification of files as byte sequences | |
| `ReadWrite` | `do_rdwt`, `do_lseek` and `O_TRUNC` on sectors and buffers | implements `ByteFile` |
| `ReadWriteProofs` | positions stay in their files; the refinement of `ByteFile`, proved | `ReadWrite`, TLAPS |
| `Tty` | keyboard interrupt and ring, TASK_TTY, the part of TASK_FS that serves a terminal, and its processes | |
| `Console` | `out_char`, `scroll_screen`, `w_copy`, `clear_screen` on one console | |
| `TerminalProofs` | type correctness and the safety invariants of `Tty`; the safety invariants and the action property of `Console`, proved | `Tty`, `Console`, TLAPS |
| `Disk` | TASK_HD, the drive, TASK_LOG, `disklog` and the calls of TASK_FS to both; power failures | |
| `DiskProofs` | the log is good up to its header, and complete when LOG is idle, proved | `Disk`, TLAPS |
| `Shell` | `Init`, `untar`, `shabby_shell` and its parser, `rm` and `touch`; power failures | |
| `ShellProofs` | one process at a time reads a terminal, the mark on `cmd.tar`, and what the parser makes of a line, proved | `Shell`, TLAPS |
| `MCIpc`, `MCScheduler`, `MCMm`, `MCFs`, `MCReadWrite`, `MCTty`, `MCConsole`, `MCDisk`, `MCShell` | the instances that TLC checks | |

`Tty` composes two tasks, an interrupt handler and processes; `Disk` composes a
driver, a device, two client tasks and reporters. What they take for granted of the
kernel below them is what `Ipc` and `Scheduler` show: a rendezvous is immediate when both
sides are there, an interrupt for a task is remembered, a ready task runs.

A definition named `<Name><Fault>` directly before a definition `<Name>` is a
variant of it with a plausible bug. PROJECT.json pairs each property with such a
variant, under which TLC finds the property violated: that is the evidence that
the property can fail.

### Ipc

The variables carry the names of the fields of `struct proc`. `q_sending[p]` is the
linked list as a sequence; `mail[p]` is the `source` in the buffer of the last
RECEIVE, all of a message that the properties tell apart; `device` says what the
disk does for its driver; `cpu` says where the kernel is. `msg_receive` runs with
interrupts off and is one step with three outcomes (`ReceiveInt`, `ReceiveFrom`,
`ReceiveBlock`). The path of `msg_send` that finds the receiver waiting is four
steps (`SendMatch`, `SendAssert`, `SendCopy`, `SendWake`) between which an
interrupt may come; the path that blocks changes only what no interrupt handler
touches, and is one (`SendEnqueue`). `deadlock()` is the closure of the chain it
follows. `DiskTasks` are informed by a device they gave a command, `TickTasks` by any
tick, as TASK_TTY is when `key_pressed` is set.

`Rendezvous` knows what each process asks for, what it received last, and which
interrupts are pending. A message is delivered in one step to a process that asks
for it, and its sender returns in that step. `Ipc` implements it under the mapping
at the end of the module: a message that `msg_send` has matched counts as offered
until the receiver is updated.

### Scheduler

One loop iteration of `schedule()` is one step, since an interrupt may wake a task
between two (`unblock` of `IntTasks` while `pass.pc` is `fill` or `scan`). `pass` holds
`queue_num`, `count` and the pointer, the last as the number `skip` of entries that
were visited and are still in front. A queue is a sequence; the ring of 50
pointers is not modelled, a queue popped when empty stops the model
(`underflow`). HANGING and FREE_SLOT are one value, `free`. Why a process blocks
is not said here: the running process may block at any time, or never.
`ForkCopy`, `ForkSend`, `ForkDone` are the three points of `do_fork` the scheduler can
see. The constant `Recycle` says whether fork takes a slot that a dead process left
in a queue.

### Mm

`stage` says where a process is in its `send_recv(BOTH, TASK_MM, ...)`: running, between
SEND and RECEIVE, in RECEIVE, or in a call to FS. `known` says whether `schedule()`
can find a process, which is what the scheduler's fields copied by `do_fork` come to.
`mm` is the program counter and the locals of TASK_MM: `SendTo` and `CleanUp` set up a
SEND and where to go on after it. While MM waits for FS, or for the process it
sends to, the others run. The loop that orphans the children of a dead process is
one step per child (`Adopt`), because `cleanup()` inside it may block. FS is
reduced to an answer that comes.

Two constants cut behaviours. `Prompt` is the set of requests whose callers are in
RECEIVE before MM looks at the request; `KillAnybody` says whether `kill` may hit a
process other than one blocked in `wait`. The runs below show what happens without
the cuts.

### Fs

TASK_FS answers one request before it receives the next, and nobody else writes its
tables, so that a request is a step, however often FS waits for the disk in it. The
exception is a fork: MM copies `filp[]` with the rest of `struct proc` (`ForkCopy`) and asks FS to
count the copies later (`fs_fork`). What is on the disk (`imap`, `smap`, `inode`, `dir`,
`nr_dir_entries`, which is the size of the root directory in entries) outlives a reboot
(`init_fs`), what is in memory does not. `i_cnt[n]` is the count of the slot of
`inode_table` that holds inode n, 0 if none does. The cached inode is always synced, so
that `inode` is both. A full table is a panic (`TableFull`), as in the code.

`search_file` looks at one entry more than there are, as the code does, and
`new_dir_entry` overwrites the inode number behind a name of full length, as
`strcpy` does. Three constants cut behaviours: `RefusedUnlink`, `LastUnlink` and `Long`.

### ReadWrite and ByteFile

One turn of the loop of `do_rdwt` over the sectors is one step, so that `rw` is its
locals; `lseek` and `open` come between two calls only, as FS does one at a time. `disk`
is one array of bytes over all files, so that a write beyond the strip of a file is seen
in the next one. `ByteFile` knows the bytes of each file and the place of each
descriptor; a read or a write advances by some bytes at a time until it is
complete. The mapping at the end of `ReadWrite` cuts each file out of the disk at its size.
`Overrun` and `TruncateShared` cut behaviours.

### Tty

A scan code is a model value; a key has one byte, or `EXT` and a second one, and
`sending` is what the keyboard has still to send. `kb_in` is the ring as a sequence,
`tty` what `tty_table` keeps, `line` what was put into the reader's buffer. `task` and `fs`
are the program counters of the two tasks, `queue` the senders to FS, and the panic in
`deadlock()` is the state `halted`: FS sends a request while TTY sends RESUME_PROC. The
interrupts may come at every step. `arrived`, `taken` and `from` are history: which codes
found room, and how many TTY had read. What they should have become is said by functions on
sequences of codes and of keys (`Typed`, `FirstLine`). `SharedReads` cuts the second reader.

### Console

Addresses are rows and columns. Of the text a row keeps the serial number of the line
of output it shows, so that a row that is lost, doubled or out of place is seen. `out_char`
is one step up to its scrolling loop, and one per turn of that loop, whose end is a
property. `trans_cnt` is what TTY has echoed of the line that is read, and bounds how far
BACKSPACE goes back. The user scrolls between two characters.

### Disk

The variables stand for the disk, sector by sector, the command the drive works on, and
the program counters of driver, LOG and FS: `call[c]` says what client c asked the driver for
and where it goes on with the answer. Every sector that `disklog` reads or writes is a
request, so that everybody else moves in between. A character of the log is the number of
its record. `Crash` may happen at any step: the disk keeps what was written, and all else
starts as it does at power-on. What FS does with interrupts off (`dump_fd_graph`) freezes LOG
where it is (`Frozen`).

### Shell

`boot` is where `Init()` is, in `untar` or starting shells; `proc[p]` where a process is
with its line and the commands left of it. `Parsed` is the one-pass parser, character by
character in the order of the code: a blank or an ampersand behind a word is overwritten
before the test for an ampersand. What a line should mean is said without a parser: `Means` compares each
command with the places where words start (`WordStarts`) between two ampersands. A process whose `execv` fails is a copy of its shell and
goes on as one. A power failure keeps `content` and `unpacked`. If no slot is free when `Init()`
starts a shell, the assertion in `fork()` fails and `Init()` spins there (`boot.at = "spin"`): the
shells not yet started never are, and `TerminalAnswers` claims nothing of their terminals.

## The runs

| run | instance | result |
|---|---|---|
| `ipc_disk` | three processes, a disk driver; symmetry of the processes | holds, 76,208 states |
| `ipc_tick` | two processes, a disk driver, a task informed by ticks | holds, 551,008 states |
| `ipc_tick_assert` | a process, a task informed by ticks | violates `MatchedStillWaiting` |
| `sched_fork` | TTY, MM, a parent, one slot for children | holds, 212,859 states |
| `mm_life` | INIT, two slots; all requests | holds, 45,292 states |
| `fs_files` | two processes with two descriptors, a terminal, `cmd.tar`, two more files (symmetric) | holds, 94,083 states |
| `fs_unlink_last` | the same with `LastUnlink` | violates `AssertionsHold` |
| `rdwt_files` | two files of three sectors of two bytes, two descriptors of one of them, a buffer of two sectors | holds, 687,904 states |
| `tty_line` | a reader and a reader that also writes, a ring of two codes, four codes typed | holds, 448,222 states |
| `console_scroll` | nine rows of four columns, a screen of three | holds, 145,561 states |
| `disk_log` | a log of six sectors of three characters, six records, two power failures | holds, 60,759 states |
| `shell_boot` | two terminals, four slots, two files, every line of up to four characters, a power failure | holds, 133,719 states |

Deadlock is checked in `rdwt_files`. The other modelled systems may really stop, by a panic or a
failed assertion, or with every process waiting.

**`ipc_disk`** asks whether message passing is right when interrupts come only from
devices that were given a command. Three senders make a queue with a middle
(`QueueExact`, `NoOvertaking`), a chain of two hops for `deadlock()`
(`NoCircularWait`), and with the driver the interplay of a remembered interrupt with a
queue of messages (`NoLostInterrupt`). `ImplementsRendezvous` is the refinement.

**`ipc_tick`** adds what `clock_handler` does for TASK_TTY, at any point of `msg_send`.
The structural invariants survive, as the
proofs show; what is asked here is that no interrupt is lost. **`ipc_tick_assert`** shows what does not: between the
test of the flags and `assert(p_dest->p_msg)` (`proc.c:356-359`) a tick may answer the
receiver's RECEIVE ANY, and the assertion fails. The refinement fails with it, so that
`MatchedStillWaiting` and `ImplementsRendezvous` are claimed for `TickTasks = {}` only.

**`sched_fork`** asks everything of the scheduler: ordering, bookkeeping and
liveness, with blocking, waking, forking and dying. Time pieces 1, 1, 2 and
priorities 2 and 5 keep the relations of the code, 2, 4, 8 and 5 and 15: a task has
more ticks than the three pieces together and goes round in the last queue (a
demotion from the last queue to itself), a user process does not use up its pieces.
`NoStarvation` holds if fork does not make newcomers for ever: without the premise TLC shows a
stream of short-lived children, each entering the first queue at once, keeping a
process that has used up its ticks from ever getting new ones.
Slots are not reused while a dead process is queued (`Recycle = FALSE`), which the code
does not ensure. With `Recycle = TRUE` TLC finds that a process that dies while it is
queued leaves its entry behind, the slot is born again with `inqueue` cleared
(`forkexit.c:130-131`) and is queued twice; `outqueue`'s assertion fails on the second
visit (`QueuesConsistent`).

**`mm_life`** runs fork, exec, wait, exit and kill with INIT and two children, which
is enough for a grandchild, an orphan, its adoption by an INIT that waits or does not, a
zombie before and after the wait, and a full table. Callers of wait, exit and kill may be
served before they are in RECEIVE; fork and exec may not (`Prompt`), and kill hits
processes blocked in wait. An instance with four slots passed once as well (seven
million states). Beyond the cuts TLC finds: a child
copied from a parent that is not in RECEIVE can never run and MM waits for it
for ever (`ForkReturns`); a caller of exec that is not in RECEIVE loses it and MM is left sending
(`KernelGoesOn`); a victim of kill in the middle of a call trips `unblock`'s assertion when it is answered
(`KernelGoesOn`). And `do_wait` counts freed slots as children, against its own comment: the
second `wait` of a childless process waits for ever, which no run states.

**`fs_files`** asks whether the tables of FS stay right over any sequence of requests. Three
regular files make holes in the directory and gaps in the sector map that are filled
again, two descriptors of a process may share an inode, two processes share a descriptor after a fork, and
three slots of `inode_table` run out. It is cut in three places, at each of which the code
goes wrong. A refused `unlink` does not put the inode back (`link.c:67-78`), which makes
`InodesCounted` fail (`RefusedUnlink = TRUE`). A name of 12 characters, put into a hole, cuts off the file
behind it (`Long`, `open.c:546`). **`fs_unlink_last`** lifts the third: the last file of the
directory is removed while there is a hole before it, the directory shrinks to the number of
live entries, and a file is left beyond its end, where `search_file` still finds it and
`do_unlink` does not. Also, `TAR_START` is chosen so that whole files fit before `cmd.tar`; in
the code 14 files do and the 15th runs into it (with `n_1st_sect` near 280 the first bit
of `cmd.tar` is about 32490, which is no multiple of 2048 behind bit 2049), where
`alloc_smap_bit` fails its assertion, as TLC shows with `TAR_START = 4`. The 4096 inodes of a
disk never run out before its sectors, so that a full inode map is not modelled.

**`rdwt_files`** asks whether the arithmetic of `do_rdwt` with sectors, chunks and the ends of
files is that of byte sequences (`ReadsAndWrites`, a refinement). Files of three sectors and a
buffer of two make transfers of one and of two chunks, that start and end in the middle of
a sector or at its edge; positions go to the very end of a file, where one sector too many is
read, which is why the disk has one behind the last file. One file is empty at the start and
one full. Two cuts: a write past the capacity of a file runs into the next one (`Overrun`,
`read_write.c:85`; the positions stay inside all the same, as is proved), and `O_TRUNC` leaves other descriptors behind the end of the file, which
makes the number of bytes to read negative (`TruncateShared`, `read_write.c:82`).

**`tty_line`** asks whether a line arrives as it was typed, with interrupts anywhere, a full
ring and requests of another process in between. A ring of two codes overflows in the
middle of a two-byte code; four codes are two lines of two keys. `ReaderAnswered` names the two
ways in which a reader is not answered, and TLC reaches both: the kernel panics in `deadlock()`
because FS sends a DEV_WRITE at the moment that TTY sends RESUME_PROC (`tty.c:292`), or
`keyboard_read` waits for a second byte that found no room (`keyboard.c:58`). It is cut to
one reader at a time (`SharedReads = FALSE`): a second one takes the place of the first
(`tty.c:314-321`), which then is suspended for ever. `OneActive` of `shell_boot` shows
that the shells never make a second one.

**`console_scroll`** asks whether a console keeps its lines and its screen. Nine rows are three
screens, as in the code there is more than one; the console runs out of rows again and again, with any
position of the screen. `OneLineAtATime` is the ring seen by the user. It excludes a screen that
shows the newest and the oldest lines next to each other (`ShowsTheSeam`): output into a
screen that was scrolled back leaves it so, because the loop of `out_char` is content with any
row of the screen.

**`disk_log`** asks whether the log on the disk is good at any moment, and whether driver, LOG and
FS can wait for each other. Six records in sectors of three characters cross sector borders, six
sectors are three commands of the longest transfer, count 0 included (`MAX_IO`, 256 in
the code). Before a process has logged something the driver's messages are kept; they
come out before the next record, once. After a power failure the first `disklog` asserts that the bits
of the log are free in the sector map, which they are no longer (`disklog.c:101`): the task
stops, and `ReportersServed` says so (`stopped`). `DumpAnytime = FALSE` keeps FS from dumping
while LOG is inside `disklog()`; with TRUE TLC finds the shared `pos` and `logdiskbuf` of
`disklog.c:74` mixed up, and `HeaderCovers` fails.

**`shell_boot`** asks whether the start survives a power failure, what a line is split into, and
who reads a terminal. One user types every line of up to four characters, the other one removes
a file, so that a command vanishes between `open()` and `execv()` (`main.c:598`) and its
child becomes a second shell, which reads while the first waits for it. `SpacedLinesUnderstood` is
about lines with a blank before each ampersand. In `a&` the parser overwrites the
ampersand before it looks for it (`main.c:470`, `main.c:486`), so that the line is one
command, although a comment says that commands are parted by it (`main.c:453`). Four slots for two shells
run out, and a shell whose `fork()` fails its assertion is silent (`lib/fork.c:42`, state `spin`).

The type invariants `TypeOK` of `Scheduler`, `Mm`, `Fs`, `ReadWrite`, `Tty` and `Shell` are proved, and no run
lists them.

Bounds: no counter of the first modules is unbounded (ticks and time pieces are the configured numbers, queues hold
each process at most once when slots are not reused), so that every passing run
explores its whole state space. The others bound what the world does: scan codes (`MaxBytes`),
records (`MaxRecords`), power failures (`MaxCrashes`), the length of a line. Serial numbers of
lines wrap at more than twice the rows of the console, so that no two lines on it share one.

### Fairness

`Scheduler!FairSpec`: weak fairness of the kernel's own code, which nothing preempts, and
strong fairness of the clock tick that hits user code: the timer interrupts for ever, and only
ticks inside the kernel are ignored. Nothing says that a particular process is hit, that a
process ever blocks, or that a blocked one is woken. `Mm!FairSpec`: weak fairness
of MM's steps, of a process's step into the RECEIVE of its call (both are
`NoStarvation` of the scheduler), and of the answer of FS. No fairness for the requests
themselves. `Ipc` has no liveness properties.

`Tty!FairSpec`: the second byte of a key comes, the clock ticks, and the two tasks run; nobody need
press a key or ask for anything. `Console!FairConsoleSpec`: the loop of `out_char` goes on.
`Disk!FairSpec`: the drive finishes, and driver, LOG and FS run. `Shell!FairSpec`: `Init()` and
each process get the processor and programs end; nobody need type. Power failures are never
fair.

## The proofs

A theorem holds for every value of the constants that satisfies the module's named assumption;
where it supposes more, the hypothesis is a named operator (`OneAtATime`, `NoCuts`, `InBounds`, ...) or a
constant, and a run or the text above shows what goes wrong without it. Each proof follows one pattern: an
invariant `IInv` that is inductive (TLC checked each on the run of its component before it was
proved), a lemma for each action, and the property from `IInv`.

**`IpcProofs`** proves, for every set of processes and any choice of drivers and ticking
tasks satisfying `IpcAssumption`, that `Spec` implies `[]IInv`, and from it
`TypeOK`, `QueueExact`, `NoMissedRendezvous`, `NoCircularWait` and `NoLostInterrupt`, and the
action property `NoOvertaking` (`ServedInOrder`): of two senders that wait for a process in RECEIVE ANY the first
in the queue is served first. `IInv` is the conjunction of the named invariants with `FieldsMatchFlags` and
`InFlight`. None of the parts is inductive alone: that an unlinked sender was in the
queue needs `QueueExact` and `FieldsMatchFlags` together; that a woken receiver was waiting
for this sender needs `InFlight`; that `NoCircularWait` survives a new edge needs the
closure that `deadlock()` computes. `IpcAssumption` says that drivers and ticking tasks are
processes, that no task is both, and that `ANY`, `INTERRUPT` and `NO_TASK` are distinct and no
processes.

The second part of `IpcProofs` proves that `TickTasks = {}` implies `[]MatchedStillWaiting` and
`Spec => ImplementsRendezvous`: the initial states map to initial states, and each
step of `Ipc` is a step of `Rendezvous` or a stutter.

**`SchedulerProofs`** has two invariants. `NInv` speaks of the processes that `kernel_main` made, and
needs no hypothesis: one that is out of the queues has spent its ticks or waits for the first
`schedule()`, so that `NoEarlyRefill` holds whatever fork does with its slots. `IInv` holds when fork takes no
slot that a dead process left in a queue (`~Recycle`), and gives `QueuesConsistent`, `NobodyForgotten` and
`HighestQueueRuns`. `QueuesConsistent` is not inductive because of `outqueue`, which drops the front whoever that
is: `ScanState` says that the process visited is the front, so that the right one is dropped;
`ForkState` keeps the copied bookkeeping of a child apart from its parent's; and `NobodyForgotten` must be
said of blocked processes too, since they may be woken at any time. `HighestQueueRuns` needs that
whoever could run is in a part of the queues that the scan has still before it, at each step of the scan.

**`MmProofs`** proves `KernelGoesOn`, `NoForgottenZombie` and `ParentsLive` for every process table if
nobody kills a process that is not waiting (`~KillAnybody`) and the callers of exec are in RECEIVE
(`PromptExec`). The invariant says in which of six situations a process can be (`Stages`), and what MM
holds at each point of a request (`Hands`, `Ending`, `Burying`): while MM is blocked in a SEND in the
middle of `cleanup()`, a process may have a dead parent, and only because MM is still at it (`Adopting`).

**`FsProofs`** proves `SectorsApart` and `DescriptorsCounted` without any hypothesis: no two files share a sector and each
counter in `f_desc_table` is the number of the `filp` that point to it, even after the mistakes that the
runs show. `InodesCounted`, `OpenFilesExist`, `FilesAreFound` and the action property `OneFileAtATime`
hold under `NoCuts`, the three cuts of the runs together. The counts are cardinalities of sets of pairs (process, descriptor), which needs
that there are finitely many processes and descriptors (`FsAssumption`); that `unlink` removes nobody's
file needs that the directory has each inode and each name once (`Entries`) and that an
inode is in the map only if it is in the directory (`Existing`).

**`ReadWriteProofs`** proves that no descriptor is left behind the end of its file (`PositionsInside`) as long as no file
is emptied under another descriptor (`~TruncateShared`), writes past the capacity included; and, if there are
none of those either (`InBounds`), that `ReadWrite` implements `ByteFile`: the initial state maps to
an initial state and each turn of the loop to a read, a write or a stutter. The invariant is what
`do_rdwt` computes with: the next chunk begins at the descriptor's place or nothing is left
(`ChunkAtPlace`), `max` is the sector where the transfer ends (`MaxIsLast`), and that end is inside the file, or its
strip (`EndInside`); that a write changes no other file is that the strips are disjoint. The arithmetic of
sectors and places is in lemmas of its own. `ReadWriteAssumption` says that the disk has a sector behind
the last strip, as `max` may name it.

**`TerminalProofs`** proves for `Tty` the type invariant (`TerminalTypes`), without any hypothesis, and, if
processes do not share a terminal (`~SharedReads`), `SuspendedIsKnown` and `LineAsTyped` for every keyboard, size of
the ring and number of processes. For the first, the invariant (`RInv`) says at which stage of its call a process can be
while FS and TTY are at each of theirs (`Stages`), that nobody is queued twice or is queued and served (`Queued`), and that what FS
answers and what `tty_table` notes is about the one process that reads (`Noted`, `OneReader`): of these none is inductive
alone, as the RESUME_PROC that ends a suspension crosses the requests of FS to TTY. For the second (`LInv`),
`Ring` says that the ring holds the codes that arrived and were not taken, and `LineSoFar` that the keys
decoded since the request are those already put into the line, then those of the input ring. `Typed` and `FirstLine` are recursive functions over
sequences; that they are well defined, and what one more code or key adds, are lemmas (`FoldExists` and those after it),
proved from a least counterexample (`LeastNumber`), because the library's induction theorems
take an operator as a parameter. Two-byte codes, keys typed before the request and BACKSPACE at the
start of a line are what makes a step of it more than an append.

For `Console` it proves `InsideConsole`, `LinesKept` and the action property `OneLineAtATime` for every size of screen and console
satisfying `ConsoleAssumption` (the screen is smaller than the console; more serial numbers than
twice the rows). `InsideConsole` is inductive alone, `LinesKept` with it: the step that
matters is the one that runs out of rows, where the last rows become the first ones and the row
k below the new line is the row k - 1 below the old one, counted modulo `Serials`
(`OneFurther`).

**`ShellProofs`** proves `OneActive` and the action property `ExtractedWhole` for every archive, number of slots and of
terminals, and number of power failures. The processes of a terminal wait for each other in a chain, each
for a child of its own, and `OneActive` says that the chain has one end; it is inductive with
`ChildrenApart` and with the fact that `Init()` makes a shell only where nobody is yet
(`ShellsForked`, which is why the terminals must be distinct). That `cmd.tar` is marked only when every file is
whole is that the files before the one `untar` works on are.

It also proves `SpacedLinesUnderstood` (`LinesUnderstood`) for every line over every set of characters: each command
that the parser makes of a line without an ampersand right behind a word has exactly the words between its two
ampersands as its arguments, in their order. `Fits` is the invariant of the parser's loop: after the character
at j there is one command more than ampersands so far, and each lists the words that have started, but for the one that goes
on (`Done`). `ParseWord`, `ParseEnd` and `ParseGap` are the cases of the loop body, `WordIsListed` what happens at the end
of a word; the hypothesis `Spaced` is used at one place, where a word ends, for there the parser would miss an
ampersand. The loop is a recursive function, which again needs `LeastNumber` (`ParserRuns`, `ParsedMeans`). A process keeps its
line only until its first command, and until then its commands are what the parser made of the line (`LinesInv`).

**`DiskProofs`** proves `HeaderCovers` and `LogComplete` for every size of sectors, records, log and transfers,
every number of partition tables and of power failures, under `OneAtATime`: FS does not dump its tables
while LOG is inside `disklog()` (`~DumpAnytime`), without which TLC finds `HeaderCovers` violated. The invariant
follows one request from the client to the drive and back. `Request` says what a client may ask for at each
place of `disklog()` and `Turns` that only one of them is there; `ServesOne`, `DriverInv` and `DriveInv` say that driver and drive
are on the same sector of it; and `Transfers` concludes that, when the answer is there, the buffer holds what the sector
held, or the sectors hold what is in the buffer. `Content` is what `disklog()` relies on at each place: the rest of the
string is what `written` has from `pos` on, the part of the sector before `pos` is the old one, the header gets `pos` only when
all before it is on the disk (`OnDiskBelow`). `Begun` ties the bits of the sector map to what was written, so that
a log that survived a power failure is not begun again. For `LogComplete` the characters are counted wherever they
are: written, in a `disklog()` that has not come to them, in `todo` or in `log_buf` (`Lengths`). The hard part of that is
room: MEMSET_LOG_SECTS and the last call of `disklog()` write the log's own sectors, the last one included, so no record may
reach that one. This is what `DiskAssumption` says of `MaxRecords`, and the proof counts for it the
reports that the driver and FS are still bound to send (`Due`, `Reporters`). `DiskAssumption` has at least two records, as `hd_open`
sends two.

Only model-checked: all liveness (`NoStarvation`, `ForkReturns`, `ReaderAnswered`, `ReportersServed` and
the others), which the prover does not handle. Every safety property of the passing runs is proved.

## Not modelled, and what could follow

Left out for good: the boot loaders (they run once, in real mode, and keep no state), the
assembly that copies memory and talks to ports, the descriptor tables, formatting
(`vsprintf`), the text of the dumps, the checksums behind `STATIC_CHECK`, which is 0, and the commands that
only print. `task_sys` keeps no state. The ring of 128 logged system calls is text of a
log. The switching of consoles, the shift keys and the lock lights change nothing that a
line holds. ELF loading and `alloc_mem` compute addresses from constants.

What would add most is an abstract specification of fork, exit and wait that `Mm` implements.
