# StrideXV6 in TLA+

StrideXV6 is xv6 for the x86 with its round-robin scheduler replaced by stride
scheduling: `fork` takes a number of tickets, a process's stride (`passo`) is
10000 divided by them, and each CPU's `scheduler()` runs the process with the
smallest pass (`passada`). This directory models the kernel's core in TLA+,
checks it with TLC on small instances and proves part of it with TLAPS.

## The system and its parts

| part | source | module | status |
|---|---|---|---|
| process table: fork, exit, wait, kill, sleep, wakeup, yield | proc.c | Proc, ProcProofs | modelled, proved |
| stride scheduler, one per CPU | proc.c | Proc, ProcProofs | modelled, proved |
| traps, timer, sys_fork/exit/wait/kill/sleep | trap.c, sysproc.c | Proc | partly |
| spinlocks | spinlock.c | Spinlock, SpinProofs | modelled, proved |
| redo log, commit and recovery | log.c | Log, AtomicDisk, LogProofs | modelled, proved |
| buffer cache and disk drivers | bio.c, ide.c, memide.c | BufCache, BufProofs | modelled without disk errors, proved |
| inodes, directories, open files, the calls on them | fs.c, file.c, sysfile.c | Fs | modelled |
| file contents: blocks, bmap, itrunc, readi, writei, filewrite | fs.c, file.c | Blocks, BlocksProofs | modelled, proved |
| file system tests | usertests.c | Usertests | seventeen tests |
| pipes | pipe.c | Pipe, ByteQueue, PipeProofs | modelled, proved |
| physical pages, page tables, sbrk, exec | kalloc.c, vm.c, exec.c | Vm | modelled |
| console | console.c | Console, Lines, ConsoleProofs | modelled without cprintf, proved |
| starting the processors | main.c, entryother.S, kalloc.c | Boot, BootProofs | modelled, proved |
| first file system image | mkfs.c | Mkfs | modelled |
| shell and init | sh.c, init.c | Sh | modelled |
| user malloc | umalloc.c | Umalloc | modelled |
| grep | grep.c | Grep | matcher and buffer |
| boot loader, interrupt controllers, assembly stubs, other user programs | bootmain.c, lapic.c, ... | | left out |

A user program traps into `trap()`, which runs a system call; the calls change
the process table and, through the file system, the log. Processes wait in
`sleep()` and leave the CPU through `sched()`, which returns to the CPU's own
`scheduler()` thread. File system calls bracket their writes with `begin_op`
and `end_op`, and the last one to end commits the writes of all of them. Below
the log lie the buffer cache and the driver, above it blocks, inodes,
directories and descriptors. The modules meet where one takes the other's
promise for granted: every module but Spinlock takes a lock as exclusion, Fs
and Blocks take a transaction as atomic, which is what Log shows, and Log takes
a buffer as exclusively held, which is what BufCache shows.

## Proc: processes and the scheduler

State. Each field of `struct proc` that matters is a function of the slot.
`kstack` and `pgdir` say whether the slot owns its stack and page table, `ctx`
which function its saved context returns into, `op` where the process is in
its own control flow, `child` is fork's `np`. Per CPU there are `cur`
(`cpu->proc`), `spc` (in `scheduler()`, switching, in a process, in the timer
trap) and scheduler()'s locals `idx`, `min` and `minproc`. `ptlock` is the CPU
that holds `ptable.lock`; `panic` stops the machine.

Steps. A step is a critical section under `ptable.lock`, an unlocked write to
shared state (allocproc's and fork's error paths), or one iteration of the
scan. The lock itself is taken to exclude and to disable interrupts.
`ForkAlloc`, `ForkStack`, `ForkCopy` and `ForkPublish` are the four stretches of
`fork`, the middle two with their failures; `ExitStart` and `ExitFinish` those
of `exit`; `WaitEnter`, then `WaitReap`, `WaitFail` or `WaitSleep` one round of
`wait`. `TimerIntr` and `TrapExit`/`TrapYield` are the two halves of a timer
trap, `Fault` the default case, `ExitCall` the killed checks around a system
call and after the yield. `SleepCheck` and `SleepTicks` keep apart sys_sleep's
look at `killed` and its sleep: a kill may fall between them.

`min_proc` is uninitialized and never reset. The Makefile builds with `-O0`,
which keeps it in one stack slot, so Init lets it be null or junk and it
survives from round to round. When nothing is RUNNABLE the CPU therefore
switches to the process it chose last. If that is asleep or a zombie the switch
is well defined (`SchedDispatch`). If it is junk, free, or running on another
CPU, nothing is defined afterwards and the model stops with `panic = "wild"`
(`SchedWild`): what the two-CPU run and the theorems say holds up to that step.

Left out: the files and the directory of a process (no property here depends on
them), `growproc` (in Vm), the printing, and the disk set-up in the first `forkret`.

## Log and AtomicDisk: the redo log

The disk is the home blocks, the log blocks and the header; `cache` and `dirty`
are the buffers and their B_DIRTY flag, `lh` is `log.lh`, `active` the
operations `log.outstanding` counts. `LogCheck` is the caller's change of a
buffer and the test log_write makes before it takes the lock, `LogWrite` the
rest of log_write. An operation may log any number of blocks: MAXOPBLOCKS only
counts in begin_op, and filewrite goes beyond it (op_blocks). `MustPanic` are
log_write's own tests. Operations that pass them together can overrun the log,
on disk and in memory: an entry behind the end of `log.lh.block` may be
harmless, or fall on what the kernel needs, after which nothing is modelled
(`lpc = "wild"`). `Longest` bounds the transaction: 31 blocks with the code's
constants, where `log.lh.block` has 30 and the log on disk 29. `WriteLog`,
`WriteHead`, `InstallTrans` and `ClearLog` do one disk write each, so `Crash`
can fall between any two, in recovery as well. A disk write is atomic. Waiting
in begin_op is a step that is not enabled. `Evict` is bget's reuse of a clean
buffer at any time.

`AtomicDisk` is what the log promises: one current image that operations read
and write, a durable one that becomes the current image only when no operation
is in progress, and a crash that goes back to it. The refinement maps the
durable image to what recovery would make of the disk.

## Spinlock

One step is one access to something another CPU or an interrupt can see: the
lock word (`xchg`), `lk->cpu` (`SetOwner`, `ClearOwner`), the two reads of
`holding`, eflags and the interrupt flag in `pushcli` and `popcli`. Each CPU has
a main context and an interrupt handler, which may start whenever the interrupt
flag is set; both take locks in increasing order. A failed test of acquire,
release or popcli panics.

## BufCache

`buf` holds the flags, the block and the data of each buffer, `mru` the list in
its order, `idequeue` the driver's queue, `ctl` and `dsk` the controller and the
platter, which answers after any delay. `BRead` is bread up to the sleep in
bget, `BGetAgain` bget's `goto loop`; `IdeRw` and `IoTest` are iderw before and
after its sleep, `IdeIntr` is ideintr. `MemRw` is the driver of memide.c. A
process has two uses of the cache, an outer and an inner one: while it holds the
block of the first it may read a second, as bmap, itrunc, write_log and
install_trans do (`Nested` says which pairs). When bget finds neither the block
nor a buffer to recycle it panics, with bcache.lock held: no bget and no brelse
follows, requests at the disk still end. NBUF and LOGSIZE are both 30 and NPROC
is 64, so nothing in the code excludes it. A holder may write through, or leave
the buffer dirty for the log, which then keeps it out of reuse. `latest` is the
reference for what a reader must see.

## Fs and Usertests

`dinode` and `dirents` are the inodes and directories on disk, `icache` the
in-memory inodes with `ref`, `busy`, `valid` and the copied fields, `ftable` and
`ofile` the open files and descriptors. A process runs a program, a sequence of
calls, each with the results after which it goes on. Each call is cut where it
waits for the lock of an inode: `Start` and `Walk` are the turns of namex,
`Link1`, `Link2`, `LinkBad`, `Unlink1` to `Unlink3`, `Create1`, `Create2`,
`Exist`, `Open1` and `Chdir1` the stretches between two ilocks. What a call has
still to unlock and put at its end is its `todo`; iput is the three steps
`IPut`, `ITrunc` and `IDrop`, because it lets go of icache.lock in between.

Usertests has seventeen tests of usertests.c as such programs, with the number
of repetitions as a parameter where the test is a loop. To them MCStorage adds
every choice of one call of a child and two of its parent in one directory that
either may remove, and a program that fills the descriptors and the file table.

## Blocks

`bitmap`, `addrs`, `data` and `isize` are the allocation and the contents; `flat`
is the file as a sequence of bytes. `Chunk` starts a transaction of filewrite,
`AllocIndirect`, `AllocBlock` and `CopyBlock` are the steps of writei for one
block, `ITruncStart`, `BFree` and `ITruncEnd` those of itrunc. `Place` is the block
that a turn of itrunc's loops looks at: the direct ones, the entries of the
indirect block, then that block itself. `at` counts the turns, each a `BFree`,
which goes on without a bfree where there is no block. `logged` counts the distinct
blocks a transaction passes to log_write. On a full disk balloc panics and the
machine stops (`bPanic`).

## Pipe and ByteQueue

`pipewrite` and `piperead` go a byte at a time under `plock`; the two halves of
`sleep` are separate, so that a kill can fall between them. `nread` and `nwrite`
wrap at UINT. With the second end closed pipeclose gives the page back
(`Freed`); nothing is done with a pipe afterwards (FreedUnused). ByteQueue is a
bounded queue of bytes that ends when no writer is left; the refinement maps the
queue to the part of the ring between the counters.

## Vm

A page is a number; `entry` is what it contains when it is a directory or a
table, so walkpgdir really walks. The calls are loops with one kalloc or kfree
per step, `job` has their local variables: `Copy` is copyuvm's turn, `Grow` and
`MapPage` allocuvm's, `Dealloc` deallocuvm's, `FreeTables` freevm's end,
`Segment` to `Commit` exec. `lost` collects the pages the code forgets: setupkvm,
allocuvm and copyuvm do not free a page when mappages finds no page for a table.

## Boot

Processor 1 runs main(); `StartStack`, `StartAp` and `WaitAp` are one round of
startothers. Another processor is off until its STARTUP, takes its stack from
the shared word (`EntryOther`) and says that it is up (`Mpmain`). `KallocLock`
to `KallocUnlock` are the accesses of kalloc, with `use_lock` read twice; kinit2
frees a page in `KfreeRead` and `KfreeWrite` and ends with `UseLock`; after
`Userinit` any processor that schedules may run a process that forks.

## Console and Lines

`cbuf`, `cr`, `cw` and `ce` are `input`, with wrapping counters; `crt` and `pos`
are the screen. consoleintr is one action per character, consoleread one per
character it copies. Lines is the abstract console: complete lines in order and
one line being edited. A reader gets a prefix of the complete lines.

## Mkfs

mkfs's main in order, with iappend cut at the turns of its loop. `dinodes`,
`sect`, `indirect` and `bits` are the image, `din` iappend's copy of the inode.
`MkFails` is a failed assert or rsect behind the end of the image.

## Sh, Umalloc, Grep

Sh has the recursive descent over tokens, as operators named after the
functions of sh.c, and the processes of runcmd with their descriptors; a step
is one system call. `InitFork`, `ExecSh` and `InitWait` are init's loop, which ends,
and the kernel with it, when fork fails; `Cd` is the command that the shell runs
itself. Umalloc has `mem`, the headers, and `malloc`, `morecore` and
`free` as operators over the list. Grep has `match`, `matchhere` and `matchstar`
and the buffer of `grep()`; a read fills the buffer unless the file ends.

## Runs

| run | instance | shows |
|---|---|---|
| proc_life | 1 CPU, 3 slots, all calls, 2 forks | TypeOK, ParentCanWait, NoMissedExit, PidsDistinct, MemoryOwned |
| proc_smp | 2 CPUs, 2 slots, all calls, 2 forks | RunningOnOneCPU |
| proc_stride | 1 CPU, strides 1 and 2, wrap at 3 | ScanPicksMin, LastSlotRuns |
| proc_zombie | 1 CPU | ZombieUntilWait is violated |
| proc_starve | 1 CPU, fork only | SmallestGetsCPU is violated |
| proc_born | 1 CPU, fork and kill(0) | BornUnkilled is violated |
| proc_double | 2 CPUs | NotTakenTwice is violated |
| log_atomic | 2 operations, 3 blocks, 2 values | Atomic |
| log_race | 3 operations of one block | LogFits is violated |
| storage | MCStorage: Fs, Blocks, Vm, Console, Umalloc, Mkfs, Boot | see below |
| system | MCSystem: Spinlock, BufCache, Pipe, Sh, Grep, Log | see below |
| op_blocks | Blocks with the real constants | OpBlocksFit is violated |

MCStorage and MCSystem put modules that share no variables side by side. The
variable `part` says which of them a behaviour belongs to, and the others rest.

storage:

* RefsExact: `ref` of an inode, and of an open file, is the number of pointers
  to it at every step of every call; InUseNotFree: nothing in use is freed, and
  whatever a crash could leave has no entry for a free inode; NoInodeDeadlock;
  TestsPass: the tests get the results they check for, without a panic;
* BlocksOwned: a block belongs to one place of one file or is free, and none is
  freed twice, also when the disk fills up;
  ReadsBack: reading gives what was written, at every size and offset reached;
* PagesAccounted: a page is free or in exactly one place, except those counted
  in `lost`; SizeMapped: what lies below a process's size is mapped, as long as
  no page table allocation has failed;
* ConsoleSound: no reader sleeps beside a complete line and the cursor stays on
  the screen; ConsoleIsLines: the console implements Lines;
* HeapSound: blocks do not overlap, the list is circular and in order, and
  neighbours are joined;
* ImageSound: in the image of mkfs every block has one place or is free, files
  read back, and the bitmap agrees;
* BootSound: a stack per processor, and one processor at a time in the allocator.

system:

* SpinExclusion: at most one context is between acquire and release of a lock;
  InterruptsBalanced: interrupts are off while a lock is held or waited for and
  back to what they were after the last release, and none of the tests of
  acquire, release and popcli panics;
* BuffersSound: one buffer per block, one holder per buffer and no sleeper
  forgotten, with two buffers per process and until none is left; SeesLatest: a
  reader sees the last write whatever was recycled meanwhile; IoCompletes: every
  disk request ends, unless bget panics;
* LogSound: a transaction names no block twice and has at most `Longest` blocks,
  and the header on disk is empty between commits; the log of this run is
  overrun, in memory and on disk;
* NoLostWakeup, SleepersWoken: sleepers in a pipe have a reason to sleep, and
  are woken; PipeIsQueue: the pipe implements ByteQueue;
* Prompts: the shell comes back to its prompt after `a | a`, `( a ; a < a ) &` and a
  line with a syntax error, in any order, with forks, pipes, opens and execs that
  fail;
  Parses: parsecmd accepts the lines of a grammar, stated by cutting the line at
  its operators, and builds its tree; GrepRight: grep prints the lines that a
  declarative definition of the pattern describes.

Bounds of Proc and Log. Three slots are init, a process and its child, the least
in which a process is orphaned; forks fail there for want of memory, but the
table does not fill, because MaxPid = 3 bounds the forks at two and keeps the
state finite. In proc_smp two slots do fill. INT_MAX is tiny so that `passada`
wraps. With LOGSIZE = LogBlocks, as mkfs makes it, log_atomic has room for
exactly two operations, three blocks fill the log, and log_write's panic is
reached. In system, two operations of one block each share a log of two blocks,
in memory and on disk, and four blocks to write: they overrun it by one, and
could by more if a test of log_write were wrong. On two CPUs two slots are
enough for both to want the same process, and for the one slot besides init to
be reused; OneCPU is proved for any number.

Bounds of the others. Sizes are the least at which tables fill, counters wrap
and indirections are used: one direct and two indirect blocks of two bytes for
each of two files, on a disk of six blocks, which fills, a pipe of two bytes
with counters modulo 4, an input buffer of two characters, three buffers for
four blocks, one of which the log may keep dirty, two open files, nine inodes
and six entries of the inode cache (enough for the programs: the panics of
ialloc and iget are not reached), thirteen page frames with three entries to a
table (a fork, an exec and an sbrk at the same time run out of them at every
point), a heap of eleven units. Two processes or CPUs compete everywhere; Boot
has three, because two processors must be able to take the same stack; Pipe has
two writers and a reader. The parser is tried on all sequences of up to five
tokens, or four with `>` and `>>`, grep on all texts of up to five characters.
`MaxCalls` bounds the writes of a process in Blocks.

Deadlock is not checked in the Proc runs, where a panic stops the machine and
the bound on forks stops programs that only fork, nor in storage and system,
where programs end and a parse or a grep is one step; the properties about
waiting say which waits end.

Fairness. `FairSpec` of Proc (proc_stride and proc_starve): a CPU that can
continue in scheduler() or in kernel code does, so those steps are weakly fair.
A clock interrupt raised while interrupts are off stays pending in the local
APIC, so TimerIntr is strongly fair. User programs get no fairness. In system,
the disk answers and its interrupt is taken (weakly fair: the controller keeps
the interrupt line raised), a process woken in iderw goes on; the processes of a
pipe and of a command line go on, which a scheduler that runs every process
gives them and StrideXV6's does not always (proc_starve): these properties are
about the pipe, the driver and the shell, not about the scheduler. A process
that is outside of a call goes on to its next call or closes its end.

## What the code does not do

* proc_zombie: a process exits while its parent is not in wait() and nothing
  else is RUNNABLE. The stale `min_proc` is the zombie, the CPU switches to it
  and the kernel stops in `panic("zombie exit")`.
* proc_double: the same stale pointer with two CPUs runs one process on both.
* proc_starve: `min == 0` means both "none yet" and a passada of 0, so a new
  process gives way to any RUNNABLE process in a later slot, for ever if one
  stays RUNNABLE. ScanPicksMin and LastSlotRuns say what does hold.
* proc_born: kill() marks free slots, whose pid is 0, and allocproc does not
  clear `killed`.
* log_race: the size test in log_write is made without the lock and begin_op
  admits LOGSIZE blocks although the log holds LOGSIZE - 1 besides its header.
  Together they let write_log write behind the log.
* op_blocks: filewrite writes up to 13 blocks of data in one transaction, with
  the inode, the bitmap and the indirect block more than the MAXOPBLOCKS blocks
  begin_op reserves for it.

More are stated as exceptions of properties that hold, or outside of them.
allocuvm ignores the result of mappages, so a process can get a size that is not
mapped when memory runs out (SizeMapped, PagesAccounted). pipewrite returns from
a full pipe for a killed process without waking the readers (NoLostWakeup). mkfs
rounds the size of a root directory that ends at a block boundary up by a whole
block, which it does not allocate (FixRoot; ImageSound speaks of the blocks that
exist).

## Proofs

`ProcProofs` proves, for every NPROC, NCPU, range of tickets, INT_MAX, set of
calls and bound MaxPid allowed by `ProcAssumption`, that `Spec` keeps TypeOK,
RunningOnOneCPU, ParentCanWait, NoMissedExit, PidsDistinct, MemoryOwned and
ScanPicksMin. `ProcAssumption` asks that the ticket limits are ordered and
positive and that strides are ints; the code's values satisfy it.

None of these is inductive alone. `IInv` adds

* CpuInv: a CPU holds `ptable.lock` exactly while it scans, switches or is in
  wait()'s loop, and has a current process exactly when it is out of the
  scheduler loop. RunningOnOneCPU needs it: a dispatch must exclude the others;
* ForkInv: a process inside fork is RUNNABLE or RUNNING, its `child` is an
  EMBRYO that has what fork has given it so far, and no two forks share one.
  Without it the unlocked writes of fork's error paths could hit a living slot;
* FamilyInv: init is alive, has no parent and is never in exit(), and a free
  slot has no parent. ParentCanWait needs init to be a parent for orphans;
* SleepInv: a sleeper's channel is the one its call sleeps on, so that the
  wakeups of exit() reach a process asleep in wait();
* PidInv: every pid is below nextpid;
* ScanInv: ScanPicksMin for the slots that the scan has passed, with `min` the
  passada of `min_proc`, or 0 when none of them is RUNNABLE.

The module first sorts the actions into classes, so that a conjunct that an
action cannot disturb costs one step: `Still` (nothing a process owns changes),
`Tick` (sleepers on &ticks wake up), `OpMove` (a process on its CPU goes from one
place in its control flow to the next), and fork, wait and kill with the slot
that their scan of the table finds as a parameter. `NextCases` shows that every
step is in a class. Each conjunct then has a lemma, with a case for each class
(`TypeStep`, `CpuStep`, `PidStep`, `ScanStep`, `ForkStep`, `MemoryStep`,
`FamilyStep`, `SleepStep`); `Invariance` combines them.

`PipeProofs` proves NoLostWakeup and PipeIsQueue for any writers, readers, buffer
size and width of the counters allowed by `PipeAssumption` (the buffer is smaller
than the counters' modulus and divides it, as 512 does 2^32). NoLostWakeup alone
is not inductive: `PipeInv` adds who holds `p->lock`, that a process on its way to
sleep has seen the pipe full or empty and the other end open, and that an end is
shut only after all its processes have closed it, from which `PipeFreedUnused`
follows: when pipeclose frees the pipe nobody is in it. There is one lemma for the
steps of pipewrite, one for those of piperead, one for close and kill. That the
pipe implements ByteQueue (`PipeImplementsQueue`) is arithmetic: `ContentsIs` says
which byte of the ring is the k-th of the queue, `PutContents` that a byte
written at `nwrite % PIPESIZE` goes to its end and disturbs none of the others,
`GetContents` that a byte read at `nread % PIPESIZE` is its first; both need that
PIPESIZE divides UINT, so that the places stay apart when a counter wraps.
`RingInv` adds that the counters are at most a buffer apart, and that a read
which returns nothing has seen the end of the stream.

`SpinProofs` proves SpinExclusion and InterruptsBalanced for any CPUs and locks.
`SpinInv` counts a lock as owned from the xchg of acquire on, before acquire has
returned: then the lock word is set while somebody owns the lock, two contexts
never own the same one, and release clears only what its caller has. xchg takes a
lock nobody owns, the xchg of release ends the only ownership there is, and no
other step makes an owner. For the interrupts `CliInv` adds that `ncli` of a CPU
is the nesting depth of the context that runs on it (`Depth`), that `intena` is
what the interrupt flag was at the outermost pushcli, that interrupted code has
no pushcli outstanding, and that `lk->cpu` is the CPU of the owner from the end of
acquire to the release (`OwnerInv`). From it `NoSpinPanic` shows that none of the
tests of acquire, release and popcli fails when locks are taken in order.

`LogProofs` proves LogSound and Atomic for any operations, blocks, contents and
sizes allowed by `LogAssumption`. `ShapeInv` carries the bound of a transaction: an
operation that has passed log_write's tests adds one block at most before it is
tested again, so the blocks in the transaction, and the operations between the
test and the lock, are at most `Longest`; begin_op admits no more than
LOGSIZE / MAXOPBLOCKS operations at a time. `Images` says which contents agree: a
clean buffer with the disk, a log block with its buffer once it is written, a home
block with its log block once it is installed; the entries from `FirstDirty` on are
exactly the dirty buffers. From the two, each disk write of a commit maps to a
stutter of AtomicDisk, except the write of the header, which is its commit, and a
crash anywhere goes back to the durable image. `LogIsAtomic` has the hypothesis
`[]LogFits`, that the transaction fits the log on disk; log_race shows that the
code does not guarantee it.

`BufProofs` proves SeesLatest and BuffersSound for any processes, buffers, blocks
and nested reads allowed by `BufAssumption`, with both drivers. `BufInv` adds that
the queue of the driver holds the buffers of exactly the processes asleep in iderw,
each once (`Queued`); that the controller works for the head of the queue, with its
block, its direction and, for a write, its data (`Working`); and that a valid buffer
has the latest contents, and so has the disk where no buffer is dirty (`Current`),
which is why recycling a clean buffer loses nothing. Nothing is assumed of the
number of buffers: bget's panic is a step like the others (`BPanicStep`).

`BootProofs` proves BootSound for any processors and pages allowed by
`FramesAssumption` (a low page for each stack and for the page directory, two high
ones). `Alone` says that until kinit2 sets `use_lock` the boot processor is the only
one that allocates, since no process is ready; `Inside`, that with `use_lock` the
lock belongs to the processor inside kalloc and what it has read is the head of
the list; `Enough`, that the low pages suffice for the stacks still to come, so
that kalloc returns a page to startothers, which does not test it; `OneByOne`, that
at most the processor startothers waits for is between its STARTUP and its stack,
and that the stack it will take is nobody's. The lemmas are one per step.

`ConsoleProofs` proves ConsoleSound and ConsoleIsLines for any readers, buffer,
width of the indices and screen allowed by `ConAssumption` (the buffer is smaller
than the width and divides it, as 128 does 2^32; the screen has two rows or more).
`ConInv` adds to ConsoleSound who holds cons.lock, and that a reader on its way to
sleep has found nothing to read. The screen is a lemma about each character that
cgaputc puts, whatever the cursor. For the line editor `OrderInv` says that the
reader's index, the end of the complete lines and the end of the line being edited
follow each other within one buffer length, also where they wrap, and `OpenInv`
that a read goes on only until it has a newline. `SlotApart` shows that different
places of that stretch are different slots of the buffer; from it `TypeText`,
`EraseText` and `TakeText` say what a character typed, erased or read does to the
two sequences of Lines, and one lemma per action maps the step.

`BlocksProofs` proves ReadsBack and BlocksOwned for any processes, files, block
size and numbers of blocks allowed by `BlocksAssumption` (blocks are not empty, the
log has the four blocks filewrite subtracts). Neither is inductive: both speak of
files nobody has locked, and the work is done under the lock. `BlocksInv` says what
is true in between:

* LockInv: one holder per inode, nobody else has a file open that is being freed,
  and a write starts inside the file and ends inside its largest size;
* Marked, Owned, Named, Struck: the bitmap marks exactly the blocks of the places
  that itrunc has not given back yet, no two such places have the same block, and
  a direct address given back is 0. A block that was given back may belong to
  another file before itrunc has finished with this one, so the place, not the
  file, has to be the owner;
* Contents, Sizes: each byte of a file is in an allocated block, and is the byte of
  `flat`, or the writer's own where its unfinished write has been.

`GainKeeps` and `GainContents` cover both allocations: a new block was marked by
nobody, so no byte of any file is in it. `CopyBlockStep` shows that a copy stays in
one block (`NextInBlock`) and so changes only the bytes it counts, `BFreeStep` that
the block of a turn is marked, so that "freeing free block" is not reached.
Nothing is assumed of the disk's size: on a full one balloc panics, which stops the
machine and changes nothing else.

Model-checked only: the liveness properties, because fairness and ENABLED are
out of the prover's reach; the parser, grep, the allocator of user programs and
the tests of usertests.c, which are recursive or are data; Fs, Vm
and Mkfs, for which no inductive invariant is written down here; and the
violations.

## Not modelled

* kbd.c and uart.c: a table look-up from scan codes, and port I/O. Console takes
  its characters from any source.
* The boot loader, the interrupt controllers, mp.c's tables, the segment
  descriptors: straight-line device programming without interleavings.
* Disk errors: ideintr marks a buffer valid whatever the disk reports, and no
  caller can be told, so there is nothing to state.
* Fetching system call arguments (syscall.c): the models pass values.
* cprintf, printf, ulib.c, string.c and the small user programs: sequential
  functions over data that the models abstract from.
* usertests.c: the tests of memory and processes, whose subjects are Vm and
  Proc, and those that repeat writes of many sizes, which Blocks covers.
  concreate is modelled up to the loop that lists the directory.
* Crashes are part of Log only: Fs states what holds between transactions, and
  Log shows that this is what a crash leaves.
