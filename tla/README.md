# A TLA+ model of xv6-learn

This directory holds TLA+ specifications of the xv6 kernel in this repository
(RISC-V xv6, branch of the *util* lab), the TLC configurations that check them
on small instances, and proofs, checked by TLAPS, of the properties that hold for
every instance. Every definition is translated from the C source; `PROJECT.json`
names the lines each one stands for.

To check a run: `tlc -config MCLog.cfg MCLog`. To check a proof module:
`tlapm LogProofs.tla`.

## 1. The system

xv6 is a small Unix kernel for several CPUs. Its parts, bottom up, with the state
they own and what makes them hard to get right:

| part | source | state | operations | hard behaviour |
|---|---|---|---|---|
| spinlocks, interrupt nesting | `spinlock.c` | `locked`, `cpu`, `noff`, `intena` | acquire, release, push_off, pop_off | interrupts while a lock is held |
| process table, scheduler | `proc.c`, `swtch.S` | `proc[]`, `cpus[]`, `wait_lock` | allocproc, fork, exit, wait, kill, yield, sched, scheduler | locks handed over across swtch(), parent and child exiting at once, kill racing with sleep |
| sleep and wakeup, sleep locks | `proc.c`, `sleeplock.c` | `p->chan`, `p->state`, `lk->locked` | sleep, wakeup, acquiresleep, releasesleep | the lost wakeup |
| disk driver | `virtio_disk.c` | descriptors, avail and used rings, `info[]` | virtio_disk_rw, virtio_disk_intr | completions in any order, wrapping indices, running out of descriptors |
| buffer cache | `bio.c` | `bcache` | bread, bwrite, brelse, bpin, bunpin | two users of one block, recycling |
| logging | `log.c` | `log`, header and log blocks on disk | begin_op, log_write, end_op, commit, recovery | crashes between any two writes, concurrent calls in one transaction, space |
| inodes, block allocation | `fs.c`, `mkfs.c` | `itable`, bitmap, dinodes | ialloc, iget, ilock, iput, bmap, itrunc, readi, writei | last reference racing with lookup, unlinked open files, full disks |
| directories, path names | `fs.c` | directory blocks | dirlookup, dirlink, namex | locking order, removed directories |
| file table, descriptors | `file.c`, `sysfile.c` | `ftable`, `ofile[]` | filealloc, filedup, fileclose, sys_* | reference counts across fork and close |
| pipes | `pipe.c` | ring buffer, `readopen`, `writeopen` | piperead, pipewrite, pipeclose | blocking both ways, wrapping counters, last close, kill |
| console, uart | `console.c`, `uart.c` | `cons`, `uart_tx_*` | consoleread, consoleintr, uartputc, uartstart, uartintr | interrupts against readers and writers |
| traps, clock | `trap.c`, `plic.c`, `kernelvec.S`, `trampoline.S` | `ticks` | usertrap, kerneltrap, clockintr, devintr, sys_sleep | preemption anywhere interrupts are on |
| memory | `kalloc.c`, `vm.c` | free list, page tables | kalloc, kfree, mappages, uvmalloc, uvmcopy, uvmunmap | undoing a copy that runs out of memory |
| exec | `exec.c` | page table and registers of the process | exec | failing after the new image is half built |
| user programs of the lab | `pingpong.c`, `primes.c`, `xargs.c`, `find.c`, `sleep.c` | | | processes that wait for each other over pipes |
| other user code, tests | `user/` | | | |

How they interact: system calls of the file system run between begin_op() and
end_op() and reach the disk only through log_write(), the cache and the driver;
everything that blocks does so through sleep() and wakeup(); everything that is
shared between CPUs is under a spinlock; a timer interrupt may call yield() in any
code that runs with interrupts on; kill() wakes any sleeper.

What makes the system correct, as far as it is stated here:

- a sleeper whose condition becomes true is woken; nobody waits for ever on
  everybody else;
- a sleep lock, a kernel stack, a buffer, a descriptor and a slot of the process
  table have one user at a time;
- a file system call is atomic and, once its group has committed, durable;
- the disk, the cache and the pipe are what they look like: one copy of each
  block with the last contents written, a stream of bytes in order;
- every exit is seen by a parent, every orphan by init;
- the counts agree: references to buffers, inodes, files and pipes with their
  holders, link counts with names, the free map with the blocks of files, the free
  list with the pages of processes;
- a call that fails undoes what it did;
- interrupts are off while a spinlock is held and on again afterwards, on whatever
  CPU the thread then runs.

`PROJECT.json` lists the hazards at the lines where they bite.

## 2. Modules

Components (state as variables, one action per stretch of code that runs without
giving up its lock, the panics included):

- **SleepLock** - one sleep lock and sleep()/wakeup() at the granularity of the
  spinlocks: `lk->lk` and every `p->lock`. Process positions (`pc`) are the points
  between two lock operations of acquiresleep(), sleep(), releasesleep() and
  wakeup(); `SwitchedOut` and `SwitchTo` are the scheduler's part in sched().
  wakeup() visits the processes one by one (`todo`), each under its own lock. Most
  other modules use sleep() and wakeup() as one step each; this module justifies
  that.
- **Proc** - the process table on several CPUs: allocproc, fork, exit, reparent,
  wait, kill, yield, sched and scheduler(). `cproc[c]` is the stack a CPU is on,
  `plock` and `wait_lock` are held by CPUs and handed over across swtch().
- **Trap** - spinlocks with push_off() and pop_off(), traps, the timer interrupt,
  sched() and scheduler(), and the calls sleep, uptime and kill. What a thread still
  has to do is a sequence of steps (`th[t].code`), which usertrap(), kerneltrap() and
  the calls build; every lock they take, p->lock in wakeup(), killed() and setkilled()
  included, is taken by the same steps, with acquire()'s panic; an interrupt puts the
  handler's steps in front while the CPU's enable bit is set, between any two steps. A
  thread that gives up its CPU takes its sequence along to another one. `panicked` is
  set by the assertions of acquire(), release(), pop_off() and sched().
- **Virtio** - virtio_disk_rw() and virtio_disk_intr() with the descriptor
  allocator and the two rings, and the device (external), which takes chains in
  order, finishes them in any order and adds to the used ring while the handler
  runs. The handler stops at its panic about the status byte (`StatusPanic`). A buffer
  stands for the process that has it locked and for its block.
- **BufCache** - bget, bread, bwrite, brelse, bpin, bunpin with the LRU list and
  reference counts.
- **Log** - begin_op, log_write, end_op, commit and recovery, with a crash possible
  in every state, recovery included. A crash may leave the block being transferred
  half written, except the header, which fits in a sector. Buffers that are not
  pinned may be evicted at any moment.
- **FileSys** - inodes, directories and path names under concurrency: `disk` (type,
  link count and entries of each inode), `itable` (ref, valid and the cached
  fields), the inodes' sleep locks, and for each process its current directory, an
  open file and the call it is in (`loc`). A step is what a process does while it
  holds one inode lock or itable.lock; iput() alone is four steps, since it drops
  itable.lock in the middle. open, create, mkdir, mknod, link, unlink, chdir and
  close are there with every error exit; dirlink() may fail for want of a block, or
  find its name taken, when it puts the inode of that name with the directory locked. A
  crash returns the disk to a moment without calls in progress, which is what the
  log promises (AtomicDisk), and restarts all processes.
- **FileData** - the contents of inodes as operators on a disk record: balloc, bfree,
  bmap, itrunc, readi, writei, and mkfs (its layout, ialloc, iappend). Each byte
  stands for its inode and offset, so that one in the wrong place shows.
- **File** - the file table, descriptors, dup, fork, exit, open, close, unlink, pipe,
  read and write on top of FileData. open() and pipe() are one step per allocation, so
  that another process may take the last file, descriptor or page in between, and each
  failing path is there: `OpenFails` for sys_open(), `PipeUndo` for pipealloc()'s
  bad: label and sys_pipe(), which close the files got so far (`th[p].own`), `TakeBack`
  for the descriptors. A write runs in the chunks of filewrite(), one
  transaction each, with other processes between them. It starts from a disk that
  mkfs built.
- **Memory** - the free list, three-level page tables, and the calls that build, grow,
  copy, replace and free address spaces: allocproc, fork, sbrk, exec, exit and wait.
  The C functions are operators on a record of the free list, a page table, a size and
  whether the code is still on its success path, composed as in the code; every
  allocation may be the one that finds no page, the pages that sys_exec() takes for its
  arguments included. Entries have PTE_U, which walkaddr() wants, and PTE_W, which
  copyout() wants as well. A call is one step, because what
  calls share is the free list alone.
- **Console** - consoleread, consolewrite and consoleintr, the transmit ring and the
  polled echo of uart.c, the interrupt handler, and the UART with its two queues
  (external). A step goes up to the next access to the UART, which the echo reaches
  without uart_tx_lock.
- **Pipe** - pipealloc, piperead, pipewrite, pipeclose with the reference counts
  of the two struct files (filedup, fileclose), forks that share an end, closes,
  and kills. Counters wrap as unsigned ints do.

Abstract specifications, implemented by the above through INSTANCE ... WITH:

- **AtomicDisk** - what log.c promises: a view that all calls share, made durable in
  one step while no call is in progress; a crash returns to what is durable. The
  mapping takes as durable what recovery would make of the disk.
- **BlockStore** - what bio.c promises: a block has one copy and one user at a time.
- **BlockDevice** - what virtio_disk.c promises: every request is carried out once,
  between the call and the return.
- **ByteStream** - what pipe.c promises: a bounded FIFO of bytes.
- **LineDiscipline** - what console.c promises its readers: lines that only their
  typist edits, readable as a whole, consumed once and in order.

The layers rest on one another by these promises: Log uses the cache as BlockStore
describes it, FileSys uses Log's atomic transactions for its crashes, File uses
FileSys's locks for the atomicity of a chunk and leaves names to it.

**MCx** modules instantiate component x for TLC; **xProofs** and **LogSteps** hold
theorems (section 5). Operators
that a comment calls a *faulty variant* are used by no specification: each is a
plausible mistake in the operator after it, and `PROJECT.json` ("mutants") names the
property that catches it.

## 3. Runs

| run | instance | what it shows |
|---|---|---|
| `log` | 2 processes, 2 blocks, 2 contents, calls of 2 blocks, log of 3 | log.c implements AtomicDisk with crashes anywhere; home blocks change only under a committed header; counts, reservation and wakeups are right; some waiting call is always admitted |
| `bufcache` | 3 processes, 2 buffers, 3 blocks | bio.c implements BlockStore; refcnt counts users and pins, so that a buffer in use is not recycled and a block is in one buffer |
| `virtio` | 3 requests, 7 descriptors, indices that wrap at 14 | virtio_disk.c implements BlockDevice; no descriptor leaks or is freed twice, no completion is lost, nobody waits for descriptors that are there or for a transfer that is done; the handler does not panic |
| `sleeplock` | 3 processes, kills | exclusion, no lost wakeup; the lock keeps changing hands |
| `proc` | 4 slots, 2 CPUs, kills | one CPU per stack, sched()'s checks never panic, no exit is missed and every process has a parent that can wait for it |
| `pipe` | 2 readers, 2 writers, 2 bytes of buffer, requests of up to 3, counters that wrap at 4 | the pipe implements ByteStream; its page is freed once and never used after; nobody sleeps through a chance to go on |
| `fs` | 2 processes, 3 inodes, 2 names, a table of 3 entries | references are exact; an unlocked cached inode agrees with the disk; nothing that is named, open or a current directory is free; link counts match the names whenever no call is running; no cycle of processes waits for inode locks |
| `fs_dotdot` (violation) | the same | see section 4 |
| `mem` | 3 processes, 18 pages of 2 bytes, tables of 3 entries | each page is on the free list or has one use; what is mapped is what the size says and what the copy routines touch; no panic of kalloc.c and vm.c; a failed fork, exec or sbrk changes nothing |
| `trap` | 2 CPUs, 1 process, ticks that wrap at 3 | no assertion on locks and interrupts fails; interrupt state follows the thread; sleep(n) neither returns early nor misses its last tick |
| `console` | 2 readers, one of which may be killed, 1 writer, a line of 2, a transmit ring of 1 | input implements LineDiscipline; the UART's queue holds; nobody sleeps through a change; output drains |
| `file` | 2 processes, 3 files, 2 descriptors each, 1 pipe, 13 blocks of 2 bytes | references of files and pipes are exact, whatever open() or pipe() fails at; the free map is exact, also when the disk is full; each byte is where it was written; a chunk of a write fits in a transaction |

**Bounds.** All bounds are CONSTANTS. They are chosen so that the interesting cases
happen: a log one block smaller than the reservation, as mkfs makes it, that fills up;
more blocks than buffers and more users than buffers; one request more than there are
descriptors for, with one descriptor over, so that alloc3_desc() fails halfway; requests
longer than the pipe; indices that go round several times; an orphan, its parent, init
and one more process; fewer pages than three processes want; a write that needs the
indirect block, several transactions and more blocks than are free; a read whose length
wraps when it is added to the offset; two readers asleep on one line; an inode that is
freed and allocated again while somebody still holds the old one. `UINT16`, `UINT`,
`UINTS`, `UINT32` and `UINT64` stand for the ranges of C's unsigned types and keep the
one relation to the ring sizes the code relies on (they are multiples). `MaxNlink`
bounds link counts in the guards of FileSys. In `fs` and `file` the processes make the
calls of a scenario (`MCCalls`, `MCPrograms`), in any order and any number of times: one
process makes and removes nested directories while the other works in them; descriptors
passed around; a file removed or truncated while another process writes it; two writers
and a reader of one file. The images that mkfs builds for `file` are those whose root
directory ends inside a block (`EntriesEndInside`), as that of the Makefile's fs.img,
with 25 entries, does: with a full last block mkfs makes the size of the root one block
larger than its blocks, and BytesInPlace is false from the start (section 4). In
`console` one reader may be killed at any time, the writer while it sleeps (`Victims`).
Nothing bounds the length of a behaviour: all state spaces are finite and are explored
completely. Symmetry is used only in runs without liveness properties. `MCMemory` and
`MCConsole` use a VIEW: it forgets which pages a process has (they are interchangeable;
the value of PagesAccounted, and whether each trap frame is mapped, are part of the
view) and ring slots outside the live part (they are overwritten before they are read).

**Deadlock** is checked except in `bufcache`, where bget() really panics when all
buffers are taken, in `pipe`, where the processes really may all be gone, and in
the `fs` runs, which stop at the panic of section 4.

**Fairness.** SleepLock assumes weak fairness only: a CPU goes on, and an acquire()
succeeds if the lock stays free. Log assumes it of recovery, of commit and of calls
that end. Console assumes it of the transmitter and of a process that has a lock,
and strong fairness of the interrupt handler, which competes with processes for the
two spinlocks, each held for a bounded time only. No module assumes that a program
makes a call, and each liveness property says what has to stop first (kills, crashes,
typing). The other modules state no liveness property; that nobody waits for what has
already happened is an invariant there (NobodyForgotten, SleepersBlocked, ExitsSeen,
NoLockCycle, SleepExact).

## 4. Findings

One run is expected to fail: `fs_dotdot`. `ilock()` asserts that no path leads to a
free inode (`kernel/fs.c:314`). After mkdir /a and /a/b, a process makes /a/b its
current directory; another removes /a/b and then /a. The ".." of the removed /a/b
still names /a, but it neither counts as a link nor holds a reference, so /a's inode
is freed. The first process opens ../b: namex() gets /a's inode, and ilock() panics.
All other assertions of fs.c and sysfile.c that FileSys models hold (NoDangling).

Disagreements with a comment or a constant that were met while modelling, with the
action that shows them:

- begin_op() reserves LOGSIZE blocks, "max data blocks in on-disk log"
  (`kernel/param.h:10`), but mkfs makes a log of LOGSIZE blocks *including* the
  header, and log_write() panics at LOGSIZE - 1 (`LogWritePanic` of Log). Three calls
  that write ten different blocks each are admitted together and stop the machine.
- wait() tests killed() and then calls sleep(); a kill() in between finds the process
  RUNNING, wakes nobody, and the victim sleeps until a child exits (`WaitTest`,
  `WaitSleep` and `Kill` of Proc).
- A killed writer returns from pipewrite() without wakeup(&pi->nread), after it may
  have written bytes (`WriteGiveUp` of Pipe): a reader keeps sleeping on a pipe that is
  not empty. Run `pipe` therefore kills readers only.

Observed, without a statement in the repository to hold it against: kill(0) matches free
slots, whose pid is 0, and sets a `killed` flag that allocproc() does not clear
(`KillZero` of Proc); wait() always scans from proc[0], so a child in a high slot can
stay a ZOMBIE while lower ones come and go; a process that fails in alloc3_desc() wakes
all others waiting for descriptors when it gives back what it got, and they wake it in
turn; create() and link() do not look at dp->nlink, so an entry can be made in a removed
directory, and its inode is never freed (`stray` in FileSys); sys_open() with O_CREATE
leaves the new file behind when filealloc() or fdalloc() fails; an inode that is
unlinked while in use stays allocated for ever after a crash; filewrite()'s formula does
not count the bitmap block of the indirect block, which does no harm with one bitmap
block; mkfs rounds the size of the root directory up to the next block even when its
entries fill the last one, and readi() then allocates the missing block outside of any
transaction (left out by `EntriesEndInside`); while keys keep arriving the interrupt
handler may stay with them and output waits.

## 5. Proofs

TLC explores the instances above; the theorems hold for every value of the constants
that satisfies the ASSUMEs: model values such as `None` are distinct from the others;
there are finitely many processes where they are counted (Log, BufCache, Pipe) and
finitely many buffers; 0 < MAXOPBLOCKS <= LOGSIZE and at least one log block; at least
three descriptors, as one request takes; the range of a counter is larger than its ring
and a multiple of it, as 2^16 and 2^32 are of xv6's ring sizes.

| module | theorem | property | refinement |
|---|---|---|---|
| SleepLockProofs | Exclusion, NoLostWakeup | OwnerHolds, NoSleeperOnFreeLock | |
| LogProofs | CallsAreCounted, SleepersHaveWakers, WritesAhead, ReservationsHold, StaysWithinLog | CallsCounted, SleeperHasWaker, WriteAhead, ReservationHolds, WithinLog | ImplementsAtomic: AtomicDisk |
| ProcProofs | StacksKept, SchedHoldsOneLock, NoExitMissed | OneCpuPerStack, SchedLocks, ExitsSeen | |
| BufCacheProofs | RefcntsExact | RefcntExact | ImplementsStore: BlockStore |
| PipeProofs | PageFreedOnce, NobodySleepsThrough | NoUseAfterFree, SleepersBlocked | ImplementsStream: ByteStream |
| VirtioProofs | DescriptorsKept, NobodyIsForgotten | DescriptorsAccounted, NobodyForgotten | ImplementsDevice: BlockDevice |

Each of these modules also proves `TypeCorrect`. All follow the same plan: an inductive
invariant (`IInv`, and others on top of it), one step per action that preserves it,
and the property, or the step of the abstract specification, from the invariant.

**SleepLockProofs** - NoSleeperOnFreeLock alone says nothing about the moments in
between; the inductive invariant adds who holds `lk->lk` (LkInv) and each `p->lock`
(PLockInv), who owns the sleep lock (OwnerInv), and the reason a wakeup is not lost
(SleepInv): a process decides to sleep while `locked` is set, and from then on either
`locked` is still set or a wakeup() in progress has yet to look at the process.
wakeup() can pass a process only with `p->lock` free, and sleep() holds `p->lock` from
before it lets go of lk until it is SLEEPING.

**LogSteps, LogProofs** - `IInv` says that there is a single committer with no call in
progress (CallInv), that the header in memory has no duplicates, fits the log on disk,
is empty when nothing is in progress and equals the header on disk during installation
(HeadInv), and that a block in the log is pinned until it is installed (PinInv). It
gives the counting, the wakers and WriteAhead, an action property in which crashes are
included. Two more invariants rest on it. `DataInv` says where the newest contents of a
block are: in the cache while it is in the log, in the log on disk once write_log() has
copied it, at home up to `tail` during an installation, and at home and in the cache
otherwise. From it every step is a step of AtomicDisk or a stutter: WriteHead is the
one that makes the view durable, a crash returns to the durable state because an
installation repeated from the start by recovery ends in the same blocks, torn ones
included. `ReserveInv` counts pairs of a call and a block it has written: each pair is
in the log, a call has at most MAXOPBLOCKS of them, and log_write() adds a header entry
only together with a new pair. `BoundInv` follows the loops: `tail` passes no entry of
the header that write_log() and install_trans() work on; with HeadInv it gives WithinLog,
which is proved and not part of a run. LogSteps has what each step does; LogProofs has the
counting and the theorems.

**ProcProofs** - the invariant says that a CPU on the stack of a process that is not
RUNNING holds that process's lock (CpuInv), which is half of SchedLocks and why no
scheduler() can pick the process before the stack is left; who holds `wait_lock` and
each `p->lock`, the new child's in fork() included (LockInv); a child being forked is
USED and belongs to one fork() (ForkInv); where the thread of a process in each state
can be (PcInv); parents are never UNUSED or ZOMBIE (FamilyInv), and a parent that is
asleep, about to sleep, or past a child in its scan has no ZOMBIE there (ExitInv,
ScanInv). The last is inductive only because exit() holds `wait_lock` from reparent()
until the state is ZOMBIE and wait() from its scan until it is asleep.

**BufCacheProofs** - refcnt is the number of users and pins (CountInv), so a buffer
with refcnt 0 has no user and can be recycled; a block is in one buffer, that of the
processes that want it (UseInv); the lock is with a user (LockInv); a valid buffer that
is neither dirty nor pinned equals its block on disk (DataInv). BlockStore's contents
of a block are those of its valid buffer, or else those on disk: recycling a buffer
changes neither, because it is clean. The list needs a lemma: there is a last buffer
with refcnt 0 if there is any, and moving one to the head leaves the same buffers.

**PipeProofs** - for each end, the struct file's count is the number of processes that
have the end, and the end is open in the pipe while somebody has it or is the last,
between fileclose() and pipeclose() (EndInv); so pipeclose() of the second end finds
the first closed exactly once. `SleepInv` adds why a process sleeps: a writer asleep in
a pipe that has room has a reader in its copying loop, which ends with a wakeup, a
reader asleep in a pipe with bytes a writer inside pipewrite(). It needs the hypothesis
Killable \subseteq Readers, and run `pipe` has it too: with a killed writer the
property is false (section 4). For ByteStream the bytes in the ring are the sequence of
data[(nread + k) % PIPESIZE]; that writing one appends to it and reading one takes its
head rests on arithmetic lemmas about counters that wrap at a multiple of PIPESIZE.

**VirtioProofs** - requests in flight have chains of three descriptors, apart from each
other, and all other descriptors are free (ChainInv). A busy request is in exactly one
of the avail ring, the device and the used ring, and its status byte is 0 exactly in
the last (RingInv), which is why the handler's panic (`StatusPanic`, a conjunct of
NobodyForgotten) is not reached and why neither
ring overflows: by ChainInv there are at most NUM heads. Pushing and popping are lemmas
about rings with wrapping indices. BlockDevice's stage of a request is read off its
position and its status byte.

All inductive invariants were checked with TLC, on the instances of the runs, before
they were proved.

What stays with TLC: liveness (SomeoneAdmitted, LockChangesHands, OutputDrains), since
fairness and ENABLED are out of the prover's reach; what the recursive and folded
operators of FileData and Memory compute, which takes induction over data, and with it
the invariants of File and Memory; and, so far, the refinement of LineDiscipline and
the invariants of FileSys, Trap and Console.

## 6. What is left out, and the plan

Not modelled, for good:

- `main.c`, the machine-mode start and the kernel's own page table: straight-line
  initialisation by one CPU before anything is shared; its results are the Init
  predicates. Assembly only saves and restores registers.
- `printf.c`, `string.c`, `procdump`, `stati`, `filestat`: formatting, copying and
  reading without an effect on shared state. Fetching system call arguments; the copy
  routines it uses are in Memory.
- User programs: `sh`, `init`, the filters, `umalloc.c` and the tests are sequential
  programs; `primes` and `pingpong` are processes over pipes, and what fork, wait and
  pipes do under any program is in Proc, Pipe and File.

Abstracted in what is modelled: pids, names (members of a small set), file contents
(each byte is its own address); a spinlock acquisition is one atomic step; memory is
sequentially consistent (the code puts fences in acquire(), release() and around the
rings); a failing copyin() in writei() fails before it has changed a byte of the
block, where the code may leave a part of it changed in the cached buffer without
logging it; how many buffers all calls together hold (bget()'s panic) is not composed
with the file system.

Proofs to come, in the order of their worth: FileSys's RefExact, CacheCoherent and
NoLockCycle; Console's SleepersBlocked and FifoHolds and its refinement of
LineDiscipline; Trap's InterruptStateKept.
