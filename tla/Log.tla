-------------------------------- MODULE Log --------------------------------
(***************************************************************************)
(* The logging layer of the file system, kernel/log.c: a redo log that     *)
(* makes groups of file system calls atomic with respect to crashes.       *)
(*                                                                         *)
(* Processes run system calls (begin_op, any number of log_writes, end_op) *)
(* and the last one to leave commits for all of them.  The machine may     *)
(* lose power at any step: memory is lost, and the one block transfer in   *)
(* flight may leave its block half written (Torn).  The log header is the  *)
(* exception: its 124 bytes lie in one 512-byte sector, so a header write  *)
(* happens or does not.  After a crash the kernel boots and runs           *)
(* recover_from_log(), during which it may crash again.                    *)
(*                                                                         *)
(* The buffer cache appears as `cached' (the home blocks that have a valid *)
(* buffer), `mem' (the buffers' contents) and `pins' (references taken by  *)
(* bpin); a buffer without a pin may be recycled at any moment, which is   *)
(* what bpin() is there to prevent.  Log blocks and the header are always  *)
(* written through, so their buffers never differ from the disk and are    *)
(* not modelled.  Every stretch of code under log.lock is one action.      *)
(***************************************************************************)
EXTENDS Naturals, Sequences, FiniteSets

CONSTANTS
    Procs,          \* processes that make file system calls
    Blocks,         \* home blocks of the file system
    Vals,           \* block contents
    InitVal,        \* the contents mkfs gives every block
    Torn,           \* contents of a block whose transfer was cut by a crash
    MAXOPBLOCKS,    \* param.h: blocks any one FS call writes
    LOGSIZE,        \* param.h: capacity of the in-memory header
    NLOG            \* superblock's nlog: log blocks on disk, header included

ASSUME LogConstants ==
    /\ IsFiniteSet(Procs)
    /\ MAXOPBLOCKS \in Nat \ {0}
    /\ LOGSIZE \in Nat /\ MAXOPBLOCKS <= LOGSIZE
    /\ NLOG \in Nat \ {0}
    /\ InitVal \in Vals
    /\ Torn \notin Vals

VARIABLES
    boot,           \* "read_head", "install": recovery; "run": calls may run
    pc,             \* pc[p]: where process p is in a file system call
    wrote,          \* wrote[p]: the blocks p's current call has log_written
    outstanding, committing,    \* log.outstanding, log.committing
    lh,             \* log.lh: the first lh.n entries of block[]
    tail,           \* loop variable of write_log() and install_trans()
    cached, mem, pins,          \* the buffer cache
    disk,           \* home blocks on disk
    dlog,           \* log data blocks on disk
    dhead,          \* log header on disk
    panicked        \* a CPU stopped in panic() holding log.lock

diskVars == <<disk, dlog, dhead>>
cacheVars == <<cached, mem, pins>>
vars == <<boot, pc, wrote, outstanding, committing, lh, tail,
          cached, mem, pins, disk, dlog, dhead, panicked>>

Slots == 1 .. (NLOG - 1)
Data == Vals \cup {Torn}
PCs == {"idle", "begin", "sleep", "op", "write_log", "install", "done"}

TypeOK ==
    /\ boot \in {"read_head", "install", "run"}
    /\ pc \in [Procs -> PCs]
    /\ wrote \in [Procs -> SUBSET Blocks]
    /\ outstanding \in Nat
    /\ committing \in BOOLEAN
    /\ lh \in Seq(Blocks)
    /\ tail \in Nat
    /\ cached \in SUBSET Blocks
    /\ mem \in [Blocks -> Data]
    /\ pins \in [Blocks -> Nat]
    /\ disk \in [Blocks -> Data]
    /\ dlog \in [Slots -> Data]
    /\ dhead \in Seq(Blocks)
    /\ panicked \in BOOLEAN

-----------------------------------------------------------------------------
(* The file system as mkfs leaves it, before the first boot.               *)

Init ==
    /\ boot = "read_head"
    /\ pc = [p \in Procs |-> "idle"]
    /\ wrote = [p \in Procs |-> {}]
    /\ outstanding = 0
    /\ committing = FALSE
    /\ lh = <<>>
    /\ tail = 0
    /\ cached = {}
    /\ mem = [b \in Blocks |-> InitVal]
    /\ pins = [b \in Blocks |-> 0]
    /\ disk = [b \in Blocks |-> InitVal]
    /\ dlog = [i \in Slots |-> InitVal]
    /\ dhead = <<>>
    /\ panicked = FALSE

Entries(h) == {h[i] : i \in 1 .. Len(h)}

\* What bread() finds in block b: the valid buffer, or the disk's block.
BRead(b) == IF b \in cached THEN mem[b] ELSE disk[b]

Running == boot = "run" /\ ~panicked

\* Faulty variant: the wakeup is forgotten.
WakeupForgotten(f) == f

\* wakeup(&log): every process asleep in begin_op() looks again.
Wakeup(f) == [p \in Procs |-> IF f[p] = "sleep" THEN "begin" ELSE f[p]]

-----------------------------------------------------------------------------
(* begin_op(), log_write(), end_op(): the file system calls' interface.    *)

\* Faulty variant: the reservation leaves out the call that asks.
MustWaitLate ==
    \/ committing
    \/ Len(lh) + outstanding * MAXOPBLOCKS > LOGSIZE

\* Faulty variant: a commit in progress does not keep calls out.
MustWaitSpace == Len(lh) + (outstanding + 1) * MAXOPBLOCKS > LOGSIZE

\* begin_op()'s test that the call has to wait.
MustWait ==
    \/ committing
    \/ Len(lh) + (outstanding + 1) * MAXOPBLOCKS > LOGSIZE

BeginOpSleep(p) ==
    /\ Running
    /\ pc[p] \in {"idle", "begin"}
    /\ MustWait
    /\ pc' = [pc EXCEPT ![p] = "sleep"]
    /\ UNCHANGED <<boot, wrote, outstanding, committing, lh, tail, panicked>>
    /\ UNCHANGED cacheVars /\ UNCHANGED diskVars

BeginOp(p) ==
    /\ Running
    /\ pc[p] \in {"idle", "begin"}
    /\ ~MustWait
    /\ outstanding' = outstanding + 1
    /\ pc' = [pc EXCEPT ![p] = "op"]
    /\ wrote' = [wrote EXCEPT ![p] = {}]
    /\ UNCHANGED <<boot, committing, lh, tail, panicked>>
    /\ UNCHANGED cacheVars /\ UNCHANGED diskVars

\* kill() makes a sleeping process runnable; begin_op() tests again.
KillSleeper(p) ==
    /\ Running
    /\ pc[p] = "sleep"
    /\ pc' = [pc EXCEPT ![p] = "begin"]
    /\ UNCHANGED <<boot, wrote, outstanding, committing, lh, tail, panicked>>
    /\ UNCHANGED cacheVars /\ UNCHANGED diskVars

\* The test at the top of log_write().
LogFull == Len(lh) >= LOGSIZE \/ Len(lh) >= NLOG - 1

\* A call changes block b: bread(b), modify, log_write(b), brelse(b), all
\* with b's buffer locked.  A call writes at most MAXOPBLOCKS blocks.
LogWrite(p, b, v) ==
    /\ Running
    /\ pc[p] = "op"
    /\ Cardinality(wrote[p] \cup {b}) <= MAXOPBLOCKS
    /\ ~LogFull /\ outstanding >= 1
    /\ wrote' = [wrote EXCEPT ![p] = @ \cup {b}]
    /\ cached' = cached \cup {b}
    /\ mem' = [mem EXCEPT ![b] = v]
    /\ IF b \in Entries(lh)
         THEN UNCHANGED <<lh, pins>>                    \* absorption
         ELSE /\ lh' = Append(lh, b)
              /\ pins' = [pins EXCEPT ![b] = @ + 1]
    /\ UNCHANGED <<boot, pc, outstanding, committing, tail, panicked>>
    /\ UNCHANGED diskVars

\* panic("too big a transaction").  The buffer stays locked for good, so the
\* change made to it is never seen.
LogWritePanic(p, b) ==
    /\ Running
    /\ pc[p] = "op"
    /\ Cardinality(wrote[p] \cup {b}) <= MAXOPBLOCKS
    /\ LogFull
    /\ panicked' = TRUE
    /\ UNCHANGED <<boot, pc, wrote, outstanding, committing, lh, tail>>
    /\ UNCHANGED cacheVars /\ UNCHANGED diskVars

\* end_op() while other calls are in progress.
EndOp(p) ==
    /\ Running
    /\ pc[p] = "op" /\ ~committing
    /\ outstanding > 1
    /\ outstanding' = outstanding - 1
    /\ pc' = Wakeup([pc EXCEPT ![p] = "idle"])
    /\ UNCHANGED <<boot, wrote, committing, lh, tail, panicked>>
    /\ UNCHANGED cacheVars /\ UNCHANGED diskVars

\* end_op() of the last call: it becomes the committer.  commit() has
\* nothing to do when the log is empty.
EndOpCommit(p) ==
    /\ Running
    /\ pc[p] = "op" /\ ~committing
    /\ outstanding = 1
    /\ outstanding' = 0
    /\ committing' = TRUE
    /\ tail' = 0
    /\ pc' = [pc EXCEPT ![p] = IF lh = <<>> THEN "done" ELSE "write_log"]
    /\ UNCHANGED <<boot, wrote, lh, panicked>>
    /\ UNCHANGED cacheVars /\ UNCHANGED diskVars

-----------------------------------------------------------------------------
(* commit(): one action per block written to the disk.                     *)

WriteLog(p) ==
    /\ Running
    /\ pc[p] = "write_log"
    /\ tail < Len(lh)
    /\ dlog' = [dlog EXCEPT ![tail + 1] = BRead(lh[tail + 1])]
    /\ tail' = tail + 1
    /\ UNCHANGED <<boot, pc, wrote, outstanding, committing, lh, panicked>>
    /\ UNCHANGED <<disk, dhead>> /\ UNCHANGED cacheVars

\* Faulty variant: the header is written before all log blocks are.
WriteHeadEarly(p) ==
    /\ Running
    /\ pc[p] = "write_log"
    /\ dhead' = lh
    /\ tail' = 0
    /\ pc' = [pc EXCEPT ![p] = "install"]
    /\ UNCHANGED <<boot, wrote, outstanding, committing, lh, panicked>>
    /\ UNCHANGED <<disk, dlog>> /\ UNCHANGED cacheVars

\* Faulty variant: install_trans() without the write_head() before it.
WriteHeadForgotten(p) ==
    /\ Running
    /\ pc[p] = "write_log"
    /\ tail = Len(lh)
    /\ tail' = 0
    /\ pc' = [pc EXCEPT ![p] = "install"]
    /\ UNCHANGED <<boot, wrote, outstanding, committing, lh, panicked>>
    /\ UNCHANGED diskVars /\ UNCHANGED cacheVars

\* The first write_head(): the commit point.
WriteHead(p) ==
    /\ Running
    /\ pc[p] = "write_log"
    /\ tail = Len(lh)
    /\ dhead' = lh
    /\ tail' = 0
    /\ pc' = [pc EXCEPT ![p] = "install"]
    /\ UNCHANGED <<boot, wrote, outstanding, committing, lh, panicked>>
    /\ UNCHANGED <<disk, dlog>> /\ UNCHANGED cacheVars

\* One turn of install_trans()'s loop, up to the bunpin().
InstallBlock ==
    LET b == lh[tail + 1] IN
    /\ tail < Len(lh)
    /\ disk' = [disk EXCEPT ![b] = dlog[tail + 1]]
    /\ cached' = cached \cup {b}
    /\ mem' = [mem EXCEPT ![b] = dlog[tail + 1]]
    /\ tail' = tail + 1
    /\ UNCHANGED <<lh, dlog, dhead>>

InstallTrans(p) ==
    /\ Running
    /\ pc[p] = "install"
    /\ InstallBlock
    /\ pins' = [pins EXCEPT ![lh[tail + 1]] = @ - 1]
    /\ UNCHANGED <<boot, pc, wrote, outstanding, committing, panicked>>

\* log.lh.n = 0 and the write_head() that erases the transaction.
ClearLog ==
    /\ tail = Len(lh)
    /\ lh' = <<>>
    /\ dhead' = <<>>
    /\ UNCHANGED <<disk, dlog, tail>>

EraseTrans(p) ==
    /\ Running
    /\ pc[p] = "install"
    /\ ClearLog
    /\ pc' = [pc EXCEPT ![p] = "done"]
    /\ UNCHANGED <<boot, wrote, outstanding, committing, panicked>>
    /\ UNCHANGED cacheVars

\* The tail of end_op(), after commit() returned.
CommitDone(p) ==
    /\ Running
    /\ pc[p] = "done"
    /\ committing' = FALSE
    /\ pc' = Wakeup([pc EXCEPT ![p] = "idle"])
    /\ UNCHANGED <<boot, wrote, outstanding, lh, tail, panicked>>
    /\ UNCHANGED cacheVars /\ UNCHANGED diskVars

-----------------------------------------------------------------------------
(* The buffer cache, as the rest of the kernel drives it.                  *)

\* Some bread(b) loads a block that has no buffer.
CacheFill(b) ==
    /\ boot = "run"
    /\ b \notin cached
    /\ cached' = cached \cup {b}
    /\ mem' = [mem EXCEPT ![b] = disk[b]]
    /\ UNCHANGED <<boot, pc, wrote, outstanding, committing, lh, tail,
                   pins, panicked>>
    /\ UNCHANGED diskVars

\* bget() recycles b's buffer: it may when refcnt is 0.
CacheEvict(b) ==
    /\ boot = "run"
    /\ b \in cached
    /\ pins[b] = 0
    /\ cached' = cached \ {b}
    /\ UNCHANGED <<boot, pc, wrote, outstanding, committing, lh, tail,
                   mem, pins, panicked>>
    /\ UNCHANGED diskVars

-----------------------------------------------------------------------------
(* Crash and reboot.                                                       *)

\* The home block being written when the power fails, if any.
HomeInFlight ==
    IF tail < Len(lh) /\ (boot = "install" \/ \E p \in Procs : pc[p] = "install")
      THEN {lh[tail + 1]} ELSE {}

SlotInFlight ==
    IF tail < Len(lh) /\ \E p \in Procs : pc[p] = "write_log"
      THEN {tail + 1} ELSE {}

Crash ==
    /\ \E t \in SUBSET HomeInFlight :
          disk' = [b \in Blocks |-> IF b \in t THEN Torn ELSE disk[b]]
    /\ \E t \in SUBSET SlotInFlight :
          dlog' = [i \in Slots |-> IF i \in t THEN Torn ELSE dlog[i]]
    /\ UNCHANGED dhead
    /\ boot' = "read_head"
    /\ pc' = [p \in Procs |-> "idle"]
    /\ wrote' = [p \in Procs |-> {}]
    /\ outstanding' = 0
    /\ committing' = FALSE
    /\ lh' = <<>>
    /\ tail' = 0
    /\ cached' = {}
    /\ mem' = [b \in Blocks |-> InitVal]
    /\ pins' = [b \in Blocks |-> 0]
    /\ panicked' = FALSE

\* recover_from_log(), called from initlog() before any process makes calls.
ReadHead ==
    /\ boot = "read_head"
    /\ lh' = dhead
    /\ boot' = "install"
    /\ UNCHANGED <<pc, wrote, outstanding, committing, tail, panicked>>
    /\ UNCHANGED cacheVars /\ UNCHANGED diskVars

RecoverInstall ==
    /\ boot = "install"
    /\ InstallBlock
    /\ UNCHANGED <<boot, pc, wrote, outstanding, committing, pins, panicked>>

RecoverClear ==
    /\ boot = "install"
    /\ ClearLog
    /\ boot' = "run"
    /\ UNCHANGED <<pc, wrote, outstanding, committing, panicked>>
    /\ UNCHANGED cacheVars

-----------------------------------------------------------------------------
Recover == ReadHead \/ RecoverInstall \/ RecoverClear

Commit(p) ==
    WriteLog(p) \/ WriteHead(p) \/ InstallTrans(p) \/ EraseTrans(p) \/ CommitDone(p)

Call(p) ==
    \/ BeginOpSleep(p) \/ BeginOp(p) \/ KillSleeper(p)
    \/ \E b \in Blocks : LogWritePanic(p, b) \/ \E v \in Vals : LogWrite(p, b, v)
    \/ EndOp(p) \/ EndOpCommit(p)

Next ==
    \/ \E p \in Procs : Call(p) \/ Commit(p)
    \/ \E b \in Blocks : CacheFill(b) \/ CacheEvict(b)
    \/ Crash
    \/ Recover

Spec == Init /\ [][Next]_vars

\* The disk answers every request, the scheduler runs every runnable process
\* (a process in begin_op, end_op or commit is never blocked by another one
\* for good) and every file system call ends.  Nothing makes a process start
\* a call, and nothing makes the machine crash.
Fairness ==
    /\ WF_vars(Recover)
    /\ \A p \in Procs :
          /\ WF_vars(Commit(p))
          /\ WF_vars(EndOp(p) \/ EndOpCommit(p))
          /\ WF_vars(pc[p] = "begin" /\ (BeginOp(p) \/ BeginOpSleep(p)))

FairSpec == Spec /\ Fairness

-----------------------------------------------------------------------------
(* Properties.                                                             *)

\* The log block that holds the contents of b in a transaction with header h.
SlotOf(h, b) == CHOOSE i \in 1 .. Len(h) : h[i] = b

\* The image of the file system that recovery would produce from the disk.
Recovered ==
    [b \in Blocks |->
        IF b \in Entries(dhead) THEN dlog[SlotOf(dhead, b)] ELSE disk[b]]

View == IF boot = "run" THEN [b \in Blocks |-> BRead(b)] ELSE Recovered

\* Groups of calls are atomic and durable across crashes at any point of
\* log_write, commit and recovery, with buffers recycled meanwhile: log.c
\* implements AtomicDisk.
Atomic == INSTANCE AtomicDisk WITH
    durable <- Recovered,
    view <- View,
    active <- {p \in Procs : pc[p] = "op"}

ImplementsAtomicDisk == Atomic!Spec

\* log.outstanding counts the calls in progress, and there is one committer, with
\* no call in progress, exactly when log.committing is set: the panics of end_op()
\* ("log.committing") and log_write() ("outside of trans") are never reached.
CallsCounted ==
    LET InOp == {p \in Procs : pc[p] = "op"}
        Committers == {p \in Procs : pc[p] \in {"write_log", "install", "done"}}
    IN  /\ outstanding = Cardinality(InOp)
        /\ Cardinality(Committers) = IF committing THEN 1 ELSE 0
        /\ committing => outstanding = 0

\* A process asleep in begin_op() has someone who will wake it: a call that is
\* still in progress or a commit.
SleeperHasWaker ==
    (\E p \in Procs : pc[p] = "sleep")
        => committing \/ \E p \in Procs : pc[p] = "op"

\* begin_op()'s reservation: what is in the log plus what the calls in progress
\* may still add, MAXOPBLOCKS blocks each less the ones they have written, fits
\* in the header's LOGSIZE entries.
ReservationHolds ==
    LET InOp == {p \in Procs : pc[p] = "op"}
        Written == {pb \in InOp \X Blocks : pb[2] \in wrote[pb[1]]}
    IN  Len(lh) + Cardinality(InOp) * MAXOPBLOCKS <= LOGSIZE + Cardinality(Written)

\* The log never outgrows its blocks: both headers fit in a struct logheader and in
\* the log on disk, and the loops of write_log() and install_trans(), in commit()
\* and in recovery, do not pass the last block that the header names.
WithinLog ==
    /\ \A h \in {lh, dhead} : Len(h) <= LOGSIZE /\ Len(h) <= NLOG - 1
    /\ (boot = "install" \/ \E p \in Procs : pc[p] \in {"write_log", "install"})
          => tail <= Len(lh)

\* A home block on disk changes only while the header on disk names it, so that
\* a crash in the middle of the write can be repaired from the log.
WriteAhead ==
    [][\A b \in Blocks : disk'[b] # disk[b] => b \in Entries(dhead)]_vars

\* Some waiting call is admitted: the group of calls that fills the log ends,
\* commits, and makes room (unless the machine stops or reboots).
SomeoneAdmitted ==
    (\E p \in Procs : pc[p] \in {"begin", "sleep"})
        ~> (panicked \/ boot # "run" \/ \E p \in Procs : pc[p] = "op")
=============================================================================
