-------------------------------- MODULE Pipe --------------------------------
(***************************************************************************)
(* One pipe, kernel/pipe.c, with the reference counts of the two struct    *)
(* files that stand for its ends (filedup and fileclose of kernel/file.c). *)
(*                                                                         *)
(* Readers and Writers are processes that can hold the read or the write   *)
(* end open.  A process joins by being forked from one that holds the end  *)
(* (filedup) and leaves by closing it or exiting (fileclose).  nread and   *)
(* nwrite are unsigned ints: they count modulo UINT, 2^32 in the code.     *)
(*                                                                         *)
(* pi->lock is explicit, because killed() is tested while it is held and   *)
(* kill() does not take it.  sleep() and wakeup() are one step each, as    *)
(* SleepLock.tla justifies.                                                *)
(***************************************************************************)
EXTENDS Naturals, Sequences, FiniteSets

CONSTANTS
    Readers, Writers,   \* processes that can hold an end open
    Killable,           \* processes that kill() is directed at
    Byte,               \* the values of a byte
    PIPESIZE,
    UINT,               \* number of values of an unsigned int
    MaxN,               \* bound: longest read or write request
    None

Procs == Readers \cup Writers

ASSUME PipeConstants ==
    /\ PIPESIZE \in Nat \ {0} /\ MaxN \in Nat
    /\ UINT \in Nat /\ UINT > PIPESIZE /\ UINT % PIPESIZE = 0
    /\ IsFiniteSet(Readers) /\ IsFiniteSet(Writers)
    /\ Readers \cap Writers = {} /\ None \notin Procs
    /\ Killable \subseteq Procs

VARIABLES
    data, nread, nwrite, readopen, writeopen,   \* struct pipe
    lock,       \* the process that holds pi->lock
    freed,      \* how often the pipe's page has been given to kfree()
    fref,       \* f->ref of the read end's and the write end's struct file
    holds,      \* the processes that have an end in their ofile[]
    killed,     \* p->killed
    pc,         \* where each process is
    left        \* n - i in piperead() and pipewrite()

pipeVars == <<data, nread, nwrite, readopen, writeopen>>
fileVars == <<freed, fref, holds>>
vars == <<data, nread, nwrite, readopen, writeopen, lock, freed, fref, holds,
          killed, pc, left>>

PCs == {"out",          \* not in a pipe operation
        "r_lock", "w_lock",     \* at acquire(&pi->lock), first or in sleep()
        "r_test", "w_test",     \* lock held, at the top of the while loop
        "r_sleep", "w_sleep",   \* lock held, has decided to sleep
        "r_asleep", "w_asleep", \* in sleep(&pi->nread) / sleep(&pi->nwrite)
        "r_copy",               \* lock held, in piperead()'s for loop
        "closing"}              \* in fileclose(), about to call pipeclose()

End(p) == IF p \in Readers THEN "read" ELSE "write"

TypeOK ==
    /\ data \in [0 .. PIPESIZE - 1 -> Byte]
    /\ nread \in 0 .. UINT - 1 /\ nwrite \in 0 .. UINT - 1
    /\ readopen \in BOOLEAN /\ writeopen \in BOOLEAN
    /\ lock \in Procs \cup {None}
    /\ freed \in Nat
    /\ fref \in [{"read", "write"} -> Nat]
    /\ holds \subseteq Procs
    /\ killed \in [Procs -> BOOLEAN]
    /\ pc \in [Procs -> PCs]
    /\ left \in [Procs -> 0 .. MaxN]

\* pipealloc() and the fork()s that share out its ends: one reader and one
\* writer.  The page kalloc() returns is not cleared.
Init ==
    /\ data \in [0 .. PIPESIZE - 1 -> Byte]
    /\ nread = 0 /\ nwrite = 0
    /\ readopen = TRUE /\ writeopen = TRUE
    /\ lock = None
    /\ freed = 0
    /\ fref = [e \in {"read", "write"} |-> 1]
    /\ \E r \in Readers, w \in Writers : holds = {r, w}
    /\ killed = [p \in Procs |-> FALSE]
    /\ pc = [p \in Procs |-> "out"]
    /\ left = [p \in Procs |-> 0]

Goto(p, where) == pc' = [pc EXCEPT ![p] = where]

\* release(&pi->lock) and return from the call.
Return(p) == lock' = None /\ left' = [left EXCEPT ![p] = 0]

Inc(x) == (x + 1) % UINT

\* Faulty variant: off by one.
FullLate == nwrite = (nread + PIPESIZE + 1) % UINT

Empty == nread = nwrite
Full == nwrite = (nread + PIPESIZE) % UINT

\* Faulty variant: a call that forgets its wakeup.
WakeNobody(p, where) == [pc EXCEPT ![p] = where]

\* wakeup(&pi->nread) and wakeup(&pi->nwrite), after moving p to `where'.
WakeReaders(p, where) ==
    [q \in Procs |-> IF q = p THEN where
                     ELSE IF pc[q] = "r_asleep" THEN "r_lock" ELSE pc[q]]
WakeWriters(p, where) ==
    [q \in Procs |-> IF q = p THEN where
                     ELSE IF pc[q] = "w_asleep" THEN "w_lock" ELSE pc[q]]

-----------------------------------------------------------------------------
(* Entering piperead() and pipewrite(), and sleep().                       *)

Call(p) ==
    /\ pc[p] = "out" /\ p \in holds /\ ~killed[p]
    /\ \E k \in 0 .. MaxN : left' = [left EXCEPT ![p] = k]
    /\ Goto(p, IF p \in Readers THEN "r_lock" ELSE "w_lock")
    /\ UNCHANGED <<lock, killed>> /\ UNCHANGED pipeVars /\ UNCHANGED fileVars

Acquire(p) ==
    /\ pc[p] \in {"r_lock", "w_lock"}
    /\ lock = None
    /\ lock' = p
    /\ Goto(p, IF p \in Readers THEN "r_test" ELSE "w_test")
    /\ UNCHANGED <<killed, left>> /\ UNCHANGED pipeVars /\ UNCHANGED fileVars

\* sleep(chan, &pi->lock)
Sleep(p) ==
    /\ pc[p] \in {"r_sleep", "w_sleep"}
    /\ lock' = None
    /\ Goto(p, IF p \in Readers THEN "r_asleep" ELSE "w_asleep")
    /\ UNCHANGED <<killed, left>> /\ UNCHANGED pipeVars /\ UNCHANGED fileVars

-----------------------------------------------------------------------------
(* pipewrite()                                                             *)

\* Reader gone or process killed: return -1.
WriteGiveUp(p) ==
    /\ pc[p] = "w_test" /\ left[p] > 0
    /\ ~readopen \/ killed[p]
    /\ Return(p)
    /\ Goto(p, "out")
    /\ UNCHANGED killed /\ UNCHANGED pipeVars /\ UNCHANGED fileVars

WriteFull(p) ==
    /\ pc[p] = "w_test" /\ left[p] > 0
    /\ readopen /\ ~killed[p]
    /\ Full
    /\ pc' = WakeReaders(p, "w_sleep")
    /\ UNCHANGED <<lock, killed, left>> /\ UNCHANGED pipeVars /\ UNCHANGED fileVars

WriteByte(p) ==
    /\ pc[p] = "w_test" /\ left[p] > 0
    /\ readopen /\ ~killed[p]
    /\ ~Full
    /\ \E b \in Byte : data' = [data EXCEPT ![nwrite % PIPESIZE] = b]
    /\ nwrite' = Inc(nwrite)
    /\ left' = [left EXCEPT ![p] = @ - 1]
    /\ UNCHANGED <<nread, readopen, writeopen, lock, killed, pc>>
    /\ UNCHANGED fileVars

\* All written, or copyin() failed: wake the readers, return i.
WriteDone(p) ==
    /\ pc[p] = "w_test"
    /\ left[p] = 0 \/ (readopen /\ ~killed[p] /\ ~Full)
    /\ pc' = WakeReaders(p, "out")
    /\ Return(p)
    /\ UNCHANGED killed /\ UNCHANGED pipeVars /\ UNCHANGED fileVars

-----------------------------------------------------------------------------
(* piperead()                                                              *)

ReadGiveUp(p) ==
    /\ pc[p] = "r_test"
    /\ Empty /\ writeopen /\ killed[p]
    /\ Return(p)
    /\ Goto(p, "out")
    /\ UNCHANGED killed /\ UNCHANGED pipeVars /\ UNCHANGED fileVars

ReadEmpty(p) ==
    /\ pc[p] = "r_test"
    /\ Empty /\ writeopen /\ ~killed[p]
    /\ Goto(p, "r_sleep")
    /\ UNCHANGED <<lock, killed, left>> /\ UNCHANGED pipeVars /\ UNCHANGED fileVars

ReadStart(p) ==
    /\ pc[p] = "r_test"
    /\ ~(Empty /\ writeopen)
    /\ Goto(p, "r_copy")
    /\ UNCHANGED <<lock, killed, left>> /\ UNCHANGED pipeVars /\ UNCHANGED fileVars

ReadByte(p) ==
    /\ pc[p] = "r_copy" /\ left[p] > 0 /\ ~Empty
    /\ nread' = Inc(nread)
    /\ left' = [left EXCEPT ![p] = @ - 1]
    /\ UNCHANGED <<data, nwrite, readopen, writeopen, lock, killed, pc>>
    /\ UNCHANGED fileVars

\* copyout() fails: the byte is gone from the pipe all the same.
ReadFault(p) ==
    /\ pc[p] = "r_copy" /\ left[p] > 0 /\ ~Empty
    /\ nread' = Inc(nread)
    /\ pc' = WakeWriters(p, "out")
    /\ Return(p)
    /\ UNCHANGED <<data, nwrite, readopen, writeopen, killed>>
    /\ UNCHANGED fileVars

ReadDone(p) ==
    /\ pc[p] = "r_copy"
    /\ left[p] = 0 \/ Empty
    /\ pc' = WakeWriters(p, "out")
    /\ Return(p)
    /\ UNCHANGED killed /\ UNCHANGED pipeVars /\ UNCHANGED fileVars

-----------------------------------------------------------------------------
(* filedup(), fileclose() and pipeclose()                                  *)

\* fork(): q is a new process with p's end open.
Fork(p, q) ==
    /\ pc[p] = "out" /\ p \in holds
    /\ pc[q] = "out" /\ q \notin holds /\ End(q) = End(p)
    /\ fref' = [fref EXCEPT ![End(p)] = @ + 1]
    /\ holds' = holds \cup {q}
    /\ killed' = [killed EXCEPT ![q] = FALSE]
    /\ UNCHANGED <<lock, freed, pc, left>> /\ UNCHANGED pipeVars

\* Faulty variant: fileclose() goes on to pipeclose() whatever f->ref is.
CloseEarly(p) ==
    /\ pc[p] = "out" /\ p \in holds
    /\ holds' = holds \ {p}
    /\ fref' = [fref EXCEPT ![End(p)] = @ - 1]
    /\ Goto(p, "closing")
    /\ UNCHANGED <<lock, freed, killed, left>> /\ UNCHANGED pipeVars

\* fileclose(), of close() or exit(): only the last reference goes on to
\* pipeclose().
Close(p) ==
    /\ pc[p] = "out" /\ p \in holds
    /\ holds' = holds \ {p}
    /\ fref' = [fref EXCEPT ![End(p)] = @ - 1]
    /\ Goto(p, IF fref[End(p)] > 1 THEN "out" ELSE "closing")
    /\ UNCHANGED <<lock, freed, killed, left>> /\ UNCHANGED pipeVars

PipeClose(p) ==
    /\ pc[p] = "closing"
    /\ lock = None
    /\ IF p \in Writers
         THEN /\ writeopen' = FALSE
              /\ pc' = WakeReaders(p, "out")
              /\ UNCHANGED readopen
         ELSE /\ readopen' = FALSE
              /\ pc' = WakeWriters(p, "out")
              /\ UNCHANGED writeopen
    /\ freed' = IF readopen' \/ writeopen' THEN freed ELSE freed + 1
    /\ UNCHANGED <<data, nread, nwrite, lock, fref, holds, killed, left>>

\* kill(p): sets killed and wakes p if it sleeps.
Kill(p) ==
    /\ p \in Killable /\ ~killed[p]
    /\ killed' = [killed EXCEPT ![p] = TRUE]
    /\ pc' = [pc EXCEPT ![p] = IF @ = "r_asleep" THEN "r_lock"
                               ELSE IF @ = "w_asleep" THEN "w_lock" ELSE @]
    /\ UNCHANGED <<lock, left>> /\ UNCHANGED pipeVars /\ UNCHANGED fileVars

-----------------------------------------------------------------------------
Write(p) == WriteGiveUp(p) \/ WriteFull(p) \/ WriteByte(p) \/ WriteDone(p)
Read(p) ==
    \/ ReadGiveUp(p) \/ ReadEmpty(p) \/ ReadStart(p)
    \/ ReadByte(p) \/ ReadFault(p) \/ ReadDone(p)

Step(p) == Acquire(p) \/ Sleep(p) \/ Write(p) \/ Read(p) \/ PipeClose(p)

Next ==
    \E p \in Procs :
        Call(p) \/ Step(p) \/ Close(p) \/ Kill(p) \/ \E q \in Procs : Fork(p, q)

Spec == Init /\ [][Next]_vars

-----------------------------------------------------------------------------
(* Properties.                                                             *)

Count == (nwrite + UINT - nread) % UINT

\* The bytes in the ring, oldest first.
Queue == [k \in 1 .. Count |-> data[(nread + k - 1) % PIPESIZE]]

\* The ring buffer with its wrapping counters is a bounded FIFO of bytes, with
\* readers and writers coming, going and (those of Killable) being killed.
Stream == INSTANCE ByteStream WITH Capacity <- PIPESIZE, queue <- Queue

IsByteStream == Stream!Spec

\* The page is freed once, when nobody has an end open or is inside the pipe
\* code, so no one touches the pipe after kfree(); and an end is open in the pipe
\* as long as a process holds it, of which f->ref is the count.
NoUseAfterFree ==
    /\ freed <= 1
    /\ freed = 1 => lock = None /\ holds = {} /\ \A p \in Procs : pc[p] = "out"
    /\ fref["read"] = Cardinality(holds \cap Readers)
    /\ fref["write"] = Cardinality(holds \cap Writers)
    /\ fref["read"] > 0 => readopen
    /\ fref["write"] > 0 => writeopen

\* Nobody sleeps through a chance to go on: with the lock free, a sleeping writer
\* means a full pipe with its read end open, and a sleeping reader (in the loop
\* marked "pipe-empty") an empty one with its write end open.  Writers that are
\* killed are left out: they return without the wakeup.
SleepersBlocked ==
    lock = None =>
        /\ \A w \in Writers : pc[w] = "w_asleep" => Full /\ readopen
        /\ \A r \in Readers : pc[r] = "r_asleep" => Empty /\ writeopen
=============================================================================
