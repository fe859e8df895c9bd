------------------------------ MODULE BufCache ------------------------------
(***************************************************************************)
(* The buffer cache, kernel/bio.c: NBUF buffers for the blocks of a larger *)
(* disk, an LRU list, reference counts, and a sleep lock per buffer.       *)
(*                                                                         *)
(* Each process uses one buffer at a time: bread, any number of changes,   *)
(* each made to last by a bwrite or by a bpin (log_write) before the       *)
(* buffer is released, brelse.  A stretch of code under bcache.lock is one *)
(* action; the sleep lock is taken and released in one step each           *)
(* (SleepLock.tla).  The disk transfer of bread and bwrite happens with    *)
(* the buffer locked and is one step.                                      *)
(***************************************************************************)
EXTENDS Naturals, Sequences, FiniteSets

CONSTANTS
    Procs,
    Bufs,       \* bcache.buf[]
    Blocks,     \* block numbers (of the one device)
    Vals, InitVal,
    None

ASSUME BufCacheConstants ==
    /\ InitVal \in Vals
    /\ None \notin Procs \cup Bufs \cup Blocks
    /\ IsFiniteSet(Procs) /\ IsFiniteSet(Bufs)

VARIABLES
    blockno, valid, refcnt, data,   \* fields of struct buf
    lock,       \* lock[b]: the process that holds b->lock
    lru,        \* the list, from head.next (most recent) to head.prev
    pinned,     \* buffers on which log_write() has called bpin()
    dirty,      \* buffers changed by their holder and neither written nor pinned
    disk,       \* contents of the disk
    pc, buf,    \* where each process is, and the buffer it is using
    want,       \* the block it asked for
    panicked    \* panic("bget: no buffers"): a process spins for ever in bget()
                \* with bcache.lock held

bufVars == <<blockno, valid, refcnt, data, lock, lru, pinned, dirty>>
vars == <<blockno, valid, refcnt, data, lock, lru, pinned, dirty, disk,
          pc, buf, want, panicked>>

\* The orders of the list: every buffer is in it once.
Orders ==
    {s \in [1 .. Cardinality(Bufs) -> Bufs] : Bufs = {s[i] : i \in DOMAIN s}}

TypeOK ==
    /\ blockno \in [Bufs -> Blocks \cup {None}]
    /\ valid \in [Bufs -> BOOLEAN]
    /\ refcnt \in [Bufs -> Nat]
    /\ data \in [Bufs -> Vals]
    /\ lock \in [Bufs -> Procs \cup {None}]
    /\ lru \in Orders
    /\ pinned \subseteq Bufs /\ dirty \subseteq Bufs
    /\ disk \in [Blocks -> Vals]
    /\ pc \in [Procs -> {"out", "lock", "read", "held", "relse"}]
    /\ buf \in [Procs -> Bufs \cup {None}]
    /\ want \in [Procs -> Blocks \cup {None}]
    /\ panicked \in BOOLEAN

\* binit(); the order in which the buffers lie in memory is arbitrary.
Init ==
    /\ blockno = [b \in Bufs |-> None]
    /\ valid = [b \in Bufs |-> FALSE]
    /\ refcnt = [b \in Bufs |-> 0]
    /\ data = [b \in Bufs |-> InitVal]
    /\ lock = [b \in Bufs |-> None]
    /\ lru \in Orders
    /\ pinned = {} /\ dirty = {}
    /\ disk = [k \in Blocks |-> InitVal]
    /\ pc = [p \in Procs |-> "out"]
    /\ buf = [p \in Procs |-> None]
    /\ want = [p \in Procs |-> None]
    /\ panicked = FALSE

Cached(k) == \E b \in Bufs : blockno[b] = k

\* The buffer the second loop of bget() stops at: the last unused one in lru.
Victim ==
    lru[CHOOSE i \in DOMAIN lru :
            /\ refcnt[lru[i]] = 0
            /\ \A j \in DOMAIN lru : j > i => refcnt[lru[j]] # 0]

\* b leaves its place, and those before it move up by one.
MoveToHead(b) ==
    LET at == CHOOSE i \in DOMAIN lru : lru[i] = b
    IN  [i \in DOMAIN lru |-> IF i = 1 THEN b
                             ELSE IF i <= at THEN lru[i - 1] ELSE lru[i]]

-----------------------------------------------------------------------------
(* bread() and bget()                                                      *)

\* The block is cached: b->refcnt++.
BGetHit(p, k, b) ==
    /\ pc[p] = "out" /\ ~panicked
    /\ blockno[b] = k
    /\ refcnt' = [refcnt EXCEPT ![b] = @ + 1]
    /\ pc' = [pc EXCEPT ![p] = "lock"]
    /\ buf' = [buf EXCEPT ![p] = b]
    /\ want' = [want EXCEPT ![p] = k]
    /\ UNCHANGED <<blockno, valid, data, lock, lru, pinned, dirty, disk, panicked>>

\* Faulty variant: the recycled buffer keeps its valid flag.
BGetMissValid(p, k) ==
    /\ pc[p] = "out" /\ ~panicked
    /\ ~Cached(k)
    /\ \E b \in Bufs : refcnt[b] = 0
    /\ LET b == Victim IN
         /\ blockno' = [blockno EXCEPT ![b] = k]
         /\ refcnt' = [refcnt EXCEPT ![b] = 1]
         /\ buf' = [buf EXCEPT ![p] = b]
    /\ pc' = [pc EXCEPT ![p] = "lock"]
    /\ want' = [want EXCEPT ![p] = k]
    /\ UNCHANGED <<valid, data, lock, lru, pinned, dirty, disk, panicked>>

\* Not cached: recycle the least recently used unused buffer.
BGetMiss(p, k) ==
    /\ pc[p] = "out" /\ ~panicked
    /\ ~Cached(k)
    /\ \E b \in Bufs : refcnt[b] = 0
    /\ LET b == Victim IN
         /\ blockno' = [blockno EXCEPT ![b] = k]
         /\ valid' = [valid EXCEPT ![b] = FALSE]
         /\ refcnt' = [refcnt EXCEPT ![b] = 1]
         /\ buf' = [buf EXCEPT ![p] = b]
    /\ pc' = [pc EXCEPT ![p] = "lock"]
    /\ want' = [want EXCEPT ![p] = k]
    /\ UNCHANGED <<data, lock, lru, pinned, dirty, disk, panicked>>

BGetPanic(p, k) ==
    /\ pc[p] = "out" /\ ~panicked
    /\ ~Cached(k)
    /\ \A b \in Bufs : refcnt[b] # 0
    /\ panicked' = TRUE
    /\ UNCHANGED <<disk, pc, buf, want>> /\ UNCHANGED bufVars

\* acquiresleep(&b->lock) at the end of bget().
AcquireSleep(p) ==
    /\ pc[p] = "lock"
    /\ lock[buf[p]] = None
    /\ lock' = [lock EXCEPT ![buf[p]] = p]
    /\ pc' = [pc EXCEPT ![p] = IF valid[buf[p]] THEN "held" ELSE "read"]
    /\ UNCHANGED <<blockno, valid, refcnt, data, lru, pinned, dirty, disk,
                   buf, want, panicked>>

\* bread(): virtio_disk_rw(b, 0); b->valid = 1.
ReadDisk(p) ==
    /\ pc[p] = "read"
    /\ data' = [data EXCEPT ![buf[p]] = disk[blockno[buf[p]]]]
    /\ valid' = [valid EXCEPT ![buf[p]] = TRUE]
    /\ pc' = [pc EXCEPT ![p] = "held"]
    /\ UNCHANGED <<blockno, refcnt, lock, lru, pinned, dirty, disk, buf, want, panicked>>

-----------------------------------------------------------------------------
(* What the holder of a buffer does with it.                               *)

Modify(p, v) ==
    /\ pc[p] = "held"
    /\ data' = [data EXCEPT ![buf[p]] = v]
    /\ dirty' = dirty \cup ({buf[p]} \ pinned)
    /\ UNCHANGED <<blockno, valid, refcnt, lock, lru, pinned, disk, pc, buf,
                   want, panicked>>

\* bwrite()
BWrite(p) ==
    /\ pc[p] = "held"
    /\ disk' = [disk EXCEPT ![blockno[buf[p]]] = data[buf[p]]]
    /\ dirty' = dirty \ {buf[p]}
    /\ UNCHANGED <<blockno, valid, refcnt, data, lock, lru, pinned, pc, buf,
                   want, panicked>>

\* Faulty variant: the pin takes no reference.
BPinNoRef(p) ==
    /\ pc[p] = "held" /\ ~panicked
    /\ buf[p] \notin pinned
    /\ pinned' = pinned \cup {buf[p]}
    /\ dirty' = dirty \ {buf[p]}
    /\ UNCHANGED <<blockno, valid, refcnt, data, lock, lru, disk, pc, buf, want, panicked>>

\* bpin(), called by log_write() for a block that is not in the log yet.
BPin(p) ==
    /\ pc[p] = "held" /\ ~panicked
    /\ buf[p] \notin pinned
    /\ refcnt' = [refcnt EXCEPT ![buf[p]] = @ + 1]
    /\ pinned' = pinned \cup {buf[p]}
    /\ dirty' = dirty \ {buf[p]}
    /\ UNCHANGED <<blockno, valid, data, lock, lru, disk, pc, buf, want, panicked>>

\* bwrite() and bunpin() of install_trans(), with the buffer locked.
BWriteUnpin(p) ==
    /\ pc[p] = "held" /\ ~panicked
    /\ buf[p] \in pinned
    /\ disk' = [disk EXCEPT ![blockno[buf[p]]] = data[buf[p]]]
    /\ refcnt' = [refcnt EXCEPT ![buf[p]] = @ - 1]
    /\ pinned' = pinned \ {buf[p]}
    /\ UNCHANGED <<blockno, valid, data, lock, lru, dirty, pc, buf, want, panicked>>

-----------------------------------------------------------------------------
(* brelse()                                                                *)

ReleaseSleep(p) ==
    /\ pc[p] = "held"
    /\ buf[p] \notin dirty
    /\ lock' = [lock EXCEPT ![buf[p]] = None]
    /\ pc' = [pc EXCEPT ![p] = "relse"]
    /\ UNCHANGED <<blockno, valid, refcnt, data, lru, pinned, dirty, disk,
                   buf, want, panicked>>

Unref(p) ==
    /\ pc[p] = "relse" /\ ~panicked
    /\ refcnt' = [refcnt EXCEPT ![buf[p]] = @ - 1]
    /\ lru' = IF refcnt[buf[p]] = 1 THEN MoveToHead(buf[p]) ELSE lru
    /\ pc' = [pc EXCEPT ![p] = "out"]
    /\ buf' = [buf EXCEPT ![p] = None]
    /\ want' = [want EXCEPT ![p] = None]
    /\ UNCHANGED <<blockno, valid, data, lock, pinned, dirty, disk, panicked>>

-----------------------------------------------------------------------------
Next ==
    \E p \in Procs :
        \/ \E k \in Blocks :
              \/ BGetMiss(p, k) \/ BGetPanic(p, k)
              \/ \E b \in Bufs : BGetHit(p, k, b)
        \/ AcquireSleep(p) \/ ReadDisk(p)
        \/ \E v \in Vals : Modify(p, v)
        \/ BWrite(p) \/ BPin(p) \/ BWriteUnpin(p)
        \/ ReleaseSleep(p) \/ Unref(p)

Spec == Init /\ [][Next]_vars

-----------------------------------------------------------------------------
(* Properties.                                                             *)

\* refcnt counts exactly the processes that use the buffer and the log's pin, so
\* that the buffer a process has from bget() is not recycled under it before
\* brelse(), and a block is in at most one buffer, shared by all its users.
RefcntExact ==
    /\ \A b \in Bufs :
        refcnt[b] = Cardinality({p \in Procs : buf[p] = b})
                        + (IF b \in pinned THEN 1 ELSE 0)
    /\ \A p \in Procs : buf[p] # None => blockno[buf[p]] = want[p]
    /\ \A b, c \in Bufs : blockno[b] = blockno[c] /\ blockno[b] # None => b = c

Holders(k) == {p \in Procs : want[p] = k /\ pc[p] \in {"read", "held"}}

Owner(k) ==
    IF Holders(k) = {} THEN None ELSE CHOOSE p \in Procs : p \in Holders(k)

Copies(k) == {b \in Bufs : blockno[b] = k /\ valid[b]}

Contents(k) ==
    IF Copies(k) = {} THEN disk[k] ELSE data[CHOOSE b \in Bufs : b \in Copies(k)]

\* The cache implements an array of individually locked blocks: no update is
\* lost by recycling a buffer, and nobody sees a stale block.
Store == INSTANCE BlockStore WITH
    contents <- [k \in Blocks |-> Contents(k)],
    owner <- [k \in Blocks |-> Owner(k)]

ImplementsBlockStore == Store!Spec
=============================================================================
