------------------------------- MODULE Virtio -------------------------------
(***************************************************************************)
(* The disk driver, kernel/virtio_disk.c: descriptor chains, the avail and *)
(* used rings shared with the device, and the completion interrupt.        *)
(*                                                                         *)
(* A buffer stands for the process that has it locked and for the block it *)
(* holds: the cache has one buffer for a block, whose lock is held during  *)
(* the call, so that requests in progress have different processes,        *)
(* buffers and blocks.  A stretch of driver code under vdisk_lock is one   *)
(* action, except for the interrupt handler: the device goes on while the  *)
(* handler runs.  The device takes chains in the order of the avail ring   *)
(* and finishes them in any order.  sleep() and wakeup() are one step each *)
(* (SleepLock.tla).                                                        *)
(***************************************************************************)
EXTENDS Naturals, Sequences, FiniteSets

CONSTANTS
    Bufs,       \* buffers, each with its block
    Vals, InitVal,
    NUM,        \* descriptors, and entries of each ring
    UINT16,     \* number of values of a uint16
    None

ASSUME VirtioConstants ==
    /\ NUM \in Nat /\ NUM >= 3
    /\ UINT16 \in Nat /\ UINT16 > NUM /\ UINT16 % NUM = 0
    /\ InitVal \in Vals
    /\ None \notin Bufs /\ None \notin Nat

VARIABLES
    free,               \* disk.free[]: the free descriptors
    next,               \* disk.desc[i].next, None without VRING_DESC_F_NEXT
    info,               \* disk.info[i].b
    status,             \* disk.info[i].status: 255 until the device writes 0
    availRing, availIdx,    \* disk.avail; None in an entry without meaning
    usedRing, usedIdx,      \* disk.used, written by the device; likewise
    used_idx,           \* disk.used_idx: how far the driver has looked
    seen, inDevice,     \* device: how far it has looked at avail; its work
    interrupt,          \* the device's interrupt is raised
    handling,           \* virtio_disk_intr() is running, with vdisk_lock
    pc, head,           \* where the process is; idx[0] of its request
    busy,               \* b->disk
    req, data,          \* the request and b->data; no meaning between calls
    disk

driverVars == <<free, next, info, used_idx, availIdx>>
deviceVars == <<usedIdx, seen, inDevice, disk>>
rings == <<availRing, usedRing>>
vars == <<free, next, info, status, availRing, availIdx, usedRing, usedIdx,
          used_idx, seen, inDevice, interrupt, handling, pc, head, busy, req,
          data, disk>>

Descs == 0 .. NUM - 1
Requests == {"read", "write"}

TypeOK ==
    /\ free \subseteq Descs
    /\ next \in [Descs -> Descs \cup {None}]
    /\ info \in [Descs -> Bufs \cup {None}]
    /\ status \in [Descs -> {0, 255}]
    /\ availRing \in [Descs -> Descs \cup {None}]
    /\ usedRing \in [Descs -> Descs \cup {None}]
    /\ {availIdx, usedIdx, used_idx, seen} \subseteq 0 .. UINT16 - 1
    /\ inDevice \subseteq Descs
    /\ interrupt \in BOOLEAN /\ handling \in BOOLEAN
    /\ pc \in [Bufs -> {"out", "alloc", "asleep", "wait", "woken"}]
    /\ head \in [Bufs -> Descs \cup {None}]
    /\ busy \in [Bufs -> BOOLEAN]
    /\ req \in [Bufs -> Requests \cup {None}]
    /\ data \in [Bufs -> Vals]
    /\ disk \in [Bufs -> Vals]

\* virtio_disk_init()
Init ==
    /\ free = Descs
    /\ next = [i \in Descs |-> None]
    /\ info = [i \in Descs |-> None]
    /\ status = [i \in Descs |-> 0]
    /\ availRing = [i \in Descs |-> None] /\ usedRing = [i \in Descs |-> None]
    /\ availIdx = 0 /\ usedIdx = 0 /\ used_idx = 0 /\ seen = 0
    /\ inDevice = {}
    /\ interrupt = FALSE /\ handling = FALSE
    /\ pc = [b \in Bufs |-> "out"]
    /\ head = [b \in Bufs |-> None]
    /\ busy = [b \in Bufs |-> FALSE]
    /\ req = [b \in Bufs |-> None]
    /\ data = [b \in Bufs |-> InitVal]
    /\ disk = [b \in Bufs |-> InitVal]

Inc(x) == (x + 1) % UINT16

\* alloc_desc() takes the free descriptor with the lowest number.
Lowest(S) == CHOOSE i \in S : \A j \in S : i <= j
Idx0 == Lowest(free)
Idx1 == Lowest(free \ {Idx0})
Idx2 == Lowest(free \ {Idx0, Idx1})

\* wakeup(&disk.free[0]), on the pcs in f.
WakeAllocators(f) == [c \in Bufs |-> IF f[c] = "asleep" THEN "alloc" ELSE f[c]]

\* Faulty variant: only the first descriptor is given back.
ChainHead(i) == {i}

\* The descriptors free_chain(i) gives back; a chain has at most three.
Chain(i) ==
    LET j == next[i] IN
    IF j = None THEN {i}
    ELSE IF next[j] = None THEN {i, j} ELSE {i, j, next[j]}

-----------------------------------------------------------------------------
(* virtio_disk_rw()                                                        *)

\* Called by the buffer cache.  What is in the buffer matters only to a write.
Call(b) ==
    /\ pc[b] = "out"
    /\ \E r \in Requests, v \in Vals :
          /\ r = "write" \/ v = InitVal
          /\ req' = [req EXCEPT ![b] = r]
          /\ data' = [data EXCEPT ![b] = v]
    /\ pc' = [pc EXCEPT ![b] = "alloc"]
    /\ UNCHANGED <<status, interrupt, handling, head, busy>>
    /\ UNCHANGED driverVars /\ UNCHANGED deviceVars /\ UNCHANGED rings

\* alloc3_desc() fails: what it got is given back, with a wakeup for each.
AllocFails(b) ==
    /\ pc[b] = "alloc" /\ ~handling
    /\ Cardinality(free) < 3
    /\ pc' = LET woken == IF free = {} THEN pc ELSE WakeAllocators(pc)
             IN  [woken EXCEPT ![b] = "asleep"]
    /\ next' = [i \in Descs |-> IF i \in free THEN None ELSE next[i]]
    /\ UNCHANGED <<free, info, used_idx, availIdx>> /\ UNCHANGED rings
    /\ UNCHANGED <<status, interrupt, handling, head, busy, req, data>>
    /\ UNCHANGED deviceVars

\* Three descriptors: format the chain, put it in the avail ring, notify, and
\* sleep, since b->disk was just set.
Submit(b) ==
    /\ pc[b] = "alloc" /\ ~handling
    /\ Cardinality(free) >= 3
    /\ free' = free \ {Idx0, Idx1, Idx2}
    /\ next' = [next EXCEPT ![Idx0] = Idx1, ![Idx1] = Idx2, ![Idx2] = None]
    /\ info' = [info EXCEPT ![Idx0] = b]
    /\ status' = [status EXCEPT ![Idx0] = 255]
    /\ busy' = [busy EXCEPT ![b] = TRUE]
    /\ head' = [head EXCEPT ![b] = Idx0]
    /\ availRing' = [availRing EXCEPT ![availIdx % NUM] = Idx0]
    /\ availIdx' = Inc(availIdx)
    /\ pc' = [pc EXCEPT ![b] = "wait"]
    /\ UNCHANGED <<usedRing, used_idx, interrupt, handling, req, data>>
    /\ UNCHANGED deviceVars

\* Woken while the transfer is still going on (kill() wakes it): sleep again.
SleepAgain(b) ==
    /\ pc[b] = "woken" /\ ~handling
    /\ busy[b]
    /\ pc' = [pc EXCEPT ![b] = "wait"]
    /\ UNCHANGED <<status, interrupt, handling, head, busy, req, data>>
    /\ UNCHANGED driverVars /\ UNCHANGED deviceVars /\ UNCHANGED rings

\* Faulty variant: b->disk is not tested again after the sleep.
FinishUntested(b) ==
    /\ pc[b] = "woken" /\ ~handling
    /\ info' = [info EXCEPT ![head[b]] = None]
    /\ free' = free \cup Chain(head[b])
    /\ next' = [i \in Descs |-> IF i \in Chain(head[b]) THEN None ELSE next[i]]
    /\ head' = [head EXCEPT ![b] = None]
    /\ pc' = WakeAllocators([pc EXCEPT ![b] = "out"])
    /\ req' = [req EXCEPT ![b] = None]
    /\ data' = [data EXCEPT ![b] = InitVal]
    /\ UNCHANGED <<status, used_idx, availIdx, interrupt, handling, busy>>
    /\ UNCHANGED deviceVars /\ UNCHANGED rings

\* The transfer is done: free_chain(idx[0]) and return.
Finish(b) ==
    /\ pc[b] = "woken" /\ ~handling
    /\ ~busy[b]
    /\ info' = [info EXCEPT ![head[b]] = None]
    /\ free' = free \cup Chain(head[b])
    /\ next' = [i \in Descs |-> IF i \in Chain(head[b]) THEN None ELSE next[i]]
    /\ head' = [head EXCEPT ![b] = None]
    /\ pc' = WakeAllocators([pc EXCEPT ![b] = "out"])
    /\ req' = [req EXCEPT ![b] = None]
    /\ data' = [data EXCEPT ![b] = InitVal]
    /\ UNCHANGED <<status, used_idx, availIdx, interrupt, handling, busy>>
    /\ UNCHANGED deviceVars /\ UNCHANGED rings

\* kill() wakes a process that sleeps in the driver.
Kill(b) ==
    /\ pc[b] \in {"asleep", "wait"}
    /\ pc' = [pc EXCEPT ![b] = IF @ = "asleep" THEN "alloc" ELSE "woken"]
    /\ UNCHANGED <<status, interrupt, handling, head, busy, req, data>>
    /\ UNCHANGED driverVars /\ UNCHANGED deviceVars /\ UNCHANGED rings

-----------------------------------------------------------------------------
(* virtio_disk_intr()                                                      *)

\* Takes vdisk_lock and acknowledges the interrupt.
IntrAck ==
    /\ interrupt /\ ~handling
    /\ handling' = TRUE
    /\ interrupt' = FALSE
    /\ UNCHANGED <<status, pc, head, busy, req, data>>
    /\ UNCHANGED driverVars /\ UNCHANGED deviceVars /\ UNCHANGED rings

\* panic("virtio_disk_intr status"), which leaves vdisk_lock held for ever: for the
\* id in the used ring the device has not written the status byte.
StatusPanic == status[usedRing[used_idx % NUM]] # 0

IntrOne ==
    LET b == info[usedRing[used_idx % NUM]] IN
    /\ handling
    /\ used_idx # usedIdx
    /\ ~StatusPanic
    /\ busy' = [busy EXCEPT ![b] = FALSE]
    /\ pc' = [pc EXCEPT ![b] = IF @ = "wait" THEN "woken" ELSE @]
    /\ usedRing' = [usedRing EXCEPT ![used_idx % NUM] = None]
    /\ used_idx' = Inc(used_idx)
    /\ UNCHANGED <<free, next, info, availRing, availIdx>>
    /\ UNCHANGED <<status, interrupt, handling, head, req, data>>
    /\ UNCHANGED deviceVars

\* Faulty variant: an if in place of the while.
IntrEndEarly ==
    /\ handling
    /\ handling' = FALSE
    /\ UNCHANGED <<status, interrupt, pc, head, busy, req, data>>
    /\ UNCHANGED driverVars /\ UNCHANGED deviceVars /\ UNCHANGED rings

IntrEnd ==
    /\ handling
    /\ used_idx = usedIdx
    /\ handling' = FALSE
    /\ UNCHANGED <<status, interrupt, pc, head, busy, req, data>>
    /\ UNCHANGED driverVars /\ UNCHANGED deviceVars /\ UNCHANGED rings

-----------------------------------------------------------------------------
(* The device.                                                             *)

DeviceTake ==
    /\ seen # availIdx
    /\ inDevice' = inDevice \cup {availRing[seen % NUM]}
    /\ availRing' = [availRing EXCEPT ![seen % NUM] = None]
    /\ seen' = Inc(seen)
    /\ UNCHANGED <<usedRing, usedIdx, disk>>
    /\ UNCHANGED <<status, interrupt, handling, pc, head, busy, req, data>>
    /\ UNCHANGED driverVars

\* The transfer, the status byte, the used ring, the interrupt.
DeviceDo(i) ==
    LET b == info[i] IN
    /\ i \in inDevice
    /\ inDevice' = inDevice \ {i}
    /\ IF req[b] = "write"
         THEN /\ disk' = [disk EXCEPT ![b] = data[b]]
              /\ UNCHANGED data
         ELSE /\ data' = [data EXCEPT ![b] = disk[b]]
              /\ UNCHANGED disk
    /\ status' = [status EXCEPT ![i] = 0]
    /\ usedRing' = [usedRing EXCEPT ![usedIdx % NUM] = i]
    /\ usedIdx' = Inc(usedIdx)
    /\ interrupt' = TRUE
    /\ UNCHANGED <<availRing, seen, handling, pc, head, busy, req>>
    /\ UNCHANGED driverVars

-----------------------------------------------------------------------------
Rw(b) == AllocFails(b) \/ Submit(b) \/ SleepAgain(b) \/ Finish(b)
Intr == IntrAck \/ IntrOne \/ IntrEnd
Device == DeviceTake \/ \E i \in Descs : DeviceDo(i)

Next == Intr \/ Device \/ \E b \in Bufs : Call(b) \/ Rw(b) \/ Kill(b)

Spec == Init /\ [][Next]_vars

-----------------------------------------------------------------------------
(* Properties.                                                             *)

InFlight == {b \in Bufs : pc[b] \in {"wait", "woken"}}

\* How far the request in b has come, for the caller.
Stage(b) ==
    IF pc[b] = "out" THEN "idle"
    ELSE IF head[b] # None /\ status[head[b]] = 0 THEN "done" ELSE "asked"

\* Each request is carried out exactly once between call and return, whatever
\* the order of completions and the wrapping of the ring indices.
AbstractDevice == INSTANCE BlockDevice WITH stage <- [b \in Bufs |-> Stage(b)]

ImplementsBlockDevice == AbstractDevice!Spec

\* free_desc() never panics and no descriptor leaks: the descriptors that are
\* not free are those of the chains in flight, three for each, none shared.
DescriptorsAccounted ==
    /\ \A b \in InFlight : Cardinality(Chain(head[b])) = 3
    /\ \A b, c \in InFlight : b # c => Chain(head[b]) \cap Chain(head[c]) = {}
    /\ Descs \ free = UNION {Chain(head[b]) : b \in InFlight}

\* Nobody waits for what has happened: when the handler is not running and no
\* interrupt is raised, the driver has seen everything in the used ring (it
\* acknowledges the interrupt before it looks), nobody sleeps for descriptors
\* while three are free, nor for a transfer that the handler has marked done; and
\* the handler never panics on the way, on an id whose chain was given out again.
NobodyForgotten ==
    /\ ~interrupt /\ ~handling => used_idx = usedIdx
    /\ (\E b \in Bufs : pc[b] = "asleep") => Cardinality(free) < 3
    /\ \A b \in Bufs : pc[b] = "wait" => busy[b]
    /\ handling /\ used_idx # usedIdx => ~StatusPanic
=============================================================================
