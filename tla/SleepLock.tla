----------------------------- MODULE SleepLock -----------------------------
(***************************************************************************)
(* One sleep lock (kernel/sleeplock.c) on top of sleep() and wakeup()      *)
(* (kernel/proc.c), at the granularity of the spinlocks involved: the      *)
(* lock's own spinlock lk, and p->lock of every process.                   *)
(*                                                                         *)
(* sleep() must not lose a wakeup that comes between its decision to sleep *)
(* and the moment it is asleep; it relies on taking p->lock before letting *)
(* go of lk, and on wakeup() taking p->lock of every process while its     *)
(* caller holds lk.  All other modules use sleep and wakeup as one step    *)
(* each; this module is where that is justified.                           *)
(*                                                                         *)
(* A process that called sched() keeps its p->lock until the scheduler of  *)
(* its CPU has left the process's stack and releases it; a process that is *)
(* resumed starts with its p->lock held, taken by the scheduler.           *)
(***************************************************************************)
CONSTANTS Procs, None

ASSUME NoneNotProc == None \notin Procs

VARIABLES
    pc,         \* where each process is, see PCs
    state,      \* p->state: "RUNNING", "RUNNABLE", "SLEEPING"
    plock,      \* plock[p]: who holds p->lock, p standing for its own CPU too
    lk,         \* who holds lk->lk
    locked,     \* lk->locked
    pid,        \* lk->pid, None for 0
    todo        \* todo[p]: the processes p's wakeup() has not looked at yet

vars == <<pc, state, plock, lk, locked, pid, todo>>

PCs == {"out",          \* not using the lock
        "acquire",      \* at an acquire(&lk->lk) of acquiresleep()
        "test",         \* holds lk, at the while (lk->locked)
        "sleep",        \* in sleep(), about to acquire(&p->lock)
        "release",      \* in sleep(), holds both locks, about to release(lk)
        "sched",        \* in sleep(), holds p->lock, about to be SLEEPING
        "asleep",       \* switched out in sleep()'s sched(), or on its way
        "in",           \* acquiresleep() has returned
        "unlock",       \* at releasesleep()'s acquire(&lk->lk)
        "wakeup"}       \* in releasesleep()'s wakeup(), holds lk

TypeOK ==
    /\ pc \in [Procs -> PCs]
    /\ state \in [Procs -> {"RUNNING", "RUNNABLE", "SLEEPING"}]
    /\ plock \in [Procs -> Procs \cup {None}]
    /\ lk \in Procs \cup {None}
    /\ locked \in BOOLEAN
    /\ pid \in Procs \cup {None}
    /\ todo \in [Procs -> SUBSET Procs]
    /\ \A p \in Procs : p \notin todo[p]     \* wakeup() leaves its caller out

\* initsleeplock()
Init ==
    /\ pc = [p \in Procs |-> "out"]
    /\ state = [p \in Procs |-> "RUNNING"]
    /\ plock = [p \in Procs |-> None]
    /\ lk = None
    /\ locked = FALSE
    /\ pid = None
    /\ todo = [p \in Procs |-> {}]

Goto(p, where) == pc' = [pc EXCEPT ![p] = where]

-----------------------------------------------------------------------------
(* acquiresleep()                                                          *)

CallAcquire(p) ==
    /\ pc[p] = "out"
    /\ Goto(p, "acquire")
    /\ UNCHANGED <<state, plock, lk, locked, pid, todo>>

\* acquire(&lk->lk), first or at the end of sleep().
AcquireLk(p) ==
    /\ pc[p] = "acquire"
    /\ lk = None
    /\ lk' = p
    /\ Goto(p, "test")
    /\ UNCHANGED <<state, plock, locked, pid, todo>>

TestLocked(p) ==
    /\ pc[p] = "test"
    /\ locked
    /\ Goto(p, "sleep")
    /\ UNCHANGED <<state, plock, lk, locked, pid, todo>>

\* Faulty variant: lk->locked is not tested again.
TakeLockUntested(p) ==
    /\ pc[p] = "test"
    /\ locked' = TRUE
    /\ pid' = p
    /\ lk' = None
    /\ Goto(p, "in")
    /\ UNCHANGED <<state, plock, todo>>

TakeLock(p) ==
    /\ pc[p] = "test"
    /\ ~locked
    /\ locked' = TRUE
    /\ pid' = p
    /\ lk' = None
    /\ Goto(p, "in")
    /\ UNCHANGED <<state, plock, todo>>

-----------------------------------------------------------------------------
(* sleep(lk, &lk->lk)                                                      *)

\* Faulty variant: sleep() lets go of lk before it has p->lock.
SleepAcquireLate(p) ==
    /\ pc[p] = "sleep"
    /\ Goto(p, "release")
    /\ lk' = None
    /\ UNCHANGED <<state, plock, locked, pid, todo>>

SleepAcquire(p) ==
    /\ pc[p] = "sleep"
    /\ plock[p] = None
    /\ plock' = [plock EXCEPT ![p] = p]
    /\ Goto(p, "release")
    /\ UNCHANGED <<state, lk, locked, pid, todo>>

SleepRelease(p) ==
    /\ pc[p] = "release"
    /\ lk' = None
    /\ Goto(p, "sched")
    /\ UNCHANGED <<state, plock, locked, pid, todo>>

\* chan and state are set together under p->lock: here a process is SLEEPING
\* only on this lock's channel.
SleepState(p) ==
    /\ pc[p] = "sched"
    /\ state' = [state EXCEPT ![p] = "SLEEPING"]
    /\ Goto(p, "asleep")
    /\ UNCHANGED <<plock, lk, locked, pid, todo>>

\* The scheduler, back on its own stack, releases p->lock.
SwitchedOut(p) ==
    /\ pc[p] = "asleep"
    /\ state[p] # "RUNNING"
    /\ plock[p] = p
    /\ plock' = [plock EXCEPT ![p] = None]
    /\ UNCHANGED <<pc, state, lk, locked, pid, todo>>

\* Some CPU's scheduler takes p->lock, finds p RUNNABLE and switches to it.
SwitchTo(p) ==
    /\ state[p] = "RUNNABLE"
    /\ plock[p] = None
    /\ plock' = [plock EXCEPT ![p] = p]
    /\ state' = [state EXCEPT ![p] = "RUNNING"]
    /\ UNCHANGED <<pc, lk, locked, pid, todo>>

\* Back in sleep(): p->chan = 0; release(&p->lock).
SleepReturn(p) ==
    /\ pc[p] = "asleep"
    /\ state[p] = "RUNNING"
    /\ plock' = [plock EXCEPT ![p] = None]
    /\ Goto(p, "acquire")
    /\ UNCHANGED <<state, lk, locked, pid, todo>>

-----------------------------------------------------------------------------
(* releasesleep()                                                          *)

CallRelease(p) ==
    /\ pc[p] = "in"
    /\ Goto(p, "unlock")
    /\ UNCHANGED <<state, plock, lk, locked, pid, todo>>

Unlock(p) ==
    /\ pc[p] = "unlock"
    /\ lk = None
    /\ lk' = p
    /\ locked' = FALSE
    /\ pid' = None
    /\ todo' = [todo EXCEPT ![p] = Procs \ {p}]
    /\ Goto(p, "wakeup")
    /\ UNCHANGED <<state, plock>>

\* One turn of wakeup()'s loop, under q's p->lock.
WakeupOne(p, q) ==
    /\ pc[p] = "wakeup"
    /\ q \in todo[p]
    /\ plock[q] = None
    /\ state' = [state EXCEPT ![q] = IF @ = "SLEEPING" THEN "RUNNABLE" ELSE @]
    /\ todo' = [todo EXCEPT ![p] = @ \ {q}]
    /\ UNCHANGED <<pc, plock, lk, locked, pid>>

\* Faulty variant: releasesleep() returns with lk held.
WakeupDoneHolding(p) ==
    /\ pc[p] = "wakeup"
    /\ todo[p] = {}
    /\ Goto(p, "out")
    /\ UNCHANGED <<state, plock, lk, locked, pid, todo>>

WakeupDone(p) ==
    /\ pc[p] = "wakeup"
    /\ todo[p] = {}
    /\ lk' = None
    /\ Goto(p, "out")
    /\ UNCHANGED <<state, plock, locked, pid, todo>>

\* kill(p): a sleeper becomes RUNNABLE without anyone having released the lock.
Kill(p) ==
    /\ plock[p] = None
    /\ state[p] = "SLEEPING"
    /\ state' = [state EXCEPT ![p] = "RUNNABLE"]
    /\ UNCHANGED <<pc, plock, lk, locked, pid, todo>>

-----------------------------------------------------------------------------
Step(p) ==
    \/ AcquireLk(p) \/ TestLocked(p) \/ TakeLock(p)
    \/ SleepAcquire(p) \/ SleepRelease(p) \/ SleepState(p)
    \/ SwitchedOut(p) \/ SwitchTo(p) \/ SleepReturn(p)
    \/ CallRelease(p) \/ Unlock(p) \/ WakeupDone(p)
    \/ \E q \in Procs : WakeupOne(p, q)

Next == \E p \in Procs : CallAcquire(p) \/ Step(p) \/ Kill(p)

Spec == Init /\ [][Next]_vars

\* Every CPU keeps executing, the scheduler gets round to every RUNNABLE
\* process, and whoever gets the lock releases it.  A spinlock is fair to
\* nobody: an acquire() succeeds if the lock stays free, no more is assumed.
Fairness == \A p \in Procs : WF_vars(Step(p))

FairSpec == Spec /\ Fairness

-----------------------------------------------------------------------------
(* Properties.                                                             *)

\* Between the return of acquiresleep() and releasesleep()'s store to locked,
\* a process owns the lock: locked is set and lk->pid is its own, which is what
\* holdingsleep() tests.  Hence at most one process is there.
OwnerHolds ==
    \A p \in Procs : pc[p] \in {"in", "unlock"} => locked /\ pid = p

\* No wakeup is lost: when the sleep lock is free and no one is inside lk,
\* no process is asleep, or about to be asleep, on it.
NoSleeperOnFreeLock ==
    (lk = None /\ ~locked)
        => \A p \in Procs : pc[p] # "sched" /\ state[p] # "SLEEPING"

\* A lock holder that spins in releasesleep() can be kept out of lk by a waiter
\* that is killed over and over; the liveness properties assume that ends.
KillsEnd == <>[][\A p \in Procs : ~Kill(p)]_vars

\* The lock does not stay free while processes want it, nor taken for good:
\* a process at acquiresleep() sees the lock change hands.
LockChangesHands ==
    KillsEnd => /\ (\E p \in Procs : pc[p] = "acquire") ~> locked
                /\ locked ~> ~locked
=============================================================================
