-------------------------------- MODULE Proc --------------------------------
(***************************************************************************)
(* The process table and the scheduler, kernel/proc.c: allocproc, fork,    *)
(* exit, reparent, wait, kill, yield, sleep, wakeup, sched and the per-CPU *)
(* scheduler loops, at the granularity of the locks that protect them:     *)
(* p->lock of every slot and wait_lock.                                    *)
(*                                                                         *)
(* A CPU runs either its scheduler (cproc[c] = None) or the kernel thread  *)
(* of the slot cproc[c], on that slot's kernel stack.  p->lock is handed   *)
(* over across swtch(): the scheduler takes it and the thread it switches  *)
(* to releases it; a thread that gives up the CPU takes it and the         *)
(* scheduler, once off the thread's stack, releases it.  Locks belong to   *)
(* CPUs, as in spinlock.c.                                                 *)
(*                                                                         *)
(* A stretch of code under one lock is one action; code that takes a       *)
(* second lock, or that holds a lock across a switch, is split.  pids are  *)
(* not modelled: a slot in use has its own pid, a free one has pid 0.  The *)
(* only channel is the one wait() uses, a process's own struct proc, so    *)
(* wakeup(p) can only affect p.                                            *)
(***************************************************************************)
EXTENDS Naturals, FiniteSets

CONSTANTS
    Slots,      \* the entries of proc[]
    initproc,   \* the slot of the first process
    Killable,   \* the slots programs direct kill() at
    CPUs,
    None

\* No program kills init: it would exit, and exit() would panic.
ASSUME ProcConstants ==
    /\ initproc \in Slots
    /\ Killable \subseteq Slots \ {initproc}
    /\ None \notin Slots \cup CPUs

VARIABLES
    state,      \* p->state
    parent,     \* p->parent, None for 0
    killed,     \* p->killed
    plock,      \* plock[s]: the CPU that holds p->lock
    wait_lock,  \* the CPU that holds wait_lock
    cproc,      \* c->proc, and the kernel stack the CPU is on
    pc,         \* where each kernel thread is, see PCs
    np,         \* np[s]: fork()'s new process
    todo        \* todo[s]: children wait()'s scan has not looked at yet

vars == <<state, parent, killed, plock, wait_lock, cproc, pc, np, todo>>
procVars == <<state, parent, killed>>
lockVars == <<plock, wait_lock>>
localVars == <<np, todo>>

PCs == {"user",         \* in user space, or about to return there
        "fork",         \* allocproc() found a slot, np->lock held
        "fork_copied",  \* np->lock released
        "fork_parent",  \* in acquire(&wait_lock), to set np->parent
        "fork_run",     \* in acquire(&np->lock), to make np RUNNABLE
        "exit",         \* in exit(), closing files
        "exit_lock",    \* in exit()'s acquire(&wait_lock)
        "reparent",     \* in exit(), wait_lock held
        "zombie",       \* in exit(), wait_lock held, parent woken
        "gone",         \* ZOMBIE, in its last sched()
        "wait",         \* before an acquire(&wait_lock) of wait()
        "wait_lock",    \* in that acquire()
        "scan",         \* in wait()'s scan, wait_lock held
        "sleep",        \* has decided to sleep, wait_lock held
        "asleep"}       \* in wait()'s sleep(), until it runs again

States == {"UNUSED", "USED", "SLEEPING", "RUNNABLE", "RUNNING", "ZOMBIE"}

TypeOK ==
    /\ state \in [Slots -> States]
    /\ parent \in [Slots -> Slots \cup {None}]
    /\ killed \in [Slots -> BOOLEAN]
    /\ plock \in [Slots -> CPUs \cup {None}]
    /\ wait_lock \in CPUs \cup {None}
    /\ cproc \in [CPUs -> Slots \cup {None}]
    /\ pc \in [Slots -> PCs]
    /\ np \in [Slots -> Slots \cup {None}]
    /\ todo \in [Slots -> SUBSET Slots]
    /\ \A s \in Slots : state[s] = "UNUSED" => parent[s] = None

\* procinit() and userinit().
Init ==
    /\ state = [s \in Slots |-> IF s = initproc THEN "RUNNABLE" ELSE "UNUSED"]
    /\ parent = [s \in Slots |-> None]
    /\ killed = [s \in Slots |-> FALSE]
    /\ plock = [s \in Slots |-> None]
    /\ wait_lock = None
    /\ cproc = [c \in CPUs |-> None]
    /\ pc = [s \in Slots |-> "user"]
    /\ np = [s \in Slots |-> None]
    /\ todo = [s \in Slots |-> {}]

Children(s) == {t \in Slots : parent[t] = s}

\* CPU c executes the kernel thread (or the user code) of s, at `where'; s is
\* not on its way in or out of the CPU.
At(c, s, where) ==
    /\ cproc[c] = s
    /\ state[s] = "RUNNING"
    /\ plock[s] # c
    /\ pc[s] = where

\* freeproc(s), with p->lock held; drops the lock as all its callers do.
FreeProc(s) ==
    /\ state' = [state EXCEPT ![s] = "UNUSED"]
    /\ parent' = [parent EXCEPT ![s] = None]
    /\ killed' = [killed EXCEPT ![s] = FALSE]

\* The effect of wakeup(s) on s->state.
Woken(s) == IF state[s] = "SLEEPING" THEN "RUNNABLE" ELSE state[s]

-----------------------------------------------------------------------------
(* scheduler(), sched() and yield().                                       *)

\* The scheduler finds s RUNNABLE, under p->lock, and switches to it.
Schedule(c, s) ==
    /\ cproc[c] = None
    /\ plock[s] = None
    /\ state[s] = "RUNNABLE"
    /\ state' = [state EXCEPT ![s] = "RUNNING"]
    /\ cproc' = [cproc EXCEPT ![c] = s]
    /\ plock' = [plock EXCEPT ![s] = c]
    /\ UNCHANGED <<parent, killed, wait_lock, pc>> /\ UNCHANGED localVars

\* The thread continues after sched(), or starts at forkret(): it releases
\* p->lock.  sleep() also goes back to acquire wait_lock.
Resume(c, s) ==
    /\ cproc[c] = s
    /\ plock[s] = c
    /\ state[s] = "RUNNING"
    /\ plock' = [plock EXCEPT ![s] = None]
    /\ pc' = [pc EXCEPT ![s] = IF @ = "asleep" THEN "wait" ELSE @]
    /\ UNCHANGED <<wait_lock, cproc>> /\ UNCHANGED procVars /\ UNCHANGED localVars

\* sched()'s swtch() and the end of the scheduler's loop body.
SwitchOut(c, s) ==
    /\ cproc[c] = s
    /\ plock[s] = c
    /\ state[s] # "RUNNING"
    /\ cproc' = [cproc EXCEPT ![c] = None]
    /\ plock' = [plock EXCEPT ![s] = None]
    /\ UNCHANGED <<wait_lock, pc>> /\ UNCHANGED procVars /\ UNCHANGED localVars

\* Faulty variant: yield() does not take p->lock.
YieldUnlocked(c, s) ==
    /\ \/ At(c, s, "user") /\ ~killed[s]
       \/ \E where \in {"fork_copied", "exit", "wait"} : At(c, s, where)
    /\ state' = [state EXCEPT ![s] = "RUNNABLE"]
    /\ UNCHANGED <<parent, killed, cproc, pc>> /\ UNCHANGED lockVars /\ UNCHANGED localVars

\* A timer interrupt, from user space (usertrap) or in kernel code with
\* interrupts on (kerneltrap): yield().  usertrap() makes a killed process exit
\* instead.
Yield(c, s) ==
    /\ \/ At(c, s, "user") /\ ~killed[s]
       \/ \E where \in {"fork_copied", "exit", "wait"} : At(c, s, where)
    /\ plock[s] = None
    /\ plock' = [plock EXCEPT ![s] = c]
    /\ state' = [state EXCEPT ![s] = "RUNNABLE"]
    /\ UNCHANGED <<parent, killed, wait_lock, cproc, pc>> /\ UNCHANGED localVars

\* acquire(&wait_lock) begins: push_off() keeps the timer out while it spins.
Spin(c, s, from, to) ==
    /\ At(c, s, from)
    /\ pc' = [pc EXCEPT ![s] = to]
    /\ UNCHANGED cproc /\ UNCHANGED procVars /\ UNCHANGED lockVars /\ UNCHANGED localVars

-----------------------------------------------------------------------------
(* fork()                                                                  *)

\* allocproc(), up to its memory allocations.  The scan may find any slot that
\* is UNUSED when it gets there; when it finds none fork() has no effect.
ForkAlloc(c, s, n) ==
    /\ At(c, s, "user")
    /\ ~killed[s]
    /\ plock[n] = None
    /\ state[n] = "UNUSED"
    /\ plock' = [plock EXCEPT ![n] = c]
    /\ state' = [state EXCEPT ![n] = "USED"]
    /\ pc' = [pc EXCEPT ![s] = "fork", ![n] = "user"]
    /\ np' = [np EXCEPT ![s] = n]
    /\ UNCHANGED <<parent, killed, wait_lock, cproc, todo>>

\* Out of memory, in allocproc() or uvmcopy(): freeproc(np), return -1.
ForkFail(c, s) ==
    /\ At(c, s, "fork")
    /\ FreeProc(np[s])
    /\ plock' = [plock EXCEPT ![np[s]] = None]
    /\ pc' = [pc EXCEPT ![s] = "user"]
    /\ np' = [np EXCEPT ![s] = None]
    /\ UNCHANGED <<wait_lock, cproc, todo>>

\* Memory, registers and files copied: release(&np->lock).
ForkCopied(c, s) ==
    /\ At(c, s, "fork")
    /\ plock' = [plock EXCEPT ![np[s]] = None]
    /\ pc' = [pc EXCEPT ![s] = "fork_copied"]
    /\ UNCHANGED <<wait_lock, cproc>> /\ UNCHANGED procVars /\ UNCHANGED localVars

ForkParent(c, s) ==
    /\ At(c, s, "fork_parent")
    /\ wait_lock = None
    /\ parent' = [parent EXCEPT ![np[s]] = s]
    /\ pc' = [pc EXCEPT ![s] = "fork_run"]
    /\ UNCHANGED <<state, killed, cproc>> /\ UNCHANGED lockVars /\ UNCHANGED localVars

ForkRun(c, s) ==
    /\ At(c, s, "fork_run")
    /\ plock[np[s]] = None
    /\ state' = [state EXCEPT ![np[s]] = "RUNNABLE"]
    /\ pc' = [pc EXCEPT ![s] = "user"]
    /\ np' = [np EXCEPT ![s] = None]
    /\ UNCHANGED <<parent, killed, cproc, todo>> /\ UNCHANGED lockVars

-----------------------------------------------------------------------------
(* exit().  initproc never calls it: user/init.c loops for ever.           *)

ExitCall(c, s) ==
    /\ At(c, s, "user")
    /\ s # initproc
    /\ pc' = [pc EXCEPT ![s] = "exit"]
    /\ UNCHANGED cproc /\ UNCHANGED procVars /\ UNCHANGED lockVars /\ UNCHANGED localVars

ExitLock(c, s) ==
    /\ At(c, s, "exit_lock")
    /\ wait_lock = None
    /\ wait_lock' = c
    /\ pc' = [pc EXCEPT ![s] = "reparent"]
    /\ UNCHANGED <<plock, cproc>> /\ UNCHANGED procVars /\ UNCHANGED localVars

\* Faulty variant: init is not told of its new child.
ReparentSilent(c, s, pp) ==
    /\ At(c, s, "reparent")
    /\ parent[pp] = s
    /\ parent' = [parent EXCEPT ![pp] = initproc]
    /\ UNCHANGED <<state, killed, cproc, pc>> /\ UNCHANGED lockVars /\ UNCHANGED localVars

\* reparent() meets a child of s: pp->parent = initproc; wakeup(initproc).
Reparent(c, s, pp) ==
    /\ At(c, s, "reparent")
    /\ parent[pp] = s
    /\ plock[initproc] = None
    /\ parent' = [parent EXCEPT ![pp] = initproc]
    /\ state' = [state EXCEPT ![initproc] = Woken(initproc)]
    /\ UNCHANGED <<killed, cproc, pc>> /\ UNCHANGED lockVars /\ UNCHANGED localVars

\* No child left: wakeup(p->parent).
ExitWakeup(c, s) ==
    /\ At(c, s, "reparent")
    /\ Children(s) = {}
    /\ plock[parent[s]] = None
    /\ state' = [state EXCEPT ![parent[s]] = Woken(parent[s])]
    /\ pc' = [pc EXCEPT ![s] = "zombie"]
    /\ UNCHANGED <<parent, killed, cproc>> /\ UNCHANGED lockVars /\ UNCHANGED localVars

ExitZombie(c, s) ==
    /\ At(c, s, "zombie")
    /\ plock[s] = None
    /\ plock' = [plock EXCEPT ![s] = c]
    /\ state' = [state EXCEPT ![s] = "ZOMBIE"]
    /\ wait_lock' = None
    /\ pc' = [pc EXCEPT ![s] = "gone"]
    /\ UNCHANGED <<parent, killed, cproc>> /\ UNCHANGED localVars

-----------------------------------------------------------------------------
(* wait()                                                                  *)

WaitCall(c, s) ==
    /\ At(c, s, "user")
    /\ ~killed[s]
    /\ pc' = [pc EXCEPT ![s] = "wait"]
    /\ UNCHANGED cproc /\ UNCHANGED procVars /\ UNCHANGED lockVars /\ UNCHANGED localVars

\* acquire(&wait_lock), first or at the end of sleep(); the scan begins.
WaitLock(c, s) ==
    /\ At(c, s, "wait_lock")
    /\ wait_lock = None
    /\ wait_lock' = c
    /\ todo' = [todo EXCEPT ![s] = Children(s)]
    /\ pc' = [pc EXCEPT ![s] = "scan"]
    /\ UNCHANGED <<plock, cproc, np>> /\ UNCHANGED procVars

\* The scan looks at child pp, under pp->lock: not a ZOMBIE.
ScanSkip(c, s, pp) ==
    /\ At(c, s, "scan")
    /\ pp \in todo[s]
    /\ plock[pp] = None
    /\ state[pp] # "ZOMBIE"
    /\ todo' = [todo EXCEPT ![s] = @ \ {pp}]
    /\ UNCHANGED <<cproc, pc, np>> /\ UNCHANGED procVars /\ UNCHANGED lockVars

\* A ZOMBIE: freeproc(pp), return its pid.
ScanReap(c, s, pp) ==
    /\ At(c, s, "scan")
    /\ pp \in todo[s]
    /\ plock[pp] = None
    /\ state[pp] = "ZOMBIE"
    /\ FreeProc(pp)
    /\ wait_lock' = None
    /\ todo' = [todo EXCEPT ![s] = {}]
    /\ pc' = [pc EXCEPT ![s] = "user"]
    /\ UNCHANGED <<plock, cproc, np>>

\* Faulty variant: the error return keeps wait_lock.
ScanCopyoutFailsHolding(c, s, pp) ==
    /\ At(c, s, "scan")
    /\ s # initproc
    /\ pp \in todo[s]
    /\ plock[pp] = None
    /\ state[pp] = "ZOMBIE"
    /\ todo' = [todo EXCEPT ![s] = {}]
    /\ pc' = [pc EXCEPT ![s] = "user"]
    /\ UNCHANGED <<plock, wait_lock, cproc, np>> /\ UNCHANGED procVars

\* A ZOMBIE, but copyout() of its status fails: return -1.  init asks for no
\* status.
ScanCopyoutFails(c, s, pp) ==
    /\ At(c, s, "scan")
    /\ s # initproc
    /\ pp \in todo[s]
    /\ plock[pp] = None
    /\ state[pp] = "ZOMBIE"
    /\ wait_lock' = None
    /\ todo' = [todo EXCEPT ![s] = {}]
    /\ pc' = [pc EXCEPT ![s] = "user"]
    /\ UNCHANGED <<plock, cproc, np>> /\ UNCHANGED procVars

\* End of the scan: no children, or killed(p), so return -1; else sleep.
WaitTest(c, s) ==
    /\ At(c, s, "scan")
    /\ todo[s] = {}
    /\ IF Children(s) = {} \/ killed[s]
         THEN /\ wait_lock' = None
              /\ pc' = [pc EXCEPT ![s] = "user"]
         ELSE /\ pc' = [pc EXCEPT ![s] = "sleep"]
              /\ UNCHANGED wait_lock
    /\ UNCHANGED <<plock, cproc>> /\ UNCHANGED procVars /\ UNCHANGED localVars

\* sleep(p, &wait_lock): takes p->lock, then lets wait_lock go.
WaitSleep(c, s) ==
    /\ At(c, s, "sleep")
    /\ plock[s] = None
    /\ plock' = [plock EXCEPT ![s] = c]
    /\ wait_lock' = None
    /\ state' = [state EXCEPT ![s] = "SLEEPING"]
    /\ pc' = [pc EXCEPT ![s] = "asleep"]
    /\ UNCHANGED <<parent, killed, cproc>> /\ UNCHANGED localVars

-----------------------------------------------------------------------------
(* kill()                                                                  *)

KillEffect(t) ==
    /\ plock[t] = None
    /\ killed' = [killed EXCEPT ![t] = TRUE]
    /\ state' = [state EXCEPT ![t] = Woken(t)]
    /\ UNCHANGED <<parent, cproc, pc>> /\ UNCHANGED lockVars /\ UNCHANGED localVars

\* kill(pid) with the pid of a process.
Kill(c, s, t) ==
    /\ At(c, s, "user")
    /\ ~killed[s]
    /\ t \in Killable
    /\ state[t] # "UNUSED"
    /\ KillEffect(t)

\* kill(0): the pid field of every UNUSED slot is 0.
KillZero(c, s, t) ==
    /\ At(c, s, "user")
    /\ ~killed[s]
    /\ t \in Killable
    /\ state[t] = "UNUSED"
    /\ KillEffect(t)

-----------------------------------------------------------------------------
ForkStep(c, s) ==
    \/ ForkFail(c, s) \/ ForkCopied(c, s) \/ Spin(c, s, "fork_copied", "fork_parent")
    \/ ForkParent(c, s) \/ ForkRun(c, s)

ExitStep(c, s) ==
    \/ Spin(c, s, "exit", "exit_lock")
    \/ ExitLock(c, s) \/ ExitWakeup(c, s) \/ ExitZombie(c, s)
    \/ \E pp \in Slots : Reparent(c, s, pp)

WaitStep(c, s) ==
    \/ Spin(c, s, "wait", "wait_lock")
    \/ WaitLock(c, s) \/ WaitTest(c, s) \/ WaitSleep(c, s)
    \/ \E pp \in Slots : ScanSkip(c, s, pp) \/ ScanReap(c, s, pp) \/ ScanCopyoutFails(c, s, pp)

\* Steps inside the kernel.
KernelStep(c, s) == ForkStep(c, s) \/ ExitStep(c, s) \/ WaitStep(c, s)

\* Steps the user program chooses to take.
UserStep(c, s) ==
    \/ ExitCall(c, s) \/ WaitCall(c, s)
    \/ \E t \in Slots : ForkAlloc(c, s, t) \/ Kill(c, s, t) \/ KillZero(c, s, t)

Next ==
    \E c \in CPUs, s \in Slots :
        \/ Schedule(c, s) \/ Resume(c, s) \/ SwitchOut(c, s) \/ Yield(c, s)
        \/ KernelStep(c, s) \/ UserStep(c, s)

Spec == Init /\ [][Next]_vars

-----------------------------------------------------------------------------
(* Properties.                                                             *)

\* No two CPUs are ever on the same kernel stack, not even for the moment
\* between a process's state change and the swtch() that leaves its stack.  A
\* process is RUNNING only on a CPU, and the stack of a slot that wait() has freed
\* is in use by none.
OneCpuPerStack ==
    /\ \A c, d \in CPUs : c # d /\ cproc[c] # None => cproc[c] # cproc[d]
    /\ \A s \in Slots :
        /\ state[s] = "RUNNING" => \E c \in CPUs : cproc[c] = s
        /\ state[s] \in {"UNUSED", "USED"} => \A c \in CPUs : cproc[c] # s

\* sched()'s checks of its locks never panic: a CPU whose process is no longer
\* RUNNING, on its way out in yield(), sleep() or exit(), holds p->lock ("sched
\* p->lock"), and one that holds p->lock holds no other lock ("sched locks").
SchedLocks ==
    \A c \in CPUs, s \in Slots : cproc[c] = s =>
        /\ state[s] # "RUNNING" => plock[s] = c
        /\ plock[s] = c => wait_lock # c /\ \A t \in Slots \ {s} : plock[t] # c

\* No exit is missed: outside wait_lock, a process asleep in wait() has no ZOMBIE
\* child, and every process except init has a parent that can still wait() for it,
\* whichever of parent and child exits first.
ExitsSeen ==
    wait_lock = None =>
        \A s \in Slots :
            /\ state[s] \notin {"UNUSED", "USED"} /\ s # initproc => parent[s] # None
            /\ parent[s] # None =>
                /\ state[parent[s]] \notin {"UNUSED", "USED", "ZOMBIE"}
                /\ ~(state[parent[s]] = "SLEEPING" /\ state[s] = "ZOMBIE")
=============================================================================
