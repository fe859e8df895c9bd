-------------------------------- MODULE Trap --------------------------------
(***************************************************************************)
(* Traps, interrupts and the clock: kernel/trap.c, kernel/spinlock.c, the  *)
(* context switches of kernel/proc.c, and the calls sleep, uptime and kill *)
(* of kernel/sysproc.c.                                                    *)
(*                                                                         *)
(* A CPU has interrupt state (the enable bit, the trap vector) and a count *)
(* of nested push_off()s.  A kernel thread takes locks, is interrupted, gives *)
(* up its CPU in the middle of the handler, and goes on later, perhaps on  *)
(* another CPU.  The threads are the processes and one scheduler per CPU,  *)
(* which has the CPU's name.                                               *)
(*                                                                         *)
(* What a thread still has to do is the sequence of steps `code'; a step   *)
(* is a pair of an operation and its argument.  An interrupt may come      *)
(* between any two steps while the CPU's enable bit is set.  Code that     *)
(* runs with interrupts off and touches only its CPU is one step with what *)
(* follows it.  External interrupts are modelled with their devices        *)
(* (modules Virtio, Console).                                              *)
(***************************************************************************)
EXTENDS Naturals, Sequences, FiniteSets
LOCAL INSTANCE SequencesExt

CONSTANTS
    CPUs, cpu0,     \* harts; cpu0 is the one with cpuid() = 0
    Procs,          \* processes
    UINT,           \* ticks is an unsigned int: it wraps at UINT
    SleepArgs       \* arguments of sleep, negative ones being 0 already

ASSUME TrapConstants ==
    /\ cpu0 \in CPUs /\ CPUs \cap Procs = {}
    /\ UINT \in Nat \ {0} /\ SleepArgs \subseteq 0 .. UINT - 1

VARIABLES
    cpu,        \* cpu[c]: intr (SIE), vec (stvec), noff, intena, cur (the thread it
                \*         runs); intena means nothing while noff is 0
    th,         \* th[t]: code, frame (kerneltrap's locals),
                \*        intena (sched's local), sys (in a system call), and of a
                \*        process: state, killed, ticks0, n, slept (ticks since then)
    lock,       \* lock[l]: the CPU that holds spinlock l, or "free"
    ticks,
    panicked

vars == <<cpu, th, lock, ticks, panicked>>

Locks == {"ticks"} \cup Procs      \* tickslock, and p->lock of each process

Step(op, arg) == <<op, arg>>
One(op, arg) == <<Step(op, arg)>>
Acquire(l) == One("push", l) \o One("spin", l)
Release(l) == One("release", l)

\* sched() and what its caller does next, with p->lock held.
SwitchAs(p, state) == One("sched", state) \o Release(p)
Yield(p) == Acquire(p) \o SwitchAs(p, "RUNNABLE")
Exit(p) == Acquire(p) \o One("sched", "ZOMBIE") \o One("zombie exit", "")
Sleep(p) == Acquire(p) \o Release("ticks") \o SwitchAs(p, "SLEEPING") \o Acquire("ticks")

\* devintr() on a timer interrupt: clockintr() on one CPU only.
Wakeup(t) ==
    LET ps == SetToSeq(Procs \ {t})
    IN  FlattenSeq([i \in 1 .. Len(ps) |->
            Acquire(ps[i]) \o One("wakeup", ps[i]) \o Release(ps[i])])
Devintr(c, t) ==
    IF c = cpu0 THEN Acquire("ticks") \o One("tick", "") \o Wakeup(t) \o Release("ticks")
    ELSE <<>>

\* setkilled(p), and killed(p) up to the step that reads the flag and goes on with
\* the release.
SetkilledOf(p) == Acquire(p) \o One("setkilled", "") \o Release(p)
KilledOf(p) == Acquire(p) \o One("killed", "")

\* The two system calls that read the clock.
SysSleep == Acquire("ticks") \o One("start", "") \o One("test", "")
SysUptime == Acquire("ticks") \o Release("ticks")

\* usertrap() for its causes, usertrapret(), kerneltrap(), scheduler().
Usertrapret == One("vector", "") \o One("sret", "")
Usertrap(c, p, cause) ==
    (CASE cause = "sleep" -> KilledOf(p) \o One("on", "") \o SysSleep
       [] cause = "uptime" -> KilledOf(p) \o One("on", "") \o SysUptime
       [] cause = "timer" -> Devintr(c, p)
       [] cause = "fault" -> SetkilledOf(p))
    \o KilledOf(p)
    \o (IF cause = "timer" THEN Yield(p) ELSE <<>>)
    \o Usertrapret

Kerneltrap(c, t) ==
    Devintr(c, t)
    \o (IF t \in Procs /\ th[t].state = "RUNNING" THEN Yield(t) ELSE <<>>)
    \o One("kret", "")

Scheduler ==
    LET ps == SetToSeq(Procs)
    IN  One("on", "") \o FlattenSeq([i \in 1 .. Len(ps) |->
            Acquire(ps[i]) \o One("run", ps[i]) \o Release(ps[i])])
        \o One("loop", "")

User == One("user", "")
NewThread == [code |-> <<>>, frame |-> <<>>, intena |-> FALSE,
              sys |-> FALSE, state |-> "RUNNABLE", killed |-> FALSE,
              ticks0 |-> 0, n |-> 0, slept |-> 0]

\* Every CPU in scheduler(), every process in the yield() of usertrap().
Init ==
    /\ cpu = [c \in CPUs |-> [intr |-> FALSE, vec |-> "kernel",
                              noff |-> 0, intena |-> FALSE, cur |-> c]]
    /\ th = [t \in CPUs \cup Procs |->
               [NewThread EXCEPT !.code = IF t \in CPUs THEN Scheduler
                                          ELSE Release(t) \o Usertrapret]]
    /\ lock = [l \in Locks |-> "free"]
    /\ ticks = 0
    /\ panicked = FALSE
-----------------------------------------------------------------------------
(* One step of the thread t that CPU c runs.                               *)

\* The current step is op, with argument a; the rest of the code follows it.
At(c, op) == ~panicked /\ th[cpu[c].cur].code[1][1] = op
Arg(c) == th[cpu[c].cur].code[1][2]
Rest(t) == Tail(th[t].code)
Go(t, code) == th' = [th EXCEPT ![t].code = code]
Advance(c) == Go(cpu[c].cur, Rest(cpu[c].cur))

\* push_off(): old = intr_get() is a step of its own, the rest of it follows with
\* interrupts off; the step in between says what old is.
Push(c) ==
    LET t == cpu[c].cur IN
    /\ At(c, "push")
    /\ Go(t, One(IF cpu[c].intr THEN "off, was on" ELSE "off, was off", Arg(c)) \o Rest(t))
    /\ UNCHANGED <<cpu, lock, ticks, panicked>>

Pushed(k, old) ==
    [k EXCEPT !.intr = FALSE, !.noff = @ + 1,
              !.intena = IF k.noff = 0 THEN old ELSE @]

\* acquire() panics if the CPU holds the lock already.
Off(c) ==
    /\ At(c, "off, was on") \/ At(c, "off, was off")
    /\ cpu' = [cpu EXCEPT ![c] = Pushed(@, At(c, "off, was on"))]
    /\ panicked' = (lock[Arg(c)] = c)
    /\ Advance(c)
    /\ UNCHANGED <<lock, ticks>>

Spin(c) ==
    /\ At(c, "spin") /\ lock[Arg(c)] = "free"
    /\ lock' = [lock EXCEPT ![Arg(c)] = c]
    /\ Advance(c)
    /\ UNCHANGED <<cpu, ticks, panicked>>

\* Faulty variant: interrupts go on with the first pop_off(), not the last.
PoppedEarly(k) ==
    [k EXCEPT !.noff = @ - 1, !.intr = k.intena, !.intena = k.noff # 1 /\ @]

Popped(k) ==
    [k EXCEPT !.noff = @ - 1, !.intr = k.noff = 1 /\ k.intena, !.intena = k.noff # 1 /\ @]

\* release() and pop_off(), with their panics.
ReleaseLock(c) ==
    /\ At(c, "release")
    /\ panicked' = (lock[Arg(c)] # c \/ cpu[c].intr \/ cpu[c].noff < 1)
    /\ lock' = [lock EXCEPT ![Arg(c)] = "free"]
    /\ cpu' = [cpu EXCEPT ![c] = Popped(@)]
    /\ Advance(c)
    /\ UNCHANGED ticks

\* sched(): its panics, then swtch() to the CPU's scheduler.
Sched(c) ==
    LET p == cpu[c].cur IN
    /\ At(c, "sched")
    /\ panicked' = (lock[p] # c \/ cpu[c].noff # 1 \/ cpu[c].intr)
    /\ th' = [th EXCEPT ![p].code = Rest(p), ![p].state = Arg(c),
                        ![p].intena = cpu[c].intena]
    /\ cpu' = [cpu EXCEPT ![c].cur = c]
    /\ UNCHANGED <<lock, ticks>>

\* Faulty variant: intena stays what it is on the CPU.
ResumedCpu(k, p) == [k EXCEPT !.cur = p]

\* The process's side of swtch(): intena is the thread's, not the CPU's.
Resumed(k, p) == [k EXCEPT !.cur = p, !.intena = th[p].intena]

\* The scheduler runs p if it is RUNNABLE.
Run(c) ==
    LET p == Arg(c) IN
    /\ At(c, "run")
    /\ IF th[p].state = "RUNNABLE"
       THEN /\ th' = [th EXCEPT ![c].code = Rest(c), ![p].state = "RUNNING",
                                ![p].intena = FALSE]
            /\ cpu' = [cpu EXCEPT ![c] = Resumed(@, p)]
       ELSE Advance(c) /\ UNCHANGED cpu
    /\ UNCHANGED <<lock, ticks, panicked>>

\* The scheduler's next round.
Loop(c) ==
    /\ At(c, "loop")
    /\ Go(c, Scheduler)
    /\ UNCHANGED <<cpu, lock, ticks, panicked>>

\* intr_on(): in the scheduler, and in usertrap() before syscall().
On(c) ==
    LET t == cpu[c].cur IN
    /\ At(c, "on")
    /\ cpu' = [cpu EXCEPT ![c].intr = TRUE]
    /\ th' = [th EXCEPT ![t].code = Rest(t), ![t].sys = t \in Procs]
    /\ UNCHANGED <<lock, ticks, panicked>>
-----------------------------------------------------------------------------
(* Traps.                                                                  *)

\* From user mode, to usertrap(): the kernel's vector, the user's pc in the frame.
TrapUser(c, cause) ==
    LET p == cpu[c].cur IN
    /\ At(c, "user")
    /\ cpu' = [cpu EXCEPT ![c].intr = FALSE, ![c].vec = "kernel"]
    /\ Go(p, Usertrap(c, p, cause))
    /\ UNCHANGED <<lock, ticks, panicked>>

\* From the kernel, to kerneltrap(): sepc and sstatus in its locals.
TrapKernel(c) ==
    LET t == cpu[c].cur
        regs == <<th[t].code, cpu[c].intr>>
    IN
    /\ ~At(c, "user") /\ ~panicked /\ cpu[c].intr
    /\ cpu' = [cpu EXCEPT ![c].intr = FALSE]
    /\ th' = [th EXCEPT ![t].code = Kerneltrap(c, t), ![t].frame = Append(@, regs)]
    /\ UNCHANGED <<lock, ticks, panicked>>

\* w_sepc(sepc); w_sstatus(sstatus); and kernelvec's sret.
Kret(c) ==
    LET t == cpu[c].cur  regs == Last(th[t].frame) IN
    /\ At(c, "kret")
    /\ cpu' = [cpu EXCEPT ![c].intr = regs[2]]
    /\ th' = [th EXCEPT ![t].code = regs[1], ![t].frame = Front(@)]
    /\ UNCHANGED <<lock, ticks, panicked>>

\* usertrapret(): intr_off(), then the vector.
VectorOff(k) == [k EXCEPT !.intr = FALSE, !.vec = "user"]

Vector(c) ==
    LET p == cpu[c].cur IN
    /\ At(c, "vector")
    /\ cpu' = [cpu EXCEPT ![c] = VectorOff(@)]
    /\ th' = [th EXCEPT ![p].code = Rest(p), ![p].sys = FALSE]
    /\ UNCHANGED <<lock, ticks, panicked>>

Sret(c) ==
    /\ At(c, "sret")
    /\ cpu' = [cpu EXCEPT ![c].intr = TRUE]
    /\ Go(cpu[c].cur, User)
    /\ UNCHANGED <<lock, ticks, panicked>>

\* killed(p) has p->lock; exit() does not return.
Killed(c) ==
    LET p == cpu[c].cur IN
    /\ At(c, "killed")
    /\ Go(p, Release(p) \o IF th[p].killed THEN Exit(p) ELSE Rest(p))
    /\ UNCHANGED <<cpu, lock, ticks, panicked>>

\* setkilled(p) has p->lock.
Setkilled(c) ==
    LET p == cpu[c].cur IN
    /\ At(c, "setkilled")
    /\ th' = [th EXCEPT ![p].code = Rest(p), ![p].killed = TRUE]
    /\ UNCHANGED <<cpu, lock, ticks, panicked>>
-----------------------------------------------------------------------------
(* The clock, and the calls that read it.                                  *)

Diff(p) == (ticks + UINT - th[p].ticks0) % UINT

\* ticks++; a history variable counts the ticks since each sleep() call began.
Tick(c) ==
    LET t == cpu[c].cur IN
    /\ At(c, "tick")
    /\ ticks' = (ticks + 1) % UINT
    /\ th' = [s \in DOMAIN th |->
                [th[s] EXCEPT !.code = IF s = t THEN Tail(@) ELSE @,
                              !.slept = IF @ < th[s].n THEN @ + 1 ELSE @]]
    /\ UNCHANGED <<cpu, lock, panicked>>

\* wakeup(&ticks), for one process, whose lock it has.
WakeupOne(c) ==
    LET t == cpu[c].cur  p == Arg(c) IN
    /\ At(c, "wakeup")
    /\ th' = [th EXCEPT ![t].code = Rest(t),
                        ![p].state = IF @ = "SLEEPING" THEN "RUNNABLE" ELSE @]
    /\ UNCHANGED <<cpu, lock, ticks, panicked>>

\* sys_sleep(): ticks0 = ticks.
Start(c) ==
    LET p == cpu[c].cur IN
    /\ At(c, "start")
    /\ \E n \in SleepArgs :
         th' = [th EXCEPT ![p].code = Rest(p), ![p].ticks0 = ticks, ![p].n = n,
                          ![p].slept = 0]
    /\ UNCHANGED <<cpu, lock, ticks, panicked>>

\* Faulty variant: one tick too few.
StillEarlyLess(p) == Diff(p) + 1 < th[p].n

StillEarly(p) == Diff(p) < th[p].n

\* sys_sleep() is about to release tickslock and return.
Slept(p, rest) ==
    th' = [th EXCEPT ![p].code = rest, ![p].ticks0 = 0, ![p].n = 0, ![p].slept = 0]

\* while(ticks - ticks0 < n): is the process killed?
Test(c) ==
    LET p == cpu[c].cur IN
    /\ At(c, "test")
    /\ IF StillEarly(p)
       THEN Go(p, Acquire(p) \o One("test killed", "") \o th[p].code)
       ELSE Slept(p, Release("ticks") \o Rest(p))
    /\ UNCHANGED <<cpu, lock, ticks, panicked>>

\* Return -1 if it is, else sleep and test again.
TestKilled(c) ==
    LET p == cpu[c].cur IN
    /\ At(c, "test killed")
    /\ IF th[p].killed
       THEN Slept(p, Release(p) \o Release("ticks") \o Tail(Rest(p)))
       ELSE Go(p, Release(p) \o Sleep(p) \o Rest(p))
    /\ UNCHANGED <<cpu, lock, ticks, panicked>>

\* kill() by a process that is not modelled.
Kill(p) ==
    /\ lock[p] = "free" /\ ~th[p].killed /\ ~panicked
    /\ th' = [th EXCEPT ![p].killed = TRUE,
                        ![p].state = IF @ = "SLEEPING" THEN "RUNNABLE" ELSE @]
    /\ UNCHANGED <<cpu, lock, ticks, panicked>>

Locking(c) == Push(c) \/ Off(c) \/ Spin(c) \/ ReleaseLock(c)
Switching(c) == Sched(c) \/ Run(c) \/ Loop(c) \/ On(c)
Returning(c) == Kret(c) \/ Vector(c) \/ Sret(c) \/ Killed(c) \/ Setkilled(c)
Clock(c) == Tick(c) \/ WakeupOne(c) \/ Start(c) \/ Test(c) \/ TestKilled(c)

Next ==
    \/ \E c \in CPUs : \/ Locking(c) \/ Switching(c) \/ Returning(c) \/ Clock(c)
                       \/ TrapKernel(c)
                       \/ \E cause \in {"sleep", "uptime", "timer", "fault"} :
                              TrapUser(c, cause)
    \/ \E p \in Procs : Kill(p)

Spec == Init /\ [][Next]_vars
-----------------------------------------------------------------------------
(* Properties.                                                             *)

\* No assertion of acquire, release, pop_off or sched fails: no CPU asks for a lock it
\* holds (an interrupt handler wants tickslock and every other process's lock, and
\* the code it interrupted did not have them), and a process gives up its CPU with its
\* own lock only.  Nor does one of usertrap and kerneltrap: a trap finds the vector of
\* the mode it comes from.
NoPanic ==
    /\ ~panicked
    /\ \A c \in CPUs :
        IF th[cpu[c].cur].code = User THEN cpu[c].vec = "user"
        ELSE cpu[c].intr => cpu[c].vec = "kernel"

\* A CPU that holds a spinlock has interrupts off, and noff counts its locks (one
\* more while it spins).  A process in a system call has interrupts on whenever it
\* holds no lock, however often it was switched from CPU to CPU in between; a handler
\* never does, even after its yield(): handlers do not nest.
InterruptStateKept ==
    \A c \in CPUs :
        LET t == cpu[c].cur
            held == {l \in Locks : lock[l] = c}
        IN
        /\ held # {} => ~cpu[c].intr
        /\ cpu[c].noff = Cardinality(held) + IF At(c, "spin") THEN 1 ELSE 0
        /\ Len(th[t].frame) <= 1
        /\ th[t].frame # <<>> => ~cpu[c].intr
        /\ t \in Procs /\ th[t].sys /\ th[t].frame = <<>> /\ cpu[c].noff = 0 => cpu[c].intr

\* sys_sleep(n) does not return 0 before n ticks have passed, and a process asleep in
\* it still has ticks to wait for: the tick that was the last one did wake it, also
\* when ticks wrapped in between.
SleepExact ==
    /\ [](\A p \in Procs :
            th[p].state = "SLEEPING" /\ lock["ticks"] = "free" => Diff(p) < th[p].n)
    /\ [][\A p \in Procs :
            th[p].code[1][1] = "test"
            /\ th'[p].code # th[p].code /\ th'[p].code[1][1] = "release"
               => th[p].slept >= th[p].n]_vars
=============================================================================
