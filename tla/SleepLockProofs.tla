--------------------------- MODULE SleepLockProofs ---------------------------
(***************************************************************************)
(* For any number of processes: the sleep lock excludes, and sleep() and   *)
(* wakeup() lose no wakeup.                                                *)
(***************************************************************************)
EXTENDS SleepLock, TLAPS

\* Where a process holds lk->lk.
InLk == {"test", "sleep", "release", "wakeup"}

\* lk->lk is held by the process whose pc says so.
LkInv == \A p \in Procs : lk = p <=> pc[p] \in InLk

\* p->lock is held by p, or by the scheduler on p's behalf, from sleep()'s
\* acquire() until the switch and from the switch back until sleep() ends;
\* outside sched() a process is RUNNING.
PLockInv ==
    \A p \in Procs :
        /\ plock[p] \in {p, None}
        /\ pc[p] \in {"release", "sched"} => plock[p] = p
        /\ pc[p] \notin {"release", "sched", "asleep"} => plock[p] = None
        /\ pc[p] = "asleep" /\ state[p] = "RUNNING" => plock[p] = p
        /\ state[p] # "RUNNING" => pc[p] = "asleep"

\* lk->pid is the process between acquiresleep() and releasesleep().
OwnerInv ==
    /\ locked <=> pid # None
    /\ \A p \in Procs : pc[p] \in {"in", "unlock"} <=> pid = p

\* A process decides to sleep only while the lock is taken; once it has let go
\* of lk, either the lock is still taken or a wakeup() under way has not looked
\* at the process yet.
SleepInv ==
    \A p \in Procs :
        /\ pc[p] \in {"sleep", "release"} => locked
        /\ pc[p] = "sched" \/ state[p] = "SLEEPING"
              => locked \/ \E q \in Procs : pc[q] = "wakeup" /\ p \in todo[q]

\* The inductive invariant: who holds lk->lk, each p->lock and the sleep lock,
\* and why a process that sleeps will be woken.
IInv == TypeOK /\ LkInv /\ PLockInv /\ OwnerInv /\ SleepInv

-----------------------------------------------------------------------------
LEMMA InitIInv == Init => IInv
  BY NoneNotProc, ZenonT(30)
  DEF Init, IInv, TypeOK, LkInv, PLockInv, OwnerInv, SleepInv, InLk, PCs

\* Each action preserves the invariant.
LEMMA StepIInv == IInv /\ [Next]_vars => IInv'
<1> SUFFICES ASSUME IInv, [Next]_vars PROVE IInv'
  OBVIOUS
<1> USE NoneNotProc DEF IInv, InLk, PCs, Goto
<1>1. ASSUME NEW p \in Procs, CallAcquire(p) PROVE IInv'
  BY <1>1 DEF CallAcquire, TypeOK, LkInv, PLockInv, OwnerInv, SleepInv
<1>2. ASSUME NEW p \in Procs, AcquireLk(p) PROVE IInv'
  BY <1>2 DEF AcquireLk, TypeOK, LkInv, PLockInv, OwnerInv, SleepInv
<1>3. ASSUME NEW p \in Procs, TestLocked(p) PROVE IInv'
  BY <1>3 DEF TestLocked, TypeOK, LkInv, PLockInv, OwnerInv, SleepInv
<1>4. ASSUME NEW p \in Procs, TakeLock(p) PROVE IInv'
  BY <1>4 DEF TakeLock, TypeOK, LkInv, PLockInv, OwnerInv, SleepInv
<1>5. ASSUME NEW p \in Procs, SleepAcquire(p) PROVE IInv'
  BY <1>5 DEF SleepAcquire, TypeOK, LkInv, PLockInv, OwnerInv, SleepInv
<1>6. ASSUME NEW p \in Procs, SleepRelease(p) PROVE IInv'
  BY <1>6 DEF SleepRelease, TypeOK, LkInv, PLockInv, OwnerInv, SleepInv
<1>7. ASSUME NEW p \in Procs, SleepState(p) PROVE IInv'
  BY <1>7 DEF SleepState, TypeOK, LkInv, PLockInv, OwnerInv, SleepInv
<1>8. ASSUME NEW p \in Procs, SwitchedOut(p) PROVE IInv'
  BY <1>8 DEF SwitchedOut, TypeOK, LkInv, PLockInv, OwnerInv, SleepInv
<1>9. ASSUME NEW p \in Procs, SwitchTo(p) PROVE IInv'
  BY <1>9 DEF SwitchTo, TypeOK, LkInv, PLockInv, OwnerInv, SleepInv
<1>10. ASSUME NEW p \in Procs, SleepReturn(p) PROVE IInv'
  BY <1>10 DEF SleepReturn, TypeOK, LkInv, PLockInv, OwnerInv, SleepInv
<1>11. ASSUME NEW p \in Procs, CallRelease(p) PROVE IInv'
  BY <1>11 DEF CallRelease, TypeOK, LkInv, PLockInv, OwnerInv, SleepInv
<1>12. ASSUME NEW p \in Procs, Unlock(p) PROVE IInv'
  <2>1. TypeOK'
    BY <1>12, Zenon DEF Unlock, TypeOK
  <2>2. LkInv' /\ PLockInv'
    BY <1>12 DEF Unlock, TypeOK, LkInv, PLockInv
  <2>3. OwnerInv'
    BY <1>12 DEF Unlock, TypeOK, OwnerInv
  <2>4. SleepInv'
    <3>1. \A q \in Procs : pc'[q] \notin {"sleep", "release"}
      BY <1>12 DEF Unlock, TypeOK, LkInv
    <3>2. pc'[p] = "wakeup" /\ todo'[p] = Procs \ {p}
      BY <1>12 DEF Unlock, TypeOK
    <3>3. pc'[p] # "sched" /\ state'[p] # "SLEEPING"
      BY <1>12, <3>2 DEF Unlock, TypeOK, PLockInv
    <3> QED
      BY <3>1, <3>2, <3>3 DEF SleepInv
  <2> QED
    BY <2>1, <2>2, <2>3, <2>4
<1>13. ASSUME NEW p \in Procs, WakeupDone(p) PROVE IInv'
  BY <1>13 DEF WakeupDone, TypeOK, LkInv, PLockInv, OwnerInv, SleepInv
<1>14. ASSUME NEW p \in Procs, Kill(p) PROVE IInv'
  BY <1>14 DEF Kill, TypeOK, LkInv, PLockInv, OwnerInv, SleepInv
<1>15. ASSUME NEW p \in Procs, NEW q \in Procs, WakeupOne(p, q) PROVE IInv'
  BY <1>15 DEF WakeupOne, TypeOK, LkInv, PLockInv, OwnerInv, SleepInv
<1>16. CASE UNCHANGED vars
  BY <1>16 DEF vars, TypeOK, LkInv, PLockInv, OwnerInv, SleepInv
<1> QED
  BY <1>1, <1>2, <1>3, <1>4, <1>5, <1>6, <1>7, <1>8, <1>9, <1>10, <1>11,
     <1>12, <1>13, <1>14, <1>15, <1>16 DEF Next, Step

\* The invariant holds in every reachable state.
THEOREM Invariance == Spec => []IInv
  BY InitIInv, StepIInv, PTL DEF Spec

-----------------------------------------------------------------------------
\* The variables of the sleep lock, of p->lock and of wakeup()'s loop keep their
\* types, and wakeup() never looks at its caller.
THEOREM TypeCorrect == Spec => []TypeOK
  BY Invariance, PTL DEF IInv

\* acquiresleep() excludes: whoever returned from it and has not released is the
\* process in lk->pid, whatever the interleaving with sleep(), wakeup(), kill()
\* and the schedulers.
THEOREM Exclusion == Spec => []OwnerHolds
<1>1. IInv => OwnerHolds
  BY NoneNotProc DEF IInv, OwnerInv, OwnerHolds
<1> QED
  BY <1>1, Invariance, PTL

\* releasesleep() misses nobody: no process is left asleep, or going to sleep,
\* on a lock that is free with nobody inside lk->lk.
THEOREM NoLostWakeup == Spec => []NoSleeperOnFreeLock
<1>1. IInv => NoSleeperOnFreeLock
  BY NoneNotProc, Zenon DEF IInv, LkInv, SleepInv, NoSleeperOnFreeLock, InLk
<1> QED
  BY <1>1, Invariance, PTL
=============================================================================
