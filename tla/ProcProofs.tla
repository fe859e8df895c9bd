----------------------------- MODULE ProcProofs -----------------------------
(***************************************************************************)
(* For any number of slots and CPUs: no kernel stack is used by two CPUs,  *)
(* sched() never panics over its locks, and no exit is missed.             *)
(***************************************************************************)
EXTENDS Proc, TLAPS

\* A truth that has no type.  With it in view tlapm translates obligations for
\* the SMT solver without inferring types, which is several times faster here.
LEMMA Untyped == \A x : x \in x \/ x \notin x
  OBVIOUS

USE Untyped

\* Where a thread has interrupts off, or is in a critical section: it is
\* RUNNING and does not hold its own p->lock.
Busy == {"fork", "fork_parent", "fork_run", "exit_lock", "reparent", "zombie",
         "wait_lock", "scan", "sleep"}

\* Where a thread holds wait_lock.
Holding == {"reparent", "zombie", "scan", "sleep"}

Forking == {"fork", "fork_copied", "fork_parent", "fork_run"}

Exiting == {"exit", "exit_lock", "reparent", "zombie", "gone"}

\* Stacks.  A CPU on the stack of a process that is not RUNNING is on its way
\* out, and holds the process's lock.
CpuInv ==
    /\ \A c, d \in CPUs : cproc[c] = cproc[d] /\ cproc[c] # None => c = d
    /\ \A s \in Slots : state[s] = "RUNNING" => \E c \in CPUs : cproc[c] = s
    /\ \A c \in CPUs, s \in Slots :
          cproc[c] = s => state[s] \notin {"UNUSED", "USED"}
    /\ \A c \in CPUs, s \in Slots :
          cproc[c] = s /\ state[s] # "RUNNING" => plock[s] = c

\* Who holds which lock.
LockInv ==
    /\ \A s \in Slots : pc[s] \in Busy => state[s] = "RUNNING" /\ plock[s] = None
    /\ \A c \in CPUs, s \in Slots : plock[s] = c =>
          \/ cproc[c] = s
          \/ /\ state[s] = "USED"
             /\ \E t \in Slots : cproc[c] = t /\ pc[t] = "fork" /\ np[t] = s
    /\ \A s \in Slots : pc[s] \in Holding =>
          \E c \in CPUs : wait_lock = c /\ cproc[c] = s
    /\ wait_lock # None => \E s \in Slots : cproc[wait_lock] = s /\ pc[s] \in Holding

\* fork(): the new process is USED, belongs to one fork() only, and gets its
\* parent before it becomes RUNNABLE.
ForkInv ==
    /\ \A s \in Slots : np[s] # None <=> pc[s] \in Forking
    /\ \A s \in Slots : np[s] # None => state[np[s]] = "USED"
    /\ \A s, t \in Slots : np[s] = np[t] /\ np[s] # None => s = t
    /\ \A s \in Slots : np[s] # None =>
          parent[np[s]] = IF pc[s] = "fork_run" THEN s ELSE None

\* Where the thread of a process that does not run can be.
PcInv ==
    \A s \in Slots :
        /\ state[s] = "UNUSED" => pc[s] \in {"user", "gone"}
        /\ state[s] = "USED" => pc[s] = "user"
        /\ state[s] = "SLEEPING" => pc[s] = "asleep"
        /\ state[s] = "ZOMBIE" <=> pc[s] = "gone" /\ state[s] # "UNUSED"
        /\ pc[s] \in Exiting => s # initproc

\* Families: the tree of processes, and who knows of which exit.
FamilyInv ==
    /\ state[initproc] \notin {"UNUSED", "USED", "ZOMBIE"}
    /\ parent[initproc] = None
    /\ \A s \in Slots :
          state[s] \notin {"UNUSED", "USED"} /\ s # initproc => parent[s] # None
    /\ \A s \in Slots : parent[s] # None =>
          state[parent[s]] \notin {"UNUSED", "USED", "ZOMBIE"}

\* Exits: a process that sleeps, is about to sleep, or has looked at a child in
\* its scan, has no ZOMBIE among the children it has looked at.
ExitInv ==
    \A s, t \in Slots : parent[t] = s =>
        /\ state[s] = "SLEEPING" \/ pc[s] = "sleep" => state[t] # "ZOMBIE"
        /\ pc[s] = "scan" /\ t \notin todo[s] => state[t] # "ZOMBIE"
        /\ pc[s] # "zombie"
        /\ pc[t] = "zombie" => state[s] # "SLEEPING"

ScanInv ==
    \A s \in Slots : pc[s] = "scan" => todo[s] \subseteq Children(s)

\* The inductive invariant.
IInv ==
    TypeOK /\ CpuInv /\ LockInv /\ ForkInv /\ PcInv /\ FamilyInv /\ ExitInv /\ ScanInv

-----------------------------------------------------------------------------
LEMMA InitIInv == Init => IInv
<1> SUFFICES ASSUME Init PROVE IInv
  OBVIOUS
<1> USE ProcConstants DEF Init
<1>1. TypeOK
  BY DEF TypeOK, States, PCs
<1>2. CpuInv /\ LockInv /\ ForkInv
  BY DEF CpuInv, LockInv, ForkInv, Busy, Holding, Forking
<1>3. PcInv /\ FamilyInv /\ ExitInv /\ ScanInv
  BY DEF PcInv, FamilyInv, ExitInv, ScanInv, Exiting
<1> QED
  BY <1>1, <1>2, <1>3 DEF IInv

LEMMA StepIInv == IInv /\ [Next]_vars => IInv'
<1> SUFFICES ASSUME IInv, [Next]_vars PROVE IInv'
  OBVIOUS
<1>t. TypeOK /\ CpuInv /\ LockInv /\ ForkInv /\ PcInv /\ FamilyInv /\ ExitInv /\ ScanInv
  BY DEF IInv
<1> USE ProcConstants
<1>1. ASSUME NEW c \in CPUs, NEW s \in Slots,
             Schedule(c, s)
      PROVE  IInv'
  <2>1. TypeOK'
    BY <1>t, <1>1 DEF Schedule, localVars, TypeOK, States
  <2>2. CpuInv'
    BY <1>t, <1>1 DEF Schedule, TypeOK, CpuInv
  <2>3. LockInv'
    BY <1>t, <1>1 DEF Schedule, localVars, TypeOK, LockInv
  <2>4. ForkInv'
    BY <1>t, <1>1 DEF Schedule, localVars, ForkInv
  <2>5. PcInv'
    BY <1>t, <1>1 DEF Schedule, PcInv
  <2>6. FamilyInv'
    BY <1>t, <1>1 DEF Schedule, FamilyInv
  <2>7. ExitInv'
    BY <1>t, <1>1 DEF Schedule, localVars, ExitInv
  <2>8. ScanInv'
    BY <1>t, <1>1 DEF Schedule, localVars, ScanInv, Children
  <2> QED
    BY <2>1, <2>2, <2>3, <2>4, <2>5, <2>6, <2>7, <2>8 DEF IInv
<1>2. ASSUME NEW c \in CPUs, NEW s \in Slots,
             Resume(c, s)
      PROVE  IInv'
  <2>1. TypeOK'
    BY <1>t, <1>2 DEF Resume, procVars, localVars, TypeOK, PCs
  <2>2. CpuInv'
    BY <1>t, <1>2 DEF Resume, procVars, CpuInv
  <2>3. LockInv'
    BY <1>t, <1>2 DEF Resume, procVars, localVars, LockInv, Busy, Holding
  <2>4. ForkInv'
    BY <1>t, <1>2 DEF Resume, procVars, localVars, ForkInv, Forking
  <2>5. PcInv'
    BY <1>t, <1>2 DEF Resume, procVars, PcInv, Exiting
  <2>6. FamilyInv'
    BY <1>t, <1>2 DEF Resume, procVars, FamilyInv
  <2>7. ExitInv'
    BY <1>t, <1>2 DEF Resume, procVars, localVars, ExitInv
  <2>8. ScanInv'
    BY <1>t, <1>2 DEF Resume, procVars, localVars, ScanInv, Children
  <2> QED
    BY <2>1, <2>2, <2>3, <2>4, <2>5, <2>6, <2>7, <2>8 DEF IInv
<1>3. ASSUME NEW c \in CPUs, NEW s \in Slots,
             SwitchOut(c, s)
      PROVE  IInv'
  <2>1. TypeOK'
    BY <1>t, <1>3 DEF SwitchOut, procVars, localVars, TypeOK
  <2>2. CpuInv'
    BY <1>t, <1>3 DEF SwitchOut, procVars, TypeOK, CpuInv
  <2>3. LockInv'
    BY <1>t, <1>3
    DEF SwitchOut, procVars, localVars, TypeOK, LockInv, Busy, Holding
  <2>4. ForkInv'
    BY <1>t, <1>3 DEF SwitchOut, procVars, localVars, ForkInv
  <2>5. PcInv'
    BY <1>t, <1>3 DEF SwitchOut, procVars, PcInv
  <2>6. FamilyInv'
    BY <1>t, <1>3 DEF SwitchOut, procVars, FamilyInv
  <2>7. ExitInv'
    BY <1>t, <1>3 DEF SwitchOut, procVars, localVars, ExitInv
  <2>8. ScanInv'
    BY <1>t, <1>3 DEF SwitchOut, procVars, localVars, ScanInv, Children
  <2> QED
    BY <2>1, <2>2, <2>3, <2>4, <2>5, <2>6, <2>7, <2>8 DEF IInv
<1>4. ASSUME NEW c \in CPUs, NEW s \in Slots,
             Yield(c, s)
      PROVE  IInv'
  <2>1. TypeOK'
    BY <1>t, <1>4 DEF Yield, localVars, TypeOK, States
  <2>2. CpuInv'
    BY <1>t, <1>4 DEF Yield, At, TypeOK, CpuInv
  <2>3. LockInv'
    BY <1>t, <1>4 DEF Yield, At, localVars, LockInv, Busy
  <2>4. ForkInv'
    BY <1>t, <1>4 DEF Yield, At, localVars, ForkInv
  <2>5. PcInv'
    BY <1>t, <1>4 DEF Yield, At, PcInv
  <2>6. FamilyInv'
    BY <1>t, <1>4 DEF Yield, At, FamilyInv
  <2>7. ExitInv'
    BY <1>t, <1>4 DEF Yield, localVars, ExitInv
  <2>8. ScanInv'
    BY <1>t, <1>4 DEF Yield, localVars, ScanInv, Children
  <2> QED
    BY <2>1, <2>2, <2>3, <2>4, <2>5, <2>6, <2>7, <2>8 DEF IInv
<1>5. ASSUME NEW c \in CPUs, NEW s \in Slots,
             Spin(c, s, "fork_copied", "fork_parent")
      PROVE  IInv'
  <2>1. TypeOK'
    BY <1>t, <1>5 DEF Spin, procVars, lockVars, localVars, TypeOK, PCs
  <2>2. CpuInv'
    BY <1>t, <1>5 DEF Spin, procVars, lockVars, CpuInv
  <2>3. LockInv'
    BY <1>t, <1>5
    DEF Spin, At, procVars, lockVars, localVars, TypeOK, CpuInv, LockInv,
        Holding
  <2>4. ForkInv'
    BY <1>t, <1>5 DEF Spin, At, procVars, localVars, ForkInv, Forking
  <2>5. PcInv'
    BY <1>t, <1>5 DEF Spin, At, procVars, PcInv, Exiting
  <2>6. FamilyInv'
    BY <1>t, <1>5 DEF Spin, procVars, FamilyInv
  <2>7. ExitInv'
    BY <1>t, <1>5 DEF Spin, procVars, localVars, ExitInv
  <2>8. ScanInv'
    BY <1>t, <1>5 DEF Spin, procVars, localVars, ScanInv, Children
  <2> QED
    BY <2>1, <2>2, <2>3, <2>4, <2>5, <2>6, <2>7, <2>8 DEF IInv
<1>6. ASSUME NEW c \in CPUs, NEW s \in Slots,
             Spin(c, s, "exit", "exit_lock")
      PROVE  IInv'
  <2>1. TypeOK'
    BY <1>t, <1>6 DEF Spin, procVars, lockVars, localVars, TypeOK, PCs
  <2>2. CpuInv'
    BY <1>t, <1>6 DEF Spin, procVars, lockVars, CpuInv
  <2>3. LockInv'
    BY <1>t, <1>6
    DEF Spin, At, procVars, lockVars, localVars, TypeOK, CpuInv, LockInv,
        Holding
  <2>4. ForkInv'
    BY <1>t, <1>6 DEF Spin, At, procVars, localVars, ForkInv, Forking
  <2>5. PcInv'
    BY <1>t, <1>6 DEF Spin, At, procVars, PcInv, Exiting
  <2>6. FamilyInv'
    BY <1>t, <1>6 DEF Spin, procVars, FamilyInv
  <2>7. ExitInv'
    BY <1>t, <1>6 DEF Spin, procVars, localVars, ExitInv
  <2>8. ScanInv'
    BY <1>t, <1>6 DEF Spin, procVars, localVars, ScanInv, Children
  <2> QED
    BY <2>1, <2>2, <2>3, <2>4, <2>5, <2>6, <2>7, <2>8 DEF IInv
<1>7. ASSUME NEW c \in CPUs, NEW s \in Slots,
             Spin(c, s, "wait", "wait_lock")
      PROVE  IInv'
  <2>1. TypeOK'
    BY <1>t, <1>7 DEF Spin, procVars, lockVars, localVars, TypeOK, PCs
  <2>2. CpuInv'
    BY <1>t, <1>7 DEF Spin, procVars, lockVars, CpuInv
  <2>3. LockInv'
    BY <1>t, <1>7
    DEF Spin, At, procVars, lockVars, localVars, TypeOK, CpuInv, LockInv,
        Holding
  <2>4. ForkInv'
    BY <1>t, <1>7 DEF Spin, At, procVars, localVars, ForkInv, Forking
  <2>5. PcInv'
    BY <1>t, <1>7 DEF Spin, At, procVars, PcInv, Exiting
  <2>6. FamilyInv'
    BY <1>t, <1>7 DEF Spin, procVars, FamilyInv
  <2>7. ExitInv'
    BY <1>t, <1>7 DEF Spin, procVars, localVars, ExitInv
  <2>8. ScanInv'
    BY <1>t, <1>7 DEF Spin, procVars, localVars, ScanInv, Children
  <2> QED
    BY <2>1, <2>2, <2>3, <2>4, <2>5, <2>6, <2>7, <2>8 DEF IInv
<1>8. ASSUME NEW c \in CPUs, NEW s \in Slots, NEW n \in Slots,
             ForkAlloc(c, s, n)
      PROVE  IInv'
  <2>1. TypeOK'
    BY <1>t, <1>8 DEF ForkAlloc, TypeOK, States, PCs
  <2>2. CpuInv'
    BY <1>t, <1>8 DEF ForkAlloc, CpuInv
  <2>3. LockInv'
    BY <1>t, <1>8 DEF ForkAlloc, At, TypeOK, CpuInv, LockInv, Busy, Holding
  <2>4. ForkInv'
    BY <1>t, <1>8 DEF ForkAlloc, TypeOK, ForkInv, PcInv, Forking
  <2>5. PcInv'
    BY <1>t, <1>8 DEF ForkAlloc, At, TypeOK, PcInv, Exiting
  <2>6. FamilyInv'
    BY <1>t, <1>8 DEF ForkAlloc, FamilyInv
  <2>7. ExitInv'
    BY <1>t, <1>8 DEF ForkAlloc, TypeOK, ExitInv
  <2>8. ScanInv'
    BY <1>t, <1>8 DEF ForkAlloc, TypeOK, ScanInv, Children
  <2> QED
    BY <2>1, <2>2, <2>3, <2>4, <2>5, <2>6, <2>7, <2>8 DEF IInv
<1>9. ASSUME NEW c \in CPUs, NEW s \in Slots,
             ForkFail(c, s)
      PROVE  IInv'
  <2>0. np[s] \in Slots /\ state[np[s]] = "USED"
    BY <1>t, <1>9 DEF ForkFail, At, TypeOK, ForkInv, Forking
  <2>1. TypeOK'
    BY <1>t, <1>9, Zenon DEF ForkFail, FreeProc, TypeOK, States, PCs
  <2>2. CpuInv'
    BY <1>t, <1>9, <2>0 DEF ForkFail, FreeProc, CpuInv
  <2>3. LockInv'
    BY <1>t, <1>9, <2>0
    DEF ForkFail, FreeProc, At, TypeOK, LockInv, Busy, Holding
  <2>4. ForkInv'
    BY <1>t, <1>9 DEF ForkFail, FreeProc, TypeOK, ForkInv, Forking
  <2>5. PcInv'
    BY <1>t, <1>9, <2>0 DEF ForkFail, FreeProc, At, PcInv, Exiting
  <2>6. FamilyInv'
    BY <1>t, <1>9, <2>0 DEF ForkFail, FreeProc, FamilyInv
  <2>7. ExitInv'
    BY <1>t, <1>9 DEF ForkFail, FreeProc, ExitInv
  <2>8. ScanInv'
    <3>1. parent[np[s]] = None
      BY <1>t, <1>9, <2>0 DEF ForkFail, At, ForkInv
    <3>2. \A t \in Slots : Children(t)' = Children(t)
      BY <1>9, <3>1 DEF ForkFail, FreeProc, Children
    <3>3. \A t \in Slots : pc'[t] = "scan" => pc[t] = "scan" /\ todo'[t] = todo[t]
      BY <1>9 DEF ForkFail
    <3> QED
      BY <1>t, <3>2, <3>3 DEF ScanInv
  <2> QED
    BY <2>1, <2>2, <2>3, <2>4, <2>5, <2>6, <2>7, <2>8 DEF IInv
<1>10. ASSUME NEW c \in CPUs, NEW s \in Slots,
             ForkCopied(c, s)
      PROVE  IInv'
  <2>0. np[s] \in Slots /\ state[np[s]] = "USED"
    BY <1>t, <1>10 DEF ForkCopied, At, TypeOK, ForkInv, Forking
  <2>1. TypeOK'
    BY <1>t, <1>10, Zenon DEF ForkCopied, procVars, localVars, TypeOK, PCs
  <2>2. CpuInv'
    BY <1>t, <1>10, <2>0 DEF ForkCopied, procVars, CpuInv
  <2>3. LockInv'
    BY <1>t, <1>10
    DEF ForkCopied, At, procVars, localVars, TypeOK, LockInv, Busy, Holding
  <2>4. ForkInv'
    BY <1>t, <1>10 DEF ForkCopied, At, procVars, localVars, ForkInv, Forking
  <2>5. PcInv'
    BY <1>t, <1>10 DEF ForkCopied, At, procVars, PcInv, Exiting
  <2>6. FamilyInv'
    BY <1>t, <1>10 DEF ForkCopied, procVars, FamilyInv
  <2>7. ExitInv'
    BY <1>t, <1>10 DEF ForkCopied, procVars, localVars, ExitInv
  <2>8. ScanInv'
    BY <1>t, <1>10 DEF ForkCopied, procVars, localVars, ScanInv, Children
  <2> QED
    BY <2>1, <2>2, <2>3, <2>4, <2>5, <2>6, <2>7, <2>8 DEF IInv
<1>11. ASSUME NEW c \in CPUs, NEW s \in Slots,
             ForkParent(c, s)
      PROVE  IInv'
  <2>0. np[s] \in Slots /\ state[np[s]] = "USED"
    BY <1>t, <1>11 DEF ForkParent, At, TypeOK, ForkInv, Forking
  <2>1. TypeOK'
    BY <1>t, <1>11, <2>0 DEF ForkParent, lockVars, localVars, TypeOK, PCs
  <2>2. CpuInv'
    BY <1>t, <1>11 DEF ForkParent, lockVars, CpuInv
  <2>3. LockInv'
    BY <1>t, <1>11
    DEF ForkParent, At, lockVars, localVars, LockInv, Busy, Holding
  <2>4. ForkInv'
    BY <1>t, <1>11, <2>0 DEF ForkParent, localVars, TypeOK, ForkInv, Forking
  <2>5. PcInv'
    BY <1>t, <1>11 DEF ForkParent, At, PcInv, Exiting
  <2>6. FamilyInv'
    BY <1>t, <1>11, <2>0 DEF ForkParent, At, FamilyInv
  <2>7. ExitInv'
    BY <1>t, <1>11, <2>0 DEF ForkParent, ExitInv, LockInv, Holding
  <2>8. ScanInv'
    BY <1>t, <1>11 DEF ForkParent, ScanInv, LockInv, Holding
  <2> QED
    BY <2>1, <2>2, <2>3, <2>4, <2>5, <2>6, <2>7, <2>8 DEF IInv
<1>12. ASSUME NEW c \in CPUs, NEW s \in Slots,
             ForkRun(c, s)
      PROVE  IInv'
  <2>0. np[s] \in Slots /\ state[np[s]] = "USED"
    BY <1>t, <1>12 DEF ForkRun, At, TypeOK, ForkInv, Forking
  <2>1. TypeOK'
    BY <1>t, <1>12, Zenon DEF ForkRun, lockVars, TypeOK, States, PCs
  <2>2. CpuInv'
    BY <1>t, <1>12, <2>0 DEF ForkRun, lockVars, CpuInv
  <2>3. LockInv'
    BY <1>t, <1>12, <2>0 DEF ForkRun, At, lockVars, LockInv, Busy, Holding
  <2>4. ForkInv'
    BY <1>t, <1>12 DEF ForkRun, TypeOK, ForkInv, Forking
  <2>5. PcInv'
    BY <1>t, <1>12, <2>0 DEF ForkRun, At, PcInv, Exiting
  <2>6. FamilyInv'
    BY <1>t, <1>12 DEF ForkRun, At, FamilyInv, ForkInv
  <2>7. ExitInv'
    BY <1>t, <1>12 DEF ForkRun, ExitInv
  <2>8. ScanInv'
    BY <1>t, <1>12 DEF ForkRun, ScanInv, Children
  <2> QED
    BY <2>1, <2>2, <2>3, <2>4, <2>5, <2>6, <2>7, <2>8 DEF IInv
<1>13. ASSUME NEW c \in CPUs, NEW s \in Slots,
             ExitCall(c, s)
      PROVE  IInv'
  <2>1. TypeOK'
    BY <1>t, <1>13 DEF ExitCall, procVars, lockVars, localVars, TypeOK, PCs
  <2>2. CpuInv'
    BY <1>t, <1>13 DEF ExitCall, procVars, lockVars, CpuInv
  <2>3. LockInv'
    BY <1>t, <1>13
    DEF ExitCall, At, procVars, lockVars, localVars, LockInv, Busy, Holding
  <2>4. ForkInv'
    BY <1>t, <1>13 DEF ExitCall, At, procVars, localVars, ForkInv, Forking
  <2>5. PcInv'
    BY <1>t, <1>13 DEF ExitCall, At, procVars, PcInv
  <2>6. FamilyInv'
    BY <1>t, <1>13 DEF ExitCall, procVars, FamilyInv
  <2>7. ExitInv'
    BY <1>t, <1>13 DEF ExitCall, procVars, localVars, ExitInv
  <2>8. ScanInv'
    BY <1>t, <1>13 DEF ExitCall, procVars, localVars, ScanInv, Children
  <2> QED
    BY <2>1, <2>2, <2>3, <2>4, <2>5, <2>6, <2>7, <2>8 DEF IInv
<1>14. ASSUME NEW c \in CPUs, NEW s \in Slots,
             ExitLock(c, s)
      PROVE  IInv'
  <2>1. TypeOK'
    BY <1>t, <1>14 DEF ExitLock, procVars, localVars, TypeOK, PCs
  <2>2. CpuInv'
    BY <1>t, <1>14 DEF ExitLock, procVars, CpuInv
  <2>3. LockInv'
    BY <1>t, <1>14
    DEF ExitLock, At, procVars, localVars, TypeOK, LockInv, Busy, Holding
  <2>4. ForkInv'
    BY <1>t, <1>14 DEF ExitLock, At, procVars, localVars, ForkInv, Forking
  <2>5. PcInv'
    BY <1>t, <1>14 DEF ExitLock, At, procVars, PcInv, Exiting
  <2>6. FamilyInv'
    BY <1>t, <1>14 DEF ExitLock, procVars, FamilyInv
  <2>7. ExitInv'
    BY <1>t, <1>14 DEF ExitLock, procVars, ExitInv, LockInv, Holding
  <2>8. ScanInv'
    BY <1>t, <1>14 DEF ExitLock, ScanInv, LockInv, Holding
  <2> QED
    BY <2>1, <2>2, <2>3, <2>4, <2>5, <2>6, <2>7, <2>8 DEF IInv
<1>15. ASSUME NEW c \in CPUs, NEW s \in Slots, NEW n \in Slots,
             Reparent(c, s, n)
      PROVE  IInv'
  <2>1. TypeOK'
    BY <1>t, <1>15 DEF Reparent, Woken, lockVars, localVars, TypeOK, States
  <2>2. CpuInv'
    BY <1>t, <1>15 DEF Reparent, Woken, lockVars, CpuInv
  <2>3. LockInv'
    BY <1>t, <1>15 DEF Reparent, Woken, lockVars, localVars, LockInv
  <2>4. ForkInv'
    BY <1>t, <1>15 DEF Reparent, At, localVars, ForkInv, FamilyInv
  <2>5. PcInv'
    BY <1>t, <1>15 DEF Reparent, Woken, PcInv
  <2>6. FamilyInv'
    BY <1>t, <1>15 DEF Reparent, Woken, FamilyInv
  <2>7. ExitInv'
    BY <1>t, <1>15 DEF Reparent, Woken, At, TypeOK, ExitInv, LockInv, Holding
  <2>8. ScanInv'
    BY <1>t, <1>15 DEF Reparent, At, ScanInv, LockInv, Holding
  <2> QED
    BY <2>1, <2>2, <2>3, <2>4, <2>5, <2>6, <2>7, <2>8 DEF IInv
<1>16. ASSUME NEW c \in CPUs, NEW s \in Slots,
             ExitWakeup(c, s)
      PROVE  IInv'
  <2>1. TypeOK'
    BY <1>t, <1>16, ZenonT(30)
    DEF ExitWakeup, Woken, lockVars, localVars, TypeOK, States, PCs
  <2>2. CpuInv'
    BY <1>t, <1>16 DEF ExitWakeup, Woken, lockVars, CpuInv
  <2>3. LockInv'
    BY <1>t, <1>16
    DEF ExitWakeup, Woken, At, lockVars, localVars, LockInv, Busy, Holding
  <2>4. ForkInv'
    BY <1>t, <1>16 DEF ExitWakeup, At, localVars, ForkInv, FamilyInv, Forking
  <2>5. PcInv'
    BY <1>t, <1>16 DEF ExitWakeup, Woken, At, PcInv, Exiting
  <2>6. FamilyInv'
    BY <1>t, <1>16 DEF ExitWakeup, Woken, FamilyInv
  <2>7. ExitInv'
    <3>1. parent[s] \in Slots /\ parent[s] # s
      BY <1>t, <1>16
      DEF ExitWakeup, At, TypeOK, FamilyInv, PcInv, Exiting, Children
    <3>2. /\ pc' = [pc EXCEPT ![s] = "zombie"] /\ parent' = parent /\ todo' = todo
          /\ \A t \in Slots : t # parent[s] => state'[t] = state[t]
          /\ state'[parent[s]] # "SLEEPING"
          /\ \A t \in Slots : state'[t] = "ZOMBIE" => state[t] = "ZOMBIE"
      BY <1>t, <1>16, <3>1 DEF ExitWakeup, Woken, localVars, TypeOK
    <3>3. \A t \in Slots : parent[t] # s
      BY <1>16 DEF ExitWakeup, Children
    <3> QED
      BY <1>t, <3>2, <3>3 DEF ExitInv
  <2>8. ScanInv'
    BY <1>t, <1>16 DEF ExitWakeup, localVars, ScanInv, Children
  <2> QED
    BY <2>1, <2>2, <2>3, <2>4, <2>5, <2>6, <2>7, <2>8 DEF IInv
<1>17. ASSUME NEW c \in CPUs, NEW s \in Slots,
             ExitZombie(c, s)
      PROVE  IInv'
  <2>1. TypeOK'
    BY <1>t, <1>17 DEF ExitZombie, localVars, TypeOK, States, PCs
  <2>2. CpuInv'
    BY <1>t, <1>17 DEF ExitZombie, At, TypeOK, CpuInv
  <2>3. LockInv'
    BY <1>t, <1>17 DEF ExitZombie, At, localVars, TypeOK, LockInv, Busy, Holding
  <2>4. ForkInv'
    BY <1>t, <1>17 DEF ExitZombie, At, localVars, ForkInv, Forking
  <2>5. PcInv'
    BY <1>t, <1>17 DEF ExitZombie, At, TypeOK, PcInv, Exiting
  <2>6. FamilyInv'
    BY <1>t, <1>17 DEF ExitZombie, At, FamilyInv, ExitInv, PcInv, Exiting
  <2>7. ExitInv'
    BY <1>t, <1>17 DEF ExitZombie, At, ExitInv, LockInv, Holding
  <2>8. ScanInv'
    BY <1>t, <1>17 DEF ExitZombie, localVars, ScanInv, Children
  <2> QED
    BY <2>1, <2>2, <2>3, <2>4, <2>5, <2>6, <2>7, <2>8 DEF IInv
<1>18. ASSUME NEW c \in CPUs, NEW s \in Slots,
             WaitCall(c, s)
      PROVE  IInv'
  <2>1. TypeOK'
    BY <1>t, <1>18 DEF WaitCall, procVars, lockVars, localVars, TypeOK, PCs
  <2>2. CpuInv'
    BY <1>t, <1>18 DEF WaitCall, procVars, lockVars, CpuInv
  <2>3. LockInv'
    BY <1>t, <1>18
    DEF WaitCall, At, procVars, lockVars, localVars, LockInv, Busy, Holding
  <2>4. ForkInv'
    BY <1>t, <1>18 DEF WaitCall, At, procVars, localVars, ForkInv, Forking
  <2>5. PcInv'
    BY <1>t, <1>18 DEF WaitCall, At, procVars, PcInv, Exiting
  <2>6. FamilyInv'
    BY <1>t, <1>18 DEF WaitCall, procVars, FamilyInv
  <2>7. ExitInv'
    BY <1>t, <1>18 DEF WaitCall, procVars, localVars, ExitInv
  <2>8. ScanInv'
    BY <1>t, <1>18 DEF WaitCall, procVars, localVars, ScanInv, Children
  <2> QED
    BY <2>1, <2>2, <2>3, <2>4, <2>5, <2>6, <2>7, <2>8 DEF IInv
<1>19. ASSUME NEW c \in CPUs, NEW s \in Slots,
             WaitLock(c, s)
      PROVE  IInv'
  <2>1. TypeOK'
    BY <1>t, <1>19 DEF WaitLock, procVars, TypeOK, PCs, Children
  <2>2. CpuInv'
    BY <1>t, <1>19 DEF WaitLock, procVars, CpuInv
  <2>3. LockInv'
    BY <1>t, <1>19 DEF WaitLock, At, procVars, TypeOK, LockInv, Busy, Holding
  <2>4. ForkInv'
    BY <1>t, <1>19 DEF WaitLock, At, procVars, ForkInv, Forking
  <2>5. PcInv'
    BY <1>t, <1>19 DEF WaitLock, At, procVars, PcInv, Exiting
  <2>6. FamilyInv'
    BY <1>t, <1>19 DEF WaitLock, procVars, FamilyInv
  <2>7. ExitInv'
    BY <1>t, <1>19 DEF WaitLock, procVars, TypeOK, ExitInv, Children
  <2>8. ScanInv'
    BY <1>t, <1>19 DEF WaitLock, procVars, TypeOK, ScanInv, Children
  <2> QED
    BY <2>1, <2>2, <2>3, <2>4, <2>5, <2>6, <2>7, <2>8 DEF IInv
<1>20. ASSUME NEW c \in CPUs, NEW s \in Slots, NEW n \in Slots,
             ScanSkip(c, s, n)
      PROVE  IInv'
  <2>1. TypeOK'
    BY <1>t, <1>20 DEF ScanSkip, procVars, lockVars, TypeOK
  <2>2. CpuInv'
    BY <1>t, <1>20 DEF ScanSkip, procVars, lockVars, CpuInv
  <2>3. LockInv'
    BY <1>t, <1>20 DEF ScanSkip, procVars, lockVars, LockInv
  <2>4. ForkInv'
    BY <1>t, <1>20 DEF ScanSkip, procVars, ForkInv
  <2>5. PcInv'
    BY <1>t, <1>20 DEF ScanSkip, procVars, PcInv
  <2>6. FamilyInv'
    BY <1>t, <1>20 DEF ScanSkip, procVars, FamilyInv
  <2>7. ExitInv'
    BY <1>t, <1>20 DEF ScanSkip, procVars, ExitInv
  <2>8. ScanInv'
    BY <1>t, <1>20 DEF ScanSkip, procVars, ScanInv, Children
  <2> QED
    BY <2>1, <2>2, <2>3, <2>4, <2>5, <2>6, <2>7, <2>8 DEF IInv
<1>21. ASSUME NEW c \in CPUs, NEW s \in Slots, NEW n \in Slots,
             ScanReap(c, s, n)
      PROVE  IInv'
  <2>1. TypeOK'
    BY <1>t, <1>21 DEF ScanReap, FreeProc, TypeOK, States, PCs
  <2>2. CpuInv'
    BY <1>t, <1>21 DEF ScanReap, FreeProc, CpuInv
  <2>3. LockInv'
    BY <1>t, <1>21 DEF ScanReap, FreeProc, At, TypeOK, LockInv, Busy, Holding
  <2>4. ForkInv'
    BY <1>t, <1>21 DEF ScanReap, FreeProc, At, ForkInv, Forking
  <2>5. PcInv'
    BY <1>t, <1>21 DEF ScanReap, FreeProc, At, PcInv, Exiting
  <2>6. FamilyInv'
    BY <1>t, <1>21 DEF ScanReap, FreeProc, TypeOK, FamilyInv
  <2>7. ExitInv'
    BY <1>t, <1>21 DEF ScanReap, FreeProc, TypeOK, ExitInv
  <2>8. ScanInv'
    BY <1>t, <1>21 DEF ScanReap, At, TypeOK, ScanInv, LockInv, Holding
  <2> QED
    BY <2>1, <2>2, <2>3, <2>4, <2>5, <2>6, <2>7, <2>8 DEF IInv
<1>22. ASSUME NEW c \in CPUs, NEW s \in Slots, NEW n \in Slots,
             ScanCopyoutFails(c, s, n)
      PROVE  IInv'
  <2>1. TypeOK'
    BY <1>t, <1>22 DEF ScanCopyoutFails, procVars, TypeOK, PCs
  <2>2. CpuInv'
    BY <1>t, <1>22 DEF ScanCopyoutFails, procVars, CpuInv
  <2>3. LockInv'
    BY <1>t, <1>22
    DEF ScanCopyoutFails, At, procVars, TypeOK, LockInv, Busy, Holding
  <2>4. ForkInv'
    BY <1>t, <1>22 DEF ScanCopyoutFails, At, procVars, ForkInv, Forking
  <2>5. PcInv'
    BY <1>t, <1>22 DEF ScanCopyoutFails, At, procVars, PcInv
  <2>6. FamilyInv'
    BY <1>t, <1>22 DEF ScanCopyoutFails, procVars, FamilyInv
  <2>7. ExitInv'
    BY <1>t, <1>22 DEF ScanCopyoutFails, procVars, TypeOK, ExitInv
  <2>8. ScanInv'
    BY <1>t, <1>22 DEF ScanCopyoutFails, procVars, ScanInv, Children
  <2> QED
    BY <2>1, <2>2, <2>3, <2>4, <2>5, <2>6, <2>7, <2>8 DEF IInv
<1>23. ASSUME NEW c \in CPUs, NEW s \in Slots,
             WaitTest(c, s)
      PROVE  IInv'
  <2>1. TypeOK'
    BY <1>t, <1>23 DEF WaitTest, procVars, localVars, TypeOK, PCs
  <2>2. CpuInv'
    BY <1>t, <1>23 DEF WaitTest, procVars, CpuInv
  <2>3. LockInv'
    BY <1>t, <1>23
    DEF WaitTest, At, procVars, localVars, TypeOK, LockInv, Busy, Holding
  <2>4. ForkInv'
    BY <1>t, <1>23
    DEF WaitTest, At, procVars, localVars, TypeOK, ForkInv, Forking
  <2>5. PcInv'
    BY <1>t, <1>23 DEF WaitTest, At, procVars, TypeOK, PcInv, Exiting
  <2>6. FamilyInv'
    BY <1>t, <1>23 DEF WaitTest, procVars, FamilyInv
  <2>7. ExitInv'
    BY <1>t, <1>23 DEF WaitTest, At, procVars, TypeOK, ExitInv, LockInv, Holding
  <2>8. ScanInv'
    BY <1>t, <1>23 DEF WaitTest, procVars, localVars, TypeOK, ScanInv, Children
  <2> QED
    BY <2>1, <2>2, <2>3, <2>4, <2>5, <2>6, <2>7, <2>8 DEF IInv
<1>24. ASSUME NEW c \in CPUs, NEW s \in Slots,
             WaitSleep(c, s)
      PROVE  IInv'
  <2>1. TypeOK'
    BY <1>t, <1>24 DEF WaitSleep, localVars, TypeOK, States, PCs
  <2>2. CpuInv'
    BY <1>t, <1>24 DEF WaitSleep, At, TypeOK, CpuInv
  <2>3. LockInv'
    BY <1>t, <1>24 DEF WaitSleep, At, localVars, TypeOK, LockInv, Busy, Holding
  <2>4. ForkInv'
    BY <1>t, <1>24 DEF WaitSleep, At, localVars, ForkInv, Forking
  <2>5. PcInv'
    BY <1>t, <1>24 DEF WaitSleep, TypeOK, PcInv, Exiting
  <2>6. FamilyInv'
    BY <1>t, <1>24 DEF WaitSleep, At, FamilyInv
  <2>7. ExitInv'
    BY <1>t, <1>24 DEF WaitSleep, At, ExitInv, LockInv, Holding
  <2>8. ScanInv'
    BY <1>t, <1>24 DEF WaitSleep, localVars, ScanInv, Children
  <2> QED
    BY <2>1, <2>2, <2>3, <2>4, <2>5, <2>6, <2>7, <2>8 DEF IInv
<1>25. ASSUME NEW c \in CPUs, NEW s \in Slots, NEW n \in Slots,
             Kill(c, s, n) \/ KillZero(c, s, n)
      PROVE  IInv'
  <2>1. TypeOK'
    <3>1. Woken(n) \in States
      BY <1>t DEF Woken, TypeOK, States
    <3>2. /\ state' = [state EXCEPT ![n] = Woken(n)]
          /\ killed' = [killed EXCEPT ![n] = TRUE]
          /\ UNCHANGED <<parent, plock, wait_lock, cproc, pc, np, todo>>
      BY <1>25 DEF Kill, KillZero, KillEffect, lockVars, localVars
    <3>3. state[n] = "UNUSED" <=> Woken(n) = "UNUSED"
      BY <1>t DEF Woken
    <3> QED
      BY <1>t, <3>1, <3>2, <3>3 DEF TypeOK
  <2>2. CpuInv'
    BY <1>t, <1>25
    DEF Kill, KillZero, KillEffect, Woken, lockVars, TypeOK, CpuInv
  <2>3. LockInv'
    BY <1>t, <1>25
    DEF Kill, KillZero, KillEffect, Woken, lockVars, localVars, TypeOK, LockInv
  <2>4. ForkInv'
    BY <1>t, <1>25
    DEF Kill, KillZero, KillEffect, Woken, localVars, TypeOK, ForkInv
  <2>5. PcInv'
    BY <1>t, <1>25 DEF Kill, KillZero, KillEffect, Woken, TypeOK, PcInv
  <2>6. FamilyInv'
    BY <1>t, <1>25 DEF Kill, KillZero, KillEffect, Woken, TypeOK, FamilyInv
  <2>7. ExitInv'
    BY <1>t, <1>25
    DEF Kill, KillZero, KillEffect, Woken, localVars, TypeOK, ExitInv
  <2>8. ScanInv'
    BY <1>t, <1>25 DEF Kill, KillZero, KillEffect, localVars, ScanInv, Children
  <2> QED
    BY <2>1, <2>2, <2>3, <2>4, <2>5, <2>6, <2>7, <2>8 DEF IInv
<1>26. CASE UNCHANGED vars
  <2>1. TypeOK' /\ CpuInv' /\ FamilyInv' /\ PcInv'
    BY <1>t, <1>26 DEF vars, TypeOK, CpuInv, FamilyInv, PcInv
  <2>2. LockInv'
    <3>1. UNCHANGED <<state, plock, wait_lock, cproc, pc, np>>
      BY <1>26 DEF vars
    <3> QED
      BY <1>t, <3>1 DEF LockInv
  <2>3. ForkInv'
    BY <1>t, <1>26 DEF vars, ForkInv
  <2>4. ExitInv' /\ ScanInv'
    BY <1>t, <1>26 DEF vars, ExitInv, ScanInv, Children
  <2> QED
    BY <2>1, <2>2, <2>3, <2>4 DEF IInv
<1> QED
  BY <1>1, <1>2, <1>3, <1>4, <1>5, <1>6, <1>7, <1>8, <1>9, <1>10, <1>11, <1>12,
     <1>13, <1>14, <1>15, <1>16, <1>17, <1>18, <1>19, <1>20, <1>21, <1>22,
     <1>23, <1>24, <1>25, <1>26
  DEF Next, KernelStep, UserStep, ForkStep, ExitStep, WaitStep

\* The inductive invariant holds in every state the process table reaches.
THEOREM Invariance == Spec => []IInv
<1> QED
  BY InitIInv, StepIInv, PTL DEF Spec

\* The process table, the locks and the kernel threads keep their types, and a
\* freed slot has no parent.
THEOREM TypeCorrect == Spec => []TypeOK
<1>1. IInv => TypeOK
  BY DEF IInv
<1> QED
  BY <1>1, Invariance, PTL

\* The hand-over of p->lock across swtch(), in scheduler(), sched() and
\* forkret(), keeps every kernel stack to one CPU.
THEOREM StacksKept == Spec => []OneCpuPerStack
<1>1. IInv => OneCpuPerStack
  BY DEF IInv, CpuInv, OneCpuPerStack
<1> QED
  BY <1>1, Invariance, PTL

\* sched() is called with p->lock, and with no other lock: yield(), sleep() and
\* exit() keep p->lock from the change of state up to swtch(), and have let
\* wait_lock, and fork() its child's lock, go.
THEOREM SchedHoldsOneLock == Spec => []SchedLocks
<1>1. ASSUME IInv PROVE SchedLocks
  <2> USE ProcConstants
  <2>1. ASSUME NEW c \in CPUs, NEW s \in Slots, cproc[c] = s, state[s] # "RUNNING"
        PROVE  plock[s] = c
    BY <1>1, <2>1 DEF IInv, CpuInv
  <2> SUFFICES ASSUME NEW c \in CPUs, NEW s \in Slots, cproc[c] = s, plock[s] = c
               PROVE  wait_lock # c /\ \A t \in Slots \ {s} : plock[t] # c
    BY <2>1 DEF SchedLocks
  <2>2. pc[s] \notin Busy
    BY <1>1 DEF IInv, LockInv
  <2>3. wait_lock # c
    BY <1>1 DEF IInv, LockInv, Busy, Holding
  <2>4. ASSUME NEW t \in Slots \ {s}, plock[t] = c PROVE FALSE
    BY <1>1, <2>4 DEF IInv, LockInv, Busy
  <2> QED
    BY <2>3, <2>4
<1> QED
  BY <1>1, Invariance, PTL

\* Whichever of parent and child exits first, and wherever exit(), reparent() and
\* wait() interleave, no exit goes unseen.
THEOREM NoExitMissed == Spec => []ExitsSeen
<1>1. ASSUME IInv PROVE ExitsSeen
  BY <1>1 DEF IInv, FamilyInv, ExitInv, ExitsSeen, TypeOK
<1> QED
  BY <1>1, Invariance, PTL
=============================================================================
