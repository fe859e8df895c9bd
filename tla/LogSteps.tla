------------------------------ MODULE LogSteps ------------------------------
(***************************************************************************)
(* What each step of the log does, for any number of processes, blocks and *)
(* bounds: to the inductive invariant of LogProofs, given that the calls   *)
(* stay counted; to the blocks' contents; and to the atomic disk that the  *)
(* log implements.  The counting itself is in LogProofs.                   *)
(***************************************************************************)
EXTENDS Log, TLAPS

LEMMA AtTail ==
  ASSUME lh \in Seq(Blocks), tail \in Nat, tail < Len(lh)
  PROVE  tail + 1 \in 1 .. Len(lh) /\ lh[tail + 1] \in Blocks
  OBVIOUS

\* A truth that has no type.  With it in view tlapm translates obligations for
\* the SMT solver without inferring types, which is several times faster here.
LEMMA Untyped == \A x : x \in x \/ x \notin x
  OBVIOUS

USE Untyped

InOp == {p \in Procs : pc[p] = "op"}

Committers == {p \in Procs : pc[p] \in {"write_log", "install", "done"}}

\* The counts of log.outstanding and log.committing.
CallInv ==
    /\ boot # "run" => \A p \in Procs : pc[p] = "idle"
    /\ outstanding = Cardinality(InOp)
    /\ outstanding = 0 <=> InOp = {}
    /\ committing => \E p \in Procs : Committers = {p}
    /\ ~committing => Committers = {}
    /\ committing => InOp = {}

Injective(h) == \A i, j \in 1 .. Len(h) : h[i] = h[j] => i = j

\* What is in the two headers, in memory and on disk.
HeadInv ==
    /\ Len(lh) < NLOG /\ Len(dhead) < NLOG
    /\ Injective(lh) /\ Injective(dhead)
    /\ boot = "run" /\ ~committing /\ InOp = {} => lh = <<>>
    /\ (\E p \in Procs : pc[p] = "done") => lh = <<>>
    /\ (boot = "install" \/ \E p \in Procs : pc[p] = "install") => lh = dhead

\* A block in the log is pinned until it is installed.
PinInv ==
    boot = "run"
        => \A i \in 1 .. Len(lh) :
              ((\E p \in Procs : pc[p] = "install") => i > tail)
                  => pins[lh[i]] > 0

\* The inductive invariant.
IInv == TypeOK /\ CallInv /\ HeadInv /\ PinInv /\ SleeperHasWaker

-----------------------------------------------------------------------------
\* What an action leaves alone.
LEMMA CallFrame ==
    CallInv /\ UNCHANGED <<boot, pc, outstanding, committing>> => CallInv'
  BY DEF CallInv, InOp, Committers

LEMMA HeadFrame ==
    HeadInv /\ UNCHANGED <<boot, pc, committing, lh, dhead>> => HeadInv'
  BY DEF HeadInv, InOp

LEMMA PinFrame == PinInv /\ UNCHANGED <<boot, pc, lh, tail, pins>> => PinInv'
  BY DEF PinInv

LEMMA SleepFrame ==
    SleeperHasWaker /\ UNCHANGED <<pc, committing>> => SleeperHasWaker'
  BY DEF SleeperHasWaker

\* The part of the invariant that is not about counting.
LEMMA StepRest == IInv /\ CallInv' /\ [Next]_vars => IInv'
<1> SUFFICES ASSUME IInv, CallInv', [Next]_vars PROVE IInv'
  OBVIOUS
<1> USE LogConstants DEF IInv, Running, PCs, Data
<1>1. ASSUME NEW p \in Procs, BeginOpSleep(p) PROVE IInv'
  <2>1. TypeOK'
    BY <1>1 DEF BeginOpSleep, diskVars, cacheVars, TypeOK
  <2>2. HeadInv'
    BY <1>1 DEF BeginOpSleep, diskVars, HeadInv, InOp
  <2>3. PinInv'
    BY <1>1 DEF BeginOpSleep, cacheVars, PinInv
  <2>4. SleeperHasWaker'
    <3>1. committing \/ InOp # {}
      <4> SUFFICES ASSUME ~committing, InOp = {} PROVE FALSE
        OBVIOUS
      <4>1. outstanding = 0 /\ Len(lh) = 0
        BY <1>1 DEF BeginOpSleep, CallInv, HeadInv
      <4>2. Len(lh) + (outstanding + 1) * MAXOPBLOCKS = MAXOPBLOCKS
        BY <4>1
      <4> QED
        BY <1>1, <4>2 DEF BeginOpSleep, MustWait
    <3>2. InOp \subseteq InOp' /\ committing' = committing
      BY <1>1 DEF BeginOpSleep, InOp
    <3> QED
      BY <3>1, <3>2 DEF InOp, SleeperHasWaker
  <2> QED
    BY <2>1, <2>2, <2>3, <2>4
<1>2. ASSUME NEW p \in Procs, BeginOp(p) PROVE IInv'
  <2>1. TypeOK'
    BY <1>2 DEF BeginOp, diskVars, cacheVars, TypeOK
  <2>2. HeadInv'
    <3>1. /\ p \in InOp'
          /\ \A q \in Procs : pc'[q] \in {"install", "done"} => pc[q] = pc'[q]
      BY <1>2 DEF BeginOp, TypeOK, InOp
    <3> QED
      BY <1>2, <3>1 DEF BeginOp, diskVars, HeadInv
  <2>3. PinInv'
    BY <1>2 DEF BeginOp, cacheVars, PinInv
  <2>4. SleeperHasWaker'
    BY <1>2 DEF BeginOp, SleeperHasWaker
  <2> QED
    BY <2>1, <2>2, <2>3, <2>4
<1>3. ASSUME NEW p \in Procs, KillSleeper(p) PROVE IInv'
  <2>1. TypeOK'
    BY <1>3 DEF KillSleeper, diskVars, cacheVars, TypeOK
  <2>2. HeadInv'
    BY <1>3 DEF KillSleeper, diskVars, HeadInv, InOp
  <2>3. PinInv'
    BY <1>3 DEF KillSleeper, cacheVars, PinInv
  <2>4. SleeperHasWaker'
    BY <1>3 DEF KillSleeper, SleeperHasWaker
  <2> QED
    BY <2>1, <2>2, <2>3, <2>4
<1>4. ASSUME NEW p \in Procs, NEW b \in Blocks, NEW v \in Vals,
             LogWrite(p, b, v)
      PROVE  IInv'
  <2>1. TypeOK'
    <3>1. lh' \in Seq(Blocks) /\ pins' \in [Blocks -> Nat]
      <4>1. CASE b \in Entries(lh)
        BY <1>4, <4>1 DEF LogWrite, TypeOK
      <4>2. CASE b \notin Entries(lh)
        <5>1. lh' = Append(lh, b) /\ pins' = [pins EXCEPT ![b] = @ + 1]
          BY <1>4, <4>2 DEF LogWrite
        <5> QED
          BY <5>1 DEF TypeOK
      <4> QED
        BY <4>1, <4>2
    <3>2. mem' \in [Blocks -> Data] /\ cached' \in SUBSET Blocks
      BY <1>4 DEF LogWrite, TypeOK
    <3> QED
      BY <1>4, <3>1, <3>2 DEF LogWrite, diskVars, TypeOK
  <2>2. HeadInv'
    <3>1. Injective(lh')
      <4>1. CASE b \in Entries(lh)
        BY <1>4, <4>1 DEF LogWrite, HeadInv
      <4>2. CASE b \notin Entries(lh)
        <5>1. lh' = Append(lh, b) /\ \A i \in 1 .. Len(lh) : lh[i] # b
          BY <1>4, <4>2 DEF LogWrite, Entries
        <5> QED
          BY <5>1 DEF HeadInv, Injective
      <4> QED
        BY <4>1, <4>2
    <3>3. Len(lh') < NLOG
      BY <1>4 DEF LogWrite, LogFull
    <3>2. Committers' = {} /\ p \in InOp'
      BY <1>4 DEF LogWrite, CallInv, InOp, Committers
    <3> QED
      BY <1>4, <3>1, <3>2, <3>3 DEF LogWrite, diskVars, HeadInv, Committers
  <2>3. PinInv'
    <3>1. \A i \in 1 .. Len(lh) : pins[lh[i]] > 0
      BY <1>4 DEF LogWrite, CallInv, PinInv, InOp, Committers
    <3>2. CASE b \in Entries(lh)
      BY <1>4, <3>2 DEF LogWrite, PinInv
    <3>3. CASE b \notin Entries(lh)
      <4>1. lh' = Append(lh, b) /\ pins' = [pins EXCEPT ![b] = @ + 1]
        BY <1>4, <3>3 DEF LogWrite
      <4>2. ASSUME NEW i \in 1 .. Len(lh')
            PROVE  lh'[i] \in Blocks /\ (lh'[i] = b \/ pins[lh'[i]] > 0)
        <5>1. lh \in Seq(Blocks) /\ Len(lh') = Len(lh) + 1
          BY <4>1 DEF TypeOK
        <5>2. CASE i \in 1 .. Len(lh)
          BY <3>1, <4>1, <5>1, <5>2
        <5>3. CASE i = Len(lh) + 1
          BY <4>1, <5>1, <5>3
        <5> QED
          BY <5>1, <5>2, <5>3
      <4>3. \A c \in Blocks : c = b \/ pins[c] > 0 => pins'[c] > 0
        BY <4>1 DEF TypeOK
      <4> QED
        BY <4>2, <4>3 DEF PinInv
    <3> QED
      BY <3>2, <3>3
  <2>4. SleeperHasWaker'
    BY <1>4, SleepFrame DEF LogWrite
  <2> QED
    BY <2>1, <2>2, <2>3, <2>4
<1>5. ASSUME NEW p \in Procs, NEW b \in Blocks, LogWritePanic(p, b) PROVE IInv'
  <2>1. TypeOK'
    BY <1>5 DEF LogWritePanic, diskVars, cacheVars, TypeOK
  <2>2. HeadInv'
    BY <1>5, HeadFrame DEF LogWritePanic, diskVars
  <2>3. PinInv'
    BY <1>5, PinFrame DEF LogWritePanic, cacheVars
  <2>4. SleeperHasWaker'
    BY <1>5, SleepFrame DEF LogWritePanic
  <2> QED
    BY <2>1, <2>2, <2>3, <2>4
<1>6. ASSUME NEW p \in Procs, EndOp(p) PROVE IInv'
  <2>a. InOp' = InOp \ {p} /\ p \in InOp /\ Committers' = {} /\ InOp' # {}
    BY <1>6 DEF EndOp, Wakeup, TypeOK, CallInv, InOp, Committers
  <2>1. TypeOK'
    BY <1>6 DEF EndOp, Wakeup, diskVars, cacheVars, TypeOK
  <2>2. HeadInv'
    BY <1>6, <2>a, Zenon DEF EndOp, diskVars, HeadInv, Committers
  <2>3. PinInv'
    BY <1>6 DEF EndOp, cacheVars, CallInv, PinInv, Committers
  <2>4. SleeperHasWaker'
    BY <1>6 DEF EndOp, Wakeup, SleeperHasWaker
  <2> QED
    BY <2>1, <2>2, <2>3, <2>4
<1>7. ASSUME NEW p \in Procs, EndOpCommit(p) PROVE IInv'
  <2>1. TypeOK'
    BY <1>7 DEF EndOpCommit, diskVars, cacheVars, TypeOK
  <2>2. HeadInv'
    BY <1>7 DEF EndOpCommit, diskVars, HeadInv
  <2>3. PinInv'
    BY <1>7 DEF EndOpCommit, cacheVars, CallInv, PinInv, Committers
  <2>4. SleeperHasWaker'
    BY <1>7 DEF EndOpCommit, SleeperHasWaker
  <2> QED
    BY <2>1, <2>2, <2>3, <2>4
<1>8. ASSUME NEW p \in Procs, WriteLog(p) PROVE IInv'
  <2>1. TypeOK'
    <3>2. lh[tail + 1] \in Blocks
      BY <1>8 DEF WriteLog, TypeOK
    <3>3. BRead(lh[tail + 1]) \in Data
      BY <3>2 DEF BRead, TypeOK
    <3>1. dlog' \in [Slots -> Data]
      BY <1>8, <3>3, Zenon DEF WriteLog, TypeOK
    <3> QED
      <4> HIDE Untyped
      <4> QED
        BY <1>8, <3>1 DEF WriteLog, cacheVars, TypeOK
  <2>2. HeadInv'
    BY <1>8, HeadFrame DEF WriteLog
  <2>3. PinInv'
    BY <1>8 DEF WriteLog, cacheVars, CallInv, PinInv, Committers
  <2>4. SleeperHasWaker'
    BY <1>8, SleepFrame DEF WriteLog
  <2> QED
    BY <2>1, <2>2, <2>3, <2>4
<1>9. ASSUME NEW p \in Procs, WriteHead(p) PROVE IInv'
  <2>1. TypeOK'
    BY <1>9 DEF WriteHead, cacheVars, TypeOK
  <2>2. HeadInv'
    BY <1>9 DEF WriteHead, HeadInv, InOp
  <2>3. PinInv'
    BY <1>9 DEF WriteHead, cacheVars, CallInv, PinInv, Committers
  <2>4. SleeperHasWaker'
    BY <1>9 DEF WriteHead, SleeperHasWaker
  <2> QED
    BY <2>1, <2>2, <2>3, <2>4
<1>10. ASSUME NEW p \in Procs, InstallTrans(p) PROVE IInv'
  <2>1. TypeOK'
    <3>1. lh[tail + 1] \in Blocks /\ tail + 1 \in 1 .. Len(lh)
      <4>1. lh \in Seq(Blocks) /\ tail \in Nat /\ tail < Len(lh)
        BY <1>10 DEF InstallTrans, InstallBlock, TypeOK
      <4> QED
        BY <4>1, AtTail
    <3>2. pins[lh[tail + 1]] > 0
      BY <1>10, <3>1 DEF InstallTrans, PinInv, TypeOK
    <3>3. pins' \in [Blocks -> Nat]
      <4>1. /\ pins \in [Blocks -> Nat]
            /\ pins' = [pins EXCEPT ![lh[tail + 1]] = @ - 1]
        BY <1>10 DEF InstallTrans, TypeOK
      <4> QED
        BY <3>1, <3>2, <4>1
    <3>4. disk' \in [Blocks -> Data] /\ mem' \in [Blocks -> Data]
      <4>1. dlog[tail + 1] \in Data
        BY <3>1 DEF TypeOK, HeadInv, Slots
      <4> QED
        BY <1>10, <4>1 DEF InstallTrans, InstallBlock, TypeOK
    <3>5. cached' \in SUBSET Blocks /\ tail' \in Nat
      <4>1. /\ cached \in SUBSET Blocks /\ tail \in Nat
            /\ cached' = cached \cup {lh[tail + 1]} /\ tail' = tail + 1
        BY <1>10 DEF InstallTrans, InstallBlock, TypeOK
      <4> QED
        BY <3>1, <4>1
    <3> QED
      BY <1>10, <3>3, <3>4, <3>5, SMTT(20)
      DEF InstallTrans, InstallBlock, TypeOK
  <2>2. HeadInv'
    BY <1>10, HeadFrame DEF InstallTrans, InstallBlock
  <2>3. PinInv'
    <3>1. /\ lh \in Seq(Blocks) /\ tail \in Nat /\ tail < Len(lh)
          /\ pins \in [Blocks -> Nat] /\ Injective(lh)
      BY <1>10 DEF InstallTrans, InstallBlock, TypeOK, HeadInv
    <3>2. /\ lh' = lh /\ tail' = tail + 1 /\ boot' = boot /\ pc' = pc
          /\ pc[p] = "install" /\ pins' = [pins EXCEPT ![lh[tail + 1]] = @ - 1]
      BY <1>10 DEF InstallTrans, InstallBlock
    <3>3. ASSUME boot = "run", NEW i \in 1 .. Len(lh), i > tail + 1
          PROVE  pins'[lh[i]] > 0
      <4>1. pins[lh[i]] > 0 /\ lh[i] \in Blocks
        BY <3>1, <3>3 DEF PinInv
      <4>2. lh[i] # lh[tail + 1]
        BY <3>1, <3>3, AtTail, SMTT(20) DEF Injective
      <4> QED
        BY <3>1, <3>2, <4>1, <4>2
    <3> QED
      BY <3>2, <3>3 DEF PinInv
  <2>4. SleeperHasWaker'
    BY <1>10, SleepFrame DEF InstallTrans
  <2> QED
    BY <2>1, <2>2, <2>3, <2>4
<1>11. ASSUME NEW p \in Procs, EraseTrans(p) PROVE IInv'
  <2>1. TypeOK'
    BY <1>11 DEF EraseTrans, ClearLog, cacheVars, TypeOK
  <2>2. HeadInv'
    BY <1>11 DEF EraseTrans, ClearLog, HeadInv, Injective
  <2>3. PinInv'
    BY <1>11 DEF EraseTrans, ClearLog, PinInv
  <2>4. SleeperHasWaker'
    BY <1>11 DEF EraseTrans, SleeperHasWaker
  <2> QED
    BY <2>1, <2>2, <2>3, <2>4
<1>12. ASSUME NEW p \in Procs, CommitDone(p) PROVE IInv'
  <2>1. TypeOK'
    BY <1>12, Zenon DEF CommitDone, Wakeup, diskVars, cacheVars, TypeOK
  <2>2. HeadInv'
    BY <1>12 DEF CommitDone, Wakeup, diskVars, HeadInv
  <2>3. PinInv'
    BY <1>12 DEF CommitDone, HeadInv, PinInv
  <2>4. SleeperHasWaker'
    BY <1>12 DEF CommitDone, Wakeup, SleeperHasWaker
  <2> QED
    BY <2>1, <2>2, <2>3, <2>4
<1>13. ASSUME NEW b \in Blocks, CacheFill(b) PROVE IInv'
  <2>1. TypeOK'
    BY <1>13 DEF CacheFill, diskVars, TypeOK
  <2>2. HeadInv'
    BY <1>13, HeadFrame DEF CacheFill, diskVars
  <2>3. PinInv'
    BY <1>13, PinFrame DEF CacheFill
  <2>4. SleeperHasWaker'
    BY <1>13, SleepFrame DEF CacheFill
  <2> QED
    BY <2>1, <2>2, <2>3, <2>4
<1>14. ASSUME NEW b \in Blocks, CacheEvict(b) PROVE IInv'
  <2>1. TypeOK'
    BY <1>14 DEF CacheEvict, diskVars, TypeOK
  <2>2. HeadInv'
    BY <1>14, HeadFrame DEF CacheEvict, diskVars
  <2>3. PinInv'
    BY <1>14, PinFrame DEF CacheEvict
  <2>4. SleeperHasWaker'
    BY <1>14, SleepFrame DEF CacheEvict
  <2> QED
    BY <2>1, <2>2, <2>3, <2>4
<1>15. ASSUME Crash PROVE IInv'
  <2>1. TypeOK'
    <3>1. disk' \in [Blocks -> Data] /\ dlog' \in [Slots -> Data]
      BY <1>15 DEF Crash, TypeOK
    <3>2. <<>> \in Seq(Blocks) /\ InitVal \in Data
      OBVIOUS
    <3> QED
      BY <1>15, <3>2, Zenon DEF Crash, TypeOK
  <2>2. HeadInv'
    BY <1>15 DEF Crash, HeadInv, Injective
  <2>3. PinInv'
    BY <1>15 DEF Crash, PinInv
  <2>4. SleeperHasWaker'
    BY <1>15 DEF Crash, SleeperHasWaker
  <2> QED
    BY <2>1, <2>2, <2>3, <2>4
<1>16. ASSUME ReadHead PROVE IInv'
  <2>1. TypeOK'
    BY <1>16 DEF ReadHead, diskVars, cacheVars, TypeOK
  <2>2. HeadInv'
    BY <1>16 DEF ReadHead, diskVars, CallInv, HeadInv
  <2>3. PinInv'
    BY <1>16 DEF ReadHead, PinInv
  <2>4. SleeperHasWaker'
    BY <1>16, SleepFrame DEF ReadHead
  <2> QED
    BY <2>1, <2>2, <2>3, <2>4
<1>17. ASSUME RecoverInstall PROVE IInv'
  <2>1. TypeOK'
    <3>1. lh[tail + 1] \in Blocks /\ tail + 1 \in 1 .. Len(lh)
      <4>1. lh \in Seq(Blocks) /\ tail \in Nat /\ tail < Len(lh)
        BY <1>17 DEF RecoverInstall, InstallBlock, TypeOK
      <4> QED
        BY <4>1, AtTail
    <3>4. disk' \in [Blocks -> Data] /\ mem' \in [Blocks -> Data]
      <4>1. dlog[tail + 1] \in Data
        BY <3>1 DEF TypeOK, HeadInv, Slots
      <4> QED
        BY <1>17, <4>1 DEF RecoverInstall, InstallBlock, TypeOK
    <3>5. cached' \in SUBSET Blocks /\ tail' \in Nat
      <4>1. /\ cached \in SUBSET Blocks /\ tail \in Nat
            /\ cached' = cached \cup {lh[tail + 1]} /\ tail' = tail + 1
        BY <1>17 DEF RecoverInstall, InstallBlock, TypeOK
      <4> QED
        BY <3>1, <4>1
    <3> QED
      BY <1>17, <3>4, <3>5, SMTT(20) DEF RecoverInstall, InstallBlock, TypeOK
  <2>2. HeadInv'
    BY <1>17, HeadFrame DEF RecoverInstall, InstallBlock
  <2>3. PinInv'
    BY <1>17 DEF RecoverInstall, PinInv
  <2>4. SleeperHasWaker'
    BY <1>17, SleepFrame DEF RecoverInstall
  <2> QED
    BY <2>1, <2>2, <2>3, <2>4
<1>18. ASSUME RecoverClear PROVE IInv'
  <2>1. TypeOK'
    BY <1>18 DEF RecoverClear, ClearLog, cacheVars, TypeOK
  <2>2. HeadInv'
    BY <1>18 DEF RecoverClear, ClearLog, HeadInv, Injective
  <2>3. PinInv'
    BY <1>18 DEF RecoverClear, ClearLog, PinInv
  <2>4. SleeperHasWaker'
    BY <1>18, SleepFrame DEF RecoverClear
  <2> QED
    BY <2>1, <2>2, <2>3, <2>4
<1>19. CASE UNCHANGED vars
  BY <1>19, Zenon
  DEF vars, TypeOK, CallInv, InOp, Committers, HeadInv, PinInv,
      SleeperHasWaker
<1> QED
  BY <1>1, <1>2, <1>3, <1>4, <1>5, <1>6, <1>7, <1>8, <1>9, <1>10,
     <1>11, <1>12, <1>13, <1>14, <1>15, <1>16, <1>17, <1>18, <1>19
  DEF Next, Call, Commit, Recover

-----------------------------------------------------------------------------
(* The contents of the blocks, for the refinement.                         *)

Writing == \E p \in Procs : pc[p] = "write_log"

Installing == boot = "install" \/ \E p \in Procs : pc[p] = "install"

\* Where the newest contents of a block are.  The header on disk is empty
\* except during an installation.  A buffer that is not in the log equals its
\* block on disk; a pinned one is in the cache.  The log on disk has the blocks
\* write_log() has copied, and, during an installation, the newest contents of
\* all blocks of the transaction, which the first `tail' home blocks have too.
DataInv ==
    /\ boot = "read_head" => tail = 0 /\ cached = {}
    /\ boot = "run" /\ ~Installing => dhead = <<>>
    /\ boot # "run" => \A b \in Blocks : pins[b] = 0
    /\ boot = "run" => \A b \in Blocks : pins[b] > 0 => b \in cached
    /\ boot # "read_head"
         => \A b \in cached : b \notin Entries(lh) => mem[b] = disk[b]
    /\ Writing => \A i \in 1 .. Len(lh) : i <= tail => dlog[i] = mem[lh[i]]
    /\ Installing => \A i \in 1 .. Len(lh) :
         /\ i <= tail => disk[lh[i]] = dlog[i]
         /\ i <= tail /\ lh[i] \in cached => mem[lh[i]] = dlog[i]
         /\ i > tail => IF boot = "run" THEN mem[lh[i]] = dlog[i]
                                       ELSE lh[i] \notin cached

LEMMA InitData == Init => DataInv
  BY DEF Init, DataInv, Installing, Writing

\* A committer is alone, and no call is in progress.
LEMMA Alone ==
    ASSUME CallInv, NEW p \in Procs
    PROVE  /\ pc[p] # "idle" => boot = "run"
           /\ pc[p] = "op" => ~Writing /\ ~Installing /\ Committers = {}
           /\ pc[p] = "write_log" => ~Installing
           /\ pc[p] \in {"install", "done"} => ~Writing
           /\ pc[p] = "done" => ~Installing
           /\ pc[p] \in {"write_log", "install", "done"}
                => InOp = {} /\ \A q \in Procs :
                      pc[q] \in {"write_log", "install", "done"} => q = p
<1>1. pc[p] # "idle" => boot = "run"
  BY DEF CallInv
<1>2. pc[p] = "op" => Committers = {}
  BY DEF CallInv, InOp
<1>3. ASSUME pc[p] \in {"write_log", "install", "done"}, NEW q \in Procs,
             pc[q] \in {"write_log", "install", "done"}
      PROVE  q = p /\ InOp = {}
  BY <1>3 DEF CallInv, Committers
<1> QED
  BY <1>1, <1>2, <1>3 DEF Writing, Installing, Committers
LEMMA StepData == IInv /\ DataInv /\ [Next]_vars => DataInv'
<1> SUFFICES ASSUME IInv, DataInv, [Next]_vars PROVE DataInv'
  OBVIOUS
<1>t. TypeOK /\ CallInv /\ HeadInv /\ PinInv
  BY DEF IInv
<1> USE LogConstants
\* The actions that only move processes outside of the commit.
<1>1. ASSUME UNCHANGED <<boot, tail, lh>>, UNCHANGED cacheVars,
             UNCHANGED diskVars, Writing' => Writing, Installing' <=> Installing
      PROVE  DataInv'
  BY <1>1 DEF DataInv, cacheVars, diskVars, Entries
<1>2. ASSUME NEW p \in Procs, BeginOpSleep(p) \/ BeginOp(p) \/ KillSleeper(p)
      PROVE  DataInv'
  <2>1. (Writing' => Writing) /\ (Installing' <=> Installing)
    BY <1>t, <1>2
    DEF BeginOpSleep, BeginOp, KillSleeper, Writing, Installing, TypeOK
  <2> QED
    BY <1>1, <1>2, <2>1 DEF BeginOpSleep, BeginOp, KillSleeper
<1>3. ASSUME NEW p \in Procs, EndOp(p) PROVE DataInv'
  <2>1. (Writing' => Writing) /\ (Installing' <=> Installing)
    BY <1>t, <1>3, Zenon DEF EndOp, Wakeup, Writing, Installing, TypeOK
  <2> QED
    BY <1>1, <1>3, <2>1 DEF EndOp
<1>4. ASSUME NEW p \in Procs, NEW b \in Blocks, LogWritePanic(p, b)
      PROVE  DataInv'
  BY <1>1, <1>4 DEF LogWritePanic, Writing, Installing
<1>5. ASSUME NEW p \in Procs, NEW b \in Blocks, NEW v \in Vals, LogWrite(p, b, v)
      PROVE  DataInv'
  <2>1. ~Writing' /\ ~Installing' /\ ~Installing /\ boot = "run" /\ boot' = "run"
    BY <1>t, <1>5, Alone DEF LogWrite, Writing, Installing
  <2>2. dhead' = <<>> /\ disk' = disk /\ cached' = cached \cup {b}
    BY <1>5, <2>1 DEF LogWrite, diskVars, DataInv
  <2>3. /\ \A c \in Blocks : c # b => mem'[c] = mem[c] /\ pins'[c] = pins[c]
        /\ \A c \in Blocks : c \in Entries(lh)' <=> c \in Entries(lh) \cup {b}
    <3>1. CASE b \in Entries(lh)
      BY <1>t, <1>5, <3>1, SMTT(20) DEF LogWrite, TypeOK, Entries
    <3>2. CASE b \notin Entries(lh)
      <4>1. /\ Len(lh') = Len(lh) + 1 /\ lh'[Len(lh) + 1] = b
            /\ \A i \in 1 .. Len(lh) : lh'[i] = lh[i]
        BY <1>t, <1>5, <3>2 DEF LogWrite, TypeOK
      <4>2. \A c \in Blocks : c \in Entries(lh)' <=> c \in Entries(lh) \cup {b}
        <5>1. 1 .. Len(lh') = (1 .. Len(lh)) \cup {Len(lh) + 1}
          BY <1>t, <4>1 DEF TypeOK
        <5> QED
          BY <4>1, <5>1 DEF Entries
      <4>3. \A c \in Blocks : c # b => mem'[c] = mem[c] /\ pins'[c] = pins[c]
        BY <1>t, <1>5, <3>2 DEF LogWrite, TypeOK
      <4> QED
        BY <4>2, <4>3
    <3> QED
      BY <3>1, <3>2
  <2> QED
    BY <1>t, <2>1, <2>2, <2>3 DEF DataInv, TypeOK
<1>6. ASSUME NEW p \in Procs, EndOpCommit(p) PROVE DataInv'
  <2>1. ~Installing' /\ ~Installing /\ boot = "run" /\ tail' = 0
    BY <1>t, <1>6, Alone DEF EndOpCommit, Running, Installing, TypeOK
  <2> QED
    BY <1>t, <1>6, <2>1
    DEF EndOpCommit, DataInv, cacheVars, diskVars, Entries, TypeOK
<1>7. ASSUME NEW p \in Procs, WriteLog(p) PROVE DataInv'
  <2>1. Writing /\ ~Installing' /\ ~Installing /\ boot = "run"
    BY <1>t, <1>7, Alone DEF WriteLog, Running, Installing, Writing
  <2>2. lh[tail + 1] \in cached
    <3>1. tail + 1 \in 1 .. Len(lh) /\ lh[tail + 1] \in Blocks
      <4>1. lh \in Seq(Blocks) /\ tail \in Nat /\ tail < Len(lh)
        BY <1>t, <1>7 DEF WriteLog, TypeOK
      <4> QED
        BY <4>1, AtTail
    <3> QED
      BY <1>t, <2>1, <3>1 DEF PinInv, Installing, DataInv
  <2>3. \A i \in 1 .. Len(lh) : i <= tail' => dlog'[i] = mem[lh[i]]
    <3> SUFFICES ASSUME NEW i \in 1 .. Len(lh), i <= tail + 1
                 PROVE  dlog'[i] = mem[lh[i]]
      BY <1>7 DEF WriteLog
    <3>1. i \in Slots /\ tail + 1 \in Slots
      <4>1. /\ Len(lh) \in Nat /\ tail \in Nat /\ tail < Len(lh)
            /\ Len(lh) < NLOG /\ NLOG \in Nat
        BY <1>t, <1>7 DEF WriteLog, HeadInv, TypeOK
      <4> QED
        BY <4>1 DEF Slots
    <3> QED
      <4> HIDE Untyped
      <4> QED
        BY <1>t, <1>7, <2>1, <2>2, <3>1 DEF WriteLog, BRead, TypeOK, DataInv
  <2> QED
    BY <1>7, <2>1, <2>3 DEF WriteLog, DataInv, cacheVars, Entries
<1>8. ASSUME NEW p \in Procs, WriteHead(p) PROVE DataInv'
  <2>1. Writing /\ ~Writing' /\ Installing' /\ boot = "run" /\ boot' = "run"
    <3>1. \A q \in Procs : pc[q] = "write_log" => q = p
      BY <1>t, <1>8, Alone DEF WriteHead
    <3> QED
      BY <1>t, <1>8, <3>1 DEF WriteHead, Running, Installing, Writing, TypeOK
  <2> QED
    BY <1>t, <1>8, <2>1 DEF WriteHead, DataInv, cacheVars, Entries, TypeOK
\* One block is installed, by commit() or by recovery.
<1>9. ASSUME InstallBlock, Installing, Installing', ~Writing', boot' = boot,
             boot # "read_head",
             \A b \in Blocks :
                 b # lh[tail + 1] \/ boot # "run" => pins'[b] = pins[b]
      PROVE  DataInv'
  <2> DEFINE c == lh[tail + 1]
  <2>1. tail + 1 \in 1 .. Len(lh) /\ c \in Blocks
    BY <1>t, <1>9 DEF InstallBlock, TypeOK
  <2>2. \A i \in 1 .. Len(lh) : lh[i] = c => i = tail + 1
    BY <1>t, <2>1 DEF HeadInv, Injective
  <2>3. /\ disk'[c] = dlog[tail + 1] /\ mem'[c] = dlog[tail + 1]
        /\ \A b \in Blocks : b # c => disk'[b] = disk[b] /\ mem'[b] = mem[b]
    BY <1>t, <1>9, <2>1 DEF InstallBlock, TypeOK
  <2>4. cached' = cached \cup {c} /\ tail' = tail + 1 /\ lh' = lh /\ dlog' = dlog
    BY <1>9 DEF InstallBlock
  <2>5. \A i \in 1 .. Len(lh) : lh[i] \in Blocks
    BY <1>t DEF TypeOK
  <2>6. \A b \in cached' : b \notin Entries(lh') => mem'[b] = disk'[b]
    <3>1. c \in Entries(lh) /\ cached \subseteq Blocks
      BY <1>t, <2>1 DEF Entries, TypeOK
    <3>2. \A b \in cached : b \notin Entries(lh) => mem[b] = disk[b]
      BY <1>9 DEF DataInv
    <3> QED
      BY <2>3, <2>4, <3>1, <3>2
  <2>7. \A i \in 1 .. Len(lh') :
         /\ i <= tail' => disk'[lh'[i]] = dlog'[i]
         /\ i <= tail' /\ lh'[i] \in cached' => mem'[lh'[i]] = dlog'[i]
         /\ i > tail' => IF boot' = "run" THEN mem'[lh'[i]] = dlog'[i]
                                         ELSE lh'[i] \notin cached'
    <3> SUFFICES ASSUME NEW i \in 1 .. Len(lh)
                 PROVE  /\ i <= tail' => disk'[lh[i]] = dlog[i]
                        /\ i <= tail' /\ lh[i] \in cached' => mem'[lh[i]] = dlog[i]
                        /\ i > tail' => IF boot = "run" THEN mem'[lh[i]] = dlog[i]
                                                       ELSE lh[i] \notin cached'
      BY <1>9, <2>4
    <3>1. CASE i = tail + 1
      BY <1>t, <2>3, <2>4, <3>1 DEF TypeOK
    <3>2. CASE i # tail + 1
      <4>1. lh[i] # c /\ lh[i] \in Blocks
        BY <2>2, <2>5, <3>2
      <4>2. disk'[lh[i]] = disk[lh[i]] /\ mem'[lh[i]] = mem[lh[i]]
        BY <2>3, <4>1
      <4>3. lh[i] \in cached' <=> lh[i] \in cached
        BY <2>4, <4>1
      <4>4. (i <= tail' <=> i <= tail) /\ (i > tail' => i > tail)
        BY <1>t, <2>4, <3>2, SMTT(20) DEF TypeOK
      <4> QED
        BY <1>9, <4>2, <4>3, <4>4 DEF DataInv
    <3> QED
      BY <3>1, <3>2
  <2>8. /\ boot' = "run" => \A b \in Blocks : pins'[b] > 0 => b \in cached'
        /\ boot' # "run" => \A b \in Blocks : pins'[b] = 0
    BY <1>9, <2>4 DEF DataInv
  <2> QED
    BY <1>9, <2>6, <2>7, <2>8 DEF DataInv
<1>10. ASSUME NEW p \in Procs, InstallTrans(p) PROVE DataInv'
  <2>1. /\ Installing /\ Installing' /\ ~Writing' /\ boot' = boot /\ boot = "run"
        /\ InstallBlock
    BY <1>t, <1>10, Alone DEF InstallTrans, Running, Installing, Writing
  <2>2. \A b \in Blocks :
           b # lh[tail + 1] \/ boot # "run" => pins'[b] = pins[b]
    BY <1>t, <1>10, <2>1 DEF InstallTrans, TypeOK
  <2> QED
    BY <1>9, <2>1, <2>2
<1>11. ASSUME RecoverInstall PROVE DataInv'
  BY <1>t, <1>9, <1>11
  DEF RecoverInstall, Installing, Writing, CallInv
\* The transaction is erased.
<1>12. ASSUME ClearLog, Installing, ~Installing', ~Writing', boot' = "run",
              boot # "read_head", UNCHANGED cacheVars,
              boot = "run" \/ \A b \in Blocks : pins[b] = 0
       PROVE  DataInv'
  <2>1. \A b \in cached : mem[b] = disk[b]
    <3> SUFFICES ASSUME NEW b \in cached, b \in Entries(lh)
                 PROVE  mem[b] = disk[b]
      BY <1>12 DEF DataInv
    <3>1. PICK i \in 1 .. Len(lh) : lh[i] = b
      BY DEF Entries
    <3>2. i <= tail
      BY <1>t, <1>12, <3>1 DEF ClearLog, TypeOK
    <3> QED
      BY <1>12, <3>1, <3>2 DEF DataInv
  <2> QED
    BY <1>12, <2>1 DEF ClearLog, DataInv, cacheVars
<1>13. ASSUME NEW p \in Procs, EraseTrans(p) PROVE DataInv'
  <2>1. \A q \in Procs : pc[q] \in {"write_log", "install", "done"} => q = p
    BY <1>t, <1>13, Alone DEF EraseTrans
  <2>2. Installing /\ ~Installing' /\ ~Writing' /\ boot' = "run" /\ boot = "run"
    BY <1>t, <1>13, <2>1 DEF EraseTrans, Running, Installing, Writing, TypeOK
  <2> QED
    BY <1>12, <1>13, <2>2 DEF EraseTrans
<1>14. ASSUME NEW p \in Procs, CommitDone(p) PROVE DataInv'
  <2>1. \A q \in Procs : pc'[q] \in {"write_log", "install"} => pc'[q] = pc[q]
    BY <1>t, <1>14 DEF CommitDone, Wakeup, TypeOK
  <2>2. \A q \in Procs : pc[q] \in {"write_log", "install"} => pc'[q] = pc[q]
    BY <1>t, <1>14 DEF CommitDone, Wakeup, TypeOK
  <2>3. boot' = boot
    BY <1>14 DEF CommitDone
  <2>4. Writing' => Writing
    BY <2>1 DEF Writing
  <2>5. Installing' <=> Installing
    BY <2>1, <2>2, <2>3 DEF Installing
  <2> QED
    BY <1>1, <1>14, <2>4, <2>5 DEF CommitDone
<1>15. ASSUME NEW b \in Blocks, CacheFill(b) PROVE DataInv'
  <2>1. /\ Writing' <=> Writing
        /\ Installing' <=> Installing
        /\ boot = "run" /\ boot' = boot /\ tail' = tail /\ lh' = lh /\ pins' = pins
        /\ disk' = disk /\ dlog' = dlog /\ dhead' = dhead
        /\ cached' = cached \cup {b} /\ b \notin cached
        /\ mem'[b] = disk[b] /\ \A c \in Blocks : c # b => mem'[c] = mem[c]
    BY <1>t, <1>15 DEF CacheFill, Writing, Installing, diskVars, TypeOK
  <2>2. \A i \in 1 .. Len(lh) : lh[i] \in Blocks
    BY <1>t DEF TypeOK
  <2>3. \A i \in 1 .. Len(lh) : lh[i] = b => Installing /\ i <= tail
    <3> SUFFICES ASSUME NEW i \in 1 .. Len(lh), lh[i] = b
                 PROVE  Installing /\ i <= tail
      OBVIOUS
    <3>1. ~ pins[lh[i]] > 0
      BY <1>t, <2>1 DEF DataInv
    <3>2. (\E p \in Procs : pc[p] = "install") /\ ~ i > tail
      BY <1>t, <2>1, <3>1 DEF PinInv
    <3>3. tail \in Nat
      BY <1>t DEF TypeOK
    <3> QED
      BY <3>2, <3>3 DEF Installing
  <2>4. \A c \in cached' : c \notin Entries(lh') => mem'[c] = disk'[c]
    BY <1>t, <2>1 DEF DataInv, Entries, TypeOK
  <2>5. Writing' => \A i \in 1 .. Len(lh') : i <= tail' => dlog'[i] = mem'[lh'[i]]
    <3>1. Writing => ~Installing
      BY <1>t, Alone DEF Writing
    <3> QED
      BY <2>1, <2>2, <2>3, <3>1 DEF DataInv
  <2>6. Installing' => \A i \in 1 .. Len(lh') :
         /\ i <= tail' => disk'[lh'[i]] = dlog'[i]
         /\ i <= tail' /\ lh'[i] \in cached' => mem'[lh'[i]] = dlog'[i]
         /\ i > tail' => IF boot' = "run" THEN mem'[lh'[i]] = dlog'[i]
                                         ELSE lh'[i] \notin cached'
    <3> SUFFICES ASSUME Installing, NEW i \in 1 .. Len(lh)
                 PROVE  /\ i <= tail => disk[lh[i]] = dlog[i]
                        /\ i <= tail /\ lh[i] \in cached' => mem'[lh[i]] = dlog[i]
                        /\ i > tail => mem'[lh[i]] = dlog[i]
      BY <2>1
    <3>1. CASE lh[i] = b
      BY <1>t, <2>1, <2>3, <3>1 DEF DataInv, TypeOK
    <3>2. CASE lh[i] # b
      BY <2>1, <2>2, <3>2 DEF DataInv
    <3> QED
      BY <3>1, <3>2
  <2> QED
    BY <2>1, <2>4, <2>5, <2>6 DEF DataInv
<1>16. ASSUME NEW b \in Blocks, CacheEvict(b) PROVE DataInv'
  <2>1. /\ (Writing' <=> Writing) /\ (Installing' <=> Installing)
        /\ Entries(lh') = Entries(lh)
    BY <1>16 DEF CacheEvict, Writing, Installing
  <2>2. /\ boot = "run" /\ UNCHANGED <<boot, lh, tail, mem, pins, disk, dlog, dhead>>
        /\ cached' = cached \ {b} /\ pins[b] = 0
    BY <1>16 DEF CacheEvict, diskVars
  <2>3. \A c \in Blocks : pins'[c] > 0 => c \in cached'
    BY <2>2 DEF DataInv
  <2>4. \A c \in cached' : c \notin Entries(lh') => mem'[c] = disk'[c]
    BY <2>1, <2>2 DEF DataInv
  <2>5. Writing' => \A i \in 1 .. Len(lh') : i <= tail' => dlog'[i] = mem'[lh'[i]]
    BY <2>1, <2>2 DEF DataInv
  <2>6. Installing' => \A i \in 1 .. Len(lh') :
         /\ i <= tail' => disk'[lh'[i]] = dlog'[i]
         /\ i <= tail' /\ lh'[i] \in cached' => mem'[lh'[i]] = dlog'[i]
         /\ i > tail' => mem'[lh'[i]] = dlog'[i]
    BY <2>1, <2>2 DEF DataInv
  <2>7. boot' = "run" /\ (~Installing' => dhead' = <<>>)
    BY <2>1, <2>2 DEF DataInv
  <2> QED
    BY <2>3, <2>4, <2>5, <2>6, <2>7 DEF DataInv
<1>17. CASE Crash
  BY <1>17 DEF Crash, DataInv, Writing, Installing
<1>18. CASE ReadHead
  <2>1. ~Writing' /\ Installing' /\ cached' = {} /\ boot' = "install" /\ tail' = 0
    BY <1>t, <1>18
    DEF ReadHead, Writing, Installing, CallInv, DataInv, cacheVars
  <2>2. \A b \in Blocks : pins'[b] = 0
    BY <1>18 DEF ReadHead, cacheVars, DataInv
  <2>3. \A i \in 1 .. Len(lh') : i > tail'
    BY <1>t, <1>18, <2>1 DEF ReadHead, TypeOK
  <2> QED
    BY <2>1, <2>2, <2>3 DEF DataInv
<1>19. CASE RecoverClear
  <2>1. Installing /\ ~Installing' /\ ~Writing' /\ boot' = "run"
    BY <1>t, <1>19 DEF RecoverClear, Writing, Installing, CallInv
  <2>2. \A b \in Blocks : pins[b] = 0
    BY <1>19 DEF RecoverClear, DataInv
  <2> QED
    BY <1>12, <1>19, <2>1, <2>2 DEF RecoverClear
<1>20. CASE UNCHANGED vars
  BY <1>1, <1>20 DEF vars, cacheVars, diskVars, Writing, Installing
<1> QED
  BY <1>2, <1>3, <1>4, <1>5, <1>6, <1>7, <1>8, <1>10, <1>11, <1>13, <1>14,
     <1>15, <1>16, <1>17, <1>18, <1>19, <1>20
  DEF Next, Call, Commit, Recover

-----------------------------------------------------------------------------
(* The refinement of AtomicDisk.                                           *)

LEMMA SlotOfEntry ==
    ASSUME NEW h \in Seq(Blocks), Injective(h), NEW i \in 1 .. Len(h)
    PROVE  SlotOf(h, h[i]) = i
  BY DEF Injective, SlotOf

\* What recovery would produce changes only with the header, with a block on
\* disk that the header does not name, or with a log block that it counts.
LEMMA RecoveredFrame ==
    ASSUME IInv, UNCHANGED dhead,
           \A b \in Blocks : b \notin Entries(dhead) => disk'[b] = disk[b],
           \A i \in 1 .. Len(dhead) : dlog'[i] = dlog[i]
    PROVE  Recovered' = Recovered
<1> SUFFICES ASSUME NEW b \in Blocks PROVE Recovered'[b] = Recovered[b]
  BY DEF Recovered
<1>1. CASE b \notin Entries(dhead)
  BY <1>1 DEF Recovered, Entries
<1>2. CASE b \in Entries(dhead)
  <2>1. PICK i \in 1 .. Len(dhead) : dhead[i] = b
    BY <1>2 DEF Entries
  <2>2. SlotOf(dhead, b) = i
    BY <2>1, SlotOfEntry DEF IInv, TypeOK, HeadInv
  <2>3. Recovered[b] = dlog[i]
    BY <1>2, <2>2 DEF Recovered
  <2>4. Recovered'[b] = dlog'[i]
    BY <1>2, <2>2 DEF Recovered, Entries
  <2> QED
    BY <2>3, <2>4
<1> QED
  BY <1>1, <1>2

LEMMA RecoveredEmpty == dhead = <<>> => Recovered = [b \in Blocks |-> disk[b]]
  BY DEF Recovered, Entries

\* During an installation that has written all home blocks, and in a buffer
\* cache without changes, the disk is the recovered image.
LEMMA RecoveredInstalled ==
    ASSUME IInv, DataInv, Installing, tail = Len(lh)
    PROVE  Recovered = [b \in Blocks |-> disk[b]]
<1> SUFFICES ASSUME NEW b \in Blocks, b \in Entries(dhead)
             PROVE  Recovered[b] = disk[b]
  BY DEF Recovered
<1>1. lh = dhead
  BY DEF IInv, HeadInv, Installing
<1>2. PICK i \in 1 .. Len(dhead) : dhead[i] = b
  BY DEF Entries
<1>3. SlotOf(dhead, b) = i
  BY <1>2, SlotOfEntry DEF IInv, TypeOK, HeadInv
<1>4. disk[b] = dlog[i]
  BY <1>1, <1>2 DEF DataInv, IInv, TypeOK
<1> QED
  BY <1>3, <1>4 DEF Recovered

\* While commit() installs, what the calls would read is what recovery would
\* produce.
LEMMA ViewInstalling ==
    ASSUME IInv, DataInv, boot = "run", Installing PROVE View = Recovered
<1> SUFFICES ASSUME NEW b \in Blocks PROVE BRead(b) = Recovered[b]
  BY DEF View, Recovered
<1>1. lh = dhead
  BY DEF IInv, HeadInv, Installing
<1>2. CASE b \notin Entries(dhead)
  BY <1>1, <1>2 DEF BRead, Recovered, DataInv
<1>3. CASE b \in Entries(dhead)
  <2>1. PICK i \in 1 .. Len(dhead) : dhead[i] = b
    BY <1>3 DEF Entries
  <2>2. Recovered[b] = dlog[i]
    <3>1. SlotOf(dhead, b) = i
      BY <2>1, SlotOfEntry DEF IInv, TypeOK, HeadInv
    <3> QED
      BY <1>3, <3>1 DEF Recovered
  <2>3. i > tail => b \in cached
    BY <1>1, <2>1 DEF IInv, PinInv, DataInv, Installing
  <2> QED
    <3> HIDE Untyped
    <3> QED
      BY <1>1, <2>1, <2>2, <2>3 DEF BRead, DataInv, IInv, TypeOK
<1> QED
  BY <1>2, <1>3

Active == {p \in Procs : pc[p] = "op"}

LEMMA RefineInit == Init => Atomic!Init
<1> SUFFICES ASSUME Init PROVE Atomic!Init
  OBVIOUS
<1>1. Recovered = [b \in Blocks |-> InitVal]
  BY RecoveredEmpty DEF Init
<1>2. View = Recovered
  BY DEF Init, View
<1> QED
  BY <1>1, <1>2 DEF Init, Atomic!Init

LEMMA RefineStep ==
    IInv /\ IInv' /\ DataInv /\ [Next]_vars => [Atomic!Next]_(Atomic!vars)
<1> SUFFICES ASSUME IInv, IInv', DataInv, [Next]_vars
             PROVE  Atomic!Next \/ UNCHANGED <<Recovered, View, Active>>
  BY DEF Atomic!vars, Active
<1>t. TypeOK /\ CallInv /\ HeadInv /\ PinInv
  BY DEF IInv
<1>n. DataInv'
  BY StepData
<1> USE LogConstants
<1>1. ASSUME UNCHANGED diskVars PROVE Recovered' = Recovered
  BY <1>1 DEF diskVars, Recovered, Entries
<1>2. ASSUME UNCHANGED boot, UNCHANGED diskVars, UNCHANGED cacheVars
      PROVE  View' = View
  BY <1>1, <1>2 DEF View, BRead, diskVars, cacheVars
<1>3. ASSUME NEW p \in Procs, BeginOpSleep(p) \/ KillSleeper(p)
      PROVE  UNCHANGED <<Recovered, View, Active>>
  <2>1. Active' = Active
    BY <1>t, <1>3 DEF BeginOpSleep, KillSleeper, Active, TypeOK
  <2> QED
    BY <1>1, <1>2, <1>3, <2>1 DEF BeginOpSleep, KillSleeper
<1>4. ASSUME NEW p \in Procs, BeginOp(p) PROVE Atomic!Begin(p)
  <2>1. p \notin Active /\ Active' = Active \cup {p}
    BY <1>t, <1>4 DEF BeginOp, Active, TypeOK
  <2> QED
    BY <1>1, <1>2, <1>4, <2>1 DEF BeginOp, Atomic!Begin, Active
<1>5. ASSUME NEW p \in Procs, NEW b \in Blocks, LogWritePanic(p, b)
      PROVE  UNCHANGED <<Recovered, View, Active>>
  BY <1>1, <1>2, <1>5 DEF LogWritePanic, Active
<1>6. ASSUME NEW p \in Procs, NEW b \in Blocks, NEW v \in Vals, LogWrite(p, b, v)
      PROVE  Atomic!Write(p, b, v)
  <2>1. p \in Active /\ Active' = Active
    BY <1>6 DEF LogWrite, Active
  <2>2. /\ boot = "run" /\ boot' = "run" /\ disk' = disk
        /\ cached' = cached \cup {b} /\ mem'[b] = v
        /\ \A c \in Blocks : c # b => mem'[c] = mem[c]
    BY <1>t, <1>6 DEF LogWrite, Running, diskVars, TypeOK
  <2>3. View' = [c \in Blocks |-> IF c = b THEN v ELSE BRead(c)]
    BY <2>2 DEF View, BRead
  <2>4. View = [c \in Blocks |-> BRead(c)]
    BY <2>2 DEF View
  <2>5. View' = [View EXCEPT ![b] = v]
    BY <2>3, <2>4
  <2> QED
    BY <1>1, <1>6, <2>1, <2>5 DEF LogWrite, Atomic!Write, Active
<1>7. ASSUME NEW p \in Procs, EndOp(p) PROVE Atomic!End(p)
  <2>1. p \in Active /\ Active' = Active \ {p}
    BY <1>t, <1>7 DEF EndOp, Wakeup, Active, TypeOK
  <2>2. Recovered' = Recovered /\ View' = View
    BY <1>1, <1>2, <1>7 DEF EndOp
  <2> QED
    BY <2>1, <2>2 DEF Atomic!End, Active
<1>8. ASSUME NEW p \in Procs, EndOpCommit(p) PROVE Atomic!End(p)
  <2>1. p \in Active /\ Active' = Active \ {p}
    BY <1>t, <1>8 DEF EndOpCommit, Active, TypeOK
  <2> QED
    BY <1>1, <1>2, <1>8, <2>1 DEF EndOpCommit, Atomic!End, Active
<1>9. ASSUME NEW p \in Procs, WriteLog(p)
      PROVE  UNCHANGED <<Recovered, View, Active>>
  <2>1. boot = "run" /\ dhead = <<>>
    BY <1>t, <1>9, Alone DEF WriteLog, Running, DataInv
  <2>2. Recovered' = Recovered
    BY <1>9, <2>1 DEF WriteLog, Recovered, Entries
  <2>3. View' = View
    BY <1>9, <2>1 DEF WriteLog, View, BRead, cacheVars
  <2> QED
    BY <1>9, <2>2, <2>3 DEF WriteLog, Active
\* The header reaches the disk: what the calls have written becomes durable.
<1>10. ASSUME NEW p \in Procs, WriteHead(p) PROVE Atomic!Commit
  <2>1. /\ Active = {} /\ Active' = {} /\ Writing /\ ~Installing
        /\ boot = "run" /\ boot' = "run"
    BY <1>t, <1>10, Alone DEF WriteHead, Running, Active, InOp, Writing, TypeOK
  <2>2. View' = View
    BY <1>10, <2>1 DEF WriteHead, View, BRead, cacheVars
  <2>3. Installing'
    BY <1>t, <1>10 DEF WriteHead, Installing, TypeOK
  <2>4. View' = Recovered'
    <3>1. (IInv /\ DataInv /\ boot = "run" /\ Installing => View = Recovered)'
      BY ViewInstalling, PTL
    <3> QED
      BY <1>n, <2>1, <2>3, <3>1
  <2> QED
    BY <2>1, <2>2, <2>4 DEF Atomic!Commit, Active
\* Installing a block that the header on disk names, and erasing a transaction
\* that is installed, change nothing for recovery.
<1>i. ASSUME InstallBlock, Installing PROVE Recovered' = Recovered
  <2>1. lh = dhead /\ tail + 1 \in 1 .. Len(lh)
    BY <1>t, <1>i DEF HeadInv, Installing, InstallBlock, TypeOK
  <2>2. \A b \in Blocks : b \notin Entries(dhead) => disk'[b] = disk[b]
    BY <1>t, <1>i, <2>1 DEF InstallBlock, Entries, TypeOK
  <2> QED
    BY <1>i, <2>2, RecoveredFrame DEF InstallBlock
<1>e. ASSUME Installing, tail = Len(lh), dhead' = <<>>, disk' = disk
       PROVE  Recovered' = Recovered
  <2>1. Recovered' = [b \in Blocks |-> disk[b]]
    BY <1>e DEF Recovered, Entries
  <2> QED
    BY <1>e, <2>1, RecoveredInstalled
<1>11. ASSUME NEW p \in Procs, InstallTrans(p)
       PROVE  UNCHANGED <<Recovered, View, Active>>
  <2>1. Installing /\ Installing' /\ boot = "run" /\ boot' = "run" /\ InstallBlock
    BY <1>11 DEF InstallTrans, Running, Installing
  <2>2. Recovered' = Recovered
    BY <1>t, <1>i, <2>1
  <2>3. View = Recovered /\ View' = Recovered'
    <3>1. (IInv /\ DataInv /\ boot = "run" /\ Installing => View = Recovered)'
      BY ViewInstalling, PTL
    <3> QED
      BY <1>n, <2>1, <3>1, ViewInstalling
  <2> QED
    BY <1>11, <2>2, <2>3 DEF InstallTrans, Active
<1>12. ASSUME NEW p \in Procs, EraseTrans(p)
       PROVE  UNCHANGED <<Recovered, View, Active>>
  <2>1. /\ Installing /\ boot = "run" /\ boot' = "run" /\ tail = Len(lh)
        /\ dhead' = <<>> /\ disk' = disk /\ UNCHANGED cacheVars
    BY <1>12 DEF EraseTrans, ClearLog, Running, Installing
  <2>2. Recovered' = Recovered
    BY <2>1, <1>e
  <2>3. View' = View
    BY <2>1 DEF View, BRead, cacheVars
  <2>4. Active' = Active
    BY <1>t, <1>12 DEF EraseTrans, Active, TypeOK
  <2> QED
    BY <2>2, <2>3, <2>4
<1>13. ASSUME NEW p \in Procs, CommitDone(p)
       PROVE  UNCHANGED <<Recovered, View, Active>>
  <2>1. Active' = Active
    BY <1>t, <1>13 DEF CommitDone, Wakeup, Active, TypeOK
  <2> QED
    BY <1>1, <1>2, <1>13, <2>1 DEF CommitDone
<1>14. ASSUME NEW b \in Blocks, CacheFill(b)
       PROVE  UNCHANGED <<Recovered, View, Active>>
  <2>1. View' = View
    BY <1>t, <1>14 DEF CacheFill, View, BRead, diskVars, TypeOK
  <2> QED
    BY <1>1, <1>14, <2>1 DEF CacheFill, Active
\* A buffer is recycled: without a pin its block on disk is as new.
<1>15. ASSUME NEW b \in Blocks, CacheEvict(b)
       PROVE  UNCHANGED <<Recovered, View, Active>>
  <2>1. mem[b] = disk[b]
    <3>1. CASE b \notin Entries(lh)
      BY <1>15, <3>1 DEF CacheEvict, DataInv
    <3>2. CASE b \in Entries(lh)
      <4>1. PICK i \in 1 .. Len(lh) : lh[i] = b
        BY <3>2 DEF Entries
      <4>2. Installing /\ i <= tail
        <5> HIDE Untyped
        <5> QED
          BY <1>t, <1>15, <4>1 DEF CacheEvict, PinInv, Installing, TypeOK
      <4> QED
        BY <1>15, <4>1, <4>2 DEF CacheEvict, DataInv
    <3> QED
      BY <3>1, <3>2
  <2>2. View' = View
    BY <1>15, <2>1 DEF CacheEvict, View, BRead, diskVars
  <2> QED
    BY <1>1, <1>15, <2>2 DEF CacheEvict, Active
\* A crash tears at most a block that recovery does not read.
<1>16. CASE Crash
  <2>1. \A b \in Blocks : b \notin Entries(dhead) => disk'[b] = disk[b]
    <3>1. \A b \in HomeInFlight : b \in Entries(dhead)
      <4> HIDE Untyped
      <4> QED
        BY <1>t DEF HomeInFlight, HeadInv, Entries, TypeOK
    <3> QED
      BY <1>16, <3>1 DEF Crash
  <2>2. \A i \in 1 .. Len(dhead) : dlog'[i] = dlog[i]
    <3>1. CASE dhead = <<>>
      BY <3>1
    <3>2. CASE dhead # <<>>
      <4>1. ~Writing
        BY <1>t, <3>2, Alone DEF Writing, DataInv
      <4>2. SlotInFlight = {}
        BY <4>1 DEF SlotInFlight, Writing
      <4>3. \A i \in 1 .. Len(dhead) : i \in Slots
        BY <1>t DEF HeadInv, Slots, TypeOK
      <4> QED
        BY <1>16, <4>2, <4>3 DEF Crash
    <3> QED
      BY <3>1, <3>2
  <2>3. Recovered' = Recovered
    <3>1. dhead' = dhead
      BY <1>16 DEF Crash
    <3> QED
      BY <2>1, <2>2, <3>1, RecoveredFrame
  <2>4. View' = Recovered' /\ Active' = {}
    BY <1>16 DEF Crash, View, Active
  <2>5. Atomic!Crash
    BY <2>3, <2>4 DEF Atomic!Crash, Active
  <2> QED
    BY <2>5 DEF Atomic!Next
<1>17. CASE ReadHead
  <2>1. Recovered' = Recovered
    BY <1>1, <1>17 DEF ReadHead
  <2> QED
    BY <1>17, <2>1 DEF ReadHead, View, Active
<1>18. CASE RecoverInstall
  <2>1. Recovered' = Recovered
    BY <1>18, <1>i DEF RecoverInstall, Installing
  <2> QED
    BY <1>18, <2>1 DEF RecoverInstall, View, Active
<1>19. CASE RecoverClear
  <2>1. /\ Installing /\ boot = "install" /\ boot' = "run" /\ tail = Len(lh)
        /\ dhead' = <<>> /\ disk' = disk /\ UNCHANGED cacheVars
    BY <1>19 DEF RecoverClear, ClearLog, Installing
  <2>2. Recovered' = Recovered /\ Recovered = [b \in Blocks |-> disk[b]]
    BY <2>1, <1>e, RecoveredInstalled
  <2>3. View' = [b \in Blocks |-> disk[b]]
    <3>1. \A b \in cached : mem[b] = disk[b]
      <4> SUFFICES ASSUME NEW b \in cached, b \in Entries(lh)
                   PROVE  mem[b] = disk[b]
        BY <2>1 DEF DataInv
      <4>1. PICK i \in 1 .. Len(lh) : lh[i] = b
        BY DEF Entries
      <4> QED
        BY <1>t, <2>1, <4>1 DEF DataInv, TypeOK
    <3> QED
      BY <2>1, <3>1 DEF View, BRead, cacheVars
  <2> QED
    BY <1>19, <2>1, <2>2, <2>3 DEF RecoverClear, View, Active
<1>20. CASE UNCHANGED vars
  BY <1>1, <1>2, <1>20 DEF vars, diskVars, cacheVars, Active
<1> QED
  BY <1>3, <1>4, <1>5, <1>6, <1>7, <1>8, <1>9, <1>10, <1>11, <1>12, <1>13,
     <1>14, <1>15, <1>16, <1>17, <1>18, <1>19, <1>20
  DEF Next, Call, Commit, Recover, Atomic!Next
=============================================================================
