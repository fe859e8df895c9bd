------------------------------ MODULE LogProofs -----------------------------
(***************************************************************************)
(* The log's invariants and the refinement of AtomicDisk, for any number   *)
(* of processes, blocks and bounds.                                        *)
(***************************************************************************)
EXTENDS LogSteps, FiniteSetTheorems, TLAPS

\* A block more in the log is paid for by a block more of the call.
LEMMA RoomKept ==
  ASSUME NEW l \in Nat, NEW n \in Nat, NEW s \in Nat, NEW c \in Nat,
         l + n <= s + c
  PROVE  l + n <= s + (c + 1) /\ (l + 1) + n <= s + (c + 1)
  OBVIOUS

\* A call that leaves gives back m blocks and takes its w <= m blocks with it.
LEMMA RoomGivenBack ==
  ASSUME NEW l \in Nat, NEW n \in Nat, NEW s \in Nat, NEW c \in Nat,
         NEW m \in Nat, NEW w \in Nat, w <= m, l + (n + m) <= s + (c + w)
  PROVE  l + n <= s + c
  OBVIOUS

\* The room a number of calls reserve.
LEMMA RoomNat == \A c \in Nat : c * MAXOPBLOCKS \in Nat
  BY LogConstants

USE Untyped

LEMMA InitIInv == Init => IInv
<1> SUFFICES ASSUME Init PROVE IInv
  OBVIOUS
<1>1. TypeOK
  <2>1. <<>> \in Seq(Blocks) /\ InitVal \in Data
    BY LogConstants DEF Data
  <2> QED
    BY <2>1, Zenon DEF Init, TypeOK, PCs
<1>2. InOp = {} /\ Committers = {}
  BY DEF Init, InOp, Committers
<1>3. CallInv
  BY <1>2, FS_EmptySet DEF Init, CallInv
<1> QED
  BY <1>1, <1>3, LogConstants
  DEF Init, IInv, HeadInv, PinInv, Injective, SleeperHasWaker

LEMMA InOpFinite == IsFiniteSet(InOp)
  BY LogConstants, FS_Subset DEF InOp

LEMMA StepCall == IInv /\ [Next]_vars => CallInv'
<1> SUFFICES ASSUME IInv, [Next]_vars PROVE CallInv'
  OBVIOUS
<1> USE LogConstants DEF IInv, Running
<1>1. ASSUME NEW p \in Procs, BeginOpSleep(p) PROVE CallInv'
  BY <1>1 DEF BeginOpSleep, CallInv, InOp, Committers
<1>2. ASSUME NEW p \in Procs, BeginOp(p) PROVE CallInv'
  <2>1. InOp' = InOp \cup {p} /\ p \notin InOp /\ Committers' = Committers
    BY <1>2 DEF BeginOp, TypeOK, InOp, Committers
  <2>2. Cardinality(InOp') = Cardinality(InOp) + 1
    BY <2>1, InOpFinite, FS_AddElement, Zenon
  <2> QED
    BY <1>2, <2>1, <2>2 DEF BeginOp, MustWait, CallInv, TypeOK
<1>3. ASSUME NEW p \in Procs, KillSleeper(p) PROVE CallInv'
  BY <1>3 DEF KillSleeper, CallInv, InOp, Committers
<1>4. ASSUME NEW p \in Procs, NEW b \in Blocks, NEW v \in Vals,
             LogWrite(p, b, v)
      PROVE  CallInv'
  BY <1>4, CallFrame DEF LogWrite
<1>5. ASSUME NEW p \in Procs, NEW b \in Blocks, LogWritePanic(p, b) PROVE CallInv'
  BY <1>5, CallFrame DEF LogWritePanic
<1>6. ASSUME NEW p \in Procs, EndOp(p) PROVE CallInv'
  <2>1. InOp' = InOp \ {p} /\ p \in InOp /\ Committers' = {}
    BY <1>6 DEF EndOp, Wakeup, TypeOK, CallInv, InOp, Committers
  <2>2. Cardinality(InOp') = outstanding'
    BY <1>6, <2>1, InOpFinite, FS_RemoveElement, Zenon DEF EndOp, CallInv
  <2>3. InOp' # {}
    <3>1. outstanding' # 0
      BY <1>6 DEF EndOp, TypeOK
    <3> QED
      BY <2>2, <3>1, FS_EmptySet
  <2> QED
    BY <1>6, <2>1, <2>2, <2>3 DEF EndOp, CallInv
<1>7. ASSUME NEW p \in Procs, EndOpCommit(p) PROVE CallInv'
  <2>1. InOp = {p}
    <3>1. p \in InOp /\ Cardinality(InOp) = 1
      BY <1>7 DEF EndOpCommit, CallInv, InOp
    <3> QED
      BY <3>1, InOpFinite, FS_Singleton
  <2>2. InOp' = {} /\ Committers' = {p}
    BY <1>7, <2>1 DEF EndOpCommit, TypeOK, CallInv, InOp, Committers
  <2> QED
    BY <1>7, <2>2, FS_EmptySet DEF EndOpCommit, CallInv
<1>8. ASSUME NEW p \in Procs, WriteLog(p) PROVE CallInv'
  BY <1>8, CallFrame DEF WriteLog
<1>9. ASSUME NEW p \in Procs, WriteHead(p) PROVE CallInv'
  <2>1. InOp' = InOp /\ Committers' = Committers
    BY <1>9 DEF WriteHead, InOp, Committers, TypeOK
  <2> QED
    BY <1>9, <2>1 DEF WriteHead, CallInv
<1>10. ASSUME NEW p \in Procs, InstallTrans(p) PROVE CallInv'
  BY <1>10, CallFrame DEF InstallTrans
<1>11. ASSUME NEW p \in Procs, EraseTrans(p) PROVE CallInv'
  BY <1>11 DEF EraseTrans, CallInv, InOp, Committers
<1>12. ASSUME NEW p \in Procs, CommitDone(p) PROVE CallInv'
  <2>1. InOp' = InOp /\ Committers' = {}
    BY <1>12 DEF CommitDone, Wakeup, TypeOK, CallInv, InOp, Committers
  <2> QED
    BY <1>12, <2>1 DEF CommitDone, CallInv
<1>13. ASSUME NEW b \in Blocks, CacheFill(b) PROVE CallInv'
  BY <1>13, CallFrame DEF CacheFill
<1>14. ASSUME NEW b \in Blocks, CacheEvict(b) PROVE CallInv'
  BY <1>14, CallFrame DEF CacheEvict
<1>15. ASSUME Crash PROVE CallInv'
  <2>1. InOp' = {} /\ Committers' = {}
    BY <1>15 DEF Crash, InOp, Committers
  <2> QED
    BY <1>15, <2>1, FS_EmptySet DEF Crash, CallInv
<1>16. ASSUME ReadHead PROVE CallInv'
  BY <1>16 DEF ReadHead, CallInv, InOp, Committers
<1>17. ASSUME RecoverInstall PROVE CallInv'
  BY <1>17, CallFrame DEF RecoverInstall
<1>18. ASSUME RecoverClear PROVE CallInv'
  BY <1>18 DEF RecoverClear, CallInv, InOp, Committers
<1>19. CASE UNCHANGED vars
  BY <1>19, CallFrame DEF vars
<1> QED
  BY <1>1, <1>2, <1>3, <1>4, <1>5, <1>6, <1>7, <1>8, <1>9, <1>10,
     <1>11, <1>12, <1>13, <1>14, <1>15, <1>16, <1>17, <1>18, <1>19, SMTT(20)
  DEF Next, Call, Commit, Recover

LEMMA StepIInv == IInv /\ [Next]_vars => IInv'
  BY StepRest, StepCall

\* The invariant holds in every reachable state.
THEOREM Invariance == Spec => []IInv
  BY InitIInv, StepIInv, PTL DEF Spec

-----------------------------------------------------------------------------
\* The log's variables keep their types; in particular bunpin() never makes a
\* reference count negative.
THEOREM TypeCorrect == Spec => []TypeOK
  BY Invariance, PTL DEF IInv

\* log.outstanding counts the calls in progress and log.committing stands for
\* exactly one committer, with no call in progress: the panics of end_op() and
\* log_write() about them cannot be reached.
THEOREM CallsAreCounted == Spec => []CallsCounted
<1>1. IInv => CallsCounted
  <2> SUFFICES ASSUME IInv PROVE CallsCounted
    OBVIOUS
  <2>1. Cardinality(Committers) = IF committing THEN 1 ELSE 0
    BY FS_EmptySet, FS_Singleton, Zenon DEF IInv, CallInv
  <2>2. outstanding = Cardinality(InOp) /\ (committing => outstanding = 0)
    BY FS_EmptySet DEF IInv, CallInv
  <2> QED
    BY <2>1, <2>2 DEF CallsCounted, InOp, Committers
<1> QED
  BY <1>1, Invariance, PTL

\* A process asleep in begin_op() always has a call in progress or a commit that
\* wakes it when it ends, whatever the sizes of the log and of the calls.
THEOREM SleepersHaveWakers == Spec => []SleeperHasWaker
  BY Invariance, PTL DEF IInv

\* commit() and recovery write a home block only while the header on disk names
\* it, and a crash can tear no other home block.
THEOREM WritesAhead == Spec => WriteAhead
<1> DEFINE Ahead == \A b \in Blocks : disk'[b] # disk[b] => b \in Entries(dhead)
<1>1. IInv /\ [Next]_vars => [Ahead]_vars
  <2> SUFFICES ASSUME IInv, Next PROVE Ahead
    BY DEF vars
  <2> USE DEF IInv
  <2>1. ASSUME tail < Len(lh),
               boot = "install" \/ \E p \in Procs : pc[p] = "install"
        PROVE  lh[tail + 1] \in Entries(dhead)
    <3> HIDE Untyped
    <3> QED
      BY <2>1 DEF TypeOK, HeadInv, Entries
  <2>2. ASSUME InstallBlock,
               boot = "install" \/ \E p \in Procs : pc[p] = "install"
        PROVE  Ahead
    BY <2>1, <2>2 DEF InstallBlock
  <2>3. CASE Crash
    BY <2>1, <2>3 DEF Crash, HomeInFlight
  <2>4. CASE UNCHANGED disk
    BY <2>4
  <2> QED
    BY <2>2, <2>3, <2>4, ZenonT(30)
    DEF Next, Call, Commit, Recover, BeginOpSleep, BeginOp, KillSleeper,
        LogWrite, LogWritePanic, EndOp, EndOpCommit, WriteLog, WriteHead,
        InstallTrans, EraseTrans, CommitDone, CacheFill, CacheEvict, ReadHead,
        RecoverInstall, RecoverClear, ClearLog, diskVars
<1> QED
  BY <1>1, Invariance, PTL DEF Spec, WriteAhead

\* Where the newest contents of every block are, in the cache, in the log or at
\* home, in every reachable state of log_write(), commit() and recovery.
THEOREM DataInvariance == Spec => []DataInv
  BY InitIInv, StepIInv, InitData, StepData, PTL DEF Spec

\* log.c implements AtomicDisk: for any number of processes and blocks, groups of
\* file system calls become durable all at once at the write of the header, and a
\* crash at any point of log_write(), commit() or recovery, tearing the block in
\* flight, leaves exactly what was durable before it.
THEOREM ImplementsAtomic == Spec => ImplementsAtomicDisk
<1>1. Spec => Atomic!Init
  BY RefineInit DEF Spec
<1>2. Spec => [][Atomic!Next]_(Atomic!vars)
  BY RefineStep, Invariance, DataInvariance, PTL DEF Spec
<1> QED
  BY <1>1, <1>2 DEF ImplementsAtomicDisk, Atomic!Spec

-----------------------------------------------------------------------------
(* The reservation of begin_op().                                          *)

\* The blocks that the calls in progress have written, with their writers.
Written == {pb \in InOp \X Blocks : pb[2] \in wrote[pb[1]]}

\* A call in progress has written at most MAXOPBLOCKS blocks, all of them in the
\* log, and the reservation holds.
ReserveInv ==
    /\ \A p \in InOp : /\ wrote[p] \subseteq Entries(lh)
                       /\ IsFiniteSet(wrote[p])
                       /\ Cardinality(wrote[p]) <= MAXOPBLOCKS
    /\ IsFiniteSet(Written)
    /\ Len(lh) + Cardinality(InOp) * MAXOPBLOCKS <= LOGSIZE + Cardinality(Written)
    /\ Len(dhead) <= LOGSIZE

LEMMA InitReserve == Init => ReserveInv
<1> SUFFICES ASSUME Init PROVE ReserveInv
  OBVIOUS
<1>1. InOp = {} /\ Written = {}
  BY DEF Init, InOp, Written
<1> QED
  BY <1>1, LogConstants, FS_EmptySet DEF Init, ReserveInv

\* Without calls in progress the log fits in the header.
LEMMA NoCallFits ==
    ASSUME IInv, ReserveInv, InOp = {} PROVE Len(lh) <= LOGSIZE
<1>1. Written = {}
  BY DEF Written
<1>2. 0 * MAXOPBLOCKS = 0
  BY LogConstants
<1> QED
  BY <1>1, <1>2, LogConstants, FS_EmptySet DEF ReserveInv, IInv, TypeOK

\* A state without calls in progress whose log fits satisfies the invariant.
LEMMA ReserveEmpty ==
    ASSUME InOp' = {}, Len(lh') <= LOGSIZE, Len(dhead') <= LOGSIZE,
           lh' \in Seq(Blocks)
    PROVE  ReserveInv'
<1>1. Written' = {}
  BY DEF Written
<1>2. 0 * MAXOPBLOCKS = 0
  BY LogConstants
<1> QED
  BY <1>1, <1>2, LogConstants, FS_EmptySet DEF ReserveInv

LEMMA ReserveFrame ==
    ASSUME ReserveInv, UNCHANGED <<wrote, lh, dhead>>, InOp' = InOp
    PROVE  ReserveInv'
  BY DEF ReserveInv, Written, Entries

\* What one call has written is as many pairs as blocks.
LEMMA WrittenByOne ==
    ASSUME NEW p, NEW S, IsFiniteSet(S)
    PROVE  IsFiniteSet({p} \X S) /\ Cardinality({p} \X S) <= Cardinality(S)
<1> DEFINE f == [b \in S |-> <<p, b>>]
<1>1. f \in Surjection(S, {p} \X S)
  <2>1. f \in [S -> {p} \X S]
    OBVIOUS
  <2>2. \A t \in {p} \X S : \E b \in S : f[b] = t
    OBVIOUS
  <2> QED
    BY <2>1, <2>2, Zenon DEF Surjection
<1> QED
  BY <1>1, FS_Surjection

LEMMA StepReserve == IInv /\ ReserveInv /\ [Next]_vars => ReserveInv'
<1> SUFFICES ASSUME IInv, ReserveInv, [Next]_vars PROVE ReserveInv'
  OBVIOUS
<1>t. TypeOK /\ CallInv /\ HeadInv /\ IInv'
  BY StepIInv DEF IInv
<1>c. /\ IsFiniteSet(InOp) /\ Cardinality(InOp) \in Nat
      /\ IsFiniteSet(Written) /\ Cardinality(Written) \in Nat
  BY InOpFinite, FS_CardinalityType DEF ReserveInv
<1> USE LogConstants
<1>1. ASSUME NEW p \in Procs, BeginOpSleep(p) \/ KillSleeper(p) PROVE ReserveInv'
  <2>1. InOp' = InOp
    BY <1>t, <1>1 DEF BeginOpSleep, KillSleeper, InOp, TypeOK
  <2> QED
    BY <1>1, <2>1, ReserveFrame DEF BeginOpSleep, KillSleeper, diskVars
<1>2. ASSUME NEW p \in Procs, BeginOp(p) PROVE ReserveInv'
  <2>1. p \notin InOp /\ InOp' = InOp \cup {p} /\ lh' = lh /\ dhead' = dhead
    BY <1>t, <1>2 DEF BeginOp, InOp, diskVars, TypeOK
  <2>2. wrote'[p] = {} /\ \A q \in InOp : wrote'[q] = wrote[q]
    BY <1>t, <1>2, <2>1 DEF BeginOp, InOp, TypeOK
  <2>3. Written' = Written
    BY <2>1, <2>2 DEF Written
  <2>4. Cardinality(InOp') = Cardinality(InOp) + 1
    <3>1. Cardinality(InOp \cup {p}) = Cardinality(InOp) + 1
      BY <1>c, <2>1, FS_AddElement, Zenon
    <3> QED
      BY <2>1, <3>1
  <2>5. Len(lh) + Cardinality(InOp') * MAXOPBLOCKS <= LOGSIZE
    BY <1>t, <1>2, <2>4 DEF BeginOp, MustWait, CallInv, TypeOK
  <2>6. Len(lh) + Cardinality(InOp') * MAXOPBLOCKS
          <= LOGSIZE + Cardinality(Written')
    <3> DEFINE n == Cardinality(InOp') * MAXOPBLOCKS
    <3>0. Cardinality(InOp') \in Nat /\ Len(lh) \in Nat
      BY <1>t, <1>c, <2>4 DEF TypeOK
    <3>1. n \in Nat
      BY <3>0, RoomNat, Zenon
    <3> HIDE DEF n
    <3>2. Len(lh) + n <= LOGSIZE
      BY <2>5 DEF n
    <3>3. Len(lh) + n <= LOGSIZE + Cardinality(Written')
      BY <1>c, <2>3, <3>0, <3>1, <3>2
    <3> QED
      BY <3>3 DEF n
  <2>7. \A q \in InOp' : /\ wrote'[q] \subseteq Entries(lh')
                         /\ IsFiniteSet(wrote'[q])
                         /\ Cardinality(wrote'[q]) <= MAXOPBLOCKS
    <3>1. Entries(lh') = Entries(lh)
      BY <2>1
    <3>2. IsFiniteSet({}) /\ Cardinality({}) <= MAXOPBLOCKS
      BY FS_EmptySet
    <3> QED
      BY <2>1, <2>2, <3>1, <3>2, Zenon DEF ReserveInv
  <2> QED
    BY <1>c, <2>1, <2>3, <2>6, <2>7 DEF ReserveInv
<1>3. ASSUME NEW p \in Procs, NEW b \in Blocks, LogWritePanic(p, b)
      PROVE  ReserveInv'
  BY <1>3, ReserveFrame DEF LogWritePanic, InOp, diskVars
<1>4. ASSUME NEW p \in Procs, NEW b \in Blocks, NEW v \in Vals, LogWrite(p, b, v)
      PROVE  ReserveInv'
  <2>1. p \in InOp /\ InOp' = InOp /\ dhead' = dhead
    BY <1>4 DEF LogWrite, InOp, diskVars
  <2>2. /\ wrote'[p] = wrote[p] \cup {b}
        /\ \A q \in InOp : q # p => wrote'[q] = wrote[q]
    BY <1>t, <1>4, <2>1 DEF LogWrite, TypeOK, InOp
  <2>3. Written' = Written \cup {<<p, b>>}
    BY <2>1, <2>2 DEF Written
  <2>4. /\ IsFiniteSet(Written')
        /\ Cardinality(Written') =
             IF b \in wrote[p] THEN Cardinality(Written) ELSE Cardinality(Written) + 1
    <3>1. <<p, b>> \in Written <=> b \in wrote[p]
      BY <2>1 DEF Written
    <3> QED
      BY <1>c, <2>3, <3>1, FS_AddElement, Zenon
  <2>5. /\ Entries(lh') = Entries(lh) \cup {b}
        /\ Len(lh') = IF b \in Entries(lh) THEN Len(lh) ELSE Len(lh) + 1
    <3>1. CASE b \in Entries(lh)
      BY <1>4, <3>1 DEF LogWrite
    <3>2. CASE b \notin Entries(lh)
      <4>1. /\ Len(lh') = Len(lh) + 1 /\ lh'[Len(lh) + 1] = b
            /\ \A i \in 1 .. Len(lh) : lh'[i] = lh[i]
        BY <1>t, <1>4, <3>2 DEF LogWrite, TypeOK
      <4>2. 1 .. Len(lh') = (1 .. Len(lh)) \cup {Len(lh) + 1}
        BY <1>t, <4>1 DEF TypeOK
      <4> QED
        BY <3>2, <4>1, <4>2 DEF Entries
    <3> QED
      BY <3>1, <3>2
  <2>6. Len(lh') + Cardinality(InOp') * MAXOPBLOCKS
          <= LOGSIZE + Cardinality(Written')
    <3> DEFINE n == Cardinality(InOp) * MAXOPBLOCKS
    <3>0. Len(lh) \in Nat
      BY <1>t DEF TypeOK
    <3>1. n \in Nat
      BY <1>c, RoomNat, Zenon
    <3>2. Len(lh) + n <= LOGSIZE + Cardinality(Written)
      BY DEF ReserveInv
    <3> HIDE DEF n
    <3>3. b \in wrote[p] => b \in Entries(lh)
      BY <2>1 DEF ReserveInv
    <3>4. Len(lh') + n <= LOGSIZE + Cardinality(Written')
      <4>1. CASE b \in wrote[p]
        BY <2>4, <2>5, <3>2, <3>3, <4>1
      <4>2. CASE b \notin wrote[p]
        <5>1. /\ Len(lh) + n <= LOGSIZE + (Cardinality(Written) + 1)
              /\ (Len(lh) + 1) + n <= LOGSIZE + (Cardinality(Written) + 1)
          BY <1>c, <3>0, <3>1, <3>2, RoomKept
        <5> QED
          BY <2>4, <2>5, <4>2, <5>1
      <4> QED
        BY <4>1, <4>2
    <3> QED
      BY <2>1, <3>4 DEF n
  <2>7. \A q \in InOp' : /\ wrote'[q] \subseteq Entries(lh')
                         /\ IsFiniteSet(wrote'[q])
                         /\ Cardinality(wrote'[q]) <= MAXOPBLOCKS
    <3>1. /\ IsFiniteSet(wrote'[p]) /\ Cardinality(wrote'[p]) <= MAXOPBLOCKS
      <4>1. IsFiniteSet(wrote[p])
        BY <2>1 DEF ReserveInv
      <4>2. IsFiniteSet(wrote[p] \cup {b})
        BY <4>1, FS_AddElement, Zenon
      <4>3. Cardinality(wrote[p] \cup {b}) <= MAXOPBLOCKS
        BY <1>4 DEF LogWrite
      <4> QED
        BY <2>2, <4>2, <4>3
    <3>2. \A q \in InOp : wrote'[q] \subseteq Entries(lh')
      BY <2>1, <2>2, <2>5 DEF ReserveInv
    <3> QED
      BY <2>1, <2>2, <3>1, <3>2, Zenon DEF ReserveInv
  <2> QED
    BY <2>1, <2>4, <2>6, <2>7 DEF ReserveInv
<1>5. ASSUME NEW p \in Procs, EndOp(p) PROVE ReserveInv'
  <2>1. p \in InOp /\ InOp' = InOp \ {p} /\ UNCHANGED <<lh, dhead, wrote>>
    BY <1>t, <1>5 DEF EndOp, Wakeup, InOp, diskVars, TypeOK
  <2> DEFINE W == {p} \X wrote[p]
  <2>2. Written = Written' \cup W /\ Written' \cap W = {} /\ Written' \subseteq Written
    BY <1>t, <2>1 DEF Written, TypeOK
  <2>3. IsFiniteSet(W) /\ Cardinality(W) <= MAXOPBLOCKS /\ Cardinality(W) \in Nat
    <3>1. IsFiniteSet(wrote[p]) /\ Cardinality(wrote[p]) <= MAXOPBLOCKS
      BY <2>1 DEF ReserveInv
    <3>2. IsFiniteSet(W) /\ Cardinality(W) <= Cardinality(wrote[p])
      BY <3>1, WrittenByOne, Zenon
    <3> QED
      BY <3>1, <3>2, FS_CardinalityType
  <2>4. IsFiniteSet(Written') /\ Cardinality(Written') \in Nat
    BY <1>c, <2>2, FS_Subset, FS_CardinalityType
  <2>5. Cardinality(Written) = Cardinality(Written') + Cardinality(W)
    <3>1. Cardinality(Written' \cup W)
            = Cardinality(Written') + Cardinality(W) - Cardinality(Written' \cap W)
      BY <2>3, <2>4, FS_Union
    <3>2. Cardinality(Written' \cap W) = 0
      BY <2>2, FS_EmptySet
    <3>3. Cardinality(Written' \cup W) = Cardinality(Written)
      BY <2>2
    <3> QED
      BY <2>3, <2>4, <3>1, <3>2, <3>3
  <2>6. Cardinality(InOp') = Cardinality(InOp) - 1 /\ Cardinality(InOp') \in Nat
    BY <1>c, <2>1, FS_RemoveElement, FS_CardinalityType
  <2>7. Cardinality(InOp) * MAXOPBLOCKS
          = Cardinality(InOp') * MAXOPBLOCKS + MAXOPBLOCKS
    <3>1. Cardinality(InOp) = Cardinality(InOp') + 1
      BY <1>c, <2>6
    <3> QED
      BY <2>6, <3>1
  <2>8. Len(lh') + Cardinality(InOp') * MAXOPBLOCKS
          <= LOGSIZE + Cardinality(Written')
    <3> DEFINE n == Cardinality(InOp') * MAXOPBLOCKS
    <3>0. Len(lh) \in Nat
      BY <1>t DEF TypeOK
    <3>1. n \in Nat
      BY <2>6, RoomNat, Zenon
    <3>2. Len(lh) + (n + MAXOPBLOCKS)
            <= LOGSIZE + (Cardinality(Written') + Cardinality(W))
      BY <2>5, <2>7 DEF ReserveInv
    <3> HIDE DEF n
    <3>3. Len(lh) + n <= LOGSIZE + Cardinality(Written')
      BY <2>3, <2>4, <3>0, <3>1, <3>2, RoomGivenBack
    <3> QED
      BY <2>1, <3>3 DEF n
  <2> QED
    BY <2>1, <2>4, <2>8 DEF ReserveInv, Entries
<1>6. ASSUME NEW p \in Procs, EndOpCommit(p) PROVE ReserveInv'
  <2>1. p \in InOp /\ InOp' = InOp \ {p} /\ UNCHANGED <<lh, dhead, wrote>>
    BY <1>t, <1>6 DEF EndOpCommit, InOp, diskVars, TypeOK
  <2>2. InOp' = {}
    <3>1. Cardinality(InOp') = 0 /\ IsFiniteSet(InOp')
      <4>1. Cardinality(InOp) = 1
        BY <1>t, <1>6 DEF EndOpCommit, CallInv
      <4>2. IsFiniteSet(InOp \ {p}) /\ Cardinality(InOp \ {p}) = Cardinality(InOp) - 1
        BY <1>c, <2>1, FS_RemoveElement
      <4> QED
        BY <2>1, <4>1, <4>2
    <3> QED
      BY <3>1, FS_EmptySet
  <2>3. Len(lh) <= LOGSIZE
    <3> DEFINE W == {p} \X wrote[p]
    <3>1. InOp = {p}
      BY <2>1, <2>2
    <3>2. Written = W
      BY <1>t, <3>1 DEF Written, TypeOK
    <3>3. IsFiniteSet(W) /\ Cardinality(W) <= MAXOPBLOCKS /\ Cardinality(W) \in Nat
      <4>1. IsFiniteSet(wrote[p]) /\ Cardinality(wrote[p]) <= MAXOPBLOCKS
        BY <2>1 DEF ReserveInv
      <4>2. IsFiniteSet(W) /\ Cardinality(W) <= Cardinality(wrote[p])
        BY <4>1, WrittenByOne, Zenon
      <4> QED
        BY <4>1, <4>2, FS_CardinalityType
    <3>4. Cardinality(InOp) = 1
      BY <3>1, FS_Singleton, Zenon
    <3>5. Len(lh) + 1 * MAXOPBLOCKS <= LOGSIZE + Cardinality(W)
      BY <3>2, <3>4 DEF ReserveInv
    <3> QED
      BY <1>t, <3>3, <3>5 DEF TypeOK
  <2> QED
    BY <1>t, <2>1, <2>2, <2>3, ReserveEmpty DEF ReserveInv, TypeOK
<1>7. ASSUME NEW p \in Procs, WriteLog(p) PROVE ReserveInv'
  BY <1>7, ReserveFrame DEF WriteLog, InOp
<1>8. ASSUME NEW p \in Procs, WriteHead(p) PROVE ReserveInv'
  <2>1. InOp = {} /\ InOp' = {}
    BY <1>t, <1>8, Alone DEF WriteHead, InOp, TypeOK
  <2> QED
    BY <1>t, <1>8, <2>1, NoCallFits, ReserveEmpty DEF WriteHead, TypeOK
<1>9. ASSUME NEW p \in Procs, InstallTrans(p) PROVE ReserveInv'
  BY <1>9, ReserveFrame DEF InstallTrans, InstallBlock, InOp
<1>10. ASSUME NEW p \in Procs, EraseTrans(p) PROVE ReserveInv'
  <2>1. InOp' = {} /\ lh' = <<>> /\ dhead' = <<>>
    BY <1>t, <1>10, Alone DEF EraseTrans, ClearLog, InOp, TypeOK
  <2> QED
    BY <2>1, ReserveEmpty
<1>11. ASSUME NEW p \in Procs, CommitDone(p) PROVE ReserveInv'
  <2>1. InOp' = InOp
    BY <1>t, <1>11 DEF CommitDone, Wakeup, InOp, TypeOK
  <2> QED
    BY <1>11, <2>1, ReserveFrame DEF CommitDone, diskVars
<1>12. ASSUME NEW b \in Blocks, CacheFill(b) \/ CacheEvict(b) PROVE ReserveInv'
  BY <1>12, ReserveFrame DEF CacheFill, CacheEvict, InOp, diskVars
<1>13. CASE Crash
  <2>1. InOp' = {} /\ lh' = <<>> /\ dhead' = dhead
    BY <1>13 DEF Crash, InOp
  <2> QED
    BY <2>1, ReserveEmpty DEF ReserveInv
<1>14. CASE ReadHead
  <2>1. InOp' = {} /\ lh' = dhead /\ dhead' = dhead
    BY <1>t, <1>14 DEF ReadHead, CallInv, InOp, diskVars
  <2> QED
    BY <1>t, <2>1, ReserveEmpty DEF ReserveInv, TypeOK
<1>15. CASE RecoverInstall
  BY <1>15, ReserveFrame DEF RecoverInstall, InstallBlock, InOp
<1>16. CASE RecoverClear
  <2>1. InOp' = {} /\ lh' = <<>> /\ dhead' = <<>>
    BY <1>t, <1>16 DEF RecoverClear, ClearLog, CallInv, InOp
  <2> QED
    BY <2>1, ReserveEmpty
<1>17. CASE UNCHANGED vars
  BY <1>17, ReserveFrame DEF vars, InOp
<1> QED
  BY <1>1, <1>2, <1>3, <1>4, <1>5, <1>6, <1>7, <1>8, <1>9, <1>10, <1>11, <1>12,
     <1>13, <1>14, <1>15, <1>16, <1>17, SMTT(20)
  DEF Next, Call, Commit, Recover

\* begin_op() admits a call only when the blocks it may write fit: for any sizes
\* and any number of concurrent calls, the log and what the calls in progress may
\* still add fit in the header, absorption counted.
THEOREM ReservationsHold == Spec => []ReservationHolds
<1>1. ReserveInv => ReservationHolds
  BY DEF ReserveInv, ReservationHolds, Written, InOp
<1> QED
  BY <1>1, InitIInv, StepIInv, InitReserve, StepReserve, PTL DEF Spec
-----------------------------------------------------------------------------
\* The loops of write_log() and install_trans() are running.
Looping == boot = "install" \/ \E p \in Procs : pc[p] \in {"write_log", "install"}

\* With HeadInv, the bounds of the log; a reboot starts its loop at 0.
BoundInv ==
    /\ Len(lh) <= LOGSIZE /\ Len(dhead) <= LOGSIZE
    /\ boot = "read_head" => tail = 0
    /\ Looping => tail <= Len(lh)

LEMMA InitBound == Init => BoundInv
  BY LogConstants DEF Init, BoundInv, Looping

\* A step that leaves the headers and the loop alone and starts no loop.
LEMMA BoundFrame ==
    BoundInv /\ UNCHANGED <<boot, lh, dhead, tail>> /\ (Looping' => Looping)
        => BoundInv'
  BY DEF BoundInv

LEMMA StepBound == IInv /\ BoundInv /\ [Next]_vars => BoundInv'
<1> SUFFICES ASSUME IInv, BoundInv, [Next]_vars PROVE BoundInv'
  OBVIOUS
<1>t. TypeOK
  BY DEF IInv
<1>n. Len(lh) \in Nat /\ Len(dhead) \in Nat
  BY <1>t DEF TypeOK
<1> USE LogConstants
<1>1. ASSUME NEW p \in Procs,
             BeginOpSleep(p) \/ BeginOp(p) \/ KillSleeper(p) \/ EndOp(p) \/ CommitDone(p)
      PROVE  BoundInv'
  <2>1. UNCHANGED <<boot, lh, dhead, tail>>
    BY <1>1 DEF BeginOpSleep, BeginOp, KillSleeper, EndOp, CommitDone, diskVars
  <2>2. \A q \in Procs : pc'[q] \in {"write_log", "install"} => pc'[q] = pc[q]
    BY <1>t, <1>1
    DEF BeginOpSleep, BeginOp, KillSleeper, EndOp, CommitDone, Wakeup, TypeOK
  <2> QED
    BY <2>1, <2>2, BoundFrame DEF Looping
<1>2. ASSUME NEW p \in Procs, NEW b \in Blocks, NEW v \in Vals, LogWrite(p, b, v)
      PROVE  BoundInv'
  <2>1. UNCHANGED <<boot, pc, dhead, tail>> /\ Len(lh) < LOGSIZE
    BY <1>n, <1>2 DEF LogWrite, LogFull, diskVars
  <2>2. lh' = lh \/ lh' = Append(lh, b)
    BY <1>2 DEF LogWrite
  <2>3. Len(lh') \in {Len(lh), Len(lh) + 1}
    BY <1>t, <2>2 DEF TypeOK
  <2>4. tail \in Nat
    BY <1>t DEF TypeOK
  <2> QED
    BY <1>n, <2>1, <2>3, <2>4 DEF BoundInv, Looping
<1>3. ASSUME NEW p \in Procs, NEW b \in Blocks, LogWritePanic(p, b) PROVE BoundInv'
  BY <1>3, BoundFrame DEF LogWritePanic, diskVars, Looping
<1>4. ASSUME NEW p \in Procs, EndOpCommit(p) PROVE BoundInv'
  BY <1>n, <1>4 DEF EndOpCommit, diskVars, BoundInv, Running
<1>5. ASSUME NEW p \in Procs, WriteLog(p) PROVE BoundInv'
  <2>1. boot = "run" /\ tail' = tail + 1 /\ tail < Len(lh) /\ UNCHANGED <<boot, lh, dhead>>
    BY <1>5 DEF WriteLog, Running
  <2> QED
    BY <1>t, <1>n, <2>1 DEF BoundInv, TypeOK
<1>6. ASSUME NEW p \in Procs, WriteHead(p) PROVE BoundInv'
  BY <1>n, <1>6 DEF WriteHead, BoundInv, Running
<1>7. CASE RecoverInstall \/ \E p \in Procs : InstallTrans(p)
  <2>1. /\ boot # "read_head" /\ tail' = tail + 1 /\ tail < Len(lh)
        /\ UNCHANGED <<boot, lh, dhead>>
    BY <1>7 DEF RecoverInstall, InstallTrans, InstallBlock, Running
  <2> QED
    BY <1>t, <1>n, <2>1 DEF BoundInv, TypeOK
<1>8. ASSUME NEW p \in Procs, EraseTrans(p) PROVE BoundInv'
  <2>1. boot' = "run" /\ lh' = <<>> /\ dhead' = <<>>
    BY <1>8 DEF EraseTrans, ClearLog, Running
  <2>2. Committers' = Committers /\ pc'[p] = "done" /\ pc[p] = "install"
    BY <1>t, <1>8 DEF EraseTrans, Committers, TypeOK
  <2>3. \A q \in Procs : pc'[q] \notin {"write_log", "install"}
    BY <2>2 DEF IInv, CallInv, Committers
  <2> QED
    BY <2>1, <2>3 DEF BoundInv, Looping
<1>9. CASE RecoverClear
  <2>1. boot' = "run" /\ lh' = <<>> /\ dhead' = <<>>
    BY <1>9 DEF RecoverClear, ClearLog
  <2>2. \A q \in Procs : pc'[q] = "idle"
    BY <1>9 DEF RecoverClear, IInv, CallInv
  <2> QED
    BY <2>1, <2>2 DEF BoundInv, Looping
<1>10. CASE Crash
  <2>1. /\ lh' = <<>> /\ dhead' = dhead /\ tail' = 0
        /\ boot' = "read_head" /\ \A q \in Procs : pc'[q] = "idle"
    BY <1>10 DEF Crash
  <2> QED
    BY <2>1 DEF BoundInv, Looping
<1>11. CASE ReadHead
  <2>1. lh' = dhead /\ dhead' = dhead /\ tail' = 0 /\ boot' = "install"
    BY <1>11 DEF ReadHead, BoundInv, diskVars
  <2> QED
    BY <1>n, <2>1 DEF BoundInv
<1>12. CASE UNCHANGED vars \/ \E b \in Blocks : CacheFill(b) \/ CacheEvict(b)
  BY <1>12, BoundFrame DEF vars, CacheFill, CacheEvict, diskVars, Looping
<1> QED
  BY <1>1, <1>2, <1>3, <1>4, <1>5, <1>6, <1>7, <1>8, <1>9, <1>10, <1>11, <1>12
  DEF Next, Call, Commit, Recover

\* log_write() never lets the header grow past the struct or past the blocks mkfs
\* gave the log, and write_log() and install_trans(), in commit() and in recovery
\* after any crash, touch only log blocks that the header names.
THEOREM StaysWithinLog == Spec => []WithinLog
<1>1. IInv /\ BoundInv => WithinLog
  <2> SUFFICES ASSUME IInv, BoundInv PROVE WithinLog
    OBVIOUS
  <2>1. Len(lh) \in Nat /\ Len(dhead) \in Nat /\ Len(lh) < NLOG /\ Len(dhead) < NLOG
    BY DEF IInv, TypeOK, HeadInv
  <2> QED
    BY <2>1, LogConstants DEF BoundInv, Looping, WithinLog
<1> QED
  BY <1>1, InitIInv, StepIInv, InitBound, StepBound, PTL DEF Spec
=============================================================================
