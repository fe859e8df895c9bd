----------------------------- MODULE PipeProofs -----------------------------
(***************************************************************************)
(* For any number of processes and any sizes of the ring and its counters: *)
(* the pipe's page is freed once and not used after, nobody sleeps through *)
(* a chance to go on, and the ring is a bounded FIFO.                      *)
(***************************************************************************)
EXTENDS Pipe, FiniteSetTheorems, TLAPS

LEMMA IncType == ASSUME NEW x \in 0 .. UINT - 1 PROVE Inc(x) \in 0 .. UINT - 1
  BY PipeConstants DEF Inc

\* A truth that has no type.  With it in view tlapm translates obligations for
\* the SMT solver without inferring types, which is several times faster here.
LEMMA Untyped == \A x : x \in x \/ x \notin x
  OBVIOUS

USE Untyped

ReadPCs == {"r_lock", "r_test", "r_sleep", "r_asleep", "r_copy"}
WritePCs == {"w_lock", "w_test", "w_sleep", "w_asleep"}

\* Where pi->lock is held.
LockPCs == {"r_test", "w_test", "r_sleep", "w_sleep", "r_copy"}

\* A process in piperead() or pipewrite() has its end open.
PcInv ==
    /\ \A p \in Procs : pc[p] \in ReadPCs => p \in Readers /\ p \in holds
    /\ \A p \in Procs : pc[p] \in WritePCs => p \in Writers /\ p \in holds
    /\ \A p \in Procs : lock = p <=> pc[p] \in LockPCs

\* One end, with its processes S and its struct file's count: it is open in the
\* pipe as long as one of them has it, or is the last, on its way to pipeclose().
EndInv(S, e, open) ==
    /\ fref[e] = Cardinality(holds \cap S)
    /\ \A p \in S : pc[p] = "closing" => fref[e] = 0 /\ open
    /\ \A p, q \in S : pc[p] = "closing" /\ pc[q] = "closing" => p = q
    /\ fref[e] > 0 => open
    /\ open => fref[e] > 0 \/ \E p \in S : pc[p] = "closing"

FileInv ==
    /\ EndInv(Readers, "read", readopen)
    /\ EndInv(Writers, "write", writeopen)
    /\ freed = IF readopen \/ writeopen THEN 0 ELSE 1

\* The inductive invariant.
IInv == TypeOK /\ PcInv /\ FileInv

-----------------------------------------------------------------------------
LEMMA ProcSets ==
  /\ Readers \cap Writers = {} /\ None \notin Readers \cup Writers
  /\ Killable \subseteq Readers \cup Writers /\ MaxN \in Nat
  BY PipeConstants DEF Procs

LEMMA EndsFinite ==
  /\ IsFiniteSet(holds \cap Readers) /\ Cardinality(holds \cap Readers) \in Nat
  /\ IsFiniteSet(holds \cap Writers) /\ Cardinality(holds \cap Writers) \in Nat
  BY PipeConstants, FS_Subset, FS_CardinalityType

\* What an action that opens and closes nothing leaves alone.
LEMMA FileFrame ==
  ASSUME FileInv, UNCHANGED <<readopen, writeopen>>, UNCHANGED fileVars,
         \A p \in Procs : pc'[p] = "closing" <=> pc[p] = "closing"
  PROVE  FileInv'
<1>1. EndInv(Readers, "read", readopen)'
  BY DEF FileInv, EndInv, fileVars, Procs
<1>2. EndInv(Writers, "write", writeopen)'
  BY DEF FileInv, EndInv, fileVars, Procs
<1> QED
  BY <1>1, <1>2 DEF FileInv, fileVars

LEMMA InitIInv == Init => IInv
<1> SUFFICES ASSUME Init PROVE IInv
  OBVIOUS
<1> USE PipeConstants DEF Init
<1>1. PICK r \in Readers, w \in Writers : holds = {r, w}
  OBVIOUS
<1>2. TypeOK
  BY <1>1 DEF TypeOK, PCs, Procs
<1>3. PcInv
  BY DEF PcInv, ReadPCs, WritePCs, LockPCs, Procs
<1>4. FileInv
  <2>1. holds \cap Readers = {r} /\ holds \cap Writers = {w}
    <3> HIDE Untyped
    <3> QED
      BY <1>1, Zenon
  <2>2. Cardinality({r}) = 1 /\ Cardinality({w}) = 1
    BY FS_Singleton, Zenon
  <2>3. /\ fref["read"] = 1 /\ fref["write"] = 1
        /\ readopen /\ writeopen
        /\ \A p \in Procs : pc[p] # "closing"
    OBVIOUS
  <2> HIDE DEF Init
  <2>4. /\ fref["read"] = Cardinality(holds \cap Readers)
        /\ fref["write"] = Cardinality(holds \cap Writers)
    BY <2>1, <2>2, <2>3, Zenon
  <2>5. EndInv(Readers, "read", readopen) /\ EndInv(Writers, "write", writeopen)
    BY <2>3, <2>4 DEF EndInv, Procs
  <2> QED
    BY <2>5, Zenon DEF FileInv, Init
<1> QED
  BY <1>2, <1>3, <1>4 DEF IInv

LEMMA StepIInv == IInv /\ [Next]_vars => IInv'
<1> SUFFICES ASSUME IInv, [Next]_vars PROVE IInv'
  OBVIOUS
<1>t. TypeOK /\ PcInv /\ FileInv
  BY DEF IInv
<1> USE ProcSets DEF Procs
<1>1. ASSUME NEW p \in Procs, Call(p) PROVE IInv'
  <2>1. TypeOK'
    BY <1>t, <1>1 DEF Call, Goto, TypeOK, PCs, pipeVars, fileVars
  <2>2. PcInv'
    BY <1>t, <1>1
    DEF Call, Goto, TypeOK, PcInv, ReadPCs, WritePCs, LockPCs, fileVars
  <2>3. FileInv'
    BY <1>t, <1>1, FileFrame DEF Call, Goto, TypeOK, pipeVars
  <2> QED
    BY <2>1, <2>2, <2>3 DEF IInv
<1>2. ASSUME NEW p \in Procs, Acquire(p) PROVE IInv'
  <2>1. TypeOK'
    BY <1>t, <1>2 DEF Acquire, Goto, TypeOK, PCs, pipeVars, fileVars
  <2>2. PcInv'
    BY <1>t, <1>2
    DEF Acquire, Goto, TypeOK, PcInv, ReadPCs, WritePCs, LockPCs, fileVars
  <2>3. FileInv'
    BY <1>t, <1>2, FileFrame DEF Acquire, Goto, TypeOK, pipeVars
  <2> QED
    BY <2>1, <2>2, <2>3 DEF IInv
<1>3. ASSUME NEW p \in Procs, Sleep(p) PROVE IInv'
  <2>1. TypeOK'
    BY <1>t, <1>3 DEF Sleep, Goto, TypeOK, PCs, pipeVars, fileVars
  <2>2. PcInv'
    BY <1>t, <1>3
    DEF Sleep, Goto, TypeOK, PcInv, ReadPCs, WritePCs, LockPCs, fileVars
  <2>3. FileInv'
    BY <1>t, <1>3, FileFrame DEF Sleep, Goto, TypeOK, pipeVars
  <2> QED
    BY <2>1, <2>2, <2>3 DEF IInv
<1>4. ASSUME NEW p \in Procs, WriteGiveUp(p) \/ ReadGiveUp(p) PROVE IInv'
  <2>1. TypeOK'
    <3>1. CASE WriteGiveUp(p)
      BY <1>t, <3>1
      DEF WriteGiveUp, Return, Goto, TypeOK, PCs, pipeVars, fileVars
    <3>2. CASE ReadGiveUp(p)
      BY <1>t, <3>2
      DEF ReadGiveUp, Return, Goto, TypeOK, PCs, pipeVars, fileVars
    <3> QED
      BY <1>4, <3>1, <3>2
  <2>2. PcInv'
    <3> HIDE Untyped
    <3> QED
      BY <1>t, <1>4, SMTT(20)
      DEF WriteGiveUp, ReadGiveUp, Return, Goto, TypeOK, PcInv, ReadPCs, WritePCs,
          LockPCs, fileVars
  <2>3. FileInv'
    BY <1>t, <1>4, FileFrame DEF WriteGiveUp, ReadGiveUp, Goto, TypeOK, pipeVars
  <2> QED
    BY <2>1, <2>2, <2>3 DEF IInv
<1>5. ASSUME NEW p \in Procs, WriteFull(p) PROVE IInv'
  <2>1. TypeOK'
    BY <1>t, <1>5 DEF WriteFull, WakeReaders, TypeOK, PCs, pipeVars, fileVars
  <2>2. PcInv'
    BY <1>t, <1>5
    DEF WriteFull, WakeReaders, TypeOK, PcInv, ReadPCs, WritePCs, LockPCs,
        fileVars
  <2>3. FileInv'
    BY <1>t, <1>5, FileFrame DEF WriteFull, WakeReaders, TypeOK, pipeVars
  <2> QED
    BY <2>1, <2>2, <2>3 DEF IInv
<1>6. ASSUME NEW p \in Procs, WriteByte(p) PROVE IInv'
  <2>1. TypeOK'
    <3>1. PICK b \in Byte : data' = [data EXCEPT ![nwrite % PIPESIZE] = b]
      BY <1>6, Zenon DEF WriteByte
    <3>2. nwrite' \in 0 .. UINT - 1
      BY <1>t, <1>6, IncType DEF WriteByte, TypeOK
    <3>3. data' \in [0 .. PIPESIZE - 1 -> Byte]
      BY <1>t, <3>1, Zenon DEF TypeOK
    <3>4. left' \in [Procs -> 0 .. MaxN]
      BY <1>t, <1>6 DEF WriteByte, TypeOK
    <3> QED
      BY <1>t, <1>6, <3>2, <3>3, <3>4 DEF WriteByte, TypeOK, fileVars
  <2>2. PcInv'
    BY <1>t, <1>6 DEF WriteByte, PcInv, fileVars
  <2>3. FileInv'
    BY <1>t, <1>6, FileFrame DEF WriteByte
  <2> QED
    BY <2>1, <2>2, <2>3 DEF IInv
<1>7. ASSUME NEW p \in Procs, WriteDone(p) PROVE IInv'
  <2>1. TypeOK'
    BY <1>t, <1>7
    DEF WriteDone, WakeReaders, Return, TypeOK, PCs, pipeVars, fileVars
  <2>2. PcInv'
    BY <1>t, <1>7
    DEF WriteDone, WakeReaders, Return, TypeOK, PcInv, ReadPCs, WritePCs,
        LockPCs, fileVars
  <2>3. FileInv'
    BY <1>t, <1>7, FileFrame DEF WriteDone, WakeReaders, TypeOK, pipeVars
  <2> QED
    BY <2>1, <2>2, <2>3 DEF IInv
<1>8. ASSUME NEW p \in Procs, ReadEmpty(p) \/ ReadStart(p) PROVE IInv'
  <2>1. TypeOK'
    BY <1>t, <1>8
    DEF ReadEmpty, ReadStart, Goto, TypeOK, PCs, pipeVars, fileVars
  <2>2. PcInv'
    BY <1>t, <1>8
    DEF ReadEmpty, ReadStart, Goto, TypeOK, PcInv, ReadPCs, WritePCs, LockPCs,
        fileVars
  <2>3. FileInv'
    BY <1>t, <1>8, FileFrame DEF ReadEmpty, ReadStart, Goto, TypeOK, pipeVars
  <2> QED
    BY <2>1, <2>2, <2>3 DEF IInv
<1>9. ASSUME NEW p \in Procs, ReadByte(p) PROVE IInv'
  <2>1. TypeOK'
    <3>1. nread' \in 0 .. UINT - 1
      BY <1>t, <1>9, IncType DEF ReadByte, TypeOK
    <3> QED
      <4>1. left' \in [Procs -> 0 .. MaxN]
        BY <1>t, <1>9 DEF ReadByte, TypeOK
      <4> QED
        BY <1>t, <1>9, <3>1, <4>1 DEF ReadByte, TypeOK, fileVars
  <2>2. PcInv'
    BY <1>t, <1>9 DEF ReadByte, PcInv, fileVars
  <2>3. FileInv'
    BY <1>t, <1>9, FileFrame DEF ReadByte
  <2> QED
    BY <2>1, <2>2, <2>3 DEF IInv
<1>10. ASSUME NEW p \in Procs, ReadFault(p) PROVE IInv'
  <2>1. TypeOK'
    <3>1. nread' \in 0 .. UINT - 1
      BY <1>t, <1>10, IncType DEF ReadFault, TypeOK
    <3> QED
      BY <1>t, <1>10, <3>1
      DEF ReadFault, WakeWriters, Return, TypeOK, PCs, fileVars
  <2>2. PcInv'
    BY <1>t, <1>10
    DEF ReadFault, WakeWriters, Return, TypeOK, PcInv, ReadPCs, WritePCs,
        LockPCs, fileVars
  <2>3. FileInv'
    BY <1>t, <1>10, FileFrame DEF ReadFault, WakeWriters, TypeOK
  <2> QED
    BY <2>1, <2>2, <2>3 DEF IInv
<1>11. ASSUME NEW p \in Procs, ReadDone(p) PROVE IInv'
  <2>1. TypeOK'
    BY <1>t, <1>11
    DEF ReadDone, WakeWriters, Return, TypeOK, PCs, pipeVars, fileVars
  <2>2. PcInv'
    BY <1>t, <1>11
    DEF ReadDone, WakeWriters, Return, TypeOK, PcInv, ReadPCs, WritePCs,
        LockPCs, fileVars
  <2>3. FileInv'
    BY <1>t, <1>11, FileFrame DEF ReadDone, WakeWriters, TypeOK, pipeVars
  <2> QED
    BY <2>1, <2>2, <2>3 DEF IInv
<1>12. ASSUME NEW p \in Procs, NEW q \in Procs, Fork(p, q) PROVE IInv'
  <2>1. TypeOK'
    <3>1. fref' \in [{"read", "write"} -> Nat]
      BY <1>t, <1>12, SMTT(20) DEF Fork, End, TypeOK
    <3> QED
      BY <1>t, <1>12, <3>1 DEF Fork, TypeOK, pipeVars
  <2>2. PcInv'
    BY <1>t, <1>12 DEF Fork, PcInv
  <2>3. CASE p \in Readers
    <3>1. /\ holds' \cap Readers = (holds \cap Readers) \cup {q}
          /\ q \notin holds \cap Readers
          /\ holds' \cap Writers = holds \cap Writers
      BY <1>12, <2>3 DEF Fork, End
    <3>2. Cardinality(holds' \cap Readers) = Cardinality(holds \cap Readers) + 1
      BY <3>1, EndsFinite, FS_AddElement, Zenon
    <3>3. fref["read"] > 0
      BY <1>t, <1>12, <2>3, EndsFinite, FS_EmptySet DEF Fork, FileInv, EndInv
    <3>4. EndInv(Readers, "read", readopen)'
      BY <1>t, <1>12, <2>3, <3>2, <3>3, EndsFinite
      DEF Fork, End, FileInv, EndInv, TypeOK, pipeVars
    <3>5. EndInv(Writers, "write", writeopen)'
      BY <1>t, <1>12, <2>3, <3>1, Zenon
      DEF Fork, End, FileInv, EndInv, TypeOK, pipeVars
    <3> QED
      BY <1>t, <1>12, <2>1, <2>2, <3>4, <3>5 DEF Fork, FileInv, IInv, pipeVars
  <2>4. CASE p \in Writers
    <3>1. /\ holds' \cap Writers = (holds \cap Writers) \cup {q}
          /\ q \notin holds \cap Writers
          /\ holds' \cap Readers = holds \cap Readers
      BY <1>12, <2>4 DEF Fork, End
    <3>2. Cardinality(holds' \cap Writers) = Cardinality(holds \cap Writers) + 1
      BY <3>1, EndsFinite, FS_AddElement, Zenon
    <3>3. fref["write"] > 0
      BY <1>t, <1>12, <2>4, EndsFinite, FS_EmptySet DEF Fork, FileInv, EndInv
    <3>4. EndInv(Writers, "write", writeopen)'
      BY <1>t, <1>12, <2>4, <3>2, <3>3, EndsFinite
      DEF Fork, End, FileInv, EndInv, TypeOK, pipeVars
    <3>5. EndInv(Readers, "read", readopen)'
      BY <1>t, <1>12, <2>4, <3>1, Zenon
      DEF Fork, End, FileInv, EndInv, TypeOK, pipeVars
    <3> QED
      BY <1>t, <1>12, <2>1, <2>2, <3>4, <3>5 DEF Fork, FileInv, IInv, pipeVars
  <2> QED
    BY <2>3, <2>4
<1>13. ASSUME NEW p \in Procs, Close(p) PROVE IInv'
  <2>2. PcInv'
    BY <1>t, <1>13 DEF Close, Goto, TypeOK, PcInv, ReadPCs, WritePCs, LockPCs
  <2>3. CASE p \in Readers
    <3>1. /\ holds' \cap Readers = (holds \cap Readers) \ {p}
          /\ p \in holds \cap Readers
          /\ holds' \cap Writers = holds \cap Writers
      BY <1>13, <2>3 DEF Close
    <3>2. Cardinality(holds' \cap Readers) = Cardinality(holds \cap Readers) - 1
      <4>1. Cardinality((holds \cap Readers) \ {p}) = Cardinality(holds \cap Readers) - 1
        BY <3>1, EndsFinite, FS_RemoveElement, Zenon
      <4> QED
        BY <3>1, <4>1, Zenon
    <3>3. fref["read"] > 0
      BY <1>t, <3>1, EndsFinite, FS_EmptySet DEF FileInv, EndInv
    <3>4. EndInv(Readers, "read", readopen)'
      BY <1>t, <1>13, <2>3, <3>2, <3>3, EndsFinite
      DEF Close, Goto, End, FileInv, EndInv, TypeOK, pipeVars
    <3>5. EndInv(Writers, "write", writeopen)'
      <4> HIDE Untyped
      <4> QED
        BY <1>t, <1>13, <2>3, <3>1, Zenon
        DEF Close, Goto, End, FileInv, EndInv, TypeOK, pipeVars
    <3>6. TypeOK'
      <4> HIDE Untyped
      <4> QED
        BY <1>t, <1>13, <2>3, <3>3 DEF Close, Goto, End, TypeOK, PCs, pipeVars
    <3> QED
      BY <1>t, <1>13, <2>2, <3>4, <3>5, <3>6 DEF Close, FileInv, IInv, pipeVars
  <2>4. CASE p \in Writers
    <3>1. /\ holds' \cap Writers = (holds \cap Writers) \ {p}
          /\ p \in holds \cap Writers
          /\ holds' \cap Readers = holds \cap Readers
      BY <1>13, <2>4 DEF Close
    <3>2. Cardinality(holds' \cap Writers) = Cardinality(holds \cap Writers) - 1
      <4>1. Cardinality((holds \cap Writers) \ {p}) = Cardinality(holds \cap Writers) - 1
        BY <3>1, EndsFinite, FS_RemoveElement, Zenon
      <4> QED
        BY <3>1, <4>1, Zenon
    <3>3. fref["write"] > 0
      BY <1>t, <3>1, EndsFinite, FS_EmptySet DEF FileInv, EndInv
    <3>4. EndInv(Writers, "write", writeopen)'
      BY <1>t, <1>13, <2>4, <3>2, <3>3, EndsFinite
      DEF Close, Goto, End, FileInv, EndInv, TypeOK, pipeVars
    <3>5. EndInv(Readers, "read", readopen)'
      <4> HIDE Untyped
      <4> QED
        BY <1>t, <1>13, <2>4, <3>1, Zenon
        DEF Close, Goto, End, FileInv, EndInv, TypeOK, pipeVars
    <3>6. TypeOK'
      <4> HIDE Untyped
      <4> QED
        BY <1>t, <1>13, <2>4, <3>3 DEF Close, Goto, End, TypeOK, PCs, pipeVars
    <3> QED
      BY <1>t, <1>13, <2>2, <3>4, <3>5, <3>6 DEF Close, FileInv, IInv, pipeVars
  <2> QED
    BY <2>3, <2>4
<1>14. ASSUME NEW p \in Procs, PipeClose(p) PROVE IInv'
  <2>1. CASE p \in Readers
    <3>1. /\ readopen' = FALSE /\ writeopen' = writeopen
          /\ freed' = IF writeopen THEN freed ELSE freed + 1
          /\ fref' = fref /\ holds' = holds
          /\ \A q \in Procs : pc'[q] = "closing" <=> pc[q] = "closing" /\ q # p
      BY <1>t, <1>14, <2>1 DEF PipeClose, WakeWriters, TypeOK
    <3>2. /\ readopen /\ fref["read"] = 0
          /\ \A q \in Readers : pc[q] = "closing" => q = p
      BY <1>t, <1>14, <2>1 DEF PipeClose, FileInv, EndInv
    <3>3. EndInv(Readers, "read", readopen)'
      BY <1>t, <3>1, <3>2 DEF FileInv, EndInv
    <3>4. EndInv(Writers, "write", writeopen)'
      BY <1>t, <2>1, <3>1 DEF FileInv, EndInv
    <3>5. TypeOK'
      <4>1. pc' \in [Procs -> PCs]
        BY <1>t, <1>14, <2>1 DEF PipeClose, WakeWriters, TypeOK, PCs
      <4>2. freed' \in Nat
        BY <1>t, <3>1 DEF TypeOK
      <4> QED
        BY <1>t, <1>14, <3>1, <4>1, <4>2, Zenon DEF PipeClose, TypeOK
    <3>6. PcInv'
      <4> HIDE Untyped
      <4> QED
        BY <1>t, <1>14, <2>1
        DEF PipeClose, WakeWriters, TypeOK, PcInv, ReadPCs, WritePCs, LockPCs
    <3> QED
      BY <1>t, <3>1, <3>2, <3>3, <3>4, <3>5, <3>6 DEF FileInv, IInv
  <2>2. CASE p \in Writers
    <3>1. /\ writeopen' = FALSE /\ readopen' = readopen
          /\ freed' = IF readopen THEN freed ELSE freed + 1
          /\ fref' = fref /\ holds' = holds
          /\ \A q \in Procs : pc'[q] = "closing" <=> pc[q] = "closing" /\ q # p
      BY <1>t, <1>14, <2>2 DEF PipeClose, WakeReaders, TypeOK
    <3>2. /\ writeopen /\ fref["write"] = 0
          /\ \A q \in Writers : pc[q] = "closing" => q = p
      BY <1>t, <1>14, <2>2 DEF PipeClose, FileInv, EndInv
    <3>3. EndInv(Writers, "write", writeopen)'
      BY <1>t, <3>1, <3>2 DEF FileInv, EndInv
    <3>4. EndInv(Readers, "read", readopen)'
      BY <1>t, <2>2, <3>1 DEF FileInv, EndInv
    <3>5. TypeOK'
      <4>1. pc' \in [Procs -> PCs]
        BY <1>t, <1>14, <2>2 DEF PipeClose, WakeReaders, TypeOK, PCs
      <4>2. freed' \in Nat
        BY <1>t, <3>1 DEF TypeOK
      <4> QED
        BY <1>t, <1>14, <3>1, <4>1, <4>2, Zenon DEF PipeClose, TypeOK
    <3>6. PcInv'
      BY <1>t, <1>14, <2>2
      DEF PipeClose, WakeReaders, TypeOK, PcInv, ReadPCs, WritePCs, LockPCs
    <3> QED
      BY <1>t, <3>1, <3>2, <3>3, <3>4, <3>5, <3>6 DEF FileInv, IInv
  <2> QED
    BY <2>1, <2>2
<1>15. ASSUME NEW p \in Procs, Kill(p) PROVE IInv'
  <2>1. TypeOK'
    BY <1>t, <1>15 DEF Kill, TypeOK, PCs, pipeVars, fileVars
  <2>2. PcInv'
    BY <1>t, <1>15 DEF Kill, TypeOK, PcInv, ReadPCs, WritePCs, LockPCs, fileVars
  <2>3. FileInv'
    BY <1>t, <1>15, FileFrame DEF Kill, TypeOK, pipeVars
  <2> QED
    BY <2>1, <2>2, <2>3 DEF IInv
<1>16. CASE UNCHANGED vars
  <2>1. TypeOK' /\ PcInv'
    BY <1>t, <1>16 DEF vars, TypeOK, PcInv
  <2>2. FileInv'
    BY <1>t, <1>16, FileFrame DEF vars, fileVars
  <2> QED
    BY <2>1, <2>2 DEF IInv
<1> QED
  BY <1>1, <1>2, <1>3, <1>4, <1>5, <1>6, <1>7, <1>8, <1>9, <1>10, <1>11, <1>12,
     <1>13, <1>14, <1>15, <1>16
  DEF Next, Step, Write, Read

\* The inductive invariant holds in every state the pipe reaches.
THEOREM Invariance == Spec => []IInv
  BY InitIInv, StepIInv, PTL DEF Spec

\* The pipe's fields, counters and processes keep their types.
THEOREM TypeCorrect == Spec => []TypeOK
<1>1. IInv => TypeOK
  BY DEF IInv
<1> QED
  BY <1>1, Invariance, PTL

\* fileclose() and pipeclose() free the page once, after the last process has left
\* the pipe, in whatever order the two ends are closed.
THEOREM PageFreedOnce == Spec => []NoUseAfterFree
<1>1. ASSUME IInv PROVE NoUseAfterFree
  <2> USE <1>1 DEF IInv
  <2>1. freed <= 1
    BY DEF FileInv
  <2>2. ASSUME freed = 1
        PROVE  holds = {} /\ \A p \in Procs : pc[p] = "out"
    <3>1. ~readopen /\ ~writeopen
      BY <2>2 DEF FileInv
    <3>2. Cardinality(holds \cap Readers) = 0 /\ Cardinality(holds \cap Writers) = 0
      BY <3>1, EndsFinite DEF FileInv, EndInv
    <3>3. holds \cap Readers = {} /\ holds \cap Writers = {}
      BY <3>2, EndsFinite, FS_EmptySet
    <3>4. holds = {}
      BY <3>3 DEF TypeOK, Procs
    <3>5. \A p \in Procs : pc[p] # "closing"
      BY <3>1 DEF FileInv, EndInv, Procs
    <3> QED
      BY <3>4, <3>5 DEF PcInv, TypeOK, PCs, ReadPCs, WritePCs
  <2>3. freed = 1 => lock = None
    <3>1. lock \in Procs \cup {None}
      BY DEF TypeOK
    <3> QED
      BY <2>2, <3>1 DEF PcInv, LockPCs
  <2> QED
    BY <2>1, <2>2, <2>3 DEF FileInv, EndInv, NoUseAfterFree
<1> QED
  BY <1>1, Invariance, PTL

-----------------------------------------------------------------------------
(* Sleeping and waking.                                                    *)

\* Why a process sleeps, or is about to.  A reader in its copying loop, which has
\* made room, will wake the writers, and a writer, which has put bytes into the
\* pipe, the readers.
SleepInv ==
    /\ \A p \in Procs : killed[p] => p \in Killable
    /\ \A w \in Writers :
          /\ pc[w] = "w_sleep" => readopen /\ Full
          /\ pc[w] = "w_asleep"
               => readopen /\ (Full \/ \E r \in Readers : pc[r] = "r_copy")
    /\ \A r \in Readers :
          /\ pc[r] = "r_sleep" => writeopen /\ Empty
          /\ pc[r] = "r_asleep"
               => writeopen /\ (Empty \/ \E w \in Writers : pc[w] = "w_test")

\* An end that a process has open is open in the pipe.
LEMMA HeldIsOpen ==
  IInv => /\ \A r \in Readers : r \in holds => readopen
          /\ \A w \in Writers : w \in holds => writeopen
<1> SUFFICES ASSUME IInv
             PROVE  /\ \A r \in Readers : r \in holds => readopen
                    /\ \A w \in Writers : w \in holds => writeopen
  OBVIOUS
<1>1. ASSUME NEW r \in Readers, r \in holds PROVE readopen
  <2>1. r \in holds \cap Readers
    BY <1>1
  <2>2. Cardinality(holds \cap Readers) > 0
    BY <2>1, EndsFinite, FS_EmptySet
  <2> QED
    BY <2>2 DEF IInv, FileInv, EndInv
<1>2. ASSUME NEW w \in Writers, w \in holds PROVE writeopen
  <2>1. w \in holds \cap Writers
    BY <1>2
  <2>2. Cardinality(holds \cap Writers) > 0
    BY <2>1, EndsFinite, FS_EmptySet
  <2> QED
    BY <2>2 DEF IInv, FileInv, EndInv
<1> QED
  BY <1>1, <1>2

LEMMA OneLocks ==
  IInv => \A p, q \in Procs : pc[p] \in LockPCs /\ pc[q] \in LockPCs => p = q
  BY DEF IInv, PcInv

LEMMA StepSleep ==
  ASSUME Killable \subseteq Readers, IInv, SleepInv, [Next]_vars
  PROVE  SleepInv'
<1>t. TypeOK /\ PcInv
  BY DEF IInv
<1> USE ProcSets DEF Procs
<1>1. ASSUME NEW p \in Procs, Call(p) PROVE SleepInv'
  BY <1>t, <1>1 DEF Call, Goto, TypeOK, pipeVars, SleepInv, Full, Empty
<1>2. ASSUME NEW p \in Procs, Acquire(p) PROVE SleepInv'
  BY <1>t, <1>2 DEF Acquire, Goto, TypeOK, pipeVars, SleepInv, Full, Empty
<1>3. ASSUME NEW p \in Procs, Sleep(p) PROVE SleepInv'
  BY <1>t, <1>3
  DEF Sleep, Goto, TypeOK, pipeVars, SleepInv, Full, Empty, PcInv, ReadPCs,
      WritePCs
<1>4. ASSUME NEW p \in Procs, WriteGiveUp(p) PROVE SleepInv'
  <2>1. p \in Writers /\ ~killed[p] /\ ~readopen
    BY <1>t, <1>4 DEF WriteGiveUp, PcInv, WritePCs, SleepInv
  <2>2. \A r \in Readers : pc[r] \notin ReadPCs
    BY <1>t, <2>1, HeldIsOpen DEF PcInv
  <2> QED
    BY <1>t, <1>4, <2>1, <2>2
    DEF WriteGiveUp, Goto, TypeOK, pipeVars, SleepInv, Full, Empty, ReadPCs
<1>5. ASSUME NEW p \in Procs, ReadGiveUp(p) PROVE SleepInv'
  <2>1. \A r \in Readers : pc[r] # "r_copy"
    BY <1>t, <1>5, OneLocks DEF ReadGiveUp, LockPCs
  <2> QED
    BY <1>t, <1>5, <2>1
    DEF ReadGiveUp, Goto, TypeOK, pipeVars, SleepInv, Full, Empty
<1>6. ASSUME NEW p \in Procs, WriteFull(p) PROVE SleepInv'
  <2>1. p \in Writers /\ \A q \in Procs : pc[q] \in LockPCs => q = p
    BY <1>t, <1>6, OneLocks DEF WriteFull, PcInv, WritePCs, LockPCs
  <2>2. \A r \in Readers : pc'[r] # "r_asleep" /\ pc'[r] # "r_sleep"
    BY <1>t, <1>6, <2>1 DEF WriteFull, WakeReaders, LockPCs, TypeOK
  <2>3. readopen /\ Full /\ UNCHANGED <<killed, readopen, nread, nwrite>>
    BY <1>6 DEF WriteFull, pipeVars
  <2> QED
    BY <1>t, <2>2, <2>3 DEF SleepInv, Full
<1>7. ASSUME NEW p \in Procs, WriteByte(p) PROVE SleepInv'
  <2>1. p \in Writers /\ \A q \in Procs : pc[q] \in LockPCs => q = p
    BY <1>t, <1>7, OneLocks DEF WriteByte, PcInv, WritePCs, LockPCs
  <2>2. \A w \in Writers : pc[w] # "w_asleep" /\ pc[w] # "w_sleep"
    BY <1>t, <1>7, <2>1 DEF WriteByte, SleepInv, LockPCs
  <2>3. \A r \in Readers : pc[r] # "r_sleep"
    BY <1>7, <2>1 DEF WriteByte, LockPCs
  <2> QED
    BY <1>t, <1>7, <2>1, <2>2, <2>3 DEF WriteByte, SleepInv
<1>8. ASSUME NEW p \in Procs, WriteDone(p) PROVE SleepInv'
  <2>1. p \in Writers /\ \A q \in Procs : pc[q] \in LockPCs => q = p
    BY <1>t, <1>8, OneLocks DEF WriteDone, PcInv, WritePCs, LockPCs
  <2>2. \A r \in Readers : pc'[r] # "r_asleep" /\ pc'[r] # "r_sleep"
    BY <1>t, <1>8, <2>1 DEF WriteDone, WakeReaders, LockPCs, TypeOK
  <2>3. \A w \in Writers : /\ pc'[w] # "w_sleep"
                           /\ pc'[w] = "w_asleep" => pc[w] = "w_asleep"
    BY <1>t, <1>8, <2>1 DEF WriteDone, WakeReaders, LockPCs, TypeOK
  <2>4. \A r \in Readers : pc[r] # "r_copy"
    BY <1>8, <2>1 DEF WriteDone, LockPCs
  <2>5. UNCHANGED <<killed, readopen, nread, nwrite>>
    BY <1>8 DEF WriteDone, pipeVars
  <2> QED
    BY <2>2, <2>3, <2>4, <2>5 DEF SleepInv, Full
<1>9. ASSUME NEW p \in Procs, ReadEmpty(p) PROVE SleepInv'
  <2>1. p \in Readers /\ \A q \in Procs : pc[q] \in LockPCs => q = p
    BY <1>t, <1>9, OneLocks DEF ReadEmpty, PcInv, ReadPCs, LockPCs
  <2> QED
    BY <1>t, <1>9, <2>1
    DEF ReadEmpty, Goto, TypeOK, pipeVars, SleepInv, Full, Empty, LockPCs
<1>10. ASSUME NEW p \in Procs, ReadStart(p) PROVE SleepInv'
  <2>1. p \in Readers /\ \A q \in Procs : pc[q] \in LockPCs => q = p
    BY <1>t, <1>10, OneLocks DEF ReadStart, PcInv, ReadPCs, LockPCs
  <2> QED
    BY <1>t, <1>10, <2>1
    DEF ReadStart, Goto, TypeOK, pipeVars, SleepInv, Full, Empty, LockPCs
<1>11. ASSUME NEW p \in Procs, ReadByte(p) PROVE SleepInv'
  <2>1. p \in Readers /\ \A q \in Procs : pc[q] \in LockPCs => q = p
    BY <1>t, <1>11, OneLocks DEF ReadByte, PcInv, ReadPCs, LockPCs
  <2>2. \A r \in Readers : pc[r] # "r_asleep" /\ pc[r] # "r_sleep"
    BY <1>t, <1>11, <2>1 DEF ReadByte, SleepInv, LockPCs
  <2>3. \A w \in Writers : pc[w] # "w_sleep"
    BY <1>11, <2>1 DEF ReadByte, LockPCs
  <2> QED
    BY <1>t, <1>11, <2>1, <2>2, <2>3 DEF ReadByte, SleepInv
<1>12. ASSUME NEW p \in Procs, ReadFault(p) \/ ReadDone(p) PROVE SleepInv'
  <2>1. p \in Readers /\ \A q \in Procs : pc[q] \in LockPCs => q = p
    BY <1>t, <1>12, OneLocks DEF ReadFault, ReadDone, PcInv, ReadPCs, LockPCs
  <2>2. /\ pc' = WakeWriters(p, "out") /\ pc[p] = "r_copy"
        /\ UNCHANGED <<killed, writeopen>>
    BY <1>12 DEF ReadFault, ReadDone, pipeVars
  <2>3. \A w \in Writers : pc'[w] # "w_asleep" /\ pc'[w] # "w_sleep"
    BY <1>t, <2>1, <2>2 DEF WakeWriters, LockPCs, TypeOK
  <2>4. \A r \in Readers : /\ pc'[r] # "r_sleep"
                           /\ pc'[r] = "r_asleep" => pc[r] = "r_asleep"
    BY <1>t, <2>1, <2>2 DEF WakeWriters, LockPCs, TypeOK
  <2>5. ASSUME NEW r \in Readers, pc[r] = "r_asleep" PROVE Empty' /\ writeopen
    <3>1. Empty /\ writeopen
      BY <2>1, <2>2, <2>5 DEF SleepInv, LockPCs
    <3> QED
      BY <1>12, <3>1 DEF ReadFault, ReadDone, pipeVars, Empty
  <2> QED
    BY <2>2, <2>3, <2>4, <2>5 DEF SleepInv
<1>13. ASSUME NEW p \in Procs, NEW q \in Procs, Fork(p, q) PROVE SleepInv'
  BY <1>t, <1>13 DEF Fork, TypeOK, pipeVars, SleepInv, Full, Empty
<1>14. ASSUME NEW p \in Procs, Close(p) PROVE SleepInv'
  BY <1>t, <1>14 DEF Close, Goto, TypeOK, pipeVars, SleepInv, Full, Empty
<1>15. ASSUME NEW p \in Procs, PipeClose(p) PROVE SleepInv'
  <2>0. \A q \in Procs : pc[q] \notin LockPCs
    BY <1>t, <1>15 DEF PipeClose, PcInv
  <2>1. CASE p \in Readers
    <3>1. \A q \in Procs : /\ pc'[q] # "w_asleep" /\ pc'[q] # "w_sleep"
                           /\ pc'[q] # "r_sleep"
                           /\ pc'[q] = "r_asleep" => pc[q] = "r_asleep"
      BY <1>t, <1>15, <2>0, <2>1 DEF PipeClose, WakeWriters, TypeOK, LockPCs
    <3>2. UNCHANGED <<killed, writeopen, nread, nwrite>>
      BY <1>15, <2>1 DEF PipeClose
    <3> QED
      BY <2>0, <3>1, <3>2 DEF SleepInv, Empty, LockPCs
  <2>2. CASE p \in Writers
    <3>1. \A q \in Procs : /\ pc'[q] # "r_asleep" /\ pc'[q] # "r_sleep"
                           /\ pc'[q] # "w_sleep"
                           /\ pc'[q] = "w_asleep" => pc[q] = "w_asleep"
      <4>1. pc \in [Procs -> PCs] /\ pc' = WakeReaders(p, "out")
        BY <1>t, <1>15, <2>2 DEF PipeClose, TypeOK
      <4> QED
        BY <2>0, <4>1 DEF WakeReaders, LockPCs
    <3>2. UNCHANGED <<killed, readopen, nread, nwrite>>
      BY <1>15, <2>2 DEF PipeClose
    <3> QED
      BY <2>0, <3>1, <3>2 DEF SleepInv, Full, LockPCs
  <2> QED
    BY <2>1, <2>2
<1>16. ASSUME NEW p \in Procs, Kill(p) PROVE SleepInv'
  BY <1>t, <1>16 DEF Kill, TypeOK, pipeVars, SleepInv, Full, Empty
<1>17. CASE UNCHANGED vars
  BY <1>17 DEF vars, SleepInv, Full, Empty
<1> QED
  BY <1>1, <1>2, <1>3, <1>4, <1>5, <1>6, <1>7, <1>8, <1>9, <1>10, <1>11, <1>12,
     <1>13, <1>14, <1>15, <1>16, <1>17
  DEF Next, Step, Write, Read

\* As long as no writer is killed, every change of the pipe that lets a sleeping
\* reader or writer go on is followed by its wakeup() before pi->lock is released.
THEOREM NobodySleepsThrough ==
  ASSUME Killable \subseteq Readers
  PROVE  Spec => []SleepersBlocked
<1>1. Init => SleepInv
  BY DEF Init, SleepInv, Procs
<1>2. IInv /\ SleepInv /\ [Next]_vars => SleepInv'
  BY StepSleep
<1>3. IInv /\ SleepInv => SleepersBlocked
  <2> SUFFICES ASSUME IInv, SleepInv, lock = None PROVE SleepersBlocked
    BY DEF SleepersBlocked
  <2>1. \A p \in Procs : pc[p] \notin LockPCs
    BY PipeConstants DEF IInv, PcInv
  <2> QED
    BY <2>1 DEF SleepInv, SleepersBlocked, LockPCs, Procs
<1> QED
  BY <1>1, <1>2, <1>3, Invariance, PTL DEF Spec

-----------------------------------------------------------------------------
(* Arithmetic of the wrapping counters.                                    *)

HIDE Untyped

LEMMA ModWraps ==
  ASSUME NEW x \in Nat, NEW n \in Nat, n > 0, x < 2 * n
  PROVE  x % n = IF x < n THEN x ELSE x - n
  OBVIOUS

LEMMA DivMod ==
  ASSUME NEW x \in Nat, NEW n \in Nat, n > 0
  PROVE  x \div n \in Int /\ x = n * (x \div n) + (x % n) /\ x % n \in 0 .. n - 1
  OBVIOUS

LEMMA SmallMultiple ==
  ASSUME NEW z \in Int, NEW n \in Nat, n > 0, n * z < n, -n < n * z
  PROVE  z = 0
  OBVIOUS

\* UINT is a multiple of PIPESIZE, so that positions in the ring survive the
\* wrapping of the counters.
LEMMA ModAddMultiple ==
  ASSUME NEW x \in Nat, NEW m \in Nat, NEW n \in Nat, n > 0, m % n = 0
  PROVE  (x + m) % n = x % n
<1> DEFINE a == (x + m) \div n
           b == x \div n
           c == m \div n
           r == (x + m) % n
           s == x % n
<1>1. a \in Int /\ x + m = n * a + r /\ r \in 0 .. n - 1
  BY DivMod
<1>2. b \in Int /\ x = n * b + s /\ s \in 0 .. n - 1
  BY DivMod
<1>3. c \in Int /\ m = n * c
  BY DivMod
<1> HIDE DEF a, b, c, r, s
<1>4. n * (a - b - c) = s - r
  BY <1>1, <1>2, <1>3
<1>5. a - b - c = 0
  BY <1>1, <1>2, <1>3, <1>4, SmallMultiple
<1> QED
  BY <1>1, <1>2, <1>4, <1>5 DEF r, s

LEMMA ModApart ==
  ASSUME NEW x \in Nat, NEW y \in Nat, NEW n \in Nat, n > 0, x < y, y < x + n
  PROVE  x % n # y % n
<1> DEFINE a == x \div n
           b == y \div n
           r == x % n
           s == y % n
<1>1. a \in Int /\ x = n * a + r /\ r \in 0 .. n - 1
  BY DivMod
<1>2. b \in Int /\ y = n * b + s /\ s \in 0 .. n - 1
  BY DivMod
<1> HIDE DEF a, b, r, s
<1>3. ASSUME r = s PROVE FALSE
  <2>1. n * (b - a) = y - x
    BY <1>1, <1>2, <1>3
  <2>2. b - a = 0
    BY <1>1, <1>2, <2>1, SmallMultiple
  <2> QED
    BY <1>1, <1>2, <2>1, <2>2
<1> QED
  BY <1>3 DEF r, s

-----------------------------------------------------------------------------
(* The ring is a bounded FIFO.                                             *)

RingInv == Count <= PIPESIZE

LEMMA Sizes == PIPESIZE \in Nat /\ UINT \in Nat /\ 0 < PIPESIZE /\ PIPESIZE < UINT
  BY PipeConstants

\* A position in the ring does not change when a counter wraps.
LEMMA SamePlace == ASSUME NEW x \in Nat PROVE (x + UINT) % PIPESIZE = x % PIPESIZE
<1>1. UINT % PIPESIZE = 0
  BY PipeConstants
<1>2. PIPESIZE \in Nat /\ UINT \in Nat /\ PIPESIZE > 0
  BY Sizes
<1> QED
  BY <1>1, <1>2, ModAddMultiple, Zenon


LEMMA CountIs ==
  TypeOK => /\ Count \in 0 .. UINT - 1
            /\ Count = IF nread <= nwrite THEN nwrite - nread
                                          ELSE nwrite + UINT - nread
<1> SUFFICES ASSUME TypeOK
             PROVE  /\ Count \in 0 .. UINT - 1
                    /\ Count = IF nread <= nwrite THEN nwrite - nread
                                                  ELSE nwrite + UINT - nread
  OBVIOUS
<1> DEFINE d == nwrite + UINT - nread
<1>1. /\ nread \in 0 .. UINT - 1 /\ nwrite \in 0 .. UINT - 1
      /\ d \in Nat /\ d < 2 * UINT
  BY Sizes DEF TypeOK
<1> HIDE DEF d
<1>2. d % UINT = IF d < UINT THEN d ELSE d - UINT
  BY <1>1, ModWraps, Sizes
<1>3. Count = IF d < UINT THEN d ELSE d - UINT
  BY <1>2 DEF Count, d
<1> QED
  BY <1>1, <1>3, Sizes DEF d

LEMMA FullEmpty ==
  TypeOK => (Full <=> Count = PIPESIZE) /\ (Empty <=> Count = 0)
<1> SUFFICES ASSUME TypeOK
             PROVE  (Full <=> Count = PIPESIZE) /\ (Empty <=> Count = 0)
  OBVIOUS
<1> DEFINE f == nread + PIPESIZE
<1>1. /\ nread \in 0 .. UINT - 1 /\ nwrite \in 0 .. UINT - 1
      /\ f \in Nat /\ f < 2 * UINT
  BY Sizes DEF TypeOK
<1> HIDE DEF f
<1>2. f % UINT = IF f < UINT THEN f ELSE f - UINT
  BY <1>1, ModWraps, Sizes
<1>3. Full <=> nwrite = IF f < UINT THEN f ELSE f - UINT
  BY <1>2 DEF Full, f
<1>4. Count = IF nread <= nwrite THEN nwrite - nread ELSE nwrite + UINT - nread
  BY CountIs
<1> HIDE DEF Count, Full
<1> QED
  BY <1>1, <1>3, <1>4, Sizes DEF Empty, f

LEMMA IncWraps ==
  ASSUME NEW x \in 0 .. UINT - 1
  PROVE  Inc(x) = IF x = UINT - 1 THEN 0 ELSE x + 1
  BY ModWraps, Sizes DEF Inc

LEMMA QueueType == TypeOK => Queue \in Seq(Byte) /\ Len(Queue) = Count
<1> SUFFICES ASSUME TypeOK PROVE Queue \in Seq(Byte) /\ Len(Queue) = Count
  OBVIOUS
<1>1. Count \in Nat
  BY CountIs
<1>2. \A k \in 1 .. Count : data[(nread + k - 1) % PIPESIZE] \in Byte
  <2> TAKE k \in 1 .. Count
  <2>1. nread + k - 1 \in Nat
    BY <1>1 DEF TypeOK
  <2> QED
    BY <2>1, DivMod, Sizes DEF TypeOK
<1> HIDE DEF Count
<1> QED
  BY <1>1, <1>2 DEF Queue

LEMMA RefinePut ==
  ASSUME IInv, IInv', RingInv, NEW p \in Procs, WriteByte(p)
  PROVE  RingInv' /\ Stream!Put
<1> USE Sizes
<1>t. TypeOK /\ TypeOK'
  BY DEF IInv
<1>1. PICK b \in Byte : data' = [data EXCEPT ![nwrite % PIPESIZE] = b]
  BY Zenon DEF WriteByte
<1>2. Count \in Nat /\ Count < PIPESIZE
  BY <1>t, CountIs, FullEmpty DEF WriteByte, RingInv
<1>3. Count' = Count + 1
  <2>1. nwrite' = IF nwrite = UINT - 1 THEN 0 ELSE nwrite + 1
    <3>1. nwrite \in 0 .. UINT - 1 /\ nwrite' = Inc(nwrite)
      BY <1>t, Zenon DEF WriteByte, TypeOK
    <3> QED
      BY <3>1, IncWraps
  <2>2. Count' = IF nread' <= nwrite' THEN nwrite' - nread'
                                      ELSE nwrite' + UINT - nread'
    <3>1. (TypeOK => Count = IF nread <= nwrite THEN nwrite - nread
                                                ELSE nwrite + UINT - nread)'
      BY CountIs, PTL
    <3> QED
      BY <1>t, <3>1
  <2>3. nread' = nread /\ nread \in 0 .. UINT - 1 /\ nwrite \in 0 .. UINT - 1
    BY <1>t DEF WriteByte, TypeOK
  <2> QED
    BY <1>t, <1>2, <2>1, <2>2, <2>3, CountIs
<1>4. nwrite % PIPESIZE = (nread + Count) % PIPESIZE
  <2>1. nread \in 0 .. UINT - 1 /\ nwrite \in 0 .. UINT - 1
    BY <1>t DEF TypeOK
  <2>2. Count = nwrite - nread \/ Count = nwrite + UINT - nread
    BY <1>t, CountIs
  <2>3. nread + Count = nwrite \/ nread + Count = nwrite + UINT
    BY <2>1, <2>2
  <2> QED
    BY <2>1, <2>3, SamePlace
<1>5. nwrite % PIPESIZE \in 0 .. PIPESIZE - 1
  BY <1>t, DivMod, SMTT(20) DEF TypeOK
<1>6. ASSUME NEW k \in 1 .. Count
      PROVE  (nread + k - 1) % PIPESIZE # nwrite % PIPESIZE
  <2>1. /\ nread + k - 1 \in Nat /\ nread + Count \in Nat
        /\ nread + k - 1 < nread + Count
        /\ nread + Count < nread + k - 1 + PIPESIZE
    BY <1>t, <1>2 DEF TypeOK
  <2> QED
    BY <1>4, <2>1, ModApart, Zenon
<1>7. Queue' = Append(Queue, b)
  <2> DEFINE at(k) == (nread + k - 1) % PIPESIZE
  <2>1. Queue' = [k \in 1 .. Count + 1 |-> data'[at(k)]]
    BY <1>3 DEF Queue, WriteByte
  <2>2. \A k \in 1 .. Count : data'[at(k)] = data[at(k)]
    BY <1>t, <1>1, <1>6 DEF TypeOK
  <2>3. data'[at(Count + 1)] = b
    <3>1. at(Count + 1) = nwrite % PIPESIZE
      BY <1>t, <1>2, <1>4 DEF TypeOK
    <3> QED
      BY <1>t, <1>1, <1>5, <3>1, Zenon DEF TypeOK
  <2>4. Queue = [k \in 1 .. Count |-> data[at(k)]]
    BY DEF Queue
  <2> HIDE DEF at
  <2>5. Queue \in Seq(Byte) /\ Len(Queue) = Count
    BY <1>t, QueueType
  <2> QED
    BY <1>2, <2>1, <2>2, <2>3, <2>4, <2>5, SMTT(20)
<1>8. Len(Queue) < PIPESIZE
  BY <1>t, <1>2, QueueType
<1> QED
  BY <1>2, <1>3, <1>7, <1>8 DEF Stream!Put, RingInv

LEMMA RefineGet ==
  ASSUME IInv, IInv', RingInv, ~Empty, nread' = Inc(nread), UNCHANGED <<data, nwrite>>
  PROVE  RingInv' /\ Stream!Get
<1> USE Sizes
<1>t. TypeOK /\ TypeOK'
  BY DEF IInv
<1>1. Count \in Nat /\ Count > 0
  BY <1>t, CountIs, FullEmpty
<1>2. nread' = IF nread = UINT - 1 THEN 0 ELSE nread + 1
  <2>1. nread \in 0 .. UINT - 1
    BY <1>t DEF TypeOK
  <2> QED
    BY <2>1, IncWraps
<1>3. Count' = Count - 1
  <2>1. Count' = IF nread' <= nwrite' THEN nwrite' - nread'
                                      ELSE nwrite' + UINT - nread'
    <3>1. (TypeOK => Count = IF nread <= nwrite THEN nwrite - nread
                                                ELSE nwrite + UINT - nread)'
      BY CountIs, PTL
    <3> QED
      BY <1>t, <3>1
  <2>2. nread \in 0 .. UINT - 1 /\ nwrite \in 0 .. UINT - 1
    BY <1>t DEF TypeOK
  <2> QED
    BY <1>t, <1>1, <1>2, <2>1, <2>2, CountIs
<1>4. ASSUME NEW k \in 1 .. Count - 1
      PROVE  (nread' + k - 1) % PIPESIZE = (nread + (k + 1) - 1) % PIPESIZE
  <2>1. CASE nread # UINT - 1
    BY <1>t, <1>1, <1>2, <2>1 DEF TypeOK
  <2>2. CASE nread = UINT - 1
    <3>1. k - 1 \in Nat /\ nread' + k - 1 = k - 1
          /\ nread + (k + 1) - 1 = (k - 1) + UINT
      BY <1>1, <1>2, <2>2
    <3> QED
      BY <3>1, SamePlace
  <2> QED
    BY <2>1, <2>2
<1>5. Queue' = Tail(Queue)
  <2> DEFINE at(k) == (nread + k - 1) % PIPESIZE
  <2>1. Queue' = [k \in 1 .. Count - 1 |-> data[at(k + 1)]]
    BY <1>3, <1>4 DEF Queue
  <2>2. Queue = [k \in 1 .. Count |-> data[at(k)]]
    BY DEF Queue
  <2> HIDE DEF at
  <2>3. Queue \in Seq(Byte) /\ Len(Queue) = Count
    BY <1>t, QueueType
  <2> QED
    BY <1>1, <2>1, <2>2, <2>3
<1>6. Queue # <<>>
  BY <1>t, <1>1, QueueType
<1> QED
  BY <1>1, <1>3, <1>5, <1>6 DEF Stream!Get, RingInv

LEMMA RefineStep ==
  ASSUME IInv, IInv', RingInv, [Next]_vars
  PROVE  RingInv' /\ [Stream!Next]_Queue
<1>1. ASSUME UNCHANGED <<data, nread, nwrite>> PROVE RingInv' /\ UNCHANGED Queue
  BY <1>1 DEF RingInv, Count, Queue
<1>2. ASSUME NEW p \in Procs, Read(p) PROVE RingInv' /\ [Stream!Next]_Queue
  <2>1. CASE ReadByte(p) \/ ReadFault(p)
    BY <2>1, RefineGet DEF ReadByte, ReadFault, Stream!Next
  <2>2. CASE ReadGiveUp(p) \/ ReadEmpty(p) \/ ReadStart(p) \/ ReadDone(p)
    BY <1>1, <2>2 DEF ReadGiveUp, ReadEmpty, ReadStart, ReadDone, pipeVars
  <2> QED
    BY <1>2, <2>1, <2>2 DEF Read
<1>3. ASSUME NEW p \in Procs, Write(p) PROVE RingInv' /\ [Stream!Next]_Queue
  <2>1. CASE WriteByte(p)
    BY <2>1, RefinePut DEF Stream!Next
  <2>2. CASE WriteGiveUp(p) \/ WriteFull(p) \/ WriteDone(p)
    BY <1>1, <2>2 DEF WriteGiveUp, WriteFull, WriteDone, pipeVars
  <2> QED
    BY <1>3, <2>1, <2>2 DEF Write
<1>4. ASSUME NEW p \in Procs,
             \/ Call(p) \/ Acquire(p) \/ Sleep(p) \/ Close(p) \/ PipeClose(p) \/ Kill(p)
             \/ \E q \in Procs : Fork(p, q)
      PROVE  RingInv' /\ UNCHANGED Queue
  BY <1>1, <1>4 DEF Call, Acquire, Sleep, Close, PipeClose, Kill, Fork, pipeVars
<1>5. CASE UNCHANGED vars
  BY <1>1, <1>5 DEF vars
<1> QED
  BY <1>2, <1>3, <1>4, <1>5 DEF Next, Step

\* Bytes leave the pipe in the order they entered it, none lost or doubled, and
\* never more than PIPESIZE at a time, through any wrapping of nread and nwrite.
THEOREM ImplementsStream == Spec => IsByteStream
<1>1. Init => RingInv /\ Stream!Init
  <2> SUFFICES ASSUME Init PROVE RingInv /\ Stream!Init
    OBVIOUS
  <2>1. IInv
    BY InitIInv
  <2>2. Count = 0
    BY <2>1, CountIs DEF Init, IInv
  <2> QED
    BY <2>2, Sizes DEF RingInv, Queue, Stream!Init
<1>2. IInv /\ IInv' /\ RingInv /\ [Next]_vars => RingInv' /\ [Stream!Next]_Queue
  BY RefineStep
<1> QED
  BY <1>1, <1>2, Invariance, PTL DEF Spec, IsByteStream, Stream!Spec
=============================================================================
