--------------------------- MODULE BufCacheProofs ---------------------------
(***************************************************************************)
(* For any number of processes, buffers and blocks: the buffer cache's     *)
(* reference counts are exact, and it implements BlockStore.               *)
(***************************************************************************)
EXTENDS BufCache, FiniteSetTheorems, TLAPS

\* A truth that has no type.  With it in view tlapm translates obligations for
\* the SMT solver without inferring types, which is several times faster here.
LEMMA Untyped == \A x : x \in x \/ x \notin x
  OBVIOUS

USE Untyped

\* The processes that use b, from bget() to the end of brelse().
Users(b) == {p \in Procs : buf[p] = b}

CountInv ==
    \A b \in Bufs :
        refcnt[b] = Cardinality(Users(b)) + (IF b \in pinned THEN 1 ELSE 0)

\* A process between bget() and brelse() has a buffer of the block it wants, and
\* no block is in two buffers.
UseInv ==
    /\ \A p \in Procs : pc[p] = "out" => buf[p] = None /\ want[p] = None
    /\ \A p \in Procs : pc[p] # "out" =>
          buf[p] \in Bufs /\ want[p] \in Blocks /\ blockno[buf[p]] = want[p]
    /\ \A b, c \in Bufs : blockno[b] = blockno[c] /\ blockno[b] # None => b = c

LockInv ==
    \A b \in Bufs, p \in Procs :
        lock[b] = p <=> buf[p] = b /\ pc[p] \in {"read", "held"}

\* A valid buffer that is neither being changed nor pinned by the log equals its
\* block on disk, and only the holder of its lock makes a buffer valid or dirty.
DataInv ==
    /\ \A p \in Procs : /\ pc[p] = "held" => valid[buf[p]]
                        /\ pc[p] = "read" => ~valid[buf[p]]
    /\ \A b \in dirty : lock[b] # None
    /\ \A b \in Bufs : valid[b] => blockno[b] # None
    /\ \A b \in Bufs : valid[b] /\ b \notin dirty \cup pinned
                           => data[b] = disk[blockno[b]]

\* The inductive invariant.
IInv == TypeOK /\ CountInv /\ UseInv /\ LockInv /\ DataInv

-----------------------------------------------------------------------------
(* The list of buffers.                                                    *)

LEMMA LeastNat ==
  ASSUME NEW S \in SUBSET Nat, S # {}
  PROVE  \E m \in S : \A k \in S : m <= k
<1> DEFINE R == OpToRel(<, Nat)
<1>1. \E m \in S : \A k \in S : ~ (<<k, m>> \in R)
  <2>1. IsWellFoundedOn(R, Nat)
    BY NatLessThanWellFounded, Zenon
  <2> HIDE DEF R
  <2> QED
    BY <2>1, WFMin
<1>2. \A k, m \in Nat : k < m => <<k, m>> \in R
  BY DEF OpToRel
<1> HIDE DEF R
<1>3. PICK m \in S : \A k \in S : ~ (<<k, m>> \in R)
  BY <1>1
<1>4. ASSUME NEW k \in S, ~ (m <= k) PROVE FALSE
  <2>1. k \in Nat /\ m \in Nat /\ k < m
    BY <1>4
  <2> QED
    BY <2>1, <1>2, <1>3, Zenon
<1> QED
  BY <1>4

\* bget()'s second loop, from head.prev, finds an unused buffer if there is one.
LEMMA VictimUnused ==
  ASSUME TypeOK, \E b \in Bufs : refcnt[b] = 0
  PROVE  Victim \in Bufs /\ refcnt[Victim] = 0
<1> DEFINE N == Cardinality(Bufs)
           S == {i \in 1 .. N : refcnt[lru[i]] = 0}
<1>1. N \in Nat
  BY BufCacheConstants, FS_CardinalityType
<1>2. lru \in [1 .. N -> Bufs] /\ Bufs = {lru[i] : i \in 1 .. N}
  BY DEF TypeOK, Orders
<1> HIDE DEF N
<1>3. \E i \in S : \A j \in S : j <= i
  <2> DEFINE T == {N - i : i \in S}
  <2>1. T \in SUBSET Nat /\ T # {}
    <3>1. PICK i \in 1 .. N : refcnt[lru[i]] = 0
      BY <1>2
    <3>2. N - i \in T
      BY <3>1
    <3>3. \A j \in S : N - j \in Nat
      BY <1>1
    <3> QED
      BY <3>2, <3>3
  <2>2. PICK m \in T : \A k \in T : m <= k
    BY <2>1, LeastNat, Zenon
  <2>3. PICK i \in S : m = N - i
    BY <2>2
  <2>4. \A j \in S : N - i <= N - j
    BY <2>2, <2>3
  <2> QED
    BY <1>1, <2>4
<1>4. \E i \in 1 .. N : /\ refcnt[lru[i]] = 0
                        /\ \A j \in 1 .. N : j > i => refcnt[lru[j]] # 0
  BY <1>1, <1>3
<1>5. DOMAIN lru = 1 .. N
  BY <1>2
<1> QED
  BY <1>2, <1>4, <1>5, Zenon DEF Victim

\* brelse() keeps every buffer in the list.
LEMMA MoveKeepsOrder ==
  ASSUME lru \in Orders, NEW b \in Bufs
  PROVE  MoveToHead(b) \in Orders
<1> DEFINE N == Cardinality(Bufs)
           at == CHOOSE i \in 1 .. N : lru[i] = b
<1>1. N \in Nat
  BY BufCacheConstants, FS_CardinalityType
<1>2. lru \in [1 .. N -> Bufs] /\ Bufs = {lru[i] : i \in 1 .. N}
  BY DEF Orders
<1> HIDE DEF N
<1>3. at \in 1 .. N /\ lru[at] = b
  BY <1>2
<1> HIDE DEF at
<1> DEFINE new == [i \in 1 .. N |-> IF i = 1 THEN b
                                    ELSE IF i <= at THEN lru[i - 1] ELSE lru[i]]
<1>4. new \in [1 .. N -> Bufs]
  <2>1. ASSUME NEW i \in 1 .. N, i # 1, i <= at PROVE lru[i - 1] \in Bufs
    <3>1. i - 1 \in 1 .. N
      BY <1>1, <2>1
    <3> QED
      BY <1>2, <3>1
  <2> QED
    BY <1>2, <2>1, SMTT(20)
<1>5. ASSUME NEW c \in Bufs PROVE \E i \in 1 .. N : new[i] = c
  <2>1. PICK i \in 1 .. N : lru[i] = c
    BY <1>2
  <2>2. CASE c = b
    BY <1>1, <1>3, <2>2
  <2>3. CASE c # b /\ i < at
    <3> HIDE Untyped
    <3> QED
      BY <1>1, <1>3, <2>1, <2>3
  <2>4. CASE c # b /\ i > at
    BY <1>1, <1>3, <2>1, <2>4
  <2> QED
    BY <1>1, <1>3, <2>1, <2>2, <2>3, <2>4
<1>6. Bufs = {new[i] : i \in DOMAIN new}
  BY <1>4, <1>5
<1>7. MoveToHead(b) = new
  BY <1>2 DEF MoveToHead, at
<1>8. new \in Orders
  <2> HIDE DEF new
  <2> QED
    BY <1>4, <1>6, Zenon DEF Orders, N
<1> QED
  BY <1>7, <1>8

-----------------------------------------------------------------------------
(* Counting the users of a buffer.                                         *)

LEMMA UsersFinite ==
  \A b \in Bufs : IsFiniteSet(Users(b)) /\ Cardinality(Users(b)) \in Nat
  BY BufCacheConstants, FS_Subset, FS_CardinalityType DEF Users

LEMMA UserAdded ==
  ASSUME TypeOK, NEW p \in Procs, NEW b \in Bufs,
         buf[p] = None, buf' = [buf EXCEPT ![p] = b]
  PROVE  \A c \in Bufs : Cardinality(Users(c)')
                             = Cardinality(Users(c)) + (IF c = b THEN 1 ELSE 0)
<1>0. \A q \in Procs : buf'[q] = IF q = p THEN b ELSE buf[q]
  BY DEF TypeOK
<1>1. Users(b)' = Users(b) \cup {p} /\ p \notin Users(b)
  BY <1>0, BufCacheConstants DEF Users
<1>2. Cardinality(Users(b)') = Cardinality(Users(b)) + 1
  BY <1>1, UsersFinite, FS_AddElement, Zenon
<1>3. \A c \in Bufs : c # b => Users(c)' = Users(c)
  BY <1>0, BufCacheConstants DEF Users
<1> TAKE c \in Bufs
<1>4. CASE c = b
  BY <1>2, <1>4
<1>5. CASE c # b
  BY <1>3, <1>5, UsersFinite
<1> QED
  BY <1>4, <1>5

LEMMA UserGone ==
  ASSUME TypeOK, NEW p \in Procs, NEW b \in Bufs,
         buf[p] = b, buf' = [buf EXCEPT ![p] = None]
  PROVE  \A c \in Bufs : Cardinality(Users(c)')
                             = Cardinality(Users(c)) - (IF c = b THEN 1 ELSE 0)
<1>0. \A q \in Procs : buf'[q] = IF q = p THEN None ELSE buf[q]
  BY DEF TypeOK
<1>1. Users(b)' = Users(b) \ {p} /\ p \in Users(b)
  BY <1>0, BufCacheConstants DEF Users
<1>2. Cardinality(Users(b)') = Cardinality(Users(b)) - 1
  <2> HIDE Untyped
  <2> QED
    BY <1>1, UsersFinite, FS_RemoveElement, ZenonT(30)
<1>3. \A c \in Bufs : c # b => Users(c)' = Users(c)
  BY <1>0, BufCacheConstants DEF Users
<1> TAKE c \in Bufs
<1>4. CASE c = b
  BY <1>2, <1>4
<1>5. CASE c # b
  BY <1>3, <1>5, UsersFinite
<1> QED
  BY <1>4, <1>5

\* A buffer with refcnt 0 is used by nobody.
LEMMA UnusedFree ==
  ASSUME IInv, NEW b \in Bufs, refcnt[b] = 0
  PROVE  /\ \A p \in Procs : buf[p] # b
         /\ b \notin pinned /\ b \notin dirty /\ lock[b] = None
<1>1. Cardinality(Users(b)) = 0 /\ b \notin pinned
  BY UsersFinite DEF IInv, CountInv
<1>2. \A p \in Procs : buf[p] # b
  BY <1>1, UsersFinite, FS_EmptySet DEF Users
<1>3. lock[b] = None
  BY <1>2 DEF IInv, TypeOK, LockInv
<1> QED
  BY <1>1, <1>2, <1>3 DEF IInv, DataInv

LEMMA CountFrame == CountInv /\ UNCHANGED <<refcnt, pinned, buf>> => CountInv'
  BY DEF CountInv, Users

-----------------------------------------------------------------------------
LEMMA InitIInv == Init => IInv
<1> SUFFICES ASSUME Init PROVE IInv
  OBVIOUS
<1>1. TypeOK
  BY BufCacheConstants, Zenon DEF Init, TypeOK
<1>2. CountInv
  <2>1. \A b \in Bufs : Users(b) = {}
    BY BufCacheConstants DEF Init, Users
  <2> QED
    BY <2>1, FS_EmptySet DEF Init, CountInv
<1>3. UseInv /\ LockInv /\ DataInv
  BY BufCacheConstants DEF Init, UseInv, LockInv, DataInv
<1> QED
  BY <1>1, <1>2, <1>3 DEF IInv

LEMMA StepIInv == IInv /\ [Next]_vars => IInv'
<1> SUFFICES ASSUME IInv, [Next]_vars PROVE IInv'
  OBVIOUS
<1>t. TypeOK /\ CountInv /\ UseInv /\ LockInv /\ DataInv
  BY DEF IInv
<1> USE BufCacheConstants
<1>1. ASSUME NEW p \in Procs, NEW k \in Blocks, NEW b \in Bufs, BGetHit(p, k, b)
      PROVE  IInv'
  <2>0. buf[p] = None
    BY <1>t, <1>1 DEF BGetHit, UseInv
  <2>1. TypeOK'
    BY <1>t, <1>1 DEF BGetHit, TypeOK
  <2>2. CountInv'
    <3>1. \A c \in Bufs : Cardinality(Users(c)')
                               = Cardinality(Users(c)) + (IF c = b THEN 1 ELSE 0)
      BY <1>t, <1>1, <2>0, UserAdded, Zenon DEF BGetHit
    <3> QED
      BY <1>t, <1>1, <3>1, UsersFinite DEF BGetHit, CountInv, TypeOK
  <2>3. UseInv'
    BY <1>t, <1>1 DEF BGetHit, TypeOK, UseInv
  <2>4. LockInv'
    BY <1>t, <1>1, <2>0 DEF BGetHit, TypeOK, LockInv
  <2>5. DataInv'
    BY <1>t, <1>1, <2>0 DEF BGetHit, TypeOK, DataInv
  <2> QED
    BY <2>1, <2>2, <2>3, <2>4, <2>5 DEF IInv
<1>2. ASSUME NEW p \in Procs, NEW k \in Blocks, BGetMiss(p, k) PROVE IInv'
  <2> DEFINE b == Victim
  <2>0. b \in Bufs /\ refcnt[b] = 0
    BY <1>t, <1>2, VictimUnused DEF BGetMiss
  <2>1. /\ buf[p] = None /\ pc[p] = "out"
        /\ \A q \in Procs : buf[q] # b
        /\ b \notin pinned /\ b \notin dirty /\ lock[b] = None
    BY <1>t, <1>2, <2>0, UnusedFree DEF BGetMiss, UseInv
  <2>2. /\ blockno' = [blockno EXCEPT ![b] = k]
        /\ valid' = [valid EXCEPT ![b] = FALSE]
        /\ refcnt' = [refcnt EXCEPT ![b] = 1]
        /\ buf' = [buf EXCEPT ![p] = b]
        /\ pc' = [pc EXCEPT ![p] = "lock"]
        /\ want' = [want EXCEPT ![p] = k]
        /\ UNCHANGED <<data, lock, lru, pinned, dirty, disk, panicked>>
        /\ \A c \in Bufs : blockno[c] # k
    BY <1>2 DEF BGetMiss, Cached
  <2> HIDE DEF b
  <2>3. TypeOK'
    BY <1>t, <2>0, <2>2 DEF TypeOK
  <2>4. CountInv'
    <3>1. \A c \in Bufs : Cardinality(Users(c)')
                               = Cardinality(Users(c)) + (IF c = b THEN 1 ELSE 0)
      BY <1>t, <2>0, <2>1, <2>2, UserAdded, Zenon
    <3> QED
      BY <1>t, <2>0, <2>1, <2>2, <3>1, UsersFinite DEF CountInv, TypeOK
  <2>5. UseInv'
    BY <1>t, <2>0, <2>1, <2>2 DEF TypeOK, UseInv
  <2>6. LockInv'
    BY <1>t, <2>0, <2>1, <2>2 DEF TypeOK, LockInv
  <2>7. DataInv'
    BY <1>t, <2>0, <2>1, <2>2 DEF TypeOK, DataInv, UseInv
  <2> QED
    BY <2>3, <2>4, <2>5, <2>6, <2>7 DEF IInv
<1>3. ASSUME NEW p \in Procs, NEW k \in Blocks, BGetPanic(p, k) PROVE IInv'
  <2>1. TypeOK'
    BY <1>t, <1>3 DEF BGetPanic, bufVars, TypeOK
  <2>2. CountInv' /\ UseInv'
    BY <1>t, <1>3, CountFrame DEF BGetPanic, bufVars, UseInv
  <2>3. LockInv' /\ DataInv'
    BY <1>t, <1>3 DEF BGetPanic, bufVars, LockInv, DataInv
  <2> QED
    BY <2>1, <2>2, <2>3 DEF IInv
<1>4. ASSUME NEW p \in Procs, AcquireSleep(p) PROVE IInv'
  <2>0. buf[p] \in Bufs
    BY <1>t, <1>4 DEF AcquireSleep, UseInv
  <2>1. TypeOK'
    BY <1>t, <1>4, <2>0 DEF AcquireSleep, TypeOK
  <2>2. CountInv' /\ UseInv'
    BY <1>t, <1>4, CountFrame DEF AcquireSleep, UseInv, TypeOK
  <2>3. LockInv'
    BY <1>t, <1>4, <2>0 DEF AcquireSleep, LockInv, TypeOK
  <2>4. DataInv'
    BY <1>t, <1>4, <2>0 DEF AcquireSleep, DataInv, TypeOK
  <2> QED
    BY <2>1, <2>2, <2>3, <2>4 DEF IInv
<1>5. ASSUME NEW p \in Procs, ReadDisk(p) PROVE IInv'
  <2>0. /\ buf[p] \in Bufs /\ blockno[buf[p]] \in Blocks
        /\ lock[buf[p]] = p /\ \A q \in Procs : q # p /\ buf[q] = buf[p]
                                  => pc[q] \notin {"read", "held"}
    BY <1>t, <1>5 DEF ReadDisk, UseInv, LockInv
  <2>1. TypeOK'
    BY <1>t, <1>5, <2>0 DEF ReadDisk, TypeOK
  <2>2. CountInv' /\ UseInv'
    BY <1>t, <1>5, CountFrame DEF ReadDisk, UseInv, TypeOK
  <2>3. LockInv'
    BY <1>t, <1>5, <2>0 DEF ReadDisk, LockInv, TypeOK
  <2>4. DataInv'
    BY <1>t, <1>5, <2>0 DEF ReadDisk, DataInv, TypeOK
  <2> QED
    BY <2>1, <2>2, <2>3, <2>4 DEF IInv
<1>6. ASSUME NEW p \in Procs, NEW v \in Vals, Modify(p, v) PROVE IInv'
  <2>0. buf[p] \in Bufs /\ lock[buf[p]] = p
    BY <1>t, <1>6 DEF Modify, UseInv, LockInv
  <2>1. TypeOK'
    BY <1>t, <1>6, <2>0 DEF Modify, TypeOK
  <2>2. CountInv' /\ UseInv' /\ LockInv'
    BY <1>t, <1>6, CountFrame DEF Modify, UseInv, LockInv
  <2>3. DataInv'
    BY <1>t, <1>6, <2>0 DEF Modify, DataInv, TypeOK
  <2> QED
    BY <2>1, <2>2, <2>3 DEF IInv
<1>7. ASSUME NEW p \in Procs, BWrite(p) PROVE IInv'
  <2>0. buf[p] \in Bufs /\ blockno[buf[p]] \in Blocks
    BY <1>t, <1>7 DEF BWrite, UseInv
  <2>1. TypeOK'
    BY <1>t, <1>7, <2>0 DEF BWrite, TypeOK
  <2>2. CountInv' /\ UseInv' /\ LockInv'
    BY <1>t, <1>7, CountFrame DEF BWrite, UseInv, LockInv
  <2>3. DataInv'
    BY <1>t, <1>7, <2>0 DEF BWrite, DataInv, UseInv, TypeOK
  <2> QED
    BY <2>1, <2>2, <2>3 DEF IInv
<1>8. ASSUME NEW p \in Procs, BPin(p) PROVE IInv'
  <2>0. buf[p] \in Bufs
    BY <1>t, <1>8 DEF BPin, UseInv
  <2>1. TypeOK'
    BY <1>t, <1>8, <2>0 DEF BPin, TypeOK
  <2>2. \A b \in Bufs : Users(b)' = Users(b)
    BY <1>8 DEF BPin, Users
  <2>3. CountInv'
    BY <1>t, <1>8, <2>0, <2>2, UsersFinite DEF BPin, CountInv, TypeOK
  <2>4. UseInv' /\ LockInv'
    BY <1>t, <1>8 DEF BPin, UseInv, LockInv
  <2>5. DataInv'
    BY <1>t, <1>8, <2>0 DEF BPin, DataInv, TypeOK
  <2> QED
    BY <2>1, <2>3, <2>4, <2>5 DEF IInv
<1>9. ASSUME NEW p \in Procs, BWriteUnpin(p) PROVE IInv'
  <2>0. buf[p] \in Bufs /\ blockno[buf[p]] \in Blocks
    BY <1>t, <1>9 DEF BWriteUnpin, UseInv
  <2>1. \A b \in Bufs : Users(b)' = Users(b)
    BY <1>9 DEF BWriteUnpin, Users
  <2>2. refcnt[buf[p]] = Cardinality(Users(buf[p])) + 1
    BY <1>t, <1>9, <2>0 DEF BWriteUnpin, CountInv
  <2>3. TypeOK'
    BY <1>t, <1>9, <2>0, <2>2, UsersFinite DEF BWriteUnpin, TypeOK
  <2>4. CountInv'
    BY <1>t, <1>9, <2>0, <2>1, <2>2, UsersFinite
    DEF BWriteUnpin, CountInv, TypeOK
  <2>5. UseInv' /\ LockInv'
    BY <1>t, <1>9 DEF BWriteUnpin, UseInv, LockInv
  <2>6. DataInv'
    BY <1>t, <1>9, <2>0 DEF BWriteUnpin, DataInv, UseInv, TypeOK
  <2> QED
    BY <2>3, <2>4, <2>5, <2>6 DEF IInv
<1>10. ASSUME NEW p \in Procs, ReleaseSleep(p) PROVE IInv'
  <2>0. buf[p] \in Bufs /\ lock[buf[p]] = p
    BY <1>t, <1>10 DEF ReleaseSleep, UseInv, LockInv
  <2>1. TypeOK'
    BY <1>t, <1>10, <2>0 DEF ReleaseSleep, TypeOK
  <2>2. CountInv' /\ UseInv'
    BY <1>t, <1>10, CountFrame DEF ReleaseSleep, UseInv, TypeOK
  <2>3. LockInv'
    BY <1>t, <1>10, <2>0 DEF ReleaseSleep, LockInv, TypeOK
  <2>4. DataInv'
    BY <1>t, <1>10, <2>0 DEF ReleaseSleep, DataInv, TypeOK
  <2> QED
    BY <2>1, <2>2, <2>3, <2>4 DEF IInv
<1>11. ASSUME NEW p \in Procs, Unref(p) PROVE IInv'
  <2>0. buf[p] \in Bufs /\ pc[p] = "relse"
    BY <1>t, <1>11 DEF Unref, UseInv
  <2>1. Cardinality(Users(buf[p])) > 0
    <3>1. p \in Users(buf[p])
      BY DEF Users
    <3> QED
      BY <2>0, <3>1, UsersFinite, FS_EmptySet
  <2>2. lru' \in Orders
    BY <1>t, <1>11, <2>0, MoveKeepsOrder DEF Unref, TypeOK
  <2>3. TypeOK'
    BY <1>t, <1>11, <2>0, <2>1, <2>2, UsersFinite DEF Unref, TypeOK, CountInv
  <2>4. CountInv'
    <3>1. \A c \in Bufs : Cardinality(Users(c)')
                       = Cardinality(Users(c)) - (IF c = buf[p] THEN 1 ELSE 0)
      BY <1>t, <1>11, <2>0, UserGone, Zenon DEF Unref
    <3> QED
      BY <1>t, <1>11, <2>0, <3>1, UsersFinite DEF Unref, CountInv, TypeOK
  <2>5. UseInv'
    BY <1>t, <1>11 DEF Unref, UseInv, TypeOK
  <2>6. LockInv'
    BY <1>t, <1>11, <2>0 DEF Unref, LockInv, TypeOK
  <2>7. DataInv'
    BY <1>t, <1>11, <2>0 DEF Unref, DataInv, TypeOK
  <2> QED
    BY <2>3, <2>4, <2>5, <2>6, <2>7 DEF IInv
<1>12. CASE UNCHANGED vars
  <2>1. TypeOK' /\ CountInv'
    BY <1>t, <1>12, CountFrame DEF vars, TypeOK
  <2>2. UseInv' /\ LockInv' /\ DataInv'
    BY <1>t, <1>12 DEF vars, UseInv, LockInv, DataInv
  <2> QED
    BY <2>1, <2>2 DEF IInv
<1> QED
  BY <1>1, <1>2, <1>3, <1>4, <1>5, <1>6, <1>7, <1>8, <1>9, <1>10, <1>11, <1>12
  DEF Next

\* The inductive invariant holds in every state the cache reaches.
THEOREM Invariance == Spec => []IInv
  BY InitIInv, StepIInv, PTL DEF Spec

\* The cache's variables keep their types, and the list its buffers.
THEOREM TypeCorrect == Spec => []TypeOK
<1>1. IInv => TypeOK
  BY DEF IInv
<1> QED
  BY <1>1, Invariance, PTL

\* bget(), brelse(), bpin() and bunpin() keep refcnt equal to the number of users
\* and pins, however they interleave, and bget() gives a block one buffer.
THEOREM RefcntsExact == Spec => []RefcntExact
<1>1. IInv => RefcntExact
  BY DEF IInv, CountInv, UseInv, Users, RefcntExact
<1> QED
  BY <1>1, Invariance, PTL

-----------------------------------------------------------------------------
(* The cache implements BlockStore.                                        *)

LEMMA ContentsOfCopy ==
  IInv => \A k \in Blocks, b \in Bufs :
              blockno[b] = k /\ valid[b] => Contents(k) = data[b]
  BY BufCacheConstants DEF IInv, UseInv, Contents, Copies

LEMMA ContentsOnDisk ==
  \A k \in Blocks : (\A b \in Bufs : ~(blockno[b] = k /\ valid[b]))
                        => Contents(k) = disk[k]
  BY DEF Contents, Copies

LEMMA SameContents ==
  ASSUME NEW k \in Blocks, Copies(k)' = Copies(k), UNCHANGED disk,
         \A b \in Copies(k) : data'[b] = data[b]
  PROVE  Contents(k)' = Contents(k)
<1> DEFINE c == CHOOSE b \in Bufs : b \in Copies(k)
<1>1. Copies(k) # {} => c \in Copies(k)
  <2>1. \A b \in Copies(k) : b \in Bufs
    BY DEF Copies
  <2> QED
    BY <2>1
<1>2. Contents(k) = IF Copies(k) = {} THEN disk[k] ELSE data[c]
  BY DEF Contents
<1>3. Contents(k)' = IF Copies(k) = {} THEN disk[k] ELSE data'[c]
  BY DEF Contents
<1> QED
  BY <1>1, <1>2, <1>3

LEMMA OwnerIsHolder ==
  IInv => \A k \in Blocks, p \in Procs : p \in Holders(k) => Owner(k) = p
<1> SUFFICES ASSUME IInv, NEW k \in Blocks, NEW p \in Procs, p \in Holders(k)
             PROVE  Owner(k) = p
  OBVIOUS
<1>1. \A q \in Holders(k) : buf[q] \in Bufs /\ blockno[buf[q]] = k /\ lock[buf[q]] = q
  BY DEF IInv, UseInv, LockInv, Holders
<1>2. \A q \in Holders(k) : q = p
  BY <1>1, BufCacheConstants DEF IInv, UseInv
<1> QED
  BY <1>2 DEF Owner

LEMMA RefineInit == Init => Store!Init
<1> SUFFICES ASSUME Init PROVE Store!Init
  OBVIOUS
<1>1. \A k \in Blocks : Contents(k) = InitVal /\ Owner(k) = None
  BY BufCacheConstants DEF Init, Contents, Copies, Owner, Holders
<1> QED
  BY <1>1 DEF Store!Init

LEMMA RefineStep == IInv /\ IInv' /\ [Next]_vars => [Store!Next]_(Store!vars)
<1> SUFFICES ASSUME IInv, IInv', [Next]_vars PROVE [Store!Next]_(Store!vars)
  OBVIOUS
<1>t. TypeOK /\ UseInv /\ LockInv /\ DataInv
  BY DEF IInv
<1> USE BufCacheConstants
<1>c. \A k \in Blocks, b \in Bufs :
          blockno'[b] = k /\ valid'[b] => Contents(k)' = data'[b]
  <2>1. (IInv => \A k \in Blocks, b \in Bufs :
                    blockno[b] = k /\ valid[b] => Contents(k) = data[b])'
    BY ContentsOfCopy, PTL
  <2> QED
    BY <2>1
<1>d. \A k \in Blocks : (\A b \in Bufs : ~(blockno'[b] = k /\ valid'[b]))
                            => Contents(k)' = disk'[k]
  BY DEF Contents, Copies
<1>o. \A k \in Blocks, p \in Procs : p \in Holders(k)' => Owner(k)' = p
  <2>1. (IInv => \A k \in Blocks, p \in Procs : p \in Holders(k) => Owner(k) = p)'
    BY OwnerIsHolder, PTL
  <2> QED
    BY <2>1
<1>s. ASSUME \A k \in Blocks : Contents(k)' = Contents(k),
             \A k \in Blocks : Holders(k)' = Holders(k)
      PROVE  UNCHANGED Store!vars
  <2>1. ASSUME NEW k \in Blocks PROVE Owner(k)' = Owner(k)
    <3>1. Holders(k)' = Holders(k)
      BY <1>s
    <3> QED
      BY <3>1 DEF Owner
  <2>2. [k \in Blocks |-> Owner(k)]' = [k \in Blocks |-> Owner(k)]
    BY <2>1
  <2>3. [k \in Blocks |-> Contents(k)]' = [k \in Blocks |-> Contents(k)]
    BY <1>s
  <2> QED
    BY <2>2, <2>3 DEF Store!vars
<1>f. ASSUME UNCHANGED <<blockno, valid, data, disk>>
      PROVE  \A k \in Blocks : Contents(k)' = Contents(k)
  BY <1>f DEF Contents, Copies
<1>h. ASSUME UNCHANGED <<want, pc>>
      PROVE  \A k \in Blocks : Holders(k)' = Holders(k)
  BY <1>h DEF Holders
<1>1. ASSUME NEW p \in Procs, NEW k \in Blocks, NEW b \in Bufs, BGetHit(p, k, b)
      PROVE  UNCHANGED Store!vars
  <2>1. \A j \in Blocks : Holders(j)' = Holders(j)
    BY <1>t, <1>1 DEF BGetHit, Holders, TypeOK
  <2> QED
    BY <1>1, <1>s, <1>f, <2>1 DEF BGetHit
<1>2. ASSUME NEW p \in Procs, NEW k \in Blocks, BGetMiss(p, k)
      PROVE  UNCHANGED Store!vars
  <2> DEFINE b == Victim
  <2>0. b \in Bufs /\ refcnt[b] = 0
    BY <1>t, <1>2, VictimUnused DEF BGetMiss
  <2>1. b \notin pinned /\ b \notin dirty
    BY <2>0, UnusedFree
  <2>2. /\ blockno' = [blockno EXCEPT ![b] = k]
        /\ valid' = [valid EXCEPT ![b] = FALSE]
        /\ UNCHANGED <<data, disk>>
        /\ \A c \in Bufs : blockno[c] # k
    BY <1>2 DEF BGetMiss, Cached
  <2>3. \A j \in Blocks : Holders(j)' = Holders(j)
    BY <1>t, <1>2 DEF BGetMiss, Holders, TypeOK
  <2> HIDE DEF b
  <2>4. ASSUME NEW j \in Blocks PROVE Contents(j)' = Contents(j)
    <3>1. CASE \E c \in Bufs : c # b /\ blockno[c] = j /\ valid[c]
      <4>1. PICK c \in Bufs : c # b /\ blockno[c] = j /\ valid[c]
        BY <3>1
      <4>2. blockno'[c] = j /\ valid'[c]
        BY <1>t, <2>0, <2>2, <4>1 DEF TypeOK
      <4> QED
        BY <1>c, <2>2, <4>1, <4>2, ContentsOfCopy
    <3>2. CASE \A c \in Bufs : c # b => ~(blockno[c] = j /\ valid[c])
      <4>1. Contents(j)' = disk[j]
        BY <1>t, <1>d, <2>0, <2>2, <3>2 DEF TypeOK
      <4>2. CASE blockno[b] = j /\ valid[b]
        BY <1>t, <2>0, <2>1, <4>1, <4>2, ContentsOfCopy DEF DataInv
      <4>3. CASE ~(blockno[b] = j /\ valid[b])
        BY <3>2, <4>1, <4>3, ContentsOnDisk
      <4> QED
        BY <4>2, <4>3
    <3> QED
      BY <3>1, <3>2
  <2> QED
    BY <1>s, <2>3, <2>4
<1>3. ASSUME NEW p \in Procs, NEW k \in Blocks, BGetPanic(p, k)
      PROVE  UNCHANGED Store!vars
  BY <1>3, <1>s, <1>f, <1>h DEF BGetPanic, bufVars
<1>4. ASSUME NEW p \in Procs, AcquireSleep(p) PROVE Store!Lock(p, want[p])
  <2>0. buf[p] \in Bufs /\ want[p] \in Blocks /\ blockno[buf[p]] = want[p]
    BY <1>t, <1>4 DEF AcquireSleep, UseInv
  <2>1. Holders(want[p]) = {}
    BY <1>t, <1>4, <2>0 DEF AcquireSleep, UseInv, LockInv, Holders
  <2>2. Owner(want[p]) = None
    BY <2>1 DEF Owner
  <2>3. \A j \in Blocks : Owner(j)' = IF j = want[p] THEN p ELSE Owner(j)
    <3> TAKE j \in Blocks
    <3>1. CASE j = want[p]
      <4>1. p \in Holders(j)'
        BY <1>t, <1>4, <3>1 DEF AcquireSleep, Holders, TypeOK
      <4> QED
        BY <1>o, <3>1, <4>1
    <3>2. CASE j # want[p]
      <4>1. Holders(j)' = Holders(j)
        BY <1>t, <1>4, <3>2 DEF AcquireSleep, Holders, TypeOK
      <4> QED
        BY <3>2, <4>1 DEF Owner
    <3> QED
      BY <3>1, <3>2
  <2>4. \A j \in Blocks : Contents(j)' = Contents(j)
    BY <1>4, <1>f DEF AcquireSleep
  <2> QED
    BY <2>0, <2>2, <2>3, <2>4 DEF Store!Lock
<1>5. ASSUME NEW p \in Procs, ReadDisk(p) PROVE UNCHANGED Store!vars
  <2>0. /\ buf[p] \in Bufs /\ blockno[buf[p]] \in Blocks /\ ~valid[buf[p]]
        /\ \A c \in Bufs : blockno[c] = blockno[buf[p]] => c = buf[p]
    BY <1>t, <1>5 DEF ReadDisk, UseInv, DataInv
  <2>1. \A j \in Blocks : Holders(j)' = Holders(j)
    BY <1>t, <1>5 DEF ReadDisk, Holders, TypeOK
  <2>2. ASSUME NEW j \in Blocks PROVE Contents(j)' = Contents(j)
    <3>1. CASE j = blockno[buf[p]]
      <4>1. Contents(j) = disk[j]
        BY <2>0, <3>1, ContentsOnDisk
      <4>2. blockno'[buf[p]] = j /\ valid'[buf[p]] /\ data'[buf[p]] = disk[j]
        BY <1>t, <1>5, <2>0, <3>1 DEF ReadDisk, TypeOK
      <4> QED
        BY <1>c, <2>0, <4>1, <4>2
    <3>2. CASE j # blockno[buf[p]]
      <4>1. Copies(j)' = Copies(j)
        BY <1>t, <1>5, <2>0, <3>2 DEF ReadDisk, Copies, TypeOK
      <4>2. \A c \in Copies(j) : data'[c] = data[c]
        BY <1>t, <1>5, <2>0, <3>2 DEF ReadDisk, Copies, TypeOK
      <4> QED
        BY <1>5, <4>1, <4>2, SameContents DEF ReadDisk
    <3> QED
      BY <3>1, <3>2
  <2> QED
    BY <1>s, <2>1, <2>2
<1>6. ASSUME NEW p \in Procs, NEW v \in Vals, Modify(p, v)
      PROVE  Store!Store(p, want[p], v)
  <2>0. /\ buf[p] \in Bufs /\ want[p] \in Blocks /\ blockno[buf[p]] = want[p]
        /\ valid[buf[p]] /\ p \in Holders(want[p])
    BY <1>t, <1>6 DEF Modify, UseInv, DataInv, Holders
  <2>1. \A j \in Blocks : Owner(j)' = Owner(j)
    BY <1>6 DEF Modify, Owner, Holders
  <2>2. Owner(want[p]) = p
    BY <2>0, OwnerIsHolder
  <2>3. ASSUME NEW j \in Blocks
        PROVE  Contents(j)' = IF j = want[p] THEN v ELSE Contents(j)
    <3>1. CASE j = want[p]
      BY <1>t, <1>c, <1>6, <2>0, <3>1 DEF Modify, TypeOK
    <3>2. CASE j # want[p]
      <4>1. Copies(j)' = Copies(j) /\ \A c \in Copies(j) : data'[c] = data[c]
        BY <1>t, <1>6, <2>0, <3>2 DEF Modify, Copies, TypeOK
      <4> QED
        BY <1>6, <3>2, <4>1, SameContents DEF Modify
    <3> QED
      BY <3>1, <3>2
  <2> QED
    BY <2>0, <2>1, <2>2, <2>3, Zenon DEF Store!Store
<1>w. ASSUME NEW p \in Procs, pc[p] = "held",
             disk' = [disk EXCEPT ![blockno[buf[p]]] = data[buf[p]]],
             UNCHANGED <<blockno, valid, data, want, pc>>
      PROVE  UNCHANGED Store!vars
  <2>0. buf[p] \in Bufs /\ blockno[buf[p]] \in Blocks /\ valid[buf[p]]
    BY <1>t, <1>w DEF UseInv, DataInv
  <2>1. ASSUME NEW j \in Blocks PROVE Contents(j)' = Contents(j)
    <3>1. CASE j = blockno[buf[p]]
      BY <1>c, <1>w, <2>0, <3>1, ContentsOfCopy
    <3>2. CASE j # blockno[buf[p]]
      BY <1>t, <1>w, <2>0, <3>2 DEF Contents, Copies, TypeOK
    <3> QED
      BY <3>1, <3>2
  <2> QED
    BY <1>s, <1>h, <1>w, <2>1
<1>7. ASSUME NEW p \in Procs, BWrite(p) PROVE UNCHANGED Store!vars
  BY <1>w, <1>7, Zenon DEF BWrite
<1>8. ASSUME NEW p \in Procs, BPin(p) PROVE UNCHANGED Store!vars
  BY <1>8, <1>s, <1>f, <1>h DEF BPin
<1>9. ASSUME NEW p \in Procs, BWriteUnpin(p) PROVE UNCHANGED Store!vars
  BY <1>w, <1>9, Zenon DEF BWriteUnpin
<1>10. ASSUME NEW p \in Procs, ReleaseSleep(p) PROVE Store!Unlock(p, want[p])
  <2>0. want[p] \in Blocks /\ p \in Holders(want[p])
    BY <1>t, <1>10 DEF ReleaseSleep, UseInv, Holders
  <2>1. Owner(want[p]) = p
    BY <2>0, OwnerIsHolder
  <2>2. \A q \in Holders(want[p]) : q = p
    BY <2>0, OwnerIsHolder DEF Holders
  <2>3. \A j \in Blocks : Owner(j)' = IF j = want[p] THEN None ELSE Owner(j)
    <3> TAKE j \in Blocks
    <3>1. CASE j = want[p]
      <4>1. Holders(j)' = {}
        BY <1>t, <1>10, <2>2, <3>1 DEF ReleaseSleep, Holders, TypeOK
      <4> QED
        BY <3>1, <4>1 DEF Owner
    <3>2. CASE j # want[p]
      <4>1. Holders(j)' = Holders(j)
        BY <1>t, <1>10, <3>2 DEF ReleaseSleep, Holders, TypeOK
      <4> QED
        BY <3>2, <4>1 DEF Owner
    <3> QED
      BY <3>1, <3>2
  <2>4. \A j \in Blocks : Contents(j)' = Contents(j)
    BY <1>10, <1>f DEF ReleaseSleep
  <2> QED
    BY <2>0, <2>1, <2>3, <2>4 DEF Store!Unlock
<1>11. ASSUME NEW p \in Procs, Unref(p) PROVE UNCHANGED Store!vars
  <2>1. \A j \in Blocks : Holders(j)' = Holders(j)
    BY <1>t, <1>11 DEF Unref, Holders, TypeOK
  <2> QED
    BY <1>11, <1>s, <1>f, <2>1 DEF Unref
<1>12. CASE UNCHANGED vars
  BY <1>12, <1>s, <1>f, <1>h DEF vars
<1>13. \A p \in Procs : pc[p] # "out" => want[p] \in Blocks
  BY <1>t DEF UseInv
<1> QED
  BY <1>1, <1>2, <1>3, <1>4, <1>5, <1>6, <1>7, <1>8, <1>9, <1>10, <1>11, <1>12,
     <1>13, SMTT(20)
  DEF Next, Store!Next, AcquireSleep, Modify, ReleaseSleep

\* Whatever buffers are recycled, bread() gives its caller what the last owner of
\* the block left, and nobody else has the block until brelse().
THEOREM ImplementsStore == Spec => ImplementsBlockStore
<1>1. IInv /\ IInv' /\ [Next]_vars => [Store!Next]_(Store!vars)
  BY RefineStep
<1> QED
  BY <1>1, RefineInit, Invariance, PTL
  DEF Spec, ImplementsBlockStore, Store!Spec
=============================================================================
