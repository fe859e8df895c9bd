---------------------------- MODULE VirtioProofs ----------------------------
(***************************************************************************)
(* For any number of requests, descriptors and ring entries: the driver    *)
(* accounts for every descriptor, forgets nobody, and implements           *)
(* BlockDevice.                                                            *)
(***************************************************************************)
EXTENDS Virtio, FiniteSetTheorems, TLAPS

\* The three descriptors of b's request.
Cells(b) == {head[b], next[head[b]], next[next[head[b]]]}

Linked(b) ==
    LET i == head[b]
        j == next[i]
        k == next[j]
    IN  /\ i \in Descs /\ j \in Descs /\ k \in Descs /\ next[k] = None
        /\ i # j /\ i # k /\ j # k

\* Requests in flight have chains of three, apart from each other, and the other
\* descriptors are free.
ChainInv ==
    /\ \A b \in Bufs : b \notin InFlight => head[b] = None
    /\ \A b \in InFlight : Linked(b)
    /\ \A b, c \in InFlight : b # c => Cells(b) \cap Cells(c) = {}
    /\ \A i \in Descs : i \notin free <=> \E b \in InFlight : i \in Cells(b)

\* The number of entries from index lo up to index hi of a ring, what is in
\* them, and that no two are equal.
Dist(lo, hi) == (hi + UINT16 - lo) % UINT16
Entries(r, lo, hi) == {r[(lo + k) % NUM] : k \in 0 .. Dist(lo, hi) - 1}
Distinct(r, lo, hi) ==
    \A k, l \in 0 .. Dist(lo, hi) - 1 :
        k # l => r[(lo + k) % NUM] # r[(lo + l) % NUM]

Put(r, n, x) == [r EXCEPT ![n % NUM] = x]

Offered == Entries(availRing, seen, availIdx)
Returned == Entries(usedRing, used_idx, usedIdx)

\* A request in flight is in one place, as long as it is busy: in the avail ring,
\* in the device, or in the used ring; its status byte tells the last from the
\* others.
RingInv ==
    /\ Distinct(availRing, seen, availIdx)
    /\ Distinct(usedRing, used_idx, usedIdx)
    /\ Offered \cap inDevice = {}
    /\ (Offered \cup inDevice) \cap Returned = {}
    /\ \A i \in Offered \cup inDevice \cup Returned : \E b \in InFlight : i = head[b]
    /\ \A b \in InFlight :
          /\ info[head[b]] = b
          /\ busy[b] <=> head[b] \in Offered \cup inDevice \cup Returned
          /\ status[head[b]] = 255 <=> head[b] \in Offered \cup inDevice

\* Nobody sleeps for what has happened: NobodyForgotten without the panic.
WakeInv ==
    /\ ~interrupt /\ ~handling => used_idx = usedIdx
    /\ (\E b \in Bufs : pc[b] = "asleep") => Cardinality(free) < 3
    /\ \A b \in Bufs : pc[b] = "wait" => busy[b]

\* The inductive invariant.
IInv == TypeOK /\ ChainInv /\ WakeInv /\ RingInv

-----------------------------------------------------------------------------
(* Arithmetic of the wrapping indices.                                     *)

LEMMA ModWraps ==
  ASSUME NEW x \in Nat, NEW n \in Nat, n > 0, x < 2 * n
  PROVE  x % n = IF x < n THEN x ELSE x - n
  OBVIOUS

LEMMA DivMod ==
  ASSUME NEW x \in Nat, NEW n \in Nat, n > 0
  PROVE  x \div n \in Int /\ x = n * (x \div n) + (x % n) /\ x % n \in 0 .. n - 1
  OBVIOUS

LEMMA SmallMultiple ==
  ASSUME NEW z \in Int, NEW n \in Nat, n > 0, n * z < n, -n < n * z
  PROVE  z = 0
  OBVIOUS

\* UINT16 is a multiple of NUM, so that positions in the ring survive the
\* wrapping of the indices.
LEMMA ModAddMultiple ==
  ASSUME NEW x \in Nat, NEW m \in Nat, NEW n \in Nat, n > 0, m % n = 0
  PROVE  (x + m) % n = x % n
<1> DEFINE a == (x + m) \div n
           b == x \div n
           c == m \div n
           r == (x + m) % n
           s == x % n
<1>1. a \in Int /\ x + m = n * a + r /\ r \in 0 .. n - 1
  BY DivMod
<1>2. b \in Int /\ x = n * b + s /\ s \in 0 .. n - 1
  BY DivMod
<1>3. c \in Int /\ m = n * c
  BY DivMod
<1> HIDE DEF a, b, c, r, s
<1>4. n * (a - b - c) = s - r
  BY <1>1, <1>2, <1>3
<1>5. a - b - c = 0
  BY <1>1, <1>2, <1>3, <1>4, SmallMultiple
<1> QED
  BY <1>1, <1>2, <1>4, <1>5 DEF r, s

LEMMA ModApart ==
  ASSUME NEW x \in Nat, NEW y \in Nat, NEW n \in Nat, n > 0, x < y, y < x + n
  PROVE  x % n # y % n
<1> DEFINE a == x \div n
           b == y \div n
           r == x % n
           s == y % n
<1>1. a \in Int /\ x = n * a + r /\ r \in 0 .. n - 1
  BY DivMod
<1>2. b \in Int /\ y = n * b + s /\ s \in 0 .. n - 1
  BY DivMod
<1> HIDE DEF a, b, r, s
<1>3. ASSUME r = s PROVE FALSE
  <2>1. n * (b - a) = y - x
    BY <1>1, <1>2, <1>3
  <2>2. b - a = 0
    BY <1>1, <1>2, <2>1, SmallMultiple
  <2> QED
    BY <1>1, <1>2, <2>1, <2>2
<1> QED
  BY <1>3 DEF r, s

-----------------------------------------------------------------------------
(* The rings.                                                              *)

Index == 0 .. UINT16 - 1

LEMMA Sizes == NUM \in Nat /\ UINT16 \in Nat /\ 3 <= NUM /\ NUM < UINT16
  BY VirtioConstants

\* A place in a ring does not change when an index wraps.
LEMMA SamePlace == ASSUME NEW x \in Nat PROVE (x + UINT16) % NUM = x % NUM
<1>1. UINT16 % NUM = 0
  BY VirtioConstants
<1>2. NUM \in Nat /\ UINT16 \in Nat /\ NUM > 0
  BY Sizes
<1> QED
  BY <1>1, <1>2, ModAddMultiple, Zenon

LEMMA PlaceInRing == ASSUME NEW x \in Nat PROVE x % NUM \in Descs
  BY DivMod, Sizes DEF Descs

LEMMA IncWraps ==
  ASSUME NEW x \in Index
  PROVE  Inc(x) = IF x = UINT16 - 1 THEN 0 ELSE x + 1
  BY ModWraps, Sizes DEF Inc, Index

LEMMA DistIs ==
  ASSUME NEW lo \in Index, NEW hi \in Index
  PROVE  /\ Dist(lo, hi) \in Index
         /\ Dist(lo, hi) = IF lo <= hi THEN hi - lo ELSE hi + UINT16 - lo
<1> DEFINE d == hi + UINT16 - lo
<1>1. lo \in 0 .. UINT16 - 1 /\ hi \in 0 .. UINT16 - 1 /\ d \in Nat /\ d < 2 * UINT16
  BY Sizes DEF Index
<1> HIDE DEF d
<1>2. d % UINT16 = IF d < UINT16 THEN d ELSE d - UINT16
  BY <1>1, ModWraps, Sizes
<1>3. Dist(lo, hi) = IF d < UINT16 THEN d ELSE d - UINT16
  BY <1>2 DEF Dist, d
<1> QED
  BY <1>1, <1>3, Sizes DEF d, Index

\* Entries that differ are no more than what they can be.
LEMMA FewEntries ==
  ASSUME NEW lo \in Index, NEW hi \in Index, NEW r, NEW S \in SUBSET Descs,
         Distinct(r, lo, hi), Entries(r, lo, hi) \subseteq S
  PROVE  Dist(lo, hi) <= Cardinality(S)
<1> DEFINE n == Dist(lo, hi)
           f == [k \in 0 .. n - 1 |-> r[(lo + k) % NUM]]
<1>1. n \in Nat
  BY DistIs DEF Index
<1>2. f \in [0 .. n - 1 -> S]
  BY DEF Entries
<1>3. \A k, l \in 0 .. n - 1 : f[k] = f[l] => k = l
  BY DEF Distinct
<1>4. IsFiniteSet(S)
  <2>1. IsFiniteSet(Descs)
    BY Sizes, FS_Interval DEF Descs
  <2> QED
    BY <2>1, FS_Subset
<1>5. Cardinality(0 .. n - 1) = n
  BY <1>1, FS_Interval
<1> HIDE DEF f, n
<1>6. f \in Injection(0 .. n - 1, S)
  BY <1>2, <1>3 DEF Injection, IsInjective
<1>7. Cardinality(0 .. n - 1) <= Cardinality(S)
  BY <1>4, <1>6, FS_Injection
<1> QED
  BY <1>5, <1>7 DEF n

\* Submit() and the device add an entry at the end of a ring.
LEMMA Push ==
  ASSUME NEW lo \in Index, NEW hi \in Index, NEW r \in [Descs -> Descs \cup {None}],
         NEW x \in Descs, Distinct(r, lo, hi), Entries(r, lo, hi) \subseteq Descs,
         x \notin Entries(r, lo, hi)
  PROVE  /\ Distinct(Put(r, hi, x), lo, Inc(hi))
         /\ Entries(Put(r, hi, x), lo, Inc(hi)) = Entries(r, lo, hi) \cup {x}
<1> DEFINE r2 == Put(r, hi, x)
           n == Dist(lo, hi)
           at(k) == (lo + k) % NUM
<1> USE Sizes
<1>1. n \in Nat /\ n < NUM
  <2>1. n <= Cardinality(Descs \ {x})
    BY FewEntries
  <2>2. Cardinality(Descs \ {x}) = NUM - 1
    <3>1. IsFiniteSet(Descs) /\ Cardinality(Descs) = NUM
      BY FS_Interval DEF Descs
    <3> QED
      BY <3>1, FS_RemoveElement, Zenon
  <2> QED
    BY <2>1, <2>2, DistIs DEF Index
<1>2. Dist(lo, Inc(hi)) = n + 1
  <2>1. Inc(hi) = IF hi = UINT16 - 1 THEN 0 ELSE hi + 1
    BY IncWraps
  <2>2. Inc(hi) \in Index
    BY <2>1 DEF Index
  <2>3. Dist(lo, Inc(hi)) = IF lo <= Inc(hi) THEN Inc(hi) - lo
                                             ELSE Inc(hi) + UINT16 - lo
    BY <2>2, DistIs
  <2>4. n = IF lo <= hi THEN hi - lo ELSE hi + UINT16 - lo
    BY DistIs
  <2> HIDE DEF n
  <2> QED
    BY <1>1, <2>1, <2>3, <2>4 DEF Index
<1>3. hi % NUM = at(n)
  <2>1. n = hi - lo \/ n = hi + UINT16 - lo
    BY DistIs
  <2>2. lo \in Nat /\ hi \in Nat
    BY DEF Index
  <2> HIDE DEF n
  <2>3. lo + n = hi \/ lo + n = hi + UINT16
    BY <1>1, <2>1, <2>2
  <2> QED
    BY <2>2, <2>3, SamePlace, Zenon
<1>4. ASSUME NEW k \in 0 .. n - 1 PROVE at(k) # at(n)
  <2>1. /\ lo + k \in Nat /\ lo + n \in Nat
        /\ lo + k < lo + n /\ lo + n < lo + k + NUM
    BY <1>1 DEF Index
  <2> QED
    BY <2>1, ModApart
<1>5. \A k \in 0 .. n : at(k) \in Descs
  <2> TAKE k \in 0 .. n
  <2>1. lo + k \in Nat
    BY <1>1 DEF Index
  <2> QED
    BY <2>1, PlaceInRing
<1> HIDE DEF at, n
<1>6. (\A k \in 0 .. n - 1 : r2[at(k)] = r[at(k)]) /\ r2[at(n)] = x
  BY <1>1, <1>3, <1>4, <1>5 DEF Put
<1> HIDE DEF r2
<1>7. Entries(r, lo, hi) = {r[at(k)] : k \in 0 .. n - 1}
  BY DEF Entries, at, n
<1>8. Entries(r2, lo, Inc(hi)) = {r2[at(k)] : k \in 0 .. n}
  BY <1>1, <1>2 DEF Entries, at
<1>9. Distinct(r2, lo, Inc(hi))
        <=> \A k, l \in 0 .. n : k # l => r2[at(k)] # r2[at(l)]
  BY <1>1, <1>2 DEF Distinct, at
<1>10. \A k, l \in 0 .. n - 1 : k # l => r[at(k)] # r[at(l)]
  BY DEF Distinct, at, n
<1>11. \A k \in 0 .. n : k = n \/ k \in 0 .. n - 1
  BY <1>1
<1>12. Entries(r2, lo, Inc(hi)) = Entries(r, lo, hi) \cup {x}
  <2>1. n \in 0 .. n /\ \A k \in 0 .. n - 1 : k \in 0 .. n
    BY <1>1
  <2> QED
    BY <1>6, <1>7, <1>8, <1>11, <2>1
<1>13. Distinct(r2, lo, Inc(hi))
  BY <1>6, <1>7, <1>9, <1>10, <1>11
<1> QED
  BY <1>12, <1>13 DEF r2

\* DeviceTake() and IntrOne() take the entry at the beginning of a ring.
LEMMA Pop ==
  ASSUME NEW lo \in Index, NEW hi \in Index, NEW r \in [Descs -> Descs \cup {None}],
         Distinct(r, lo, hi), Entries(r, lo, hi) \subseteq Descs, lo # hi
  PROVE  /\ r[lo % NUM] \in Entries(r, lo, hi)
         /\ Distinct(Put(r, lo, None), Inc(lo), hi)
         /\ Entries(Put(r, lo, None), Inc(lo), hi)
              = Entries(r, lo, hi) \ {r[lo % NUM]}
<1> DEFINE r2 == Put(r, lo, None)
           n == Dist(lo, hi)
           at(k) == (lo + k) % NUM
<1> USE Sizes
<1>1. n \in Nat /\ 0 < n /\ n <= NUM
  <2>1. n <= Cardinality(Descs)
    BY FewEntries
  <2>2. Cardinality(Descs) = NUM
    BY FS_Interval DEF Descs
  <2>3. n \in Nat /\ 0 < n
    <3>1. n = IF lo <= hi THEN hi - lo ELSE hi + UINT16 - lo
      BY DistIs
    <3> HIDE DEF n
    <3> QED
      BY <3>1 DEF Index
  <2> QED
    BY <2>1, <2>2, <2>3
<1>2. Inc(lo) = IF lo = UINT16 - 1 THEN 0 ELSE lo + 1
  BY IncWraps
<1>3. Dist(Inc(lo), hi) = n - 1
  <2>2. Inc(lo) \in Index
    BY <1>2 DEF Index
  <2>3. Dist(Inc(lo), hi) = IF Inc(lo) <= hi THEN hi - Inc(lo)
                                             ELSE hi + UINT16 - Inc(lo)
    BY <2>2, DistIs
  <2>4. n = IF lo <= hi THEN hi - lo ELSE hi + UINT16 - lo
    BY DistIs
  <2> HIDE DEF n
  <2> QED
    BY <1>1, <1>2, <2>3, <2>4 DEF Index
<1>4. ASSUME NEW k \in 0 .. n - 2 PROVE (Inc(lo) + k) % NUM = at(k + 1)
  <2>1. CASE lo # UINT16 - 1
    <3>1. Inc(lo) + k = lo + (k + 1)
      BY <1>1, <1>2, <2>1 DEF Index
    <3> QED
      BY <3>1
  <2>2. CASE lo = UINT16 - 1
    <3>1. k \in Nat /\ Inc(lo) + k = k /\ lo + (k + 1) = k + UINT16
      BY <1>1, <1>2, <2>2
    <3> QED
      BY <3>1, SamePlace
  <2> QED
    BY <2>1, <2>2
<1>5. at(0) = lo % NUM
  BY DEF Index
<1>6. ASSUME NEW k \in 1 .. n - 1 PROVE at(k) # at(0)
  <2>1. /\ lo + 0 \in Nat /\ lo + k \in Nat
        /\ lo + 0 < lo + k /\ lo + k < lo + 0 + NUM
    BY <1>1 DEF Index
  <2> QED
    BY <2>1, ModApart
<1>7. \A k \in 0 .. n - 1 : at(k) \in Descs
  <2> TAKE k \in 0 .. n - 1
  <2>1. lo + k \in Nat
    BY <1>1 DEF Index
  <2> QED
    BY <2>1, PlaceInRing
<1>8. Entries(r2, Inc(lo), hi) = {r2[at(k + 1)] : k \in 0 .. n - 2}
  <2>1. n - 1 - 1 = n - 2
    BY <1>1
  <2> HIDE DEF at, n, r2
  <2> QED
    BY <1>3, <1>4, <2>1 DEF Entries
<1>9. Distinct(r2, Inc(lo), hi)
        <=> \A k, l \in 0 .. n - 2 : k # l => r2[at(k + 1)] # r2[at(l + 1)]
  <2>1. n - 1 - 1 = n - 2
    BY <1>1
  <2> HIDE DEF at, n, r2
  <2> QED
    BY <1>3, <1>4, <2>1 DEF Distinct
<1> HIDE DEF at, n
<1>10. \A k \in 1 .. n - 1 : r2[at(k)] = r[at(k)]
  BY <1>1, <1>5, <1>6, <1>7 DEF Put
<1>11. \A k \in 0 .. n - 2 : r2[at(k + 1)] = r[at(k + 1)]
  <2> TAKE k \in 0 .. n - 2
  <2>1. k + 1 \in 1 .. n - 1
    BY <1>1
  <2> QED
    BY <1>10, <2>1
<1>12. Entries(r, lo, hi) = {r[at(k)] : k \in 0 .. n - 1}
  BY DEF Entries, at, n
<1>13. \A k, l \in 0 .. n - 1 : k # l => r[at(k)] # r[at(l)]
  BY DEF Distinct, at, n
<1> HIDE DEF r2
<1>14. r[at(0)] \in Entries(r, lo, hi)
  BY <1>1, <1>12
<1>15. Entries(r2, Inc(lo), hi) = Entries(r, lo, hi) \ {r[at(0)]}
  <2>1. ASSUME NEW k \in 0 .. n - 2
        PROVE  r2[at(k + 1)] \in Entries(r, lo, hi) /\ r2[at(k + 1)] # r[at(0)]
    <3>1. k + 1 \in 0 .. n - 1 /\ k + 1 # 0 /\ 0 \in 0 .. n - 1
      BY <1>1
    <3> QED
      BY <1>11, <1>12, <1>13, <3>1
  <2>2. ASSUME NEW k \in 0 .. n - 1, r[at(k)] # r[at(0)]
        PROVE  \E m \in 0 .. n - 2 : r[at(k)] = r2[at(m + 1)]
    <3>1. k - 1 \in 0 .. n - 2 /\ (k - 1) + 1 = k
      BY <1>1, <2>2
    <3>2. r2[at((k - 1) + 1)] = r[at((k - 1) + 1)]
      BY <1>11, <3>1
    <3> QED
      BY <3>1, <3>2
  <2> QED
    BY <1>8, <1>12, <2>1, <2>2
<1>16. Distinct(r2, Inc(lo), hi)
  <2> SUFFICES ASSUME NEW k \in 0 .. n - 2, NEW l \in 0 .. n - 2, k # l
               PROVE  r2[at(k + 1)] # r2[at(l + 1)]
    BY <1>9
  <2>1. k + 1 \in 0 .. n - 1 /\ l + 1 \in 0 .. n - 1 /\ k + 1 # l + 1
    BY <1>1
  <2> QED
    BY <1>11, <1>13, <2>1
<1> QED
  BY <1>5, <1>14, <1>15, <1>16 DEF r2

-----------------------------------------------------------------------------
(* Descriptors.                                                            *)

LEMMA LeastNat ==
  ASSUME NEW S \in SUBSET Nat, S # {}
  PROVE  \E m \in S : \A k \in S : m <= k
<1> DEFINE R == OpToRel(<, Nat)
<1>1. \E m \in S : \A k \in S : ~ (<<k, m>> \in R)
  <2>1. IsWellFoundedOn(R, Nat)
    BY NatLessThanWellFounded, Zenon
  <2> HIDE DEF R
  <2> QED
    BY <2>1, WFMin, Zenon
<1>2. \A k, m \in Nat : k < m => <<k, m>> \in R
  BY DEF OpToRel
<1> HIDE DEF R
<1>3. PICK m \in S : \A k \in S : ~ (<<k, m>> \in R)
  BY <1>1
<1>4. ASSUME NEW k \in S, ~ (m <= k) PROVE FALSE
  <2>1. k \in Nat /\ m \in Nat /\ k < m
    BY <1>4
  <2> QED
    BY <2>1, <1>2, <1>3, Zenon
<1> QED
  BY <1>4

LEMMA LowestIn ==
  ASSUME NEW S \in SUBSET Descs, S # {}
  PROVE  Lowest(S) \in S
<1>1. S \in SUBSET Nat
  BY Sizes DEF Descs
<1> QED
  BY <1>1, LeastNat, Zenon DEF Lowest

LEMMA FreeFinite == ASSUME TypeOK PROVE IsFiniteSet(free)
<1>1. IsFiniteSet(Descs)
  BY Sizes, FS_Interval DEF Descs
<1> QED
  BY <1>1, FS_Subset DEF TypeOK

\* alloc3_desc() succeeds when three descriptors are free.
LEMMA FreeThree ==
  ASSUME TypeOK, Cardinality(free) >= 3
  PROVE  /\ Idx0 \in free /\ Idx1 \in free /\ Idx2 \in free
         /\ Idx0 # Idx1 /\ Idx0 # Idx2 /\ Idx1 # Idx2
<1>1. free \in SUBSET Descs /\ IsFiniteSet(free)
  BY FreeFinite DEF TypeOK
<1>2. free # {}
  BY FS_EmptySet
<1>3. Idx0 \in free
  BY <1>1, <1>2, LowestIn DEF Idx0
<1> DEFINE F1 == free \ {Idx0}
           F2 == F1 \ {Idx1}
<1>4. IsFiniteSet(F1) /\ Cardinality(F1) = Cardinality(free) - 1
  BY <1>1, <1>3, FS_RemoveElement
<1>5. Cardinality(free) \in Nat
  BY <1>1, FS_CardinalityType
<1>6. F1 # {}
  BY <1>4, <1>5, FS_EmptySet
<1>7. Idx1 \in F1
  BY <1>1, <1>6, LowestIn DEF Idx1
<1>8. IsFiniteSet(F2) /\ Cardinality(F2) = Cardinality(F1) - 1
  BY <1>4, <1>7, FS_RemoveElement
<1>9. F2 # {}
  BY <1>4, <1>5, <1>8, FS_EmptySet
<1>10. F2 = free \ {Idx0, Idx1}
  OBVIOUS
<1>11. Idx2 \in F2
  BY <1>1, <1>9, <1>10, LowestIn DEF Idx2
<1> QED
  BY <1>3, <1>7, <1>11

\* A truth that has no type.  With it in view tlapm translates obligations for
\* the SMT solver without inferring types, which is several times faster here.
LEMMA Untyped == \A x : x \in x \/ x \notin x
  OBVIOUS

USE Untyped

\* free_chain() gives back the three descriptors of a request in flight.
LEMMA ChainIsCells ==
  ASSUME ChainInv, NEW b \in InFlight
  PROVE  Chain(head[b]) = Cells(b)
<1>1. Linked(b)
  BY DEF ChainInv
<1>2. None \notin Descs
  BY VirtioConstants, Sizes DEF Descs
<1> QED
  BY <1>1, <1>2 DEF Linked, Chain, Cells

LEMMA ThreeCells ==
  ASSUME NEW b, Linked(b)
  PROVE  Cardinality(Cells(b)) = 3
<1> DEFINE i == head[b]
           j == next[i]
           k == next[j]
<1>1. i # j /\ i # k /\ j # k
  BY DEF Linked
<1> HIDE DEF i, j, k
<1>2. IsFiniteSet({i}) /\ Cardinality({i}) = 1
  BY FS_Singleton, Zenon
<1>3. IsFiniteSet({i} \cup {j}) /\ Cardinality({i} \cup {j}) = 2
  BY <1>1, <1>2, FS_AddElement
<1>4. Cardinality({i} \cup {j} \cup {k}) = 3
  BY <1>1, <1>3, FS_AddElement
<1>5. Cells(b) = {i} \cup {j} \cup {k}
  BY DEF Cells, i, j, k
<1> QED
  BY <1>4, <1>5

LEMMA Accounted == ChainInv => DescriptorsAccounted
<1> SUFFICES ASSUME ChainInv PROVE DescriptorsAccounted
  OBVIOUS
<1>1. \A b \in InFlight : Chain(head[b]) = Cells(b)
  BY ChainIsCells
<1>2. \A b \in InFlight : Cardinality(Cells(b)) = 3
  BY ThreeCells DEF ChainInv
<1>3. \A b \in InFlight : Cells(b) \subseteq Descs
  BY DEF ChainInv, Linked, Cells
<1>4. Descs \ free = UNION {Cells(b) : b \in InFlight}
  BY <1>3 DEF ChainInv
<1>5. {Cells(b) : b \in InFlight} = {Chain(head[b]) : b \in InFlight}
  BY <1>1
<1> QED
  BY <1>1, <1>2, <1>4, <1>5 DEF DescriptorsAccounted, ChainInv

-----------------------------------------------------------------------------
(* The invariant is inductive.                                             *)

LEMMA NoneApart == None \notin Descs
  BY VirtioConstants, Sizes DEF Descs

LEMMA IncIndex == ASSUME NEW x \in Index PROVE Inc(x) \in Index
<1>1. Inc(x) = IF x = UINT16 - 1 THEN 0 ELSE x + 1
  BY IncWraps
<1> QED
  BY <1>1, Sizes DEF Index

LEMMA Indices ==
  ASSUME TypeOK
  PROVE  /\ availIdx \in Index /\ seen \in Index
         /\ usedIdx \in Index /\ used_idx \in Index
  BY DEF TypeOK, Index

LEMMA InitIInv == Init => IInv
<1> SUFFICES ASSUME Init PROVE IInv
  OBVIOUS
<1>1. TypeOK
  <2>1. InitVal \in Vals
    BY VirtioConstants
  <2>2. 0 \in 0 .. UINT16 - 1
    BY Sizes
  <2> QED
    BY <2>1, <2>2, Zenon DEF Init, TypeOK
<1>2. InFlight = {}
  BY DEF Init, InFlight
<1>3. ChainInv
  BY <1>2 DEF Init, ChainInv
<1>4. WakeInv
  BY DEF Init, WakeInv
<1>5. Dist(0, 0) = 0
  <2>1. 0 \in Index
    BY Sizes DEF Index
  <2> QED
    BY <2>1, DistIs
<1>6. 0 .. 0 - 1 = {}
  OBVIOUS
<1>7. Offered = {} /\ Returned = {}
  BY <1>5, <1>6 DEF Init, Offered, Returned, Entries
<1>8. Distinct(availRing, seen, availIdx) /\ Distinct(usedRing, used_idx, usedIdx)
  BY <1>5, <1>6 DEF Init, Distinct
<1>9. RingInv
  BY <1>2, <1>7, <1>8 DEF Init, RingInv
<1> QED
  BY <1>1, <1>3, <1>4, <1>9 DEF IInv

\* What the two ends take out of a ring is the head of a request in flight.
LEMMA TakeFromRing ==
  ASSUME IInv
  PROVE  /\ seen # availIdx =>
              /\ availRing[seen % NUM] \in Offered
              /\ Distinct(Put(availRing, seen, None), Inc(seen), availIdx)
              /\ Entries(Put(availRing, seen, None), Inc(seen), availIdx)
                   = Offered \ {availRing[seen % NUM]}
         /\ used_idx # usedIdx =>
              /\ usedRing[used_idx % NUM] \in Returned
              /\ Distinct(Put(usedRing, used_idx, None), Inc(used_idx), usedIdx)
              /\ Entries(Put(usedRing, used_idx, None), Inc(used_idx), usedIdx)
                   = Returned \ {usedRing[used_idx % NUM]}
<1>1. TypeOK /\ ChainInv /\ RingInv
  BY DEF IInv
<1>2. /\ availIdx \in Index /\ seen \in Index
      /\ usedIdx \in Index /\ used_idx \in Index
      /\ availRing \in [Descs -> Descs \cup {None}]
      /\ usedRing \in [Descs -> Descs \cup {None}]
  BY <1>1, Indices DEF TypeOK
<1>3. Offered \subseteq Descs /\ Returned \subseteq Descs
  BY <1>1 DEF RingInv, ChainInv, Linked
<1>4. Distinct(availRing, seen, availIdx) /\ Distinct(usedRing, used_idx, usedIdx)
  BY <1>1 DEF RingInv
<1>5. ASSUME seen # availIdx
      PROVE  /\ availRing[seen % NUM] \in Offered
             /\ Distinct(Put(availRing, seen, None), Inc(seen), availIdx)
             /\ Entries(Put(availRing, seen, None), Inc(seen), availIdx)
                  = Offered \ {availRing[seen % NUM]}
  BY <1>2, <1>3, <1>4, <1>5, Pop, Zenon DEF Offered
<1>6. ASSUME used_idx # usedIdx
      PROVE  /\ usedRing[used_idx % NUM] \in Returned
             /\ Distinct(Put(usedRing, used_idx, None), Inc(used_idx), usedIdx)
             /\ Entries(Put(usedRing, used_idx, None), Inc(used_idx), usedIdx)
                  = Returned \ {usedRing[used_idx % NUM]}
  BY <1>2, <1>3, <1>4, <1>6, Pop, Zenon DEF Returned
<1> QED
  BY <1>5, <1>6

LEMMA StepType ==
  ASSUME IInv, [Next]_vars
  PROVE  TypeOK'
<1> USE DEF TypeOK
<1>1. TypeOK /\ ChainInv
  BY DEF IInv
<1>2. /\ availIdx \in Index /\ seen \in Index
      /\ usedIdx \in Index /\ used_idx \in Index
      /\ Inc(availIdx) \in Index /\ Inc(seen) \in Index
      /\ Inc(usedIdx) \in Index /\ Inc(used_idx) \in Index
  BY <1>1, Indices, IncIndex
<1> USE DEF driverVars, deviceVars, rings, Index
<1>3. ASSUME NEW b \in Bufs, Call(b) PROVE TypeOK'
  BY <1>1, <1>3 DEF Call
<1>4. ASSUME NEW b \in Bufs, AllocFails(b) PROVE TypeOK'
  BY <1>1, <1>4 DEF AllocFails, WakeAllocators
<1>5. ASSUME NEW b \in Bufs, Submit(b) PROVE TypeOK'
  <2>1. Idx0 \in Descs /\ Idx1 \in Descs /\ Idx2 \in Descs
    BY <1>1, <1>5, FreeThree DEF Submit
  <2> QED
    BY <1>1, <1>2, <1>5, <2>1, ZenonT(30) DEF Submit
<1>6. ASSUME NEW b \in Bufs, SleepAgain(b) PROVE TypeOK'
  BY <1>1, <1>6 DEF SleepAgain
<1>7. ASSUME NEW b \in Bufs, Finish(b) PROVE TypeOK'
  <2>1. Chain(head[b]) \subseteq Descs
    <3>1. b \in InFlight
      BY <1>7 DEF Finish, InFlight
    <3>2. Cells(b) \subseteq Descs
      BY <1>1, <3>1, SMTT(20) DEF ChainInv, Linked, Cells
    <3> QED
      BY <1>1, <3>1, <3>2, ChainIsCells
  <2> QED
    BY <1>1, <1>7, <2>1, VirtioConstants, ZenonT(30) DEF Finish, WakeAllocators
<1>8. ASSUME NEW b \in Bufs, Kill(b) PROVE TypeOK'
  BY <1>1, <1>8 DEF Kill
<1>9. CASE IntrAck
  BY <1>1, <1>9, Zenon DEF IntrAck
<1>10. CASE IntrOne
  <2>1. /\ busy' \in [Bufs -> BOOLEAN]
        /\ pc' \in [Bufs -> {"out", "alloc", "asleep", "wait", "woken"}]
        /\ usedRing' \in [Descs -> Descs \cup {None}]
    BY <1>1, <1>10, Zenon DEF IntrOne
  <2>2. used_idx' \in Index
    BY <1>2, <1>10 DEF IntrOne
  <2>3. /\ UNCHANGED <<free, next, info, status, availRing, availIdx, usedIdx>>
        /\ UNCHANGED <<seen, inDevice, interrupt, handling, head, req, data, disk>>
    BY <1>10 DEF IntrOne
  <2> QED
    <3>1. {availIdx, usedIdx, used_idx, seen}' \subseteq 0 .. UINT16 - 1
      BY <1>2, <2>2, <2>3
    <3>2. interrupt' \in BOOLEAN /\ handling' \in BOOLEAN
      BY <1>1, <2>3
    <3> QED
      BY <1>1, <2>1, <2>3, <3>1, <3>2, Zenon
<1>11. CASE IntrEnd
  BY <1>1, <1>11, ZenonT(30) DEF IntrEnd
<1>12. CASE DeviceTake
  <2>1. availRing[seen % NUM] \in Offered
    <3>1. seen # availIdx
      BY <1>12 DEF DeviceTake
    <3> QED
      BY <3>1, TakeFromRing, Zenon
  <2>2. availRing[seen % NUM] \in Descs
    BY <1>1, <2>1, SMTT(20) DEF IInv, RingInv, ChainInv, Linked
  <2>3. inDevice' \subseteq Descs
    <3>1. inDevice' = inDevice \cup {availRing[seen % NUM]}
      BY <1>12 DEF DeviceTake
    <3> QED
      BY <1>1, <2>2, <3>1
  <2>4. availRing' \in [Descs -> Descs \cup {None}]
    BY <1>1, <1>12, Zenon DEF DeviceTake
  <2> QED
    BY <1>1, <1>2, <1>12, <2>3, <2>4 DEF DeviceTake
<1>13. ASSUME NEW i \in Descs, DeviceDo(i) PROVE TypeOK'
  <2>1. data' \in [Bufs -> Vals] /\ disk' \in [Bufs -> Vals]
    BY <1>1, <1>13 DEF DeviceDo
  <2>2. /\ inDevice' \subseteq Descs /\ status' \in [Descs -> {0, 255}]
        /\ usedRing' \in [Descs -> Descs \cup {None}]
    BY <1>1, <1>13, Zenon DEF DeviceDo
  <2> QED
    BY <1>1, <1>2, <1>13, <2>1, <2>2 DEF DeviceDo
<1>14. CASE UNCHANGED vars
  BY <1>1, <1>14 DEF vars
<1> QED
  BY <1>3, <1>4, <1>5, <1>6, <1>7, <1>8, <1>9, <1>10, <1>11, <1>12, <1>13, <1>14,
     ZenonT(30)
  DEF Next, Intr, Device, Rw

\* A step that leaves the requests in flight and their descriptors alone.
LEMMA ChainFrame ==
  ASSUME TypeOK, ChainInv, UNCHANGED <<head, free>>, InFlight' = InFlight,
         \A i \in Descs \ free : next'[i] = next[i]
  PROVE  ChainInv'
<1>1. ASSUME NEW b \in InFlight
      PROVE  Linked(b)' /\ Cells(b)' = Cells(b)
  <2>1. Linked(b)
    BY DEF ChainInv
  <2>2. \A i \in Cells(b) : i \in Descs \ free
    BY <2>1 DEF ChainInv, Linked, Cells
  <2>3. \A i \in Cells(b) : next'[i] = next[i]
    BY <2>2
  <2> QED
    BY <2>1, <2>3 DEF Linked, Cells
<1> QED
  BY <1>1 DEF ChainInv, InFlight

LEMMA StepChain ==
  ASSUME IInv, [Next]_vars
  PROVE  ChainInv'
<1>1. TypeOK /\ ChainInv
  BY DEF IInv
<1>2. \A b \in Bufs : b \in InFlight <=> pc[b] \in {"wait", "woken"}
  BY DEF InFlight
<1> USE DEF driverVars, deviceVars, rings
<1>3. ASSUME NEW b \in Bufs, Call(b) \/ SleepAgain(b) \/ Kill(b) PROVE ChainInv'
  <2>1. InFlight' = InFlight
    BY <1>1, <1>3 DEF Call, SleepAgain, Kill, InFlight, TypeOK
  <2> QED
    BY <1>1, <1>3, <2>1, ChainFrame DEF Call, SleepAgain, Kill
<1>4. ASSUME NEW b \in Bufs, AllocFails(b) PROVE ChainInv'
  <2>1. InFlight' = InFlight
    BY <1>1, <1>4 DEF AllocFails, InFlight, WakeAllocators, TypeOK
  <2> QED
    BY <1>1, <1>4, <2>1, ChainFrame DEF AllocFails
<1>5. ASSUME NEW b \in Bufs, Submit(b) PROVE ChainInv'
  <2> DEFINE i == Idx0
             j == Idx1
             k == Idx2
  <2>1. i \in free /\ j \in free /\ k \in free /\ i # j /\ i # k /\ j # k
    BY <1>1, <1>5, FreeThree DEF Submit
  <2> HIDE DEF i, j, k
  <2>2. free \subseteq Descs /\ next \in [Descs -> Descs \cup {None}]
        /\ head \in [Bufs -> Descs \cup {None}]
    BY <1>1 DEF TypeOK
  <2>3. /\ free' = free \ {i, j, k}
        /\ next' = [next EXCEPT ![i] = j, ![j] = k, ![k] = None]
        /\ head' = [head EXCEPT ![b] = i]
        /\ InFlight' = InFlight \cup {b} /\ b \notin InFlight
    BY <1>1, <1>5 DEF Submit, InFlight, TypeOK, i, j, k
  <2>4. Linked(b)' /\ Cells(b)' = {i, j, k}
    BY <2>1, <2>2, <2>3, SMTT(20) DEF Linked, Cells
  <2>5. ASSUME NEW c \in InFlight
        PROVE  /\ Linked(c)' /\ Cells(c)' = Cells(c)
               /\ \A m \in Cells(c) : m \in Descs \ free
    <3>1. Linked(c)
      BY <1>1 DEF ChainInv
    <3>2. \A m \in Cells(c) : m \in Descs \ free
      BY <1>1, <3>1, SMTT(20) DEF ChainInv, Linked, Cells
    <3>3. \A m \in Cells(c) : next'[m] = next[m]
      BY <2>1, <2>2, <2>3, <3>2
    <3>4. head'[c] = head[c]
      BY <2>2, <2>3 DEF InFlight
    <3> QED
      BY <3>1, <3>2, <3>3, <3>4 DEF Linked, Cells
  <2>6. \A c \in Bufs : c \notin InFlight' => head'[c] = None
    BY <1>1, <2>2, <2>3 DEF ChainInv
  <2>7. \A c \in InFlight' : Linked(c)'
    BY <2>3, <2>4, <2>5
  <2>8. \A c, d \in InFlight' : c # d => Cells(c)' \cap Cells(d)' = {}
    BY <1>1, <2>1, <2>3, <2>4, <2>5 DEF ChainInv
  <2>9. \A m \in Descs : m \notin free' <=> \E c \in InFlight' : m \in Cells(c)'
    BY <1>1, <2>1, <2>3, <2>4, <2>5 DEF ChainInv
  <2> QED
    BY <2>6, <2>7, <2>8, <2>9 DEF ChainInv
<1>6. ASSUME NEW b \in Bufs, Finish(b) PROVE ChainInv'
  <2>1. b \in InFlight
    BY <1>6 DEF Finish, InFlight
  <2>2. Chain(head[b]) = Cells(b)
    BY <1>1, <2>1, ChainIsCells
  <2>3. /\ free' = free \cup Cells(b)
        /\ next' = [i \in Descs |-> IF i \in Cells(b) THEN None ELSE next[i]]
        /\ head' = [head EXCEPT ![b] = None]
        /\ InFlight' = InFlight \ {b}
    <3>1. InFlight' = InFlight \ {b}
      BY <1>1, <1>6 DEF Finish, InFlight, WakeAllocators, TypeOK
    <3> QED
      BY <1>6, <2>2, <3>1 DEF Finish
  <2>4. ASSUME NEW c \in InFlight, c # b
        PROVE  /\ Linked(c)' /\ Cells(c)' = Cells(c)
               /\ Cells(c) \cap Cells(b) = {}
    <3>1. Linked(c) /\ Cells(c) \cap Cells(b) = {}
      BY <1>1, <2>1, <2>4 DEF ChainInv
    <3>2. \A m \in Cells(c) : next'[m] = next[m]
      BY <2>3, <3>1, Zenon DEF Linked, Cells
    <3>3. head'[c] = head[c]
      BY <1>1, <2>3, <2>4 DEF InFlight, TypeOK
    <3> QED
      BY <3>1, <3>2, <3>3 DEF Linked, Cells
  <2>5. \A c \in Bufs : c \notin InFlight' => head'[c] = None
    BY <1>1, <2>3 DEF ChainInv, TypeOK
  <2>6. \A c \in InFlight' : Linked(c)'
    BY <2>3, <2>4
  <2>7. \A c, d \in InFlight' : c # d => Cells(c)' \cap Cells(d)' = {}
    BY <1>1, <2>3, <2>4 DEF ChainInv
  <2>8. \A m \in Descs : m \notin free' <=> \E c \in InFlight' : m \in Cells(c)'
    BY <1>1, <2>1, <2>3, <2>4, SMTT(20) DEF ChainInv
  <2> QED
    BY <2>5, <2>6, <2>7, <2>8 DEF ChainInv
<1>7. CASE IntrAck \/ IntrOne \/ IntrEnd
  <2>1. UNCHANGED <<head, free, next>>
    BY <1>7, Zenon DEF IntrAck, IntrOne, IntrEnd, driverVars
  <2>2. InFlight' = InFlight
    <3>1. CASE UNCHANGED pc
      BY <3>1 DEF InFlight
    <3>2. CASE IntrOne
      BY <1>1, <3>2 DEF IntrOne, InFlight, TypeOK
    <3> QED
      BY <1>7, <3>1, <3>2, Zenon DEF IntrAck, IntrEnd
  <2> QED
    BY <1>1, <2>1, <2>2, ChainFrame
<1>8. CASE DeviceTake \/ \E i \in Descs : DeviceDo(i)
  <2>1. InFlight' = InFlight
    BY <1>8 DEF DeviceTake, DeviceDo, InFlight
  <2> QED
    BY <1>1, <1>8, <2>1, ChainFrame DEF DeviceTake, DeviceDo
<1>9. CASE UNCHANGED vars
  <2>1. InFlight' = InFlight
    BY <1>9 DEF vars, InFlight
  <2> QED
    BY <1>1, <1>9, <2>1, ChainFrame DEF vars
<1> QED
  BY <1>3, <1>4, <1>5, <1>6, <1>7, <1>8, <1>9 DEF Next, Intr, Device, Rw

LEMMA StepWake ==
  ASSUME IInv, [Next]_vars
  PROVE  WakeInv'
<1>1. TypeOK /\ WakeInv
  BY DEF IInv
<1> USE DEF driverVars, deviceVars, rings, WakeInv, TypeOK
<1>2. ASSUME NEW b \in Bufs, Call(b) \/ SleepAgain(b) \/ Kill(b) PROVE WakeInv'
  BY <1>1, <1>2 DEF Call, SleepAgain, Kill
<1>3. ASSUME NEW b \in Bufs, AllocFails(b) PROVE WakeInv'
  BY <1>1, <1>3 DEF AllocFails, WakeAllocators
<1>4. ASSUME NEW b \in Bufs, Submit(b) PROVE WakeInv'
  <2>1. Cardinality(free) \in Nat /\ Cardinality(free) >= 3
    <3>1. IsFiniteSet(free)
      BY <1>1, FreeFinite
    <3> QED
      BY <1>4, <3>1, FS_CardinalityType DEF Submit
  <2>2. \A c \in Bufs : pc[c] # "asleep"
    BY <1>1, <2>1
  <2> QED
    BY <1>1, <1>4, <2>2 DEF Submit
<1>5. ASSUME NEW b \in Bufs, Finish(b) PROVE WakeInv'
  BY <1>1, <1>5 DEF Finish, WakeAllocators
<1>6. CASE Intr
  <2>1. CASE IntrAck
    BY <1>1, <2>1, SMTT(20) DEF IntrAck
  <2>2. CASE IntrOne
    BY <1>1, <2>2 DEF IntrOne
  <2>3. CASE IntrEnd
    BY <1>1, <2>3, SMTT(20) DEF IntrEnd
  <2> QED
    BY <1>6, <2>1, <2>2, <2>3 DEF Intr
<1>7. CASE Device
  BY <1>1, <1>7 DEF Device, DeviceTake, DeviceDo
<1>8. CASE UNCHANGED vars
  BY <1>1, <1>8 DEF vars
<1> QED
  BY <1>2, <1>3, <1>4, <1>5, <1>6, <1>7, <1>8 DEF Next, Rw

\* The heads of the requests in flight: in use, and each of one request.
LEMMA HeadsApart ==
  ASSUME IInv
  PROVE  /\ \A b \in InFlight : head[b] \in Descs \ free
         /\ \A b, c \in InFlight : head[b] = head[c] => b = c
<1>1. ChainInv
  BY DEF IInv
<1>2. \A b \in InFlight : head[b] \in Descs /\ head[b] \in Cells(b)
  BY <1>1 DEF ChainInv, Linked, Cells
<1> QED
  BY <1>1, <1>2 DEF ChainInv

\* A ring that nobody touches.
LEMMA SameAvail ==
  ASSUME UNCHANGED <<availRing, seen, availIdx>>
  PROVE  /\ Offered' = Offered
         /\ Distinct(availRing, seen, availIdx)' = Distinct(availRing, seen, availIdx)
<1>1. availRing' = availRing /\ seen' = seen /\ availIdx' = availIdx
  OBVIOUS
<1> QED
  BY <1>1, Zenon DEF Offered, Entries, Distinct, Dist

LEMMA SameUsed ==
  ASSUME UNCHANGED <<usedRing, used_idx, usedIdx>>
  PROVE  /\ Returned' = Returned
         /\ Distinct(usedRing, used_idx, usedIdx)' = Distinct(usedRing, used_idx, usedIdx)
<1>1. usedRing' = usedRing /\ used_idx' = used_idx /\ usedIdx' = usedIdx
  OBVIOUS
<1> QED
  BY <1>1, Zenon DEF Returned, Entries, Distinct, Dist

LEMMA StepRing ==
  ASSUME IInv, [Next]_vars
  PROVE  RingInv'
<1>1. TypeOK /\ RingInv
  BY DEF IInv
<1>2. /\ \A b \in InFlight : head[b] \in Descs \ free
      /\ \A b, c \in InFlight : head[b] = head[c] => b = c
  BY HeadsApart
<1> USE DEF driverVars, deviceVars, rings
<1>3. ASSUME UNCHANGED <<info, status, rings, availIdx, usedIdx, used_idx, seen,
                         inDevice, head, busy>>, InFlight' = InFlight
      PROVE  RingInv'
  BY <1>1, <1>3, SameAvail, SameUsed, SMTT(20) DEF RingInv
<1>4. ASSUME NEW b \in Bufs, Call(b) \/ AllocFails(b) \/ SleepAgain(b) \/ Kill(b)
      PROVE  RingInv'
  <2>1. InFlight' = InFlight
    <3>1. CASE AllocFails(b)
      BY <1>1, <3>1 DEF AllocFails, WakeAllocators, InFlight, TypeOK
    <3> QED
      BY <1>1, <1>4, <3>1, SMTT(20) DEF Call, SleepAgain, Kill, InFlight, TypeOK
  <2> QED
    BY <1>3, <1>4, <2>1, SMTT(20) DEF Call, AllocFails, SleepAgain, Kill
<1>5. CASE IntrAck \/ IntrEnd
  <2>1. InFlight' = InFlight
    BY <1>5 DEF IntrAck, IntrEnd, InFlight
  <2> QED
    BY <1>3, <1>5, <2>1 DEF IntrAck, IntrEnd
<1>6. ASSUME NEW b \in Bufs, Submit(b) PROVE RingInv'
  <2> DEFINE i == Idx0
  <2>1. i \in free /\ i \in Descs
    BY <1>1, <1>6, FreeThree DEF Submit, TypeOK
  <2> HIDE DEF i
  <2>2. /\ info' = [info EXCEPT ![i] = b] /\ status' = [status EXCEPT ![i] = 255]
        /\ busy' = [busy EXCEPT ![b] = TRUE] /\ head' = [head EXCEPT ![b] = i]
        /\ availRing' = [availRing EXCEPT ![availIdx % NUM] = i]
        /\ availIdx' = Inc(availIdx)
        /\ UNCHANGED <<seen, usedRing, usedIdx, used_idx, inDevice>>
    BY <1>6 DEF Submit, i
  <2>3. InFlight' = InFlight \cup {b} /\ b \notin InFlight
    BY <1>1, <1>6 DEF Submit, InFlight, TypeOK
  <2>4. i \notin Offered \cup inDevice \cup Returned
    BY <1>1, <1>2, <2>1 DEF RingInv
  <2>5. Offered' = Offered \cup {i} /\ Distinct(availRing, seen, availIdx)'
    <3>1. /\ availIdx \in Index /\ seen \in Index /\ Offered \subseteq Descs
          /\ availRing \in [Descs -> Descs \cup {None}]
          /\ Distinct(availRing, seen, availIdx)
      <4>1. Offered \subseteq Descs /\ Distinct(availRing, seen, availIdx)
        BY <1>1, <1>2 DEF RingInv
      <4>2. availIdx \in Index /\ seen \in Index
        BY <1>1, Indices
      <4> QED
        BY <1>1, <4>1, <4>2 DEF TypeOK
    <3>2. /\ Distinct(Put(availRing, availIdx, i), seen, Inc(availIdx))
          /\ Entries(Put(availRing, availIdx, i), seen, Inc(availIdx))
               = Entries(availRing, seen, availIdx) \cup {i}
      <4>1. Entries(availRing, seen, availIdx) \subseteq Descs
            /\ i \notin Entries(availRing, seen, availIdx)
        BY <2>4, <3>1 DEF Offered
      <4> QED
        BY <2>1, <3>1, <4>1, Push
    <3> QED
      BY <2>2, <3>2, Zenon DEF Offered, Put
  <2>6. Returned' = Returned /\ Distinct(usedRing, used_idx, usedIdx)'
    BY <1>1, <2>2, SameUsed DEF RingInv
  <2>7. ASSUME NEW c \in InFlight
        PROVE  /\ head'[c] = head[c] /\ head[c] # i /\ busy'[c] = busy[c]
               /\ info'[head[c]] = info[head[c]] /\ status'[head[c]] = status[head[c]]
    <3>1. c # b /\ c \in Bufs /\ head[c] # i /\ head[c] \in Descs
      BY <1>2, <2>1, <2>3 DEF InFlight
    <3> QED
      BY <1>1, <2>1, <2>2, <3>1 DEF TypeOK
  <2>8. head'[b] = i /\ busy'[b] /\ info'[i] = b /\ status'[i] = 255
    BY <1>1, <2>1, <2>2, SMTT(20) DEF TypeOK
  <2>9. \A m \in (Offered \cup inDevice \cup Returned)' :
            \E c \in InFlight' : m = head'[c]
    BY <1>1, <2>2, <2>3, <2>5, <2>6, <2>7, <2>8, SMTT(20) DEF RingInv
  <2>10. \A c \in InFlight' :
            /\ info'[head'[c]] = c
            /\ busy'[c] <=> head'[c] \in (Offered \cup inDevice \cup Returned)'
            /\ status'[head'[c]] = 255 <=> head'[c] \in (Offered \cup inDevice)'
    <3> TAKE c \in InFlight'
    <3>1. CASE c = b
      BY <2>2, <2>5, <2>6, <2>8, <3>1
    <3>2. CASE c # b
      <4>1. c \in InFlight
        BY <2>3, <3>2
      <4>2. /\ info[head[c]] = c
            /\ busy[c] <=> head[c] \in Offered \cup inDevice \cup Returned
            /\ status[head[c]] = 255 <=> head[c] \in Offered \cup inDevice
        BY <1>1, <4>1 DEF RingInv
      <4>3. /\ head'[c] = head[c] /\ head[c] # i /\ busy'[c] = busy[c]
            /\ info'[head[c]] = info[head[c]] /\ status'[head[c]] = status[head[c]]
        BY <2>7, <4>1
      <4>4. inDevice' = inDevice
        BY <2>2
      <4> QED
        BY <2>5, <2>6, <4>2, <4>3, <4>4
    <3> QED
      BY <3>1, <3>2
  <2>11. /\ Offered' \cap inDevice' = {}
         /\ (Offered' \cup inDevice') \cap Returned' = {}
    BY <1>1, <2>2, <2>4, <2>5, <2>6, SMTT(20) DEF RingInv
  <2> QED
    BY <2>5, <2>6, <2>9, <2>10, <2>11, SMTT(20) DEF RingInv
<1>7. ASSUME NEW b \in Bufs, Finish(b) PROVE RingInv'
  <2>1. b \in InFlight /\ ~busy[b]
    BY <1>7 DEF Finish, InFlight
  <2>2. /\ info' = [info EXCEPT ![head[b]] = None] /\ head' = [head EXCEPT ![b] = None]
        /\ UNCHANGED <<status, busy, inDevice>>
    BY <1>7 DEF Finish
  <2>3. InFlight' = InFlight \ {b}
    BY <1>1, <1>7 DEF Finish, InFlight, WakeAllocators, TypeOK
  <2>4. head[b] \notin Offered \cup inDevice \cup Returned
    BY <1>1, <2>1 DEF RingInv
  <2>5. /\ Offered' = Offered /\ Returned' = Returned
        /\ Distinct(availRing, seen, availIdx)' /\ Distinct(usedRing, used_idx, usedIdx)'
    <3>1. UNCHANGED <<availRing, seen, availIdx, usedRing, used_idx, usedIdx>>
      BY <1>7 DEF Finish
    <3> QED
      BY <1>1, <3>1, SameAvail, SameUsed DEF RingInv
  <2>6. ASSUME NEW c \in InFlight, c # b
        PROVE  head'[c] = head[c] /\ info'[head[c]] = info[head[c]]
    BY <1>1, <1>2, <2>1, <2>2, <2>6, SMTT(20) DEF TypeOK, InFlight
  <2>7. \A m \in (Offered \cup inDevice \cup Returned)' :
            \E c \in InFlight' : m = head'[c]
    BY <1>1, <2>2, <2>3, <2>4, <2>5, <2>6, SMTT(20) DEF RingInv
  <2>8. \A c \in InFlight' :
            /\ info'[head'[c]] = c
            /\ busy'[c] <=> head'[c] \in (Offered \cup inDevice \cup Returned)'
            /\ status'[head'[c]] = 255 <=> head'[c] \in (Offered \cup inDevice)'
    BY <1>1, <2>2, <2>3, <2>5, <2>6, SMTT(20) DEF RingInv
  <2> QED
    BY <1>1, <2>2, <2>5, <2>7, <2>8 DEF RingInv
<1>8. CASE IntrOne
  <2> DEFINE e == usedRing[used_idx % NUM]
  <2>1. e \in Returned /\ Returned' = Returned \ {e}
        /\ Distinct(usedRing, used_idx, usedIdx)'
    BY <1>8, TakeFromRing, Zenon DEF IntrOne, Returned, Put
  <2>2. /\ busy' = [busy EXCEPT ![info[e]] = FALSE]
        /\ UNCHANGED <<info, status, inDevice, head>>
    BY <1>8, SMTT(20) DEF IntrOne
  <2> HIDE DEF e
  <2>3. InFlight' = InFlight
    BY <1>1, <1>8 DEF IntrOne, InFlight, TypeOK
  <2>4. Offered' = Offered /\ Distinct(availRing, seen, availIdx)'
    <3>1. UNCHANGED <<availRing, seen, availIdx>>
      BY <1>8 DEF IntrOne
    <3> QED
      BY <1>1, <3>1, SameAvail DEF RingInv
  <2>5. PICK b \in InFlight : e = head[b]
    BY <1>1, <2>1 DEF RingInv
  <2>6. info[e] = b /\ e \notin Offered \cup inDevice
    BY <1>1, <2>1, <2>5 DEF RingInv
  <2>7. ~busy'[b] /\ \A c \in InFlight : c # b => busy'[c] = busy[c] /\ head[c] # e
    BY <1>1, <1>2, <2>2, <2>5, <2>6, SMTT(20) DEF TypeOK, InFlight
  <2>8. \A c \in InFlight' :
            busy'[c] <=> head'[c] \in (Offered \cup inDevice \cup Returned)'
    BY <1>1, <2>1, <2>2, <2>3, <2>4, <2>5, <2>6, <2>7, SMTT(20) DEF RingInv
  <2> QED
    BY <1>1, <2>1, <2>2, <2>3, <2>4, <2>8 DEF RingInv
<1>9. CASE DeviceTake
  <2> DEFINE e == availRing[seen % NUM]
  <2>1. e \in Offered /\ Offered' = Offered \ {e} /\ Distinct(availRing, seen, availIdx)'
    BY <1>9, TakeFromRing, Zenon DEF DeviceTake, Offered, Put
  <2>2. inDevice' = inDevice \cup {e} /\ UNCHANGED <<info, status, head, busy>>
    BY <1>9 DEF DeviceTake
  <2> HIDE DEF e
  <2>3. InFlight' = InFlight
    BY <1>9 DEF DeviceTake, InFlight
  <2>4. Returned' = Returned /\ Distinct(usedRing, used_idx, usedIdx)'
    <3>1. UNCHANGED <<usedRing, used_idx, usedIdx>>
      BY <1>9 DEF DeviceTake
    <3> QED
      BY <1>1, <3>1, SameUsed DEF RingInv
  <2>5. (Offered \cup inDevice)' = Offered \cup inDevice
    BY <2>1, <2>2
  <2> QED
    BY <1>1, <2>1, <2>2, <2>3, <2>4, <2>5 DEF RingInv
<1>10. ASSUME NEW i \in Descs, DeviceDo(i) PROVE RingInv'
  <2>1. /\ i \in inDevice /\ inDevice' = inDevice \ {i}
        /\ status' = [status EXCEPT ![i] = 0]
        /\ usedRing' = [usedRing EXCEPT ![usedIdx % NUM] = i] /\ usedIdx' = Inc(usedIdx)
        /\ UNCHANGED <<used_idx, info, head, busy>>
    BY <1>10 DEF DeviceDo
  <2>2. InFlight' = InFlight
    BY <1>10 DEF DeviceDo, InFlight
  <2>3. i \notin Offered \cup Returned
    BY <1>1, <2>1 DEF RingInv
  <2>4. Returned' = Returned \cup {i} /\ Distinct(usedRing, used_idx, usedIdx)'
    <3>1. /\ usedIdx \in Index /\ used_idx \in Index /\ Returned \subseteq Descs
          /\ usedRing \in [Descs -> Descs \cup {None}]
          /\ Distinct(usedRing, used_idx, usedIdx)
      <4>1. Returned \subseteq Descs /\ Distinct(usedRing, used_idx, usedIdx)
        BY <1>1, <1>2 DEF RingInv
      <4>2. usedIdx \in Index /\ used_idx \in Index
        BY <1>1, Indices
      <4> QED
        BY <1>1, <4>1, <4>2 DEF TypeOK
    <3>2. /\ Distinct(Put(usedRing, usedIdx, i), used_idx, Inc(usedIdx))
          /\ Entries(Put(usedRing, usedIdx, i), used_idx, Inc(usedIdx))
               = Entries(usedRing, used_idx, usedIdx) \cup {i}
      <4>1. Entries(usedRing, used_idx, usedIdx) \subseteq Descs
            /\ i \notin Entries(usedRing, used_idx, usedIdx)
        BY <2>3, <3>1 DEF Returned
      <4> QED
        BY <3>1, <4>1, Push
    <3> QED
      BY <2>1, <3>2, Zenon DEF Returned, Put
  <2>5. Offered' = Offered /\ Distinct(availRing, seen, availIdx)'
    <3>1. UNCHANGED <<availRing, seen, availIdx>>
      BY <1>10 DEF DeviceDo
    <3> QED
      BY <1>1, <3>1, SameAvail DEF RingInv
  <2>6. (Offered \cup inDevice \cup Returned)' = Offered \cup inDevice \cup Returned
    BY <2>1, <2>4, <2>5
  <2>7. \A c \in InFlight :
            status'[head[c]] = IF head[c] = i THEN 0 ELSE status[head[c]]
    BY <1>1, <1>2, <2>1 DEF TypeOK
  <2>8. \A c \in InFlight' :
            status'[head'[c]] = 255 <=> head'[c] \in (Offered \cup inDevice)'
    <3> TAKE c \in InFlight'
    <3>1. c \in InFlight /\ head'[c] = head[c]
      BY <2>1, <2>2
    <3>2. status[head[c]] = 255 <=> head[c] \in Offered \cup inDevice
      BY <1>1, <3>1 DEF RingInv
    <3>3. inDevice' = inDevice \ {i} /\ Offered' = Offered /\ i \notin Offered
      BY <2>1, <2>3, <2>5
    <3>4. CASE head[c] = i
      BY <2>7, <3>1, <3>3, <3>4
    <3>5. CASE head[c] # i
      BY <2>7, <3>1, <3>2, <3>3, <3>5, SMTT(20)
    <3> QED
      BY <3>4, <3>5
  <2>9. /\ Offered' \cap inDevice' = {}
        /\ (Offered' \cup inDevice') \cap Returned' = {}
    BY <1>1, <2>1, <2>3, <2>4, <2>5 DEF RingInv
  <2> QED
    <3>1. \A m \in (Offered \cup inDevice \cup Returned)' :
              \E c \in InFlight' : m = head'[c]
      BY <1>1, <2>1, <2>2, <2>6 DEF RingInv
    <3>2. \A c \in InFlight' :
              /\ info'[head'[c]] = c
              /\ busy'[c] <=> head'[c] \in (Offered \cup inDevice \cup Returned)'
      BY <1>1, <2>1, <2>2, <2>6 DEF RingInv
    <3> QED
      BY <2>4, <2>5, <2>8, <2>9, <3>1, <3>2, SMTT(20) DEF RingInv
<1>11. CASE UNCHANGED vars
  <2>1. InFlight' = InFlight
    BY <1>11 DEF vars, InFlight
  <2> QED
    BY <1>3, <1>11, <2>1 DEF vars
<1> QED
  BY <1>4, <1>5, <1>6, <1>7, <1>8, <1>9, <1>10, <1>11 DEF Next, Intr, Device, Rw

\* The inductive invariant holds in every state that virtio_disk_rw(), the
\* interrupt handler and the device reach.
THEOREM Invariance == Spec => []IInv
<1>1. IInv /\ [Next]_vars => IInv'
  BY StepType, StepChain, StepWake, StepRing DEF IInv
<1> QED
  BY <1>1, InitIInv, PTL DEF Spec

\* The descriptors, the rings and their indices, and info[] keep their types.
THEOREM TypeCorrect == Spec => []TypeOK
<1>1. IInv => TypeOK
  BY DEF IInv
<1> QED
  BY <1>1, Invariance, PTL

\* free_desc() never panics, and alloc3_desc() and free_chain() neither leak nor
\* share a descriptor.
THEOREM DescriptorsKept == Spec => []DescriptorsAccounted
<1>1. IInv => DescriptorsAccounted
  BY Accounted DEF IInv
<1> QED
  BY <1>1, Invariance, PTL

\* The handler leaves nothing unseen and never panics, and nobody sleeps in
\* virtio_disk_rw() for descriptors that are free or for a transfer that is done.
THEOREM NobodyIsForgotten == Spec => []NobodyForgotten
<1>1. ASSUME IInv, used_idx # usedIdx PROVE ~StatusPanic
  <2> DEFINE e == usedRing[used_idx % NUM]
  <2>1. e \in Returned
    BY <1>1, TakeFromRing
  <2> HIDE DEF e
  <2>2. TypeOK /\ ChainInv /\ RingInv
    BY <1>1 DEF IInv
  <2>3. PICK b \in InFlight : e = head[b]
    BY <2>1, <2>2 DEF RingInv
  <2>4. e \in Descs /\ e \notin Offered \cup inDevice
    BY <2>1, <2>2, <2>3 DEF RingInv, ChainInv, Linked
  <2>5. status[e] # 255
    BY <2>2, <2>3, <2>4 DEF RingInv
  <2>6. status[e] = 0
    BY <2>2, <2>4, <2>5 DEF TypeOK
  <2> QED
    BY <2>6 DEF StatusPanic, e
<1>2. IInv => NobodyForgotten
  BY <1>1 DEF IInv, WakeInv, NobodyForgotten
<1> QED
  BY <1>2, Invariance, PTL

-----------------------------------------------------------------------------
(* The driver and the device together implement BlockDevice.               *)

stage == [b \in Bufs |-> Stage(b)]

LEMMA RefineInit == Init => AbstractDevice!Init
  BY DEF Init, AbstractDevice!Init, Stage

\* Stages change only where pc, head and the status byte of the head do.
LEMMA SameStage ==
  ASSUME NEW b,
         pc'[b] = "out" <=> pc[b] = "out",
         head'[b] = head[b],
         head[b] # None => status'[head[b]] = status[head[b]]
  PROVE  Stage(b)' = Stage(b)
  BY DEF Stage

LEMMA RefineStep ==
  ASSUME IInv, [Next]_vars
  PROVE  [AbstractDevice!Next]_(AbstractDevice!vars)
<1>1. TypeOK /\ RingInv
  BY DEF IInv
<1>2. /\ \A b \in InFlight : head[b] \in Descs \ free
      /\ \A b, c \in InFlight : head[b] = head[c] => b = c
  BY HeadsApart
<1>3. \A b \in Bufs : head[b] # None <=> b \in InFlight
  BY <1>2, NoneApart DEF IInv, ChainInv
<1> USE DEF driverVars, deviceVars, rings
<1>4. ASSUME stage' = stage, UNCHANGED <<req, data, disk>>
      PROVE  [AbstractDevice!Next]_(AbstractDevice!vars)
  BY <1>4 DEF AbstractDevice!vars, stage
<1>5. ASSUME NEW b \in Bufs, Call(b) PROVE AbstractDevice!Ask(b)
  <2>1. b \notin InFlight /\ head[b] = None
    BY <1>3, <1>5 DEF Call, InFlight
  <2>2. stage[b] = "idle"
    BY <1>5 DEF Call, stage, Stage
  <2>3. stage' = [stage EXCEPT ![b] = "asked"]
    <3>1. Stage(b)' = "asked"
      BY <1>1, <1>5, <2>1 DEF Call, Stage, TypeOK
    <3>2. ASSUME NEW c \in Bufs, c # b PROVE Stage(c)' = Stage(c)
      BY <1>1, <1>5, <3>2, SameStage DEF Call, TypeOK
    <3> QED
      BY <3>1, <3>2, Zenon DEF stage
  <2>4. PICK r \in Requests, v \in Vals :
          req' = [req EXCEPT ![b] = r] /\ data' = [data EXCEPT ![b] = v]
    BY <1>5, Zenon DEF Call
  <2>5. UNCHANGED disk
    BY <1>5 DEF Call
  <2> QED
    BY <2>2, <2>3, <2>4, <2>5, Zenon DEF AbstractDevice!Ask, stage, Requests
<1>6. ASSUME NEW b \in Bufs, AllocFails(b) PROVE stage' = stage
  <2>1. ASSUME NEW c \in Bufs PROVE Stage(c)' = Stage(c)
    BY <1>1, <1>6, SameStage, Zenon DEF AllocFails, WakeAllocators, TypeOK
  <2> QED
    BY <2>1 DEF stage
<1>7. ASSUME NEW b \in Bufs, Submit(b) PROVE stage' = stage
  <2> DEFINE i == Idx0
  <2>1. i \in free /\ i \in Descs
    BY <1>1, <1>7, FreeThree DEF Submit, TypeOK
  <2> HIDE DEF i
  <2>2. /\ status' = [status EXCEPT ![i] = 255]
        /\ head' = [head EXCEPT ![b] = i]
        /\ pc[b] = "alloc" /\ pc' = [pc EXCEPT ![b] = "wait"]
    BY <1>7 DEF Submit, i
  <2>3. Stage(b)' = "asked" /\ Stage(b) = "asked"
    <3>1. head[b] = None
      BY <1>3, <2>2 DEF InFlight
    <3> QED
      <4>1. pc'[b] = "wait" /\ head'[b] = i /\ status'[i] = 255
        BY <1>1, <2>1, <2>2 DEF TypeOK
      <4> QED
        BY <2>2, <3>1, <4>1 DEF Stage
  <2>4. ASSUME NEW c \in Bufs, c # b PROVE Stage(c)' = Stage(c)
    <3>1. head[c] # i
      BY <1>2, <1>3, <2>1, NoneApart
    <3> QED
      BY <1>1, <2>2, <2>4, <3>1, SameStage DEF TypeOK
  <2> QED
    BY <2>3, <2>4 DEF stage
<1>8. ASSUME NEW b \in Bufs, SleepAgain(b) \/ Kill(b) PROVE stage' = stage
  <2>1. ASSUME NEW c \in Bufs PROVE Stage(c)' = Stage(c)
    BY <1>1, <1>8, SameStage DEF SleepAgain, Kill, TypeOK
  <2> QED
    BY <2>1 DEF stage
<1>9. ASSUME NEW b \in Bufs, Finish(b) PROVE AbstractDevice!Return(b)
  <2>1. b \in InFlight /\ head[b] # None
    BY <1>3, <1>9 DEF Finish, InFlight
  <2>2. status[head[b]] = 0
    <3>1. ~busy[b]
      BY <1>9 DEF Finish
    <3>2. status[head[b]] # 255
      BY <1>1, <2>1, <3>1 DEF RingInv
    <3> QED
      BY <1>1, <1>2, <2>1, <3>2 DEF TypeOK
  <2>3. stage[b] = "done"
    BY <1>9, <2>1, <2>2 DEF Finish, stage, Stage
  <2>4. stage' = [stage EXCEPT ![b] = "idle"]
    <3>1. Stage(b)' = "idle"
      BY <1>1, <1>9 DEF Finish, WakeAllocators, Stage, TypeOK
    <3>2. ASSUME NEW c \in Bufs, c # b PROVE Stage(c)' = Stage(c)
      BY <1>1, <1>9, <3>2, SameStage, Zenon DEF Finish, WakeAllocators, TypeOK
    <3> QED
      BY <3>1, <3>2, Zenon DEF stage
  <2> QED
    BY <1>9, <2>3, <2>4 DEF Finish, AbstractDevice!Return, stage
<1>10. CASE Intr
  <2>1. ASSUME NEW c \in Bufs PROVE Stage(c)' = Stage(c)
    <3>1. UNCHANGED <<head, status>>
      BY <1>10 DEF Intr, IntrAck, IntrOne, IntrEnd
    <3>2. pc'[c] = "out" <=> pc[c] = "out"
      <4>1. CASE IntrOne
        <5> DEFINE b == info[usedRing[used_idx % NUM]]
        <5>1. pc' = [pc EXCEPT ![b] = IF @ = "wait" THEN "woken" ELSE @]
          BY <4>1 DEF IntrOne
        <5> HIDE DEF b
        <5> QED
          BY <1>1, <5>1, SMTT(20) DEF TypeOK
      <4>2. CASE IntrAck \/ IntrEnd
        BY <4>2 DEF IntrAck, IntrEnd
      <4> QED
        BY <1>10, <4>1, <4>2 DEF Intr
    <3> QED
      BY <3>1, <3>2, SameStage, SMTT(20)
  <2>2. stage' = stage
    BY <2>1 DEF stage
  <2> QED
    BY <1>4, <1>10, <2>2 DEF Intr, IntrAck, IntrOne, IntrEnd
<1>11. CASE DeviceTake
  <2>1. stage' = stage
    BY <1>11, SameStage DEF DeviceTake, stage
  <2> QED
    BY <1>4, <1>11, <2>1 DEF DeviceTake
<1>12. ASSUME NEW i \in Descs, DeviceDo(i)
       PROVE  \E b \in Bufs : AbstractDevice!Do(b)
  <2>1. i \in inDevice
    BY <1>12 DEF DeviceDo
  <2>2. PICK b \in InFlight : i = head[b]
    BY <1>1, <2>1 DEF RingInv
  <2>3. b \in Bufs /\ info[i] = b /\ status[i] = 255 /\ pc[b] # "out"
    BY <1>1, <2>1, <2>2 DEF RingInv, InFlight
  <2>4. stage[b] = "asked"
    BY <2>2, <2>3 DEF stage, Stage
  <2>5. stage' = [stage EXCEPT ![b] = "done"]
    <3>1. status' = [status EXCEPT ![i] = 0] /\ UNCHANGED <<pc, head>>
      BY <1>12 DEF DeviceDo
    <3>2. Stage(b)' = "done"
      <4>1. status'[i] = 0
        BY <1>1, <3>1 DEF TypeOK
      <4>2. head'[b] # None
        BY <2>2, <3>1, NoneApart
      <4> QED
        BY <2>2, <2>3, <3>1, <4>1, <4>2 DEF Stage
    <3>3. ASSUME NEW c \in Bufs, c # b PROVE Stage(c)' = Stage(c)
      <4>1. head[c] # None => head[c] # i
        BY <1>2, <1>3, <2>2, <3>3
      <4> QED
        BY <1>1, <3>1, <4>1, SameStage DEF TypeOK
    <3> QED
      BY <3>2, <3>3, Zenon DEF stage
  <2> QED
    BY <1>12, <2>3, <2>4, <2>5, ZenonT(30) DEF DeviceDo, AbstractDevice!Do, stage
<1>13. CASE UNCHANGED vars
  <2>1. stage' = stage
    BY <1>13 DEF vars, stage, Stage
  <2> QED
    BY <1>4, <1>13, <2>1 DEF vars
<1>14. ASSUME NEW b \in Bufs, Rw(b) \/ Kill(b)
       PROVE  [AbstractDevice!Next]_(AbstractDevice!vars)
  <2>1. CASE Finish(b)
    BY <1>9, <2>1 DEF AbstractDevice!Next
  <2>2. CASE AllocFails(b) \/ Submit(b) \/ SleepAgain(b) \/ Kill(b)
    <3>1. UNCHANGED <<req, data, disk>>
      BY <2>2 DEF AllocFails, Submit, SleepAgain, Kill
    <3> QED
      BY <1>4, <1>6, <1>7, <1>8, <2>2, <3>1, SMTT(20)
  <2> QED
    BY <1>14, <2>1, <2>2 DEF Rw
<1>15. ASSUME NEW b \in Bufs, Call(b) PROVE AbstractDevice!Next
  BY <1>5, <1>15 DEF AbstractDevice!Next
<1>16. ASSUME NEW i \in Descs, DeviceDo(i) PROVE AbstractDevice!Next
  BY <1>12, <1>16 DEF AbstractDevice!Next
<1> QED
  BY <1>10, <1>11, <1>13, <1>14, <1>15, <1>16 DEF Next, Device

\* Each call of virtio_disk_rw() carries out its request exactly once before it
\* returns, whatever the order in which the device finishes and however often
\* the 16-bit indices wrap.
THEOREM ImplementsDevice == Spec => ImplementsBlockDevice
<1>1. IInv /\ [Next]_vars => [AbstractDevice!Next]_(AbstractDevice!vars)
  BY RefineStep
<1> QED
  BY <1>1, RefineInit, Invariance, PTL
  DEF Spec, ImplementsBlockDevice, AbstractDevice!Spec
=============================================================================
