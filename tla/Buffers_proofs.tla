--------------------------- MODULE Buffers_proofs ---------------------------
(***************************************************************************)
(* Proofs about programs of Buffers_MC, for every value of the constants:   *)
(* the sequence lock, the ring of ringbuffer/, the relay of tinync/, the    *)
(* queue of connections of httpd/, the timers of lf-timer/ and the ring of  *)
(* lfring/.                                                                 *)
(*                                                                          *)
(* seqlock: sync is odd exactly while one writer is inside, and differs     *)
(* from a reader's prv by the number of increments since its load; that     *)
(* number is below the modulus, so an unchanged sync means no increment at  *)
(* all, hence no writer inside and no word changed.                         *)
(*                                                                          *)
(* ringbuffer: Ahead(x, y) is the number of steps from index x to index y,  *)
(* around the end of the indices.  RingInv says that the four indices       *)
(* follow each other within one turn of the ring, and that the slot of      *)
(* every index the consumer may still read holds the object that was        *)
(* enqueued there; different indices of one turn have different slots       *)
(* because the number of slots divides the modulus (SlotIs).                *)
(*                                                                          *)
(* tinync: RelayInv accounts for every byte read: it was sent, is in the    *)
(* hand of the sender, in the queue, or with the reader, in this order.     *)
(*                                                                          *)
(* httpd: ServerInv says that the list from head is the nodes hhead up to   *)
(* allocated, that every open connection is in it once or with one thread,  *)
(* and, as long as no signal was lost, that there are as many workers on    *)
(* their way as connections if some worker sleeps.                          *)
(*                                                                          *)
(* lf-timer and lfring: LFTimer_proofs and LFRing_proofs prove them of any  *)
(* timers and of any ring.                                                  *)
(***************************************************************************)
EXTENDS Buffers_MC, Integers, Sequences, FiniteSetTheorems, SequenceTheorems,
        WellFoundedInduction, TLAPS

-----------------------------------------------------------------------------
(* seqlock *)

WriterInv ==
    /\ \A v, w \in Writers : Inside(v) /\ Inside(w) => v = w
    /\ WriterInside(sync) <=> \E w \in Writers : Inside(w)
    /\ \A w \in Writers : wpc[w] = "relstore" => old[w] = sync
    /\ \A w \in Writers : wpc[w] = "cas" => ~WriterInside(old[w])
    /\ \A w \in Writers : wpc[w] = "copy" => wat[w] \in Words

ReaderInv ==
    /\ \A r \in Reading :
        /\ ~WriterInside(prv[r])
        /\ sync = prv[r] + since[r] \/ sync = prv[r] + since[r] - SeqMod
        /\ WriterInside(sync) => since[r] + 1 < SeqMod
        /\ since[r] = 0 =>
              /\ data = seen[r]
              /\ \A i \in Words : i < rat[r] => buf[r][i] = seen[r][i]
    /\ \A r \in Readers : rpc[r] = "copy" => rat[r] \in Words
    /\ \A r \in Readers : rpc[r] = "check" => rat[r] = NWords + 1

Inv == TypeOK /\ WriterInv /\ ReaderInv /\ ReadIsSnapshot

-----------------------------------------------------------------------------
LEMMA InitInv == Init => Inv
  BY NWordsAssumption, SeqModAssumption
     DEF Init, Inv, TypeOK, WriterInv, ReaderInv, ReadIsSnapshot, Reading,
         Inside, WriterInside, Words, Records

\* The arithmetic of seqlock_t: an increment, wrapping or not, flips the
\* writer flag.
LEMMA Plus1Flips ==
  ASSUME NEW m \in 0 .. SeqMod - 1
  PROVE  /\ Plus1(m) \in 0 .. SeqMod - 1
         /\ Plus1(m) = m + 1 \/ (m = SeqMod - 1 /\ Plus1(m) = 0)
         /\ WriterInside(Plus1(m)) <=> ~WriterInside(m)
  BY SeqModAssumption DEF Plus1, WriterInside

\* For a reader in the middle of an attempt, sync is back at prv only if it
\* was never incremented.
LEMMA UnchangedSync ==
  ASSUME TypeOK, ReaderInv, NEW r \in Reading
  PROVE  sync = prv[r] <=> since[r] = 0
  <1>1. /\ r \in Readers /\ SeqMod \in Nat
        /\ sync \in Nat /\ prv[r] \in Nat /\ since[r] \in Nat
        /\ sync < SeqMod /\ prv[r] < SeqMod /\ since[r] < SeqMod
    BY SeqModAssumption DEF TypeOK, Reading
  <1>2. sync = prv[r] + since[r] \/ sync = prv[r] + since[r] - SeqMod
    BY DEF ReaderInv
  <1> QED BY <1>1, <1>2

\* The distance from prv to sync, modulo SeqMod, after one more increment.
LEMMA OneFurther ==
  ASSUME NEW Z \in Nat, NEW f \in Nat, NEW d \in Nat, NEW c \in Nat, NEW m \in Nat,
         f < Z, d + 1 < Z, c < Z,
         c = f + d \/ c = f + d - Z,
         m = c + 1 \/ (c = Z - 1 /\ m = 0)
  PROVE  m = f + (d + 1) \/ m = f + (d + 1) - Z
  OBVIOUS

LEMMA NextInv == Inv /\ [Next]_vars => Inv'
  <1> SUFFICES ASSUME Inv, [Next]_vars PROVE Inv'
    OBVIOUS
  <1> USE NWordsAssumption, SeqModAssumption
      DEF Inv, TypeOK, WriterInv, ReaderInv, ReadIsSnapshot, Reading, Inside,
          Words, Records, RGoto, WGoto, rvars, wvars
  <1>1. ASSUME NEW r \in Readers, ReadCall(r) PROVE Inv'
    BY <1>1 DEF ReadCall
  <1>2. ASSUME NEW r \in Readers, AcquireRd(r) PROVE Inv'
    <2>1. TypeOK' BY <1>2 DEF AcquireRd
    <2>2. WriterInv' BY <1>2 DEF AcquireRd
    <2>3. ReaderInv' BY <1>2 DEF AcquireRd
    <2>4. ReadIsSnapshot' BY <1>2 DEF AcquireRd
    <2> QED BY <2>1, <2>2, <2>3, <2>4
  <1>3. ASSUME NEW r \in Readers, CopyOut(r) PROVE Inv'
    <2>0. [buf[r] EXCEPT ![rat[r]] = data[rat[r]]] \in Records
      BY <1>3 DEF CopyOut
    <2>1. TypeOK' BY <1>3, <2>0 DEF CopyOut
    <2>2. WriterInv' BY <1>3 DEF CopyOut
    <2>3. ReaderInv'
      <3>1. ASSUME NEW q \in Readers, q # r
            PROVE  rpc'[q] = rpc[q] /\ rat'[q] = rat[q] /\ buf'[q] = buf[q]
        BY <1>3, <3>1 DEF CopyOut
      <3>2. rat'[r] = rat[r] + 1 /\ rat[r] \in Words
        BY <1>3 DEF CopyOut
      <3>3. \A i \in Words : buf'[r][i] = IF i = rat[r] THEN data[i] ELSE buf[r][i]
        BY <1>3, <3>2 DEF CopyOut
      <3>4. /\ Reading' = Reading /\ r \in Reading
            /\ UNCHANGED <<sync, data, prv, since, seen>>
        BY <1>3 DEF CopyOut
      <3>5. since[r] = 0 =>
              data = seen[r] /\ \A i \in Words : i < rat[r] => buf[r][i] = seen[r][i]
        BY <3>4
      <3>6. /\ rpc'[r] = "copy" => rat'[r] \in Words
            /\ rpc'[r] = "check" => rat'[r] = NWords + 1
        BY <1>3, <3>2 DEF CopyOut
      <3>8. \A i \in Words : i < rat'[r] => i < rat[r] \/ i = rat[r]
        BY <3>2
      <3> HIDE DEF Inv, TypeOK, WriterInv, ReadIsSnapshot, Words, Records
      <3>7. ASSUME NEW i \in Words, i < rat'[r], since[r] = 0
            PROVE  buf'[r][i] = seen[r][i]
        <4> HIDE DEF ReaderInv, Reading
        <4> QED BY <3>3, <3>5, <3>7, <3>8
      <3>9. ReaderInv
        BY DEF Inv
      <3> QED BY <3>1, <3>4, <3>6, <3>7, <3>9
    <2>4. ReadIsSnapshot' BY <1>3 DEF CopyOut
    <2> QED BY <2>1, <2>2, <2>3, <2>4
  <1>4. ASSUME NEW r \in Readers, ReleaseRd(r) PROVE Inv'
    <2>1. TypeOK' BY <1>4 DEF ReleaseRd
    <2>2. WriterInv' BY <1>4 DEF ReleaseRd
    <2>3. ReaderInv' BY <1>4 DEF ReleaseRd
    <2>4. ReadIsSnapshot'
      <3>1. CASE sync = prv[r]
        <4>1. since[r] = 0
          BY <1>4, <3>1, UnchangedSync DEF ReleaseRd
        <4>2. \A i \in Words : buf[r][i] = seen[r][i]
          BY <1>4, <4>1 DEF ReleaseRd
        <4>3. buf[r] = seen[r]
          BY <4>2
        <4> QED BY <1>4, <4>3 DEF ReleaseRd
      <3>2. CASE sync # prv[r]
        BY <1>4, <3>2 DEF ReleaseRd
      <3> QED BY <3>1, <3>2
    <2> QED BY <2>1, <2>2, <2>3, <2>4
  <1>5. ASSUME NEW r \in Readers, ReadReturn(r) PROVE Inv'
    BY <1>5 DEF ReadReturn
  <1>6. ASSUME NEW w \in Writers, WriteCall(w) PROVE Inv'
    BY <1>6 DEF WriteCall
  <1>7. ASSUME NEW w \in Writers, AcquireWrLoad(w) PROVE Inv'
    <2>1. TypeOK' BY <1>7 DEF AcquireWrLoad
    <2>2. WriterInv' BY <1>7 DEF AcquireWrLoad
    <2>3. ReaderInv' BY <1>7 DEF AcquireWrLoad
    <2>4. ReadIsSnapshot' BY <1>7 DEF AcquireWrLoad
    <2> QED BY <2>1, <2>2, <2>3, <2>4
  <1>8. ASSUME NEW w \in Writers, AcquireWrCas(w) PROVE Inv'
    <2>0. sync' = Plus1(sync)
      BY <1>8 DEF AcquireWrCas
    <2>5. Reading' = Reading
      BY <1>8 DEF AcquireWrCas, NotLapped
    <2>6. \A r \in Readers :
            /\ since'[r] \in 0 .. SeqMod - 1
            /\ r \in Reading => since'[r] = since[r] + 1
      BY <1>8, <2>0 DEF AcquireWrCas, NotLapped, CountIncrement
    <2>7. since' \in [Readers -> 0 .. SeqMod - 1]
      BY <1>8, <2>6 DEF AcquireWrCas, NotLapped, CountIncrement
    <2>8. sync' \in 0 .. SeqMod - 1
      BY <2>0, Plus1Flips
    <2>1. TypeOK' BY <1>8, <2>7, <2>8 DEF AcquireWrCas
    <2>2. WriterInv' BY <1>8, <2>0, Plus1Flips DEF AcquireWrCas, NotLapped, CountIncrement
    <2>3. ReaderInv'
      <3>1. ASSUME NEW r \in Reading
            PROVE  \/ sync' = prv[r] + since'[r]
                   \/ sync' = prv[r] + since'[r] - SeqMod
        <4>1. /\ r \in Readers /\ SeqMod \in Nat
              /\ sync \in Nat /\ prv[r] \in Nat /\ since[r] \in Nat
              /\ sync < SeqMod /\ prv[r] < SeqMod /\ since[r] + 1 < SeqMod
              /\ since'[r] = since[r] + 1
          BY <1>8, <2>0, <2>6 DEF AcquireWrCas, NotLapped
        <4>2. sync' = sync + 1 \/ (sync = SeqMod - 1 /\ sync' = 0)
          BY <2>0, Plus1Flips
        <4>4. sync' \in Nat
          BY <4>1, <4>2
        <4>3. sync = prv[r] + since[r] \/ sync = prv[r] + since[r] - SeqMod
          OBVIOUS
        <4> HIDE DEF TypeOK, WriterInv, ReaderInv, Reading, Words, Records
        <4> QED BY <4>1, <4>2, <4>3, <4>4, OneFurther
      <3>2. ASSUME NEW r \in Reading
            PROVE  /\ since'[r] # 0
                   /\ WriterInside(sync') => since'[r] + 1 < SeqMod
        BY <1>8, <2>6 DEF AcquireWrCas, NotLapped
      <3> QED BY <1>8, <2>5, <3>1, <3>2 DEF AcquireWrCas, NotLapped
    <2>4. ReadIsSnapshot' BY <1>8 DEF AcquireWrCas, NotLapped, CountIncrement
    <2> QED BY <2>1, <2>2, <2>3, <2>4
  <1>9. ASSUME NEW w \in Writers, AcquireWrRetry(w) PROVE Inv'
    BY <1>9 DEF AcquireWrRetry
  <1>10. ASSUME NEW w \in Writers, CopyIn(w) PROVE Inv'
    <2>0. WriterInside(sync) /\ \A r \in Reading : since[r] # 0
      BY <1>10, UnchangedSync DEF CopyIn
    <2>1. TypeOK' BY <1>10 DEF CopyIn
    <2>2. WriterInv' BY <1>10 DEF CopyIn
    <2>3. ReaderInv' BY <1>10, <2>0 DEF CopyIn
    <2>4. ReadIsSnapshot' BY <1>10 DEF CopyIn
    <2> QED BY <2>1, <2>2, <2>3, <2>4
  <1>11. ASSUME NEW w \in Writers, ReleaseWrLoad(w) PROVE Inv'
    BY <1>11 DEF ReleaseWrLoad
  <1>12. ASSUME NEW w \in Writers, ReleaseWrStore(w) PROVE Inv'
    <2>0. sync' = Plus1(sync) /\ WriterInside(sync)
      BY <1>12 DEF ReleaseWrStore
    <2>5. Reading' = Reading
      BY <1>12 DEF ReleaseWrStore
    <2>6. \A r \in Readers :
            /\ since'[r] \in 0 .. SeqMod - 1
            /\ r \in Reading => since'[r] = since[r] + 1
      BY <1>12, <2>0 DEF ReleaseWrStore, CountIncrement
    <2>7. since' \in [Readers -> 0 .. SeqMod - 1]
      BY <1>12, <2>6 DEF ReleaseWrStore, CountIncrement
    <2>8. sync' \in 0 .. SeqMod - 1
      BY <2>0, Plus1Flips
    <2>1. TypeOK' BY <1>12, <2>7, <2>8 DEF ReleaseWrStore
    <2>2. WriterInv'
      <3>1. ~WriterInside(sync')
        BY <2>0, Plus1Flips
      <3>2. \A v \in Writers : wpc'[v] = IF v = w THEN "idle" ELSE wpc[v]
        BY <1>12 DEF ReleaseWrStore
      <3>3. \A v \in Writers : ~Inside(v)'
        BY <1>12, <3>2 DEF ReleaseWrStore
      <3>4. old' = old /\ wat' = wat
        BY <1>12 DEF ReleaseWrStore
      <3> QED BY <3>1, <3>2, <3>3, <3>4
    <2>3. ReaderInv'
      <3>1. ASSUME NEW r \in Reading
            PROVE  \/ sync' = prv[r] + since'[r]
                   \/ sync' = prv[r] + since'[r] - SeqMod
        <4>1. /\ r \in Readers /\ SeqMod \in Nat
              /\ sync \in Nat /\ prv[r] \in Nat /\ since[r] \in Nat
              /\ sync < SeqMod /\ prv[r] < SeqMod /\ since[r] + 1 < SeqMod
              /\ since'[r] = since[r] + 1
          BY <1>12, <2>0, <2>6 DEF ReleaseWrStore
        <4>2. sync' = sync + 1 \/ (sync = SeqMod - 1 /\ sync' = 0)
          BY <2>0, Plus1Flips
        <4>4. sync' \in Nat
          BY <4>1, <4>2
        <4>3. sync = prv[r] + since[r] \/ sync = prv[r] + since[r] - SeqMod
          OBVIOUS
        <4> HIDE DEF TypeOK, WriterInv, ReaderInv, Reading, Words, Records
        <4> QED BY <4>1, <4>2, <4>3, <4>4, OneFurther
      <3>2. ASSUME NEW r \in Reading
            PROVE  /\ since'[r] # 0
                   /\ WriterInside(sync') => since'[r] + 1 < SeqMod
        <4>1. ~WriterInside(sync')
          BY <2>0, Plus1Flips
        <4> QED BY <2>6, <4>1
      <3> QED BY <1>12, <2>5, <3>1, <3>2 DEF ReleaseWrStore
    <2>4. ReadIsSnapshot' BY <1>12 DEF ReleaseWrStore, CountIncrement
    <2> QED BY <2>1, <2>2, <2>3, <2>4
  <1>13. CASE UNCHANGED vars
    BY <1>13 DEF vars
  <1> QED
    BY <1>1, <1>2, <1>3, <1>4, <1>5, <1>6, <1>7, <1>8, <1>9, <1>10, <1>11,
       <1>12, <1>13 DEF Next, ReadStep, WriteStep

\* The inductive invariant holds in every state.
THEOREM Invariance == Spec => []Inv
  BY InitInv, NextInv, PTL DEF Spec

\* seqlock_read never returns a torn record.
THEOREM ReadIsSnapshotHolds == Spec => []ReadIsSnapshot
  <1>1. Inv => ReadIsSnapshot
    BY DEF Inv
  <1> QED BY <1>1, Invariance, PTL

\* Writers exclude each other, and the flag is set while one is inside.
THEOREM OneWriterInsideHolds == Spec => []OneWriterInside
  <1>1. Inv => OneWriterInside
    BY DEF Inv, WriterInv, OneWriterInside
  <1> QED BY <1>1, Invariance, PTL

-----------------------------------------------------------------------------
(* Natural numbers and remainders *)

LEMMA NatMin ==
  ASSUME NEW S, S \subseteq Nat, S # {}
  PROVE  \E m \in S : \A j \in S : m <= j
<1> DEFINE Less == {s \in Nat \X Nat : s[1] < s[2]}
<1>1. IsWellFoundedOn(Less, Nat)
  BY NatLessThanWellFounded DEF OpToRel
<1>2. PICK m \in S : \A j \in S : ~(<<j, m>> \in Less)
  BY <1>1, WFMin
<1>3. ASSUME NEW j \in S PROVE m <= j
  <2>1. m \in Nat /\ j \in Nat /\ ~(<<j, m>> \in Less)
    BY <1>2
  <2>2. <<j, m>> \in Nat \X Nat /\ <<j, m>>[1] = j /\ <<j, m>>[2] = m
    BY <2>1
  <2>3. ~(j < m)
    BY <2>1, <2>2
  <2> QED BY <2>1, <2>3
<1> QED BY <1>3

\* Induction, for a set instead of a predicate.
LEMMA NatInd ==
  ASSUME NEW S, 0 \in S, \A m \in Nat : m \in S => m + 1 \in S
  PROVE  Nat \subseteq S
<1> SUFFICES ASSUME Nat \ S # {} PROVE FALSE
  OBVIOUS
<1>1. PICK m \in Nat \ S : \A j \in Nat \ S : m <= j
  BY NatMin
<1>2. m # 0
  BY <1>1
<1>3. m - 1 \in Nat /\ m - 1 \in S
  BY <1>1, <1>2
<1> QED BY <1>1, <1>3

LEMMA Multiples ==
  ASSUME NEW m \in Nat, m > 0, NEW j \in Int
  PROVE  (j >= 1 => j * m >= m) /\ (j <= -1 => j * m <= -m)
<1>1. j >= 1 => j * m >= m
  OBVIOUS
<1>2. j <= -1 => j * m <= -m
  OBVIOUS
<1> QED BY <1>1, <1>2

\* A number has one quotient and one remainder.
LEMMA ModUnique ==
  ASSUME NEW m \in Nat, m > 0, NEW q \in Int, NEW r \in 0 .. m - 1
  PROVE  (q * m + r) % m = r
<1> DEFINE y == q * m + r
<1>1. y \in Int /\ y % m \in 0 .. m - 1
  <2>1. y \in Int OBVIOUS
  <2> QED BY <2>1
<1>2. PICK d \in Int : y = d * m + (y % m)
  <2>1. y = m * (y \div m) + (y % m) /\ y \div m \in Int
    BY <1>1
  <2> QED BY <2>1
<1>3. (q - d) * m = (y % m) - r
  <2>1. (q - d) * m = q * m - d * m
    OBVIOUS
  <2> QED BY <2>1, <1>2, <1>1
<1>4. q - d = 0
  <2>1. CASE q - d >= 1
    BY <2>1, <1>1, <1>3, Multiples
  <2>2. CASE q - d <= -1
    BY <2>2, <1>1, <1>3, Multiples
  <2> QED BY <2>1, <2>2
<1>5. (q - d) * m = 0
  BY <1>4
<1> QED BY <1>3, <1>5, <1>1

LEMMA ModMul ==
  ASSUME NEW m \in Nat, m > 0, NEW y \in Int, NEW j \in Int
  PROVE  (y + j * m) % m = y % m
<1> DEFINE d == y \div m
<1>1. y = m * d + (y % m) /\ d \in Int /\ y % m \in 0 .. m - 1
  OBVIOUS
<1> HIDE DEF d
<1>2. y + j * m = (d + j) * m + (y % m) /\ d + j \in Int
  BY <1>1
<1> QED BY <1>1, <1>2, ModUnique

LEMMA ModPlus ==
  ASSUME NEW m \in Nat, m > 0, NEW y \in Int, NEW j \in Int
  PROVE  (y + j) % m = ((y % m) + j) % m
<1> DEFINE d == y \div m
           e == (y % m) + j
<1>1. y = m * d + (y % m) /\ d \in Int /\ y % m \in 0 .. m - 1 /\ e \in Int
  OBVIOUS
<1>2. y + j = e + d * m
  BY <1>1
<1> HIDE DEF d, e
<1>3. (e + d * m) % m = e % m
  BY <1>1, ModMul
<1> QED BY <1>2, <1>3 DEF e

\* Remainders of numbers that are at most one lap away.
LEMMA ModNear ==
  ASSUME NEW m \in Nat, m > 0, NEW y \in Int
  PROVE  /\ y % m \in 0 .. m - 1
         /\ 0 <= y /\ y < m => y % m = y
         /\ m <= y /\ y < 2 * m => y % m = y - m
         /\ -m <= y /\ y < 0 => y % m = y + m
<1>1. y % m \in 0 .. m - 1
  OBVIOUS
<1>2. 0 <= y /\ y < m => y % m = y
  OBVIOUS
<1>3. m <= y /\ y < 2 * m => y % m = y - m
  OBVIOUS
<1>4. -m <= y /\ y < 0 => y % m = y + m
  OBVIOUS
<1> QED BY <1>1, <1>2, <1>3, <1>4

\* Within one lap no two numbers have the same remainder.
LEMMA ModDistinct ==
  ASSUME NEW m \in Nat, m > 0, NEW y \in Int, NEW z \in Int, y < z, z - y < m
  PROVE  y % m # z % m
<1> DEFINE d == z - y
<1>0. d \in Int /\ y + d = z
  OBVIOUS
<1>1. z % m = ((y % m) + d) % m
  <2> HIDE DEF d
  <2>1. (y + d) % m = ((y % m) + d) % m
    BY <1>0, ModPlus
  <2> QED BY <2>1, <1>0
<1>2. y % m \in 0 .. m - 1
  BY ModNear
<1> DEFINE e == (y % m) + d
<1>3. e \in Int /\ 0 <= e /\ e < 2 * m /\ e > y % m /\ e - m < y % m
  BY <1>2
<1>4. e % m = e \/ e % m = e - m
  BY <1>3, ModNear
<1> QED BY <1>1, <1>3, <1>4, <1>2

-----------------------------------------------------------------------------
(* ringbuffer *)

\* How far index y is ahead of index z.
Ahead(y, z) == (y - z) % ring_mod

Index == 0 .. ring_mod - 1

LEMMA RingConstants ==
  /\ ring_count \in Nat /\ ring_count > 0 /\ ring_mod \in Nat /\ ring_mod > 0
  /\ ring_count <= ring_mod /\ ring_batch \in Nat
<1>1. PICK q \in 1 .. ring_mod : ring_mod = q * ring_count
  BY RingAssumption
<1>2. q \in Int /\ q >= 1 /\ ring_count \in Nat /\ ring_count > 0
  BY RingAssumption
<1>3. q * ring_count >= ring_count
  BY <1>2, Multiples
<1> QED BY <1>1, <1>2, <1>3, RingAssumption

LEMMA AheadIs ==
  ASSUME NEW y \in Index, NEW z \in Index
  PROVE  /\ Ahead(y, z) \in Index
         /\ y = z + Ahead(y, z) \/ y = z + Ahead(y, z) - ring_mod
<1>1. y - z \in Int /\ -ring_mod <= y - z /\ y - z < ring_mod
  BY RingConstants DEF Index
<1> DEFINE d == y - z
<1> HIDE DEF d
<1>2. d \in Int /\ -ring_mod <= d /\ d < ring_mod
  BY <1>1 DEF d
<1>3. d % ring_mod = d \/ d % ring_mod = d + ring_mod
  BY <1>2, ModNear, RingConstants
<1>4. d % ring_mod \in 0 .. ring_mod - 1
  BY <1>2, ModNear, RingConstants
<1> QED BY <1>3, <1>4, RingConstants DEF d, Ahead, Index

\* The distance is the only one.
LEMMA AheadUnique ==
  ASSUME NEW y \in Index, NEW z \in Index, NEW d \in Index, y = z + d \/ y = z + d - ring_mod
  PROVE  Ahead(y, z) = d
<1>1. Ahead(y, z) \in Index /\ (y = z + Ahead(y, z) \/ y = z + Ahead(y, z) - ring_mod)
  BY AheadIs
<1> QED BY <1>1, RingConstants DEF Index

LEMMA IndexIs ==
  ASSUME NEW y \in Index, NEW z \in Index
  PROVE  y = (z + Ahead(y, z)) % ring_mod
<1> DEFINE e == z + Ahead(y, z)
<1>0. Ahead(y, z) \in Index /\ (y = z + Ahead(y, z) \/ y = z + Ahead(y, z) - ring_mod)
  BY AheadIs
<1>1. e \in Int /\ 0 <= e /\ e < 2 * ring_mod
  BY <1>0, RingConstants DEF Index
<1>z. y = e \/ y = e - ring_mod
  BY <1>0, RingConstants DEF Index
<1> HIDE DEF e
<1>2. e % ring_mod = y
  BY <1>z, <1>1, ModNear, RingConstants DEF Index
<1> QED BY <1>2 DEF e

\* An index that moves on by d is d further ahead.
LEMMA AheadMoves ==
  ASSUME NEW y \in Index, NEW z \in Index, NEW d \in Nat, Ahead(y, z) + d < ring_mod
  PROVE  /\ (y + d) % ring_mod \in Index
         /\ Ahead((y + d) % ring_mod, z) = Ahead(y, z) + d
<1> DEFINE e == y + d
<1>1. Ahead(y, z) \in Index /\ (y = z + Ahead(y, z) \/ y = z + Ahead(y, z) - ring_mod)
  BY AheadIs
<1>2. e \in Int /\ 0 <= e /\ e < 2 * ring_mod /\ e = y + d
  BY <1>1, RingConstants DEF Index
<1> HIDE DEF e
<1>3. e % ring_mod \in Index /\ (e % ring_mod = e \/ e % ring_mod = e - ring_mod)
  BY <1>2, ModNear, RingConstants DEF Index
<1> DEFINE w == Ahead(y, z)
           g == w + d
           f == e % ring_mod
<1> HIDE DEF f, w
<1>a. w \in Index /\ (y = z + w \/ y = z + w - ring_mod) /\ w + d < ring_mod
  BY <1>1 DEF w
<1>b. f \in Index /\ (f = e \/ f = e - ring_mod)
  BY <1>3 DEF f
<1>4. g \in Index
  BY <1>a, RingConstants DEF Index
<1>5. f \in Index /\ (f = z + g \/ f = z + g - ring_mod)
  BY <1>a, <1>b, <1>2, RingConstants DEF Index
<1> HIDE DEF g
<1>6. Ahead(f, z) = g
  BY <1>4, <1>5, AheadUnique
<1> QED BY <1>3, <1>6 DEF e, f, g, w

\* Distances from an index that lies between.
LEMMA AheadFrom ==
  ASSUME NEW y \in Index, NEW z \in Index, NEW t \in Index, Ahead(t, z) <= Ahead(y, z)
  PROVE  Ahead(y, t) = Ahead(y, z) - Ahead(t, z)
<1> DEFINE g == Ahead(y, z) - Ahead(t, z)
<1>1. /\ Ahead(y, z) \in Index /\ (y = z + Ahead(y, z) \/ y = z + Ahead(y, z) - ring_mod)
      /\ Ahead(t, z) \in Index /\ (t = z + Ahead(t, z) \/ t = z + Ahead(t, z) - ring_mod)
  BY AheadIs
<1>2. g \in Index /\ (y = t + g \/ y = t + g - ring_mod)
  BY <1>1, RingConstants DEF Index
<1> HIDE DEF g
<1>3. Ahead(y, t) = g
  BY <1>2, AheadUnique
<1> QED BY <1>3 DEF g

\* A slot is the same for an index and for the number it is the remainder of.
LEMMA SlotOfIndex ==
  ASSUME NEW y \in Int
  PROVE  (y % ring_mod) % ring_count = y % ring_count
<1>1. PICK q \in Int : ring_mod = q * ring_count
  BY RingAssumption
<1> DEFINE d == y \div ring_mod
           e == y % ring_mod
<1>2. y = ring_mod * d + e /\ d \in Int /\ e \in Int
  BY RingConstants
<1>3. y = e + (d * q) * ring_count
  BY <1>1, <1>2, RingConstants
<1>4. d * q \in Int
  BY <1>2
<1> HIDE DEF d, e
<1>5. (e + (d * q) * ring_count) % ring_count = e % ring_count
  BY <1>2, <1>4, RingConstants, ModMul
<1> QED BY <1>3, <1>5 DEF e

LEMMA SlotIs ==
  ASSUME NEW y \in Index, NEW m \in Nat, NEW j \in Nat, j < m, m < ring_count
  PROVE  R!Slot(y, m, j) = (y + j) % ring_count
<1> DEFINE e == y % ring_count
<1>1. e \in 0 .. ring_count - 1 /\ y \in Int /\ j \in Int
  BY RingConstants, ModNear DEF Index
<1>2. (y + j) % ring_count = (e + j) % ring_count
  BY <1>1, RingConstants, ModPlus
<1> DEFINE g == e + j
<1>3. g \in Int /\ 0 <= g /\ g < 2 * ring_count
  BY <1>1, RingConstants
<1> HIDE DEF g
<1>4. g % ring_count = IF g < ring_count THEN g ELSE g - ring_count
  BY <1>3, RingConstants, ModNear
<1> QED BY <1>1, <1>2, <1>4, RingConstants DEF g, R!Slot

\* The d-th number behind an index that is itself ahead of z.
LEMMA Behind ==
  ASSUME NEW y \in Index, NEW z \in Index, NEW d \in Nat
  PROVE  /\ (y + d) % ring_mod = (z + (Ahead(y, z) + d)) % ring_mod
         /\ (y + d) % ring_count = (z + (Ahead(y, z) + d)) % ring_count
<1> DEFINE e == z + Ahead(y, z)
<1>0. Ahead(y, z) \in Index /\ y = e % ring_mod /\ d \in Int /\ y \in Int
  BY AheadIs, IndexIs, RingConstants DEF Index
<1>1. e \in Int /\ y = e % ring_mod /\ z + (Ahead(y, z) + d) = e + d
  BY <1>0, RingConstants DEF Index
<1> HIDE DEF e
<1>2. (e + d) % ring_mod = (y + d) % ring_mod
  BY <1>0, <1>1, ModPlus, RingConstants
<1>3. e % ring_count = y % ring_count
  BY <1>1, SlotOfIndex
<1>4. (e + d) % ring_count = ((e % ring_count) + d) % ring_count
  BY <1>0, <1>1, ModPlus, RingConstants
<1>5. (y + d) % ring_count = ((y % ring_count) + d) % ring_count
  BY <1>0, ModPlus, RingConstants
<1> QED BY <1>1, <1>2, <1>3, <1>4, <1>5

RingTypes ==
    /\ R!TypeOK
    /\ obj_table \in Seq(R!Indices \cup {R!Empty})

\* From cons_tail on come cons_head, prod_tail and prod_head, within one ring.
RingOrder ==
    /\ Ahead(cons_head, cons_tail) <= Ahead(prod_tail, cons_tail)
    /\ Ahead(prod_tail, cons_tail) <= Ahead(prod_head, cons_tail)
    /\ Ahead(prod_head, cons_tail) < ring_count

\* How far the two calls are.
RingCalls ==
    /\ prod_pc = "idle" => prod_head = prod_tail /\ p = 0
    /\ cons_pc = "idle" => cons_head = cons_tail /\ obj_table = <<>>
    /\ prod_pc = "copy" => Ahead(prod_head, prod_tail) <= free
    /\ p <= Ahead(prod_head, prod_tail) /\ Ahead(prod_head, prod_tail) <= ring_batch
    /\ Len(obj_table) <= Ahead(cons_head, cons_tail) /\ Ahead(cons_head, cons_tail) <= ring_batch
    /\ ret # "EDQUOT"

\* What was published, and what has been copied for the next publication.
RingKept ==
    \A j \in 0 .. Ahead(prod_tail, cons_tail) + p - 1 :
        slots[(cons_tail + j) % ring_count] = (cons_tail + j) % ring_mod

RingInv == RingTypes /\ RingOrder /\ RingCalls /\ RingKept /\ R!DequeuedAreNext

LEMMA AheadSelf == ASSUME NEW y \in Index PROVE Ahead(y, y) = 0
<1>1. 0 \in Index /\ y = y + 0
  BY RingConstants DEF Index
<1> QED BY <1>1, AheadUnique

LEMMA RingTyped ==
  ASSUME RingTypes
  PROVE  /\ prod_head \in Index /\ prod_tail \in Index /\ cons_head \in Index /\ cons_tail \in Index
         /\ Ahead(cons_head, cons_tail) \in Nat /\ Ahead(prod_tail, cons_tail) \in Nat
         /\ Ahead(prod_head, cons_tail) \in Nat /\ Ahead(prod_head, prod_tail) \in Nat
         /\ p \in Nat /\ free \in Nat /\ free < ring_count /\ Len(obj_table) \in Nat
<1>1. prod_head \in Index /\ prod_tail \in Index /\ cons_head \in Index /\ cons_tail \in Index
  BY DEF RingTypes, R!TypeOK, R!Indices, Index
<1>2. /\ Ahead(cons_head, cons_tail) \in Index /\ Ahead(prod_tail, cons_tail) \in Index
      /\ Ahead(prod_head, cons_tail) \in Index /\ Ahead(prod_head, prod_tail) \in Index
  BY <1>1, AheadIs
<1>3. p \in Nat /\ free \in Nat /\ free < ring_count /\ Len(obj_table) \in Nat
  BY RingConstants DEF RingTypes, R!TypeOK, R!mask
<1> QED BY <1>1, <1>2, <1>3, RingConstants DEF Index

\* The room and the entries that the two calls compute.
LEMMA RingCounts ==
  ASSUME RingTypes, RingOrder
  PROVE  /\ R!free_entries = ring_count - 1 - Ahead(prod_head, cons_tail)
         /\ R!entries = Ahead(prod_tail, cons_tail) - Ahead(cons_head, cons_tail)
         /\ Ahead(prod_head, prod_tail) = Ahead(prod_head, cons_tail) - Ahead(prod_tail, cons_tail)
<1>1. Ahead(prod_tail, cons_head) = Ahead(prod_tail, cons_tail) - Ahead(cons_head, cons_tail)
  BY RingTyped, AheadFrom DEF RingOrder
<1>2. Ahead(prod_head, prod_tail) = Ahead(prod_head, cons_tail) - Ahead(prod_tail, cons_tail)
  BY RingTyped, AheadFrom DEF RingOrder
<1> DEFINE c == Ahead(prod_head, cons_tail)
           e == ring_count - 1 + cons_tail - prod_head
<1>3. c \in Nat /\ c < ring_count /\ (prod_head = cons_tail + c \/ prod_head = cons_tail + c - ring_mod)
  BY RingTyped, AheadIs DEF RingOrder
<1> HIDE DEF c
<1>a. prod_head \in Int /\ cons_tail \in Int
  BY RingTyped, RingConstants DEF Index
<1>4. /\ e \in Int
      /\ \/ e = ring_count - 1 - c
         \/ e = ring_count - 1 - c + ring_mod
  BY <1>3, <1>a, RingConstants
<1>5. ring_count - 1 - c \in 0 .. ring_mod - 1
  BY <1>3, RingConstants
<1> HIDE DEF e
<1>6. e % ring_mod = ring_count - 1 - c
  BY <1>4, <1>5, RingConstants, ModNear
<1>7. R!free_entries = e % ring_mod
  BY DEF R!free_entries, R!mask, e
<1> QED BY <1>1, <1>2, <1>6, <1>7 DEF c, R!entries, Ahead

LEMMA RingInit == R!Init => RingInv
<1> SUFFICES ASSUME R!Init PROVE RingInv
  OBVIOUS
<1>1. Ahead(0, 0) = 0 /\ 0 \in Index
  BY AheadSelf, RingConstants DEF Index
<1>2. RingTypes
  BY RingConstants DEF R!Init, RingTypes, R!TypeOK, R!Indices, R!Empty, R!mask
<1>3. RingOrder /\ RingCalls /\ RingKept /\ R!DequeuedAreNext
  BY <1>1, RingConstants DEF R!Init, RingOrder, RingCalls, RingKept, R!DequeuedAreNext
<1> QED BY <1>2, <1>3 DEF RingInv

LEMMA RingEnqueue == ASSUME RingInv, NEW m \in 1 .. ring_batch, R!Enqueue(m) PROVE RingInv'
<1> USE DEF RingInv
<1>1. CASE m > R!free_entries
  <2>1. /\ UNCHANGED <<prod_head, prod_tail, cons_head, cons_tail, slots, prod_pc, p, cons_pc, obj_table, free>>
        /\ ret' = "ENOBUFS"
    BY <1>1 DEF R!Enqueue
  <2> QED BY <2>1 DEF RingTypes, R!TypeOK, R!Indices, R!Empty, R!mask, RingOrder, RingCalls, RingKept,
                      R!DequeuedAreNext, Ahead
<1>2. CASE ~(m > R!free_entries)
  <2> DEFINE c == Ahead(prod_head, cons_tail)
             d == Ahead(prod_tail, cons_tail)
  <2>1. /\ prod_head' = (prod_head + m) % ring_mod /\ free' = R!free_entries /\ prod_pc' = "copy"
        /\ UNCHANGED <<prod_tail, cons_head, cons_tail, slots, p, cons_pc, obj_table, ret>>
        /\ prod_pc = "idle"
    BY <1>2 DEF R!Enqueue
  <2>2. /\ R!free_entries = ring_count - 1 - c /\ c \in Nat /\ d \in Nat /\ d <= c /\ c < ring_count
        /\ m \in Nat /\ m <= ring_batch
    BY RingCounts, RingTyped, RingConstants DEF RingOrder
  <2>3. c + m < ring_count /\ c + m < ring_mod
    BY <1>2, <2>2, RingConstants
  <2>4. prod_head' \in Index /\ Ahead(prod_head', cons_tail) = c + m
    BY <2>1, <2>2, <2>3, RingTyped, AheadMoves
  <2>5. prod_head = prod_tail /\ p = 0
    BY <2>1 DEF RingCalls
  <2>6. Ahead(prod_head', prod_tail) = m
    <3>1. Ahead(prod_head', prod_tail) = Ahead(prod_head', cons_tail) - d
      BY <2>2, <2>4, RingTyped, AheadFrom
    <3> QED BY <3>1, <2>2, <2>4, <2>5
  <2>7. RingTypes'
    <3>1. free' \in 0 .. ring_count - 1
      <4> HIDE DEF c
      <4> QED BY <2>1, <2>2, RingConstants
    <3>2. prod_head' \in R!Indices
      BY <2>4 DEF Index, R!Indices
    <3> QED BY <2>1, <3>1, <3>2 DEF RingTypes, R!TypeOK, R!Indices, R!Empty, R!mask
  <2>8. RingOrder'
    <3>1. /\ Ahead(prod_head, cons_tail)' = c + m /\ Ahead(prod_tail, cons_tail)' = d
          /\ Ahead(cons_head, cons_tail)' = Ahead(cons_head, cons_tail)
      BY <2>1, <2>4 DEF Ahead
    <3> QED BY <3>1, <2>2, <2>3 DEF RingOrder
  <2>9. RingCalls'
    <3>1. Ahead(prod_head, prod_tail)' = m /\ Ahead(cons_head, cons_tail)' = Ahead(cons_head, cons_tail)
      BY <2>1, <2>6 DEF Ahead
    <3>2. m <= R!free_entries
      BY <1>2, <2>2, RingConstants
    <3> QED BY <3>1, <3>2, <2>1, <2>2, <2>5 DEF RingCalls
  <2>10. RingKept' /\ R!DequeuedAreNext'
    BY <2>1 DEF RingKept, R!DequeuedAreNext, Ahead
  <2> QED BY <2>7, <2>8, <2>9, <2>10
<1> QED BY <1>1, <1>2

LEMMA RingEnqueuePtr == ASSUME RingInv, R!EnqueuePtr PROVE RingInv'
<1> USE DEF RingInv
<1> DEFINE c == Ahead(prod_head, cons_tail)
           d == Ahead(prod_tail, cons_tail)
           e == Ahead(prod_head, prod_tail)
           s == (cons_tail + (d + p)) % ring_count
           v == (cons_tail + (d + p)) % ring_mod
<1>1. /\ UNCHANGED <<prod_head, prod_tail, cons_head, cons_tail, prod_pc, cons_pc, obj_table, free, ret>>
      /\ p < e /\ p' = p + 1
      /\ slots' = [slots EXCEPT ![R!Slot(prod_tail, e, p)] = (prod_tail + p) % ring_mod]
      /\ prod_pc = "copy"
  BY DEF R!EnqueuePtr, R!Enqueued, Ahead
<1>2. /\ c \in Nat /\ d \in Nat /\ e \in Nat /\ p \in Nat /\ e = c - d /\ c < ring_count /\ e <= ring_batch
      /\ prod_tail \in Index /\ cons_tail \in Index
  BY RingCounts, RingTyped DEF RingOrder, RingCalls
<1>3. e < ring_count /\ d + p < ring_count /\ d + p \in Nat /\ cons_tail \in Int
  BY <1>1, <1>2, RingConstants DEF Index
<1>4. R!Slot(prod_tail, e, p) = s /\ (prod_tail + p) % ring_mod = v
  <2>1. R!Slot(prod_tail, e, p) = (prod_tail + p) % ring_count
    BY <1>1, <1>2, <1>3, SlotIs
  <2> QED BY <2>1, <1>2, Behind
<1>5. s \in 0 .. ring_count - 1 /\ v \in Index
  <2> DEFINE y == cons_tail + (d + p)
  <2>1. y \in Int BY <1>3
  <2> HIDE DEF y
  <2>2. y % ring_count \in 0 .. ring_count - 1 /\ y % ring_mod \in 0 .. ring_mod - 1
    BY <2>1, ModNear, RingConstants
  <2> QED BY <2>2 DEF y, Index
<1>6. slots' = [slots EXCEPT ![s] = v]
  BY <1>1, <1>4
<1> HIDE DEF s, v
<1>7. RingTypes'
  <2>1. slots \in [0 .. ring_count - 1 -> R!Indices \cup {R!Empty}] /\ v \in R!Indices \cup {R!Empty}
    BY <1>5 DEF RingTypes, R!TypeOK, R!mask, R!Indices, Index
  <2>2. slots' \in [0 .. ring_count - 1 -> R!Indices \cup {R!Empty}]
    BY <2>1, <1>5, <1>6
  <2>3. p' \in 0 .. ring_batch
    <3> HIDE DEF e
    <3> QED BY <1>1, <1>2, RingConstants
  <2> QED BY <1>1, <2>2, <2>3 DEF RingTypes, R!TypeOK, R!Indices, R!Empty, R!mask
<1>8. RingOrder' /\ R!DequeuedAreNext'
  BY <1>1 DEF RingOrder, Ahead, R!DequeuedAreNext
<1>9. RingCalls'
  <2>1. e' = e /\ Ahead(cons_head, cons_tail)' = Ahead(cons_head, cons_tail)
    BY <1>1 DEF Ahead
  <2> QED BY <2>1, <1>1, <1>2 DEF RingCalls
<1>10. RingKept'
  <2>1. d' = d
    BY <1>1 DEF Ahead
  <2>2. slots \in [0 .. ring_count - 1 -> R!Indices \cup {R!Empty}]
    BY DEF RingTypes, R!TypeOK, R!mask
  <2>3. ASSUME NEW j \in 0 .. d + p PROVE slots'[(cons_tail + j) % ring_count] = (cons_tail + j) % ring_mod
    <3>1. j \in Nat /\ j <= d + p
      BY <1>2
    <3>2. CASE j = d + p
      BY <3>2, <2>2, <1>5, <1>6 DEF s, v
    <3>3. CASE j # d + p
      <4>1. j \in 0 .. d + p - 1
        BY <3>1, <3>3, <1>2
      <4>2. slots[(cons_tail + j) % ring_count] = (cons_tail + j) % ring_mod
        BY <4>1 DEF RingKept
      <4> DEFINE y == cons_tail + j
                 z == cons_tail + (d + p)
      <4>3. y \in Int /\ z \in Int /\ y < z /\ z - y < ring_count
        <5> HIDE DEF d
        <5> QED BY <4>1, <3>1, <1>2, <1>3, RingConstants
      <4> HIDE DEF y, z
      <4>4. y % ring_count # z % ring_count /\ y % ring_count \in 0 .. ring_count - 1
        BY <4>3, ModDistinct, ModNear, RingConstants
      <4>5. (cons_tail + j) % ring_count # s /\ (cons_tail + j) % ring_count \in 0 .. ring_count - 1
        BY <4>4 DEF y, z, s
      <4> QED BY <4>2, <4>5, <2>2, <1>6
    <3> QED BY <3>2, <3>3
  <2>4. d' + p' - 1 = d + p
    BY <2>1, <1>1, <1>2
  <2> QED BY <2>3, <2>4, <1>1 DEF RingKept
<1> QED BY <1>7, <1>8, <1>9, <1>10

LEMMA RingEnqueueEnd == ASSUME RingInv, R!EnqueueEnd PROVE RingInv'
<1> USE DEF RingInv
<1> DEFINE c == Ahead(prod_head, cons_tail)
           d == Ahead(prod_tail, cons_tail)
           e == Ahead(prod_head, prod_tail)
<1>1. /\ UNCHANGED <<prod_head, cons_head, cons_tail, cons_pc, obj_table, slots>>
      /\ p = e /\ p' = 0 /\ prod_tail' = prod_head /\ prod_pc' = "idle" /\ free' = 0
      /\ ret' = IF ring_count - free + e > ring_count THEN "EDQUOT" ELSE "0"
      /\ prod_pc = "copy"
  BY DEF R!EnqueueEnd, R!Enqueued, Ahead
<1>2. /\ c \in Nat /\ d \in Nat /\ e \in Nat /\ p \in Nat /\ e = c - d /\ c < ring_count /\ e <= free
      /\ prod_tail \in Index /\ cons_tail \in Index /\ prod_head \in Index /\ free \in Nat
      /\ Ahead(cons_head, cons_tail) \in Nat /\ Ahead(cons_head, cons_tail) <= d
  BY <1>1, RingCounts, RingTyped DEF RingOrder, RingCalls
<1>3. ret' = "0"
  BY <1>1, <1>2, RingConstants
<1>4. /\ d' = c /\ c' = c /\ e' = 0 /\ Ahead(cons_head, cons_tail)' = Ahead(cons_head, cons_tail)
  BY <1>1, <1>2, AheadSelf DEF Ahead
<1>5. RingTypes'
  BY <1>1, <1>2, <1>3, RingConstants DEF RingTypes, R!TypeOK, R!Indices, R!Empty, R!mask, Index
<1>6. RingOrder'
  BY <1>2, <1>4, <1>1 DEF RingOrder
<1>7. RingCalls'
  BY <1>1, <1>2, <1>3, <1>4, RingConstants DEF RingCalls
<1>8. RingKept'
  <2>1. d' + p' - 1 = d + p - 1
    BY <1>1, <1>2, <1>4
  <2> QED BY <2>1, <1>1 DEF RingKept
<1>9. R!DequeuedAreNext'
  BY <1>1 DEF R!DequeuedAreNext
<1> QED BY <1>5, <1>6, <1>7, <1>8, <1>9

LEMMA RingDequeue == ASSUME RingInv, NEW m \in 1 .. ring_batch, R!Dequeue(m) PROVE RingInv'
<1> USE DEF RingInv
<1> DEFINE c == Ahead(prod_head, cons_tail)
           d == Ahead(prod_tail, cons_tail)
           g == Ahead(cons_head, cons_tail)
<1>1. /\ cons_pc = "idle" /\ m <= R!entries /\ cons_head' = (cons_head + m) % ring_mod /\ cons_pc' = "copy"
      /\ UNCHANGED <<prod_head, prod_tail, cons_tail, slots, prod_pc, p, obj_table, free, ret>>
  BY DEF R!Dequeue
<1>2. /\ c \in Nat /\ d \in Nat /\ g \in Nat /\ g <= d /\ d <= c /\ c < ring_count /\ R!entries = d - g
      /\ cons_head \in Index /\ cons_tail \in Index /\ m \in Nat /\ m <= ring_batch
  BY RingCounts, RingTyped, RingConstants DEF RingOrder
<1>3. cons_head = cons_tail /\ obj_table = <<>> /\ g = 0
  BY <1>1, <1>2, AheadSelf DEF RingCalls
<1>4. g + m < ring_mod /\ g + m <= d
  BY <1>1, <1>2, RingConstants
<1>5. cons_head' \in Index /\ Ahead(cons_head', cons_tail) = g + m
  BY <1>1, <1>2, <1>4, AheadMoves
<1>6. c' = c /\ d' = d /\ g' = m /\ Ahead(prod_head, prod_tail)' = Ahead(prod_head, prod_tail)
  BY <1>1, <1>2, <1>3, <1>5 DEF Ahead
<1>7. RingTypes'
  BY <1>1, <1>5, RingConstants DEF RingTypes, R!TypeOK, R!Indices, R!Empty, R!mask, Index
<1>8. RingOrder'
  BY <1>2, <1>3, <1>4, <1>6 DEF RingOrder
<1>9. RingCalls'
  BY <1>1, <1>2, <1>3, <1>6 DEF RingCalls
<1>10. RingKept' /\ R!DequeuedAreNext'
  BY <1>1 DEF RingKept, R!DequeuedAreNext, Ahead
<1> QED BY <1>7, <1>8, <1>9, <1>10

LEMMA RingDequeuePtr == ASSUME RingInv, R!DequeuePtr PROVE RingInv'
<1> USE DEF RingInv
<1> DEFINE d == Ahead(prod_tail, cons_tail)
           g == Ahead(cons_head, cons_tail)
           l == Len(obj_table)
<1>1. /\ UNCHANGED <<prod_head, prod_tail, cons_head, cons_tail, slots, prod_pc, p, cons_pc, free, ret>>
      /\ l < g /\ obj_table' = Append(obj_table, slots[R!Slot(cons_tail, g, l)]) /\ cons_pc = "copy"
  BY DEF R!DequeuePtr, R!Dequeued, Ahead
<1>2. /\ d \in Nat /\ g \in Nat /\ l \in Nat /\ p \in Nat /\ g <= d /\ d < ring_count /\ g <= ring_batch
      /\ cons_tail \in Index
  <2>1. Ahead(prod_head, cons_tail) \in Nat /\ d <= Ahead(prod_head, cons_tail) /\ Ahead(prod_head, cons_tail) < ring_count
    BY RingTyped DEF RingOrder
  <2> QED BY <2>1, RingTyped, RingConstants DEF RingOrder, RingCalls
<1> DEFINE s == (cons_tail + l) % ring_count
           v == (cons_tail + l) % ring_mod
<1>3. R!Slot(cons_tail, g, l) = s
  BY <1>1, <1>2, SlotIs, RingConstants
<1>4. slots[s] = v
  <2>1. l \in 0 .. d + p - 1
    BY <1>1, <1>2
  <2> QED BY <2>1 DEF RingKept
<1>5. v \in Index
  <2> DEFINE y == cons_tail + l
  <2>1. y \in Int BY <1>2, RingConstants DEF Index
  <2> HIDE DEF y
  <2>2. y % ring_mod \in 0 .. ring_mod - 1
    BY <2>1, ModNear, RingConstants
  <2> QED BY <2>2 DEF y, Index
<1>6. obj_table' = Append(obj_table, v)
  BY <1>1, <1>3, <1>4
<1> HIDE DEF s
<1>7. obj_table \in Seq(R!Indices \cup {R!Empty}) /\ v \in R!Indices \cup {R!Empty}
  BY <1>5 DEF RingTypes, R!Indices, Index
<1>8. /\ obj_table' \in Seq(R!Indices \cup {R!Empty}) /\ Len(obj_table') = l + 1
      /\ \A j \in 1 .. l : obj_table'[j] = obj_table[j]
      /\ obj_table'[l + 1] = v
  <2> HIDE DEF v
  <2> QED BY <1>6, <1>7
<1>9. RingTypes'
  BY <1>1, <1>2, <1>8, RingConstants DEF RingTypes, R!TypeOK, R!Indices, R!Empty, R!mask
<1>10. RingOrder' /\ RingKept'
  BY <1>1 DEF RingOrder, RingKept, Ahead
<1>11. RingCalls'
  <2>1. /\ Ahead(prod_head, prod_tail)' = Ahead(prod_head, prod_tail)
        /\ Ahead(cons_head, cons_tail)' = Ahead(cons_head, cons_tail)
    BY <1>1 DEF Ahead
  <2> QED BY <1>1, <1>2, <1>8, <2>1 DEF RingCalls
<1>12. R!DequeuedAreNext'
  <2>1. DOMAIN obj_table' = 1 .. l + 1 /\ DOMAIN obj_table = 1 .. l
    BY <1>7, <1>8
  <2>2. ASSUME NEW j \in 1 .. l + 1 PROVE obj_table'[j] = (cons_tail + j - 1) % ring_mod
    <3>1. CASE j \in 1 .. l
      BY <3>1, <2>1, <1>8 DEF R!DequeuedAreNext
    <3>2. CASE j = l + 1
      <4>1. cons_tail + j - 1 = cons_tail + l
        BY <3>2, <1>2, RingConstants DEF Index
      <4> QED BY <4>1, <3>2, <1>8
    <3> QED BY <3>1, <3>2, <1>2
  <2> QED BY <2>1, <2>2, <1>1 DEF R!DequeuedAreNext
<1> QED BY <1>9, <1>10, <1>11, <1>12

LEMMA RingDequeueEnd == ASSUME RingInv, R!DequeueEnd PROVE RingInv'
<1> USE DEF RingInv
<1> DEFINE c == Ahead(prod_head, cons_tail)
           d == Ahead(prod_tail, cons_tail)
           g == Ahead(cons_head, cons_tail)
<1>1. /\ UNCHANGED <<prod_head, prod_tail, cons_head, slots, prod_pc, p, free, ret>>
      /\ cons_tail' = cons_head /\ cons_pc' = "idle" /\ obj_table' = <<>>
  BY DEF R!DequeueEnd
<1>2. /\ c \in Nat /\ d \in Nat /\ g \in Nat /\ p \in Nat /\ g <= d /\ d <= c /\ c < ring_count
      /\ cons_tail \in Index /\ cons_head \in Index /\ prod_head \in Index /\ prod_tail \in Index
  BY RingTyped DEF RingOrder
<1>3. /\ Ahead(prod_head, cons_head) = c - g /\ Ahead(prod_tail, cons_head) = d - g
      /\ Ahead(cons_head, cons_head) = 0
  BY <1>2, AheadFrom, AheadSelf
<1>4. c' = c - g /\ d' = d - g /\ g' = 0 /\ Ahead(prod_head, prod_tail)' = Ahead(prod_head, prod_tail)
  BY <1>1, <1>3 DEF Ahead
<1>5. RingTypes'
  BY <1>1, <1>2, RingConstants DEF RingTypes, R!TypeOK, R!Indices, R!Empty, R!mask, Index
<1>6. RingOrder'
  <2>1. 0 <= d - g /\ d - g <= c - g /\ c - g < ring_count
    BY <1>2, RingConstants
  <2> QED BY <2>1, <1>1, <1>4 DEF RingOrder
<1>7. RingCalls'
  BY <1>1, <1>2, <1>4, RingConstants DEF RingCalls
<1>8. RingKept'
  <2>1. ASSUME NEW j \in 0 .. (d - g) + p - 1
        PROVE  slots[(cons_head + j) % ring_count] = (cons_head + j) % ring_mod
    <3>1. j \in Nat /\ g + j \in 0 .. d + p - 1
      BY <1>2
    <3>2. slots[(cons_tail + (g + j)) % ring_count] = (cons_tail + (g + j)) % ring_mod
      BY <3>1 DEF RingKept
    <3> QED BY <3>1, <3>2, <1>2, Behind
  <2> QED BY <2>1, <1>1, <1>4 DEF RingKept
<1>9. R!DequeuedAreNext'
  BY <1>1 DEF R!DequeuedAreNext
<1> QED BY <1>5, <1>6, <1>7, <1>8, <1>9

LEMMA RingStep == RingInv /\ [R!Next]_R!vars => RingInv'
<1>1. RingInv /\ UNCHANGED R!vars => RingInv'
  BY DEF R!vars, RingInv, RingTypes, R!TypeOK, R!Indices, R!Empty, R!mask, RingOrder, RingCalls, RingKept,
         R!DequeuedAreNext, Ahead
<1>2. RingInv /\ R!Next => RingInv'
  BY RingEnqueue, RingEnqueuePtr, RingEnqueueEnd, RingDequeue, RingDequeuePtr, RingDequeueEnd
     DEF R!Next, R!Producer, R!Consumer
<1> QED BY <1>1, <1>2

LEMMA RingGives ==
  ASSUME RingInv
  PROVE  R!DequeuedAreNext /\ R!PublishedAreKept /\ R!NeverOverfull /\ R!TestsAgree
<1> USE DEF RingInv
<1> DEFINE c == Ahead(prod_head, cons_tail)
           d == Ahead(prod_tail, cons_tail)
           g == Ahead(cons_head, cons_tail)
<1>1. /\ c \in Nat /\ d \in Nat /\ g \in Nat /\ g <= d /\ d <= c /\ c < ring_count /\ p \in Nat
      /\ R!free_entries = ring_count - 1 - c /\ R!entries = d - g
  BY RingCounts, RingTyped DEF RingOrder
<1>2. R!PublishedAreKept
  BY <1>1 DEF R!PublishedAreKept, RingKept, Ahead
<1>3. R!NeverOverfull
  BY <1>1, RingConstants DEF R!NeverOverfull, Ahead
<1>4. ASSUME prod_pc = "idle" PROVE R!is_full <=> 1 > R!free_entries
  <2>1. c = d
    BY <1>4 DEF RingCalls
  <2> DEFINE y == cons_tail - prod_tail - 1
             z == -d - 1
  <2>a. prod_tail \in Index /\ cons_tail \in Index
    BY RingTyped
  <2>2. prod_tail \in Int /\ cons_tail \in Int /\ (prod_tail = cons_tail + d \/ prod_tail = cons_tail + d - ring_mod)
    <3>1. prod_tail = cons_tail + d \/ prod_tail = cons_tail + d - ring_mod
      BY <2>a, AheadIs
    <3> QED BY <3>1, <2>a, RingConstants DEF Index
  <2> HIDE DEF d
  <2>3. z \in Int /\ (y = z \/ y = z + ring_mod)
    BY <2>2, <1>1, RingConstants
  <2> HIDE DEF y
  <2>4. PICK q \in Int : ring_mod = q * ring_count
    BY RingAssumption
  <2>5. y % ring_count = z % ring_count
    <3> HIDE DEF z
    <3>1. (z + q * ring_count) % ring_count = z % ring_count
      BY <2>3, <2>4, ModMul, RingConstants
    <3> QED BY <3>1, <2>3, <2>4
  <2>6. -ring_count <= z /\ z < 0
    BY <1>1, <2>1, RingConstants
  <2>7. z % ring_count = z + ring_count
    <3> HIDE DEF z
    <3> QED BY <2>3, <2>6, ModNear, RingConstants
  <2>8. R!is_full <=> z + ring_count = 0
    BY <2>5, <2>7 DEF R!is_full, y
  <2> QED BY <2>8, <2>1, <1>1, RingConstants
<1>5. ASSUME cons_pc = "idle", cons_head = cons_tail PROVE R!is_empty <=> 1 > R!entries
  <2>1. g = 0
    BY <1>5, RingTyped, AheadSelf
  <2>2. cons_tail = prod_tail <=> d = 0
    <3>1. prod_tail \in Index /\ cons_tail \in Index
      BY RingTyped
    <3>2. d \in Index /\ (prod_tail = cons_tail + d \/ prod_tail = cons_tail + d - ring_mod)
      BY <3>1, AheadIs
    <3> HIDE DEF d
    <3> QED BY <3>1, <3>2, RingConstants DEF Index
  <2> QED BY <2>1, <2>2, <1>1 DEF R!is_empty
<1>6. R!TestsAgree
  BY <1>4, <1>5 DEF R!TestsAgree, RingCalls
<1> QED BY <1>2, <1>3, <1>6

-----------------------------------------------------------------------------
(* tinync *)

RelayTypes ==
    /\ N!TypeOK
    /\ in_b \in 0 .. Bytes /\ net_b \in 0 .. Bytes
    /\ sent \in Seq(0 .. Bytes) /\ written \in Seq(0 .. Bytes)
    /\ overwritten \in BOOLEAN

\* The queue is a window of at most queue_size numbers, and b of socket_write_loop
\* points to the slot just before it.
QueueIsWindow ==
    /\ nc_r <= nc_w /\ nc_w - nc_r <= queue_size
    /\ out = "send" => nc_r >= 1 /\ out_b = (nc_r - 1) % queue_size
    /\ out = "wait" => out_b = queue_size
    /\ in = "finished" => nc_w = nc_r

\* Without errors the queue holds the numbers of its window, and the byte that waits to be
\* sent is in its slot until the window reaches that slot.
QueueIsExact ==
    /\ in = "push" => in_b = read /\ read = nc_w + 1
    /\ in # "push" => read = nc_w
    /\ \A j \in nc_r .. nc_w - 1 : bytes[j % queue_size] = j + 1
    /\ out = "send" /\ nc_w - nc_r < queue_size => bytes[out_b] = nc_r
    /\ out = "send" /\ ~overwritten => nc_w - nc_r < queue_size

SentIsExact ==
    /\ out = "send" => Len(sent) = nc_r - 1
    /\ out = "wait" => Len(sent) = nc_r
    /\ ~overwritten => \A j \in 1 .. Len(sent) : sent[j] = j

WrittenIsExact ==
    /\ net = "write" => net_b = received /\ Len(written) = received - 1
    /\ net # "write" => Len(written) = received
    /\ \A j \in 1 .. Len(written) : written[j] = j

RelayInv ==
    /\ RelayTypes /\ QueueIsWindow
    /\ errors = 0 => QueueIsExact /\ SentIsExact /\ WrittenIsExact

LEMMA RelayInit == N!Init => RelayInv
<1> SUFFICES ASSUME N!Init PROVE RelayInv
  OBVIOUS
<1>1. N!TypeOK /\ QueueIsWindow
  BY RelayAssumption DEF N!Init, N!TypeOK, QueueIsWindow, N!NoSlot
<1>3. RelayTypes
  <2>1. in_b \in 0 .. Bytes /\ net_b \in 0 .. Bytes
    BY RelayAssumption DEF N!Init
  <2> DEFINE S == 0 .. Bytes
  <2>3. <<>> \in Seq(S)
    <3> HIDE DEF S
    <3> QED OBVIOUS
  <2>2. sent = <<>> /\ written = <<>> /\ overwritten \in BOOLEAN
    BY DEF N!Init
  <2> QED BY <1>1, <2>1, <2>2, <2>3 DEF RelayTypes
<1>2. QueueIsExact /\ SentIsExact /\ WrittenIsExact
  BY RelayAssumption DEF N!Init, QueueIsExact, SentIsExact, WrittenIsExact
<1> QED BY <1>1, <1>2, <1>3 DEF RelayInv

LEMMA RelayTyped ==
  ASSUME RelayTypes
  PROVE  /\ nc_r \in Nat /\ nc_w \in Nat /\ read \in Nat /\ read <= Bytes /\ in_b \in Nat
         /\ received \in Nat /\ received <= Bytes /\ net_b \in Nat
         /\ Len(sent) \in Nat /\ Len(written) \in Nat
         /\ queue_size \in Nat /\ queue_size > 0 /\ Bytes \in Nat
         /\ bytes \in [0 .. queue_size - 1 -> 0 .. Bytes]
         /\ in \in {"read", "push", "drain", "finished"} /\ out \in {"wait", "send"}
         /\ net \in {"recv", "write", "finished"}
BY RelayAssumption DEF RelayTypes, N!TypeOK

\* Steps that move nothing but the control of main.
LEMMA RelayQuiet ==
  ASSUME RelayInv, UNCHANGED <<bytes, nc_r, nc_w, overwritten, in, in_b, read, out, out_b, sent, net,
                               net_b, received, written, errors>>,
         turn' \in {"select", "net", "out", "in", "exit"}
  PROVE  RelayInv'
BY DEF RelayInv, RelayTypes, N!TypeOK, QueueIsWindow, QueueIsExact, SentIsExact, WrittenIsExact

LEMMA RelayRecv == ASSUME RelayInv, N!Recv PROVE RelayInv'
<1> USE DEF RelayInv
<1>1. /\ UNCHANGED <<bytes, nc_r, nc_w, overwritten, in, in_b, read, out, out_b, sent, written>>
      /\ net = "recv"
  BY DEF N!Recv, N!queue, N!stdin, N!writer
<1>2. QueueIsWindow' /\ (QueueIsExact => QueueIsExact') /\ (SentIsExact => SentIsExact')
  BY <1>1 DEF QueueIsWindow, QueueIsExact, SentIsExact
<1>3. RelayTypes'
  BY <1>1, RelayAssumption DEF N!Recv, RelayTypes, N!TypeOK
<1>4. ASSUME errors' = 0, errors = 0 PROVE WrittenIsExact'
  BY <1>1, <1>4, RelayTyped DEF N!Recv, WrittenIsExact
<1>5. errors' = 0 => errors = 0
  BY RelayAssumption DEF N!Recv, RelayTypes, N!TypeOK
<1> QED BY <1>2, <1>3, <1>4, <1>5

LEMMA RelayWriteOut == ASSUME RelayInv, N!WriteOut PROVE RelayInv'
<1> USE DEF RelayInv
<1>1. /\ UNCHANGED <<turn, bytes, nc_r, nc_w, overwritten, in, in_b, read, out, out_b, sent, net_b, received>>
      /\ net = "write" /\ net' = "recv"
      /\ \/ written' = Append(written, net_b) /\ errors' = errors
         \/ errors' = errors + 1 /\ written' = written
      /\ errors' \in 0 .. MaxErrors
  BY RelayAssumption DEF N!WriteOut, N!queue, N!stdin, N!writer, RelayTypes, N!TypeOK
<1>2. QueueIsWindow' /\ (QueueIsExact => QueueIsExact') /\ (SentIsExact => SentIsExact')
  BY <1>1 DEF QueueIsWindow, QueueIsExact, SentIsExact
<1>3. RelayTypes'
  <2> DEFINE S == 0 .. Bytes
  <2>1. written \in Seq(S) /\ net_b \in S
    BY DEF RelayTypes
  <2>2. written' \in Seq(S)
    <3> HIDE DEF S
    <3> QED BY <2>1, <1>1
  <2> QED BY <1>1, <2>2 DEF RelayTypes, N!TypeOK
<1>5. errors' = 0 => errors = 0 /\ written' = Append(written, net_b)
  BY <1>1, RelayAssumption DEF RelayTypes, N!TypeOK
<1>4. ASSUME errors' = 0, errors = 0 PROVE WrittenIsExact'
  <2>1. /\ Len(written') = Len(written) + 1 /\ Len(written) \in Nat
        /\ \A j \in 1 .. Len(written) : written'[j] = written[j]
        /\ written'[Len(written) + 1] = net_b
    BY <1>5, <1>4 DEF RelayTypes
  <2>2. WrittenIsExact /\ received \in Nat
    BY <1>4, RelayTyped
  <2>3. Len(written') = received /\ net_b = Len(written) + 1
    BY <2>1, <2>2, <1>1 DEF WrittenIsExact
  <2>4. \A j \in 1 .. Len(written') : written'[j] = j
    BY <2>1, <2>2, <2>3 DEF WrittenIsExact
  <2> QED BY <2>3, <2>4, <1>1 DEF WrittenIsExact
<1> QED BY <1>2, <1>3, <1>4, <1>5

LEMMA RelayPop == ASSUME RelayInv, N!Pop PROVE RelayInv'
<1> USE DEF RelayInv
<1>1. /\ UNCHANGED <<turn, bytes, nc_w, overwritten, in, in_b, read, sent, net, net_b, received, written, errors>>
      /\ out = "wait" /\ nc_w # nc_r /\ out_b' = nc_r % queue_size /\ nc_r' = nc_r + 1 /\ out' = "send"
  BY DEF N!Pop, N!stdin, N!socket, N!cr_queue_empty, N!Slot
<1>2. /\ nc_r \in Nat /\ nc_w \in Nat /\ queue_size \in Nat /\ queue_size > 0
      /\ nc_r < nc_w /\ nc_w - nc_r <= queue_size /\ nc_r' - 1 = nc_r
  BY <1>1, RelayTyped DEF QueueIsWindow
<1>3. nc_r % queue_size \in 0 .. queue_size - 1
  BY <1>2, ModNear
<1>4. RelayTypes' /\ QueueIsWindow'
  <2>1. RelayTypes'
    BY <1>1, <1>2, <1>3 DEF RelayTypes, N!TypeOK
  <2>2. in # "finished"
    BY <1>1 DEF QueueIsWindow
  <2>3. /\ nc_r' <= nc_w' /\ nc_w' - nc_r' <= queue_size
        /\ nc_r' >= 1 /\ out_b' = (nc_r' - 1) % queue_size
    BY <1>1, <1>2
  <2> QED BY <2>1, <2>2, <2>3, <1>1 DEF QueueIsWindow
<1>5. ASSUME errors = 0 PROVE QueueIsExact' /\ SentIsExact' /\ WrittenIsExact'
  <2>0. QueueIsExact /\ SentIsExact /\ WrittenIsExact
    BY <1>5
  <2>1. bytes[nc_r % queue_size] = nc_r + 1
    BY <2>0, <1>2 DEF QueueIsExact
  <2>2. \A j \in nc_r' .. nc_w' - 1 : bytes'[j % queue_size] = j + 1
    BY <2>0, <1>1, <1>2 DEF QueueIsExact
  <2>3. bytes'[out_b'] = nc_r' /\ nc_w' - nc_r' < queue_size
    BY <2>1, <1>1, <1>2
  <2>4. QueueIsExact'
    BY <2>0, <2>2, <2>3, <1>1 DEF QueueIsExact
  <2>5. SentIsExact'
    BY <2>0, <1>1, <1>2 DEF SentIsExact
  <2>6. WrittenIsExact'
    BY <2>0, <1>1 DEF WrittenIsExact
  <2> QED BY <2>4, <2>5, <2>6
<1> QED BY <1>1, <1>4, <1>5

LEMMA RelaySend == ASSUME RelayInv, N!Send PROVE RelayInv'
<1> USE DEF RelayInv
<1>1. /\ UNCHANGED <<turn, bytes, nc_r, nc_w, overwritten, in, in_b, read, net, net_b, received, written>>
      /\ out = "send" /\ out' = "wait" /\ out_b' = queue_size
      /\ \/ sent' = Append(sent, bytes[out_b]) /\ errors' = errors
         \/ errors' = errors + 1 /\ sent' = sent
      /\ errors' \in 0 .. MaxErrors
  BY RelayAssumption DEF N!Send, N!queue, N!stdin, N!socket, N!NoSlot, RelayTypes, N!TypeOK
<1>2. /\ nc_r \in Nat /\ nc_w \in Nat /\ queue_size \in Nat /\ queue_size > 0 /\ nc_r >= 1
      /\ out_b = (nc_r - 1) % queue_size /\ sent \in Seq(0 .. Bytes)
      /\ bytes \in [0 .. queue_size - 1 -> 0 .. Bytes]
  BY <1>1, RelayTyped DEF QueueIsWindow, RelayTypes
<1>3. out_b \in 0 .. queue_size - 1 /\ bytes[out_b] \in 0 .. Bytes
  <2> DEFINE y == nc_r - 1
  <2>1. y \in Int BY <1>2
  <2> HIDE DEF y
  <2>2. y % queue_size \in 0 .. queue_size - 1 BY <2>1, <1>2, ModNear
  <2>3. out_b \in 0 .. queue_size - 1 BY <2>2, <1>2 DEF y
  <2> QED BY <2>3, <1>2
<1>4. RelayTypes'
  <2> DEFINE S == 0 .. Bytes
             v == bytes[out_b]
  <2>0. sent \in Seq(S) /\ v \in S /\ (sent' = Append(sent, v) \/ sent' = sent)
    BY <1>1, <1>2, <1>3
  <2>1. sent' \in Seq(S)
    <3> HIDE DEF S, v
    <3> QED BY <2>0
  <2> QED BY <2>1, <1>1, <1>2 DEF RelayTypes, N!TypeOK
<1>5. QueueIsWindow'
  BY <1>1 DEF QueueIsWindow
<1>6. ASSUME errors' = 0 PROVE QueueIsExact' /\ SentIsExact' /\ WrittenIsExact'
  <2>0. errors = 0 /\ sent' = Append(sent, bytes[out_b])
    BY <1>6, <1>1, RelayAssumption DEF RelayTypes, N!TypeOK
  <2>1. QueueIsExact /\ SentIsExact /\ WrittenIsExact
    BY <2>0
  <2>2. QueueIsExact' /\ WrittenIsExact'
    BY <2>1, <1>1 DEF QueueIsExact, WrittenIsExact
  <2>3. /\ Len(sent') = Len(sent) + 1 /\ Len(sent) \in Nat /\ Len(sent) = nc_r - 1
        /\ \A j \in 1 .. Len(sent) : sent'[j] = sent[j]
        /\ sent'[Len(sent) + 1] = bytes[out_b]
    <3>1. Len(sent) = nc_r - 1
      BY <2>1, <1>1 DEF SentIsExact
    <3> DEFINE v == bytes[out_b]
    <3>2. v \in 0 .. Bytes /\ sent \in Seq(0 .. Bytes) /\ sent' = Append(sent, v)
      BY <2>0, <1>2, <1>3
    <3> HIDE DEF v
    <3>3. /\ Len(sent') = Len(sent) + 1 /\ Len(sent) \in Nat
          /\ \A j \in 1 .. Len(sent) : sent'[j] = sent[j]
          /\ sent'[Len(sent) + 1] = v
      BY <3>2
    <3> QED BY <3>1, <3>3 DEF v
  <2>4. ASSUME ~overwritten PROVE \A j \in 1 .. Len(sent') : sent'[j] = j
    <3>1. bytes[out_b] = nc_r
      BY <2>1, <2>4, <1>1 DEF QueueIsExact
    <3> QED BY <3>1, <2>1, <2>3, <2>4, <1>2 DEF SentIsExact
  <2>5. SentIsExact'
    BY <2>3, <2>4, <1>1, <1>2 DEF SentIsExact
  <2> QED BY <2>2, <2>5
<1> QED BY <1>4, <1>5, <1>6

LEMMA RelayRead == ASSUME RelayInv, N!Read PROVE RelayInv'
<1> USE DEF RelayInv
<1>1. /\ UNCHANGED <<turn, bytes, nc_r, nc_w, overwritten, out, out_b, sent, net, net_b, received, written>>
      /\ in = "read" /\ in' \in {"push", "drain"}
  BY DEF N!Read, N!queue, N!writer, N!socket
<1>2. QueueIsWindow' /\ (WrittenIsExact => WrittenIsExact') /\ (SentIsExact => SentIsExact')
  BY <1>1 DEF QueueIsWindow, WrittenIsExact, SentIsExact
<1>3. RelayTypes'
  BY <1>1, RelayAssumption DEF N!Read, RelayTypes, N!TypeOK
<1>5. errors' = 0 => errors = 0
  BY RelayAssumption DEF N!Read, RelayTypes, N!TypeOK
<1>4. ASSUME errors' = 0, errors = 0 PROVE QueueIsExact'
  <2>1. /\ in' = "push" => in_b' = read' /\ read' = nc_w' + 1
        /\ in' # "push" => read' = nc_w'
    BY <1>1, <1>4, RelayTyped DEF N!Read, QueueIsExact
  <2> QED BY <2>1, <1>1, <1>4 DEF QueueIsExact
<1> QED BY <1>2, <1>3, <1>4, <1>5

LEMMA RelayPush == ASSUME RelayInv, N!Push PROVE RelayInv'
<1> USE DEF RelayInv
<1> DEFINE s == nc_w % queue_size
<1>1. /\ UNCHANGED <<turn, nc_r, in_b, read, out, out_b, sent, net, net_b, received, written, errors>>
      /\ in = "push" /\ in' = "read" /\ nc_w - nc_r # queue_size
      /\ bytes' = [bytes EXCEPT ![s] = in_b] /\ nc_w' = nc_w + 1
      /\ overwritten' = (overwritten \/ s = out_b)
  BY DEF N!Push, N!cr_queue_full, N!Slot, N!writer, N!socket
<1>2. /\ nc_r \in Nat /\ nc_w \in Nat /\ queue_size \in Nat /\ queue_size > 0 /\ in_b \in 0 .. Bytes
      /\ nc_r <= nc_w /\ nc_w - nc_r < queue_size
      /\ bytes \in [0 .. queue_size - 1 -> 0 .. Bytes]
  <2>1. /\ nc_r \in Nat /\ nc_w \in Nat /\ queue_size \in Nat /\ queue_size > 0 /\ in_b \in 0 .. Bytes
        /\ bytes \in [0 .. queue_size - 1 -> 0 .. Bytes]
    BY RelayTyped DEF RelayTypes
  <2> QED BY <2>1, <1>1 DEF QueueIsWindow
<1>3. s \in 0 .. queue_size - 1
  BY <1>2, ModNear
<1>4. \A j \in Int : j < nc_w /\ nc_w - j < queue_size => j % queue_size # s /\ j % queue_size \in 0 .. queue_size - 1
  <2> TAKE j \in Int
  <2> HAVE j < nc_w /\ nc_w - j < queue_size
  <2>1. nc_w \in Int
    BY <1>2
  <2> QED BY <2>1, <1>2, ModDistinct, ModNear
<1> HIDE DEF s
<1>5. RelayTypes' /\ QueueIsWindow'
  <2>1. bytes' \in [0 .. queue_size - 1 -> 0 .. Bytes]
    BY <1>1, <1>2, <1>3
  <2>2. RelayTypes'
    BY <2>1, <1>1, <1>2 DEF RelayTypes, N!TypeOK
  <2> QED BY <2>2, <1>1, <1>2 DEF QueueIsWindow
<1>6. ASSUME errors = 0 PROVE QueueIsExact' /\ SentIsExact' /\ WrittenIsExact'
  <2>0. QueueIsExact /\ SentIsExact /\ WrittenIsExact
    BY <1>6
  <2>1. in_b = nc_w + 1 /\ read' = nc_w'
    BY <2>0, <1>1, <1>2 DEF QueueIsExact
  <2>2. ASSUME NEW j \in nc_r' .. nc_w' - 1 PROVE bytes'[j % queue_size] = j + 1
    <3>1. j \in Int /\ nc_r <= j /\ j <= nc_w
      BY <1>1, <1>2
    <3>2. CASE j = nc_w
      BY <3>2, <2>1, <1>1, <1>2, <1>3 DEF s
    <3>3. CASE j < nc_w
      <4>1. bytes[j % queue_size] = j + 1
        BY <3>1, <3>3, <2>0, <1>2 DEF QueueIsExact
      <4>2. j % queue_size # s /\ j % queue_size \in 0 .. queue_size - 1
        BY <3>1, <3>3, <1>2, <1>4
      <4> QED BY <4>1, <4>2, <1>1, <1>2
    <3> QED BY <3>1, <3>2, <3>3, <1>2
  <2>3. ASSUME out = "send", nc_w' - nc_r < queue_size PROVE bytes'[out_b] = nc_r /\ s # out_b
    <3> DEFINE y == nc_r - 1
    <3>1. y \in Int /\ y < nc_w /\ nc_w - y < queue_size /\ out_b = y % queue_size
      BY <2>3, <1>1, <1>2 DEF QueueIsWindow
    <3> HIDE DEF y
    <3>2. out_b # s /\ out_b \in 0 .. queue_size - 1
      BY <3>1, <1>4
    <3>3. bytes[out_b] = nc_r
      BY <2>0, <2>3, <1>2 DEF QueueIsExact
    <3> QED BY <3>2, <3>3, <1>1, <1>2
  <2>4. ASSUME out = "send", s # out_b PROVE nc_w' - nc_r < queue_size
    <3> DEFINE y == nc_r - 1
    <3>1. SUFFICES ASSUME nc_w = y + queue_size PROVE FALSE
      BY <1>1, <1>2
    <3>2. y \in Int /\ out_b = y % queue_size
      BY <2>4, <1>2 DEF QueueIsWindow
    <3> HIDE DEF y
    <3>3. (y + 1 * queue_size) % queue_size = y % queue_size
      <4>1. 1 \in Int
        OBVIOUS
      <4> QED BY <4>1, <3>2, <1>2, ModMul
    <3>4. nc_w = y + 1 * queue_size
      BY <3>1, <3>2, <1>2
    <3> QED BY <3>2, <3>3, <3>4, <2>4 DEF s
  <2>5. QueueIsExact'
    BY <2>1, <2>2, <2>3, <2>4, <1>1 DEF QueueIsExact
  <2>6. SentIsExact' /\ WrittenIsExact'
    BY <2>0, <1>1 DEF SentIsExact, WrittenIsExact
  <2> QED BY <2>5, <2>6
<1> QED BY <1>1, <1>5, <1>6

LEMMA RelayDrain == ASSUME RelayInv, N!Drain PROVE RelayInv'
<1>1. /\ UNCHANGED <<bytes, nc_r, nc_w, overwritten, in_b, read, out, out_b, sent, net, net_b, received, written, errors>>
      /\ in = "drain" /\ in' = "finished" /\ nc_w = nc_r /\ turn' = "select"
  BY DEF N!Drain, N!queue, N!writer, N!socket, N!cr_queue_empty
<1> QED BY <1>1 DEF RelayInv, RelayTypes, N!TypeOK, QueueIsWindow, QueueIsExact, SentIsExact, WrittenIsExact

LEMMA RelayStep == RelayInv /\ [N!Next]_N!vars => RelayInv'
<1> SUFFICES ASSUME RelayInv, [N!Next]_N!vars PROVE RelayInv'
  OBVIOUS
<1> USE DEF N!queue, N!stdin, N!writer, N!socket
<1>1. CASE UNCHANGED N!vars
  BY <1>1, RelayQuiet DEF N!vars, RelayInv, RelayTypes, N!TypeOK
<1>2. CASE N!Select
  BY <1>2, RelayQuiet DEF N!Select
<1>3. CASE N!NetBlocks \/ N!OutBlocks \/ N!InBlocks
  BY <1>3, RelayQuiet DEF N!NetBlocks, N!OutBlocks, N!InBlocks, N!Return
<1> QED BY <1>1, <1>2, <1>3, RelayRecv, RelayWriteOut, RelayPop, RelaySend, RelayRead, RelayPush, RelayDrain
        DEF N!Next

LEMMA RelayGives == ASSUME RelayInv PROVE N!BytesInOrder /\ N!AllButOneAreSent
<1> USE DEF RelayInv
<1>1. N!BytesInOrder
  <2> SUFFICES ASSUME errors = 0 PROVE /\ \A j \in DOMAIN written : written[j] = j
                                       /\ ~overwritten => \A j \in DOMAIN sent : sent[j] = j
                                       /\ out = "send" /\ nc_w - nc_r # queue_size => bytes[out_b] = Len(sent) + 1
    BY DEF N!BytesInOrder, N!cr_queue_full
  <2>1. DOMAIN written = 1 .. Len(written) /\ DOMAIN sent = 1 .. Len(sent)
    BY DEF RelayTypes
  <2>2. out = "send" /\ nc_w - nc_r # queue_size => bytes[out_b] = Len(sent) + 1
    <3>1. /\ nc_r \in Nat /\ nc_w \in Nat /\ queue_size \in Nat /\ Len(sent) \in Nat
          /\ nc_r <= nc_w /\ nc_w - nc_r <= queue_size
      BY RelayTyped DEF QueueIsWindow
    <3>2. /\ out = "send" => Len(sent) = nc_r - 1
          /\ out = "send" /\ nc_w - nc_r < queue_size => bytes[out_b] = nc_r
      BY DEF QueueIsExact, SentIsExact
    <3> QED BY <3>1, <3>2
  <2> QED BY <2>1, <2>2 DEF SentIsExact, WrittenIsExact
<1>2. N!AllButOneAreSent
  <2> SUFFICES ASSUME in = "finished", errors = 0 PROVE Len(sent) = read - (IF out = "send" THEN 1 ELSE 0)
    BY DEF N!AllButOneAreSent
  <2>1. nc_w = nc_r /\ read = nc_w /\ (out = "send" => Len(sent) = nc_r - 1) /\ (out = "wait" => Len(sent) = nc_r)
    BY DEF QueueIsWindow, QueueIsExact, SentIsExact
  <2> QED BY <2>1, RelayTyped
<1> QED BY <1>1, <1>2

-----------------------------------------------------------------------------
(* httpd *)

\* The nodes are linked in the order in which they were allocated, and only the tail may
\* lag behind, by one, for the thread that holds tail_lock.
ListIsOrdered ==
    /\ \A m \in 0 .. Enqueues : hnext[m] = IF m < allocated THEN m + 1 ELSE Null
    /\ hhead <= allocated
    /\ tail_lock = Null => htail = allocated
    /\ tail_lock # Null => hpc[tail_lock] = "signal" /\ hnode[tail_lock] = allocated
    /\ \A m \in freed : m < hhead

\* Where a thread holds a lock, a connection or a node.
Holdings ==
    /\ \A q \in H!Threads :
          /\ hpc[q] = "signal" => tail_lock = q
          /\ connfd[q] # Null <=> hpc[q] \in {"enqueue", "signal", "free", "recv", "send"}
          /\ hnode[q] # Null <=> hpc[q] \in {"free", "signal"}
          /\ hpc[q] = "free" => hnode[q] < hhead
    /\ \A q \in Greeters : hpc[q] \in {"accept", "enqueue", "signal"}
    /\ \A w \in A : hpc[w] # "accept" /\ (hpc[w] = "wait" <=> head_lock = w)
    /\ \A v, w \in A : hpc[v] = "free" /\ hpc[w] = "free" /\ hnode[v] = hnode[w] => v = w

\* The connections that a thread has for itself, and the ones in the queue.
Has(q, fd)  == hpc[q] \in {"enqueue", "free", "recv", "send"} /\ connfd[q] = fd
InQueue(m)  == hhead < m /\ m <= allocated

Owners ==
    /\ \A m \in 1 .. Enqueues : InQueue(m) => fd_of[m] \in open
    /\ \A q \in H!Threads, fd \in B : Has(q, fd) => fd \in open
    /\ \A m, j \in 1 .. Enqueues : InQueue(m) /\ InQueue(j) /\ fd_of[m] = fd_of[j] => m = j
    /\ \A q, s \in H!Threads, fd \in B : Has(q, fd) /\ Has(s, fd) => q = s
    /\ \A m \in 1 .. Enqueues, q \in H!Threads : InQueue(m) => ~Has(q, fd_of[m])
    /\ \A fd \in open : \/ \E m \in 1 .. Enqueues : InQueue(m) /\ fd_of[m] = fd
                        \/ \E q \in H!Threads : Has(q, fd)

Asked ==
    \A w \in A :
        /\ hpc[w] \in {"enqueue", "signal"} => asked[w] = 1
        /\ hpc[w] = "send" /\ status[w] = 200 => asked[w] = version[w]

\* Workers on their way to the queue, and the signal to come.
Ready   == {w \in A : hpc[w] = "dequeue"}
Coming  == IF tail_lock = Null THEN 0 ELSE 1

\* If all workers have found the queue empty it is, unless a signal is still to come.
AllIdle == (\A w \in A : hpc[w] \in {"wait", "asleep"}) /\ tail_lock = Null => hhead = allocated

\* As long as no signal was lost, there are as many workers on their way as connections
\* behind one that sleeps or is going to.
EnoughAwake ==
    ~missed /\ (\E w \in A : hpc[w] \in {"wait", "asleep"})
        => allocated - hhead <= Cardinality(Ready) + Coming

ServerInv ==
    /\ H!TypeOK /\ ListIsOrdered /\ Holdings /\ Owners /\ Asked /\ AllIdle /\ EnoughAwake

LEMMA CountUp ==
  ASSUME NEW X, NEW Y, IsFiniteSet(Y), X \subseteq Y
  PROVE  /\ Cardinality(X) \in Nat /\ Cardinality(Y) \in Nat /\ Cardinality(X) <= Cardinality(Y)
         /\ \A w \in Y : w \notin X => Cardinality(X) + 1 <= Cardinality(Y)
<1>1. IsFiniteSet(X) /\ Cardinality(X) <= Cardinality(Y)
  BY FS_Subset
<1>2. Cardinality(X) \in Nat /\ Cardinality(Y) \in Nat
  BY <1>1, FS_CardinalityType
<1>3. ASSUME NEW w \in Y, w \notin X PROVE Cardinality(X) + 1 <= Cardinality(Y)
  <2>1. Cardinality(X \cup {w}) = Cardinality(X) + 1
    BY <1>1, <1>3, FS_AddElement
  <2>2. X \cup {w} \subseteq Y
    OBVIOUS
  <2>3. Cardinality(X \cup {w}) <= Cardinality(Y)
    BY <2>2, FS_Subset
  <2> QED BY <2>1, <2>3
<1> QED BY <1>1, <1>2, <1>3

LEMMA ReadyFinite ==
  /\ IsFiniteSet(Ready) /\ Cardinality(Ready) \in Nat
  /\ IsFiniteSet(Ready') /\ Cardinality(Ready') \in Nat
<1>1. Ready \subseteq A /\ Ready' \subseteq A
  BY DEF Ready
<1> QED BY <1>1, HttpdAssumption, FS_Subset, FS_CardinalityType

\* What head leads to is a stretch of numbers.
LEMMA ReachableIs ==
  ASSUME H!TypeOK, ListIsOrdered
  PROVE  H!Reachable = hhead .. allocated
<1>1. /\ hhead \in Nat /\ allocated \in Nat /\ hhead <= allocated /\ allocated <= Enqueues /\ Enqueues \in Nat
      /\ H!Nodes = 0 .. Enqueues
  BY HttpdAssumption DEF H!TypeOK, ListIsOrdered, H!Nodes
<1>2. ASSUME NEW m \in hhead .. allocated, NEW S \in SUBSET (0 .. Enqueues), hhead \in S, H!Closed(S)
      PROVE  m \in S
  <2> DEFINE I == {j \in Nat : hhead + j <= allocated => hhead + j \in S}
  <2>1. 0 \in I
    BY <1>1, <1>2
  <2>2. ASSUME NEW j \in Nat, j \in I PROVE j + 1 \in I
    <3> SUFFICES ASSUME hhead + (j + 1) <= allocated PROVE hhead + (j + 1) \in S
      OBVIOUS
    <3>1. hhead + j \in S /\ hhead + j < allocated /\ hhead + j \in 0 .. Enqueues
      BY <2>2, <1>1
    <3>2. hnext[hhead + j] = hhead + j + 1
      BY <3>1 DEF ListIsOrdered
    <3>3. hhead + j + 1 # Null
      <4>1. hhead + j + 1 \in 0 .. Enqueues
        BY <3>1, <1>1
      <4> QED BY <4>1, HttpdAssumption
    <3>4. hhead + j + 1 \in S
      BY <3>1, <3>2, <3>3, <1>2 DEF H!Closed
    <3> QED BY <3>4, <1>1
  <2> HIDE DEF I
  <2>3. Nat \subseteq I
    BY <2>1, <2>2, NatInd
  <2>4. m - hhead \in I /\ hhead + (m - hhead) = m /\ m <= allocated
    BY <2>3, <1>1
  <2> QED BY <2>4 DEF I
<1>3. ASSUME NEW m \in H!Reachable PROVE m \in hhead .. allocated
  <2> DEFINE S == hhead .. allocated
  <2>1. S \in SUBSET H!Nodes /\ hhead \in S
    BY <1>1
  <2>2. H!Closed(S)
    <3> SUFFICES ASSUME NEW j \in S, hnext[j] # Null PROVE hnext[j] \in S
      BY DEF H!Closed
    <3>1. j \in 0 .. Enqueues /\ j \in Nat /\ hhead <= j /\ j <= allocated
      BY <1>1
    <3>2. j < allocated /\ hnext[j] = j + 1
      BY <3>1 DEF ListIsOrdered
    <3> QED BY <3>1, <3>2, <1>1
  <2> HIDE DEF S
  <2>3. m \in S
    BY <2>1, <2>2 DEF H!Reachable
  <2> QED BY <2>3 DEF S
<1>4. ASSUME NEW m \in hhead .. allocated PROVE m \in H!Reachable
  <2>1. m \in H!Nodes
    BY <1>1
  <2>2. \A S \in SUBSET H!Nodes : hhead \in S /\ H!Closed(S) => m \in S
    BY <1>1, <1>2
  <2> QED BY <2>1, <2>2 DEF H!Reachable
<1> QED BY <1>3, <1>4

LEMMA ServerTyped ==
  ASSUME H!TypeOK, ListIsOrdered
  PROVE  /\ hhead \in Nat /\ allocated \in Nat /\ htail \in Nat /\ Enqueues \in Nat
         /\ hhead <= allocated /\ allocated <= Enqueues /\ htail <= Enqueues
         /\ H!Threads = Greeters \cup A /\ Null \notin H!Threads /\ Null \notin B
         /\ \A m \in 0 .. Enqueues : m # Null
         /\ \A q \in Greeters : q \notin A
         /\ H!Nodes = 0 .. Enqueues
BY HttpdAssumption DEF H!TypeOK, H!Threads, H!Nodes, ListIsOrdered

LEMMA ServerInit == H!Init => ServerInv
<1> SUFFICES ASSUME H!Init PROVE ServerInv
  OBVIOUS
<1> USE DEF H!Init
<1>1. H!TypeOK
  <2>1. /\ hhead \in H!Nodes /\ htail \in H!Nodes /\ hnext \in [H!Nodes -> H!Nodes \cup {Null}]
        /\ fd_of \in [H!Nodes -> B \cup {Null}] /\ allocated \in H!Nodes /\ freed \subseteq H!Nodes
        /\ open \subseteq B /\ head_lock \in A \cup {Null} /\ tail_lock \in H!Threads \cup {Null}
    BY HttpdAssumption DEF H!Nodes
  <2>2. /\ hpc \in [H!Threads -> {"accept", "enqueue", "signal", "dequeue", "wait", "asleep",
                                  "free", "recv", "send"}]
        /\ connfd \in [H!Threads -> B \cup {Null}] /\ hnode \in [H!Threads -> H!Nodes \cup {Null}]
    OBVIOUS
  <2>3. /\ version \in [A -> 0..1] /\ status \in [A -> H!Statuses \cup {Null}]
        /\ asked \in [A -> 0..1 \cup {Null}] /\ missed \in BOOLEAN
    OBVIOUS
  <2> QED BY <2>1, <2>2, <2>3 DEF H!TypeOK
<1>2. ListIsOrdered
  BY HttpdAssumption DEF ListIsOrdered, H!Nodes
<1>3. Holdings
  BY HttpdAssumption DEF Holdings, H!Threads
<1>4. Owners /\ Asked
  BY HttpdAssumption DEF Owners, Asked, H!Threads, Has, InQueue
<1>5. AllIdle /\ EnoughAwake
  BY HttpdAssumption DEF AllIdle, EnoughAwake, H!Threads
<1> QED BY <1>1, <1>2, <1>3, <1>4, <1>5 DEF ServerInv

LEMMA ServerAccept ==
  ASSUME ServerInv, NEW g \in Greeters, NEW fd \in B, H!Accept(g, fd)
  PROVE  ServerInv'
<1> USE DEF ServerInv
<1>1. /\ UNCHANGED <<hhead, htail, hnext, fd_of, head_lock, tail_lock, allocated, freed, hnode, version,
                     status, asked, missed>>
      /\ hpc[g] = "accept" /\ fd \notin open /\ open' = open \cup {fd}
      /\ connfd' = [connfd EXCEPT ![g] = fd] /\ hpc' = [hpc EXCEPT ![g] = "enqueue"]
  BY DEF H!Accept, H!Goto, H!queue, H!http
<1>2. /\ H!Threads = Greeters \cup A /\ g \notin A /\ g # Null /\ fd # Null
      /\ hpc \in [H!Threads -> {"accept", "enqueue", "signal", "dequeue", "wait", "asleep", "free", "recv", "send"}]
      /\ connfd \in [H!Threads -> B \cup {Null}] /\ Null \notin H!Threads /\ tail_lock \in H!Threads \cup {Null}
  BY ServerTyped DEF H!TypeOK
<1>3. H!TypeOK'
  BY <1>1, <1>2 DEF H!TypeOK, H!Nodes, H!Threads, H!Statuses
<1>4. ListIsOrdered'
  BY <1>1, <1>2 DEF ListIsOrdered
<1>5. Holdings'
  BY <1>1, <1>2 DEF Holdings, H!Threads
<1>6. Owners'
  <2>1. \A q \in H!Threads, f \in B : Has(q, f)' <=> (Has(q, f) \/ (q = g /\ f = fd))
    BY <1>1, <1>2 DEF Has, Holdings
  <2>2. \A m \in 1 .. Enqueues : (InQueue(m)' <=> InQueue(m)) /\ fd_of'[m] = fd_of[m]
    BY <1>1 DEF InQueue
  <2>3. open \subseteq B /\ \A m \in 1 .. Enqueues : InQueue(m) => fd_of[m] \in B
    BY DEF Owners, H!TypeOK
  <2>4. H!Threads' = H!Threads /\ g \in H!Threads
    BY <1>2 DEF H!Threads
  <2>5. /\ \A m \in 1 .. Enqueues : InQueue(m)' => fd_of'[m] \in open'
        /\ \A q \in H!Threads, f \in B : Has(q, f)' => f \in open'
    BY <1>1, <2>1, <2>2 DEF Owners
  <2>6. /\ \A m, j \in 1 .. Enqueues : InQueue(m)' /\ InQueue(j)' /\ fd_of'[m] = fd_of'[j] => m = j
        /\ \A q, s \in H!Threads, f \in B : Has(q, f)' /\ Has(s, f)' => q = s
    BY <1>1, <2>1, <2>2 DEF Owners
  <2>7. \A m \in 1 .. Enqueues, q \in H!Threads : InQueue(m)' => ~Has(q, fd_of[m])'
    BY <1>1, <2>1, <2>2, <2>3 DEF Owners
  <2>8. \A f \in open' : \/ \E m \in 1 .. Enqueues : InQueue(m)' /\ fd_of'[m] = f
                         \/ \E q \in H!Threads : Has(q, f)'
    BY <1>1, <2>1, <2>2, <2>3, <2>4 DEF Owners
  <2> QED BY <2>4, <2>5, <2>6, <2>7, <2>8 DEF Owners
<1>7. Asked' /\ AllIdle' /\ Ready' = Ready
  BY <1>1, <1>2 DEF Asked, AllIdle, Ready
<1>8. EnoughAwake'
  <2>1. \A w \in A : hpc'[w] = hpc[w]
    BY <1>1, <1>2
  <2> QED BY <1>1, <1>7, <2>1 DEF EnoughAwake, Coming
<1> QED BY <1>3, <1>4, <1>5, <1>6, <1>7, <1>8

LEMMA ServerLink ==
  ASSUME ServerInv, NEW t \in H!Threads, H!Link(t)
  PROVE  ServerInv'
<1> USE DEF ServerInv
<1> DEFINE e == allocated + 1
<1>1. /\ UNCHANGED <<hhead, htail, head_lock, freed, open, connfd, version, status, asked, missed>>
      /\ hpc[t] = "enqueue" /\ tail_lock = Null /\ allocated < Enqueues /\ tail_lock' = t
      /\ allocated' = e /\ fd_of' = [fd_of EXCEPT ![e] = connfd[t]]
      /\ hnext' = [hnext EXCEPT ![htail] = e] /\ hnode' = [hnode EXCEPT ![t] = e]
      /\ hpc' = [hpc EXCEPT ![t] = "signal"]
  BY DEF H!Link, H!Goto, H!http
<1>2. /\ H!Threads = Greeters \cup A /\ Null \notin H!Threads /\ \A q \in Greeters : q \notin A
      /\ hpc \in [H!Threads -> {"accept", "enqueue", "signal", "dequeue", "wait", "asleep", "free", "recv", "send"}]
      /\ connfd \in [H!Threads -> B \cup {Null}] /\ hnode \in [H!Threads -> H!Nodes \cup {Null}]
      /\ fd_of \in [H!Nodes -> B \cup {Null}] /\ hnext \in [H!Nodes -> H!Nodes \cup {Null}]
      /\ H!Nodes = 0 .. Enqueues
  BY ServerTyped DEF H!TypeOK
<1>3. /\ hhead \in Nat /\ allocated \in Nat /\ Enqueues \in Nat /\ hhead <= allocated /\ htail = allocated
      /\ e \in 0 .. Enqueues /\ e # Null /\ e \in Nat /\ allocated \in 0 .. Enqueues
  <2>1. hhead \in Nat /\ allocated \in Nat /\ Enqueues \in Nat /\ hhead <= allocated /\ htail = allocated
    BY <1>1, ServerTyped DEF ListIsOrdered
  <2>2. e \in 0 .. Enqueues /\ allocated \in 0 .. Enqueues
    BY <2>1, <1>1
  <2> QED BY <2>1, <2>2, ServerTyped
<1>4. H!TypeOK'
  BY <1>1, <1>2, <1>3 DEF H!TypeOK, H!Nodes, H!Threads, H!Statuses
<1>5. ListIsOrdered'
  <2>1. ASSUME NEW m \in 0 .. Enqueues PROVE hnext'[m] = IF m < e THEN m + 1 ELSE Null
    <3>1. hnext[m] = IF m < allocated THEN m + 1 ELSE Null
      BY DEF ListIsOrdered
    <3> QED BY <3>1, <1>1, <1>2, <1>3
  <2>2. hhead' <= allocated' /\ \A m \in freed' : m < hhead'
    BY <1>1, <1>3 DEF ListIsOrdered
  <2>3. tail_lock' # Null /\ hpc'[tail_lock'] = "signal" /\ hnode'[tail_lock'] = allocated'
    BY <1>1, <1>2
  <2> QED BY <2>1, <2>2, <2>3, <1>1 DEF ListIsOrdered
<1>6. Holdings'
  <2>1. \A q \in H!Threads : hpc[q] # "signal"
    BY <1>1, <1>2 DEF Holdings
  <2>2. ASSUME NEW q \in H!Threads
        PROVE  /\ hpc'[q] = "signal" => tail_lock' = q
               /\ connfd'[q] # Null <=> hpc'[q] \in {"enqueue", "signal", "free", "recv", "send"}
               /\ hnode'[q] # Null <=> hpc'[q] \in {"free", "signal"}
               /\ hpc'[q] = "free" => hnode'[q] < hhead'
    BY <1>1, <1>2, <1>3, <2>1 DEF Holdings
  <2>3. \A q \in Greeters : hpc'[q] \in {"accept", "enqueue", "signal"}
    BY <1>1, <1>2 DEF Holdings
  <2>4. \A w \in A : hpc'[w] # "accept" /\ (hpc'[w] = "wait" <=> head_lock' = w)
    BY <1>1, <1>2 DEF Holdings
  <2>5. \A v, w \in A : hpc'[v] = "free" /\ hpc'[w] = "free" /\ hnode'[v] = hnode'[w] => v = w
    BY <1>1, <1>2 DEF Holdings
  <2>6. H!Threads' = H!Threads
    BY DEF H!Threads
  <2> QED BY <2>2, <2>3, <2>4, <2>5, <2>6 DEF Holdings
<1>7. Owners'
  <2> DEFINE fd == connfd[t]
  <2>0. fd \in B /\ Has(t, fd) /\ fd \in open
    BY <1>1, <1>2 DEF Holdings, Has, Owners
  <2>1. \A q \in H!Threads : \A f \in B : Has(q, f)' <=> (Has(q, f) /\ q # t)
    BY <1>1, <1>2 DEF Has
  <2>2. \A m \in 1 .. Enqueues : InQueue(m)' <=> (InQueue(m) \/ m = e)
    BY <1>1, <1>3 DEF InQueue
  <2>3. /\ \A m \in 1 .. Enqueues : InQueue(m) => m # e /\ fd_of'[m] = fd_of[m] /\ fd_of[m] \in B
        /\ fd_of'[e] = fd /\ e \in 1 .. Enqueues
    BY <1>1, <1>2, <1>3 DEF InQueue, Owners, H!TypeOK
  <2>4. H!Threads' = H!Threads /\ open' = open /\ open \subseteq B
    BY <1>1 DEF H!Threads, H!TypeOK
  <2> HIDE DEF fd, e
  <2>5. /\ \A m \in 1 .. Enqueues : InQueue(m)' => fd_of'[m] \in open
        /\ \A q \in H!Threads, f \in B : Has(q, f)' => f \in open
    BY <2>0, <2>1, <2>2, <2>3 DEF Owners
  <2>6. \A m, j \in 1 .. Enqueues : InQueue(m)' /\ InQueue(j)' /\ fd_of'[m] = fd_of'[j] => m = j
    BY <2>0, <2>2, <2>3 DEF Owners
  <2>7. \A q, s \in H!Threads, f \in B : Has(q, f)' /\ Has(s, f)' => q = s
    BY <2>1 DEF Owners
  <2>8. ASSUME NEW m \in 1 .. Enqueues, NEW q \in H!Threads, InQueue(m)' PROVE ~Has(q, fd_of[m])'
    <3>1. PICK f \in B : f = fd_of'[m]
      BY <2>0, <2>2, <2>3, <2>8
    <3>2. ~(Has(q, f) /\ q # t)
      BY <3>1, <2>0, <2>2, <2>3, <2>8 DEF Owners
    <3>3. ~Has(q, f)'
      BY <3>2, <2>1
    <3> QED BY <3>1, <3>3 DEF Has
  <2>9. ASSUME NEW f \in open PROVE \/ \E m \in 1 .. Enqueues : InQueue(m)' /\ fd_of'[m] = f
                                    \/ \E q \in H!Threads : Has(q, f)'
    <3>1. CASE f = fd
      BY <3>1, <2>2, <2>3
    <3>2. CASE f # fd
      <4>1. \A q \in H!Threads : Has(q, f) => q # t
        BY <3>2 DEF Has, fd
      <4> QED BY <4>1, <2>1, <2>2, <2>3, <2>4 DEF Owners
    <3> QED BY <3>1, <3>2
  <2> QED BY <2>4, <2>5, <2>6, <2>7, <2>8, <2>9 DEF Owners
<1>8. Asked'
  BY <1>1, <1>2 DEF Asked
<1>9. AllIdle' /\ EnoughAwake'
  <2>1. Ready' = Ready /\ Coming' = Coming + 1 /\ Coming' = 1 /\ Coming = 0
    BY <1>1, <1>2, <1>3 DEF Ready, Coming
  <2>2. AllIdle'
    BY <1>1, <1>2 DEF AllIdle
  <2>3. \A w \in A : hpc'[w] \in {"wait", "asleep"} => hpc[w] \in {"wait", "asleep"}
    BY <1>1, <1>2
  <2>4. EnoughAwake'
    BY <1>1, <1>3, <2>1, <2>3, ReadyFinite DEF EnoughAwake
  <2> QED BY <2>2, <2>4
<1> QED BY <1>4, <1>5, <1>6, <1>7, <1>8, <1>9

LEMMA ServerSignal ==
  ASSUME ServerInv, NEW t \in H!Threads, H!Signal(t)
  PROVE  ServerInv'
<1> USE DEF ServerInv
<1> DEFINE sleepers == {w \in A : hpc[w] = "asleep"}
<1>1. /\ UNCHANGED <<hhead, hnext, fd_of, head_lock, allocated, freed, open, version, status, asked>>
      /\ hpc[t] = "signal" /\ htail' = hnode[t] /\ tail_lock' = Null
      /\ hnode' = [hnode EXCEPT ![t] = Null] /\ connfd' = [connfd EXCEPT ![t] = Null]
      /\ missed' = (missed \/ (sleepers = {} /\ \E w \in A : hpc[w] = "wait"))
      /\ \/ \E w \in sleepers : hpc' = [hpc EXCEPT ![t] = H!Resume(t), ![w] = "dequeue"]
         \/ sleepers = {} /\ hpc' = [hpc EXCEPT ![t] = H!Resume(t)]
  BY DEF H!Signal, H!Goto, H!http
<1>2. /\ H!Threads = Greeters \cup A /\ Null \notin H!Threads /\ \A q \in Greeters : q \notin A
      /\ hpc \in [H!Threads -> {"accept", "enqueue", "signal", "dequeue", "wait", "asleep", "free", "recv", "send"}]
      /\ connfd \in [H!Threads -> B \cup {Null}] /\ hnode \in [H!Threads -> H!Nodes \cup {Null}]
      /\ H!Nodes = 0 .. Enqueues
      /\ H!Resume(t) = IF t \in Greeters THEN "accept" ELSE "dequeue"
  BY ServerTyped DEF H!TypeOK, H!Resume
<1>3. hhead \in Nat /\ allocated \in Nat /\ Enqueues \in Nat /\ tail_lock = t /\ hnode[t] = allocated
  BY <1>1, <1>2, ServerTyped DEF Holdings, ListIsOrdered
<1>4. \A q \in H!Threads :
         \/ q = t /\ hpc'[q] \in {"accept", "dequeue"} /\ (hpc'[q] = "accept" <=> q \in Greeters)
         \/ q # t /\ hpc'[q] = hpc[q]
         \/ q # t /\ q \in A /\ hpc[q] = "asleep" /\ hpc'[q] = "dequeue"
  BY <1>1, <1>2
<1>5. H!TypeOK'
  <2>1. hpc' \in [H!Threads -> {"accept", "enqueue", "signal", "dequeue", "wait", "asleep", "free", "recv", "send"}]
    BY <1>1, <1>2
  <2>2. missed' \in BOOLEAN
    BY <1>1
  <2>3. htail' \in H!Nodes
    BY <1>1, <1>3 DEF H!TypeOK
  <2> QED BY <1>1, <1>2, <2>1, <2>2, <2>3 DEF H!TypeOK, H!Nodes, H!Threads, H!Statuses
<1>6. ListIsOrdered'
  BY <1>1, <1>3 DEF ListIsOrdered
<1>7. Holdings'
  <2>1. \A q \in H!Threads : hpc[q] = "signal" => q = t
    BY <1>3 DEF Holdings
  <2>2. ASSUME NEW q \in H!Threads
        PROVE  /\ hpc'[q] = "signal" => tail_lock' = q
               /\ connfd'[q] # Null <=> hpc'[q] \in {"enqueue", "signal", "free", "recv", "send"}
               /\ hnode'[q] # Null <=> hpc'[q] \in {"free", "signal"}
               /\ hpc'[q] = "free" => hnode'[q] < hhead'
    BY <1>1, <1>2, <1>4, <2>1 DEF Holdings
  <2>3. \A q \in Greeters : hpc'[q] \in {"accept", "enqueue", "signal"}
    BY <1>2, <1>4 DEF Holdings
  <2>4. \A w \in A : hpc'[w] # "accept" /\ (hpc'[w] = "wait" <=> head_lock' = w)
    BY <1>1, <1>2, <1>4 DEF Holdings
  <2>5. \A v, w \in A : hpc'[v] = "free" /\ hpc'[w] = "free" /\ hnode'[v] = hnode'[w] => v = w
    BY <1>1, <1>2, <1>4 DEF Holdings
  <2>6. H!Threads' = H!Threads
    BY DEF H!Threads
  <2> QED BY <2>2, <2>3, <2>4, <2>5, <2>6 DEF Holdings
<1>8. Owners'
  <2>1. \A q \in H!Threads : \A f : Has(q, f)' <=> Has(q, f)
    BY <1>1, <1>2, <1>4 DEF Has
  <2>2. \A m \in 1 .. Enqueues : (InQueue(m)' <=> InQueue(m)) /\ fd_of'[m] = fd_of[m]
    BY <1>1 DEF InQueue
  <2>3. H!Threads' = H!Threads /\ open' = open
    BY <1>1 DEF H!Threads
  <2>4. \A m \in 1 .. Enqueues, q \in H!Threads : InQueue(m)' => ~Has(q, fd_of[m])'
    BY <2>1, <2>2, <1>1, <1>2, <1>4 DEF Owners, Has
  <2> QED BY <2>1, <2>2, <2>3, <2>4 DEF Owners
<1>9. Asked'
  BY <1>1, <1>2, <1>4 DEF Asked
<1>10. AllIdle'
  <2> SUFFICES ASSUME \A w \in A : hpc'[w] \in {"wait", "asleep"} PROVE FALSE
    BY DEF AllIdle
  <2>1. sleepers = {}
    BY <1>1, <1>2
  <2>2. \A w \in A : hpc[w] = "wait"
    BY <1>2, <1>4, <2>1
  <2>3. \A w \in A : head_lock = w
    BY <2>2 DEF Holdings
  <2> QED BY <2>3, HttpdAssumption
<1>11. EnoughAwake'
  <2> SUFFICES ASSUME ~missed', \E w \in A : hpc'[w] \in {"wait", "asleep"}
               PROVE  allocated - hhead <= Cardinality(Ready')
    <3>1. Coming' = 0
      BY <1>1 DEF Coming
    <3> QED BY <3>1, <1>1, ReadyFinite DEF EnoughAwake
  <2>1. ~missed /\ \E w \in A : hpc[w] \in {"wait", "asleep"}
    BY <1>1, <1>2, <1>4
  <2>2. Coming = 1
    BY <1>2, <1>3 DEF Coming
  <2>3. allocated - hhead <= Cardinality(Ready) + 1
    BY <2>1, <2>2 DEF EnoughAwake
  <2>4. PICK w \in A : hpc[w] = "asleep"
    BY <1>1, <2>1
  <2>5. sleepers # {}
    BY <2>4
  <2>6. PICK v \in sleepers : hpc' = [hpc EXCEPT ![t] = H!Resume(t), ![v] = "dequeue"]
    BY <1>1, <2>5
  <2>7. v \in Ready' /\ v \notin Ready
    BY <2>6, <1>1, <1>2 DEF Ready
  <2>8. Ready \subseteq Ready'
    BY <1>1, <1>2, <1>4 DEF Ready
  <2>9. Cardinality(Ready) + 1 <= Cardinality(Ready')
    BY <2>7, <2>8, ReadyFinite, CountUp
  <2> QED BY <2>3, <2>9, <1>3, ReadyFinite
<1> QED BY <1>5, <1>6, <1>7, <1>8, <1>9, <1>10, <1>11

\* A worker that has found the queue empty.
LEMMA ServerEmpty ==
  ASSUME ServerInv, NEW w \in A, H!Dequeue(w), hnext[hhead] = Null
  PROVE  ServerInv'
<1> USE DEF ServerInv
<1>1. /\ UNCHANGED <<hhead, htail, hnext, fd_of, tail_lock, allocated, freed, open, connfd, hnode,
                     version, status, asked, missed>>
      /\ hpc[w] = "dequeue" /\ head_lock = Null /\ head_lock' = w /\ hpc' = [hpc EXCEPT ![w] = "wait"]
  BY DEF H!Dequeue, H!Goto, H!http
<1>2. /\ H!Threads = Greeters \cup A /\ Null \notin H!Threads /\ \A q \in Greeters : q \notin A
      /\ hpc \in [H!Threads -> {"accept", "enqueue", "signal", "dequeue", "wait", "asleep", "free", "recv", "send"}]
  BY ServerTyped DEF H!TypeOK
<1>3. hhead \in Nat /\ allocated \in Nat /\ hhead = allocated
  <2>1. hhead \in Nat /\ allocated \in Nat /\ hhead <= allocated /\ hhead \in 0 .. Enqueues /\ hhead + 1 \in Nat
        /\ allocated <= Enqueues /\ Enqueues \in Nat
    BY ServerTyped
  <2>2. hhead < allocated => hhead + 1 # Null
    BY <2>1, ServerTyped
  <2> QED BY <2>1, <2>2 DEF ListIsOrdered
<1>4. H!TypeOK'
  BY <1>1, <1>2 DEF H!TypeOK, H!Nodes, H!Threads, H!Statuses
<1>5. ListIsOrdered'
  BY <1>1, <1>2 DEF ListIsOrdered, H!TypeOK
<1>6. Holdings'
  BY <1>1, <1>2 DEF Holdings, H!Threads
<1>7. Owners'
  <2>1. \A q \in H!Threads : \A f : Has(q, f)' <=> Has(q, f)
    BY <1>1, <1>2 DEF Has
  <2>2. \A m \in 1 .. Enqueues : (InQueue(m)' <=> InQueue(m)) /\ fd_of'[m] = fd_of[m]
    BY <1>1 DEF InQueue
  <2>3. H!Threads' = H!Threads /\ open' = open
    BY <1>1 DEF H!Threads
  <2>4. \A m \in 1 .. Enqueues, q \in H!Threads : InQueue(m)' => ~Has(q, fd_of[m])'
    BY <2>2, <1>1, <1>2 DEF Owners, Has
  <2> QED BY <2>1, <2>2, <2>3, <2>4 DEF Owners
<1>8. Asked' /\ AllIdle'
  BY <1>1, <1>2, <1>3 DEF Asked, AllIdle
<1>9. EnoughAwake'
  <2>1. allocated' - hhead' = 0 /\ Coming' \in Nat
    BY <1>1, <1>3 DEF Coming
  <2> QED BY <2>1, ReadyFinite DEF EnoughAwake
<1> QED BY <1>4, <1>5, <1>6, <1>7, <1>8, <1>9

\* A worker that takes the first connection.
LEMMA ServerTake ==
  ASSUME ServerInv, NEW w \in A, H!Dequeue(w), hnext[hhead] # Null
  PROVE  ServerInv'
<1> USE DEF ServerInv
<1> DEFINE e == hhead + 1
<1>1. /\ UNCHANGED <<htail, hnext, fd_of, tail_lock, allocated, freed, open, head_lock, version, status,
                     asked, missed>>
      /\ hpc[w] = "dequeue" /\ head_lock = Null /\ hpc' = [hpc EXCEPT ![w] = "free"]
      /\ connfd' = [connfd EXCEPT ![w] = fd_of[hnext[hhead]]] /\ hnode' = [hnode EXCEPT ![w] = hhead]
      /\ hhead' = hnext[hhead]
  BY DEF H!Dequeue, H!Goto, H!http
<1>2. /\ H!Threads = Greeters \cup A /\ Null \notin H!Threads /\ \A q \in Greeters : q \notin A
      /\ hpc \in [H!Threads -> {"accept", "enqueue", "signal", "dequeue", "wait", "asleep", "free", "recv", "send"}]
      /\ connfd \in [H!Threads -> B \cup {Null}] /\ hnode \in [H!Threads -> H!Nodes \cup {Null}]
      /\ fd_of \in [H!Nodes -> B \cup {Null}]
      /\ H!Nodes = 0 .. Enqueues /\ Null \notin B /\ w \in H!Threads
  BY ServerTyped DEF H!TypeOK
<1>3. /\ hhead \in Nat /\ allocated \in Nat /\ Enqueues \in Nat /\ hhead < allocated /\ allocated <= Enqueues
      /\ hnext[hhead] = e /\ e \in 1 .. Enqueues /\ e \in Nat /\ hhead # Null
  <2>1. hhead \in Nat /\ allocated \in Nat /\ hhead <= allocated /\ hhead \in 0 .. Enqueues /\ hhead # Null
        /\ allocated <= Enqueues /\ Enqueues \in Nat
    BY ServerTyped
  <2> QED BY <2>1 DEF ListIsOrdered
<1>4. /\ hhead' = e /\ connfd' = [connfd EXCEPT ![w] = fd_of[e]]
  BY <1>1, <1>3
<1>5. InQueue(e) /\ fd_of[e] \in open /\ fd_of[e] \in B
  BY <1>3 DEF InQueue, Owners, H!TypeOK
<1>6. H!TypeOK'
  <2>1. hhead' \in H!Nodes /\ hhead \in H!Nodes
    BY <1>2, <1>3, <1>4
  <2> QED BY <1>1, <1>2, <1>4, <1>5, <2>1 DEF H!TypeOK, H!Nodes, H!Threads, H!Statuses
<1>7. ListIsOrdered'
  <2>1. tail_lock # Null => tail_lock # w
    BY <1>1 DEF ListIsOrdered
  <2>2. tail_lock' # Null => hpc'[tail_lock'] = "signal" /\ hnode'[tail_lock'] = allocated'
    BY <1>1, <1>2, <2>1 DEF ListIsOrdered, H!TypeOK
  <2>3. hhead' <= allocated' /\ \A m \in freed' : m < hhead'
    <3>1. \A m \in freed : m \in Nat /\ m < hhead
      BY <1>2 DEF ListIsOrdered, H!TypeOK
    <3> QED BY <1>1, <1>3, <1>4, <3>1
  <2> QED BY <1>1, <2>2, <2>3 DEF ListIsOrdered
<1>8. Holdings'
  <2>1. \A q \in H!Threads : hpc[q] = "free" => hnode[q] \in Nat /\ hnode[q] < hhead
    BY <1>2 DEF Holdings
  <2>2. ASSUME NEW q \in H!Threads
        PROVE  /\ hpc'[q] = "signal" => tail_lock' = q
               /\ connfd'[q] # Null <=> hpc'[q] \in {"enqueue", "signal", "free", "recv", "send"}
               /\ hnode'[q] # Null <=> hpc'[q] \in {"free", "signal"}
               /\ hpc'[q] = "free" => hnode'[q] < hhead'
    <3>1. CASE q = w
      BY <3>1, <1>1, <1>2, <1>3, <1>4, <1>5
    <3>2. CASE q # w
      <4>1. hpc'[q] = hpc[q] /\ connfd'[q] = connfd[q] /\ hnode'[q] = hnode[q]
        BY <3>2, <1>1, <1>2
      <4>2. hpc[q] = "free" => hnode[q] < hhead'
        BY <2>1, <1>3, <1>4
      <4> QED BY <4>1, <4>2, <1>1 DEF Holdings
    <3> QED BY <3>1, <3>2
  <2>3. \A q \in Greeters : hpc'[q] \in {"accept", "enqueue", "signal"}
    BY <1>1, <1>2 DEF Holdings
  <2>4. \A v \in A : hpc'[v] # "accept" /\ (hpc'[v] = "wait" <=> head_lock' = v)
    BY <1>1, <1>2 DEF Holdings
  <2>5. \A v, u \in A : hpc'[v] = "free" /\ hpc'[u] = "free" /\ hnode'[v] = hnode'[u] => v = u
    BY <1>1, <1>2, <1>3, <2>1 DEF Holdings
  <2>6. H!Threads' = H!Threads
    BY DEF H!Threads
  <2> QED BY <2>2, <2>3, <2>4, <2>5, <2>6 DEF Holdings
<1>9. Owners'
  <2> DEFINE fd == fd_of[e]
  <2>1. \A q \in H!Threads : \A f \in B : Has(q, f)' <=> (Has(q, f) \/ (q = w /\ f = fd))
    BY <1>1, <1>2, <1>4 DEF Has
  <2>2. \A m \in 1 .. Enqueues : (InQueue(m)' <=> (InQueue(m) /\ m # e)) /\ fd_of'[m] = fd_of[m]
    BY <1>1, <1>3, <1>4 DEF InQueue
  <2>3. \A m \in 1 .. Enqueues : InQueue(m) => fd_of[m] \in B
    BY DEF Owners, H!TypeOK
  <2>4. H!Threads' = H!Threads /\ open' = open /\ open \subseteq B
    BY <1>1 DEF H!Threads, H!TypeOK
  <2>0. fd \in B /\ fd \in open /\ InQueue(e) /\ e \in 1 .. Enqueues /\ \A q \in H!Threads : ~Has(q, fd)
        /\ \A m \in 1 .. Enqueues : InQueue(m) /\ fd_of[m] = fd => m = e
    BY <1>3, <1>5 DEF Owners
  <2>10. fd = fd_of[e]
    OBVIOUS
  <2> HIDE DEF fd, e
  <2>5. /\ \A m \in 1 .. Enqueues : InQueue(m)' => fd_of'[m] \in open
        /\ \A q \in H!Threads, f \in B : Has(q, f)' => f \in open
    BY <2>0, <2>1, <2>2 DEF Owners
  <2>6. \A m, j \in 1 .. Enqueues : InQueue(m)' /\ InQueue(j)' /\ fd_of'[m] = fd_of'[j] => m = j
    BY <2>2 DEF Owners
  <2>7. \A q, s \in H!Threads, f \in B : Has(q, f)' /\ Has(s, f)' => q = s
    BY <2>0, <2>1 DEF Owners
  <2>8. ASSUME NEW m \in 1 .. Enqueues, NEW q \in H!Threads, InQueue(m)' PROVE ~Has(q, fd_of[m])'
    <3>1. PICK f \in B : f = fd_of'[m] /\ f = fd_of[m]
      BY <2>2, <2>3, <2>8
    <3>2. ~Has(q, f) /\ f # fd
      BY <3>1, <2>0, <2>2, <2>8 DEF Owners
    <3>3. ~Has(q, f)'
      BY <3>2, <2>1
    <3> QED BY <3>1, <3>3 DEF Has
  <2>9. ASSUME NEW f \in open PROVE \/ \E m \in 1 .. Enqueues : InQueue(m)' /\ fd_of'[m] = f
                                    \/ \E q \in H!Threads : Has(q, f)'
    <3>1. CASE f = fd
      BY <3>1, <2>0, <2>1, <1>2
    <3>2. CASE f # fd
      BY <3>2, <2>1, <2>2, <2>4, <2>10 DEF Owners
    <3> QED BY <3>1, <3>2
  <2> QED BY <2>4, <2>5, <2>6, <2>7, <2>8, <2>9 DEF Owners
<1>10. Asked' /\ AllIdle'
  BY <1>1, <1>2 DEF Asked, AllIdle
<1>11. EnoughAwake'
  <2> SUFFICES ASSUME ~missed', \E v \in A : hpc'[v] \in {"wait", "asleep"}
               PROVE  allocated' - hhead' <= Cardinality(Ready') + Coming'
    BY DEF EnoughAwake
  <2>1. ~missed /\ (\E v \in A : hpc[v] \in {"wait", "asleep"}) /\ Coming' = Coming /\ Coming \in Nat
    BY <1>1, <1>2 DEF Coming
  <2>2. allocated - hhead <= Cardinality(Ready) + Coming
    BY <2>1 DEF EnoughAwake
  <2>3. Ready' = Ready \ {w} /\ w \in Ready
    BY <1>1, <1>2 DEF Ready
  <2>4. Cardinality(Ready') = Cardinality(Ready) - 1
    BY <2>3, ReadyFinite, FS_RemoveElement
  <2> QED BY <2>1, <2>2, <2>4, <1>1, <1>3, <1>4, ReadyFinite
<1> QED BY <1>6, <1>7, <1>8, <1>9, <1>10, <1>11

\* Steps of a worker that change no connection: it goes to sleep, wakes up, frees a node
\* or receives a request.
LEMMA ServerKeeps ==
  ASSUME ServerInv, NEW w \in A, NEW l, hpc' = [hpc EXCEPT ![w] = l],
         UNCHANGED <<hhead, htail, hnext, fd_of, tail_lock, allocated, open, connfd, missed>>,
         \/ hpc[w] = "wait" /\ l = "asleep"
         \/ hpc[w] = "asleep" /\ l = "dequeue"
         \/ hpc[w] = "free" /\ l = "recv"
         \/ hpc[w] = "recv" /\ l = "send"
  PROVE  Owners' /\ AllIdle' /\ EnoughAwake'
<1> USE DEF ServerInv
<1>1. /\ H!Threads = Greeters \cup A /\ w \in H!Threads
      /\ hpc \in [H!Threads -> {"accept", "enqueue", "signal", "dequeue", "wait", "asleep", "free", "recv", "send"}]
  BY ServerTyped DEF H!TypeOK
<1>2. Owners'
  <2>1. \A q \in H!Threads : \A f : Has(q, f)' <=> Has(q, f)
    BY <1>1 DEF Has
  <2>2. \A m \in 1 .. Enqueues : (InQueue(m)' <=> InQueue(m)) /\ fd_of'[m] = fd_of[m]
    BY DEF InQueue
  <2>3. H!Threads' = H!Threads /\ open' = open
    BY DEF H!Threads
  <2>4. \A m \in 1 .. Enqueues, q \in H!Threads : InQueue(m)' => ~Has(q, fd_of[m])'
    BY <2>2, <1>1 DEF Owners, Has
  <2> QED BY <2>1, <2>2, <2>3, <2>4 DEF Owners
<1>3. AllIdle'
  BY <1>1 DEF AllIdle
<1>4. EnoughAwake'
  <2>1. Ready \subseteq Ready' /\ Coming' = Coming /\ Coming \in Nat
    BY <1>1 DEF Ready, Coming
  <2>2. Cardinality(Ready) <= Cardinality(Ready')
    BY <2>1, ReadyFinite, CountUp
  <2>3. \A v \in A : hpc'[v] \in {"wait", "asleep"} => hpc[v] \in {"wait", "asleep"}
    BY <1>1
  <2>4. hhead \in Nat /\ allocated \in Nat
    BY ServerTyped
  <2> QED BY <2>1, <2>2, <2>3, <2>4, ReadyFinite DEF EnoughAwake
<1> QED BY <1>2, <1>3, <1>4

LEMMA ServerCondWait == ASSUME ServerInv, NEW w \in A, H!CondWait(w) PROVE ServerInv'
<1> USE DEF ServerInv
<1>1. /\ UNCHANGED <<hhead, htail, hnext, fd_of, tail_lock, allocated, freed, open, connfd, hnode, version,
                     status, asked, missed>>
      /\ hpc[w] = "wait" /\ head_lock' = Null /\ hpc' = [hpc EXCEPT ![w] = "asleep"]
  BY DEF H!CondWait, H!Goto, H!http
<1>2. /\ H!Threads = Greeters \cup A /\ Null \notin H!Threads /\ \A q \in Greeters : q \notin A
      /\ hpc \in [H!Threads -> {"accept", "enqueue", "signal", "dequeue", "wait", "asleep", "free", "recv", "send"}]
  BY ServerTyped DEF H!TypeOK
<1>3. Owners' /\ AllIdle' /\ EnoughAwake'
  BY <1>1, ServerKeeps
<1>4. H!TypeOK' /\ ListIsOrdered'
  BY <1>1, <1>2 DEF H!TypeOK, H!Nodes, H!Threads, H!Statuses, ListIsOrdered
<1>5. Holdings' /\ Asked'
  BY <1>1, <1>2 DEF Holdings, H!Threads, Asked
<1> QED BY <1>3, <1>4, <1>5

LEMMA ServerSpurious == ASSUME ServerInv, NEW w \in A, H!Spurious(w) PROVE ServerInv'
<1> USE DEF ServerInv
<1>1. /\ UNCHANGED <<hhead, htail, hnext, fd_of, tail_lock, head_lock, allocated, freed, open, connfd, hnode,
                     version, status, asked, missed>>
      /\ hpc[w] = "asleep" /\ hpc' = [hpc EXCEPT ![w] = "dequeue"]
  BY DEF H!Spurious, H!Goto, H!http, H!queue
<1>2. /\ H!Threads = Greeters \cup A /\ Null \notin H!Threads /\ \A q \in Greeters : q \notin A
      /\ hpc \in [H!Threads -> {"accept", "enqueue", "signal", "dequeue", "wait", "asleep", "free", "recv", "send"}]
  BY ServerTyped DEF H!TypeOK
<1>3. Owners' /\ AllIdle' /\ EnoughAwake'
  BY <1>1, ServerKeeps
<1>4. H!TypeOK' /\ ListIsOrdered'
  BY <1>1, <1>2 DEF H!TypeOK, H!Nodes, H!Threads, H!Statuses, ListIsOrdered
<1>5. Holdings' /\ Asked'
  BY <1>1, <1>2 DEF Holdings, H!Threads, Asked
<1> QED BY <1>3, <1>4, <1>5

LEMMA ServerFreeOld == ASSUME ServerInv, NEW w \in A, H!FreeOld(w) PROVE ServerInv'
<1> USE DEF ServerInv
<1>1. /\ UNCHANGED <<hhead, htail, hnext, fd_of, tail_lock, head_lock, allocated, open, connfd,
                     version, status, asked, missed>>
      /\ hpc[w] = "free" /\ hpc' = [hpc EXCEPT ![w] = "recv"]
      /\ freed' = freed \cup {hnode[w]} /\ hnode' = [hnode EXCEPT ![w] = Null]
  BY DEF H!FreeOld, H!Goto, H!http
<1>2. /\ H!Threads = Greeters \cup A /\ Null \notin H!Threads /\ \A q \in Greeters : q \notin A
      /\ hpc \in [H!Threads -> {"accept", "enqueue", "signal", "dequeue", "wait", "asleep", "free", "recv", "send"}]
      /\ hnode \in [H!Threads -> H!Nodes \cup {Null}]
  BY ServerTyped DEF H!TypeOK
<1>3. Owners' /\ AllIdle' /\ EnoughAwake'
  BY <1>1, ServerKeeps
<1>4. hnode[w] \in H!Nodes /\ hnode[w] < hhead
  BY <1>1, <1>2 DEF Holdings
<1>5. H!TypeOK'
  <2>1. /\ hpc' \in [H!Threads -> {"accept", "enqueue", "signal", "dequeue", "wait", "asleep", "free", "recv", "send"}]
        /\ hnode' \in [H!Threads -> H!Nodes \cup {Null}] /\ freed' \subseteq H!Nodes
    BY <1>1, <1>2, <1>4 DEF H!TypeOK
  <2> QED BY <1>1, <2>1 DEF H!TypeOK, H!Nodes, H!Threads, H!Statuses
<1>6. ListIsOrdered'
  BY <1>1, <1>2, <1>4 DEF ListIsOrdered, H!TypeOK
<1>7. Holdings' /\ Asked'
  BY <1>1, <1>2 DEF Holdings, H!Threads, Asked
<1> QED BY <1>3, <1>5, <1>6, <1>7

\* The connection of a worker is closed.
LEMMA ServerClose ==
  ASSUME ServerInv, NEW w \in A, H!Close(w), hpc[w] \in {"recv", "send"},
         UNCHANGED <<hhead, htail, hnext, fd_of, tail_lock, head_lock, allocated, freed, hnode, version, missed>>,
         status' \in [A -> H!Statuses \cup {Null}], asked' \in [A -> 0 .. 1 \cup {Null}],
         \A v \in A : v # w => status'[v] = status[v] /\ asked'[v] = asked[v]
  PROVE  ServerInv'
<1> USE DEF ServerInv
<1> DEFINE fd == connfd[w]
<1>1. /\ open' = open \ {fd} /\ connfd' = [connfd EXCEPT ![w] = Null] /\ hpc' = [hpc EXCEPT ![w] = "dequeue"]
  BY DEF H!Close, H!Goto
<1>2. /\ H!Threads = Greeters \cup A /\ Null \notin H!Threads /\ \A q \in Greeters : q \notin A
      /\ hpc \in [H!Threads -> {"accept", "enqueue", "signal", "dequeue", "wait", "asleep", "free", "recv", "send"}]
      /\ connfd \in [H!Threads -> B \cup {Null}] /\ Null \notin B /\ w \in H!Threads
  BY ServerTyped DEF H!TypeOK
<1>3. H!TypeOK'
  BY <1>1, <1>2 DEF H!TypeOK, H!Nodes, H!Threads, H!Statuses
<1>4. ListIsOrdered'
  BY <1>1, <1>2 DEF ListIsOrdered, H!TypeOK
<1>5. Holdings'
  BY <1>1, <1>2 DEF Holdings, H!Threads
<1>6. Owners'
  <2>0. fd \in B /\ Has(w, fd)
    BY <1>2 DEF Has, Holdings
  <2>1. \A q \in H!Threads : \A f \in B : Has(q, f)' <=> (Has(q, f) /\ q # w)
    BY <1>1, <1>2 DEF Has
  <2>2. \A m \in 1 .. Enqueues : (InQueue(m)' <=> InQueue(m)) /\ fd_of'[m] = fd_of[m]
    BY DEF InQueue
  <2>3. /\ \A m \in 1 .. Enqueues : InQueue(m) => fd_of[m] \in B /\ fd_of[m] # fd
        /\ \A q \in H!Threads : Has(q, fd) => q = w
    BY <2>0, <1>2 DEF Owners, H!TypeOK
  <2>4. H!Threads' = H!Threads /\ open \subseteq B
    BY DEF H!Threads, H!TypeOK
  <2>a. \A f \in B : Has(w, f) => f = fd
    BY DEF Has
  <2> HIDE DEF fd
  <2>5. /\ \A m \in 1 .. Enqueues : InQueue(m)' => fd_of'[m] \in open'
        /\ \A q \in H!Threads, f \in B : Has(q, f)' => f \in open'
    BY <2>1, <2>2, <2>3, <1>1 DEF Owners
  <2>6. /\ \A m, j \in 1 .. Enqueues : InQueue(m)' /\ InQueue(j)' /\ fd_of'[m] = fd_of'[j] => m = j
        /\ \A q, s \in H!Threads, f \in B : Has(q, f)' /\ Has(s, f)' => q = s
    BY <2>1, <2>2 DEF Owners
  <2>8. ASSUME NEW m \in 1 .. Enqueues, NEW q \in H!Threads, InQueue(m)' PROVE ~Has(q, fd_of[m])'
    <3>1. PICK f \in B : f = fd_of'[m] /\ f = fd_of[m]
      BY <2>2, <2>3, <2>8
    <3>2. ~Has(q, f)
      BY <3>1, <2>2, <2>8 DEF Owners
    <3>3. ~Has(q, f)'
      BY <3>2, <2>1
    <3> QED BY <3>1, <3>3 DEF Has
  <2>9. ASSUME NEW f \in open' PROVE \/ \E m \in 1 .. Enqueues : InQueue(m)' /\ fd_of'[m] = f
                                     \/ \E q \in H!Threads : Has(q, f)'
    <3>1. f \in open /\ f \in B /\ f # fd
      BY <1>1, <2>4
    <3>2. \A q \in H!Threads : Has(q, f) => q # w
      BY <3>1, <2>a
    <3> QED BY <3>1, <3>2, <2>1, <2>2 DEF Owners
  <2> QED BY <2>4, <2>5, <2>6, <2>8, <2>9 DEF Owners
<1>7. Asked'
  BY <1>1, <1>2 DEF Asked
<1>8. AllIdle'
  BY <1>1, <1>2 DEF AllIdle
<1>9. EnoughAwake'
  <2>1. Ready \subseteq Ready' /\ Coming' = Coming /\ Coming \in Nat
    BY <1>1, <1>2 DEF Ready, Coming
  <2>2. Cardinality(Ready) <= Cardinality(Ready')
    BY <2>1, ReadyFinite, CountUp
  <2>3. \A v \in A : hpc'[v] \in {"wait", "asleep"} => hpc[v] \in {"wait", "asleep"}
    BY <1>1, <1>2
  <2>4. hhead \in Nat /\ allocated \in Nat
    BY ServerTyped
  <2> QED BY <2>1, <2>2, <2>3, <2>4, ReadyFinite DEF EnoughAwake
<1> QED BY <1>3, <1>4, <1>5, <1>6, <1>7, <1>8, <1>9

LEMMA ServerRecv == ASSUME ServerInv, NEW w \in A, H!Recv(w) PROVE ServerInv'
<1> USE DEF ServerInv
<1>1. /\ UNCHANGED <<hhead, htail, hnext, fd_of, tail_lock, head_lock, allocated, freed, hnode, missed>>
      /\ hpc[w] = "recv"
  BY DEF H!Recv, H!queue
<1>2. CASE H!Close(w) /\ UNCHANGED <<version, status, asked>>
  <2>1. status' \in [A -> H!Statuses \cup {Null}] /\ asked' \in [A -> 0 .. 1 \cup {Null}]
    BY <1>2 DEF H!TypeOK
  <2> QED BY <1>1, <1>2, <2>1, ServerClose
<1>3. CASE ~(H!Close(w) /\ UNCHANGED <<version, status, asked>>)
  <2>1. /\ hpc' = [hpc EXCEPT ![w] = "send"] /\ UNCHANGED <<open, connfd>>
        /\ \E v \in 0 .. 1 : \E r \in H!parse_request(v, version[w]) \cup
              {[status |-> s, version |-> version[w]] : s \in {408, 500}} :
               /\ status' = [status EXCEPT ![w] = r.status]
               /\ version' = [version EXCEPT ![w] = r.version]
               /\ asked' = [asked EXCEPT ![w] = IF r.status < 408 THEN v ELSE Null]
    BY <1>3 DEF H!Recv, H!Goto, H!http
  <2>a. PICK v \in 0 .. 1 : \E r \in H!parse_request(v, version[w]) \cup
              {[status |-> s, version |-> version[w]] : s \in {408, 500}} :
               /\ status' = [status EXCEPT ![w] = r.status]
               /\ version' = [version EXCEPT ![w] = r.version]
               /\ asked' = [asked EXCEPT ![w] = IF r.status < 408 THEN v ELSE Null]
    BY <2>1
  <2>2. PICK r \in H!parse_request(v, version[w]) \cup
                {[status |-> s, version |-> version[w]] : s \in {408, 500}} :
               /\ status' = [status EXCEPT ![w] = r.status]
               /\ version' = [version EXCEPT ![w] = r.version]
               /\ asked' = [asked EXCEPT ![w] = IF r.status < 408 THEN v ELSE Null]
    BY <2>a
  <2>3. version \in [A -> 0 .. 1] /\ status \in [A -> H!Statuses \cup {Null}]
        /\ asked \in [A -> 0 .. 1 \cup {Null}]
    BY DEF H!TypeOK
  <2>4. r.status \in H!Statuses /\ r.version \in 0 .. 1 /\ (r.status = 200 => r.version = v)
    BY <2>3 DEF H!parse_request, H!Statuses
  <2>5. status' \in [A -> H!Statuses \cup {Null}] /\ version' \in [A -> 0 .. 1]
        /\ asked' \in [A -> 0 .. 1 \cup {Null}]
    BY <2>2, <2>3, <2>4
  <2>6. status'[w] = 200 => asked'[w] = version'[w]
    BY <2>2, <2>3, <2>4
  <2>7. /\ H!Threads = Greeters \cup A /\ Null \notin H!Threads /\ \A q \in Greeters : q \notin A
        /\ hpc \in [H!Threads -> {"accept", "enqueue", "signal", "dequeue", "wait", "asleep", "free", "recv", "send"}]
    BY ServerTyped DEF H!TypeOK
  <2>8. Owners' /\ AllIdle' /\ EnoughAwake'
    BY <1>1, <2>1, ServerKeeps
  <2>9. H!TypeOK'
    BY <1>1, <2>1, <2>5, <2>7 DEF H!TypeOK, H!Nodes, H!Threads
  <2>10. ListIsOrdered'
    BY <1>1, <2>1, <2>7 DEF ListIsOrdered, H!TypeOK
  <2>11. Holdings'
    BY <1>1, <2>1, <2>7 DEF Holdings, H!Threads
  <2>12. Asked'
    BY <1>1, <2>1, <2>2, <2>3, <2>6, <2>7 DEF Asked
  <2> QED BY <2>8, <2>9, <2>10, <2>11, <2>12
<1> QED BY <1>2, <1>3

LEMMA ServerSend == ASSUME ServerInv, NEW w \in A, H!Send(w) PROVE ServerInv'
<1> USE DEF ServerInv
<1>1. /\ UNCHANGED <<hhead, htail, hnext, fd_of, tail_lock, head_lock, allocated, freed, hnode, version, missed>>
      /\ hpc[w] = "send" /\ status' = [status EXCEPT ![w] = Null]
  BY DEF H!Send, H!queue
<1>2. version \in [A -> 0 .. 1] /\ status \in [A -> H!Statuses \cup {Null}]
      /\ asked \in [A -> 0 .. 1 \cup {Null}]
  BY DEF H!TypeOK
<1>3. status' \in [A -> H!Statuses \cup {Null}] /\ \A v \in A : v # w => status'[v] = status[v]
  BY <1>1, <1>2
<1>4. CASE version[w] = 0 \/ status[w] # 200
  <2>1. H!Close(w) /\ asked' = [asked EXCEPT ![w] = Null]
    BY <1>4 DEF H!Send
  <2>2. asked' \in [A -> 0 .. 1 \cup {Null}] /\ \A v \in A : v # w => asked'[v] = asked[v]
    BY <2>1, <1>2
  <2> QED BY <1>1, <1>3, <2>1, <2>2, ServerClose
<1>5. CASE ~(version[w] = 0 \/ status[w] # 200)
  <2>1. hpc' = [hpc EXCEPT ![w] = "enqueue"] /\ UNCHANGED <<open, connfd, asked>>
    BY <1>5 DEF H!Send, H!Goto
  <2>2. asked[w] = 1
    BY <1>1, <1>2, <1>5 DEF Asked
  <2>3. /\ H!Threads = Greeters \cup A /\ Null \notin H!Threads /\ \A q \in Greeters : q \notin A
        /\ hpc \in [H!Threads -> {"accept", "enqueue", "signal", "dequeue", "wait", "asleep", "free", "recv", "send"}]
    BY ServerTyped DEF H!TypeOK
  <2>4. H!TypeOK'
    BY <1>1, <1>3, <2>1, <2>3 DEF H!TypeOK, H!Nodes, H!Threads
  <2>5. ListIsOrdered'
    BY <1>1, <2>1, <2>3 DEF ListIsOrdered, H!TypeOK
  <2>6. Holdings'
    BY <1>1, <2>1, <2>3 DEF Holdings, H!Threads
  <2>7. Asked'
    BY <1>1, <1>2, <2>1, <2>2, <2>3 DEF Asked
  <2>8. Owners'
    <3>1. \A q \in H!Threads : \A f : Has(q, f)' <=> Has(q, f)
      BY <1>1, <2>1, <2>3 DEF Has
    <3>2. \A m \in 1 .. Enqueues : (InQueue(m)' <=> InQueue(m)) /\ fd_of'[m] = fd_of[m]
      BY <1>1 DEF InQueue
    <3>3. H!Threads' = H!Threads /\ open' = open
      BY <2>1 DEF H!Threads
    <3>4. \A m \in 1 .. Enqueues, q \in H!Threads : InQueue(m)' => ~Has(q, fd_of[m])'
      BY <3>2, <1>1, <2>1, <2>3 DEF Owners, Has
    <3> QED BY <3>1, <3>2, <3>3, <3>4 DEF Owners
  <2>9. AllIdle' /\ Ready' = Ready /\ Coming' = Coming
    BY <1>1, <2>1, <2>3 DEF AllIdle, Ready, Coming
  <2>10. \A v \in A : hpc'[v] \in {"wait", "asleep"} => hpc[v] \in {"wait", "asleep"}
    BY <2>1, <2>3
  <2>11. EnoughAwake'
    BY <1>1, <2>9, <2>10 DEF EnoughAwake
  <2> QED BY <2>4, <2>5, <2>6, <2>7, <2>8, <2>9, <2>11
<1> QED BY <1>4, <1>5

LEMMA ServerStep == ServerInv /\ [H!Next]_H!vars => ServerInv'
<1> SUFFICES ASSUME ServerInv, [H!Next]_H!vars PROVE ServerInv'
  OBVIOUS
<1>1. CASE UNCHANGED H!vars
  BY <1>1 DEF H!vars, H!queue, H!http, ServerInv, H!TypeOK, H!Nodes, H!Threads, H!Statuses, ListIsOrdered,
              Holdings, Owners, Has, InQueue, Asked, AllIdle, EnoughAwake, Ready, Coming
<1>2. ASSUME NEW w \in A, H!Dequeue(w) PROVE ServerInv'
  BY <1>2, ServerEmpty, ServerTake
<1> QED BY <1>1, <1>2, ServerAccept, ServerLink, ServerSignal, ServerCondWait, ServerSpurious, ServerFreeOld,
           ServerRecv, ServerSend DEF H!Next

-----------------------------------------------------------------------------
LEMMA ServerCardinality == \A S : H!Cardinality(S) = Cardinality(S)
  BY DEF H!Cardinality, Cardinality

LEMMA CountOne ==
  ASSUME NEW X, NEW Y, NEW e, (X = {e} /\ Y = {}) \/ (X = {} /\ Y = {e})
  PROVE  Cardinality(X) + Cardinality(Y) = 1
<1>1. Cardinality({e}) = 1
  BY FS_Singleton
<1>2. Cardinality({}) = 0
  BY FS_EmptySet
<1> QED BY <1>1, <1>2

\* What the invariant says about the connections.
LEMMA ServerGives ==
  ASSUME ServerInv
  PROVE  H!OneOwner /\ H!QueueIsSafe /\ H!KeptAliveIfAsked /\ H!NoConnectionStalls /\ H!LostOnlyBeforeWait
<1> USE DEF ServerInv
<1>1. /\ H!Threads = Greeters \cup A /\ Null \notin H!Threads
      /\ hpc \in [H!Threads -> {"accept", "enqueue", "signal", "dequeue", "wait", "asleep", "free", "recv", "send"}]
      /\ hhead \in Nat /\ allocated \in Nat /\ hhead <= allocated /\ allocated <= Enqueues /\ Enqueues \in Nat
  BY ServerTyped DEF H!TypeOK, H!Nodes, ListIsOrdered
<1>2. H!Reachable = hhead .. allocated
  BY ReachableIs
<1>3. /\ H!Queued \subseteq 1 .. Enqueues /\ \A m \in 1 .. Enqueues : m \in H!Queued <=> InQueue(m)
      /\ H!Queued # {} <=> hhead < allocated
  <2>1. H!Queued = (hhead + 1) .. allocated
    BY <1>1, <1>2 DEF H!Queued
  <2> QED BY <2>1, <1>1 DEF InQueue
<1>4. \A q \in H!Threads : q \in H!Holding <=> Has(q, connfd[q])
  BY <1>1 DEF H!Holding, Has, Holdings
<1>a. H!Holding \subseteq H!Threads
  BY DEF H!Holding
<1>b. \A q \in H!Holding : connfd[q] \in B
  BY <1>a DEF H!TypeOK, H!Holding
<1>5. H!OneOwner
  <2>1. ASSUME NEW fd \in open
        PROVE  H!Cardinality({m \in H!Queued : fd_of[m] = fd})
               + H!Cardinality({q \in H!Holding : connfd[q] = fd}) = 1
    <3> DEFINE X == {m \in H!Queued : fd_of[m] = fd}
               Y == {q \in H!Holding : connfd[q] = fd}
    <3>0. fd \in B
      BY DEF H!TypeOK
    <3>1. CASE \E m \in 1 .. Enqueues : InQueue(m) /\ fd_of[m] = fd
      <4>1. PICK m \in 1 .. Enqueues : InQueue(m) /\ fd_of[m] = fd
        BY <3>1
      <4>2. X = {m}
        BY <4>1, <1>3 DEF Owners
      <4>3. Y = {}
        BY <4>1, <1>4, <1>a DEF Owners
      <4> QED BY <4>2, <4>3, CountOne, ServerCardinality
    <3>2. CASE \E q \in H!Threads : Has(q, fd)
      <4>1. PICK q \in H!Threads : Has(q, fd)
        BY <3>2
      <4>2. Y = {q}
        <5>1. q \in H!Holding /\ connfd[q] = fd
          BY <4>1, <1>4 DEF Has
        <5>2. \A s \in Y : s = q
          BY <4>1, <1>4, <1>a, <3>0 DEF Owners
        <5> QED BY <5>1, <5>2
      <4>3. X = {}
        <5> SUFFICES ASSUME NEW m \in X PROVE FALSE
          OBVIOUS
        <5>1. m \in 1 .. Enqueues /\ InQueue(m) /\ fd_of[m] = fd
          BY <1>3
        <5>2. ~Has(q, fd_of[m])
          BY <5>1 DEF Owners
        <5> QED BY <5>1, <5>2, <4>1
      <4> QED BY <4>2, <4>3, CountOne, ServerCardinality
    <3> QED BY <3>1, <3>2 DEF Owners
  <2>2. \A m \in H!Queued : fd_of[m] \in open
    BY <1>3 DEF Owners
  <2>3. \A q \in H!Holding : connfd[q] \in open
    BY <1>4, <1>a, <1>b DEF Owners
  <2> QED BY <2>1, <2>2, <2>3, Zenon DEF H!OneOwner
<1>6. H!QueueIsSafe
  <2>1. H!Reachable \cap freed = {}
    BY <1>1, <1>2 DEF ListIsOrdered, H!TypeOK, H!Nodes
  <2>2. tail_lock = Null => htail \notin freed /\ hnext[htail] = Null
    BY <1>1 DEF ListIsOrdered, H!TypeOK, H!Nodes
  <2>3. ASSUME NEW v \in A, NEW w \in A, v # w, hnode[v] # Null PROVE hnode[v] # hnode[w]
    <3>1. v \in H!Threads /\ w \in H!Threads
      BY <1>1
    <3>2. hpc[v] \in {"free", "signal"}
      BY <2>3, <3>1 DEF Holdings
    <3> SUFFICES ASSUME hnode[v] = hnode[w] PROVE FALSE
      OBVIOUS
    <3>3. hpc[w] \in {"free", "signal"}
      BY <2>3, <3>1 DEF Holdings
    <3>4. ~(hpc[v] = "free" /\ hpc[w] = "free")
      BY <2>3 DEF Holdings
    <3>5. ~(hpc[v] = "signal" /\ hpc[w] = "signal")
      BY <2>3, <3>1 DEF Holdings
    <3>6. \A q \in H!Threads : hpc[q] = "signal" => hnode[q] = allocated
      BY <1>1 DEF Holdings, ListIsOrdered
    <3>7. \A q \in H!Threads : hpc[q] = "free" => hnode[q] < hhead /\ hnode[q] \in Nat
      BY <1>1 DEF Holdings, H!TypeOK, H!Nodes
    <3> QED BY <3>1, <3>2, <3>3, <3>4, <3>5, <3>6, <3>7, <1>1
  <2> QED BY <2>1, <2>2, <2>3 DEF H!QueueIsSafe
<1>7. H!KeptAliveIfAsked
  BY DEF H!KeptAliveIfAsked, Asked
<1>8. ASSUME H!Unattended
      PROVE  hhead < allocated /\ tail_lock = Null /\ Ready = {}
  <2>1. hhead < allocated
    BY <1>3, <1>8 DEF H!Unattended
  <2>2. tail_lock = Null
    BY <1>1, <1>8 DEF H!Unattended, ListIsOrdered, H!TypeOK
  <2>3. Ready = {}
    BY <1>1, <1>8 DEF H!Unattended, Ready
  <2> QED BY <2>1, <2>2, <2>3
<1>9. H!NoConnectionStalls
  <2> SUFFICES ASSUME H!Unattended, \A w \in A : hpc[w] = "asleep" PROVE FALSE
    BY DEF H!NoConnectionStalls
  <2> QED BY <1>1, <1>8 DEF AllIdle
<1>10. H!LostOnlyBeforeWait
  <2> SUFFICES ASSUME H!Unattended, NEW w \in A, hpc[w] = "asleep", ~missed PROVE FALSE
    BY DEF H!LostOnlyBeforeWait, H!TypeOK
  <2>1. Cardinality(Ready) = 0 /\ Coming = 0
    BY <1>8, FS_EmptySet DEF Coming
  <2>2. allocated - hhead <= Cardinality(Ready) + Coming
    BY DEF EnoughAwake
  <2> QED BY <2>1, <2>2, <1>8, <1>1
<1> QED BY <1>5, <1>6, <1>7, <1>9, <1>10

-----------------------------------------------------------------------------
(* lf-timer: what LFTimer_proofs proves of any timers *)

PT == INSTANCE LFTimer_proofs WITH
    Threads <- A, Calls <- TimerCalls, pc <- l_pc, idx <- l_idx, old <- l_old, top <- l_top,
    calls <- l_calls

LEMMA TimersAssumed == PT!TimerAssumption
  BY TimerAssumption DEF PT!TimerAssumption

LEMMA TimersInit == T!Init => PT!TimerInv
  <1>1. T!Init => PT!Init
    BY DEF T!Init, PT!Init, T!INVALID, PT!INVALID, T!Timers, PT!Timers, T!Sentinels, PT!Sentinels,
       T!Nil, PT!Nil
  <1> QED BY <1>1, TimersAssumed, PT!TimerInitially

LEMMA TimersStep == PT!TimerInv /\ [T!Next]_timer => PT!TimerInv'
  <1> USE DEF T!INVALID, PT!INVALID, T!Timers, PT!Timers, T!Nil, PT!Nil, T!cache, PT!cache, T!timers,
          PT!timers, T!call, PT!call, T!scan, PT!scan, T!history, PT!history, T!Goto, PT!Goto,
          T!Least, PT!Least, T!Begin, PT!Begin, T!Clear, PT!Clear
  <1>1. ASSUME NEW t \in A PROVE /\ \A tck : T!TickSet(t, tck) => PT!TickSet(t, tck)
                                 /\ \A i, e, active : T!UpdateExpiration(t, i, e, active)
                                                        => PT!UpdateExpiration(t, i, e, active)
                                 /\ \A i : T!Free(t, i) => PT!Free(t, i)
    BY DEF T!TickSet, PT!TickSet, T!UpdateExpiration, PT!UpdateExpiration, T!Free, PT!Free
  <1>2. ASSUME NEW t \in A
        PROVE  /\ T!UpdateEarliest(t) => PT!UpdateEarliest(t)
               /\ T!LoadNow(t) => PT!LoadNow(t)
               /\ T!LoadEarliest(t) => PT!LoadEarliest(t)
               /\ T!ResetEarliest(t) => PT!ResetEarliest(t)
               /\ T!LoadTop(t) => PT!LoadTop(t)
    BY DEF T!UpdateEarliest, PT!UpdateEarliest, T!LoadNow, PT!LoadNow, T!LoadEarliest,
       PT!LoadEarliest, T!ResetEarliest, PT!ResetEarliest, T!LoadTop, PT!LoadTop
  <1>3. ASSUME NEW t \in A
        PROVE  /\ T!ScanLoad(t) => PT!ScanLoad(t)
               /\ T!ScanOne(t) => PT!ScanOne(t)
               /\ T!Callback(t) => PT!Callback(t)
               /\ T!Finish(t) => PT!Finish(t)
    BY DEF T!ScanLoad, PT!ScanLoad, T!ScanOne, PT!ScanOne, T!Callback, PT!Callback, T!Finish,
       PT!Finish, T!Ahead, PT!Ahead, T!Unfilled, PT!Unfilled
  <1>4. ASSUME NEW t \in A
        PROVE  /\ T!AllocCount(t) => PT!AllocCount(t)
               /\ T!AllocHead(t) => PT!AllocHead(t)
               /\ T!AllocArg(t) => PT!AllocArg(t)
               /\ T!AllocPop(t) => PT!AllocPop(t)
               /\ T!AllocFill(t) => PT!AllocFill(t)
               /\ T!AllocWatermark(t) => PT!AllocWatermark(t)
    BY DEF T!AllocCount, PT!AllocCount, T!AllocHead, PT!AllocHead, T!AllocArg, PT!AllocArg,
       T!AllocPop, PT!AllocPop, T!AllocFill, PT!AllocFill, T!AllocWatermark, PT!AllocWatermark
  <1>5. ASSUME NEW t \in A
        PROVE  /\ T!PushHead(t) => PT!PushHead(t)
               /\ T!PushCount(t) => PT!PushCount(t)
               /\ T!Push(t) => PT!Push(t)
    BY DEF T!PushHead, PT!PushHead, T!PushCount, PT!PushCount, T!Push, PT!Push
  <1>6. [T!Next]_timer => [PT!Next]_PT!vars
    <2>1. T!Next => PT!Next
      BY <1>1, <1>2, <1>3, <1>4, <1>5 DEF T!Next, PT!Next
    <2> QED BY <2>1 DEF timer, PT!vars
  <1> QED BY <1>6, TimersAssumed, PT!TimerMoves

LEMMA TimersGive == PT!TimerInv => T!NoTimerForgotten /\ T!TimersAreAccounted
  <1>1. PT!TimerInv => PT!NoTimerForgotten /\ PT!TimersAreAccounted
    BY TimersAssumed, PT!TimerGives
  <1>2. PT!NoTimerForgotten => T!NoTimerForgotten
    BY DEF PT!NoTimerForgotten, T!NoTimerForgotten, PT!INVALID, T!INVALID
  <1>3. PT!FreeTimers = T!FreeTimers /\ PT!Timers = T!Timers /\ \A i : PT!Hands(i) = T!Hands(i)
    BY DEF PT!FreeTimers, T!FreeTimers, PT!Follows, T!Follows, PT!Timers, T!Timers, PT!Nil, T!Nil,
       PT!Hands, T!Hands
  <1>4. PT!TimersAreAccounted => T!TimersAreAccounted
    BY <1>3 DEF PT!TimersAreAccounted, T!TimersAreAccounted
  <1> QED BY <1>1, <1>2, <1>4

-----------------------------------------------------------------------------
(* The composed specification *)

LEMMA BuffersAlways ==
  BuffersSpec => []/\ program = "ringbuffer" => RingInv
                   /\ program = "tinync" => RelayInv
                   /\ program = "httpd" => ServerInv
                   /\ program = "lf_timer" => PT!TimerInv
<1> DEFINE I == /\ program = "ringbuffer" => RingInv
                /\ program = "tinync" => RelayInv
                /\ program = "httpd" => ServerInv
                /\ program = "lf_timer" => PT!TimerInv
<1>1. BuffersInit => I
  <2> SUFFICES ASSUME BuffersInit PROVE I
    OBVIOUS
  <2>1. R!Init /\ N!Init /\ H!Init /\ T!Init
    BY DEF BuffersInit
  <2> QED BY <2>1, RingInit, RelayInit, ServerInit, TimersInit
<1>2. ASSUME I, [BuffersNext]_all PROVE I'
  <2>1. /\ program' = program
        /\ program = "ringbuffer" => [R!Next]_dpdk
        /\ program = "tinync" => [N!Next]_relay
        /\ program = "httpd" => [H!Next]_httpd
        /\ program = "lf_timer" => [T!Next]_timer
    BY <1>2 DEF BuffersNext, all
  <2>2. CASE program = "ringbuffer"
    <3>1. [R!Next]_R!vars
      BY <2>1, <2>2 DEF dpdk, R!vars
    <3> QED BY <1>2, <2>1, <2>2, <3>1, RingStep
  <2>3. CASE program = "tinync"
    <3>1. [N!Next]_N!vars
      BY <2>1, <2>3 DEF relay, N!vars
    <3> QED BY <1>2, <2>1, <2>3, <3>1, RelayStep
  <2>4. CASE program = "httpd"
    <3>1. [H!Next]_H!vars
      BY <2>1, <2>4 DEF httpd, H!vars, H!queue, H!http
    <3> QED BY <1>2, <2>1, <2>4, <3>1, ServerStep
  <2>5. CASE program = "lf_timer"
    BY <1>2, <2>1, <2>5, TimersStep
  <2> QED BY <2>1, <2>2, <2>3, <2>4, <2>5
<1> QED BY <1>1, <1>2, PTL DEF BuffersSpec

\* BatchesAreExact: for any size of the ring, any modulus of its indices that the size
\* divides and any batches, ringbuf_dequeue returns what was enqueued next and no slot is
\* overwritten before it is read; and for any size of the queue of tinync, any input and
\* any number of errors, bytes are sent in the order in which they were read.
THEOREM BytesAndBatchesAreExact == BuffersSpec => []BatchesAreExact
<1>1. /\ program = "ringbuffer" => RingInv
      /\ program = "tinync" => RelayInv
      /\ program = "httpd" => ServerInv
      /\ program = "lf_timer" => PT!TimerInv
      => BatchesAreExact
  BY RingGives, RelayGives DEF BatchesAreExact
<1> QED BY <1>1, BuffersAlways, PTL

\* OneOwnerPerConnection: for any number of greeters, workers, descriptors and calls of
\* enqueue, an open connection is in the queue once or with one thread, and neither head
\* nor tail leads to a node that dequeue has freed.
THEOREM ConnectionsHaveOneOwner == BuffersSpec => []OneOwnerPerConnection
<1>1. /\ program = "ringbuffer" => RingInv
      /\ program = "tinync" => RelayInv
      /\ program = "httpd" => ServerInv
      /\ program = "lf_timer" => PT!TimerInv
      => OneOwnerPerConnection
  BY ServerGives DEF OneOwnerPerConnection
<1> QED BY <1>1, BuffersAlways, PTL

\* ConnectionsAreServed: although enqueue signals without head_lock, with two workers or
\* more they never all sleep while a connection is queued, and one is left to a sleeper
\* only after a signal that came between the test of dequeue and its wait.
THEOREM QueuedAreServed == BuffersSpec => []ConnectionsAreServed
<1>1. /\ program = "ringbuffer" => RingInv
      /\ program = "tinync" => RelayInv
      /\ program = "httpd" => ServerInv
      /\ program = "lf_timer" => PT!TimerInv
      => ConnectionsAreServed
  BY ServerGives DEF ConnectionsAreServed
<1> QED BY <1>1, BuffersAlways, PTL

\* TimersAreKept: for any number of threads, timers, ticks and calls, a timer that is set is
\* not later than the cached earliest, or a thread is on its way to see to that; the free
\* list never hands out a timer twice, although exchanges compare words read before; and who
\* expires a timer finds its callback, unless the timer was freed or taken meanwhile.
THEOREM TimersAreNotForgotten == BuffersSpec => []TimersAreKept
<1>1. /\ program = "ringbuffer" => RingInv
      /\ program = "tinync" => RelayInv
      /\ program = "httpd" => ServerInv
      /\ program = "lf_timer" => PT!TimerInv
      => TimersAreKept
  BY TimersGive DEF TimersAreKept
<1> QED BY <1>1, BuffersAlways, PTL

-----------------------------------------------------------------------------
(* lfring: what LFRing_proofs proves of any ring *)

PL22 == INSTANCE LFRing_proofs WITH
    Producers <- A, Consumers <- B, Size <- 1, Batch <- 1, Calls <- 1, MaxDequeues <- 1,
    SP <- FALSE, SC <- FALSE, pc <- lpc, old <- lold

LEMMA Lfring22Assumed == PL22!LfringAssumption
  <1>1. PL22!IsFiniteSet(A)
    BY HttpdAssumption DEF PL22!IsFiniteSet, IsFiniteSet
  <1>2. Null \notin PL22!Elems
    BY LfringAssumption DEF PL22!Elems
  <1> QED BY <1>1, <1>2, LfringAssumption DEF PL22!LfringAssumption

LEMMA Lfring22Same ==
  /\ \A S : L22!Cardinality(S) = PL22!Cardinality(S)
  /\ \A S : L22!Min(S) = PL22!Min(S) /\ L22!Max(S) = PL22!Max(S)
  /\ L22!Elems = PL22!Elems /\ L22!Slots = PL22!Slots
  /\ L22!Threads = PL22!Threads /\ L22!Indices = PL22!Indices
  <1>1. \A S : L22!Cardinality(S) = PL22!Cardinality(S)
    BY DEF L22!Cardinality, PL22!Cardinality, L22!IsFiniteSet, PL22!IsFiniteSet
  <1> QED BY <1>1 DEF L22!Min, PL22!Min, L22!Max, PL22!Max, L22!Elems, PL22!Elems, L22!Slots,
                    PL22!Slots, L22!Threads, PL22!Threads, L22!Indices, PL22!Indices

LEMMA Lfring22Init == L22!Init => PL22!LfringInv
  <1>1. L22!Init => PL22!Init
    BY Lfring22Same DEF L22!Init, PL22!Init
  <1> QED BY <1>1, Lfring22Assumed, PL22!LfringInit

LEMMA Lfring22Step == PL22!LfringInv /\ [L22!Next]_lfring => PL22!LfringInv'
  <1>0. (\A c : L22!Actual(c) = PL22!Actual(c)) /\ L22!Settled = PL22!Settled
    BY Lfring22Same DEF L22!Actual, PL22!Actual, L22!Settled, PL22!Settled
  <1> USE Lfring22Same, <1>0 DEF L22!Slot, PL22!Slot, L22!Elem, PL22!Elem, L22!Goto, PL22!Goto,
            L22!CondLoad, PL22!CondLoad, L22!CondCas, PL22!CondCas, L22!prodvars, PL22!prodvars,
            L22!consvars, PL22!consvars, L22!history, PL22!history
  <1>1. ASSUME NEW p_ \in A
        PROVE  /\ L22!EnqCall(p_) => PL22!EnqCall(p_)
               /\ L22!SpRoom(p_) => PL22!SpRoom(p_)
               /\ L22!SpWrite(p_) => PL22!SpWrite(p_)
               /\ L22!SpPublish(p_) => PL22!SpPublish(p_)
               /\ L22!Room(p_) => PL22!Room(p_)
    BY DEF L22!EnqCall, PL22!EnqCall, L22!SpRoom, PL22!SpRoom, L22!SpWrite, PL22!SpWrite,
       L22!SpPublish, PL22!SpPublish, L22!Room, PL22!Room
  <1>2. ASSUME NEW p_ \in A
        PROVE  /\ L22!LoadPtr(p_) => PL22!LoadPtr(p_)
               /\ L22!LoadIdx(p_) => PL22!LoadIdx(p_)
               /\ L22!SkipSlot(p_) => PL22!SkipSlot(p_)
               /\ L22!SwapSlot(p_) => PL22!SwapSlot(p_)
               /\ L22!UpdateTail(p_) => PL22!UpdateTail(p_)
    BY DEF L22!LoadPtr, PL22!LoadPtr, L22!LoadIdx, PL22!LoadIdx, L22!SkipSlot, PL22!SkipSlot,
       L22!SwapSlot, PL22!SwapSlot, L22!UpdateTail, PL22!UpdateTail
  <1>3. ASSUME NEW c \in B
        PROVE  /\ L22!DeqCall(c) => PL22!DeqCall(c)
               /\ L22!LoadTail(c) => PL22!LoadTail(c)
               /\ L22!Sized(c) => PL22!Sized(c)
               /\ L22!SpTail(c) => PL22!SpTail(c)
               /\ L22!ScanTail(c) => PL22!ScanTail(c)
    BY DEF L22!DeqCall, PL22!DeqCall, L22!LoadTail, PL22!LoadTail, L22!Sized, PL22!Sized, L22!SpTail,
       PL22!SpTail, L22!ScanTail, PL22!ScanTail
  <1>4. ASSUME NEW c \in B
        PROVE  /\ L22!FoundTail(c) => PL22!FoundTail(c)
               /\ L22!SizedAgain(c) => PL22!SizedAgain(c)
               /\ L22!ReturnEmpty(c) => PL22!ReturnEmpty(c)
               /\ L22!CopyElem(c) => PL22!CopyElem(c)
    BY DEF L22!FoundTail, PL22!FoundTail, L22!SizedAgain, PL22!SizedAgain, L22!ReturnEmpty,
       PL22!ReturnEmpty, L22!CopyElem, PL22!CopyElem
  <1>5. ASSUME NEW c \in B PROVE L22!MoveHead(c) => PL22!MoveHead(c)
    BY DEF L22!MoveHead, PL22!MoveHead
  <1>6. [L22!Next]_lfring => [PL22!Next]_PL22!vars
    <2>1. L22!Next => PL22!Next
      BY <1>1, <1>2, <1>3, <1>4, <1>5 DEF L22!Next, PL22!Next, L22!Enqueue, PL22!Enqueue, L22!Dequeue,
                                      PL22!Dequeue
    <2> QED BY <2>1 DEF lfring, PL22!vars
  <1> QED BY <1>6, Lfring22Assumed, PL22!LfringStep

LEMMA Lfring22Gives ==
  PL22!LfringInv => /\ L22!PromisedSlotsAreFull /\ L22!DequeuedInOrder
                   /\ L22!SlotIsOneLapBack /\ L22!EmptyIsReal
  <1>1. PL22!LfringInv => /\ PL22!PromisedSlotsAreFull /\ PL22!DequeuedInOrder
                         /\ PL22!SlotIsOneLapBack /\ PL22!EmptyIsReal
    BY Lfring22Assumed, PL22!LfringGives
  <1> USE Lfring22Same DEF L22!Slot, PL22!Slot
  <1>2. PL22!PromisedSlotsAreFull => L22!PromisedSlotsAreFull
    BY DEF L22!PromisedSlotsAreFull, PL22!PromisedSlotsAreFull
  <1>3. PL22!DequeuedInOrder => L22!DequeuedInOrder
    BY DEF L22!DequeuedInOrder, PL22!DequeuedInOrder
  <1>4. PL22!SlotIsOneLapBack => L22!SlotIsOneLapBack
    BY DEF L22!SlotIsOneLapBack, PL22!SlotIsOneLapBack
  <1>5. PL22!EmptyIsReal => L22!EmptyIsReal
    BY DEF L22!EmptyIsReal, PL22!EmptyIsReal
  <1> QED BY <1>1, <1>2, <1>3, <1>4, <1>5

PL21 == INSTANCE LFRing_proofs WITH
    Producers <- A, Consumers <- {b}, Size <- 2, Batch <- 2, Calls <- 1, MaxDequeues <- 2,
    SP <- FALSE, SC <- FALSE, pc <- lpc, old <- lold

LEMMA Lfring21Assumed == PL21!LfringAssumption
  <1>1. PL21!IsFiniteSet(A)
    BY HttpdAssumption DEF PL21!IsFiniteSet, IsFiniteSet
  <1>2. Null \notin PL21!Elems
    BY LfringAssumption DEF PL21!Elems
  <1> QED BY <1>1, <1>2, LfringAssumption DEF PL21!LfringAssumption

LEMMA Lfring21Same ==
  /\ \A S : L21!Cardinality(S) = PL21!Cardinality(S)
  /\ \A S : L21!Min(S) = PL21!Min(S) /\ L21!Max(S) = PL21!Max(S)
  /\ L21!Elems = PL21!Elems /\ L21!Slots = PL21!Slots
  /\ L21!Threads = PL21!Threads /\ L21!Indices = PL21!Indices
  <1>1. \A S : L21!Cardinality(S) = PL21!Cardinality(S)
    BY DEF L21!Cardinality, PL21!Cardinality, L21!IsFiniteSet, PL21!IsFiniteSet
  <1> QED BY <1>1 DEF L21!Min, PL21!Min, L21!Max, PL21!Max, L21!Elems, PL21!Elems, L21!Slots,
                    PL21!Slots, L21!Threads, PL21!Threads, L21!Indices, PL21!Indices

LEMMA Lfring21Init == L21!Init => PL21!LfringInv
  <1>1. L21!Init => PL21!Init
    BY Lfring21Same DEF L21!Init, PL21!Init
  <1> QED BY <1>1, Lfring21Assumed, PL21!LfringInit

LEMMA Lfring21Step == PL21!LfringInv /\ [L21!Next]_lfring => PL21!LfringInv'
  <1>0. (\A c : L21!Actual(c) = PL21!Actual(c)) /\ L21!Settled = PL21!Settled
    BY Lfring21Same DEF L21!Actual, PL21!Actual, L21!Settled, PL21!Settled
  <1> USE Lfring21Same, <1>0 DEF L21!Slot, PL21!Slot, L21!Elem, PL21!Elem, L21!Goto, PL21!Goto,
            L21!CondLoad, PL21!CondLoad, L21!CondCas, PL21!CondCas, L21!prodvars, PL21!prodvars,
            L21!consvars, PL21!consvars, L21!history, PL21!history
  <1>1. ASSUME NEW p_ \in A
        PROVE  /\ L21!EnqCall(p_) => PL21!EnqCall(p_)
               /\ L21!SpRoom(p_) => PL21!SpRoom(p_)
               /\ L21!SpWrite(p_) => PL21!SpWrite(p_)
               /\ L21!SpPublish(p_) => PL21!SpPublish(p_)
               /\ L21!Room(p_) => PL21!Room(p_)
    BY DEF L21!EnqCall, PL21!EnqCall, L21!SpRoom, PL21!SpRoom, L21!SpWrite, PL21!SpWrite,
       L21!SpPublish, PL21!SpPublish, L21!Room, PL21!Room
  <1>2. ASSUME NEW p_ \in A
        PROVE  /\ L21!LoadPtr(p_) => PL21!LoadPtr(p_)
               /\ L21!LoadIdx(p_) => PL21!LoadIdx(p_)
               /\ L21!SkipSlot(p_) => PL21!SkipSlot(p_)
               /\ L21!SwapSlot(p_) => PL21!SwapSlot(p_)
               /\ L21!UpdateTail(p_) => PL21!UpdateTail(p_)
    BY DEF L21!LoadPtr, PL21!LoadPtr, L21!LoadIdx, PL21!LoadIdx, L21!SkipSlot, PL21!SkipSlot,
       L21!SwapSlot, PL21!SwapSlot, L21!UpdateTail, PL21!UpdateTail
  <1>3. ASSUME NEW c \in {b}
        PROVE  /\ L21!DeqCall(c) => PL21!DeqCall(c)
               /\ L21!LoadTail(c) => PL21!LoadTail(c)
               /\ L21!Sized(c) => PL21!Sized(c)
               /\ L21!SpTail(c) => PL21!SpTail(c)
               /\ L21!ScanTail(c) => PL21!ScanTail(c)
    BY DEF L21!DeqCall, PL21!DeqCall, L21!LoadTail, PL21!LoadTail, L21!Sized, PL21!Sized, L21!SpTail,
       PL21!SpTail, L21!ScanTail, PL21!ScanTail
  <1>4. ASSUME NEW c \in {b}
        PROVE  /\ L21!FoundTail(c) => PL21!FoundTail(c)
               /\ L21!SizedAgain(c) => PL21!SizedAgain(c)
               /\ L21!ReturnEmpty(c) => PL21!ReturnEmpty(c)
               /\ L21!CopyElem(c) => PL21!CopyElem(c)
    BY DEF L21!FoundTail, PL21!FoundTail, L21!SizedAgain, PL21!SizedAgain, L21!ReturnEmpty,
       PL21!ReturnEmpty, L21!CopyElem, PL21!CopyElem
  <1>5. ASSUME NEW c \in {b} PROVE L21!MoveHead(c) => PL21!MoveHead(c)
    BY DEF L21!MoveHead, PL21!MoveHead
  <1>6. [L21!Next]_lfring => [PL21!Next]_PL21!vars
    <2>1. L21!Next => PL21!Next
      BY <1>1, <1>2, <1>3, <1>4, <1>5 DEF L21!Next, PL21!Next, L21!Enqueue, PL21!Enqueue, L21!Dequeue,
                                      PL21!Dequeue
    <2> QED BY <2>1 DEF lfring, PL21!vars
  <1> QED BY <1>6, Lfring21Assumed, PL21!LfringStep

LEMMA Lfring21Gives ==
  PL21!LfringInv => /\ L21!PromisedSlotsAreFull /\ L21!DequeuedInOrder
                   /\ L21!SlotIsOneLapBack /\ L21!EmptyIsReal
  <1>1. PL21!LfringInv => /\ PL21!PromisedSlotsAreFull /\ PL21!DequeuedInOrder
                         /\ PL21!SlotIsOneLapBack /\ PL21!EmptyIsReal
    BY Lfring21Assumed, PL21!LfringGives
  <1> USE Lfring21Same DEF L21!Slot, PL21!Slot
  <1>2. PL21!PromisedSlotsAreFull => L21!PromisedSlotsAreFull
    BY DEF L21!PromisedSlotsAreFull, PL21!PromisedSlotsAreFull
  <1>3. PL21!DequeuedInOrder => L21!DequeuedInOrder
    BY DEF L21!DequeuedInOrder, PL21!DequeuedInOrder
  <1>4. PL21!SlotIsOneLapBack => L21!SlotIsOneLapBack
    BY DEF L21!SlotIsOneLapBack, PL21!SlotIsOneLapBack
  <1>5. PL21!EmptyIsReal => L21!EmptyIsReal
    BY DEF L21!EmptyIsReal, PL21!EmptyIsReal
  <1> QED BY <1>1, <1>2, <1>3, <1>4, <1>5

PL12 == INSTANCE LFRing_proofs WITH
    Producers <- {a}, Consumers <- B, Size <- 2, Batch <- 2, Calls <- 2, MaxDequeues <- 1,
    SP <- FALSE, SC <- FALSE, pc <- lpc, old <- lold

LEMMA Lfring12Assumed == PL12!LfringAssumption
  <1>1. PL12!IsFiniteSet({a})
    <2>1. IsFiniteSet({a})
      BY FS_Singleton
    <2> QED BY <2>1 DEF PL12!IsFiniteSet, IsFiniteSet
  <1>2. Null \notin PL12!Elems
    BY LfringAssumption DEF PL12!Elems
  <1> QED BY <1>1, <1>2, LfringAssumption DEF PL12!LfringAssumption

LEMMA Lfring12Same ==
  /\ \A S : L12!Cardinality(S) = PL12!Cardinality(S)
  /\ \A S : L12!Min(S) = PL12!Min(S) /\ L12!Max(S) = PL12!Max(S)
  /\ L12!Elems = PL12!Elems /\ L12!Slots = PL12!Slots
  /\ L12!Threads = PL12!Threads /\ L12!Indices = PL12!Indices
  <1>1. \A S : L12!Cardinality(S) = PL12!Cardinality(S)
    BY DEF L12!Cardinality, PL12!Cardinality, L12!IsFiniteSet, PL12!IsFiniteSet
  <1> QED BY <1>1 DEF L12!Min, PL12!Min, L12!Max, PL12!Max, L12!Elems, PL12!Elems, L12!Slots,
                    PL12!Slots, L12!Threads, PL12!Threads, L12!Indices, PL12!Indices

LEMMA Lfring12Init == L12!Init => PL12!LfringInv
  <1>1. L12!Init => PL12!Init
    BY Lfring12Same DEF L12!Init, PL12!Init
  <1> QED BY <1>1, Lfring12Assumed, PL12!LfringInit

LEMMA Lfring12Step == PL12!LfringInv /\ [L12!Next]_lfring => PL12!LfringInv'
  <1>0. (\A c : L12!Actual(c) = PL12!Actual(c)) /\ L12!Settled = PL12!Settled
    BY Lfring12Same DEF L12!Actual, PL12!Actual, L12!Settled, PL12!Settled
  <1> USE Lfring12Same, <1>0 DEF L12!Slot, PL12!Slot, L12!Elem, PL12!Elem, L12!Goto, PL12!Goto,
            L12!CondLoad, PL12!CondLoad, L12!CondCas, PL12!CondCas, L12!prodvars, PL12!prodvars,
            L12!consvars, PL12!consvars, L12!history, PL12!history
  <1>1. ASSUME NEW p_ \in {a}
        PROVE  /\ L12!EnqCall(p_) => PL12!EnqCall(p_)
               /\ L12!SpRoom(p_) => PL12!SpRoom(p_)
               /\ L12!SpWrite(p_) => PL12!SpWrite(p_)
               /\ L12!SpPublish(p_) => PL12!SpPublish(p_)
               /\ L12!Room(p_) => PL12!Room(p_)
    BY DEF L12!EnqCall, PL12!EnqCall, L12!SpRoom, PL12!SpRoom, L12!SpWrite, PL12!SpWrite,
       L12!SpPublish, PL12!SpPublish, L12!Room, PL12!Room
  <1>2. ASSUME NEW p_ \in {a}
        PROVE  /\ L12!LoadPtr(p_) => PL12!LoadPtr(p_)
               /\ L12!LoadIdx(p_) => PL12!LoadIdx(p_)
               /\ L12!SkipSlot(p_) => PL12!SkipSlot(p_)
               /\ L12!SwapSlot(p_) => PL12!SwapSlot(p_)
               /\ L12!UpdateTail(p_) => PL12!UpdateTail(p_)
    BY DEF L12!LoadPtr, PL12!LoadPtr, L12!LoadIdx, PL12!LoadIdx, L12!SkipSlot, PL12!SkipSlot,
       L12!SwapSlot, PL12!SwapSlot, L12!UpdateTail, PL12!UpdateTail
  <1>3. ASSUME NEW c \in B
        PROVE  /\ L12!DeqCall(c) => PL12!DeqCall(c)
               /\ L12!LoadTail(c) => PL12!LoadTail(c)
               /\ L12!Sized(c) => PL12!Sized(c)
               /\ L12!SpTail(c) => PL12!SpTail(c)
               /\ L12!ScanTail(c) => PL12!ScanTail(c)
    BY DEF L12!DeqCall, PL12!DeqCall, L12!LoadTail, PL12!LoadTail, L12!Sized, PL12!Sized, L12!SpTail,
       PL12!SpTail, L12!ScanTail, PL12!ScanTail
  <1>4. ASSUME NEW c \in B
        PROVE  /\ L12!FoundTail(c) => PL12!FoundTail(c)
               /\ L12!SizedAgain(c) => PL12!SizedAgain(c)
               /\ L12!ReturnEmpty(c) => PL12!ReturnEmpty(c)
               /\ L12!CopyElem(c) => PL12!CopyElem(c)
    BY DEF L12!FoundTail, PL12!FoundTail, L12!SizedAgain, PL12!SizedAgain, L12!ReturnEmpty,
       PL12!ReturnEmpty, L12!CopyElem, PL12!CopyElem
  <1>5. ASSUME NEW c \in B PROVE L12!MoveHead(c) => PL12!MoveHead(c)
    BY DEF L12!MoveHead, PL12!MoveHead
  <1>6. [L12!Next]_lfring => [PL12!Next]_PL12!vars
    <2>1. L12!Next => PL12!Next
      BY <1>1, <1>2, <1>3, <1>4, <1>5 DEF L12!Next, PL12!Next, L12!Enqueue, PL12!Enqueue, L12!Dequeue,
                                      PL12!Dequeue
    <2> QED BY <2>1 DEF lfring, PL12!vars
  <1> QED BY <1>6, Lfring12Assumed, PL12!LfringStep

LEMMA Lfring12Gives ==
  PL12!LfringInv => /\ L12!PromisedSlotsAreFull /\ L12!DequeuedInOrder
                   /\ L12!SlotIsOneLapBack /\ L12!EmptyIsReal
  <1>1. PL12!LfringInv => /\ PL12!PromisedSlotsAreFull /\ PL12!DequeuedInOrder
                         /\ PL12!SlotIsOneLapBack /\ PL12!EmptyIsReal
    BY Lfring12Assumed, PL12!LfringGives
  <1> USE Lfring12Same DEF L12!Slot, PL12!Slot
  <1>2. PL12!PromisedSlotsAreFull => L12!PromisedSlotsAreFull
    BY DEF L12!PromisedSlotsAreFull, PL12!PromisedSlotsAreFull
  <1>3. PL12!DequeuedInOrder => L12!DequeuedInOrder
    BY DEF L12!DequeuedInOrder, PL12!DequeuedInOrder
  <1>4. PL12!SlotIsOneLapBack => L12!SlotIsOneLapBack
    BY DEF L12!SlotIsOneLapBack, PL12!SlotIsOneLapBack
  <1>5. PL12!EmptyIsReal => L12!EmptyIsReal
    BY DEF L12!EmptyIsReal, PL12!EmptyIsReal
  <1> QED BY <1>1, <1>2, <1>3, <1>4, <1>5

PL11 == INSTANCE LFRing_proofs WITH
    Producers <- {a}, Consumers <- {b}, Size <- 2, Batch <- 2, Calls <- 4, MaxDequeues <- 4,
    SP <- TRUE, SC <- TRUE, pc <- lpc, old <- lold

LEMMA Lfring11Assumed == PL11!LfringAssumption
  <1>1. PL11!IsFiniteSet({a})
    <2>1. IsFiniteSet({a})
      BY FS_Singleton
    <2> QED BY <2>1 DEF PL11!IsFiniteSet, IsFiniteSet
  <1>2. Null \notin PL11!Elems
    BY LfringAssumption DEF PL11!Elems
  <1> QED BY <1>1, <1>2, LfringAssumption DEF PL11!LfringAssumption

LEMMA Lfring11Same ==
  /\ \A S : L11!Cardinality(S) = PL11!Cardinality(S)
  /\ \A S : L11!Min(S) = PL11!Min(S) /\ L11!Max(S) = PL11!Max(S)
  /\ L11!Elems = PL11!Elems /\ L11!Slots = PL11!Slots
  /\ L11!Threads = PL11!Threads /\ L11!Indices = PL11!Indices
  <1>1. \A S : L11!Cardinality(S) = PL11!Cardinality(S)
    BY DEF L11!Cardinality, PL11!Cardinality, L11!IsFiniteSet, PL11!IsFiniteSet
  <1> QED BY <1>1 DEF L11!Min, PL11!Min, L11!Max, PL11!Max, L11!Elems, PL11!Elems, L11!Slots,
                    PL11!Slots, L11!Threads, PL11!Threads, L11!Indices, PL11!Indices

LEMMA Lfring11Init == L11!Init => PL11!LfringInv
  <1>1. L11!Init => PL11!Init
    BY Lfring11Same DEF L11!Init, PL11!Init
  <1> QED BY <1>1, Lfring11Assumed, PL11!LfringInit

LEMMA Lfring11Step == PL11!LfringInv /\ [L11!Next]_lfring => PL11!LfringInv'
  <1>0. (\A c : L11!Actual(c) = PL11!Actual(c)) /\ L11!Settled = PL11!Settled
    BY Lfring11Same DEF L11!Actual, PL11!Actual, L11!Settled, PL11!Settled
  <1> USE Lfring11Same, <1>0 DEF L11!Slot, PL11!Slot, L11!Elem, PL11!Elem, L11!Goto, PL11!Goto,
            L11!CondLoad, PL11!CondLoad, L11!CondCas, PL11!CondCas, L11!prodvars, PL11!prodvars,
            L11!consvars, PL11!consvars, L11!history, PL11!history
  <1>1. ASSUME NEW p_ \in {a}
        PROVE  /\ L11!EnqCall(p_) => PL11!EnqCall(p_)
               /\ L11!SpRoom(p_) => PL11!SpRoom(p_)
               /\ L11!SpWrite(p_) => PL11!SpWrite(p_)
               /\ L11!SpPublish(p_) => PL11!SpPublish(p_)
               /\ L11!Room(p_) => PL11!Room(p_)
    BY DEF L11!EnqCall, PL11!EnqCall, L11!SpRoom, PL11!SpRoom, L11!SpWrite, PL11!SpWrite,
       L11!SpPublish, PL11!SpPublish, L11!Room, PL11!Room
  <1>2. ASSUME NEW p_ \in {a}
        PROVE  /\ L11!LoadPtr(p_) => PL11!LoadPtr(p_)
               /\ L11!LoadIdx(p_) => PL11!LoadIdx(p_)
               /\ L11!SkipSlot(p_) => PL11!SkipSlot(p_)
               /\ L11!SwapSlot(p_) => PL11!SwapSlot(p_)
               /\ L11!UpdateTail(p_) => PL11!UpdateTail(p_)
    BY DEF L11!LoadPtr, PL11!LoadPtr, L11!LoadIdx, PL11!LoadIdx, L11!SkipSlot, PL11!SkipSlot,
       L11!SwapSlot, PL11!SwapSlot, L11!UpdateTail, PL11!UpdateTail
  <1>3. ASSUME NEW c \in {b}
        PROVE  /\ L11!DeqCall(c) => PL11!DeqCall(c)
               /\ L11!LoadTail(c) => PL11!LoadTail(c)
               /\ L11!Sized(c) => PL11!Sized(c)
               /\ L11!SpTail(c) => PL11!SpTail(c)
               /\ L11!ScanTail(c) => PL11!ScanTail(c)
    BY DEF L11!DeqCall, PL11!DeqCall, L11!LoadTail, PL11!LoadTail, L11!Sized, PL11!Sized, L11!SpTail,
       PL11!SpTail, L11!ScanTail, PL11!ScanTail
  <1>4. ASSUME NEW c \in {b}
        PROVE  /\ L11!FoundTail(c) => PL11!FoundTail(c)
               /\ L11!SizedAgain(c) => PL11!SizedAgain(c)
               /\ L11!ReturnEmpty(c) => PL11!ReturnEmpty(c)
               /\ L11!CopyElem(c) => PL11!CopyElem(c)
    BY DEF L11!FoundTail, PL11!FoundTail, L11!SizedAgain, PL11!SizedAgain, L11!ReturnEmpty,
       PL11!ReturnEmpty, L11!CopyElem, PL11!CopyElem
  <1>5. ASSUME NEW c \in {b} PROVE L11!MoveHead(c) => PL11!MoveHead(c)
    BY DEF L11!MoveHead, PL11!MoveHead
  <1>6. [L11!Next]_lfring => [PL11!Next]_PL11!vars
    <2>1. L11!Next => PL11!Next
      BY <1>1, <1>2, <1>3, <1>4, <1>5 DEF L11!Next, PL11!Next, L11!Enqueue, PL11!Enqueue, L11!Dequeue,
                                      PL11!Dequeue
    <2> QED BY <2>1 DEF lfring, PL11!vars
  <1> QED BY <1>6, Lfring11Assumed, PL11!LfringStep

LEMMA Lfring11Gives ==
  PL11!LfringInv => /\ L11!PromisedSlotsAreFull /\ L11!DequeuedInOrder
                   /\ L11!SlotIsOneLapBack /\ L11!EmptyIsReal
  <1>1. PL11!LfringInv => /\ PL11!PromisedSlotsAreFull /\ PL11!DequeuedInOrder
                         /\ PL11!SlotIsOneLapBack /\ PL11!EmptyIsReal
    BY Lfring11Assumed, PL11!LfringGives
  <1> USE Lfring11Same DEF L11!Slot, PL11!Slot
  <1>2. PL11!PromisedSlotsAreFull => L11!PromisedSlotsAreFull
    BY DEF L11!PromisedSlotsAreFull, PL11!PromisedSlotsAreFull
  <1>3. PL11!DequeuedInOrder => L11!DequeuedInOrder
    BY DEF L11!DequeuedInOrder, PL11!DequeuedInOrder
  <1>4. PL11!SlotIsOneLapBack => L11!SlotIsOneLapBack
    BY DEF L11!SlotIsOneLapBack, PL11!SlotIsOneLapBack
  <1>5. PL11!EmptyIsReal => L11!EmptyIsReal
    BY DEF L11!EmptyIsReal, PL11!EmptyIsReal
  <1> QED BY <1>1, <1>2, <1>3, <1>4, <1>5

LEMMA LfringAlways ==
  BuffersSpec => []/\ program = "lfring22" => PL22!LfringInv
                   /\ program = "lfring21" => PL21!LfringInv
                   /\ program = "lfring12" => PL12!LfringInv
                   /\ program = "lfring11" => PL11!LfringInv
<1> DEFINE I == /\ program = "lfring22" => PL22!LfringInv
                /\ program = "lfring21" => PL21!LfringInv
                /\ program = "lfring12" => PL12!LfringInv
                /\ program = "lfring11" => PL11!LfringInv
<1>1. BuffersInit => I
  <2>1. BuffersInit => /\ program = "lfring22" => L22!Init
                       /\ program = "lfring21" => L21!Init
                       /\ program = "lfring12" => L12!Init
                       /\ program = "lfring11" => L11!Init
    BY DEF BuffersInit
  <2> QED BY <2>1, Lfring22Init, Lfring21Init, Lfring12Init, Lfring11Init
<1>2. ASSUME I, [BuffersNext]_all PROVE I'
  <2>1. /\ program' = program
        /\ program = "lfring22" => [L22!Next]_lfring
        /\ program = "lfring21" => [L21!Next]_lfring
        /\ program = "lfring12" => [L12!Next]_lfring
        /\ program = "lfring11" => [L11!Next]_lfring
    BY <1>2 DEF BuffersNext, all
  <2> QED BY <1>2, <2>1, Lfring22Step, Lfring21Step, Lfring12Step, Lfring11Step
<1> QED BY <1>1, <1>2, PTL DEF BuffersSpec

\* PromisedAreFull: for any number of producers and consumers, and on the paths for one thread as on
\* those for several, a slot below tail holds the element of its index until head has passed it,
\* although producers fill slots in any order and publish them for each other; and
\* lfring_dequeue returns 0 only if what was enqueued before it is gone.
THEOREM PromisedSlotsHold == BuffersSpec => []PromisedAreFull
<1>1. /\ program = "lfring22" => PL22!LfringInv
      /\ program = "lfring21" => PL21!LfringInv
      /\ program = "lfring12" => PL12!LfringInv
      /\ program = "lfring11" => PL11!LfringInv
      => PromisedAreFull
  BY Lfring22Gives, Lfring21Gives, Lfring12Gives, Lfring11Gives DEF PromisedAreFull, Lfring
<1> QED BY <1>1, LfringAlways, PTL
=============================================================================
