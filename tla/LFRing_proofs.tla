--------------------------- MODULE LFRing_proofs ---------------------------
(***************************************************************************)
(* The ring of lfring/lfring.c for any number of producers, consumers and  *)
(* calls, any batches and any size, with each of the two flags.            *)
(*                                                                         *)
(* Indices are enqueued without a hole (NoHoles): a producer passes a slot *)
(* only if the index is enqueued (Filled, PassedIsFull), which it knows    *)
(* because the slot cannot be two laps back while there is room (OneLap).  *)
(* A slot holds the last of its indices that was enqueued (SlotsHold), and *)
(* nothing is enqueued a lap ahead of head (InRoom), so from head to tail  *)
(* every slot holds its own index.  What a consumer copied is right as     *)
(* long as head has not moved (CopiesHold), because head only grows.       *)
(* An element whose enqueue has returned is below tail (Published), hence  *)
(* below every tail that is read later (PendingBelow).                     *)
(*                                                                         *)
(* LfringAssumption says what is known of the constants; Buffers_proofs    *)
(* discharges it for the rings that are model-checked.                     *)
(***************************************************************************)
EXTENDS LFRing, FiniteSetTheorems, TLAPS

\* A ring has a slot, a batch an element, a thread one side, and a flag one thread.
LfringAssumption ==
    /\ Size \in Nat \ {0} /\ Batch \in Nat \ {0} /\ Calls \in Nat /\ MaxDequeues \in Nat
    /\ IsFiniteSet(Producers) /\ Producers \cap Consumers = {}
    /\ SP \in BOOLEAN /\ SC \in BOOLEAN
    /\ SP => \A p, q \in Producers : p = q
    /\ SC => \A c, d \in Consumers : c = d
    /\ Null \notin Elems

-----------------------------------------------------------------------------
(* The invariant *)

ProducerPcs == {"idle", "sp_room", "sp_write", "room", "ptr", "idx", "check", "update", "update_cas"}
ConsumerPcs == {"idle", "tail", "size", "sp_tail", "scan", "found", "found_cas", "size2", "empty", "copy"}
Contents == [ptr : Elems \cup {Null}, idx : Int]

SharedTypes ==
    /\ head \in Nat /\ tail \in Nat /\ ring \in [Slots -> Contents]
    /\ enqueued \in [Indices -> Elems \cup {Null}] /\ dequeued \in [Elems -> Nat]

ProducerTypes ==
    /\ \A p \in Producers : pc[p] \in ProducerPcs
    /\ pt \in [Producers -> Nat] /\ old \in [Producers -> Contents]
    /\ actual \in [Producers -> 0 .. Batch] /\ call \in [Producers -> 0 .. Calls]

ConsumerTypes ==
    /\ \A c \in Consumers : pc[c] \in ConsumerPcs
    /\ ch \in [Consumers -> Nat] /\ ct \in [Consumers -> Nat] /\ n \in [Consumers -> 0 .. Batch]
    /\ elems \in [Consumers -> [1 .. Batch -> Elems \cup {Null}]]
    /\ scan \in [Consumers -> 0 .. Batch] /\ pending \in [Consumers -> SUBSET Elems]

Types ==
    /\ SharedTypes /\ ProducerTypes /\ ConsumerTypes
    /\ DOMAIN pc = Threads /\ upd \in [Threads -> Int]

Enq(i) == i \in Indices /\ enqueued[i] # Null
Filled(m) == \A j \in 0 .. m - 1 : Enq(j)

NoHoles ==
    /\ \A i \in Indices : Enq(i) => Filled(i)
    /\ Filled(tail) /\ head <= tail

\* A slot is as lfring_alloc left it or holds the last of its indices.
SlotHolds(s) == LET k == ring[s].idx IN
    k = s - Size \/ (k \in Nat /\ Slot(k) = s /\ Enq(k) /\ ring[s].ptr = enqueued[k])

SlotsHold ==
    /\ \A s \in Slots : SlotHolds(s)
    /\ \A i \in Indices : Enq(i) => ring[Slot(i)].idx >= i

InRoom == \A i \in Indices : Enq(i) => i < head + Size

\* Every element has one index, from the time its producer wrote it.
Written(e) == e[2] < call[e[1]] \/ (e[2] = call[e[1]] /\ e[3] <= actual[e[1]])

OneIndex ==
    /\ \A i, j \in Indices : Enq(i) /\ enqueued[i] = enqueued[j] => i = j
    /\ \A i \in Indices : Enq(i) => Written(enqueued[i])

\* The elements of a call that has returned are below tail, the others below pt.
Published ==
    \A i \in Indices : Enq(i) => LET e == enqueued[i] IN
        IF e[2] < call[e[1]] \/ pc[e[1]] = "idle" THEN i < tail ELSE i < pt[e[1]]

NotEarly == \A e \in Elems : (\A i \in Indices : enqueued[i] # e) => dequeued[e] = 0

ElementsInv == NoHoles /\ SlotsHold /\ InRoom /\ OneIndex /\ Published /\ NotEarly /\ DequeuedInOrder

\* A producer in its call.
PassedIsFull(p) == Filled(pt[p]) /\ (pc[p] = "check" /\ old[p].idx # pt[p] - Size => Enq(pt[p]))

SingleProducer(p) ==
    /\ pc[p] \in (IF SP THEN {"idle", "sp_room", "sp_write"} ELSE ProducerPcs \ {"sp_room", "sp_write"})
    /\ SP => \A i \in Indices : Enq(i) => i < (IF pc[p] = "idle" THEN tail ELSE pt[p])
    /\ SP /\ pc[p] # "idle" => tail <= pt[p]
    /\ pc[p] = "sp_room" => actual[p] = 0 /\ pt[p] = tail
    /\ pc[p] = "sp_write" => /\ actual[p] <= upd[p] /\ upd[p] <= Batch
                             /\ pt[p] + upd[p] - actual[p] <= head + Size

ProducerOK(p) ==
    /\ PassedIsFull(p) /\ SingleProducer(p)
    /\ pc[p] # "idle" => call[p] >= 1
    /\ pc[p] \in {"ptr", "idx", "check"} => pt[p] < head + Size /\ actual[p] < Batch
    /\ pc[p] = "update_cas" => upd[p] <= pt[p]

\* A consumer in its call.
CopiesHold(c) ==
    pc[c] = "copy" => /\ 0 < Actual(c) /\ scan[c] <= Actual(c)
                      /\ head = ch[c] => \A k \in 1 .. scan[c] : elems[c][k] = enqueued[ch[c] + k - 1]

PendingBelow(c) ==
    pc[c] # "idle" => \A e \in pending[c] :
        \E i \in Indices : enqueued[i] = e /\ i < (IF pc[c] = "tail" THEN tail ELSE ct[c])

ConsumerOK(c) ==
    /\ Filled(ct[c]) /\ ch[c] <= head /\ (SC /\ pc[c] # "idle" => head = ch[c])
    /\ pc[c] \in {"size", "size2", "copy", "sp_tail"} => ct[c] <= tail
    /\ pc[c] = "found_cas" => upd[c] <= ct[c]
    /\ pc[c] \in {"scan", "found", "found_cas"} => ~SP
    /\ pc[c] = "empty" => ct[c] <= ch[c]
    /\ pc[c] # "idle" => n[c] >= 1
    /\ pc[c] \in {"sp_tail", "scan", "found", "found_cas", "size2"} => scan[c] = 0
    /\ CopiesHold(c) /\ PendingBelow(c)

LfringInv ==
    /\ Types /\ ElementsInv
    /\ \A p \in Producers : ProducerOK(p)
    /\ \A c \in Consumers : ConsumerOK(c)

-----------------------------------------------------------------------------
(* The constants and the arithmetic *)

LEMMA MinMax ==
  ASSUME NEW x \in Int, NEW y \in Int
  PROVE  /\ Min({x, y}) = IF x <= y THEN x ELSE y
         /\ Max({x, y}) = IF x <= y THEN y ELSE x
<1>1. CASE x <= y
  <2>1. \A z \in {x, y} : (\A w \in {x, y} : z <= w) <=> z = x
    BY <1>1
  <2>2. \A z \in {x, y} : (\A w \in {x, y} : z >= w) <=> z = y
    BY <1>1
  <2> QED BY <1>1, <2>1, <2>2 DEF Min, Max
<1>2. CASE ~(x <= y)
  <2>1. \A z \in {x, y} : (\A w \in {x, y} : z <= w) <=> z = y
    BY <1>2
  <2>2. \A z \in {x, y} : (\A w \in {x, y} : z >= w) <=> z = x
    BY <1>2
  <2> QED BY <1>2, <2>1, <2>2 DEF Min, Max
<1> QED BY <1>1, <1>2

LEMMA ElemParts ==
  /\ \A e \in Elems : e[1] \in Producers /\ e[2] \in 1 .. Calls /\ e[3] \in 1 .. Batch
                      /\ e = <<e[1], e[2], e[3]>>
  /\ \A p \in Producers, i \in 1 .. Calls, j \in 1 .. Batch :
        <<p, i, j>> \in Elems /\ <<p, i, j>>[1] = p /\ <<p, i, j>>[2] = i /\ <<p, i, j>>[3] = j
  BY DEF Elems

LEMMA ElemsFinite ==
  ASSUME LfringAssumption
  PROVE  IsFiniteSet(Elems) /\ Cardinality(Elems) \in Nat
<1> DEFINE Pairs == (Producers \X (1 .. Calls)) \X (1 .. Batch)
           f == [x \in Pairs |-> <<x[1][1], x[1][2], x[2]>>]
<1>1. IsFiniteSet(Pairs)
  <2>1. IsFiniteSet(1 .. Calls) /\ IsFiniteSet(1 .. Batch)
    BY FS_Interval DEF LfringAssumption
  <2>2. IsFiniteSet(Producers \X (1 .. Calls))
    BY <2>1, FS_Product DEF LfringAssumption
  <2> QED BY <2>1, <2>2, FS_Product
<1>2. \A e \in Elems : \E x \in Pairs : f[x] = e
  <2> SUFFICES ASSUME NEW e \in Elems PROVE \E x \in Pairs : f[x] = e
    OBVIOUS
  <2>1. <<<<e[1], e[2]>>, e[3]>> \in Pairs /\ f[<<<<e[1], e[2]>>, e[3]>>] = <<e[1], e[2], e[3]>>
    BY ElemParts
  <2> QED BY <2>1, ElemParts
<1>3. Elems \subseteq {f[x] : x \in Pairs}
  BY <1>2
<1>4. IsFiniteSet({f[x] : x \in Pairs})
  <2>1. f \in Surjection(Pairs, {f[x] : x \in Pairs})
    BY DEF Surjection
  <2> HIDE DEF Pairs, f
  <2> QED BY <1>1, <2>1, FS_Surjection
<1>5. IsFiniteSet(Elems)
  BY <1>3, <1>4, FS_Subset
<1> QED BY <1>5, FS_CardinalityType

LEMMA Constants ==
  ASSUME LfringAssumption
  PROVE  /\ Size \in Nat /\ Size > 0 /\ Batch \in Nat /\ Batch > 0 /\ Calls \in Nat
         /\ \A p \in Producers : p \in Threads /\ p \notin Consumers
         /\ \A c \in Consumers : c \in Threads /\ c \notin Producers
         /\ \A i \in Indices : i \in Nat
         /\ \A i \in Nat, j \in Indices : i <= j => i \in Indices
         /\ \A s \in Slots : s \in Nat /\ s < Size
         /\ Null \notin Elems
<1>1. \A i \in Indices : i \in Nat
  BY ElemsFinite DEF Indices
<1>2. \A i \in Nat, j \in Indices : i <= j => i \in Indices
  BY ElemsFinite DEF Indices
<1> QED BY <1>1, <1>2 DEF LfringAssumption, Threads, Slots

\* Of the indices of a slot no two are less than a lap apart.
LEMMA SlotArithmetic ==
  ASSUME LfringAssumption
  PROVE  /\ \A i \in Nat : Slot(i) \in Slots
         /\ \A i \in Nat : i < Size => Slot(i) = i
         /\ \A i, j \in Nat : Slot(i) = Slot(j) /\ i < j => i + Size <= j
         /\ \A i \in Nat : Slot(i + Size) = Slot(i)
<1>0. Size \in Nat /\ Size > 0
  BY DEF LfringAssumption
<1>1. \A i \in Nat : Slot(i) \in Slots
  BY <1>0 DEF Slot, Slots
<1>2. \A i \in Nat : i < Size => Slot(i) = i
  BY <1>0 DEF Slot
<1>3. ASSUME NEW i \in Nat, NEW j \in Nat, Slot(i) = Slot(j), i < j PROVE i + Size <= j
  <2>1. /\ i = Size * (i \div Size) + (i % Size) /\ i \div Size \in Int
        /\ j = Size * (j \div Size) + (j % Size) /\ j \div Size \in Int
    BY <1>0
  <2> DEFINE qi == i \div Size
             qj == j \div Size
  <2>2. j - i = Size * qj - Size * qi /\ qi \in Int /\ qj \in Int
    <3>1. i % Size = j % Size /\ i % Size \in Int
      BY <1>0, <1>3 DEF Slot
    <3> QED BY <2>1, <3>1, <1>0
  <2> HIDE DEF qi, qj
  <2>3. Size * qj - Size * qi = Size * (qj - qi)
    BY <2>2, <1>0
  <2>4. qj - qi >= 1
    <3>1. CASE qj - qi <= 0
      <4>1. Size * (qj - qi) <= 0
        BY <3>1, <2>2, <1>0
      <4> QED BY <4>1, <2>2, <2>3, <1>3
    <3> QED BY <3>1, <2>2
  <2>5. Size * (qj - qi) >= Size
    BY <2>4, <2>2, <1>0
  <2> QED BY <2>2, <2>3, <2>5, <1>0
<1>4. ASSUME NEW i \in Nat PROVE Slot(i + Size) = Slot(i)
  <2> DEFINE q == i \div Size
             r == i % Size
             j == i + Size
             qj == j \div Size
             rj == j % Size
  <2>1. i = Size * q + r /\ q \in Int /\ r \in 0 .. Size - 1 /\ j \in Nat
    BY <1>0
  <2>2. j = Size * qj + rj /\ qj \in Int /\ rj \in 0 .. Size - 1
    <3> HIDE DEF j
    <3> QED BY <1>0, <2>1
  <2>3. i + Size = Size * qj + rj
    BY <2>2
  <2> HIDE DEF q, r, j, qj, rj
  <2>4. Size * (q + 1 - qj) = rj - r
    <3>1. Size * (q + 1 - qj) = Size * q + Size - Size * qj
      BY <2>1, <2>2, <1>0
    <3> QED BY <2>1, <2>2, <2>3, <3>1, <1>0
  <2>5. q + 1 - qj = 0
    <3>1. CASE q + 1 - qj >= 1
      <4>1. Size * (q + 1 - qj) >= Size
        BY <3>1, <2>1, <2>2, <1>0
      <4> QED BY <4>1, <2>4, <2>1, <2>2, <1>0
    <3>2. CASE q + 1 - qj <= -1
      <4>1. Size * (q + 1 - qj) <= -Size
        BY <3>2, <2>1, <2>2, <1>0
      <4> QED BY <4>1, <2>4, <2>1, <2>2, <1>0
    <3> QED BY <3>1, <3>2, <2>1, <2>2
  <2>6. rj = r
    BY <2>1, <2>2, <2>4, <2>5, <1>0
  <2> QED BY <2>6 DEF Slot, rj, r, j
<1> QED BY <1>1, <1>2, <1>3, <1>4

-----------------------------------------------------------------------------
(* What the invariant says of the slots *)

\* While there is room for index i, its slot is one lap back or i is enqueued.
LEMMA OneLap ==
  ASSUME LfringAssumption, Types, ElementsInv, NEW i \in Nat, i < head + Size
  PROVE  LET k == ring[Slot(i)].idx IN k = i - Size \/ (k \in Nat /\ k >= i /\ Enq(i))
<1> USE Constants, SlotArithmetic
<1> DEFINE s == Slot(i)
           k == ring[s].idx
<1>0. /\ s \in Slots /\ s \in Nat /\ k \in Int /\ head \in Nat /\ SlotHolds(s)
  BY DEF Types, SharedTypes, Contents, ElementsInv, SlotsHold
<1>1. ASSUME i >= Size PROVE k >= i - Size /\ Slot(i - Size) = s
  <2>1. i - Size \in Nat /\ i - Size < tail /\ (i - Size) + Size = i
    BY <1>1 DEF Types, SharedTypes, ElementsInv, NoHoles
  <2>2. Enq(i - Size)
    BY <2>1 DEF Types, SharedTypes, ElementsInv, NoHoles, Filled
  <2>3. Slot(i - Size) = s
    <3>1. Slot((i - Size) + Size) = Slot(i - Size)
      BY <2>1
    <3> QED BY <2>1, <3>1
  <2> QED BY <2>2, <2>3 DEF Enq, ElementsInv, SlotsHold
<1>2. CASE k = s - Size
  <2>1. i < Size => s = i
    OBVIOUS
  <2>2. i >= Size => FALSE
    BY <1>0, <1>1, <1>2
  <2> QED BY <1>2, <2>1, <2>2
<1>3. CASE k \in Nat /\ Slot(k) = s /\ Enq(k)
  <2>1. k < i => k = i - Size
    <3> SUFFICES ASSUME k < i PROVE k = i - Size
      OBVIOUS
    <3>1. k + Size <= i
      BY <1>3
    <3>2. i >= Size /\ i - Size \in Nat
      BY <1>3, <3>1
    <3>3. k >= i - Size
      BY <3>2, <1>1
    <3> QED BY <1>3, <3>1, <3>3
  <2>2. k >= i => Enq(i)
    <3>1. k > i => Enq(i)
      BY <1>3 DEF ElementsInv, NoHoles, Filled, Enq
    <3> QED BY <1>3, <3>1
  <2> QED BY <1>3, <2>1, <2>2
<1> QED BY <1>0, <1>2, <1>3 DEF SlotHolds

\* There is an index for every element.
LEMMA NextIsIndex ==
  ASSUME LfringAssumption, Types, OneIndex, NEW m \in Nat, Filled(m),
         NEW e \in Elems, \A i \in Indices : enqueued[i] # e
  PROVE  m \in Indices
<1> DEFINE f == [i \in 0 .. m |-> IF i < m THEN enqueued[i] ELSE e]
<1>1. \A i \in 0 .. m : i < m => i \in Indices /\ enqueued[i] \in Elems /\ Enq(i)
  BY DEF Filled, Enq, Types, SharedTypes
<1>2. f \in [0 .. m -> Elems]
  BY <1>1
<1>3. ASSUME NEW i \in 0 .. m, NEW j \in 0 .. m, f[i] = f[j] PROVE i = j
  <2>1. CASE i < m /\ j < m
    BY <1>1, <1>3, <2>1 DEF OneIndex
  <2>2. CASE i < m /\ ~(j < m)
    BY <1>1, <1>3, <2>2
  <2>3. CASE ~(i < m) /\ j < m
    BY <1>1, <1>3, <2>3
  <2>4. CASE ~(i < m) /\ ~(j < m)
    BY <2>4
  <2> QED BY <2>1, <2>2, <2>3, <2>4
<1>4. f \in Injection(0 .. m, Elems)
  BY <1>2, <1>3 DEF Injection, IsInjective
<1> HIDE DEF f
<1>5. Cardinality(0 .. m) <= Cardinality(Elems)
  BY <1>4, ElemsFinite, FS_Injection
<1>6. Cardinality(0 .. m) = m + 1
  BY FS_Interval
<1> QED BY <1>5, <1>6, ElemsFinite DEF Indices

LEMMA LfringGives ==
  ASSUME LfringAssumption, LfringInv
  PROVE  PromisedSlotsAreFull /\ DequeuedInOrder /\ SlotIsOneLapBack /\ EmptyIsReal
<1> USE Constants, SlotArithmetic
<1>0. /\ Types /\ ElementsInv /\ head \in Nat /\ tail \in Nat /\ pt \in [Producers -> Nat]
      /\ NoHoles /\ SlotsHold /\ InRoom /\ DequeuedInOrder
  BY DEF LfringInv, Types, SharedTypes, ProducerTypes, ElementsInv
<1>1. \A i \in Indices : enqueued[i] # Null => i < head + Size
  BY <1>0 DEF InRoom, Enq
<1>2. ASSUME NEW i \in head .. tail - 1
      PROVE  ring[Slot(i)] = [ptr |-> enqueued[i], idx |-> i] /\ enqueued[i] # Null
  <2>1. i \in Nat /\ Enq(i) /\ i \in Indices
    BY <1>0 DEF NoHoles, Filled, Enq
  <2> DEFINE k == ring[Slot(i)].idx
  <2>2. k \in Int /\ k >= i /\ SlotHolds(Slot(i)) /\ Slot(i) \in Slots /\ ring[Slot(i)] \in Contents
    BY <1>0, <2>1 DEF SlotsHold, Types, SharedTypes, Contents
  <2>3. k \in Nat /\ Slot(k) = Slot(i) /\ Enq(k) /\ ring[Slot(i)].ptr = enqueued[k]
    BY <2>1, <2>2 DEF SlotHolds
  <2>4. k < head + Size
    BY <1>0, <2>3 DEF InRoom, Enq
  <2>5. k = i
    <3>1. i < k => i + Size <= k
      BY <2>1, <2>3
    <3>2. head <= i
      BY <1>0
    <3>3. k \in Nat /\ k >= i
      BY <2>2, <2>3
    <3> HIDE DEF k
    <3> QED BY <1>0, <2>1, <2>4, <3>1, <3>2, <3>3
  <2>6. ring[Slot(i)].idx = i /\ ring[Slot(i)].ptr = enqueued[i]
    BY <2>3, <2>5
  <2> QED BY <2>1, <2>2, <2>6 DEF Contents, Enq
<1>3. SlotIsOneLapBack
  <2> SUFFICES ASSUME NEW p \in Producers, pc[p] = "sp_write", actual[p] < upd[p]
               PROVE  ring[Slot(pt[p])].idx = pt[p] - Size
    BY DEF SlotIsOneLapBack
  <2>1. SingleProducer(p) /\ pt[p] \in Nat /\ actual[p] \in Int /\ upd[p] \in Int
    BY <1>0 DEF LfringInv, ProducerOK, Types, ProducerTypes
  <2>2. SP /\ pt[p] < head + Size
    BY <1>0, <2>1 DEF SingleProducer, ProducerPcs
  <2>3. ~Enq(pt[p])
    BY <2>1, <2>2 DEF SingleProducer, Enq
  <2> QED BY <1>0, <2>1, <2>2, <2>3, OneLap
<1>4. EmptyIsReal
  <2> SUFFICES ASSUME NEW c \in Consumers, pc[c] = "empty", NEW e \in pending[c]
               PROVE  dequeued[e] = 1
    BY DEF EmptyIsReal
  <2>1. ConsumerOK(c) /\ ct[c] \in Nat /\ ch[c] \in Nat /\ e \in Elems
    BY DEF LfringInv, Types, ConsumerTypes
  <2>2. PICK i \in Indices : enqueued[i] = e /\ i < ct[c]
    BY <2>1 DEF ConsumerOK, PendingBelow
  <2>3. i < head
    BY <1>0, <2>1, <2>2 DEF ConsumerOK
  <2> QED BY <1>0, <2>1, <2>2, <2>3 DEF DequeuedInOrder
<1> QED BY <1>0, <1>1, <1>2, <1>3, <1>4 DEF PromisedSlotsAreFull

LEMMA LfringInit ==
  ASSUME LfringAssumption, Init
  PROVE  LfringInv
<1> USE Constants, SlotArithmetic DEF Init
<1>1. Types
  BY DEF Types, SharedTypes, ProducerTypes, ConsumerTypes, ProducerPcs, ConsumerPcs, Contents, LfringAssumption
<1>2. \A i : ~Enq(i)
  BY DEF Enq
<1>3. Filled(0)
  BY DEF Filled
<1>4. ElementsInv
  BY <1>2, <1>3 DEF ElementsInv, NoHoles, SlotsHold, SlotHolds, InRoom, OneIndex, Published, NotEarly, DequeuedInOrder, Enq
<1>5. \A p \in Producers : ProducerOK(p)
  BY <1>2, <1>3 DEF ProducerOK, PassedIsFull, SingleProducer, ProducerPcs
<1>6. \A c \in Consumers : ConsumerOK(c)
  BY <1>2, <1>3 DEF ConsumerOK, CopiesHold, PendingBelow
<1> QED BY <1>1, <1>4, <1>5, <1>6 DEF LfringInv

-----------------------------------------------------------------------------
(* Steps that enqueue and dequeue nothing *)

\* The ring is as before, tail at most further on.
Quiet == /\ UNCHANGED <<head, ring, enqueued, dequeued>>
         /\ tail' \in Nat /\ tail' >= tail /\ Filled(tail)'

LEMMA QuietElements ==
  ASSUME LfringAssumption, Types, ElementsInv, Quiet, Published', (\A i \in Indices : Enq(i) => Written(enqueued[i])')
  PROVE  /\ ElementsInv' /\ \A i : Enq(i)' <=> Enq(i)
         /\ \A m : (\A j \in 0 .. m - 1 : Enq(j)') <=> Filled(m)
<1>1. \A i : Enq(i)' <=> Enq(i)
  BY DEF Enq, Quiet
<1>2. \A m : (\A j \in 0 .. m - 1 : Enq(j)') <=> Filled(m)
  BY <1>1 DEF Filled
<1>3. NoHoles'
  <2>1. \A i \in Indices : Enq(i)' => Filled(i)'
    BY <1>1 DEF Filled, ElementsInv, NoHoles
  <2>2. head' <= tail'
    BY DEF Quiet, ElementsInv, NoHoles, Types, SharedTypes
  <2> QED BY <2>1, <2>2 DEF NoHoles, Quiet
<1>4. SlotsHold'
  BY <1>1 DEF SlotsHold, SlotHolds, ElementsInv, Quiet
<1>5. InRoom' /\ NotEarly' /\ DequeuedInOrder'
  BY <1>1 DEF InRoom, NotEarly, DequeuedInOrder, ElementsInv, Quiet
<1>6. OneIndex'
  BY <1>1 DEF OneIndex, ElementsInv, Quiet
<1> QED BY <1>1, <1>2, <1>3, <1>4, <1>5, <1>6 DEF ElementsInv

\* The other threads do not see a quiet step.
LEMMA QuietConsumer ==
  ASSUME LfringAssumption, Types, ElementsInv, Quiet, NEW d \in Consumers, ConsumerOK(d),
         \A i : Enq(i)' <=> Enq(i), pc'[d] = pc[d], upd'[d] = upd[d],
         ch'[d] = ch[d], ct'[d] = ct[d], n'[d] = n[d], elems'[d] = elems[d], scan'[d] = scan[d],
         pending'[d] = pending[d]
  PROVE  ConsumerOK(d)'
<1>0. /\ tail \in Nat /\ head \in Nat /\ ct[d] \in Nat /\ tail' \in Nat /\ tail' >= tail
      /\ head' = head /\ enqueued' = enqueued /\ \A i \in Indices : i \in Nat
  BY Constants DEF Types, SharedTypes, ConsumerTypes, Quiet
<1>1. Filled(ct[d])'
  BY DEF ConsumerOK, Filled
<1>2. CopiesHold(d)'
  BY <1>0 DEF ConsumerOK, CopiesHold, Actual
<1>3. PendingBelow(d)'
  <2> SUFFICES ASSUME pc[d] # "idle", NEW e \in pending[d]
               PROVE  \E i \in Indices : enqueued[i] = e /\ i < (IF pc[d] = "tail" THEN tail' ELSE ct[d])
    BY <1>0 DEF PendingBelow
  <2>1. PICK i \in Indices : enqueued[i] = e /\ i < (IF pc[d] = "tail" THEN tail ELSE ct[d])
    BY DEF ConsumerOK, PendingBelow
  <2> QED BY <1>0, <2>1
<1> QED BY <1>0, <1>1, <1>2, <1>3 DEF ConsumerOK

LEMMA QuietProducer ==
  ASSUME LfringAssumption, Types, ElementsInv, Quiet, NEW q \in Producers, ProducerOK(q),
         \A i : Enq(i)' <=> Enq(i), SP => tail' = tail,
         pc'[q] = pc[q], upd'[q] = upd[q], pt'[q] = pt[q], old'[q] = old[q],
         actual'[q] = actual[q], call'[q] = call[q]
  PROVE  ProducerOK(q)'
<1>0. head' = head
  BY DEF Quiet
<1>1. PassedIsFull(q)'
  BY DEF ProducerOK, PassedIsFull, Filled
<1>2. SingleProducer(q)'
  BY <1>0 DEF ProducerOK, SingleProducer
<1> QED BY <1>0, <1>1, <1>2 DEF ProducerOK

LEMMA ConsumerStep ==
  ASSUME LfringAssumption, LfringInv, NEW c \in Consumers, Quiet, SP => tail' = tail,
         UNCHANGED prodvars, DOMAIN pc' = Threads, \A t \in Threads : t # c => pc'[t] = pc[t] /\ upd'[t] = upd[t],
         ConsumerTypes', upd' \in [Threads -> Int],
         \A d \in Consumers : d # c =>
            /\ ch'[d] = ch[d] /\ ct'[d] = ct[d] /\ n'[d] = n[d] /\ elems'[d] = elems[d]
            /\ scan'[d] = scan[d] /\ pending'[d] = pending[d],
         (\A i : Enq(i)' <=> Enq(i)) => ConsumerOK(c)'
  PROVE  LfringInv'
<1>0. Types /\ ElementsInv /\ tail \in Nat /\ tail' \in Nat /\ tail' >= tail /\ enqueued' = enqueued
  BY DEF LfringInv, Types, SharedTypes, Quiet
<1>1. \A p \in Producers : pc'[p] = pc[p] /\ upd'[p] = upd[p]
  BY Constants
<1>2. Types'
  BY <1>0, <1>1 DEF Types, SharedTypes, ProducerTypes, prodvars, Quiet
<1>3. \A i : Enq(i)' <=> Enq(i)
  BY DEF Enq, Quiet
<1>4. ElementsInv'
  <2>1. \A i \in Indices : Enq(i) => enqueued[i] \in Elems /\ enqueued[i][1] \in Producers
    BY <1>0, ElemParts DEF Enq, Types, SharedTypes
  <2>2. Published'
    <3> SUFFICES ASSUME NEW i \in Indices, Enq(i)
                 PROVE  LET e == enqueued[i] IN
                        IF e[2] < call[e[1]] \/ pc'[e[1]] = "idle" THEN i < tail' ELSE i < pt[e[1]]
      BY <1>0, <1>3 DEF Published, prodvars
    <3>1. LET e == enqueued[i] IN
          IF e[2] < call[e[1]] \/ pc[e[1]] = "idle" THEN i < tail ELSE i < pt[e[1]]
      BY <1>0 DEF ElementsInv, Published
    <3>2. pc'[enqueued[i][1]] = pc[enqueued[i][1]] /\ i \in Nat
      BY <1>1, <2>1, Constants
    <3> QED BY <1>0, <3>1, <3>2
  <2>3. \A i \in Indices : Enq(i) => Written(enqueued[i])'
    BY <1>0 DEF ElementsInv, OneIndex, Written, prodvars
  <2> QED BY <1>0, <2>2, <2>3, QuietElements
<1>5. ASSUME NEW p \in Producers PROVE ProducerOK(p)'
  BY <1>0, <1>1, <1>3, QuietProducer DEF LfringInv, prodvars
<1>6. ASSUME NEW d \in Consumers PROVE ConsumerOK(d)'
  <2>1. CASE d = c
    BY <2>1, <1>3
  <2>2. CASE d # c
    BY <2>2, <1>0, <1>3, Constants, QuietConsumer DEF LfringInv
  <2> QED BY <2>1, <2>2
<1> QED BY <1>2, <1>4, <1>5, <1>6 DEF LfringInv

LEMMA ProducerStep ==
  ASSUME LfringAssumption, LfringInv, NEW p \in Producers, Quiet,
         UNCHANGED <<ch, ct, n, elems, scan, pending>>, DOMAIN pc' = Threads,
         \A t \in Threads : t # p => pc'[t] = pc[t] /\ upd'[t] = upd[t],
         ProducerTypes', upd' \in [Threads -> Int],
         \A q \in Producers : q # p =>
            /\ pt'[q] = pt[q] /\ old'[q] = old[q] /\ actual'[q] = actual[q] /\ call'[q] = call[q],
         (\A i : Enq(i)' <=> Enq(i)) => ProducerOK(p)',
         \A i \in Indices : Enq(i) /\ enqueued[i][1] = p => LET e == enqueued[i] IN
            /\ Written(e)'
            /\ IF e[2] < call'[p] \/ pc'[p] = "idle" THEN i < tail' ELSE i < pt'[p]
  PROVE  LfringInv'
<1>0. Types /\ ElementsInv /\ tail \in Nat /\ tail' \in Nat /\ tail' >= tail /\ enqueued' = enqueued
  BY DEF LfringInv, Types, SharedTypes, Quiet
<1>1. \A c \in Consumers : pc'[c] = pc[c] /\ upd'[c] = upd[c]
  BY Constants
<1>2. Types'
  BY <1>0, <1>1 DEF Types, SharedTypes, ConsumerTypes, Quiet
<1>3. \A i : Enq(i)' <=> Enq(i)
  BY DEF Enq, Quiet
<1>4. ElementsInv'
  <2>1. \A i \in Indices : Enq(i) => enqueued[i] \in Elems /\ enqueued[i][1] \in Producers
    BY <1>0, ElemParts DEF Enq, Types, SharedTypes
  <2>2. Published'
    <3> SUFFICES ASSUME NEW i \in Indices, Enq(i)
                 PROVE  LET e == enqueued[i] IN
                        IF e[2] < call'[e[1]] \/ pc'[e[1]] = "idle" THEN i < tail' ELSE i < pt'[e[1]]
      BY <1>0, <1>3 DEF Published
    <3>1. CASE enqueued[i][1] = p
      BY <3>1
    <3>2. CASE enqueued[i][1] # p
      <4>1. LET e == enqueued[i] IN
            IF e[2] < call[e[1]] \/ pc[e[1]] = "idle" THEN i < tail ELSE i < pt[e[1]]
        BY <1>0 DEF ElementsInv, Published
      <4> DEFINE q == enqueued[i][1]
      <4>2. pc'[q] = pc[q] /\ i \in Nat /\ call'[q] = call[q] /\ pt'[q] = pt[q]
        BY <2>1, <3>2, Constants
      <4> QED BY <1>0, <4>1, <4>2
    <3> QED BY <3>1, <3>2
  <2>3. \A i \in Indices : Enq(i) => Written(enqueued[i])'
    <3> SUFFICES ASSUME NEW i \in Indices, Enq(i) PROVE Written(enqueued[i])'
      OBVIOUS
    <3>1. CASE enqueued[i][1] = p
      BY <3>1, <1>0 DEF Written
    <3>2. CASE enqueued[i][1] # p
      <4>1. Written(enqueued[i])
        BY <1>0 DEF ElementsInv, OneIndex
      <4> QED BY <1>0, <2>1, <3>2, <4>1 DEF Written
    <3> QED BY <3>1, <3>2
  <2> QED BY <1>0, <2>2, <2>3, QuietElements
<1>6. ASSUME NEW d \in Consumers PROVE ConsumerOK(d)'
  BY <1>0, <1>1, <1>3, QuietConsumer DEF LfringInv
<1>5. ASSUME NEW q \in Producers PROVE ProducerOK(q)'
  <2>1. CASE q = p
    BY <2>1, <1>3
  <2>2. CASE q # p
    <3>1. ~SP
      BY <2>2 DEF LfringAssumption
    <3> QED BY <2>2, <3>1, <1>0, <1>3, Constants, QuietProducer DEF LfringInv
  <2> QED BY <2>1, <2>2
<1> QED BY <1>2, <1>4, <1>5, <1>6 DEF LfringInv

-----------------------------------------------------------------------------
(* lfring_dequeue *)

LEMMA InvFacts ==
  ASSUME LfringAssumption, LfringInv
  PROVE  /\ Types /\ ElementsInv /\ NoHoles /\ SharedTypes /\ ProducerTypes /\ ConsumerTypes
         /\ head \in Nat /\ tail \in Nat /\ Filled(tail) /\ head <= tail /\ DOMAIN pc = Threads
         /\ upd \in [Threads -> Int]
  BY DEF LfringInv, Types, SharedTypes, ElementsInv, NoHoles

LEMMA ActualIs ==
  ASSUME LfringAssumption, ConsumerTypes, NEW c \in Consumers
  PROVE  Actual(c) = (IF ct[c] - ch[c] <= n[c] THEN ct[c] - ch[c] ELSE n[c]) /\ Actual(c) \in Int
<1>1. ct[c] - ch[c] \in Int /\ n[c] \in Int
  BY Constants DEF ConsumerTypes
<1> QED BY <1>1, MinMax DEF Actual

LEMMA TailUnchanged ==
  ASSUME LfringAssumption, LfringInv, UNCHANGED <<head, tail, ring, enqueued, dequeued>>
  PROVE  Quiet /\ tail' = tail
<1>1. Filled(tail)'
  BY InvFacts DEF Filled, Enq
<1> QED BY <1>1, InvFacts DEF Quiet

LEMMA StepDeqCall ==
  ASSUME LfringAssumption, LfringInv, NEW c \in Consumers, DeqCall(c)
  PROVE  LfringInv'
<1> USE InvFacts, Constants
<1>0. c \in Threads /\ Quiet /\ tail' = tail
  BY TailUnchanged DEF DeqCall
<1>1. /\ DOMAIN pc' = Threads /\ pc[c] = "idle" /\ pc'[c] = "tail" /\ \A t \in Threads : t # c => pc'[t] = pc[t]
      /\ ch'[c] = head /\ ct' = ct /\ pending'[c] = Settled /\ n'[c] \in 1 .. Batch
  BY <1>0 DEF DeqCall, Goto, ConsumerTypes
<1>2. ConsumerTypes'
  <2>1. Settled \subseteq Elems
    BY DEF Settled
  <2>2. \A d \in Consumers : pc'[d] \in ConsumerPcs
    BY <1>1 DEF ConsumerTypes, ConsumerPcs
  <2> QED BY <2>1, <2>2 DEF DeqCall, ConsumerTypes
<1>3. PendingBelow(c)'
  <2> SUFFICES ASSUME NEW e \in Settled PROVE \E i \in Indices : enqueued[i] = e /\ i < tail
    BY <1>0, <1>1 DEF PendingBelow, Quiet
  <2>1. e \in Elems /\ (e[2] < call[e[1]] \/ pc[e[1]] = "idle")
    BY DEF Settled
  <2>2. PICK i \in Indices : enqueued[i] = e
    BY DEF Settled
  <2>3. Enq(i)
    BY <2>1, <2>2 DEF Enq
  <2>4. i < tail
    BY <2>1, <2>2, <2>3 DEF ElementsInv, Published
  <2> QED BY <2>2, <2>4
<1>4. ConsumerOK(c)'
  <2>1. Filled(ct[c])'
    BY <1>0, <1>1 DEF LfringInv, ConsumerOK, Filled, Enq, Quiet
  <2> QED BY <1>0, <1>1, <1>3, <2>1 DEF ConsumerOK, CopiesHold, Quiet
<1> QED BY <1>0, <1>1, <1>2, <1>4, ConsumerStep DEF DeqCall, prodvars

LEMMA StepLoadTail ==
  ASSUME LfringAssumption, LfringInv, NEW c \in Consumers, LoadTail(c) \/ SpTail(c)
  PROVE  LfringInv'
<1> USE InvFacts, Constants
<1>0. c \in Threads /\ Quiet /\ tail' = tail /\ ConsumerOK(c)
  BY TailUnchanged DEF LoadTail, SpTail, LfringInv, history
<1>1. /\ DOMAIN pc' = Threads /\ pc[c] \in {"tail", "sp_tail"} /\ \A t \in Threads : t # c => pc'[t] = pc[t]
      /\ pc'[c] = (IF pc[c] = "tail" THEN "size" ELSE "size2")
      /\ ct' = [ct EXCEPT ![c] = tail] /\ ct'[c] = tail
      /\ UNCHANGED <<upd, ch, n, elems, scan, pending, prodvars>>
  BY <1>0 DEF LoadTail, SpTail, Goto, ConsumerTypes, history
<1>2. ConsumerTypes'
  <2>1. \A d \in Consumers : pc'[d] \in ConsumerPcs
    BY <1>1 DEF ConsumerTypes, ConsumerPcs
  <2> QED BY <1>1, <2>1 DEF ConsumerTypes
<1>3. PendingBelow(c)'
  <2> SUFFICES ASSUME NEW e \in pending[c] PROVE \E i \in Indices : enqueued[i] = e /\ i < tail
    BY <1>0, <1>1 DEF PendingBelow, Quiet
  <2>1. PICK i \in Indices : enqueued[i] = e /\ i < (IF pc[c] = "tail" THEN tail ELSE ct[c])
    BY <1>0, <1>1 DEF ConsumerOK, PendingBelow
  <2>2. pc[c] = "sp_tail" => ct[c] <= tail /\ ct[c] \in Nat
    BY <1>0 DEF ConsumerOK, ConsumerTypes
  <2> QED BY <1>1, <2>1, <2>2
<1>4. ConsumerOK(c)'
  <2>1. Filled(ct[c])'
    BY <1>0, <1>1 DEF Filled, Quiet
  <2> QED BY <1>0, <1>1, <1>3, <2>1 DEF ConsumerOK, CopiesHold, Quiet
<1> QED BY <1>0, <1>1, <1>2, <1>4, ConsumerStep

\* What c holds itself stays.
LEMMA SameCall ==
  ASSUME LfringAssumption, LfringInv, NEW c \in Consumers, Quiet, pc[c] \notin {"idle", "tail"},
         pc'[c] \notin {"idle", "tail"}, UNCHANGED <<ch, n, pending>>,
         ct'[c] \in Nat, ct'[c] >= ct[c], Filled(ct[c])'
  PROVE  /\ PendingBelow(c)' /\ Filled(ct[c])' /\ (ch[c] <= head)'
         /\ (SC /\ pc[c] # "idle" => head = ch[c])'
<1>1. PendingBelow(c)'
  <2> SUFFICES ASSUME NEW e \in pending[c] PROVE \E i \in Indices : enqueued[i] = e /\ i < ct'[c]
    BY DEF PendingBelow, Quiet
  <2>1. PICK i \in Indices : enqueued[i] = e /\ i < ct[c]
    BY DEF LfringInv, ConsumerOK, PendingBelow
  <2>2. ct[c] \in Nat /\ i \in Nat
    BY InvFacts, Constants DEF ConsumerTypes
  <2> QED BY <2>1, <2>2
<1> QED BY <1>1 DEF LfringInv, ConsumerOK, Quiet

LEMMA StepSized ==
  ASSUME LfringAssumption, LfringInv, NEW c \in Consumers, Sized(c) \/ SizedAgain(c)
  PROVE  LfringInv'
<1> USE InvFacts, Constants
<1>0. c \in Threads /\ Quiet /\ tail' = tail /\ ConsumerOK(c)
  BY TailUnchanged DEF Sized, SizedAgain, LfringInv, history
<1> DEFINE got == Actual(c) > 0
<1>1. /\ DOMAIN pc' = Threads /\ pc[c] \in {"size", "size2"} /\ \A t \in Threads : t # c => pc'[t] = pc[t]
      /\ got => pc'[c] = "copy"
      /\ ~got => pc'[c] \in {"sp_tail", "scan", "empty"}
      /\ pc'[c] = "scan" => ~SP
      /\ UNCHANGED <<upd, ch, ct, n, elems, pending, prodvars>>
      /\ scan' \in [Consumers -> 0 .. Batch] /\ \A d \in Consumers : d # c => scan'[d] = scan[d]
  <2>1. CASE Sized(c)
    BY <1>0, <2>1 DEF Sized, Goto, ConsumerTypes, history
  <2>2. CASE SizedAgain(c)
    BY <1>0, <2>2 DEF SizedAgain, Goto, ConsumerTypes, history, consvars
  <2> QED BY <2>1, <2>2
<1>2. ConsumerTypes'
  <2>1. \A d \in Consumers : pc'[d] \in ConsumerPcs
    BY <1>1 DEF ConsumerTypes, ConsumerPcs
  <2> QED BY <1>1, <2>1 DEF ConsumerTypes
<1>3. CopiesHold(c)'
  <2> SUFFICES ASSUME got
               PROVE  Actual(c)' = Actual(c) /\ scan'[c] = 0
    BY <1>1, ActualIs DEF CopiesHold
  <2>1. Actual(c)' = Actual(c)
    BY <1>1 DEF Actual
  <2>2. scan'[c] = 0
    BY <1>0 DEF Sized, SizedAgain, ConsumerOK, consvars, Goto, ConsumerTypes
  <2> QED BY <2>1, <2>2
<1>4. pc'[c] = "empty" => ct'[c] <= ch'[c]
  <2> SUFFICES ASSUME ~got, SizedAgain(c) PROVE ct[c] <= ch[c]
    <3>1. pc'[c] = "empty" => ~got /\ SizedAgain(c)
      BY <1>0, <1>1 DEF Sized, Goto
    <3> QED BY <1>1, <3>1
  <2>1. n[c] >= 1 /\ n[c] \in Int /\ ct[c] \in Int /\ ch[c] \in Int /\ ~(Actual(c) > 0)
    BY <1>0, <1>1 DEF ConsumerTypes, ConsumerOK
  <2> QED BY <2>1, ActualIs
<1>5. /\ PendingBelow(c)' /\ Filled(ct[c])' /\ (ch[c] <= head)'
      /\ (SC /\ pc[c] # "idle" => head = ch[c])'
  <2>1. ct'[c] \in Nat /\ ct'[c] >= ct[c] /\ Filled(ct[c])'
    BY <1>0, <1>1 DEF ConsumerTypes, ConsumerOK, Filled, Enq, Quiet
  <2> QED BY <1>0, <1>1, <2>1, SameCall
<1>6. ConsumerOK(c)'
  <2>1. pc'[c] \in {"sp_tail", "scan"} => scan'[c] = 0
    BY <1>0, <1>1 DEF Sized, SizedAgain, Goto, ConsumerTypes
  <2> QED BY <1>0, <1>1, <1>3, <1>4, <1>5, <2>1 DEF ConsumerOK
<1> QED BY <1>0, <1>1, <1>2, <1>6, ConsumerStep

LEMMA StepReturnEmpty ==
  ASSUME LfringAssumption, LfringInv, NEW c \in Consumers, ReturnEmpty(c)
  PROVE  LfringInv'
<1> USE InvFacts, Constants
<1>0. c \in Threads /\ Quiet /\ tail' = tail /\ ConsumerOK(c)
  BY TailUnchanged DEF ReturnEmpty, LfringInv, history
<1>1. /\ DOMAIN pc' = Threads /\ pc'[c] = "idle" /\ \A t \in Threads : t # c => pc'[t] = pc[t]
      /\ UNCHANGED <<upd, ch, ct, n, elems, scan, pending, prodvars>>
  BY <1>0 DEF ReturnEmpty, Goto, history, consvars
<1>2. ConsumerTypes'
  <2>1. \A d \in Consumers : pc'[d] \in ConsumerPcs
    BY <1>1 DEF ConsumerTypes, ConsumerPcs
  <2> QED BY <1>1, <2>1 DEF ConsumerTypes
<1>3. ConsumerOK(c)'
  <2>1. Filled(ct[c])'
    BY <1>0, <1>1 DEF ConsumerOK, Filled, Enq, Quiet
  <2> QED BY <1>0, <1>1, <2>1 DEF ConsumerOK, CopiesHold, PendingBelow, Quiet
<1> QED BY <1>0, <1>1, <1>2, <1>3, ConsumerStep

LEMMA StepScanTail ==
  ASSUME LfringAssumption, LfringInv, NEW c \in Consumers, ScanTail(c)
  PROVE  LfringInv'
<1> USE InvFacts, Constants
<1>0. c \in Threads /\ Quiet /\ tail' = tail /\ ConsumerOK(c) /\ ct[c] \in Nat
  BY TailUnchanged DEF ScanTail, LfringInv, ConsumerTypes, history
<1> DEFINE more == ct[c] < ch[c] + Size /\ ring[Slot(ct[c])].idx = ct[c]
<1>1. /\ DOMAIN pc' = Threads /\ pc[c] = "scan" /\ pc'[c] \in {"scan", "found"}
      /\ \A t \in Threads : t # c => pc'[t] = pc[t]
      /\ UNCHANGED <<upd, ch, n, elems, scan, pending, prodvars>>
      /\ ct' = [ct EXCEPT ![c] = IF more THEN @ + 1 ELSE @]
      /\ ct'[c] = (IF more THEN ct[c] + 1 ELSE ct[c])
  BY <1>0 DEF ScanTail, Goto, history, ConsumerTypes
<1>2. ConsumerTypes'
  <2>1. \A d \in Consumers : pc'[d] \in ConsumerPcs
    BY <1>1 DEF ConsumerTypes, ConsumerPcs
  <2> QED BY <1>0, <1>1, <2>1 DEF ConsumerTypes
<1>3. ASSUME more PROVE Enq(ct[c])
  <2>1. SlotHolds(Slot(ct[c])) /\ Slot(ct[c]) \in Slots
    BY <1>0, SlotArithmetic DEF ElementsInv, SlotsHold
  <2> QED BY <1>0, <1>3, <2>1 DEF SlotHolds
<1>4. Filled(ct[c])'
  <2>1. Filled(ct[c])
    BY <1>0 DEF ConsumerOK
  <2>2. \A j \in 0 .. ct'[c] - 1 : j \in 0 .. ct[c] - 1 \/ (more /\ j = ct[c])
    BY <1>0, <1>1
  <2>3. \A j \in 0 .. ct'[c] - 1 : Enq(j)
    BY <1>3, <2>1, <2>2 DEF Filled
  <2> QED BY <1>0, <2>3 DEF Filled, Enq, Quiet
<1>5. /\ PendingBelow(c)' /\ Filled(ct[c])' /\ (ch[c] <= head)'
      /\ (SC /\ pc[c] # "idle" => head = ch[c])'
  BY <1>0, <1>1, <1>4, SameCall
<1>6. ConsumerOK(c)'
  BY <1>0, <1>1, <1>5 DEF ConsumerOK, CopiesHold
<1> QED BY <1>0, <1>1, <1>2, <1>6, ConsumerStep

LEMMA StepFoundTail ==
  ASSUME LfringAssumption, LfringInv, NEW c \in Consumers, FoundTail(c)
  PROVE  LfringInv'
<1> USE InvFacts, Constants
<1>0. c \in Threads /\ ConsumerOK(c) /\ ct[c] \in Nat
  BY DEF LfringInv, ConsumerTypes
<1>1. /\ DOMAIN pc' = Threads /\ pc[c] \in {"found", "found_cas"} /\ pc'[c] \in {"found_cas", "size2"}
      /\ \A t \in Threads : t # c => pc'[t] = pc[t] /\ upd'[t] = upd[t]
      /\ upd' \in [Threads -> Int]
      /\ UNCHANGED <<head, ring, ch, n, elems, scan, pending, prodvars, enqueued, dequeued>>
      /\ ct' = [ct EXCEPT ![c] = IF pc'[c] = "size2" THEN Max({ct[c], tail}) ELSE ct[c]]
  BY <1>0 DEF FoundTail, CondLoad, CondCas, Goto, history, ConsumerTypes
<1>2. \/ /\ tail' = ct[c] /\ tail <= ct[c] /\ pc'[c] = "size2"
      \/ /\ tail' = tail
         /\ IF ct[c] < tail THEN pc'[c] = "size2" ELSE pc'[c] = "found_cas" /\ upd'[c] = tail
  <2>1. pc[c] = "found_cas" => upd[c] <= ct[c]
    BY <1>0 DEF ConsumerOK
  <2> QED BY <1>0, <2>1 DEF FoundTail, CondLoad, CondCas, Goto
<1>3. Quiet
  <2>1. tail' \in Nat /\ tail' >= tail
    BY <1>0, <1>2
  <2>2. Filled(ct[c]) /\ Filled(tail)
    BY <1>0 DEF ConsumerOK
  <2>3. \A j \in 0 .. tail' - 1 : Enq(j)
    BY <1>2, <2>2 DEF Filled
  <2>4. Filled(tail)'
    BY <1>1, <2>3 DEF Filled, Enq
  <2> QED BY <1>1, <2>1, <2>4 DEF Quiet
<1>4. /\ ct'[c] \in Nat /\ ct'[c] >= ct[c]
      /\ pc'[c] = "size2" => ct'[c] = tail'
      /\ pc'[c] = "found_cas" => ct'[c] = ct[c] /\ upd'[c] <= ct'[c]
  <2>1. Max({ct[c], tail}) = IF ct[c] <= tail THEN tail ELSE ct[c]
    <3>1. ct[c] \in Int /\ tail \in Int
      BY <1>0
    <3> QED BY <3>1, MinMax
  <2> QED BY <1>0, <1>1, <1>2, <2>1 DEF ConsumerTypes
<1>5. Filled(ct[c])'
  <2>1. pc'[c] = "size2" => Filled(ct[c])'
    BY <1>3, <1>4 DEF Filled, Quiet
  <2>2. pc'[c] = "found_cas" => Filled(ct[c])'
    BY <1>0, <1>3, <1>4 DEF Filled, Enq, Quiet, ConsumerOK
  <2> QED BY <1>1, <2>1, <2>2
<1>6. ConsumerTypes'
  <2>1. \A d \in Consumers : pc'[d] \in ConsumerPcs
    BY <1>1 DEF ConsumerTypes, ConsumerPcs
  <2>2. ct' \in [Consumers -> Nat]
    BY <1>1, <1>4 DEF ConsumerTypes
  <2> QED BY <1>1, <2>1, <2>2 DEF ConsumerTypes
<1>7. /\ PendingBelow(c)' /\ Filled(ct[c])' /\ (ch[c] <= head)'
      /\ (SC /\ pc[c] # "idle" => head = ch[c])'
  BY <1>0, <1>1, <1>3, <1>4, <1>5, SameCall
<1>8. ~SP
  BY <1>0, <1>1 DEF ConsumerOK
<1>9. ConsumerOK(c)'
  BY <1>0, <1>1, <1>3, <1>4, <1>7, <1>8 DEF ConsumerOK, CopiesHold, Quiet
<1> QED BY <1>0, <1>1, <1>3, <1>6, <1>8, <1>9, ConsumerStep

LEMMA StepCopyElem ==
  ASSUME LfringAssumption, LfringInv, NEW c \in Consumers, CopyElem(c)
  PROVE  LfringInv'
<1> USE InvFacts, Constants
<1> DEFINE i == ch[c] + scan[c]
<1>0. /\ c \in Threads /\ Quiet /\ tail' = tail /\ ConsumerOK(c) /\ scan[c] \in 0 .. Batch
      /\ n[c] \in 0 .. Batch /\ ch[c] \in Nat /\ ct[c] \in Nat /\ elems[c] \in [1 .. Batch -> Elems \cup {Null}]
  BY TailUnchanged DEF CopyElem, LfringInv, ConsumerTypes, history
<1>1. /\ DOMAIN pc' = Threads /\ pc[c] = "copy" /\ pc'[c] = "copy"
      /\ \A t \in Threads : t # c => pc'[t] = pc[t]
      /\ UNCHANGED <<upd, ch, ct, n, pending, prodvars>> /\ scan[c] < Actual(c)
      /\ elems' = [elems EXCEPT ![c][scan[c] + 1] = ring[Slot(i)].ptr]
      /\ scan' = [scan EXCEPT ![c] = scan[c] + 1]
  BY <1>0 DEF CopyElem, Goto, history, ConsumerTypes
<1>2. /\ scan'[c] = scan[c] + 1 /\ scan'[c] <= Actual(c) /\ scan'[c] \in 1 .. Batch /\ Actual(c) <= ct[c] - ch[c]
      /\ scan[c] \in Nat
  <2>1. scan'[c] = scan[c] + 1
    BY <1>1 DEF ConsumerTypes
  <2>2. Actual(c) \in Int /\ Actual(c) <= ct[c] - ch[c] /\ Actual(c) <= n[c]
    <3>1. Actual(c) = (IF ct[c] - ch[c] <= n[c] THEN ct[c] - ch[c] ELSE n[c]) /\ Actual(c) \in Int
      BY ActualIs
    <3>2. n[c] \in Int /\ ct[c] - ch[c] \in Int
      BY <1>0
    <3> QED BY <3>1, <3>2
  <2>3. scan[c] \in Nat /\ scan[c] < Actual(c) /\ n[c] \in Int /\ n[c] <= Batch
    BY <1>0, <1>1
  <2>4. scan[c] + 1 <= Actual(c) /\ scan[c] + 1 <= Batch
    BY <2>2, <2>3
  <2> QED BY <2>1, <2>2, <2>3, <2>4
<1>3. i \in Nat /\ Slot(i) \in Slots /\ ring[Slot(i)].ptr \in Elems \cup {Null}
  <2>1. i \in Nat /\ Slot(i) \in Slots
    <3>1. i \in Nat
      BY <1>0, <1>2
    <3> HIDE DEF i
    <3> QED BY <3>1, SlotArithmetic
  <2> QED BY <2>1 DEF SharedTypes, Contents
<1>4. /\ elems' \in [Consumers -> [1 .. Batch -> Elems \cup {Null}]]
      /\ elems'[c][scan[c] + 1] = ring[Slot(i)].ptr
      /\ \A k \in 1 .. Batch : k # scan[c] + 1 => elems'[c][k] = elems[c][k]
      /\ \A d \in Consumers : d # c => elems'[d] = elems[d]
  BY <1>0, <1>1, <1>2, <1>3 DEF ConsumerTypes
<1>5. ConsumerTypes'
  <2>1. \A d \in Consumers : pc'[d] \in ConsumerPcs
    BY <1>1 DEF ConsumerTypes, ConsumerPcs
  <2>2. scan' \in [Consumers -> 0 .. Batch]
    BY <1>1, <1>2 DEF ConsumerTypes
  <2> QED BY <1>1, <1>4, <2>1, <2>2 DEF ConsumerTypes
<1>6. CopiesHold(c)'
  <2>1. Actual(c)' = Actual(c)
    BY <1>1 DEF Actual
  <2>2. ASSUME head = ch[c] PROVE ring[Slot(i)].ptr = enqueued[i]
    <3>1. i \in head .. tail - 1
      <4>1. ct[c] <= tail
        BY <1>0, <1>1 DEF ConsumerOK
      <4>2. Actual(c) \in Int
        BY ActualIs
      <4> QED BY <1>0, <1>1, <1>2, <2>2, <4>1, <4>2
    <3>2. ring[Slot(i)] = [ptr |-> enqueued[i], idx |-> i]
      BY <3>1, LfringGives DEF PromisedSlotsAreFull
    <3> QED BY <3>2
  <2>3. ASSUME head = ch[c], NEW k \in 1 .. scan[c] + 1 PROVE elems'[c][k] = enqueued[ch[c] + k - 1]
    <3>1. CASE k = scan[c] + 1
      <4>1. ch[c] + k - 1 = i
        BY <1>0, <1>2, <3>1
      <4> QED BY <1>4, <2>2, <2>3, <3>1, <4>1
    <3>2. CASE k # scan[c] + 1
      <4>1. k \in 1 .. scan[c] /\ k \in 1 .. Batch
        BY <1>0, <1>2, <3>2
      <4> QED BY <1>0, <1>1, <1>4, <2>3, <3>2, <4>1 DEF ConsumerOK, CopiesHold
    <3> QED BY <3>1, <3>2
  <2>4. 0 < Actual(c)
    BY <1>0, <1>1 DEF ConsumerOK, CopiesHold
  <2> QED BY <1>0, <1>1, <1>2, <2>1, <2>3, <2>4 DEF CopiesHold, Quiet
<1>7. /\ PendingBelow(c)' /\ Filled(ct[c])' /\ (ch[c] <= head)'
      /\ (SC /\ pc[c] # "idle" => head = ch[c])'
  <2>1. ct'[c] \in Nat /\ ct'[c] >= ct[c] /\ Filled(ct[c])'
    BY <1>0, <1>1 DEF ConsumerTypes, ConsumerOK, Filled, Enq, Quiet
  <2> QED BY <1>0, <1>1, <2>1, SameCall
<1>8. ConsumerOK(c)'
  BY <1>0, <1>1, <1>6, <1>7 DEF ConsumerOK, Quiet
<1>9. \A d \in Consumers : d # c => scan'[d] = scan[d]
  BY <1>1 DEF ConsumerTypes
<1> QED BY <1>0, <1>1, <1>4, <1>5, <1>8, <1>9, ConsumerStep

LEMMA StepMoveHead ==
  ASSUME LfringAssumption, LfringInv, NEW c \in Consumers, MoveHead(c)
  PROVE  LfringInv'
<1> USE InvFacts, Constants
<1> DEFINE m == Actual(c)
<1>0. /\ c \in Threads /\ ConsumerOK(c) /\ n[c] \in 0 .. Batch /\ ch[c] \in Nat /\ ct[c] \in Nat
      /\ elems[c] \in [1 .. Batch -> Elems \cup {Null}] /\ m \in Int /\ m <= n[c] /\ m <= ct[c] - ch[c]
  <2>1. /\ ConsumerOK(c) /\ n[c] \in 0 .. Batch /\ ch[c] \in Nat /\ ct[c] \in Nat
        /\ elems[c] \in [1 .. Batch -> Elems \cup {Null}]
    BY DEF LfringInv, ConsumerTypes
  <2>2. m = (IF ct[c] - ch[c] <= n[c] THEN ct[c] - ch[c] ELSE n[c]) /\ m \in Int
    BY ActualIs
  <2> HIDE DEF m
  <2> QED BY <2>1, <2>2
<1>1. /\ pc[c] = "copy" /\ 0 < m /\ scan[c] = m /\ ct[c] <= tail
  BY <1>0 DEF MoveHead, Goto, ConsumerOK, CopiesHold
<1>2. CASE ~SC /\ head # ch[c] /\ Goto(c, "copy", "size") /\ ch' = [ch EXCEPT ![c] = head] /\ UNCHANGED <<head, dequeued>>
  <2>0. Quiet /\ tail' = tail
    BY <1>2, TailUnchanged DEF MoveHead
  <2>1. /\ DOMAIN pc' = Threads /\ pc'[c] = "size" /\ \A t \in Threads : t # c => pc'[t] = pc[t]
        /\ UNCHANGED <<upd, ct, n, elems, scan, pending, prodvars>> /\ ch'[c] = head
        /\ \A d \in Consumers : d # c => ch'[d] = ch[d]
    BY <1>0, <1>2 DEF MoveHead, Goto, ConsumerTypes
  <2>2. ConsumerTypes'
    <3>1. \A d \in Consumers : pc'[d] \in ConsumerPcs
      BY <2>1 DEF ConsumerTypes, ConsumerPcs
    <3> QED BY <1>2, <2>1, <3>1 DEF ConsumerTypes
  <2>3. Filled(ct[c])' /\ PendingBelow(c)'
    BY <1>0, <1>1, <2>0, <2>1 DEF ConsumerOK, Filled, Enq, PendingBelow, Quiet
  <2>4. ConsumerOK(c)'
    BY <1>0, <1>1, <1>2, <2>0, <2>1, <2>3 DEF ConsumerOK, CopiesHold, Quiet
  <2> QED BY <1>0, <2>0, <2>1, <2>2, <2>4, ConsumerStep
<1>3. CASE /\ SC \/ head = ch[c]
           /\ Goto(c, "copy", "idle")
           /\ head' = ch[c] + m
           /\ dequeued' = [e \in Elems |-> dequeued[e] + Cardinality({k \in 1 .. m : elems[c][k] = e})]
           /\ UNCHANGED ch
  <2>1. /\ head = ch[c] /\ head' = head + m /\ head' \in Nat /\ head' > head /\ head' <= tail
        /\ m \in 1 .. Batch
    BY <1>0, <1>1, <1>3 DEF ConsumerOK
  <2>2. /\ DOMAIN pc' = Threads /\ pc'[c] = "idle" /\ \A t \in Threads : t # c => pc'[t] = pc[t]
        /\ UNCHANGED <<tail, ring, upd, ch, ct, n, elems, scan, pending, enqueued, pt, old, actual, call>>
    BY <1>0, <1>3 DEF MoveHead, Goto, prodvars
  <2>3. \A i : Enq(i)' <=> Enq(i)
    BY <2>2 DEF Enq
  <2>4. \A k \in 1 .. m : elems[c][k] = enqueued[head + k - 1]
    BY <1>0, <1>1, <2>1 DEF ConsumerOK, CopiesHold
  <2>5. \A k \in 1 .. m : head + k - 1 \in Indices /\ Enq(head + k - 1)
    <3> SUFFICES ASSUME NEW k \in 1 .. m PROVE Enq(head + k - 1)
      BY DEF Enq
    <3>1. head \in Nat /\ tail \in Nat /\ m \in Nat /\ k \in Nat /\ 1 <= k /\ k <= m /\ head + m <= tail
      BY <2>1
    <3> HIDE DEF m
    <3>2. head + k - 1 \in 0 .. tail - 1
      BY <3>1
    <3> QED BY <3>2 DEF Filled
  <2> HIDE DEF m
  <2> DEFINE T(e) == {k \in 1 .. m : elems[c][k] = e}
  <2>6. ASSUME NEW e \in Elems PROVE IsFiniteSet(T(e)) /\ Cardinality(T(e)) \in Nat
    <3>1. IsFiniteSet(1 .. m)
      BY <2>1, FS_Interval
    <3>2. IsFiniteSet(T(e))
      BY <3>1, FS_Subset
    <3> QED BY <3>2, FS_CardinalityType
  <2>7. dequeued' \in [Elems -> Nat]
    <3>1. dequeued' = [e \in Elems |-> dequeued[e] + Cardinality(T(e))]
      BY <1>3
    <3> HIDE DEF T
    <3>2. \A e \in Elems : dequeued[e] + Cardinality(T(e)) \in Nat
      BY <2>6 DEF SharedTypes
    <3> QED BY <3>1, <3>2
  <2>8. Types'
    <3>1. \A t \in Consumers : pc'[t] \in ConsumerPcs
      BY <2>2 DEF ConsumerTypes, ConsumerPcs
    <3>2. \A t \in Producers : pc'[t] \in ProducerPcs
      BY <2>2 DEF ProducerTypes
    <3> QED BY <2>1, <2>2, <2>7, <3>1, <3>2 DEF Types, SharedTypes, ConsumerTypes, ProducerTypes
  <2>9. DequeuedInOrder'
    <3> SUFFICES ASSUME NEW i \in Indices, Enq(i)
                 PROVE  dequeued'[enqueued[i]] = IF i < head + m THEN 1 ELSE 0
      BY <2>1, <2>2 DEF DequeuedInOrder, Enq
    <3> DEFINE e == enqueued[i]
    <3>0. e \in Elems /\ i \in Nat /\ dequeued[e] = IF i < head THEN 1 ELSE 0
      BY DEF Enq, SharedTypes, ElementsInv, DequeuedInOrder
    <3>1. dequeued'[e] = dequeued[e] + Cardinality(T(e))
      BY <1>3, <3>0
    <3>2. \A k \in 1 .. m : elems[c][k] = e <=> k = i - head + 1
      <4> SUFFICES ASSUME NEW k \in 1 .. m PROVE elems[c][k] = e <=> head + k - 1 = i
        BY <2>1, <3>0
      <4> QED BY <2>4, <2>5 DEF ElementsInv, OneIndex
    <3>3. CASE head <= i /\ i < head + m
      <4>1. T(e) = {i - head + 1}
        BY <2>1, <3>0, <3>2, <3>3
      <4>2. Cardinality(T(e)) = 1
        BY <4>1, FS_Singleton
      <4> QED BY <3>0, <3>1, <3>3, <4>2
    <3>4. CASE ~(head <= i /\ i < head + m)
      <4>1. T(e) = {}
        BY <2>1, <3>0, <3>2, <3>4
      <4>2. Cardinality(T(e)) = 0
        BY <4>1, FS_EmptySet
      <4> QED BY <2>1, <3>0, <3>1, <3>4, <4>2
    <3> QED BY <3>3, <3>4
  <2>10. NotEarly'
    <3> SUFFICES ASSUME NEW e \in Elems, \A i \in Indices : enqueued[i] # e PROVE dequeued'[e] = 0
      BY <2>2 DEF NotEarly
    <3>1. T(e) = {}
      BY <2>4, <2>5
    <3>2. Cardinality(T(e)) = 0
      BY <3>1, FS_EmptySet
    <3> QED BY <1>3, <3>2 DEF ElementsInv, NotEarly
  <2>11. ElementsInv'
    <3>1. NoHoles'
      BY <2>1, <2>2, <2>3 DEF NoHoles, Filled
    <3>2. SlotsHold'
      BY <2>2, <2>3 DEF ElementsInv, SlotsHold, SlotHolds
    <3>3. InRoom'
      <4> SUFFICES ASSUME NEW i \in Indices, Enq(i) PROVE i < head' + Size
        BY <2>3 DEF InRoom
      <4>1. i < head + Size /\ i \in Nat
        BY DEF ElementsInv, InRoom
      <4> QED BY <2>1, <4>1
    <3>4. OneIndex'
      BY <2>2, <2>3 DEF ElementsInv, OneIndex, Written
    <3>5. Published'
      <4>1. \A i \in Indices : Enq(i) => enqueued[i][1] \in Producers
        BY ElemParts DEF Enq, SharedTypes
      <4>2. \A p \in Producers : pc'[p] = pc[p]
        BY <2>2
      <4> QED BY <2>2, <2>3, <4>1, <4>2 DEF ElementsInv, Published
    <3> QED BY <2>9, <2>10, <3>1, <3>2, <3>3, <3>4, <3>5 DEF ElementsInv
  <2>12. ASSUME NEW p \in Producers PROVE ProducerOK(p)'
    <3>0. pc'[p] = pc[p] /\ ProducerOK(p) /\ pt[p] \in Nat /\ upd[p] \in Int /\ actual[p] \in Int
      BY <2>2 DEF LfringInv, ProducerTypes
    <3>1. PassedIsFull(p)'
      BY <2>2, <2>3, <3>0 DEF ProducerOK, PassedIsFull, Filled
    <3>2. SingleProducer(p)'
      BY <2>1, <2>2, <2>3, <3>0 DEF ProducerOK, SingleProducer
    <3> QED BY <2>1, <2>2, <3>0, <3>1, <3>2 DEF ProducerOK
  <2>13. ASSUME NEW d \in Consumers PROVE ConsumerOK(d)'
    <3>0. ConsumerOK(d) /\ ch[d] \in Nat /\ ch[d] < head'
      <4>1. ConsumerOK(d) /\ ch[d] \in Nat
        BY DEF LfringInv, ConsumerTypes
      <4>2. ch[d] <= head
        BY <4>1 DEF ConsumerOK
      <4> QED BY <2>1, <4>1, <4>2
    <3>1. Filled(ct[d])'
      BY <2>2, <2>3, <3>0 DEF ConsumerOK, Filled
    <3>2. CASE d = c
      BY <2>1, <2>2, <3>0, <3>1, <3>2 DEF ConsumerOK, CopiesHold, PendingBelow
    <3>3. CASE d # c
      <4>1. ~SC /\ pc'[d] = pc[d]
        BY <2>2, <3>3 DEF LfringAssumption
      <4>2. CopiesHold(d)'
        BY <2>2, <3>0, <4>1 DEF ConsumerOK, CopiesHold, Actual
      <4>3. PendingBelow(d)'
        BY <2>2, <3>0, <4>1 DEF ConsumerOK, PendingBelow
      <4>4. ch'[d] <= head'
        BY <2>1, <2>2, <3>0
      <4> QED BY <2>2, <3>0, <3>1, <4>1, <4>2, <4>3, <4>4 DEF ConsumerOK
    <3> QED BY <3>2, <3>3
  <2> QED BY <2>8, <2>11, <2>12, <2>13 DEF LfringInv
<1> QED BY <1>2, <1>3 DEF MoveHead

-----------------------------------------------------------------------------
(* lfring_enqueue *)

\* While its call goes on, the elements of p stay below pt.
LEMMA SameElements ==
  ASSUME LfringAssumption, LfringInv, NEW p \in Producers, Quiet, pc[p] # "idle", pc'[p] # "idle",
         UNCHANGED <<call, actual>>, pt'[p] \in Nat, pt'[p] >= pt[p]
  PROVE  \A i \in Indices : Enq(i) /\ enqueued[i][1] = p => LET e == enqueued[i] IN
            /\ Written(e)'
            /\ IF e[2] < call'[p] \/ pc'[p] = "idle" THEN i < tail' ELSE i < pt'[p]
<1> USE InvFacts, Constants
<1> SUFFICES ASSUME NEW i \in Indices, Enq(i), enqueued[i][1] = p
             PROVE  LET e == enqueued[i] IN
                    /\ Written(e)'
                    /\ IF e[2] < call[p] THEN i < tail' ELSE i < pt'[p]
  OBVIOUS
<1>1. Written(enqueued[i])'
  BY DEF ElementsInv, OneIndex, Written, Quiet
<1>2. IF enqueued[i][2] < call[p] THEN i < tail ELSE i < pt[p]
  BY DEF ElementsInv, Published
<1>3. i \in Nat /\ pt[p] \in Nat /\ tail' \in Nat /\ tail' >= tail
  BY DEF ProducerTypes, Quiet
<1> QED BY <1>1, <1>2, <1>3

LEMMA StepEnqCall ==
  ASSUME LfringAssumption, LfringInv, NEW p \in Producers, EnqCall(p)
  PROVE  LfringInv'
<1> USE InvFacts, Constants
<1>0. p \in Threads /\ Quiet /\ tail' = tail /\ ProducerOK(p) /\ call[p] \in 0 .. Calls
  BY TailUnchanged DEF EnqCall, LfringInv, history, ProducerTypes
<1>1. /\ DOMAIN pc' = Threads /\ pc[p] = "idle" /\ pc'[p] = (IF SP THEN "sp_room" ELSE "room")
      /\ \A t \in Threads : t # p => pc'[t] = pc[t]
      /\ UNCHANGED <<upd, old, ch, ct, n, elems, scan, pending>>
      /\ call' = [call EXCEPT ![p] = @ + 1] /\ actual' = [actual EXCEPT ![p] = 0]
      /\ pt' = [pt EXCEPT ![p] = tail]
      /\ call[p] < Calls /\ call'[p] = call[p] + 1 /\ actual'[p] = 0 /\ pt'[p] = tail
  BY <1>0 DEF EnqCall, Goto, history, consvars, ProducerTypes
<1>2. ProducerTypes'
  <2>1. \A q \in Producers : pc'[q] \in ProducerPcs
    BY <1>1 DEF ProducerTypes, ProducerPcs
  <2> QED BY <1>0, <1>1, <2>1 DEF ProducerTypes
<1>3. ASSUME \A i : Enq(i)' <=> Enq(i) PROVE ProducerOK(p)'
  <2>1. PassedIsFull(p)'
    BY <1>0, <1>1 DEF PassedIsFull, Filled, Quiet
  <2>2. SingleProducer(p)'
    BY <1>0, <1>1, <1>3 DEF ProducerOK, SingleProducer, ProducerPcs
  <2> QED BY <1>0, <1>1, <2>1, <2>2 DEF ProducerOK
<1>4. ASSUME NEW i \in Indices, Enq(i), enqueued[i][1] = p
      PROVE  LET e == enqueued[i] IN
             /\ Written(e)'
             /\ IF e[2] < call'[p] \/ pc'[p] = "idle" THEN i < tail' ELSE i < pt'[p]
  <2>1. enqueued[i][2] \in Nat /\ enqueued[i][2] <= call[p]
    BY <1>0, <1>4, ElemParts DEF Enq, SharedTypes, ElementsInv, OneIndex, Written
  <2>2. i < tail
    BY <1>1, <1>4 DEF ElementsInv, Published
  <2>3. enqueued[i][2] < call'[p]
    BY <1>0, <1>1, <2>1
  <2> QED BY <1>0, <1>4, <2>2, <2>3 DEF Written, Quiet
<1> QED BY <1>0, <1>1, <1>2, <1>3, <1>4, ProducerStep DEF ProducerTypes

LEMMA StepSpRoom ==
  ASSUME LfringAssumption, LfringInv, NEW p \in Producers, SpRoom(p)
  PROVE  LfringInv'
<1> USE InvFacts, Constants
<1>0. p \in Threads /\ Quiet /\ tail' = tail /\ ProducerOK(p) /\ pt[p] \in Nat
  BY TailUnchanged DEF SpRoom, LfringInv, history, ProducerTypes
<1> DEFINE m == Min({head + Size - pt[p], Batch})
<1>1. m \in Int /\ m <= Batch /\ pt[p] + m <= head + Size
  <2>1. head + Size - pt[p] \in Int /\ Batch \in Int
    BY <1>0
  <2>2. m = IF head + Size - pt[p] <= Batch THEN head + Size - pt[p] ELSE Batch
    BY <2>1, MinMax
  <2> HIDE DEF m
  <2> QED BY <1>0, <2>1, <2>2
<1> HIDE DEF m
<1>2. /\ DOMAIN pc' = Threads /\ pc[p] = "sp_room" /\ pc'[p] = (IF m <= 0 THEN "idle" ELSE "sp_write")
      /\ \A t \in Threads : t # p => pc'[t] = pc[t] /\ upd'[t] = upd[t]
      /\ upd'[p] = m /\ upd' \in [Threads -> Int]
      /\ UNCHANGED <<pt, old, actual, call, ch, ct, n, elems, scan, pending>>
  <2>1. upd' = [upd EXCEPT ![p] = m]
    BY DEF SpRoom, m
  <2> QED BY <1>0, <1>1, <2>1 DEF SpRoom, Goto, history, consvars, prodvars
<1>3. ProducerTypes'
  <2>1. \A q \in Producers : pc'[q] \in ProducerPcs
    BY <1>2 DEF ProducerTypes, ProducerPcs
  <2> QED BY <1>2, <2>1 DEF ProducerTypes
<1>4. actual[p] = 0 /\ pt[p] = tail /\ SP
  BY <1>0, <1>2 DEF ProducerOK, SingleProducer, ProducerPcs
<1>5. ASSUME \A i : Enq(i)' <=> Enq(i) PROVE ProducerOK(p)'
  <2>1. PassedIsFull(p)'
    BY <1>0, <1>2, <1>5 DEF ProducerOK, PassedIsFull, Filled
  <2>2. SingleProducer(p)'
    BY <1>0, <1>1, <1>2, <1>4, <1>5 DEF ProducerOK, SingleProducer, Quiet
  <2> QED BY <1>0, <1>2, <2>1, <2>2 DEF ProducerOK
<1>6. ASSUME NEW i \in Indices, Enq(i), enqueued[i][1] = p
      PROVE  LET e == enqueued[i] IN
             /\ Written(e)'
             /\ IF e[2] < call'[p] \/ pc'[p] = "idle" THEN i < tail' ELSE i < pt'[p]
  <2>1. i < pt[p]
    BY <1>0, <1>2, <1>4, <1>6 DEF ProducerOK, SingleProducer
  <2>2. Written(enqueued[i])'
    BY <1>0, <1>2, <1>6 DEF ElementsInv, OneIndex, Written, Quiet
  <2> QED BY <1>0, <1>2, <1>4, <2>1, <2>2
<1> QED BY <1>0, <1>2, <1>3, <1>5, <1>6, ProducerStep

LEMMA StepSpPublish ==
  ASSUME LfringAssumption, LfringInv, NEW p \in Producers, SpPublish(p)
  PROVE  LfringInv'
<1> USE InvFacts, Constants
<1>0. p \in Threads /\ ProducerOK(p) /\ pt[p] \in Nat
  BY DEF LfringInv, ProducerTypes
<1>1. /\ DOMAIN pc' = Threads /\ pc[p] = "sp_write" /\ pc'[p] = "idle"
      /\ \A t \in Threads : t # p => pc'[t] = pc[t]
      /\ UNCHANGED <<head, ring, upd, pt, old, actual, call, ch, ct, n, elems, scan, pending, enqueued, dequeued>>
      /\ tail' = pt[p]
  BY <1>0 DEF SpPublish, Goto, history, consvars, prodvars
<1>2. SP /\ tail <= pt[p] /\ \A i \in Indices : Enq(i) => i < pt[p]
  BY <1>0, <1>1 DEF ProducerOK, SingleProducer, ProducerPcs
<1>3. Quiet
  <2>1. Filled(tail)'
    BY <1>0, <1>1 DEF ProducerOK, PassedIsFull, Filled, Enq
  <2> QED BY <1>0, <1>1, <1>2, <2>1 DEF Quiet
<1>4. ProducerTypes'
  <2>1. \A q \in Producers : pc'[q] \in ProducerPcs
    BY <1>1 DEF ProducerTypes, ProducerPcs
  <2> QED BY <1>1, <2>1 DEF ProducerTypes
<1>5. ASSUME \A i : Enq(i)' <=> Enq(i) PROVE ProducerOK(p)'
  <2>1. PassedIsFull(p)'
    BY <1>0, <1>1, <1>5 DEF ProducerOK, PassedIsFull, Filled
  <2>2. SingleProducer(p)'
    BY <1>1, <1>2, <1>5 DEF SingleProducer
  <2> QED BY <1>1, <2>1, <2>2 DEF ProducerOK
<1>6. ASSUME NEW i \in Indices, Enq(i), enqueued[i][1] = p
      PROVE  LET e == enqueued[i] IN
             /\ Written(e)'
             /\ IF e[2] < call'[p] \/ pc'[p] = "idle" THEN i < tail' ELSE i < pt'[p]
  <2>1. Written(enqueued[i])'
    BY <1>1, <1>6 DEF ElementsInv, OneIndex, Written
  <2> QED BY <1>1, <1>2, <1>6, <2>1
<1> QED BY <1>0, <1>1, <1>3, <1>4, <1>5, <1>6, ProducerStep

LEMMA StepRoom ==
  ASSUME LfringAssumption, LfringInv, NEW p \in Producers, Room(p)
  PROVE  LfringInv'
<1> USE InvFacts, Constants
<1>0. p \in Threads /\ Quiet /\ tail' = tail /\ ProducerOK(p) /\ pt[p] \in Nat
  BY TailUnchanged DEF Room, LfringInv, history, ProducerTypes
<1>1. /\ DOMAIN pc' = Threads /\ pc[p] = "room"
      /\ pc'[p] = (IF actual[p] < Batch /\ pt[p] < head + Size THEN "ptr" ELSE "update")
      /\ \A t \in Threads : t # p => pc'[t] = pc[t]
      /\ UNCHANGED <<upd, pt, old, actual, call, ch, ct, n, elems, scan, pending>>
  BY <1>0 DEF Room, Goto, history, consvars, prodvars
<1>2. ProducerTypes'
  <2>1. \A q \in Producers : pc'[q] \in ProducerPcs
    BY <1>1 DEF ProducerTypes, ProducerPcs
  <2> QED BY <1>1, <2>1 DEF ProducerTypes
<1>3. ~SP
  BY <1>0, <1>1 DEF ProducerOK, SingleProducer
<1>4. ASSUME \A i : Enq(i)' <=> Enq(i) PROVE ProducerOK(p)'
  <2>1. PassedIsFull(p)'
    BY <1>0, <1>1, <1>4 DEF ProducerOK, PassedIsFull, Filled
  <2>2. SingleProducer(p)'
    BY <1>1, <1>3 DEF SingleProducer, ProducerPcs
  <2> QED BY <1>0, <1>1, <2>1, <2>2 DEF ProducerOK, Quiet
<1> QED BY <1>0, <1>1, <1>2, <1>4, SameElements, ProducerStep

\* A producer that has room and reads its slot: it is one lap back or enqueued.
LEMMA StepLoadSlot ==
  ASSUME LfringAssumption, LfringInv, NEW p \in Producers,
         UNCHANGED <<head, tail, ring, pt, actual, call, upd, ch, ct, n, elems, scan, pending, enqueued, dequeued>>,
         Goto(p, "ptr", "idx") \/ Goto(p, "idx", "check") \/ Goto(p, "check", "check"),
         old' \in [Producers -> Contents], \A q \in Producers : q # p => old'[q] = old[q],
         pc'[p] = "check" => old'[p].idx = ring[Slot(pt[p])].idx
  PROVE  LfringInv'
<1> USE InvFacts, Constants
<1>0. p \in Threads /\ Quiet /\ tail' = tail /\ ProducerOK(p) /\ pt[p] \in Nat
  BY TailUnchanged DEF LfringInv, ProducerTypes
<1>1. /\ DOMAIN pc' = Threads /\ pc[p] \in {"ptr", "idx", "check"} /\ pc'[p] \in {"idx", "check"}
      /\ \A t \in Threads : t # p => pc'[t] = pc[t]
  BY <1>0 DEF Goto
<1>2. ProducerTypes'
  <2>1. \A q \in Producers : pc'[q] \in ProducerPcs
    BY <1>1 DEF ProducerTypes, ProducerPcs
  <2> QED BY <1>1, <2>1 DEF ProducerTypes
<1>3. ~SP /\ pt[p] < head + Size
  BY <1>0, <1>1 DEF ProducerOK, SingleProducer
<1>4. ASSUME \A i : Enq(i)' <=> Enq(i) PROVE ProducerOK(p)'
  <2>1. PassedIsFull(p)'
    <3>1. Filled(pt[p])'
      BY <1>0, <1>4 DEF ProducerOK, PassedIsFull, Filled
    <3>2. ASSUME pc'[p] = "check", old'[p].idx # pt[p] - Size PROVE Enq(pt[p])
      BY <1>0, <1>3, <3>2, OneLap
    <3> QED BY <1>4, <3>1, <3>2 DEF PassedIsFull
  <2>2. SingleProducer(p)'
    BY <1>1, <1>3 DEF SingleProducer, ProducerPcs
  <2> QED BY <1>0, <1>1, <2>1, <2>2 DEF ProducerOK
<1>5. pc[p] # "idle" /\ pc'[p] # "idle" /\ pt'[p] \in Nat /\ pt'[p] >= pt[p]
  BY <1>0, <1>1
<1> QED BY <1>0, <1>1, <1>2, <1>4, <1>5, SameElements, ProducerStep

LEMMA StepLoads ==
  ASSUME LfringAssumption, LfringInv, NEW p \in Producers, LoadPtr(p) \/ LoadIdx(p)
  PROVE  LfringInv'
<1> USE InvFacts, Constants
<1> DEFINE s == ring[Slot(pt[p])]
<1>0. s \in Contents /\ s.ptr \in Elems \cup {Null} /\ s.idx \in Int /\ old[p] \in Contents
  <2>1. pt[p] \in Nat /\ old[p] \in Contents
    BY DEF ProducerTypes
  <2>2. Slot(pt[p]) \in Slots
    BY <2>1, SlotArithmetic
  <2> QED BY <2>1, <2>2 DEF SharedTypes, Contents
<1> HIDE DEF s
<1>1. /\ UNCHANGED <<head, tail, ring, pt, actual, call, upd, ch, ct, n, elems, scan, pending, enqueued, dequeued>>
      /\ Goto(p, "ptr", "idx") \/ Goto(p, "idx", "check")
  BY DEF LoadPtr, LoadIdx, history, consvars
<1>2. old' = [old EXCEPT ![p].ptr = s.ptr] \/ old' = [old EXCEPT ![p].idx = s.idx]
  BY DEF LoadPtr, LoadIdx, s
<1>3. old' \in [Producers -> Contents] /\ \A q \in Producers : q # p => old'[q] = old[q]
  BY <1>0, <1>2 DEF ProducerTypes, Contents
<1>4. pc'[p] = "check" => old'[p].idx = s.idx
  <2>1. pc'[p] = "check" => LoadIdx(p)
    BY DEF LoadPtr, Goto
  <2>2. LoadIdx(p) => old' = [old EXCEPT ![p].idx = s.idx]
    BY DEF LoadIdx, s
  <2> QED BY <1>0, <2>1, <2>2 DEF ProducerTypes, Contents
<1> QED BY <1>1, <1>3, <1>4, StepLoadSlot DEF s

LEMMA StepSkipSlot ==
  ASSUME LfringAssumption, LfringInv, NEW p \in Producers, SkipSlot(p)
  PROVE  LfringInv'
<1> USE InvFacts, Constants
<1>0. p \in Threads /\ Quiet /\ tail' = tail /\ ProducerOK(p) /\ pt[p] \in Nat
  BY TailUnchanged DEF SkipSlot, LfringInv, history, ProducerTypes
<1>1. /\ DOMAIN pc' = Threads /\ pc[p] = "check" /\ pc'[p] = "room" /\ old[p].idx # pt[p] - Size
      /\ \A t \in Threads : t # p => pc'[t] = pc[t]
      /\ UNCHANGED <<upd, old, actual, call, ch, ct, n, elems, scan, pending>>
      /\ (pt'[p] = tail /\ pt[p] < tail) \/ pt'[p] = pt[p] + 1
      /\ \A q \in Producers : q # p => pt'[q] = pt[q]
      /\ pt' \in [Producers -> Nat]
  BY <1>0 DEF SkipSlot, Goto, history, consvars, ProducerTypes
<1>2. ProducerTypes'
  <2>1. \A q \in Producers : pc'[q] \in ProducerPcs
    BY <1>1 DEF ProducerTypes, ProducerPcs
  <2> QED BY <1>1, <2>1 DEF ProducerTypes
<1>3. ~SP /\ Enq(pt[p]) /\ Filled(pt[p])
  BY <1>0, <1>1 DEF ProducerOK, SingleProducer, PassedIsFull
<1>4. \A j \in 0 .. pt'[p] - 1 : Enq(j)
  <2>1. CASE pt'[p] = tail
    BY <2>1 DEF Filled
  <2>2. CASE pt'[p] = pt[p] + 1
    <3>1. \A j \in 0 .. pt'[p] - 1 : j \in 0 .. pt[p] - 1 \/ j = pt[p]
      BY <1>0, <2>2
    <3> QED BY <1>3, <3>1 DEF Filled
  <2> QED BY <1>1, <2>1, <2>2
<1>5. ASSUME \A i : Enq(i)' <=> Enq(i) PROVE ProducerOK(p)'
  <2>1. PassedIsFull(p)'
    BY <1>1, <1>4, <1>5 DEF PassedIsFull, Filled
  <2>2. SingleProducer(p)'
    BY <1>1, <1>3 DEF SingleProducer, ProducerPcs
  <2> QED BY <1>0, <1>1, <2>1, <2>2 DEF ProducerOK
<1>6. pt'[p] \in Nat /\ pt'[p] >= pt[p]
  BY <1>0, <1>1
<1> QED BY <1>0, <1>1, <1>2, <1>5, <1>6, SameElements, ProducerStep

LEMMA StepUpdateTail ==
  ASSUME LfringAssumption, LfringInv, NEW p \in Producers, UpdateTail(p)
  PROVE  LfringInv'
<1> USE InvFacts, Constants
<1>0. p \in Threads /\ ProducerOK(p) /\ pt[p] \in Nat
  BY DEF LfringInv, ProducerTypes
<1>1. /\ DOMAIN pc' = Threads /\ pc[p] \in {"update", "update_cas"} /\ pc'[p] \in {"idle", "update_cas"}
      /\ \A t \in Threads : t # p => pc'[t] = pc[t] /\ upd'[t] = upd[t]
      /\ upd' \in [Threads -> Int]
      /\ UNCHANGED <<head, ring, pt, old, actual, call, ch, ct, n, elems, scan, pending, enqueued, dequeued>>
  BY <1>0 DEF UpdateTail, CondLoad, CondCas, Goto, history, prodvars, consvars
<1>2. \/ /\ tail' = pt[p] /\ tail <= pt[p] /\ pc'[p] = "idle"
      \/ /\ tail' = tail
         /\ IF pt[p] < tail THEN pc'[p] = "idle" ELSE pc'[p] = "update_cas" /\ upd'[p] = tail
  <2>1. pc[p] = "update_cas" => upd[p] <= pt[p]
    BY <1>0 DEF ProducerOK
  <2> QED BY <1>0, <2>1 DEF UpdateTail, CondLoad, CondCas, Goto
<1>3. Quiet
  <2>1. tail' \in Nat /\ tail' >= tail
    BY <1>0, <1>2
  <2>2. Filled(pt[p]) /\ Filled(tail)
    BY <1>0 DEF ProducerOK, PassedIsFull
  <2>3. \A j \in 0 .. tail' - 1 : Enq(j)
    BY <1>2, <2>2 DEF Filled
  <2>4. Filled(tail)'
    BY <1>1, <2>3 DEF Filled, Enq
  <2> QED BY <1>1, <2>1, <2>4 DEF Quiet
<1>4. ~SP
  BY <1>0, <1>1 DEF ProducerOK, SingleProducer
<1>5. ProducerTypes'
  <2>1. \A q \in Producers : pc'[q] \in ProducerPcs
    BY <1>1 DEF ProducerTypes, ProducerPcs
  <2> QED BY <1>1, <2>1 DEF ProducerTypes
<1>6. ASSUME \A i : Enq(i)' <=> Enq(i) PROVE ProducerOK(p)'
  <2>1. PassedIsFull(p)'
    BY <1>0, <1>1, <1>6 DEF ProducerOK, PassedIsFull, Filled
  <2>2. SingleProducer(p)'
    BY <1>1, <1>4 DEF SingleProducer, ProducerPcs
  <2>3. pc'[p] = "update_cas" => upd'[p] <= pt'[p]
    BY <1>0, <1>1, <1>2
  <2> QED BY <1>0, <1>1, <2>1, <2>2, <2>3 DEF ProducerOK
<1>7. ASSUME NEW i \in Indices, Enq(i), enqueued[i][1] = p
      PROVE  LET e == enqueued[i] IN
             /\ Written(e)'
             /\ IF e[2] < call'[p] \/ pc'[p] = "idle" THEN i < tail' ELSE i < pt'[p]
  <2>1. Written(enqueued[i])'
    BY <1>1, <1>7 DEF ElementsInv, OneIndex, Written
  <2>2. IF enqueued[i][2] < call[p] THEN i < tail ELSE i < pt[p]
    BY <1>1, <1>7 DEF ElementsInv, Published
  <2>3. tail' \in Nat /\ tail' >= tail /\ i \in Nat
    BY <1>3 DEF Quiet
  <2>4. pc'[p] = "idle" => tail' >= pt[p]
    BY <1>0, <1>2
  <2> QED BY <1>0, <1>1, <2>1, <2>2, <2>3, <2>4
<1> QED BY <1>0, <1>1, <1>3, <1>5, <1>6, <1>7, ProducerStep

\* Index pt is enqueued.
LEMMA StepWrite ==
  ASSUME LfringAssumption, LfringInv, NEW p \in Producers,
         actual[p] < Batch, pt[p] < head + Size, ring[Slot(pt[p])].idx = pt[p] - Size,
         \/ Goto(p, "sp_write", "sp_write") /\ actual[p] < upd[p]
         \/ Goto(p, "check", "room"),
         ring' = [ring EXCEPT ![Slot(pt[p])] = [ptr |-> Elem(p), idx |-> pt[p]]],
         enqueued' = [enqueued EXCEPT ![pt[p]] = Elem(p)],
         actual' = [actual EXCEPT ![p] = @ + 1], pt' = [pt EXCEPT ![p] = @ + 1],
         UNCHANGED <<head, tail, old, call, upd, ch, ct, n, elems, scan, dequeued, pending>>
  PROVE  LfringInv'
<1> USE InvFacts, Constants
<1> DEFINE w == pt[p]
           s == Slot(w)
           e == Elem(p)
<1>0. /\ p \in Threads /\ ProducerOK(p) /\ w \in Nat /\ s \in Slots /\ actual[p] \in Nat
      /\ call[p] \in 0 .. Calls /\ upd[p] \in Int
  <2>1. w \in Nat
    BY DEF ProducerTypes
  <2>2. s \in Slots
    BY <2>1, SlotArithmetic
  <2> QED BY <2>1, <2>2 DEF LfringInv, ProducerTypes
<1>1. /\ DOMAIN pc' = Threads /\ pc[p] # "idle" /\ pc'[p] # "idle"
      /\ \A t \in Threads : t # p => pc'[t] = pc[t]
      /\ pc'[p] = "sp_write" => pc[p] = "sp_write" /\ actual[p] < upd[p]
      /\ pc[p] = "sp_write" => pc'[p] = "sp_write"
      /\ pc'[p] \in {"sp_write", "room"} /\ (pc'[p] = "room" => pc[p] = "check")
  BY <1>0 DEF Goto
<1>2. e \in Elems /\ e = <<p, call[p], actual[p] + 1>> /\ e[1] = p /\ e[2] = call[p] /\ e[3] = actual[p] + 1
  <2>1. call[p] \in 1 .. Calls /\ actual[p] + 1 \in 1 .. Batch
    BY <1>0, <1>1 DEF ProducerOK
  <2> QED BY <2>1, ElemParts DEF Elem
<1> HIDE DEF e
<1>3. \A i \in Indices : enqueued[i] # e
  <2> SUFFICES ASSUME NEW i \in Indices, enqueued[i] = e PROVE FALSE
    OBVIOUS
  <2>1. Enq(i)
    BY <1>2 DEF Enq
  <2>2. Written(e)
    BY <2>1 DEF ElementsInv, OneIndex
  <2> QED BY <1>0, <1>2, <2>2 DEF Written
<1>4. w \in Indices /\ Filled(w)
  <2>1. Filled(w) /\ OneIndex
    BY <1>0 DEF ProducerOK, PassedIsFull, ElementsInv
  <2> HIDE DEF w
  <2> QED BY <1>0, <1>2, <1>3, <2>1, NextIsIndex
<1>5. ~Enq(w)
  <2>1. Enq(w) => ring[s].idx >= w
    BY <1>4 DEF ElementsInv, SlotsHold
  <2> QED BY <1>0, <2>1
<1>6. w >= head
  <2>1. w < head => w \in 0 .. tail - 1
    BY <1>0
  <2> QED BY <1>0, <1>5, <2>1 DEF Filled
<1>7. /\ enqueued'[w] = e /\ \A i \in Indices : i # w => enqueued'[i] = enqueued[i]
      /\ enqueued' \in [Indices -> Elems \cup {Null}]
      /\ ring'[s] = [ptr |-> e, idx |-> w] /\ \A r \in Slots : r # s => ring'[r] = ring[r]
      /\ ring' \in [Slots -> Contents]
  <2>1. [ptr |-> e, idx |-> w] \in Contents
    BY <1>0, <1>2 DEF Contents
  <2>2. enqueued' = [enqueued EXCEPT ![w] = e] /\ ring' = [ring EXCEPT ![s] = [ptr |-> e, idx |-> w]]
    BY DEF e
  <2> HIDE DEF w, s
  <2>3. /\ enqueued'[w] = e /\ \A i \in Indices : i # w => enqueued'[i] = enqueued[i]
        /\ enqueued' \in [Indices -> Elems \cup {Null}]
    <3>1. enqueued \in [Indices -> Elems \cup {Null}] /\ w \in Indices /\ e \in Elems \cup {Null}
      BY <1>2, <1>4 DEF SharedTypes
    <3>2. enqueued'[w] = e
      BY <2>2, <3>1
    <3>3. \A i \in Indices : i # w => enqueued'[i] = enqueued[i]
      BY <2>2, <3>1
    <3>4. enqueued' \in [Indices -> Elems \cup {Null}]
      BY <2>2, <3>1
    <3> QED BY <3>2, <3>3, <3>4
  <2>4. /\ ring'[s] = [ptr |-> e, idx |-> w] /\ \A r \in Slots : r # s => ring'[r] = ring[r]
        /\ ring' \in [Slots -> Contents]
    <3>1. ring \in [Slots -> Contents] /\ s \in Slots
      BY <1>0 DEF SharedTypes
    <3>2. ring'[s] = [ptr |-> e, idx |-> w]
      BY <2>2, <3>1
    <3>3. \A r \in Slots : r # s => ring'[r] = ring[r]
      BY <2>2, <3>1
    <3>4. ring' \in [Slots -> Contents]
      BY <2>1, <2>2, <3>1
    <3> QED BY <3>2, <3>3, <3>4
  <2> QED BY <2>3, <2>4
<1>8. /\ pt'[p] = w + 1 /\ actual'[p] = actual[p] + 1 /\ pt' \in [Producers -> Nat]
      /\ actual' \in [Producers -> 0 .. Batch]
      /\ \A q \in Producers : q # p => pt'[q] = pt[q] /\ actual'[q] = actual[q]
  BY <1>0 DEF ProducerTypes
<1> HIDE DEF w, s
<1>9. \A i : Enq(i)' <=> Enq(i) \/ i = w
  BY <1>2, <1>4, <1>7 DEF Enq
<1>10. /\ \A m : Filled(m) => \A j \in 0 .. m - 1 : Enq(j)'
       /\ \A j \in 0 .. w : Enq(j)'
  <2>1. \A m : Filled(m) => \A j \in 0 .. m - 1 : Enq(j)'
    BY <1>9 DEF Filled
  <2>2. \A j \in 0 .. w : j \in 0 .. w - 1 \/ j = w
    BY <1>0
  <2> QED BY <1>4, <1>9, <2>1, <2>2
<1>11. Types'
  <2>1. \A c \in Consumers : pc'[c] \in ConsumerPcs
    BY <1>1 DEF ConsumerTypes
  <2>2. \A q \in Producers : pc'[q] \in ProducerPcs
    BY <1>1 DEF ProducerTypes, ProducerPcs
  <2> QED BY <1>1, <1>7, <1>8, <2>1, <2>2 DEF Types, SharedTypes, ProducerTypes, ConsumerTypes
<1>12. NoHoles'
  <2>1. \A i \in Indices : Enq(i)' => Filled(i)'
    <3> SUFFICES ASSUME NEW i \in Indices, Enq(i) \/ i = w PROVE \A j \in 0 .. i - 1 : Enq(j)'
      BY <1>9 DEF Filled
    <3>1. Filled(i)
      BY <1>4 DEF NoHoles
    <3> QED BY <1>10, <3>1
  <2>2. Filled(tail)'
    BY <1>10 DEF Filled
  <2> QED BY <2>1, <2>2 DEF NoHoles
<1>13. SlotsHold'
  <2>1. ASSUME NEW r \in Slots PROVE SlotHolds(r)'
    <3>1. CASE r = s
      <4>1. ring'[r].idx = w /\ ring'[r].ptr = e
        BY <1>7, <3>1
      <4> QED BY <1>0, <1>7, <1>9, <3>1, <4>1 DEF SlotHolds, s
    <3>2. CASE r # s
      <4>1. SlotHolds(r) /\ ring'[r] = ring[r]
        BY <1>7, <3>2 DEF ElementsInv, SlotsHold
      <4> DEFINE k == ring[r].idx
      <4>2. CASE k = r - Size
        BY <4>1, <4>2 DEF SlotHolds
      <4>3. CASE k \in Nat /\ Slot(k) = r /\ Enq(k) /\ ring[r].ptr = enqueued[k]
        <5>1. k # w /\ k \in Indices
          BY <3>2, <4>3 DEF s, Enq
        <5>2. enqueued'[k] = enqueued[k] /\ Enq(k)'
          BY <1>7, <1>9, <4>3, <5>1
        <5> QED BY <4>1, <4>3, <5>2 DEF SlotHolds
      <4> QED BY <4>1, <4>2, <4>3 DEF SlotHolds
    <3> QED BY <3>1, <3>2
  <2>2. ASSUME NEW i \in Indices, Enq(i) \/ i = w PROVE ring'[Slot(i)].idx >= i
    <3>0. i \in Nat /\ Slot(i) \in Slots
      BY SlotArithmetic
    <3>1. CASE Slot(i) = s
      <4>1. ring'[Slot(i)].idx = w
        BY <1>7, <3>1
      <4>2. Enq(i) => ring[s].idx >= i
        BY <3>1 DEF ElementsInv, SlotsHold
      <4>3. ring[s].idx = w - Size
        BY DEF s, w
      <4> QED BY <1>0, <2>2, <3>0, <4>1, <4>2, <4>3
    <3>2. CASE Slot(i) # s
      <4>1. Enq(i) /\ ring'[Slot(i)] = ring[Slot(i)]
        BY <1>7, <2>2, <3>0, <3>2 DEF s
      <4> QED BY <4>1 DEF ElementsInv, SlotsHold
    <3> QED BY <3>1, <3>2
  <2> QED BY <1>9, <2>1, <2>2 DEF SlotsHold
<1>14. InRoom'
  <2>1. w < head + Size
    BY DEF w
  <2> QED BY <1>9, <2>1 DEF ElementsInv, InRoom
<1>15. OneIndex'
  <2>1. ASSUME NEW i \in Indices, NEW j \in Indices, Enq(i)', enqueued'[i] = enqueued'[j] PROVE i = j
    <3>1. CASE i = w \/ j = w
      BY <1>3, <1>7, <2>1, <3>1
    <3>2. CASE i # w /\ j # w
      BY <1>7, <1>9, <2>1, <3>2 DEF ElementsInv, OneIndex
    <3> QED BY <3>1, <3>2
  <2>2. ASSUME NEW i \in Indices, Enq(i)' PROVE Written(enqueued[i])'
    <3>1. CASE i = w
      BY <1>2, <1>7, <1>8, <3>1, <1>0 DEF Written
    <3>2. CASE i # w
      <4>1. Written(enqueued[i]) /\ enqueued'[i] = enqueued[i] /\ enqueued[i] \in Elems
        BY <1>7, <1>9, <2>2, <3>2 DEF ElementsInv, OneIndex, Enq, SharedTypes
      <4>2. enqueued[i][1] \in Producers /\ enqueued[i][3] \in Nat
        BY <4>1, ElemParts
      <4> QED BY <1>0, <1>8, <4>1, <4>2 DEF Written
    <3> QED BY <3>1, <3>2
  <2> QED BY <2>1, <2>2 DEF OneIndex
<1>16. Published'
  <2> SUFFICES ASSUME NEW i \in Indices, Enq(i)'
               PROVE  LET f == enqueued'[i] IN
                      IF f[2] < call[f[1]] \/ pc'[f[1]] = "idle" THEN i < tail ELSE i < pt'[f[1]]
    BY DEF Published
  <2>1. CASE i = w
    BY <1>0, <1>1, <1>2, <1>7, <1>8, <2>1
  <2>2. CASE i # w
    <3>1. Enq(i) /\ enqueued'[i] = enqueued[i] /\ enqueued[i] \in Elems /\ i \in Nat
      BY <1>7, <1>9, <2>2 DEF Enq, SharedTypes
    <3> DEFINE f == enqueued[i]
    <3>2. IF f[2] < call[f[1]] \/ pc[f[1]] = "idle" THEN i < tail ELSE i < pt[f[1]]
      BY <3>1 DEF ElementsInv, Published
    <3>3. f[1] \in Producers
      BY <3>1, ElemParts
    <3>4. pc'[f[1]] = "idle" <=> pc[f[1]] = "idle"
      BY <1>1, <3>3
    <3>5. pt'[f[1]] >= pt[f[1]] /\ pt[f[1]] \in Nat /\ pt'[f[1]] \in Nat
      BY <1>0, <1>8, <3>3 DEF w, ProducerTypes
    <3> HIDE DEF f
    <3>6. IF f[2] < call[f[1]] \/ pc'[f[1]] = "idle" THEN i < tail ELSE i < pt'[f[1]]
      BY <3>1, <3>2, <3>4, <3>5
    <3> QED BY <3>1, <3>6 DEF f
  <2> QED BY <2>1, <2>2
<1>17. NotEarly'
  <2> SUFFICES ASSUME NEW f \in Elems, \A i \in Indices : enqueued'[i] # f PROVE dequeued[f] = 0
    BY DEF NotEarly
  <2>1. \A i \in Indices : enqueued[i] # f
    BY <1>5, <1>7 DEF Enq
  <2> QED BY <2>1 DEF ElementsInv, NotEarly
<1>18. DequeuedInOrder'
  <2> SUFFICES ASSUME NEW i \in Indices, enqueued'[i] # Null
               PROVE  dequeued[enqueued'[i]] = IF i < head THEN 1 ELSE 0
    BY DEF DequeuedInOrder
  <2>1. CASE i = w
    BY <1>0, <1>2, <1>3, <1>6, <1>7, <2>1 DEF ElementsInv, NotEarly
  <2>2. CASE i # w
    BY <1>7, <2>2 DEF ElementsInv, DequeuedInOrder
  <2> QED BY <2>1, <2>2
<1>19. ASSUME NEW q \in Producers PROVE ProducerOK(q)'
  <2>1. CASE q = p
    <3>1. PassedIsFull(p)'
      <4>1. \A j \in 0 .. pt'[p] - 1 : j \in 0 .. w
        BY <1>0, <1>8
      <4> QED BY <1>1, <1>10, <4>1 DEF PassedIsFull, Filled
    <3>2. SingleProducer(p)'
      <4>1. /\ pc'[p] \in (IF SP THEN {"idle", "sp_room", "sp_write"} ELSE ProducerPcs \ {"sp_room", "sp_write"})
            /\ SP => tail <= w /\ \A i \in Indices : Enq(i) => i < w
        <5>1. SP => pc[p] = "sp_write" /\ pc'[p] = "sp_write"
          BY <1>0, <1>1 DEF ProducerOK, SingleProducer
        <5>2. ~SP => pc'[p] = "room"
          BY <1>0, <1>1 DEF ProducerOK, SingleProducer
        <5>3. SP => tail <= w /\ \A i \in Indices : Enq(i) => i < w
          BY <1>0, <5>1 DEF ProducerOK, SingleProducer, w
        <5> QED BY <5>1, <5>2, <5>3 DEF ProducerPcs
      <4>2. SP => tail' <= pt'[p] /\ \A i \in Indices : Enq(i)' => i < pt'[p]
        BY <1>0, <1>8, <1>9, <4>1
      <4>3. pc'[p] = "sp_write" => /\ actual'[p] <= upd'[p] /\ upd'[p] <= Batch
                                   /\ pt'[p] + upd'[p] - actual'[p] <= head' + Size
        <5>1. pc'[p] = "sp_write" => /\ actual[p] < upd[p] /\ upd[p] <= Batch
                                     /\ w + upd[p] - actual[p] <= head + Size
          BY <1>0, <1>1 DEF ProducerOK, SingleProducer, w
        <5> QED BY <1>0, <1>8, <5>1
      <4> QED BY <1>1, <4>1, <4>2, <4>3 DEF SingleProducer
    <3>3. call'[p] >= 1
      BY <1>0, <1>1 DEF ProducerOK
    <3> QED BY <1>1, <2>1, <3>1, <3>2, <3>3 DEF ProducerOK
  <2>2. CASE q # p
    <3>0. ~SP /\ ProducerOK(q) /\ pc'[q] = pc[q] /\ pt'[q] = pt[q] /\ actual'[q] = actual[q]
      BY <1>1, <1>8, <2>2 DEF LfringAssumption, LfringInv
    <3>1. PassedIsFull(q)'
      BY <1>9, <1>10, <3>0 DEF ProducerOK, PassedIsFull, Filled
    <3>2. SingleProducer(q)'
      BY <3>0 DEF ProducerOK, SingleProducer
    <3> QED BY <3>0, <3>1, <3>2 DEF ProducerOK
  <2> QED BY <2>1, <2>2
<1>20. ASSUME NEW d \in Consumers PROVE ConsumerOK(d)'
  <2>0. ConsumerOK(d) /\ pc'[d] = pc[d] /\ ct[d] \in Nat /\ ch[d] \in Nat /\ scan[d] \in Nat /\ n[d] \in Nat
    BY <1>1 DEF LfringInv, ConsumerTypes
  <2>1. Filled(ct[d])'
    BY <1>10, <2>0 DEF ConsumerOK, Filled
  <2>2. CopiesHold(d)'
    <3> SUFFICES ASSUME pc[d] = "copy"
                 PROVE  /\ 0 < Actual(d) /\ scan[d] <= Actual(d)
                        /\ head = ch[d] => \A k \in 1 .. scan[d] : elems[d][k] = enqueued'[ch[d] + k - 1]
      BY <2>0 DEF CopiesHold, Actual
    <3>1. 0 < Actual(d) /\ scan[d] <= Actual(d)
      BY <2>0 DEF ConsumerOK, CopiesHold
    <3>2. ASSUME head = ch[d], NEW k \in 1 .. scan[d] PROVE elems[d][k] = enqueued'[ch[d] + k - 1]
      <4>1. elems[d][k] = enqueued[ch[d] + k - 1]
        BY <2>0, <3>2 DEF ConsumerOK, CopiesHold
      <4>2. ch[d] + k - 1 \in 0 .. ct[d] - 1
        BY <2>0, <3>1, ActualIs
      <4>3. Enq(ch[d] + k - 1)
        BY <2>0, <4>2 DEF ConsumerOK, Filled
      <4>4. ch[d] + k - 1 # w /\ ch[d] + k - 1 \in Indices
        BY <1>5, <4>3 DEF Enq
      <4> QED BY <1>7, <4>1, <4>4
    <3> QED BY <3>1, <3>2
  <2>3. PendingBelow(d)'
    <3> SUFFICES ASSUME pc[d] # "idle", NEW f \in pending[d]
                 PROVE  \E i \in Indices : enqueued'[i] = f /\ i < (IF pc[d] = "tail" THEN tail ELSE ct[d])
      BY <2>0 DEF PendingBelow
    <3>1. PICK i \in Indices : enqueued[i] = f /\ i < (IF pc[d] = "tail" THEN tail ELSE ct[d])
      BY <2>0 DEF ConsumerOK, PendingBelow
    <3>2. f \in Elems
      BY DEF ConsumerTypes
    <3>3. Enq(i)
      BY <3>1, <3>2 DEF Enq
    <3> QED BY <1>5, <1>7, <3>1, <3>3
  <2> QED BY <2>0, <2>1, <2>2, <2>3 DEF ConsumerOK
<1>21. ElementsInv'
  BY <1>12, <1>13, <1>14, <1>15, <1>16, <1>17, <1>18 DEF ElementsInv
<1> QED BY <1>11, <1>19, <1>20, <1>21 DEF LfringInv

LEMMA StepSwapSlot ==
  ASSUME LfringAssumption, LfringInv, NEW p \in Producers, SwapSlot(p)
  PROVE  LfringInv'
<1> USE InvFacts, Constants
<1>0. pc[p] = "check" /\ ProducerOK(p) /\ pt[p] \in Nat /\ old[p].idx = pt[p] - Size
  BY DEF SwapSlot, Goto, LfringInv, ProducerTypes
<1>1. CASE ring[Slot(pt[p])] = old[p]
  <2>1. actual[p] < Batch /\ pt[p] < head + Size /\ ring[Slot(pt[p])].idx = pt[p] - Size
    BY <1>0, <1>1 DEF ProducerOK
  <2> QED BY <1>1, <2>1, StepWrite DEF SwapSlot, consvars
<1>2. CASE ring[Slot(pt[p])] # old[p]
  <2>1. Slot(pt[p]) \in Slots
    BY <1>0, SlotArithmetic
  <2>2. /\ Goto(p, "check", "check") /\ old' = [old EXCEPT ![p] = ring[Slot(pt[p])]]
        /\ UNCHANGED <<head, tail, ring, pt, actual, call, upd, ch, ct, n, elems, scan, pending, enqueued, dequeued>>
    BY <1>2 DEF SwapSlot, consvars
  <2>3. old' \in [Producers -> Contents] /\ old'[p] = ring[Slot(pt[p])] /\ \A q \in Producers : q # p => old'[q] = old[q]
    BY <2>1, <2>2 DEF ProducerTypes, SharedTypes
  <2> QED BY <2>2, <2>3, StepLoadSlot
<1> QED BY <1>1, <1>2

LEMMA StepSpWrite ==
  ASSUME LfringAssumption, LfringInv, NEW p \in Producers, SpWrite(p)
  PROVE  LfringInv'
<1> USE InvFacts, Constants
<1>0. pc[p] = "sp_write" /\ actual[p] < upd[p] /\ ProducerOK(p)
  BY DEF SpWrite, Goto, LfringInv
<1>1. ring[Slot(pt[p])].idx = pt[p] - Size
  BY <1>0, LfringGives DEF SlotIsOneLapBack
<1>2. actual[p] < Batch /\ pt[p] < head + Size
  <2>1. upd[p] <= Batch /\ pt[p] + upd[p] - actual[p] <= head + Size
    BY <1>0 DEF ProducerOK, SingleProducer
  <2>2. pt[p] \in Nat /\ actual[p] \in Nat /\ upd[p] \in Int
    BY DEF ProducerTypes
  <2> QED BY <1>0, <2>1, <2>2
<1> QED BY <1>0, <1>1, <1>2, StepWrite DEF SpWrite, consvars

LEMMA LfringStep == LfringAssumption /\ LfringInv /\ [Next]_vars => LfringInv'
<1> SUFFICES ASSUME LfringAssumption, LfringInv, [Next]_vars PROVE LfringInv'
  OBVIOUS
<1>1. ASSUME NEW p \in Producers, Enqueue(p) PROVE LfringInv'
  BY <1>1, StepEnqCall, StepSpRoom, StepSpWrite, StepSpPublish, StepRoom, StepLoads, StepSkipSlot,
     StepSwapSlot, StepUpdateTail DEF Enqueue
<1>2. ASSUME NEW c \in Consumers, Dequeue(c) PROVE LfringInv'
  BY <1>2, StepDeqCall, StepLoadTail, StepSized, StepScanTail, StepFoundTail, StepReturnEmpty,
     StepCopyElem, StepMoveHead DEF Dequeue
<1>3. CASE UNCHANGED vars
  <2> USE DEF vars, prodvars, consvars, history
  <2>1. Types'
    BY <1>3 DEF LfringInv, Types, SharedTypes, ProducerTypes, ConsumerTypes
  <2>2. ElementsInv'
    BY <1>3 DEF LfringInv, ElementsInv, NoHoles, SlotsHold, SlotHolds, InRoom, OneIndex, Written,
       Published, NotEarly, DequeuedInOrder, Enq, Filled
  <2>3. \A p \in Producers : ProducerOK(p)'
    BY <1>3 DEF LfringInv, ProducerOK, PassedIsFull, SingleProducer, Enq, Filled
  <2>4. \A c \in Consumers : ConsumerOK(c)'
    BY <1>3 DEF LfringInv, ConsumerOK, CopiesHold, PendingBelow, Enq, Filled, Actual
  <2> QED BY <2>1, <2>2, <2>3, <2>4 DEF LfringInv
<1> QED BY <1>1, <1>2, <1>3 DEF Next

\* lfring_enqueue and lfring_dequeue for any number of threads, any batches and any size, with
\* or without the flags: every slot that head and tail promise holds its element, elements
\* leave once and in the order of their indices, the assertion of the single producer holds,
\* and a dequeue returns 0 only when all elements enqueued before it are gone.
THEOREM LfringIsSafe ==
  LfringAssumption /\ Spec
    => [](PromisedSlotsAreFull /\ DequeuedInOrder /\ SlotIsOneLapBack /\ EmptyIsReal)
<1> SUFFICES ASSUME LfringAssumption
             PROVE  Spec => [](PromisedSlotsAreFull /\ DequeuedInOrder /\ SlotIsOneLapBack /\ EmptyIsReal)
  OBVIOUS
<1>1. Init => LfringInv
  BY LfringInit
<1>2. LfringInv /\ [Next]_vars => LfringInv'
  BY LfringStep
<1>3. LfringInv => PromisedSlotsAreFull /\ DequeuedInOrder /\ SlotIsOneLapBack /\ EmptyIsReal
  BY LfringGives
<1> QED BY <1>1, <1>2, <1>3, PTL DEF Spec
=============================================================================
