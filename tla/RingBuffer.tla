----------------------------- MODULE RingBuffer -----------------------------
(***************************************************************************)
(* ringbuffer/ringbuffer.c: a ring for one producer and one consumer that   *)
(* enqueues and dequeues several objects at a time.                         *)
(*                                                                          *)
(* The four indices run modulo Mod (2^32) and are masked when the ring is   *)
(* accessed.  An object is named by the index it is enqueued at, so a slot  *)
(* that is read too early, too late or in the wrong lap shows.  One action  *)
(* is the call with its look at the other side, the copy of one object, or  *)
(* the publication of the new tail.                                         *)
(***************************************************************************)
EXTENDS Integers, Sequences

CONSTANTS
    Size,       \* count, a power of 2
    Mod,        \* 2^32, a multiple of Size
    Batch,      \* objects per call
    Watermark   \* prod.watermark; ringbuf_init sets it to count

VARIABLES
    prod_head, prod_tail, cons_head, cons_tail, ring,
    ppc, p,         \* producer: control, what ENQUEUE_PTRS has copied
    cpc, obj_table, \* consumer: control, what DEQUEUE_PTRS has copied
    free, ret       \* producer: free_entries, and its return value

vars == <<prod_head, prod_tail, cons_head, cons_tail, ring, ppc, p, cpc, obj_table, free, ret>>

mask    == Size - 1
Indices == 0..Mod - 1
Empty   == -1

TypeOK ==
    /\ {prod_head, prod_tail, cons_head, cons_tail} \subseteq Indices
    /\ ring \in [0..mask -> Indices \cup {Empty}]
    /\ ppc \in {"idle", "copy"} /\ cpc \in {"idle", "copy"}
    /\ p \in 0..Batch /\ Len(obj_table) <= Batch /\ free \in 0..mask
    /\ ret \in {"0", "ENOBUFS", "EDQUOT"}

\* ringbuf_init.
Init ==
    /\ prod_head = 0 /\ prod_tail = 0 /\ cons_head = 0 /\ cons_tail = 0
    /\ ring = [i \in 0..mask |-> Empty]
    /\ ppc = "idle" /\ p = 0 /\ cpc = "idle" /\ obj_table = <<>>
    /\ free = 0 /\ ret = "0"

\* Mutant: the second part of a batch starts at 1.
Slot_NoWrap(head, n, k) ==
    LET idx == head % Size
    IN  IF idx + n < Size \/ idx + k < Size THEN idx + k ELSE (idx + k - Size + 1) % Size

\* The slot of the k-th of n objects from index head on: straight ahead if they end
\* before the end of the ring, else from its beginning again.
Slot(head, n, k) ==
    LET idx == head % Size
    IN  IF idx + n < Size \/ idx + k < Size THEN idx + k ELSE idx + k - Size

-----------------------------------------------------------------------------
free_entries == (mask + cons_tail - prod_head) % Mod

\* ringbuffer_sp_do_enqueue: is there room?
Enqueue(n) ==
    /\ ppc = "idle"
    /\ IF n > free_entries
         THEN ret' = "ENOBUFS" /\ UNCHANGED <<prod_head, ppc, free>>
         ELSE /\ prod_head' = (prod_head + n) % Mod
              /\ free' = free_entries /\ ppc' = "copy"
              /\ UNCHANGED ret
    /\ UNCHANGED <<prod_tail, cons_head, cons_tail, ring, p, cpc, obj_table>>

Enqueued == (prod_head - prod_tail) % Mod       \* n of the call

EnqueuePtr ==
    /\ ppc = "copy" /\ p < Enqueued
    /\ ring' = [ring EXCEPT ![Slot(prod_tail, Enqueued, p)] = (prod_tail + p) % Mod]
    /\ p' = p + 1
    /\ UNCHANGED <<prod_head, prod_tail, cons_head, cons_tail, ppc, cpc, obj_table, free, ret>>

EnqueueEnd ==
    /\ ppc = "copy" /\ p = Enqueued
    /\ prod_tail' = prod_head
    /\ ret' = IF Size - free + Enqueued > Watermark THEN "EDQUOT" ELSE "0"
    /\ ppc' = "idle" /\ p' = 0 /\ free' = 0
    /\ UNCHANGED <<prod_head, cons_head, cons_tail, ring, cpc, obj_table>>

entries == (prod_tail - cons_head) % Mod

\* Mutant: the consumer counts the entries up to the producer's head.
Dequeue_FromHead(n) ==
    /\ cpc = "idle" /\ n <= (prod_head - cons_head) % Mod
    /\ cons_head' = (cons_head + n) % Mod /\ cpc' = "copy"
    /\ UNCHANGED <<prod_head, prod_tail, cons_tail, ring, ppc, p, obj_table, free, ret>>

\* ringbuffer_sc_do_dequeue; with too few entries it returns -ENOENT.
Dequeue(n) ==
    /\ cpc = "idle" /\ n <= entries
    /\ cons_head' = (cons_head + n) % Mod /\ cpc' = "copy"
    /\ UNCHANGED <<prod_head, prod_tail, cons_tail, ring, ppc, p, obj_table, free, ret>>

Dequeued == (cons_head - cons_tail) % Mod

DequeuePtr ==
    LET i == Len(obj_table) IN
    /\ cpc = "copy" /\ i < Dequeued
    /\ obj_table' = Append(obj_table, ring[Slot(cons_tail, Dequeued, i)])
    /\ UNCHANGED <<prod_head, prod_tail, cons_head, cons_tail, ring, ppc, p, cpc, free, ret>>

DequeueEnd ==
    /\ cpc = "copy" /\ Len(obj_table) = Dequeued
    /\ cons_tail' = cons_head /\ cpc' = "idle" /\ obj_table' = <<>>
    /\ UNCHANGED <<prod_head, prod_tail, cons_head, ring, ppc, p, free, ret>>

Producer == (\E n \in 1..Batch : Enqueue(n)) \/ EnqueuePtr \/ EnqueueEnd
Consumer == (\E n \in 1..Batch : Dequeue(n)) \/ DequeuePtr \/ DequeueEnd

Next == Producer \/ Consumer

Spec == Init /\ [][Next]_vars

is_full  == (cons_tail - prod_tail - 1) % Size = 0
is_empty == cons_tail = prod_tail

-----------------------------------------------------------------------------
\* First in, first out: the objects that dequeue copies are the next ones that were
\* enqueued, also when the indices or the ring wrap around in the middle of a call.
DequeuedAreNext ==
    \A i \in DOMAIN obj_table : obj_table[i] = (cons_tail + i - 1) % Mod

\* Objects between the two tails stay in the ring until the consumer has moved its
\* tail: the producer's slots and the consumer's never meet.
PublishedAreKept ==
    \A k \in 0..((prod_tail - cons_tail) % Mod) - 1 :
        ring[(cons_tail + k) % Size] = (cons_tail + k) % Mod

\* "The real usable ring size is (count - 1)", "free_entries is always between 0 and
\* size(ring) - 1" (ringbuffer.c:88, 229), whatever the 32-bit subtractions wrap over.
NeverOverfull ==
    /\ free_entries < Size /\ entries < Size
    /\ (prod_head - cons_tail) % Mod < Size

\* ringbuf_is_full and ringbuf_is_empty, with their own arithmetic, agree with what
\* the next call would do: main fills the ring until it is full without a look at
\* the return value.  Watermarking is off: no enqueue returns EDQUOT.
TestsAgree ==
    /\ ppc = "idle" => (is_full <=> 1 > free_entries)
    /\ cpc = "idle" /\ cons_head = cons_tail => (is_empty <=> 1 > entries)
    /\ Watermark = Size => ret # "EDQUOT"
=============================================================================
