-------------------------------- MODULE LFRing --------------------------------
(***************************************************************************)
(* The lock-free ring buffer of lfring/lfring.c: lfring_enqueue and        *)
(* lfring_dequeue with cond_update, cond_reload and find_tail, in multi-   *)
(* and single-producer and in multi- and single-consumer mode.             *)
(*                                                                         *)
(* A slot holds an element and the index it was enqueued with; a multi-    *)
(* producer enqueue replaces both with one double-word compare-and-        *)
(* exchange.  The published tail may lag behind the slots.  Indices are    *)
(* integers here (the code's serial numbers do not wrap in a run).         *)
(***************************************************************************)
EXTENDS Integers, FiniteSets, FiniteSetsExt

CONSTANTS
    Producers, Consumers,
    Size,           \* slots (mask + 1)
    Batch,          \* n_elems of an enqueue; consumers ask for 1 .. Batch
    Calls,          \* enqueue calls per producer
    MaxDequeues,    \* bound: dequeue calls per consumer
    SP, SC,         \* the flags; each only with a single thread on its side
    Null

Elems == Producers \X (1 .. Calls) \X (1 .. Batch)
Slots == 0 .. Size - 1
Slot(i) == i % Size

VARIABLES
    head, tail,
    ring,               \* by slot: [ptr, idx]
    pc,
    pt, old, actual, call, upd,     \* a producer: tail, slot read, progress
    ch, ct, n, elems, scan, calls,  \* a consumer: head, tail, what it copied
    enqueued, dequeued, pending     \* histories (see below)

\* enqueued: by index, the element written there; dequeued: how often each
\* element was returned; pending: for a consumer in a call, the elements whose
\* enqueue had returned when the call began.
prodvars == <<pt, old, actual, call>>
consvars == <<ch, ct, n, elems, scan, calls>>
history  == <<enqueued, dequeued, pending>>
vars == <<head, tail, ring, pc, prodvars, upd, consvars, history>>

Threads == Producers \cup Consumers
Indices == 0 .. Cardinality(Elems) - 1

\* lfring_alloc: every slot was "used one lap back".
Init ==
    /\ head = 0 /\ tail = 0
    /\ ring = [s \in Slots |-> [ptr |-> Null, idx |-> s - Size]]
    /\ pc = [t \in Threads |-> "idle"]
    /\ pt = [p \in Producers |-> 0]
    /\ old = [p \in Producers |-> [ptr |-> Null, idx |-> 0]]
    /\ actual = [p \in Producers |-> 0]
    /\ call = [p \in Producers |-> 0]
    /\ upd = [t \in Threads |-> 0]
    /\ ch = [c \in Consumers |-> 0] /\ ct = [c \in Consumers |-> 0]
    /\ n = [c \in Consumers |-> 0]
    /\ elems = [c \in Consumers |-> [k \in 1 .. Batch |-> Null]]
    /\ scan = [c \in Consumers |-> 0] /\ calls = [c \in Consumers |-> 0]
    /\ enqueued = [i \in Indices |-> Null]
    /\ dequeued = [e \in Elems |-> 0]
    /\ pending = [c \in Consumers |-> {}]

Goto(t, from, to) == pc[t] = from /\ pc' = [pc EXCEPT ![t] = to]
Elem(p) == <<p, call[p], actual[p] + 1>>

-----------------------------------------------------------------------------
(* cond_update: raise lfr->tail to neu, unless it is already beyond *)

CondLoad(t, from, to, done, neu) ==
    /\ Goto(t, from, IF neu < tail THEN done ELSE to)
    /\ upd' = [upd EXCEPT ![t] = tail]

\* The weak compare-and-exchange may fail and loads the new value.
CondCas(t, from, to, done, neu) ==
    \/ /\ tail = upd[t]
       /\ Goto(t, from, done)
       /\ tail' = neu
       /\ UNCHANGED upd
    \/ /\ CondLoad(t, from, to, done, neu)
       /\ UNCHANGED tail

-----------------------------------------------------------------------------
(* lfring_enqueue *)

EnqCall(p) ==
    /\ call[p] < Calls
    /\ Goto(p, "idle", IF SP THEN "sp_room" ELSE "room")
    /\ call' = [call EXCEPT ![p] = @ + 1]
    /\ actual' = [actual EXCEPT ![p] = 0]
    /\ pt' = [pt EXCEPT ![p] = tail]
    /\ UNCHANGED <<head, tail, ring, old, upd, consvars, history>>

\* Single producer: room for how many?
SpRoom(p) ==
    /\ upd' = [upd EXCEPT ![p] = Min({head + Size - pt[p], Batch})]
    /\ Goto(p, "sp_room", IF upd'[p] <= 0 THEN "idle" ELSE "sp_write")
    /\ UNCHANGED <<head, tail, ring, prodvars, consvars, history>>

\* Mutant: every element of a batch goes to the first slot.
SpWrite_SameSlot(p) ==
    /\ actual[p] < upd[p]
    /\ Goto(p, "sp_write", "sp_write")
    /\ ring' = [ring EXCEPT ![Slot(tail)] = [ptr |-> Elem(p), idx |-> pt[p]]]
    /\ enqueued' = [enqueued EXCEPT ![pt[p]] = Elem(p)]
    /\ actual' = [actual EXCEPT ![p] = @ + 1]
    /\ pt' = [pt EXCEPT ![p] = @ + 1]
    /\ UNCHANGED <<head, tail, old, call, upd, consvars, dequeued, pending>>

SpWrite(p) ==
    /\ actual[p] < upd[p]
    /\ Goto(p, "sp_write", "sp_write")
    /\ ring' = [ring EXCEPT ![Slot(pt[p])] = [ptr |-> Elem(p), idx |-> pt[p]]]
    /\ enqueued' = [enqueued EXCEPT ![pt[p]] = Elem(p)]
    /\ actual' = [actual EXCEPT ![p] = @ + 1]
    /\ pt' = [pt EXCEPT ![p] = @ + 1]
    /\ UNCHANGED <<head, tail, old, call, upd, consvars, dequeued, pending>>

SpPublish(p) ==
    /\ actual[p] = upd[p]
    /\ Goto(p, "sp_write", "idle")
    /\ tail' = pt[p]
    /\ UNCHANGED <<head, ring, prodvars, upd, consvars, history>>

\* Mutant: does not look at head.
Room_NoHead(p) ==
    /\ Goto(p, "room", IF actual[p] < Batch THEN "ptr" ELSE "update")
    /\ UNCHANGED <<head, tail, ring, prodvars, upd, consvars, history>>

\* Multi-producer: the loop condition, with a fresh head.
Room(p) ==
    /\ Goto(p, "room", IF actual[p] < Batch /\ pt[p] < head + Size THEN "ptr" ELSE "update")
    /\ UNCHANGED <<head, tail, ring, prodvars, upd, consvars, history>>

LoadPtr(p) ==
    /\ Goto(p, "ptr", "idx")
    /\ old' = [old EXCEPT ![p].ptr = ring[Slot(pt[p])].ptr]
    /\ UNCHANGED <<head, tail, ring, pt, actual, call, upd, consvars, history>>

LoadIdx(p) ==
    /\ Goto(p, "idx", "check")
    /\ old' = [old EXCEPT ![p].idx = ring[Slot(pt[p])].idx]
    /\ UNCHANGED <<head, tail, ring, pt, actual, call, upd, consvars, history>>

\* Mutant: goes back one slot.
SkipSlot_Back(p) ==
    /\ old[p].idx # pt[p] - Size
    /\ Goto(p, "check", "room")
    /\ pt' = [pt EXCEPT ![p] = @ - 1]
    /\ UNCHANGED <<head, tail, ring, old, actual, call, upd, consvars, history>>

\* The slot is not one lap back: skip it, or (cond_reload) restart from the
\* published tail if that is further on.
SkipSlot(p) ==
    /\ old[p].idx # pt[p] - Size
    /\ Goto(p, "check", "room")
    /\ pt' = [pt EXCEPT ![p] = IF old[p].idx # pt[p] /\ pt[p] < tail THEN tail ELSE @ + 1]
    /\ UNCHANGED <<head, tail, ring, old, actual, call, upd, consvars, history>>

SwapSlot(p) ==
    /\ old[p].idx = pt[p] - Size
    /\ \/ /\ ring[Slot(pt[p])] = old[p]
          /\ Goto(p, "check", "room")
          /\ ring' = [ring EXCEPT ![Slot(pt[p])] = [ptr |-> Elem(p), idx |-> pt[p]]]
          /\ enqueued' = [enqueued EXCEPT ![pt[p]] = Elem(p)]
          /\ actual' = [actual EXCEPT ![p] = @ + 1]
          /\ pt' = [pt EXCEPT ![p] = @ + 1]
          /\ UNCHANGED old
       \/ /\ ring[Slot(pt[p])] # old[p]
          /\ Goto(p, "check", "check")
          /\ old' = [old EXCEPT ![p] = ring[Slot(pt[p])]]
          /\ UNCHANGED <<ring, enqueued, actual, pt>>
    /\ UNCHANGED <<head, tail, call, upd, consvars, dequeued, pending>>

UpdateTail(p) ==
    /\ \/ CondLoad(p, "update", "update_cas", "idle", pt[p]) /\ UNCHANGED tail
       \/ CondCas(p, "update_cas", "update_cas", "idle", pt[p])
    /\ UNCHANGED <<head, ring, prodvars, consvars, history>>

-----------------------------------------------------------------------------
(* lfring_dequeue *)

\* Elements whose enqueue has returned and that nobody has dequeued.
Settled == {e \in Elems :
    /\ \E i \in Indices : enqueued[i] = e
    /\ e[2] < call[e[1]] \/ pc[e[1]] = "idle"
    /\ dequeued[e] = 0}

DeqCall(c) ==
    /\ calls[c] < MaxDequeues
    /\ Goto(c, "idle", "tail")
    /\ calls' = [calls EXCEPT ![c] = @ + 1]
    /\ \E k \in 1 .. Batch : n' = [n EXCEPT ![c] = k]
    /\ ch' = [ch EXCEPT ![c] = head]
    /\ pending' = [pending EXCEPT ![c] = Settled]
    /\ UNCHANGED <<head, tail, ring, prodvars, upd, ct, elems, scan, enqueued, dequeued>>

LoadTail(c) ==
    /\ Goto(c, "tail", "size")
    /\ ct' = [ct EXCEPT ![c] = tail]
    /\ UNCHANGED <<head, tail, ring, prodvars, upd, ch, n, elems, scan, calls, history>>

\* Mutant: one element is left in the ring.
Actual_OneLess(c) == Min({ct[c] - ch[c] - 1, n[c]})

Actual(c) == Min({ct[c] - ch[c], n[c]})

\* Empty as far as head and tail say: scan for unreleased elements.
Sized(c) ==
    /\ Goto(c, "size", IF Actual(c) > 0 THEN "copy" ELSE IF SP THEN "sp_tail" ELSE "scan")
    /\ scan' = [scan EXCEPT ![c] = 0]
    /\ UNCHANGED <<head, tail, ring, prodvars, upd, ch, ct, n, elems, calls, history>>

\* find_tail with a single producer.
SpTail(c) ==
    /\ Goto(c, "sp_tail", "size2")
    /\ ct' = [ct EXCEPT ![c] = tail]
    /\ UNCHANGED <<head, tail, ring, prodvars, upd, ch, n, elems, scan, calls, history>>

\* find_tail with several.
ScanTail(c) ==
    LET more == ct[c] < ch[c] + Size /\ ring[Slot(ct[c])].idx = ct[c] IN
    /\ Goto(c, "scan", IF more THEN "scan" ELSE "found")
    /\ ct' = [ct EXCEPT ![c] = IF more THEN @ + 1 ELSE @]
    /\ UNCHANGED <<head, tail, ring, prodvars, upd, ch, n, elems, scan, calls, history>>

FoundTail(c) ==
    /\ \/ CondLoad(c, "found", "found_cas", "size2", ct[c]) /\ UNCHANGED tail
       \/ CondCas(c, "found_cas", "found_cas", "size2", ct[c])
    /\ ct' = [ct EXCEPT ![c] = IF pc'[c] = "size2" THEN Max({@, tail}) ELSE @]
    /\ UNCHANGED <<head, ring, prodvars, ch, n, elems, scan, calls, history>>

\* Still nothing: return 0.
SizedAgain(c) ==
    /\ Goto(c, "size2", IF Actual(c) > 0 THEN "copy" ELSE "empty")
    /\ UNCHANGED <<head, tail, ring, prodvars, upd, consvars, history>>

ReturnEmpty(c) ==
    /\ Goto(c, "empty", "idle")
    /\ UNCHANGED <<head, tail, ring, prodvars, upd, consvars, history>>

\* Copy the elements, one slot at a time.
CopyElem(c) ==
    /\ scan[c] < Actual(c)
    /\ Goto(c, "copy", "copy")
    /\ elems' = [elems EXCEPT ![c][scan[c] + 1] = ring[Slot(ch[c] + scan[c])].ptr]
    /\ scan' = [scan EXCEPT ![c] = @ + 1]
    /\ UNCHANGED <<head, tail, ring, prodvars, upd, ch, ct, n, calls, history>>

\* Mutant: a store instead of the compare-and-exchange.
MoveHead_Store(c) ==
    /\ scan[c] = Actual(c)
    /\ Goto(c, "copy", "idle")
    /\ head' = ch[c] + Actual(c)
    /\ dequeued' = [e \in Elems |-> dequeued[e] +
                      Cardinality({k \in 1 .. Actual(c) : elems[c][k] = e})]
    /\ UNCHANGED <<tail, ring, prodvars, upd, consvars, enqueued, pending>>

\* Move head over them: a store with a single consumer, else a strong
\* compare-and-exchange that starts over, with the new head and the old tail.
MoveHead(c) ==
    /\ scan[c] = Actual(c)
    /\ \/ /\ SC \/ head = ch[c]
          /\ Goto(c, "copy", "idle")
          /\ head' = ch[c] + Actual(c)
          /\ dequeued' = [e \in Elems |-> dequeued[e] +
                            Cardinality({k \in 1 .. Actual(c) : elems[c][k] = e})]
          /\ UNCHANGED ch
       \/ /\ ~SC /\ head # ch[c]
          /\ Goto(c, "copy", "size")
          /\ ch' = [ch EXCEPT ![c] = head]
          /\ UNCHANGED <<head, dequeued>>
    /\ UNCHANGED <<tail, ring, prodvars, upd, ct, n, elems, scan, calls, enqueued, pending>>

-----------------------------------------------------------------------------
Enqueue(p) ==
    \/ EnqCall(p) \/ SpRoom(p) \/ SpWrite(p) \/ SpPublish(p) \/ Room(p) \/ LoadPtr(p)
    \/ LoadIdx(p) \/ SkipSlot(p) \/ SwapSlot(p) \/ UpdateTail(p)
Dequeue(c) ==
    \/ DeqCall(c) \/ LoadTail(c) \/ Sized(c) \/ SpTail(c) \/ ScanTail(c) \/ FoundTail(c)
    \/ SizedAgain(c) \/ ReturnEmpty(c) \/ CopyElem(c) \/ MoveHead(c)

Next == (\E p \in Producers : Enqueue(p)) \/ (\E c \in Consumers : Dequeue(c))

Spec == Init /\ [][Next]_vars

-----------------------------------------------------------------------------
TypeOK ==
    /\ head \in Nat /\ tail \in Nat
    /\ ring \in [Slots -> [ptr : Elems \cup {Null}, idx : Int]]
    /\ pt \in [Producers -> Nat] /\ ch \in [Consumers -> Nat] /\ ct \in [Consumers -> Nat]
    /\ dequeued \in [Elems -> Nat]

\* The ring never holds more than Size elements, and every slot that head and
\* tail promise to a consumer holds the element of that index.
PromisedSlotsAreFull ==
    /\ \A i \in Indices : enqueued[i] # Null => i < head + Size
    /\ \A i \in head .. tail - 1 :
          ring[Slot(i)] = [ptr |-> enqueued[i], idx |-> i] /\ enqueued[i] # Null

\* Every element below head was returned exactly once, every other one not yet:
\* nothing is lost, duplicated or taken out of the order of the indices.
DequeuedInOrder ==
    \A i \in Indices : enqueued[i] # Null =>
        dequeued[enqueued[i]] = IF i < head THEN 1 ELSE 0

\* The assertion of the single-producer path: the slot was used one lap back.
SlotIsOneLapBack ==
    \A p \in Producers : pc[p] = "sp_write" /\ actual[p] < upd[p] =>
        ring[Slot(pt[p])].idx = pt[p] - Size

\* lfring_dequeue returns 0 only if everything whose enqueue had returned
\* before the call has been dequeued by others.
EmptyIsReal ==
    \A c \in Consumers : pc[c] = "empty" => \A e \in pending[c] : dequeued[e] = 1
=============================================================================
