--------------------------- MODULE Reclaim_proofs ---------------------------
(***************************************************************************)
(* Proofs about memory that is given back: FreedByTheLast of the reference *)
(* counts, and NodesAreSafe, ValuesInOrder and SleeperIsServed of          *)
(* Reclaim_MC, for any number of threads, values and updates.              *)
(*                                                                         *)
(* Each program has an inductive invariant.  refcnt: the number the code   *)
(* keeps is that of the references, and a thread's place says which it     *)
(* has.  mpsc: the chain from head is whole up to the first push that is   *)
(* not linked.  thread-rcu: an updater that scans has still to pass every  *)
(* prompt reader.  hp_list: in every prefix of the list of hazard pointers *)
(* an address stands at least as often as readers need it there.  mpmc:    *)
(* nodes below init_node are freed in separate ranges and every handle is  *)
(* ahead of them; indices are handed out once, and a cell goes from empty  *)
(* or a waiting dequeue to the value of its index.                         *)
(***************************************************************************)
EXTENDS Reclaim_MC, FiniteSetTheorems, SequenceTheorems, TLAPS

-----------------------------------------------------------------------------
(* refcnt/main.c *)

\* The count is the number of references.
CountsReferences == IsFiniteSet(refs) /\ refcount = Cardinality(refs)

WhoHoldsWhat ==
    /\ Main \in refs <=> mpc = "spawn"
    /\ \A t \in Threads : Own(t) \in refs <=> pc[t] \in {"loop", "use", "drop"}
    /\ \A t \in Threads : Dup(t) \in refs <=> pc[t] \in {"use", "drop"}

\* Somebody frees exactly when the last reference is gone.
FreeingIsLast ==
    /\ refs # {} => ~freed /\ freeing = {}
    /\ \A r, s \in freeing : r = s
    /\ freed => freeing = {}

Inv == TypeOK /\ CountsReferences /\ WhoHoldsWhat /\ FreeingIsLast

\* The tokens are different.
LEMMA Tokens ==
    ASSUME NEW t \in Threads, NEW u \in Threads
    PROVE  /\ Main \in Refs /\ Own(t) \in Refs /\ Dup(t) \in Refs
           /\ Main # Own(t) /\ Main # Dup(t) /\ Own(t) # Dup(u)
           /\ Own(t) = Own(u) => t = u
           /\ Dup(t) = Dup(u) => t = u
<1>1. Main \in Refs /\ Own(t) \in Refs /\ Dup(t) \in Refs
  BY DEF Refs
<1>2. Main # Own(t) /\ Main # Dup(t) /\ Own(t) # Dup(u)
  <2>1. Main.kind = "main" /\ Own(t).kind = "own" /\ Dup(u).kind = "dup" /\ Dup(t).kind = "dup"
    BY DEF Main, Own, Dup
  <2> QED
    BY <2>1
<1>3. (Own(t) = Own(u) => t = u) /\ (Dup(t) = Dup(u) => t = u)
  <2>1. Own(t).thread = t /\ Own(u).thread = u /\ Dup(t).thread = t /\ Dup(u).thread = u
    BY DEF Own, Dup
  <2> QED
    BY <2>1
<1> QED
  BY <1>1, <1>2, <1>3

\* refcnt_ref with a new token keeps the count right and frees nothing.
LEMMA RefCounts ==
    ASSUME Inv, NEW r \in Refs, r \notin refs, refs # {}, Ref(r)
    PROVE  /\ CountsReferences' /\ FreeingIsLast'
           /\ refcount' \in Nat /\ refs' \in SUBSET Refs /\ freed' = freed /\ freeing' = freeing
  BY FS_AddElement DEF Inv, TypeOK, Ref, CountsReferences, FreeingIsLast

\* refcnt_unref of an existing token keeps the count right, and the caller has
\* to free exactly when no reference is left.
LEMMA UnrefCounts ==
    ASSUME Inv, NEW r \in Refs, r \in refs, Unref(r)
    PROVE  /\ CountsReferences' /\ FreeingIsLast'
           /\ refcount' \in Nat /\ refs' \in SUBSET Refs /\ freed' = freed
           /\ freeing' \in SUBSET Refs
<1> USE DEF Inv, TypeOK, CountsReferences, Unref
<1>1. IsFiniteSet(refs') /\ Cardinality(refs') = Cardinality(refs) - 1
  BY FS_RemoveElement
<1>2. Cardinality(refs) \in Nat /\ Cardinality(refs') \in Nat
  BY <1>1, FS_CardinalityType
<1>3. refs' = {} <=> refcount = 1
  BY <1>1, <1>2, FS_EmptySet
<1>4. CountsReferences' /\ refcount' \in Nat
  BY <1>1, <1>2
<1>5. FreeingIsLast'
  BY <1>3 DEF FreeingIsLast
<1> QED
  BY <1>4, <1>5

LEMMA InitInv == Init => Inv
<1> SUFFICES ASSUME Init PROVE Inv
  OBVIOUS
<1>1. TypeOK
  <2>1. refs \in SUBSET Refs /\ freeing \in SUBSET Refs
    BY DEF Init, Refs
  <2>2. refcount \in Nat /\ mpc \in {"spawn", "done"}
    BY DEF Init
  <2>3. pc \in [Threads -> {"none", "loop", "use", "drop", "done"}]
    BY DEF Init
  <2>4. iter \in [Threads -> 0 .. Iterations]
    BY IterationsAssumption DEF Init
  <2> QED
    BY <2>1, <2>2, <2>3, <2>4 DEF Init, TypeOK
<1>2. CountsReferences
  BY FS_Singleton DEF Init, CountsReferences
<1>3. WhoHoldsWhat
  BY Tokens DEF Init, WhoHoldsWhat
<1>4. FreeingIsLast
  BY DEF Init, FreeingIsLast
<1> QED
  BY <1>1, <1>2, <1>3, <1>4 DEF Inv

LEMMA NextInv == Inv /\ [Next]_vars => Inv'
<1> SUFFICES ASSUME Inv, [Next]_vars PROVE Inv'
  OBVIOUS
<1>1. ASSUME NEW t \in Threads, Spawn(t) PROVE Inv'
  <2>1. Own(t) \in Refs /\ Own(t) \notin refs /\ refs # {}
    BY <1>1, Tokens DEF Inv, WhoHoldsWhat, Spawn
  <2>2. WhoHoldsWhat'
    BY <1>1, Tokens DEF Inv, TypeOK, WhoHoldsWhat, Spawn, Ref
  <2> QED
    BY <1>1, <2>1, <2>2, RefCounts DEF Inv, TypeOK, Spawn
<1>2. CASE MainUnref
  <2>1. Main \in Refs /\ Main \in refs
    BY <1>2, Tokens DEF Inv, WhoHoldsWhat, MainUnref, Refs
  <2>2. WhoHoldsWhat'
    BY <1>2, Tokens DEF Inv, TypeOK, WhoHoldsWhat, MainUnref, Unref
  <2> QED
    BY <1>2, <2>1, <2>2, UnrefCounts DEF Inv, TypeOK, MainUnref
<1>3. ASSUME NEW t \in Threads, Duplicate(t) PROVE Inv'
  <2>1. Dup(t) \in Refs /\ Dup(t) \notin refs /\ refs # {}
    BY <1>3, Tokens DEF Inv, WhoHoldsWhat, Duplicate, Goto
  <2>2. WhoHoldsWhat'
    BY <1>3, Tokens DEF Inv, TypeOK, WhoHoldsWhat, Duplicate, Goto, Ref
  <2>3. iter' \in [Threads -> 0 .. Iterations]
    BY <1>3, IterationsAssumption DEF Inv, TypeOK, Duplicate
  <2> QED
    BY <1>3, <2>1, <2>2, <2>3, RefCounts DEF Inv, TypeOK, Duplicate, Goto
<1>4. ASSUME NEW t \in Threads, Use(t) PROVE Inv'
  BY <1>4 DEF Inv, TypeOK, CountsReferences, WhoHoldsWhat, FreeingIsLast, Use, Goto
<1>5. ASSUME NEW t \in Threads, DropDup(t) PROVE Inv'
  <2>1. Dup(t) \in Refs /\ Dup(t) \in refs
    BY <1>5, Tokens DEF Inv, WhoHoldsWhat, DropDup, Goto
  <2>2. WhoHoldsWhat'
    BY <1>5, Tokens DEF Inv, TypeOK, WhoHoldsWhat, DropDup, Goto, Unref
  <2> QED
    BY <1>5, <2>1, <2>2, UnrefCounts DEF Inv, TypeOK, DropDup, Goto
<1>6. ASSUME NEW t \in Threads, DropOwn(t) PROVE Inv'
  <2>1. Own(t) \in Refs /\ Own(t) \in refs
    BY <1>6, Tokens DEF Inv, WhoHoldsWhat, DropOwn, Goto
  <2>2. WhoHoldsWhat'
    BY <1>6, Tokens DEF Inv, TypeOK, WhoHoldsWhat, DropOwn, Goto, Unref
  <2> QED
    BY <1>6, <2>1, <2>2, UnrefCounts DEF Inv, TypeOK, DropOwn, Goto
<1>7. ASSUME NEW r \in Refs, Free(r) PROVE Inv'
  BY <1>7 DEF Inv, TypeOK, CountsReferences, WhoHoldsWhat, FreeingIsLast, Free
<1>8. CASE UNCHANGED vars
  BY <1>8 DEF vars, Inv, TypeOK, CountsReferences, WhoHoldsWhat, FreeingIsLast
<1> QED
  BY <1>1, <1>2, <1>3, <1>4, <1>5, <1>6, <1>7, <1>8 DEF Next

\* The strengthened invariant holds in every reachable state of refcnt/main.c.
THEOREM Invariance == Spec => []Inv
  BY InitInv, NextInv, PTL DEF Spec

\* While a reference exists the string is not freed and nobody is about to.
LEMMA InvUse == Inv => NoUseAfterFree
  BY DEF Inv, FreeingIsLast, NoUseAfterFree

\* Exactly one refcnt_unref sees the count go to zero.
LEMMA InvOnce == Inv => FreedOnce
<1> SUFFICES ASSUME Inv PROVE FreedOnce
  OBVIOUS
<1>1. CASE freeing = {}
  BY <1>1, FS_EmptySet DEF FreedOnce
<1>2. CASE freeing # {}
  <2> PICK r \in freeing : freeing = {r}
    BY <1>2 DEF Inv, FreeingIsLast
  <2> QED
    BY FS_Singleton DEF FreedOnce, Inv, FreeingIsLast
<1> QED
  BY <1>1, <1>2

\* The string of refcnt/main.c outlives its references and is given back once.
THEOREM FreedByTheLastHolds == Spec => []FreedByTheLast
<1>1. Inv => FreedByTheLast
  BY InvUse, InvOnce DEF FreedByTheLast
<1> QED
  BY <1>1, Invariance, PTL

-----------------------------------------------------------------------------
(* mpsc *)

\* Nodes that queue_pop has taken out of the list, and the nodes that tail has known and nobody
\* can reach yet.
Gone == IF mpsc_pc \in {"cas_head", "free"} THEN Len(consumed) + 1 ELSE Len(consumed)
Unlinked == {v \in 1 .. Total : \E p \in Producers : ppc[p] = "link" /\ new[p] = v}

QueueTypes ==
    /\ S!TypeOK /\ pushed \in Seq(1 .. Total) /\ consumed \in Seq(1 .. Total)
    /\ producer_count \in Nat /\ 0 < producer_count
    /\ ppc \in [Producers -> {"idle", "exchange", "link"}]
    /\ new \in [Producers -> (1 .. Total) \cup {Null}] /\ prev \in [Producers -> (1 .. Total) \cup {Null}]
    /\ mpsc_pc \in {"idle", "front", "pop", "cas_tail", "cas_head", "next", "free"}

\* Every value is pushed once.
ValuesAreNew ==
    /\ \A j, k \in 1 .. Len(pushed) : pushed[j] = pushed[k] => j = k
    /\ \A k \in 1 .. Len(pushed) : 0 < pushed[k] /\ pushed[k] < producer_count
    /\ \A p \in Producers : ppc[p] # "idle" => new[p] \in 1 .. Total /\ new[p] < producer_count
    /\ \A p \in Producers : ppc[p] = "exchange" => \A k \in 1 .. Len(pushed) : pushed[k] # new[p]
    /\ \A p, q \in Producers : ppc[p] # "idle" /\ ppc[q] # "idle" /\ new[p] = new[q] => p = q

\* What a producer has still to link is in the list, behind the node it has got from tail
\* or first.
PushesAreBehind ==
    \A p \in Producers : ppc[p] = "link" =>
        \E k \in 1 .. Len(pushed) :
            /\ new[p] = pushed[k] /\ Gone < k
            /\ k = Gone + 1 => prev[p] = Null
            /\ Gone + 1 < k => prev[p] = pushed[k - 1]

ListIsLinked ==
    /\ Gone <= Len(pushed)
    /\ Gone = Len(pushed) => tail = Null
    /\ Gone < Len(pushed) => tail = pushed[Len(pushed)]
    /\ \A k \in 1 .. Len(pushed) : Gone < k =>
          next[pushed[k]] = IF k < Len(pushed) /\ pushed[k + 1] \notin Unlinked THEN pushed[k + 1] ELSE Null
    /\ \A v \in 1 .. Total : (\A k \in 1 .. Len(pushed) : pushed[k] # v) => next[v] = Null
    /\ Gone < Len(pushed) /\ pushed[Gone + 1] \notin Unlinked => head = pushed[Gone + 1]
    /\ ~(Gone < Len(pushed) /\ pushed[Gone + 1] \notin Unlinked) => head = IF mpsc_pc = "cas_head" THEN popped ELSE Null

PopIsExact ==
    /\ \A k \in 1 .. Len(consumed) : consumed[k] = pushed[k]
    /\ mpsc_pc \in {"front", "pop", "cas_tail", "next"} => Gone < Len(pushed) /\ pushed[Gone + 1] \notin Unlinked
    /\ mpsc_pc = "pop" => data = pushed[Len(consumed) + 1]
    /\ mpsc_pc \in {"cas_tail", "cas_head", "next", "free"} =>
          popped = pushed[Len(consumed) + 1] /\ data = popped
    /\ \A v \in mpsc_freed : \E k \in 1 .. Len(consumed) : v = pushed[k]

QueueInv == QueueTypes /\ ValuesAreNew /\ PushesAreBehind /\ ListIsLinked /\ PopIsExact

LEMMA QueueTyped ==
  ASSUME QueueInv
  PROVE  /\ S!Values = 1 .. Total /\ Total \in Nat /\ Null \notin 1 .. Total
         /\ Len(pushed) \in Nat /\ Len(consumed) \in Nat /\ Gone \in Nat /\ Gone <= Len(pushed)
         /\ \A k \in 1 .. Len(pushed) : pushed[k] \in 1 .. Total
         /\ next \in [1 .. Total -> (1 .. Total) \cup {Null}]
         /\ head \in (1 .. Total) \cup {Null} /\ tail \in (1 .. Total) \cup {Null}
  BY MpscAssumption DEF QueueInv, QueueTypes, S!TypeOK, S!Values, Gone, ListIsLinked

LEMMA QueueInit == S!Init => QueueInv
<1> SUFFICES ASSUME S!Init PROVE QueueInv
  OBVIOUS
<1>1. Len(pushed) = 0 /\ Len(consumed) = 0 /\ Gone = 0
  BY DEF S!Init, Gone
<1>2. pushed \in Seq(1 .. Total) /\ consumed \in Seq(1 .. Total)
  BY DEF S!Init
<1> QED BY <1>1, <1>2, MpscAssumption DEF S!Init, QueueInv, QueueTypes, S!TypeOK, S!Values, ValuesAreNew,
          PushesAreBehind, ListIsLinked, PopIsExact


LEMMA QueueNextValue == ASSUME QueueInv, NEW p \in Producers, S!NextValue(p) PROVE QueueInv'
<1> USE DEF QueueInv
<1>1. /\ UNCHANGED <<head, tail, next, mpsc_freed, prev, pushed, mpsc_pc, popped, data, consumed>>
      /\ producer_count <= Total /\ ppc[p] = "idle" /\ ppc' = [ppc EXCEPT ![p] = "exchange"]
      /\ new' = [new EXCEPT ![p] = producer_count] /\ producer_count' = producer_count + 1
  BY DEF S!NextValue, S!PGoto, S!cons
<1>2. Gone' = Gone /\ Unlinked' = Unlinked
  BY <1>1 DEF Gone, Unlinked, QueueTypes
<1>3. producer_count \in 1 .. Total
  BY <1>1, MpscAssumption DEF QueueTypes
<1>4. QueueTypes'
  BY <1>1, <1>3 DEF QueueTypes, S!TypeOK, S!Values
<1>5. ValuesAreNew'
  BY <1>1, <1>3, QueueTyped DEF ValuesAreNew, QueueTypes
<1>6. PushesAreBehind'
  BY <1>1, <1>2 DEF PushesAreBehind, QueueTypes
<1>7. ListIsLinked' /\ PopIsExact'
  BY <1>1, <1>2 DEF ListIsLinked, PopIsExact
<1> QED BY <1>4, <1>5, <1>6, <1>7

LEMMA QueueExchange == ASSUME QueueInv, NEW p \in Producers, S!ExchangeTail(p) PROVE QueueInv'
<1> USE DEF QueueInv
<1> DEFINE n == Len(pushed)
<1>1. /\ UNCHANGED <<head, next, mpsc_freed, producer_count, new, mpsc_pc, popped, data, consumed>>
      /\ ppc[p] = "exchange" /\ ppc' = [ppc EXCEPT ![p] = "link"]
      /\ prev' = [prev EXCEPT ![p] = tail] /\ tail' = new[p] /\ pushed' = Append(pushed, new[p])
  BY DEF S!ExchangeTail, S!PGoto, S!cons
<1>2. new[p] \in 1 .. Total
  BY <1>1 DEF ValuesAreNew
<1>3. /\ n \in Nat /\ Len(pushed') = n + 1 /\ pushed' \in Seq(1 .. Total) /\ pushed'[n + 1] = new[p]
      /\ \A k \in 1 .. n : pushed'[k] = pushed[k]
  BY <1>1, <1>2 DEF QueueTypes
<1>4. /\ Gone' = Gone /\ Gone \in Nat /\ Gone <= n
      /\ \A v \in 1 .. Total : v \in Unlinked' <=> v \in Unlinked \/ v = new[p]
  <2>1. Gone' = Gone /\ Gone \in Nat /\ Gone <= n
    BY <1>1, QueueTyped DEF Gone
  <2>2. ASSUME NEW v \in 1 .. Total PROVE v \in Unlinked' <=> v \in Unlinked \/ v = new[p]
    BY <1>1, <1>2 DEF Unlinked, QueueTypes
  <2> QED BY <2>1, <2>2
<1>4b. /\ pushed'[n + 1] \in Unlinked'
       /\ \A k \in 1 .. n : pushed'[k] \in Unlinked' <=> pushed[k] \in Unlinked
  <2>1. \A k \in 1 .. n : new[p] # pushed[k] /\ pushed[k] \in 1 .. Total
    BY <1>1, <1>3, QueueTyped DEF ValuesAreNew
  <2> QED BY <1>2, <1>3, <1>4, <2>1
<1> HIDE DEF n
<1>5. QueueTypes'
  BY <1>1, <1>2, <1>3 DEF QueueTypes, S!TypeOK, S!Values
<1>6. ValuesAreNew'
  <2>1. \A j, k \in 1 .. n + 1 : pushed'[j] = pushed'[k] => j = k
    BY <1>1, <1>3 DEF ValuesAreNew, n
  <2>2. \A k \in 1 .. n + 1 : 0 < pushed'[k] /\ pushed'[k] < producer_count'
    BY <1>1, <1>2, <1>3 DEF ValuesAreNew, n
  <2>3. ASSUME NEW q \in Producers, ppc'[q] = "exchange" PROVE \A k \in 1 .. n + 1 : pushed'[k] # new'[q]
    <3>1. ppc[q] = "exchange" /\ q # p
      BY <1>1, <2>3 DEF QueueTypes
    <3>2. new[q] # new[p]
      BY <1>1, <3>1 DEF ValuesAreNew
    <3> QED BY <1>1, <1>3, <3>1, <3>2 DEF ValuesAreNew, n
  <2>4. \A q \in Producers : ppc'[q] # "idle" => ppc[q] # "idle"
    BY <1>1 DEF QueueTypes
  <2> QED BY <1>1, <1>3, <2>1, <2>2, <2>3, <2>4 DEF ValuesAreNew
<1>7. PushesAreBehind'
  <2> SUFFICES ASSUME NEW q \in Producers, ppc'[q] = "link"
               PROVE  \E k \in 1 .. n + 1 : /\ new'[q] = pushed'[k] /\ Gone < k
                                            /\ k = Gone + 1 => prev'[q] = Null
                                            /\ Gone + 1 < k => prev'[q] = pushed'[k - 1]
    BY <1>3, <1>4, <1>4b DEF PushesAreBehind
  <2>1. CASE q = p
    <3>1. prev'[q] = tail /\ new'[q] = pushed'[n + 1]
      BY <1>1, <1>3, <2>1 DEF QueueTypes
    <3>2. (n = Gone => tail = Null) /\ (Gone < n => tail = pushed[n])
      BY <1>4 DEF ListIsLinked, n
    <3>3. Gone < n => pushed'[n] = pushed[n]
      BY <1>3, <1>4, <1>4b
    <3>4. n + 1 \in 1 .. n + 1
      BY <1>3
    <3> QED BY <1>3, <1>4, <1>4b, <3>1, <3>2, <3>3, <3>4
  <2>2. CASE q # p
    <3>1. ppc[q] = "link" /\ new'[q] = new[q] /\ prev'[q] = prev[q]
      BY <1>1, <2>2 DEF QueueTypes
    <3>2. PICK k \in 1 .. n : /\ new[q] = pushed[k] /\ Gone < k
                              /\ k = Gone + 1 => prev[q] = Null
                              /\ Gone + 1 < k => prev[q] = pushed[k - 1]
      BY <3>1 DEF PushesAreBehind, n
    <3>3. k \in 1 .. n + 1 /\ (Gone + 1 < k => k - 1 \in 1 .. n)
      BY <1>3, <1>4
    <3>4. pushed'[k] = pushed[k] /\ (Gone + 1 < k => pushed'[k - 1] = pushed[k - 1])
      BY <1>3, <3>3
    <3>5. /\ new'[q] = pushed'[k] /\ Gone < k
          /\ k = Gone + 1 => prev'[q] = Null
          /\ Gone + 1 < k => prev'[q] = pushed'[k - 1]
      BY <3>1, <3>2, <3>4
    <3> QED BY <3>3, <3>5
  <2> QED BY <2>1, <2>2
<1>8. ListIsLinked'
  <2>1. \A k \in 1 .. n + 1 : Gone < k =>
          next[pushed'[k]] = IF k < n + 1 /\ pushed'[k + 1] \notin Unlinked' THEN pushed'[k + 1] ELSE Null
    <3> SUFFICES ASSUME NEW k \in 1 .. n + 1, Gone < k
                 PROVE  next[pushed'[k]] = IF k < n + 1 /\ pushed'[k + 1] \notin Unlinked' THEN pushed'[k + 1] ELSE Null
      OBVIOUS
    <3>1. CASE k = n + 1
      <4>1. \A m \in 1 .. n : pushed[m] # new[p]
        BY <1>1 DEF ValuesAreNew, n
      <4>2. next[new[p]] = Null
        BY <1>2, <4>1 DEF ListIsLinked, n
      <4> QED BY <1>3, <3>1, <4>2
    <3>2. CASE k = n
      BY <1>3, <1>4, <1>4b, <3>2 DEF ListIsLinked, n
    <3>3. CASE k < n
      <4>1. k \in 1 .. n /\ k + 1 \in 1 .. n
        BY <1>3, <3>3
      <4> QED BY <1>3, <1>4, <1>4b, <3>3, <4>1 DEF ListIsLinked, n
    <3> QED BY <3>1, <3>2, <3>3, <1>3
  <2>2. \A v \in 1 .. Total : (\A k \in 1 .. n + 1 : pushed'[k] # v) => next[v] = Null
    BY <1>3 DEF ListIsLinked, n
  <2>3. Gone < n + 1 /\ pushed'[Gone + 1] \notin Unlinked' <=> Gone < n /\ pushed[Gone + 1] \notin Unlinked
    BY <1>3, <1>4, <1>4b
  <2>4. Gone < n => pushed'[Gone + 1] = pushed[Gone + 1]
    BY <1>3, <1>4, <1>4b
  <2> QED BY <1>1, <1>3, <1>4, <1>4b, <2>1, <2>2, <2>3, <2>4 DEF ListIsLinked, n
<1>9. PopIsExact'
  <2>1. Len(consumed) \in Nat /\ Len(consumed) <= n /\ (Gone < n => Gone + 1 \in 1 .. n)
        /\ (mpsc_pc \in {"front", "pop", "cas_tail", "cas_head", "next", "free"} => Len(consumed) + 1 \in 1 .. n)
    BY <1>3, <1>4, <1>4b, QueueTyped DEF Gone, PopIsExact, n
  <2> QED BY <1>1, <1>3, <1>4, <1>4b, <2>1 DEF PopIsExact, n
<1> QED BY <1>5, <1>6, <1>7, <1>8, <1>9


LEMMA QueueLinkNode == ASSUME QueueInv, NEW p \in Producers, S!LinkNode(p) PROVE QueueInv'
<1> USE DEF QueueInv
<1> DEFINE n == Len(pushed)
<1>1. /\ UNCHANGED <<tail, mpsc_freed, producer_count, new, prev, pushed, mpsc_pc, popped, data, consumed>>
      /\ ppc[p] = "link" /\ ppc' = [ppc EXCEPT ![p] = "idle"]
      /\ \/ prev[p] # Null /\ next' = [next EXCEPT ![prev[p]] = new[p]] /\ UNCHANGED head
         \/ prev[p] = Null /\ head' = new[p] /\ UNCHANGED next
  BY DEF S!LinkNode, S!PGoto, S!cons
<1>2. PICK m \in 1 .. n : /\ new[p] = pushed[m] /\ Gone < m
                          /\ m = Gone + 1 => prev[p] = Null
                          /\ Gone + 1 < m => prev[p] = pushed[m - 1]
  BY <1>1 DEF PushesAreBehind
<1>3. /\ n \in Nat /\ Gone' = Gone /\ Gone \in Nat /\ \A k \in 1 .. n : pushed[k] \in 1 .. Total
      /\ \A j, k \in 1 .. n : pushed[j] = pushed[k] => j = k
  BY <1>1, QueueTyped DEF Gone, ValuesAreNew
<1>4. \A v \in 1 .. Total : v \in Unlinked' <=> v \in Unlinked /\ v # pushed[m]
  <2>1. ASSUME NEW v \in 1 .. Total, NEW q \in Producers, ppc[q] = "link", new[q] = v, v = pushed[m] PROVE q = p
    BY <1>1, <1>2, <2>1 DEF ValuesAreNew
  <2>2. \A q \in Producers : q # p => ppc'[q] = ppc[q]
    BY <1>1 DEF QueueTypes
  <2>3. ppc'[p] = "idle"
    BY <1>1 DEF QueueTypes
  <2>4. Unlinked' = {v \in 1 .. Total : \E q \in Producers : ppc'[q] = "link" /\ new[q] = v}
    BY <1>1 DEF Unlinked
  <2> QED BY <1>2, <2>1, <2>2, <2>3, <2>4 DEF Unlinked
<1>5. pushed[m] \in Unlinked
  BY <1>1, <1>2, <1>3 DEF Unlinked
<1>6. \A k \in 1 .. n : pushed[k] \in Unlinked' <=> pushed[k] \in Unlinked /\ k # m
  BY <1>3, <1>4
<1>7. /\ m = Gone + 1 => prev[p] = Null /\ head' = pushed[m] /\ next' = next
      /\ m # Gone + 1 => m - 1 \in 1 .. n /\ Gone < m - 1 /\ next' = [next EXCEPT ![pushed[m - 1]] = pushed[m]] /\ head' = head
  BY <1>1, <1>2, <1>3, MpscAssumption
<1> HIDE DEF n
<1>8. QueueTypes'
  <2>1. head' \in (1 .. Total) \cup {Null} /\ next' \in [1 .. Total -> (1 .. Total) \cup {Null}]
    BY <1>1, <1>2, <1>3, <1>7, QueueTyped
  <2> QED BY <1>1, <2>1, MpscAssumption DEF QueueTypes, S!TypeOK, S!Values
<1>9. ValuesAreNew'
  BY <1>1 DEF ValuesAreNew, QueueTypes
<1>10. PushesAreBehind'
  <2> SUFFICES ASSUME NEW q \in Producers, ppc'[q] = "link"
               PROVE  \E k \in 1 .. n : /\ new[q] = pushed[k] /\ Gone < k
                                        /\ k = Gone + 1 => prev[q] = Null
                                        /\ Gone + 1 < k => prev[q] = pushed[k - 1]
    BY <1>1, <1>3 DEF PushesAreBehind, n
  <2>1. ppc[q] = "link"
    BY <1>1 DEF QueueTypes
  <2> QED BY <2>1 DEF PushesAreBehind, n
<1>11. ListIsLinked'
  <2>1. \A k \in 1 .. n : Gone < k =>
          next'[pushed[k]] = IF k < n /\ pushed[k + 1] \notin Unlinked' THEN pushed[k + 1] ELSE Null
    <3> SUFFICES ASSUME NEW k \in 1 .. n, Gone < k
                 PROVE  next'[pushed[k]] = IF k < n /\ pushed[k + 1] \notin Unlinked' THEN pushed[k + 1] ELSE Null
      OBVIOUS
    <3>1. next[pushed[k]] = IF k < n /\ pushed[k + 1] \notin Unlinked THEN pushed[k + 1] ELSE Null
      BY DEF ListIsLinked, n
    <3>2. CASE k + 1 = m
      BY <1>2, <1>3, <1>6, <1>7, <3>2, QueueTyped DEF n
    <3>3. CASE k + 1 # m
      <4>1. k < n => k + 1 \in 1 .. n
        BY <1>3
      <4>2. next'[pushed[k]] = next[pushed[k]]
        BY <1>3, <1>7, <3>3, <1>2, QueueTyped DEF n
      <4> QED BY <1>3, <1>6, <3>1, <3>3, <4>1, <4>2
    <3> QED BY <3>2, <3>3
  <2>2. ASSUME NEW v \in 1 .. Total, \A k \in 1 .. n : pushed[k] # v PROVE next'[v] = Null
    <3>1. next[v] = Null
      BY <2>2 DEF ListIsLinked, n
    <3> QED BY <1>7, <2>2, <3>1, QueueTyped
  <2>3. Gone < n => Gone + 1 \in 1 .. n
    BY <1>3
  <2>4. Gone < n /\ pushed[Gone + 1] \notin Unlinked' => head' = pushed[Gone + 1]
    BY <1>3, <1>6, <1>7, <2>3 DEF ListIsLinked, n
  <2>5. ~(Gone < n /\ pushed[Gone + 1] \notin Unlinked') => head' = IF mpsc_pc = "cas_head" THEN popped ELSE Null
    BY <1>2, <1>3, <1>5, <1>6, <1>7, <2>3 DEF ListIsLinked, n
  <2> QED BY <1>1, <1>3, <2>1, <2>2, <2>4, <2>5 DEF ListIsLinked, n
<1>12. PopIsExact'
  <2>1. Gone < n => Gone + 1 \in 1 .. n
    BY <1>3
  <2> QED BY <1>1, <1>3, <1>6, <2>1 DEF PopIsExact, n
<1> QED BY <1>8, <1>9, <1>10, <1>11, <1>12

\* The steps of the consumer that leave the queue itself alone.
LEMMA QueueLooks == ASSUME QueueInv, S!HasFront \/ S!Front \/ S!PopHead PROVE QueueInv'
<1> USE DEF QueueInv
<1>1. UNCHANGED <<head, tail, next, mpsc_freed, producer_count, ppc, new, prev, pushed, consumed>>
  BY DEF S!HasFront, S!Front, S!PopHead, S!prod
<1>2. /\ mpsc_pc \in {"idle", "front", "pop"} /\ mpsc_pc' \in {"idle", "front", "pop", "cas_tail"}
      /\ Gone = Len(consumed) /\ Gone' = Gone /\ Unlinked' = Unlinked
  BY <1>1 DEF S!HasFront, S!Front, S!PopHead, S!CGoto, Gone, Unlinked
<1>3. /\ mpsc_pc' # "idle" => Gone < Len(pushed) /\ pushed[Gone + 1] \notin Unlinked /\ head = pushed[Gone + 1]
      /\ mpsc_pc' = "pop" => data' = head
      /\ mpsc_pc' = "cas_tail" => popped' = head /\ data' = data /\ mpsc_pc = "pop"
  BY <1>2 DEF S!HasFront, S!Front, S!PopHead, S!CGoto, ListIsLinked, PopIsExact
<1>4. QueueTypes'
  BY <1>1, <1>2 DEF QueueTypes, S!TypeOK, S!Values, S!HasFront, S!Front, S!PopHead
<1>5. ValuesAreNew' /\ PushesAreBehind'
  BY <1>1, <1>2 DEF ValuesAreNew, PushesAreBehind
<1>6. ListIsLinked'
  BY <1>1, <1>2 DEF ListIsLinked
<1>7. PopIsExact'
  BY <1>1, <1>2, <1>3 DEF PopIsExact
<1> QED BY <1>4, <1>5, <1>6, <1>7


LEMMA QueueCasTail == ASSUME QueueInv, S!CasTail PROVE QueueInv'
<1> USE DEF QueueInv
<1> DEFINE n == Len(pushed)
           c == Len(consumed)
<1>1. /\ UNCHANGED <<head, next, mpsc_freed, producer_count, ppc, new, prev, pushed, popped, data, consumed>>
      /\ mpsc_pc = "cas_tail" /\ mpsc_pc' = (IF tail = popped THEN "cas_head" ELSE "next")
      /\ tail' = IF tail = popped THEN Null ELSE tail
  BY DEF S!CasTail, S!CGoto, S!prod
<1>2. /\ Gone = c /\ Gone < n /\ pushed[Gone + 1] \notin Unlinked /\ Unlinked' = Unlinked
      /\ popped = pushed[c + 1] /\ data = popped /\ tail = pushed[n] /\ head = popped
      /\ n \in Nat /\ c \in Nat /\ c + 1 \in 1 .. n
  BY <1>1, QueueTyped DEF Gone, PopIsExact, ListIsLinked, Unlinked
<1>3. QueueTypes' /\ ValuesAreNew'
  BY <1>1 DEF QueueTypes, S!TypeOK, S!Values, ValuesAreNew
<1>4. CASE tail # popped
  <2>1. Gone' = Gone /\ mpsc_pc' = "next" /\ tail' = tail
    BY <1>1, <1>2, <1>4 DEF Gone
  <2> QED BY <1>1, <1>2, <1>3, <2>1 DEF PushesAreBehind, ListIsLinked, PopIsExact
<1>5. CASE tail = popped
  <2>1. n = c + 1
    <3>1. n \in 1 .. n /\ pushed[n] = pushed[c + 1]
      BY <1>2, <1>5
    <3> QED BY <1>2, <3>1 DEF ValuesAreNew
  <2>2. Gone' = n /\ mpsc_pc' = "cas_head" /\ tail' = Null
    BY <1>1, <1>5, <2>1 DEF Gone
  <2>3. \A p \in Producers : ppc[p] # "link"
    <3> SUFFICES ASSUME NEW p \in Producers, ppc[p] = "link" PROVE FALSE
      OBVIOUS
    <3>1. PICK k \in 1 .. n : new[p] = pushed[k] /\ Gone < k
      BY DEF PushesAreBehind
    <3>2. k = Gone + 1 /\ pushed[k] \in 1 .. Total
      BY <1>2, <2>1, <3>1, QueueTyped
    <3> QED BY <1>2, <3>1, <3>2 DEF Unlinked
  <2>4. PushesAreBehind'
    BY <1>1, <2>3 DEF PushesAreBehind
  <2>5. ListIsLinked'
    BY <1>1, <1>2, <2>2 DEF ListIsLinked
  <2>6. PopIsExact'
    BY <1>1, <1>2, <2>2 DEF PopIsExact
  <2> QED BY <1>3, <2>4, <2>5, <2>6
<1> QED BY <1>4, <1>5

LEMMA QueueCasHead == ASSUME QueueInv, S!CasHead PROVE QueueInv'
<1> USE DEF QueueInv
<1>1. /\ UNCHANGED <<tail, next, mpsc_freed, producer_count, ppc, new, prev, pushed, popped, data, consumed>>
      /\ mpsc_pc = "cas_head" /\ mpsc_pc' = "free"
      /\ head' = IF head = popped THEN Null ELSE head
  BY DEF S!CasHead, S!CGoto, S!prod
<1>2. /\ Gone = Len(consumed) + 1 /\ Gone' = Gone /\ Unlinked' = Unlinked
      /\ popped = pushed[Gone] /\ Gone \in 1 .. Len(pushed)
  BY <1>1, QueueTyped DEF Gone, PopIsExact, Unlinked
<1>3. QueueTypes' /\ ValuesAreNew' /\ PushesAreBehind'
  BY <1>1, <1>2 DEF QueueTypes, S!TypeOK, S!Values, ValuesAreNew, PushesAreBehind
<1>4. ASSUME Gone < Len(pushed) PROVE Gone + 1 \in 1 .. Len(pushed) /\ pushed[Gone + 1] # popped
  BY <1>2, <1>4 DEF ValuesAreNew
<1>5. ListIsLinked'
  BY <1>1, <1>2, <1>4 DEF ListIsLinked
<1>6. PopIsExact'
  BY <1>1, <1>2 DEF PopIsExact
<1> QED BY <1>3, <1>5, <1>6

LEMMA QueueNextHead == ASSUME QueueInv, S!NextHead PROVE QueueInv'
<1> USE DEF QueueInv
<1> DEFINE n == Len(pushed)
<1>1. /\ UNCHANGED <<tail, next, mpsc_freed, producer_count, ppc, new, prev, pushed, popped, data, consumed>>
      /\ mpsc_pc = "next" /\ mpsc_pc' = "free" /\ next[popped] # Null /\ head' = next[popped]
  BY DEF S!NextHead, S!CGoto, S!prod
<1>2. /\ Gone = Len(consumed) /\ Gone < n /\ pushed[Gone + 1] \notin Unlinked /\ Unlinked' = Unlinked
      /\ popped = pushed[Gone + 1] /\ data = popped /\ tail = pushed[n]
      /\ n \in Nat /\ Gone \in Nat /\ Gone + 1 \in 1 .. n /\ Gone' = Gone + 1
  BY <1>1, QueueTyped DEF Gone, PopIsExact, ListIsLinked, Unlinked
<1>3. Gone + 1 < n /\ pushed[Gone + 2] \notin Unlinked /\ head' = pushed[Gone + 2]
  <2>1. next[pushed[Gone + 1]] = IF Gone + 1 < n /\ pushed[(Gone + 1) + 1] \notin Unlinked
                                 THEN pushed[(Gone + 1) + 1] ELSE Null
    BY <1>2 DEF ListIsLinked
  <2>2. (Gone + 1) + 1 = Gone + 2
    BY <1>2
  <2> QED BY <1>1, <1>2, <2>1, <2>2
<1>4. QueueTypes' /\ ValuesAreNew'
  <2>1. pushed[Gone + 2] \in 1 .. Total
    <3>1. Gone + 2 \in 1 .. n
      BY <1>2, <1>3
    <3> QED BY <3>1, QueueTyped
  <2> QED BY <1>1, <1>3, <2>1 DEF QueueTypes, S!TypeOK, S!Values, ValuesAreNew
<1>5. PushesAreBehind'
  <2> SUFFICES ASSUME NEW p \in Producers, ppc[p] = "link"
               PROVE  \E k \in 1 .. n : /\ new[p] = pushed[k] /\ Gone + 1 < k
                                        /\ k = Gone + 2 => prev[p] = Null
                                        /\ Gone + 2 < k => prev[p] = pushed[k - 1]
    BY <1>1, <1>2 DEF PushesAreBehind
  <2>1. PICK k \in 1 .. n : new[p] = pushed[k] /\ Gone < k /\ (Gone + 1 < k => prev[p] = pushed[k - 1])
    BY DEF PushesAreBehind
  <2>2. pushed[k] \in Unlinked
    BY <2>1, QueueTyped DEF Unlinked
  <2>3. k # Gone + 1 /\ k # Gone + 2
    BY <1>2, <1>3, <2>2
  <2> QED BY <1>2, <2>1, <2>3
<1>6. ListIsLinked'
  BY <1>1, <1>2, <1>3 DEF ListIsLinked
<1>7. PopIsExact'
  BY <1>1, <1>2 DEF PopIsExact
<1> QED BY <1>4, <1>5, <1>6, <1>7

LEMMA QueueFree == ASSUME QueueInv, S!FreePopped PROVE QueueInv'
<1> USE DEF QueueInv
<1> DEFINE c == Len(consumed)
<1>1. /\ UNCHANGED <<head, tail, next, producer_count, ppc, new, prev, pushed, popped, data>>
      /\ mpsc_pc = "free" /\ mpsc_pc' = "idle"
      /\ mpsc_freed' = mpsc_freed \cup {popped} /\ consumed' = Append(consumed, data)
  BY DEF S!FreePopped, S!CGoto, S!prod
<1>2. /\ Gone = c + 1 /\ c \in Nat /\ c + 1 \in 1 .. Len(pushed) /\ popped = pushed[c + 1] /\ data = popped
      /\ popped \in 1 .. Total
  BY <1>1, QueueTyped DEF Gone, PopIsExact
<1>3. /\ Len(consumed') = c + 1 /\ consumed' \in Seq(1 .. Total)
      /\ \A k \in 1 .. c : consumed'[k] = consumed[k]
      /\ consumed'[c + 1] = pushed[c + 1]
  BY <1>1, <1>2 DEF QueueTypes
<1>4. Gone' = Gone /\ Unlinked' = Unlinked
  BY <1>1, <1>2, <1>3 DEF Gone, Unlinked
<1>5. QueueTypes'
  BY <1>1, <1>2, <1>3 DEF QueueTypes, S!TypeOK, S!Values
<1>6. ValuesAreNew' /\ PushesAreBehind' /\ ListIsLinked'
  BY <1>1, <1>4 DEF ValuesAreNew, PushesAreBehind, ListIsLinked
<1>7. PopIsExact'
  <2>1. \A k \in 1 .. c + 1 : consumed'[k] = pushed[k]
    BY <1>2, <1>3 DEF PopIsExact
  <2>2. \A v \in mpsc_freed' : \E k \in 1 .. c + 1 : v = pushed[k]
    BY <1>1, <1>2 DEF PopIsExact
  <2> QED BY <1>1, <1>3, <2>1, <2>2 DEF PopIsExact
<1> QED BY <1>5, <1>6, <1>7

LEMMA QueueStep == QueueInv /\ [S!Next]_S!vars => QueueInv'
<1> SUFFICES ASSUME QueueInv, [S!Next]_S!vars PROVE QueueInv'
  OBVIOUS
<1>1. CASE UNCHANGED S!vars
  BY <1>1 DEF S!vars, QueueInv, QueueTypes, S!TypeOK, S!Values, ValuesAreNew, PushesAreBehind, ListIsLinked, PopIsExact,
     Gone, Unlinked
<1> QED BY <1>1, QueueNextValue, QueueExchange, QueueLinkNode, QueueLooks, QueueCasTail, QueueCasHead,
       QueueNextHead, QueueFree DEF S!Next, S!Producer, S!Consumer

LEMMA QueueGives == ASSUME QueueInv PROVE S!NoUseAfterFree /\ S!Fifo /\ S!EmptyAtTheEnd
<1> USE DEF QueueInv
<1> DEFINE n == Len(pushed)
           c == Len(consumed)
<1>1. n \in Nat /\ c \in Nat /\ c <= n /\ (mpsc_pc \in {"cas_head", "free"} => c + 1 <= n) /\ c <= Gone /\ Gone <= n
      /\ Gone \in Nat /\ Total \in Nat
  BY QueueTyped DEF Gone
<1>2. Null \notin mpsc_freed
  BY MpscAssumption, QueueTyped DEF QueueTypes, S!TypeOK, S!Values
<1>3. \A k \in 1 .. n : c < k => pushed[k] \notin mpsc_freed
  <2> SUFFICES ASSUME NEW k \in 1 .. n, c < k, pushed[k] \in mpsc_freed PROVE FALSE
    OBVIOUS
  <2>1. PICK j \in 1 .. c : pushed[k] = pushed[j]
    BY DEF PopIsExact
  <2>2. j \in 1 .. n
    BY <1>1
  <2>3. j = k
    BY <2>1, <2>2 DEF ValuesAreNew
  <2> QED BY <1>1, <2>3
<1>4. S!NoUseAfterFree
  <2>1. mpsc_pc \in {"cas_tail", "cas_head", "next", "free"} => c + 1 \in 1 .. n /\ popped = pushed[c + 1]
    BY <1>1 DEF PopIsExact, Gone
  <2>2. head \notin mpsc_freed
    <3>1. CASE Gone < n /\ pushed[Gone + 1] \notin Unlinked
      <4>1. head = pushed[Gone + 1] /\ Gone + 1 \in 1 .. n /\ c < Gone + 1
        BY <1>1, <3>1 DEF ListIsLinked
      <4> QED BY <1>3, <4>1
    <3>2. CASE ~(Gone < n /\ pushed[Gone + 1] \notin Unlinked)
      BY <1>1, <1>2, <1>3, <2>1, <3>2 DEF ListIsLinked
    <3> QED BY <3>1, <3>2
  <2>3. tail \notin mpsc_freed
    <3>1. Gone < n => n \in 1 .. n /\ c < n
      BY <1>1
    <3> QED BY <1>1, <1>2, <1>3, <3>1 DEF ListIsLinked
  <2>4. ASSUME NEW p \in Producers, ppc[p] = "link" PROVE prev[p] \notin mpsc_freed
    <3>1. PICK k \in 1 .. n : /\ Gone < k /\ (k = Gone + 1 => prev[p] = Null)
                              /\ (Gone + 1 < k => prev[p] = pushed[k - 1])
      BY <2>4 DEF PushesAreBehind
    <3>2. CASE k = Gone + 1
      BY <1>2, <3>1, <3>2
    <3>3. CASE Gone + 1 < k
      <4>1. k - 1 \in 1 .. n /\ c < k - 1
        BY <1>1, <3>3
      <4> QED BY <1>3, <3>1, <3>3, <4>1
    <3> QED BY <1>1, <3>1, <3>2, <3>3
  <2> QED BY <1>1, <1>3, <2>1, <2>2, <2>3, <2>4 DEF S!NoUseAfterFree
<1>5. S!Fifo
  BY <1>1 DEF S!Fifo, PopIsExact
<1>6. n <= Total
  <2>1. IsFiniteSet(1 .. n) /\ Cardinality(1 .. n) = n /\ IsFiniteSet(1 .. Total) /\ Cardinality(1 .. Total) = Total
    <3>1. 1 \in Int /\ n \in Int /\ Total \in Int /\ n - 1 + 1 = n /\ Total - 1 + 1 = Total /\ (n < 1 => n = 0) /\ (Total < 1 => Total = 0)
      BY <1>1
    <3> HIDE DEF n
    <3> QED BY <3>1, FS_Interval
  <2> DEFINE f == [k \in 1 .. n |-> pushed[k]]
  <2>2. f \in Injection(1 .. n, 1 .. Total)
    BY QueueTyped DEF Injection, IsInjective, ValuesAreNew
  <2> HIDE DEF f
  <2>3. Cardinality(1 .. n) <= Cardinality(1 .. Total)
    BY <2>1, <2>2, FS_Injection DEF ExistsInjection
  <2> QED BY <2>1, <2>3
<1>7. S!EmptyAtTheEnd
  <2>1. c = Total => Gone = n /\ mpsc_pc \notin {"cas_head"}
    BY <1>1, <1>6
  <2> QED BY <1>1, <2>1 DEF S!EmptyAtTheEnd, ListIsLinked, PopIsExact
<1> QED BY <1>4, <1>5, <1>7

-----------------------------------------------------------------------------
(* thread-rcu *)

\* The objects and the phases of the updater: only objects older than the one it is
\* replacing have been freed.
Phases ==
    /\ gp_idx = i - 1
    /\ dut = IF upc = "assign" THEN i - 1 ELSE i
    /\ upc # "assign" => oldp = i - 1 /\ i <= Updates
    /\ \A f \in rcu_freed : f < i - 1
    /\ upc = "scan2" => rcu_nesting_idx = gp + 1

\* Each thread that has registered is in the list once.  Behind the barrier the list does
\* not change, and what a reader has loaded of its word is what it would load again.
ListIsComplete ==
    /\ \A j, k \in 1 .. Len(nodes) : nodes[j] = nodes[k] => j = k
    /\ \A r \in Readers : rcu_pc[r] # "init" <=> \E k \in 1 .. Len(nodes) : nodes[k] = r
    /\ (\E r \in Readers : rcu_pc[r] \notin {"init", "lock"}) => \A r \in Readers : rcu_pc[r] # "init"
    /\ \A r \in Readers : rcu_pc[r] \in {"index", "set", "unset"} => rcu_last[r] = U!IsLast(r)

Inside(r) == rcu_pc[r] \in {"deref", "use", "cas", "gp", "unlock", "unset", "abort"}

BitsAreSet ==
    \A r \in Readers : nesting[r] = IF Inside(r) THEN {U!Bit(rcu_idx[r])} ELSE {}

\* The updater has still to look at the node of r.
ToBeSeen(r) == \E k \in 1 .. Len(nodes) : at <= k /\ nodes[k] = r

\* A reader that announced itself in time has the current index, or the one before while the
\* second scan has not come to it; and its object is not older than that.
PromptIsSeen ==
    \A r \in Readers : Inside(r) /\ ~late[r] =>
        /\ rcu_idx[r] = rcu_nesting_idx \/ (upc = "scan2" /\ rcu_idx[r] = gp /\ ToBeSeen(r))
        /\ rcu_pc[r] # "deref" => i - 1 <= tmp[r]
        /\ rcu_pc[r] # "deref" /\ rcu_idx[r] = rcu_nesting_idx /\ upc \in {"scan2", "count"} => tmp[r] = i

RcuInv == U!TypeOK /\ Phases /\ ListIsComplete /\ BitsAreSet /\ PromptIsSeen

LEMMA RcuInit == U!Init => RcuInv
<1> SUFFICES ASSUME U!Init PROVE RcuInv
  OBVIOUS
<1>1. Len(nodes) = 0
  BY DEF U!Init
<1> QED BY <1>1, RcuAssumption DEF U!Init, RcuInv, U!TypeOK, Phases, ListIsComplete, BitsAreSet, PromptIsSeen, Inside

\* A store to the word of r leaves the list as it is.
LEMMA RcuStoreWord ==
  ASSUME RcuInv, NEW r \in Readers, rcu_pc[r] \in {"set", "unset"}, NEW bits, U!StoreWord(r, bits)
  PROVE  nodes' = nodes /\ nesting' = [nesting EXCEPT ![r] = bits]
<1>1. PICK m \in 1 .. Len(nodes) : nodes[m] = r
  BY DEF RcuInv, ListIsComplete
<1>2. \A k \in 1 .. Len(nodes) : nodes[k] = r => k = m
  BY <1>1 DEF RcuInv, ListIsComplete
<1>3. (CHOOSE k \in 1 .. Len(nodes) : nodes[k] = r) = m
  BY <1>1, <1>2
<1>4. nodes \in Seq(Readers) /\ Len(nodes) \in Nat
  BY DEF RcuInv, U!TypeOK
<1>5. ASSUME rcu_last[r] PROVE m = Len(nodes)
  <2>1. U!IsLast(r)
    BY <1>5 DEF RcuInv, ListIsComplete
  <2> QED BY <1>1, <1>4, <2>1 DEF U!IsLast
<1>6. SubSeq(nodes, 1, Len(nodes)) = nodes
  BY <1>4
<1> QED BY <1>1, <1>3, <1>5, <1>6 DEF U!StoreWord

\* The steps of a reader that change its own variables only.
LEMMA RcuReaderStep ==
  ASSUME RcuInv, NEW r \in Readers,
         \/ U!LockLoadWord(r) \/ U!LockLoadIndex(r) \/ U!Deref(r) \/ U!Use(r) \/ U!Raise(r)
         \/ U!CountGp(r) \/ U!UnlockLoad(r)
  PROVE  RcuInv'
<1> USE DEF RcuInv
<1>1. /\ UNCHANGED <<nodes, nesting, rcu_nesting_idx, dut, rcu_freed, gp_idx, late, upc, i, oldp, at, gp>>
      /\ \E s \in {"index", "set", "use", "cas", "abort", "gp", "unlock", "unset"} : rcu_pc' = [rcu_pc EXCEPT ![r] = s]
      /\ rcu_pc[r] \notin {"init", "set", "unset"}
      /\ rcu_idx' # rcu_idx => rcu_pc[r] = "index"
  BY DEF U!LockLoadWord, U!LockLoadIndex, U!Deref, U!Use, U!Raise, U!CountGp, U!UnlockLoad, U!Goto,
         U!shared, U!test, U!upd
<1>2. U!TypeOK'
  <2>1. rcu_pc' \in [Readers -> {"init", "lock", "index", "set", "deref", "use", "cas", "gp", "unlock", "unset", "done", "abort"}]
    BY <1>1 DEF U!TypeOK
  <2>2. U!IsLast(r) \in BOOLEAN
    BY DEF U!IsLast
  <2>3. rcu_last' \in [Readers -> BOOLEAN]
    BY <2>2 DEF U!TypeOK, U!LockLoadWord, U!LockLoadIndex, U!Deref, U!Use, U!Raise, U!CountGp, U!UnlockLoad
  <2>4. /\ rcu_idx' \in [Readers -> Nat] /\ tmp' \in [Readers -> 0 .. Updates] /\ old' \in [Readers -> 0 .. Updates]
        /\ prev_count' \in 0 .. Updates
    BY DEF U!TypeOK, U!LockLoadWord, U!LockLoadIndex, U!Deref, U!Use, U!Raise, U!CountGp, U!UnlockLoad, U!test
  <2> QED BY <1>1, <2>1, <2>3, <2>4 DEF U!TypeOK
<1>3. Phases'
  BY <1>1 DEF Phases
<1>4. ListIsComplete'
  <2>1. \A q \in Readers : q # r => rcu_pc'[q] = rcu_pc[q] /\ rcu_last'[q] = rcu_last[q]
    BY DEF U!TypeOK, U!LockLoadWord, U!LockLoadIndex, U!Deref, U!Use, U!Raise, U!CountGp, U!UnlockLoad, U!Goto
  <2>2. rcu_pc'[r] \in {"index", "set", "use", "cas", "abort", "gp", "unlock", "unset"}
    BY <1>1 DEF U!TypeOK
  <2>3. rcu_pc'[r] \in {"index", "set", "unset"} => rcu_last'[r] = U!IsLast(r)
    BY DEF U!TypeOK, U!LockLoadWord, U!LockLoadIndex, U!Deref, U!Use, U!Raise, U!CountGp, U!UnlockLoad, U!Goto, ListIsComplete
  <2>4. \A q \in Readers : U!IsLast(q)' = U!IsLast(q)
    BY <1>1 DEF U!IsLast
  <2>5. \A q \in Readers : rcu_pc[q] # "init"
    <3>1. CASE U!LockLoadWord(r)
      BY <3>1 DEF U!LockLoadWord, U!Started
    <3>2. CASE ~U!LockLoadWord(r)
      <4>1. rcu_pc[r] \notin {"init", "lock"}
        BY <3>2 DEF U!LockLoadIndex, U!Deref, U!Use, U!Raise, U!CountGp, U!UnlockLoad, U!Goto
      <4> QED BY <4>1 DEF ListIsComplete
    <3> QED BY <3>1, <3>2
  <2> QED BY <1>1, <2>1, <2>2, <2>3, <2>4, <2>5 DEF ListIsComplete
<1>5. BitsAreSet'
  BY <1>1 DEF BitsAreSet, Inside, U!TypeOK, U!LockLoadWord, U!LockLoadIndex, U!Deref, U!Use, U!Raise, U!CountGp, U!UnlockLoad, U!Goto
<1>6. PromptIsSeen'
  <2> SUFFICES ASSUME NEW q \in Readers, Inside(q)', ~late'[q]
               PROVE  /\ rcu_idx'[q] = rcu_nesting_idx' \/ (upc' = "scan2" /\ rcu_idx'[q] = gp' /\ ToBeSeen(q)')
                      /\ rcu_pc'[q] # "deref" => i' - 1 <= tmp'[q]
                      /\ rcu_pc'[q] # "deref" /\ rcu_idx'[q] = rcu_nesting_idx' /\ upc' \in {"scan2", "count"} => tmp'[q] = i'
    BY DEF PromptIsSeen
  <2>1. ToBeSeen(q)' = ToBeSeen(q)
    BY <1>1 DEF ToBeSeen
  <2>2. Inside(q) /\ rcu_idx'[q] = rcu_idx[q]
    BY <1>1 DEF Inside, U!TypeOK, U!LockLoadWord, U!LockLoadIndex, U!Deref, U!Use, U!Raise, U!CountGp, U!UnlockLoad, U!Goto
  <2>3. CASE rcu_pc[q] # "deref"
    <3>1. tmp'[q] = tmp[q]
      BY <2>3 DEF U!TypeOK, U!LockLoadWord, U!LockLoadIndex, U!Deref, U!Use, U!Raise, U!CountGp, U!UnlockLoad, U!Goto
    <3> QED BY <1>1, <2>1, <2>2, <2>3, <3>1 DEF PromptIsSeen
  <2>4. CASE rcu_pc[q] = "deref"
    <3>1. q = r /\ U!Deref(r) => tmp'[q] = dut
      BY DEF U!Deref, U!TypeOK
    <3>2. rcu_pc'[q] # "deref" => q = r /\ U!Deref(r)
      BY <2>4 DEF U!TypeOK, U!LockLoadWord, U!LockLoadIndex, U!Deref, U!Use, U!Raise, U!CountGp, U!UnlockLoad, U!Goto
    <3>3. dut \in {i - 1, i} /\ (upc # "assign" => dut = i) /\ i \in Nat
      BY RcuAssumption DEF Phases, U!TypeOK
    <3> QED BY <1>1, <2>1, <2>2, <2>4, <3>1, <3>2, <3>3 DEF PromptIsSeen
  <2> QED BY <2>3, <2>4
<1> QED BY <1>2, <1>3, <1>4, <1>5, <1>6

LEMMA RcuRegister == ASSUME RcuInv, NEW r \in Readers, U!RcuInit(r) PROVE RcuInv'
<1> USE DEF RcuInv
<1>1. /\ UNCHANGED <<nesting, rcu_nesting_idx, dut, rcu_freed, prev_count, gp_idx, rcu_last, rcu_idx, tmp, old, late, upc, i, oldp, at, gp>>
      /\ rcu_pc[r] = "init" /\ rcu_pc' = [rcu_pc EXCEPT ![r] = "lock"] /\ nodes' = Append(nodes, r)
  BY DEF U!RcuInit, U!Goto, U!test, U!upd
<1>2. U!TypeOK'
  BY <1>1 DEF U!TypeOK
<1>3. /\ Len(nodes) \in Nat /\ Len(nodes') = Len(nodes) + 1 /\ nodes'[Len(nodes) + 1] = r
      /\ \A k \in 1 .. Len(nodes) : nodes'[k] = nodes[k] /\ nodes[k] # r
  <2>1. nodes \in Seq(Readers)
    BY DEF U!TypeOK
  <2>2. \A k \in 1 .. Len(nodes) : nodes[k] # r
    BY <1>1 DEF ListIsComplete
  <2> QED BY <1>1, <2>1, <2>2
<1>4. \A q \in Readers : rcu_pc[q] \in {"init", "lock"} /\ rcu_pc'[q] \in {"init", "lock"}
  BY <1>1 DEF ListIsComplete, U!TypeOK
<1>5. ListIsComplete'
  <2>1. \A j, k \in 1 .. Len(nodes) + 1 : nodes'[j] = nodes'[k] => j = k
    BY <1>3 DEF ListIsComplete
  <2>2. ASSUME NEW q \in Readers PROVE rcu_pc'[q] # "init" <=> \E k \in 1 .. Len(nodes) + 1 : nodes'[k] = q
    <3>1. CASE q = r
      <4>1. rcu_pc'[q] # "init" /\ Len(nodes) + 1 \in 1 .. Len(nodes) + 1
        BY <1>1, <1>3, <3>1 DEF U!TypeOK
      <4> QED BY <1>3, <3>1, <4>1
    <3>2. CASE q # r
      <4>1. rcu_pc'[q] = rcu_pc[q]
        BY <1>1, <3>2 DEF U!TypeOK
      <4> QED BY <1>3, <3>2, <4>1 DEF ListIsComplete
    <3> QED BY <3>1, <3>2
  <2> QED BY <1>1, <1>3, <1>4, <2>1, <2>2 DEF ListIsComplete
<1>6. Phases' /\ BitsAreSet' /\ PromptIsSeen'
  BY <1>1, <1>4 DEF Phases, BitsAreSet, PromptIsSeen, Inside
<1> QED BY <1>2, <1>5, <1>6

LEMMA RcuStore == ASSUME RcuInv, NEW r \in Readers, U!LockStore(r) \/ U!UnlockStore(r) PROVE RcuInv'
<1> USE DEF RcuInv
<1>1. /\ UNCHANGED <<rcu_nesting_idx, dut, rcu_freed, prev_count, gp_idx, rcu_last, rcu_idx, tmp, old, upc, i, oldp, at, gp>>
      /\ rcu_pc[r] \in {"set", "unset"}
      /\ \E s \in {"deref", "done"} : rcu_pc' = [rcu_pc EXCEPT ![r] = s]
  BY DEF U!LockStore, U!UnlockStore, U!Goto, U!test, U!upd
<1>2. /\ nodes' = nodes
      /\ U!LockStore(r) => /\ rcu_pc[r] = "set" /\ rcu_pc'[r] = "deref"
                           /\ nesting' = [nesting EXCEPT ![r] = nesting[r] \cup {U!Bit(rcu_idx[r])}]
                           /\ late' = [late EXCEPT ![r] = rcu_nesting_idx # rcu_idx[r]]
      /\ U!UnlockStore(r) => rcu_pc[r] = "unset" /\ rcu_pc'[r] = "done" /\ nesting' = [nesting EXCEPT ![r] = {}] /\ late' = late
  <2>1. CASE U!LockStore(r)
    <3>1. U!StoreWord(r, nesting[r] \cup {U!Bit(rcu_idx[r])})
      BY <2>1 DEF U!LockStore
    <3>2. nodes' = nodes /\ nesting' = [nesting EXCEPT ![r] = nesting[r] \cup {U!Bit(rcu_idx[r])}]
      BY <1>1, <3>1, RcuStoreWord
    <3> QED BY <2>1, <3>2 DEF U!LockStore, U!UnlockStore, U!Goto, U!TypeOK
  <2>2. CASE U!UnlockStore(r)
    <3>1. U!StoreWord(r, {})
      BY <2>2 DEF U!UnlockStore
    <3>2. nodes' = nodes /\ nesting' = [nesting EXCEPT ![r] = {}]
      BY <1>1, <3>1, RcuStoreWord
    <3> QED BY <2>2, <3>2 DEF U!LockStore, U!UnlockStore, U!Goto, U!TypeOK
  <2> QED BY <2>1, <2>2
<1>3. U!Bit(rcu_idx[r]) \in {0, 1}
  <2>1. rcu_idx[r] \in Nat
    BY DEF U!TypeOK
  <2> QED BY <2>1 DEF U!Bit
<1>4. U!TypeOK'
  <2>1. nesting' \in [Readers -> SUBSET {0, 1}]
    <3>1. nesting \in [Readers -> SUBSET {0, 1}]
      BY DEF U!TypeOK
    <3>2. nesting[r] \cup {U!Bit(rcu_idx[r])} \in SUBSET {0, 1}
      BY <1>3, <3>1
    <3> QED BY <1>2, <3>1, <3>2
  <2>2. late' \in [Readers -> BOOLEAN]
    BY <1>2 DEF U!TypeOK
  <2> QED BY <1>1, <1>2, <2>1, <2>2 DEF U!TypeOK
<1>5. Phases'
  BY <1>1 DEF Phases
<1>6. \A q \in Readers : q # r => rcu_pc'[q] = rcu_pc[q] /\ nesting'[q] = nesting[q] /\ late'[q] = late[q]
  BY <1>1, <1>2 DEF U!TypeOK
<1>7. ListIsComplete'
  <2>1. \A q \in Readers : U!IsLast(q)' = U!IsLast(q)
    BY <1>2 DEF U!IsLast
  <2> QED BY <1>1, <1>2, <1>6, <2>1 DEF ListIsComplete
<1>8. BitsAreSet'
  <2>1. nesting'[r] = IF Inside(r)' THEN {U!Bit(rcu_idx'[r])} ELSE {}
    BY <1>1, <1>2 DEF BitsAreSet, Inside, U!TypeOK
  <2> QED BY <1>1, <1>6, <2>1 DEF BitsAreSet, Inside
<1>9. PromptIsSeen'
  <2>1. Inside(r)' /\ ~late'[r] => rcu_pc'[r] = "deref" /\ rcu_idx'[r] = rcu_nesting_idx'
    BY <1>1, <1>2 DEF Inside, U!TypeOK
  <2>2. \A q \in Readers : ToBeSeen(q)' = ToBeSeen(q)
    BY <1>1, <1>2 DEF ToBeSeen
  <2> QED BY <1>1, <1>6, <2>1, <2>2 DEF PromptIsSeen, Inside
<1> QED BY <1>4, <1>5, <1>7, <1>8, <1>9

\* The steps of the updater change none of the readers' variables.
LEMMA RcuUpdaterStep ==
  ASSUME RcuInv, U!Assign \/ U!SyncLock \/ U!Scan1 \/ U!Flip \/ U!Scan2 \/ U!SyncUnlock \/ U!CountAndFree
  PROVE  RcuInv'
<1> USE DEF RcuInv
<1>1. UNCHANGED <<nodes, nesting, prev_count, rcu_pc, rcu_last, rcu_idx, tmp, old, late>>
  BY DEF U!Assign, U!SyncLock, U!Scan1, U!Flip, U!Scan2, U!SyncUnlock, U!CountAndFree, U!shared, U!test, U!reader
<1>0. /\ i \in Nat /\ i >= 1 /\ Updates \in Nat /\ at \in Nat /\ gp \in Nat /\ rcu_nesting_idx \in Nat
      /\ rcu_freed \subseteq 0 .. Updates /\ oldp \in 0 .. Updates /\ Len(nodes) \in Nat
  BY RcuAssumption DEF U!TypeOK
<1>2. Phases' /\ U!TypeOK'
  <2>1. CASE U!Assign
    BY <1>0, <1>1, <2>1 DEF Phases, U!TypeOK, U!Assign, U!UGoto, U!shared
  <2>2. CASE U!SyncLock \/ U!Scan1 \/ U!Scan2 \/ U!SyncUnlock
    <3>1. /\ UNCHANGED <<rcu_nesting_idx, dut, rcu_freed, gp_idx, i, oldp, gp>> /\ at' \in Nat
          /\ upc # "assign" /\ upc' \in {"scan1", "scan2", "count"} /\ (upc' = "scan2" => upc = "scan2")
      BY <1>0, <2>2 DEF U!SyncLock, U!Scan1, U!Scan2, U!SyncUnlock, U!UGoto, U!shared, U!test
    <3>2. Phases'
      BY <3>1 DEF Phases
    <3> QED BY <1>1, <3>1, <3>2 DEF U!TypeOK
  <2>3. CASE U!Flip
    BY <1>0, <1>1, <2>3 DEF Phases, U!TypeOK, U!Flip, U!UGoto, U!test
  <2>4. CASE U!CountAndFree
    <3>1. /\ UNCHANGED <<rcu_nesting_idx, dut, oldp, at, gp>> /\ upc = "count" /\ upc' = "assign"
          /\ gp_idx' = gp_idx + 1 /\ rcu_freed' = rcu_freed \cup {oldp} /\ i' = i + 1
      BY <2>4 DEF U!CountAndFree, U!UGoto, U!shared
    <3>2. \A f \in rcu_freed' : f \in Nat /\ f < i' - 1
      BY <1>0, <3>1 DEF Phases
    <3>3. Phases'
      BY <1>0, <3>1, <3>2 DEF Phases
    <3>4. i' \in 1 .. Updates + 1 /\ gp_idx' \in 0 .. Updates /\ rcu_freed' \in SUBSET (0 .. Updates)
      BY <1>0, <3>1 DEF Phases
    <3> QED BY <1>1, <3>1, <3>3, <3>4 DEF U!TypeOK
  <2> QED BY <2>1, <2>2, <2>3, <2>4
<1>4. ListIsComplete' /\ BitsAreSet'
  BY <1>1 DEF ListIsComplete, BitsAreSet, Inside, U!IsLast
<1>5. PromptIsSeen'
  <2> SUFFICES ASSUME NEW q \in Readers, Inside(q), ~late[q]
               PROVE  /\ rcu_idx[q] = rcu_nesting_idx' \/ (upc' = "scan2" /\ rcu_idx[q] = gp' /\ ToBeSeen(q)')
                      /\ rcu_pc[q] # "deref" => i' - 1 <= tmp[q]
                      /\ rcu_pc[q] # "deref" /\ rcu_idx[q] = rcu_nesting_idx' /\ upc' \in {"scan2", "count"} => tmp[q] = i'
    BY <1>1 DEF PromptIsSeen, Inside
  <2>0. /\ rcu_idx[q] = rcu_nesting_idx \/ (upc = "scan2" /\ rcu_idx[q] = gp /\ ToBeSeen(q))
        /\ rcu_pc[q] # "deref" => i - 1 <= tmp[q]
        /\ rcu_pc[q] # "deref" /\ rcu_idx[q] = rcu_nesting_idx /\ upc \in {"scan2", "count"} => tmp[q] = i
        /\ tmp[q] \in Nat /\ rcu_idx[q] \in Nat
    BY DEF PromptIsSeen, U!TypeOK
  <2>1. CASE U!Assign \/ U!SyncLock \/ U!Scan1
    BY <2>0, <2>1 DEF U!Assign, U!SyncLock, U!Scan1, U!UGoto, U!shared
  <2>2. CASE U!Flip
    <3>1. upc = "scan1" /\ upc' = "scan2" /\ gp' = rcu_nesting_idx /\ at' = 1 /\ rcu_nesting_idx' = rcu_nesting_idx + 1 /\ i' = i
      BY <2>2 DEF U!Flip, U!UGoto
    <3>2. ToBeSeen(q)'
      BY <1>1, <3>1 DEF ToBeSeen, ListIsComplete, Inside
    <3>3. rcu_idx[q] = rcu_nesting_idx /\ rcu_idx[q] # rcu_nesting_idx'
      BY <1>0, <2>0, <3>1
    <3> QED BY <2>0, <3>1, <3>2, <3>3
  <2>3. CASE U!Scan2
    <3>1. /\ upc = "scan2" /\ at <= Len(nodes) /\ U!Bit(gp) \notin nesting[nodes[at]] /\ at' = at + 1
          /\ UNCHANGED <<upc, gp, rcu_nesting_idx, i>>
      BY <2>3 DEF U!Scan2, U!shared
    <3>2. ASSUME rcu_idx[q] = gp, ToBeSeen(q) PROVE ToBeSeen(q)'
      <4>1. PICK k \in 1 .. Len(nodes) : at <= k /\ nodes[k] = q
        BY <3>2 DEF ToBeSeen
      <4>2. nesting[q] = {U!Bit(gp)}
        BY <3>2 DEF BitsAreSet
      <4>3. at # k
        BY <3>1, <4>1, <4>2
      <4> QED BY <1>0, <1>1, <3>1, <4>1, <4>3 DEF ToBeSeen
    <3> QED BY <2>0, <3>1, <3>2
  <2>4. CASE U!SyncUnlock
    <3>1. at > Len(nodes) /\ upc = "scan2" /\ UNCHANGED <<rcu_nesting_idx, i>> /\ upc' = "count"
      BY <2>4 DEF U!SyncUnlock, U!UGoto, U!shared
    <3>2. ~ToBeSeen(q)
      BY <1>0, <3>1 DEF ToBeSeen
    <3> QED BY <2>0, <3>1, <3>2
  <2>5. CASE U!CountAndFree
    <3>1. upc = "count" /\ upc' = "assign" /\ i' = i + 1 /\ UNCHANGED rcu_nesting_idx
      BY <2>5 DEF U!CountAndFree, U!UGoto, U!shared
    <3> QED BY <1>0, <2>0, <3>1
  <2> QED BY <2>1, <2>2, <2>3, <2>4, <2>5
<1> QED BY <1>2, <1>4, <1>5

LEMMA RcuStep == RcuInv /\ [U!Next]_U!vars => RcuInv'
<1> SUFFICES ASSUME RcuInv, [U!Next]_U!vars PROVE RcuInv'
  OBVIOUS
<1>1. CASE UNCHANGED U!vars
  BY <1>1 DEF U!vars, U!shared, U!test, U!reader, U!upd, RcuInv, U!TypeOK, Phases, ListIsComplete, BitsAreSet, PromptIsSeen,
     Inside, ToBeSeen, U!IsLast
<1>2. CASE U!Updater
  BY <1>2, RcuUpdaterStep DEF U!Updater
<1>3. CASE \E r \in Readers : U!Reader(r)
  BY <1>3, RcuReaderStep, RcuRegister, RcuStore DEF U!Reader
<1> QED BY <1>1, <1>2, <1>3 DEF U!Next

LEMMA RcuGives == ASSUME RcuInv PROVE U!RegisteredIsListed /\ U!PromptReaderIsSafe
<1>1. U!RegisteredIsListed
  BY DEF RcuInv, ListIsComplete, U!RegisteredIsListed
<1>2. ASSUME NEW r \in Readers, U!Uses(r), ~late[r] PROVE tmp[r] \notin rcu_freed
  <2>1. i - 1 <= tmp[r] /\ tmp[r] \in Nat /\ i \in Nat
    BY <1>2, RcuAssumption DEF RcuInv, PromptIsSeen, Inside, U!Uses, U!TypeOK
  <2> QED BY <2>1, RcuAssumption DEF RcuInv, Phases, U!TypeOK
<1> QED BY <1>1, <1>2 DEF U!PromptReaderIsSafe

-----------------------------------------------------------------------------
(* hp_list/list2.c *)

\* A reader has set a hazard pointer and not yet cleared one.
Announced(r) == h_pc[r] \in {"validate", "use", "drop_head", "undo", "undo_head", "undo_walk", "drop"}
Walking(r)   == h_pc[r] \in {"undo_walk", "drop"}
Using(r)     == h_pc[r] \in {"use", "drop_head"}

\* The node up to which it will look for one, or which it has set.
Upto(r) == IF Walking(r) THEN h_at[r] ELSE slot[r]

\* Who needs a hazard pointer to a among the first p; with b, a reader that uses a counts
\* wherever its own node is.
Needs(a, p, b) == {r \in Readers : Announced(r) /\ val[r] = a /\ (Upto(r) <= p \/ (b /\ Using(r)))}
Marks(a, p)    == {k \in 1 .. p : hps[k] = a}
Enough(a, p, b) == Cardinality(Needs(a, p, b)) <= Cardinality(Marks(a, p))

DomainTypes ==
    /\ H!TypeOK /\ hps \in Seq(Addresses \cup {0})
    /\ h_pc \in [H!AllThreads -> {"start", "again", "head", "insert", "validate", "use", "drop_head", "undo", "undo_head",
            "undo_walk", "drop", "scan_head", "scan", "free", "swapped", "cleanup", "clean_head", "clean", "clean_free",
            "done"}]
    /\ val \in [H!AllThreads -> Addresses \cup {0}]
    /\ slot \in [H!AllThreads -> Nat] /\ h_at \in [H!AllThreads -> Nat]
    /\ retired \in [Writers -> SUBSET Addresses] /\ h_todo \in [Writers -> SUBSET Addresses]
    /\ \A r \in Readers : Announced(r) => val[r] \in Addresses /\ Upto(r) \in 0 .. Len(hps) /\ (~Walking(r) => slot[r] > 0)
    /\ \A r \in Readers : h_pc[r] = "insert" => val[r] \in Addresses
    /\ \A r \in Readers : h_pc[r] = "head" => val[r] \in Addresses
    /\ \A r \in Readers : h_pc[r] \notin {"scan_head", "scan", "free", "swapped", "cleanup", "clean_head", "clean", "clean_free",
            "done"}
    /\ \A w \in Writers : h_pc[w] \in {"start", "scan_head", "scan", "free", "swapped", "cleanup", "clean_head", "clean", "clean_free",
            "done"}

\* What a writer has taken out and not freed.
InHand(w) == IF h_pc[w] \in {"scan_head", "scan", "free"} THEN {val[w]} ELSE {}
Held(w)   == retired[w] \cup InHand(w)

HeldOnce ==
    /\ \A w \in Writers : Held(w) \subseteq allocated \ {shared}
    /\ \A v, w \in Writers : v # w => Held(v) \cap Held(w) = {}
    /\ \A a \in allocated : a = shared \/ \E w \in Writers : a \in Held(w)
    /\ \A w \in Writers : h_pc[w] \in {"clean_head", "clean", "clean_free"} => val[w] \in retired[w] \ h_todo[w]
    /\ \A w \in Writers : h_pc[w] \in {"cleanup", "clean_head", "clean", "clean_free"} /\ H!Last(w) =>
          retired[w] = h_todo[w] \cup (IF h_pc[w] = "cleanup" THEN {} ELSE {val[w]})
    /\ \A w \in Writers : h_pc[w] = "done" => retired[w] = {}
    /\ \A w \in Writers : h_pc[w] \notin {"cleanup", "clean_head", "clean", "clean_free"} => h_todo[w] = {}

\* There are enough hazard pointers for all readers, below every node; and for a writer that
\* looks for its pointer, enough for all that use it among the nodes it has still to visit.
MarksSuffice == \A a \in Addresses, p \in 0 .. Len(hps) : Enough(a, p, FALSE)
ScanSuffices ==
    \A w \in Writers, a \in Addresses : h_pc[w] \in {"scan", "clean"} /\ val[w] = a =>
        \A p \in h_at[w] .. Len(hps) : Enough(a, p, TRUE)
FreedIsUnused ==
    \A w \in Writers : h_pc[w] \in {"free", "clean_free"} => \A r \in Readers : Using(r) => val[r] # val[w]

DomainInv == DomainTypes /\ HeldOnce /\ MarksSuffice /\ ScanSuffices /\ FreedIsUnused


\* Counting two sets against each other.
LEMMA CountShrinks ==
  ASSUME NEW X, NEW Y, NEW X1, NEW Y1, IsFiniteSet(X), IsFiniteSet(Y), IsFiniteSet(Y1), X1 \subseteq X, Y \subseteq Y1,
         Cardinality(X) <= Cardinality(Y)
  PROVE  Cardinality(X1) <= Cardinality(Y1)
<1>1. IsFiniteSet(X1) /\ Cardinality(X1) <= Cardinality(X) /\ Cardinality(Y) <= Cardinality(Y1)
  BY FS_Subset
<1>2. Cardinality(X1) \in Nat /\ Cardinality(X) \in Nat /\ Cardinality(Y) \in Nat /\ Cardinality(Y1) \in Nat
  BY <1>1, FS_CardinalityType
<1> QED BY <1>1, <1>2

LEMMA CountOut ==
  ASSUME NEW X, NEW Y, IsFiniteSet(X), IsFiniteSet(Y), NEW x \in X, NEW y \in Y, Cardinality(X) <= Cardinality(Y),
         NEW X1, X1 \subseteq X \ {x}
  PROVE  Cardinality(X1) <= Cardinality(Y \ {y})
<1>1. /\ IsFiniteSet(X \ {x}) /\ Cardinality(X \ {x}) = Cardinality(X) - 1
      /\ IsFiniteSet(Y \ {y}) /\ Cardinality(Y \ {y}) = Cardinality(Y) - 1
  BY FS_RemoveElement
<1>2. IsFiniteSet(X1) /\ Cardinality(X1) <= Cardinality(X \ {x})
  BY <1>1, FS_Subset
<1>3. Cardinality(X1) \in Nat /\ Cardinality(X) \in Nat /\ Cardinality(Y) \in Nat
  BY <1>2, FS_CardinalityType
<1> QED BY <1>1, <1>2, <1>3

LEMMA CountIn ==
  ASSUME NEW X, NEW Y, IsFiniteSet(X), IsFiniteSet(Y), NEW x, NEW y, y \notin Y, Cardinality(X) <= Cardinality(Y),
         NEW X1, X1 \subseteq X \cup {x}
  PROVE  Cardinality(X1) <= Cardinality(Y \cup {y})
<1>1. /\ IsFiniteSet(Y \cup {y}) /\ Cardinality(Y \cup {y}) = Cardinality(Y) + 1
      /\ IsFiniteSet(X \cup {x}) /\ (x \in X => X \cup {x} = X) /\ (x \notin X => Cardinality(X \cup {x}) = Cardinality(X) + 1)
  BY FS_AddElement
<1>2. IsFiniteSet(X1) /\ Cardinality(X1) <= Cardinality(X \cup {x})
  BY <1>1, FS_Subset
<1>3. Cardinality(X1) \in Nat /\ Cardinality(X) \in Nat /\ Cardinality(Y) \in Nat /\ Cardinality(X \cup {x}) \in Nat
  BY <1>1, <1>2, FS_CardinalityType
<1> QED BY <1>1, <1>2, <1>3

LEMMA CountZero ==
  ASSUME NEW X, IsFiniteSet(X), Cardinality(X) <= Cardinality({})
  PROVE  X = {}
BY FS_EmptySet, FS_CardinalityType

LEMMA NeedsFinite == \A a, p, b : IsFiniteSet(Needs(a, p, b))
<1> SUFFICES ASSUME NEW a, NEW p, NEW b PROVE IsFiniteSet(Needs(a, p, b))
  OBVIOUS
<1>1. Needs(a, p, b) \subseteq Readers
  BY DEF Needs
<1> QED BY <1>1, FS_Subset, DomainAssumption

LEMMA MarksFinite == \A a : \A p \in Nat : IsFiniteSet(Marks(a, p))
<1> SUFFICES ASSUME NEW a, NEW p \in Nat PROVE IsFiniteSet(Marks(a, p))
  OBVIOUS
<1>1. Marks(a, p) \subseteq 1 .. p
  BY DEF Marks
<1>2. IsFiniteSet(1 .. p)
  BY FS_Interval
<1> QED BY <1>1, <1>2, FS_Subset

\* The same facts in the next state.
LEMMA NeedsFiniteNext == ASSUME NEW a, NEW p, NEW b PROVE IsFiniteSet(Needs(a, p, b)')
<1>1. Needs(a, p, b)' \subseteq Readers
  BY DEF Needs
<1> QED BY <1>1, FS_Subset, DomainAssumption

LEMMA MarksFiniteNext == ASSUME NEW a, NEW p \in Nat PROVE IsFiniteSet(Marks(a, p)')
<1>1. Marks(a, p)' \subseteq 1 .. p
  BY DEF Marks
<1>2. IsFiniteSet(1 .. p)
  BY FS_Interval
<1> QED BY <1>1, <1>2, FS_Subset

LEMMA DomainTyped ==
  ASSUME DomainTypes
  PROVE  /\ Len(hps) \in Nat /\ \A k \in 1 .. Len(hps) : hps[k] \in Addresses \cup {0}
         /\ 0 \notin Addresses /\ H!nullptr = 0 /\ H!AllThreads = Readers \cup Writers
         /\ \A r \in Readers : r \notin Writers
         /\ \A t \in H!AllThreads : h_at[t] \in 0 .. Len(hps) /\ slot[t] \in Nat
         /\ \A r \in Readers : Announced(r) => val[r] \in Addresses /\ Upto(r) \in 0 .. Len(hps)
BY DomainAssumption DEF DomainTypes, H!TypeOK, H!nullptr, H!AllThreads

\* A walk comes to a hazard pointer before the list ends.
LEMMA WalkFinds == ASSUME DomainInv, NEW r \in Readers, Walking(r) PROVE h_at[r] \in 1 .. Len(hps)
<1> USE DEF DomainInv
<1>1. val[r] \in Addresses /\ h_at[r] \in 0 .. Len(hps) /\ Announced(r) /\ Len(hps) \in Nat
  <2>1. Announced(r) /\ r \in H!AllThreads
    BY DEF Announced, Walking, H!AllThreads
  <2> QED BY <2>1, DomainTyped
<1>2. ASSUME h_at[r] = 0 PROVE FALSE
  <2>1. Enough(val[r], 0, FALSE)
    <3>1. 0 \in 0 .. Len(hps)
      BY <1>1
    <3> QED BY <1>1, <3>1, Zenon DEF MarksSuffice
  <2>2. Marks(val[r], 0) = {}
    BY DEF Marks
  <2>3. r \in Needs(val[r], 0, FALSE)
    BY <1>1, <1>2 DEF Needs, Upto
  <2> QED BY <2>1, <2>2, <2>3, CountZero, NeedsFinite DEF Enough
<1> QED BY <1>1, <1>2

\* What a step of reader r leaves alone.
LEMMA ReaderFrame ==
  ASSUME DomainInv, NEW r \in Readers, H!Reader(r)
  PROVE  /\ UNCHANGED <<shared, allocated, retired, r_count, h_todo, h_iter>>
         /\ \A t \in H!AllThreads : t # r => h_pc'[t] = h_pc[t] /\ val'[t] = val[t] /\ slot'[t] = slot[t] /\ h_at'[t] = h_at[t]
BY DEF DomainInv, DomainTypes, H!Reader, H!Load, H!LoadHead, H!Insert, H!Validate, H!Undo, H!Use, H!Remove, H!mine, H!Goto, H!Walk

\* If r needs no more than before and the list is the same, there are enough pointers.
LEMMA NeedsLess ==
  ASSUME DomainInv, NEW r \in Readers, H!Reader(r), hps' = hps, NEW a, NEW p \in Nat, NEW b, Enough(a, p, b),
         (r \in Needs(a, p, b)') => r \in Needs(a, p, b)
  PROVE  Enough(a, p, b)'
<1>1. Marks(a, p)' = Marks(a, p)
  BY DEF Marks
<1>2. Needs(a, p, b)' \subseteq Needs(a, p, b)
  <2> SUFFICES ASSUME NEW s \in Readers, s # r, s \in Needs(a, p, b)' PROVE s \in Needs(a, p, b)
    BY DEF Needs
  <2>1. h_pc'[s] = h_pc[s] /\ val'[s] = val[s] /\ slot'[s] = slot[s] /\ h_at'[s] = h_at[s]
    BY ReaderFrame DEF H!AllThreads
  <2> QED BY <2>1 DEF Needs, Announced, Upto, Walking, Using
<1> QED BY <1>1, <1>2, CountShrinks, NeedsFinite, MarksFinite DEF Enough


\* A step of a reader keeps enough pointers for a from node m on; with b, only if nobody can
\* begin to use a.
LEMMA ReaderKeepsEnough ==
  ASSUME DomainInv, NEW r \in Readers, H!Reader(r), NEW a \in Addresses, NEW b \in BOOLEAN, b => a # shared,
         NEW m \in 0 .. Len(hps), \A p \in m .. Len(hps) : Enough(a, p, b), NEW p \in m .. Len(hps')
  PROVE  Enough(a, p, b)'
<1> USE DEF DomainInv
<1>0. Len(hps) \in Nat /\ m \in Nat /\ p \in Nat /\ r \in H!AllThreads /\ h_at[r] \in 0 .. Len(hps) /\ slot[r] \in Nat
  <2>1. Len(hps) \in Nat /\ r \in H!AllThreads
    BY DomainTyped
  <2> QED BY <2>1, DomainTyped
<1>r. \A s \in Readers : s # r => h_pc'[s] = h_pc[s] /\ val'[s] = val[s] /\ slot'[s] = slot[s] /\ h_at'[s] = h_at[s]
  BY ReaderFrame DEF H!AllThreads
<1>s. \A s \in Readers, k \in Nat : s # r => (s \in Needs(a, k, b)' <=> s \in Needs(a, k, b))
  BY <1>r DEF Needs, Announced, Upto, Walking, Using
<1>1. CASE H!Load(r)
  <2>1. hps' = hps /\ h_pc'[r] = "head"
    BY <1>0, <1>1 DEF H!Load, DomainTypes
  <2>2. ~Announced(r)'
    BY <2>1 DEF Announced
  <2> QED BY <1>0, <2>1, <2>2, NeedsLess DEF Needs
<1>2. CASE H!LoadHead(r)
  <2>1. hps' = hps /\ h_at'[r] = Len(hps) /\ val'[r] = val[r] /\ slot' = slot /\ p \in m .. Len(hps)
    BY <1>0, <1>2 DEF H!LoadHead, H!Walk, DomainTypes
  <2>2. \/ h_pc[r] = "head" /\ h_pc'[r] = "insert"
        \/ h_pc[r] = "undo_head" /\ h_pc'[r] = "undo_walk"
        \/ h_pc[r] = "drop_head" /\ h_pc'[r] = "drop"
    <3>1. h_pc[r] \in {"head", "undo_head", "drop_head"}
      BY <1>2 DEF H!LoadHead, DomainTypes
    <3> QED BY <1>0, <1>2, <3>1 DEF H!LoadHead, DomainTypes
  <2>3. CASE h_pc'[r] = "insert"
    BY <1>0, <2>1, <2>3, NeedsLess DEF Needs, Announced
  <2>4. CASE h_pc'[r] \in {"undo_walk", "drop"}
    <3>1. slot[r] \in 0 .. Len(hps) /\ Announced(r) /\ ~Walking(r)
      BY <2>2, <2>4, DomainTyped DEF Announced, Walking, Upto
    <3>2. ~Using(r)' /\ Upto(r)' = Len(hps)
      BY <2>1, <2>4 DEF Using, Upto, Walking
    <3>3. r \in Needs(a, p, b)' => r \in Needs(a, p, b)
      BY <1>0, <2>1, <3>1, <3>2 DEF Needs, Upto
    <3> QED BY <1>0, <2>1, <3>3, NeedsLess
  <2> QED BY <2>2, <2>3, <2>4
<1>3. CASE H!Validate(r) \/ H!Use(r)
  <2>1. hps' = hps /\ UNCHANGED <<val, slot, h_at>> /\ p \in m .. Len(hps)
    BY <1>3 DEF H!Validate, H!Use
  <2>2. /\ h_pc[r] \in {"validate", "use"} /\ h_pc'[r] \in {"use", "undo", "drop_head"}
        /\ h_pc[r] = "validate" /\ h_pc'[r] \in {"use", "drop_head"} => val[r] = shared
        /\ h_pc[r] = "use" => h_pc'[r] = "drop_head"
    BY <1>0, <1>3 DEF H!Validate, H!Use, H!Goto, DomainTypes
  <2>3. r \in Needs(a, p, b)' => r \in Needs(a, p, b)
    BY <2>1, <2>2 DEF Needs, Announced, Upto, Walking, Using
  <2> QED BY <1>0, <2>1, <2>3, NeedsLess
<1>4. CASE H!Undo(r) /\ hps[slot[r]] # val[r]
  <2>1. hps' = hps /\ UNCHANGED <<val, slot, h_at>> /\ h_pc[r] = "undo" /\ h_pc'[r] = "undo_head" /\ p \in m .. Len(hps)
    BY <1>0, <1>4 DEF H!Undo, H!Goto, DomainTypes
  <2>2. r \in Needs(a, p, b)' => r \in Needs(a, p, b)
    BY <2>1 DEF Needs, Announced, Upto, Walking, Using
  <2> QED BY <1>0, <2>1, <2>2, NeedsLess
<1>5. CASE H!Insert(r) /\ h_at[r] > 0 /\ hps[h_at[r]] # 0
  <2>1. hps' = hps /\ h_pc'[r] = "insert" /\ p \in m .. Len(hps)
    BY <1>0, <1>5, DomainTyped DEF H!Insert, H!Goto, DomainTypes
  <2> QED BY <1>0, <2>1, NeedsLess DEF Needs, Announced
<1>6. CASE H!Remove(r) /\ hps[h_at[r]] # val[r]
  <2>1. h_at[r] \in 1 .. Len(hps) /\ Walking(r)
    BY <1>6, WalkFinds DEF H!Remove, Walking
  <2>2. hps' = hps /\ UNCHANGED <<h_pc, val, slot>> /\ h_at'[r] = h_at[r] - 1 /\ p \in m .. Len(hps)
    BY <1>0, <1>6, <2>1 DEF H!Remove, H!Walk, DomainTypes
  <2>3. Announced(r) /\ Upto(r) = h_at[r] /\ Upto(r)' = h_at[r] - 1 /\ (Using(r)' <=> Using(r)) /\ Announced(r)'
    BY <2>1, <2>2 DEF Announced, Upto, Walking, Using
  <2>4. CASE r \in Needs(a, p, b)' => r \in Needs(a, p, b)
    BY <1>0, <2>2, <2>4, NeedsLess
  <2>5. CASE ~(r \in Needs(a, p, b)' => r \in Needs(a, p, b))
    <3>1. h_at[r] = p + 1 /\ val[r] = a /\ p + 1 \in m .. Len(hps)
      BY <1>0, <2>1, <2>2, <2>3, <2>5 DEF Needs
    <3>2. Marks(a, p)' = Marks(a, p + 1)
      BY <1>0, <1>6, <2>2, <3>1 DEF Marks
    <3>3. Needs(a, p, b)' \subseteq Needs(a, p + 1, b)
      <4>1. r \in Needs(a, p + 1, b)
        BY <2>3, <3>1, <1>0 DEF Needs
      <4>2. ASSUME NEW s \in Readers, s # r, s \in Needs(a, p, b)' PROVE s \in Needs(a, p + 1, b)
        <5>1. s \in Needs(a, p, b)
          BY <1>0, <1>s, <4>2
        <5>2. Upto(s) \in Nat
          BY <5>1, <1>0, DomainTyped DEF Needs
        <5> QED BY <1>0, <5>1, <5>2 DEF Needs
      <4>3. Needs(a, p, b)' \subseteq Readers
        BY DEF Needs
      <4> QED BY <4>1, <4>2, <4>3
    <3>4. Enough(a, p + 1, b) /\ p + 1 \in Nat
      BY <1>0, <3>1
    <3> QED BY <3>2, <3>3, <3>4, CountShrinks, NeedsFinite, MarksFinite DEF Enough
  <2> QED BY <2>4, <2>5
\* Clearing a pointer: one reader and one pointer less.
<1>7. CASE (H!Undo(r) /\ hps[slot[r]] = val[r]) \/ (H!Remove(r) /\ hps[h_at[r]] = val[r])
  <2> DEFINE u == Upto(r)
  <2>1. Announced(r) /\ u \in 1 .. Len(hps) /\ hps[u] = val[r] /\ hps' = [hps EXCEPT ![u] = 0] /\ ~Announced(r)'
    <3>1. CASE H!Undo(r) /\ hps[slot[r]] = val[r]
      <4>1. Announced(r) /\ ~Walking(r) /\ u = slot[r]
        BY <3>1 DEF H!Undo, Announced, Walking, Upto
      <4>2. hps' = [hps EXCEPT ![slot[r]] = 0] /\ h_pc'[r] = "again"
        BY <1>0, <3>1 DEF H!Undo, H!Goto, H!nullptr, DomainTypes
      <4>3. slot[r] \in 1 .. Len(hps)
        BY <1>0, <4>1, DomainTyped DEF DomainTypes
      <4> HIDE DEF u
      <4> QED BY <3>1, <4>1, <4>2, <4>3 DEF Announced
    <3>2. CASE H!Remove(r) /\ hps[h_at[r]] = val[r]
      <4>1. Announced(r) /\ Walking(r) /\ u = h_at[r]
        BY <3>2 DEF H!Remove, Announced, Walking, Upto
      <4>2. h_at[r] \in 1 .. Len(hps)
        BY <4>1, WalkFinds
      <4>3. hps' = [hps EXCEPT ![h_at[r]] = 0] /\ h_pc'[r] \in {"start", "again"}
        BY <1>0, <3>2, <4>2 DEF H!Remove, H!nullptr, DomainTypes
      <4> HIDE DEF u
      <4> QED BY <3>2, <4>1, <4>2, <4>3 DEF Announced
    <3> QED BY <1>7, <3>1, <3>2
  <2>2. Len(hps') = Len(hps) /\ p \in m .. Len(hps) /\ \A k \in 1 .. Len(hps) : hps'[k] = IF k = u THEN 0 ELSE hps[k]
    <3> HIDE DEF u
    <3>1. hps \in Seq(Addresses \cup {0})
      BY DEF DomainTypes
    <3>2. Len(hps') = Len(hps) /\ \A k \in 1 .. Len(hps) : hps'[k] = IF k = u THEN 0 ELSE hps[k]
      BY <2>1, <3>1
    <3> QED BY <3>2
  <2>3. Needs(a, p, b)' \subseteq Needs(a, p, b) \ {r}
    <3>1. r \notin Needs(a, p, b)' /\ Needs(a, p, b)' \subseteq Readers
      BY <2>1 DEF Needs
    <3> QED BY <1>0, <1>s, <3>1
  <2>4. CASE val[r] = a /\ u <= p
    <3>1. r \in Needs(a, p, b)
      BY <2>1, <2>4 DEF Needs
    <3>2. u \in Marks(a, p) /\ Marks(a, p)' = Marks(a, p) \ {u}
      <4> HIDE DEF u
      <4> QED BY <1>0, <2>1, <2>2, <2>4, DomainTyped DEF Marks
    <3> HIDE DEF u
    <3> QED BY <1>0, <2>2, <2>3, <3>1, <3>2, CountOut, NeedsFinite, MarksFinite DEF Enough
  <2>5. CASE ~(val[r] = a /\ u <= p)
    <3>1. Marks(a, p)' = Marks(a, p)
      <4> HIDE DEF u
      <4> QED BY <1>0, <2>1, <2>2, <2>5, DomainTyped DEF Marks
    <3> QED BY <1>0, <2>2, <2>3, <3>1, CountShrinks, NeedsFinite, MarksFinite DEF Enough
  <2> QED BY <2>4, <2>5
\* Setting one: one of each more.
<1>8. CASE H!Insert(r) /\ ~(h_at[r] > 0 /\ hps[h_at[r]] # 0)
  <2> DEFINE u == slot'[r]
             n == Len(hps)
  <2>1. /\ u \in 1 .. n + 1 /\ val' = val /\ h_pc[r] = "insert" /\ h_pc'[r] = "validate"
        /\ \/ u = n + 1 /\ hps' = Append(hps, val[r])
           \/ u <= n /\ hps[u] = 0 /\ hps' = [hps EXCEPT ![u] = val[r]]
    <3>1. CASE h_at[r] = 0
      BY <1>0, <1>8, <3>1 DEF H!Insert, H!Goto, DomainTypes
    <3>2. CASE h_at[r] > 0
      <4>1. slot' = [slot EXCEPT ![r] = h_at[r]] /\ h_at[r] \in 1 .. n /\ hps[h_at[r]] = 0
        BY <1>0, <1>8, <3>2, DomainTyped DEF H!Insert
      <4>2. u = h_at[r]
        BY <1>0, <4>1 DEF DomainTypes
      <4> HIDE DEF u
      <4> QED BY <1>0, <1>8, <3>2, <4>1, <4>2, DomainTyped DEF H!Insert, H!Goto, DomainTypes
    <3> QED BY <1>0, <3>1, <3>2
  <2>2. val[r] \in Addresses /\ n \in Nat /\ hps \in Seq(Addresses \cup {0})
    BY <1>0, <2>1 DEF DomainTypes
  <2>3. /\ Len(hps') \in {n, n + 1} /\ u <= Len(hps')
        /\ \A k \in 1 .. Len(hps') : hps'[k] = IF k = u THEN val[r] ELSE hps[k]
        /\ (u <= n => hps[u] = 0 /\ Len(hps') = n) /\ (u = n + 1 => Len(hps') = n + 1)
    <3> HIDE DEF u, n
    <3> QED BY <2>1, <2>2 DEF n
  <2>4. ~Announced(r) /\ Announced(r)' /\ ~Using(r)' /\ Upto(r)' = u /\ val'[r] = val[r]
    BY <2>1 DEF Announced, Using, Upto, Walking
  <2> DEFINE k == IF p <= n THEN p ELSE n
  <2>5. k \in m .. n /\ k \in Nat /\ Enough(a, k, b) /\ (p # k => p = n + 1 /\ k = n /\ u = n + 1)
    <3>1. p \in m .. n \/ (p = n + 1 /\ u = n + 1 /\ n \in m .. n)
      <4> HIDE DEF u
      <4> QED BY <1>0, <2>1, <2>2, <2>3
    <3> HIDE DEF u
    <3> QED BY <1>0, <2>2, <3>1
  <2>6. \A s \in Readers : s # r /\ s \in Needs(a, p, b)' => s \in Needs(a, k, b)
    <3> SUFFICES ASSUME NEW s \in Readers, s # r, s \in Needs(a, p, b)' PROVE s \in Needs(a, k, b)
      OBVIOUS
    <3>1. s \in Needs(a, p, b)
      BY <1>0, <1>s
    <3>2. Upto(s) \in 0 .. n
      BY <3>1, DomainTyped DEF Needs
    <3> HIDE DEF u
    <3> QED BY <2>2, <2>5, <3>1, <3>2 DEF Needs
  <2>7. CASE val[r] = a /\ u <= p
    <3>1. Needs(a, p, b)' \subseteq Needs(a, k, b) \cup {r}
      <4>1. Needs(a, p, b)' \subseteq Readers
        BY DEF Needs
      <4> QED BY <2>6, <4>1
    <3>2. u \notin Marks(a, k) /\ Marks(a, p)' = Marks(a, k) \cup {u}
      <4> HIDE DEF u
      <4> HIDE DEF k
      <4>1. u \notin Marks(a, k)
        BY <1>0, <2>1, <2>2, <2>3, <2>5, DomainTyped DEF Marks
      <4>2. \A j \in 1 .. p : j # u => j \in 1 .. k
        BY <1>0, <2>5, <2>2, <2>1
      <4>3. \A j \in 1 .. k : j \in 1 .. p
        BY <1>0, <2>5, <2>2, <2>1
      <4>4. u \in 1 .. p
        BY <1>0, <2>1, <2>7
      <4>5. \A j \in 1 .. p : j \in 1 .. Len(hps')
        BY <1>0, <2>2, <2>3
      <4>6. Marks(a, p)' = {j \in 1 .. p : hps'[j] = a}
        BY DEF Marks
      <4> QED BY <2>3, <2>7, <4>1, <4>2, <4>3, <4>4, <4>5, <4>6 DEF Marks
    <3> HIDE DEF u
    <3> HIDE DEF k
    <3> QED BY <2>5, <3>1, <3>2, CountIn, NeedsFinite, MarksFinite DEF Enough
  <2>8. CASE ~(val[r] = a /\ u <= p)
    <3>1. Needs(a, p, b)' \subseteq Needs(a, k, b)
      <4>1. Needs(a, p, b)' \subseteq Readers /\ r \notin Needs(a, p, b)'
        BY <2>4, <2>8 DEF Needs
      <4> QED BY <2>6, <4>1
    <3>2. Marks(a, k) \subseteq Marks(a, p)'
      <4> HIDE DEF u
      <4> HIDE DEF k
      <4>1. Marks(a, p)' = {j \in 1 .. p : hps'[j] = a}
        BY DEF Marks
      <4>2. ASSUME NEW j \in 1 .. k, hps[j] = a PROVE j \in 1 .. p /\ hps'[j] = a
        <5>1. j \in 1 .. p /\ j \in 1 .. Len(hps') /\ j <= n
          BY <1>0, <2>2, <2>3, <2>5
        <5>2. j # u
          BY <2>1, <2>2, <2>3, <4>2, <5>1, DomainTyped
        <5> QED BY <2>3, <4>2, <5>1, <5>2
      <4> QED BY <4>1, <4>2 DEF Marks
    <3> HIDE DEF u
    <3> HIDE DEF k
    <3> QED BY <1>0, <2>5, <3>1, <3>2, CountShrinks, NeedsFinite, MarksFinite, MarksFiniteNext DEF Enough
  <2> QED BY <2>7, <2>8
<1>9. H!Load(r) \/ H!LoadHead(r) \/ H!Insert(r) \/ H!Validate(r) \/ H!Undo(r) \/ H!Use(r) \/ H!Remove(r)
  BY DEF H!Reader
<1>10. CASE H!Insert(r)
  BY <1>5, <1>8, <1>10
<1>11. CASE H!Undo(r)
  <2>1. CASE hps[slot[r]] = val[r]
    BY <1>7, <1>11, <2>1
  <2> QED BY <1>4, <1>11, <2>1
<1>12. CASE H!Remove(r)
  BY <1>6, <1>7, <1>12
<1> HIDE DEF DomainInv
<1> QED BY <1>1, <1>2, <1>3, <1>9, <1>10, <1>11, <1>12


LEMMA ReaderTypes == ASSUME DomainInv, NEW r \in Readers, H!Reader(r) PROVE DomainTypes'
<1> USE DEF DomainInv
<1>0. Len(hps) \in Nat /\ r \in H!AllThreads /\ h_at[r] \in 0 .. Len(hps) /\ slot[r] \in Nat /\ r \notin Writers
      /\ hps \in Seq(Addresses \cup {0}) /\ shared \in Addresses
  <2>1. Len(hps) \in Nat /\ r \in H!AllThreads /\ r \notin Writers
    BY DomainTyped
  <2> QED BY <2>1, DomainTyped DEF DomainTypes, H!TypeOK
<1>1. /\ UNCHANGED <<shared, allocated, retired, r_count, h_todo, h_iter>>
      /\ \A t \in H!AllThreads : t # r => h_pc'[t] = h_pc[t] /\ val'[t] = val[t] /\ slot'[t] = slot[t] /\ h_at'[t] = h_at[t]
  BY ReaderFrame
<1> DEFINE PC == {"start", "again", "head", "insert", "validate", "use", "drop_head", "undo", "undo_head", "undo_walk", "drop"}
<1>2. /\ h_pc' = [h_pc EXCEPT ![r] = h_pc'[r]] /\ h_pc'[r] \in PC
      /\ val' = [val EXCEPT ![r] = val'[r]] /\ val'[r] \in Addresses \cup {0}
      /\ slot' = [slot EXCEPT ![r] = slot'[r]] /\ slot'[r] \in Nat
      /\ h_at' = [h_at EXCEPT ![r] = h_at'[r]] /\ h_at'[r] \in 0 .. Len(hps')
      /\ hps' \in Seq(Addresses \cup {0}) /\ Len(hps') \in Nat /\ Len(hps) <= Len(hps')
      /\ (Announced(r)' \/ h_pc'[r] \in {"head", "insert"}) => val'[r] \in Addresses
      /\ Announced(r)' /\ ~Walking(r)' => slot'[r] \in 1 .. Len(hps')
  <2> USE DEF DomainTypes
  <2>1. CASE H!Load(r)
    BY <1>0, <2>1 DEF H!Load, Announced
  <2>2. CASE H!LoadHead(r)
    <3>1. h_pc[r] \in {"head", "undo_head", "drop_head"}
      BY <2>2 DEF H!LoadHead
    <3>2. /\ hps' = hps /\ UNCHANGED <<val, slot>> /\ h_at' = [h_at EXCEPT ![r] = Len(hps)]
          /\ h_pc'[r] \in {"insert", "undo_walk", "drop"} /\ h_pc' = [h_pc EXCEPT ![r] = h_pc'[r]]
          /\ (h_pc[r] = "head" <=> h_pc'[r] = "insert")
      BY <1>0, <2>2, <3>1 DEF H!LoadHead, H!Walk
    <3>3. val[r] \in Addresses
      BY <3>1 DEF Announced
    <3> QED BY <1>0, <3>2, <3>3 DEF Announced, Walking
  <2>3. CASE H!Insert(r)
    <3>1. h_pc[r] = "insert" /\ val[r] \in Addresses /\ val' = val
      BY <2>3 DEF H!Insert, H!Goto
    <3>2. CASE h_at[r] = 0
      <4>1. /\ hps' = Append(hps, val[r]) /\ slot' = [slot EXCEPT ![r] = Len(hps) + 1] /\ h_at' = h_at
            /\ h_pc' = [h_pc EXCEPT ![r] = "validate"]
        BY <1>0, <2>3, <3>2 DEF H!Insert, H!Goto
      <4>2. hps' \in Seq(Addresses \cup {0}) /\ Len(hps') = Len(hps) + 1
        BY <1>0, <3>1, <4>1
      <4> QED BY <1>0, <3>1, <3>2, <4>1, <4>2 DEF Walking
    <3>3. CASE h_at[r] > 0 /\ hps[h_at[r]] = 0
      <4>1. /\ hps' = [hps EXCEPT ![h_at[r]] = val[r]] /\ slot' = [slot EXCEPT ![r] = h_at[r]]
            /\ h_at' = [h_at EXCEPT ![r] = 0] /\ h_pc' = [h_pc EXCEPT ![r] = "validate"]
        BY <1>0, <2>3, <3>3, DomainTyped DEF H!Insert, H!Goto, H!Walk
      <4>2. hps' \in Seq(Addresses \cup {0}) /\ Len(hps') = Len(hps)
        BY <1>0, <3>1, <3>3, <4>1
      <4> QED BY <1>0, <3>1, <3>3, <4>1, <4>2 DEF Walking
    <3>4. CASE h_at[r] > 0 /\ hps[h_at[r]] # 0
      <4>1. hps' = hps /\ slot' = slot /\ h_at' = [h_at EXCEPT ![r] = h_at[r] - 1] /\ h_pc' = [h_pc EXCEPT ![r] = "insert"]
        BY <1>0, <2>3, <3>4, DomainTyped DEF H!Insert, H!Goto, H!Walk
      <4> QED BY <1>0, <3>1, <3>4, <4>1 DEF Announced
    <3> QED BY <1>0, <3>2, <3>3, <3>4
  <2>4. CASE H!Validate(r) \/ H!Use(r)
    <3>1. /\ hps' = hps /\ UNCHANGED <<val, slot, h_at>> /\ h_pc[r] \in {"validate", "use"}
          /\ h_pc'[r] \in {"use", "undo", "drop_head"} /\ h_pc' = [h_pc EXCEPT ![r] = h_pc'[r]]
      BY <1>0, <2>4 DEF H!Validate, H!Use, H!Goto
    <3>2. Announced(r) /\ ~Walking(r)
      BY <3>1 DEF Announced, Walking
    <3> QED BY <1>0, <3>1, <3>2 DEF Upto
  <2>5. CASE H!Undo(r)
    <3>a. Announced(r) /\ ~Walking(r) /\ h_pc[r] = "undo"
      BY <2>5 DEF H!Undo, Announced, Walking
    <3>b. Upto(r) \in 0 .. Len(hps) /\ slot[r] > 0 /\ Upto(r) = slot[r]
      BY <3>a DEF Upto
    <3>1. Announced(r) /\ ~Walking(r) /\ h_pc[r] = "undo" /\ slot[r] \in 1 .. Len(hps)
      BY <3>a, <3>b, <1>0
    <3>2. CASE hps[slot[r]] = val[r]
      <4>1. /\ hps' = [hps EXCEPT ![slot[r]] = 0] /\ h_pc' = [h_pc EXCEPT ![r] = "again"] /\ UNCHANGED <<val, h_at>>
            /\ slot' = [slot EXCEPT ![r] = 0]
        BY <2>5, <3>2 DEF H!Undo, H!Goto, H!nullptr
      <4>2. hps' \in Seq(Addresses \cup {0}) /\ Len(hps') = Len(hps)
        <5>1. 0 \in Addresses \cup {0}
          OBVIOUS
        <5> HIDE DEF DomainInv, DomainTypes
        <5> QED BY <1>0, <3>1, <4>1, <5>1
      <4> QED BY <1>0, <4>1, <4>2 DEF Announced
    <3>3. CASE hps[slot[r]] # val[r]
      <4>1. hps' = hps /\ h_pc' = [h_pc EXCEPT ![r] = "undo_head"] /\ UNCHANGED <<val, h_at, slot>>
        BY <2>5, <3>3 DEF H!Undo, H!Goto
      <4> QED BY <1>0, <3>1, <4>1
    <3> QED BY <3>2, <3>3
  <2>6. CASE H!Remove(r)
    <3>1. Announced(r) /\ Walking(r) /\ h_at[r] \in 1 .. Len(hps)
      BY <2>6, WalkFinds DEF H!Remove, Announced, Walking
    <3>2. CASE hps[h_at[r]] = val[r]
      <4>1. /\ hps' = [hps EXCEPT ![h_at[r]] = 0] /\ h_pc'[r] \in {"start", "again"} /\ h_pc' = [h_pc EXCEPT ![r] = h_pc'[r]]
            /\ val' = [val EXCEPT ![r] = 0] /\ h_at' = [h_at EXCEPT ![r] = 0] /\ slot' = [slot EXCEPT ![r] = 0]
        BY <1>0, <2>6, <3>1, <3>2 DEF H!Remove, H!nullptr, H!Walk
      <4>2. hps' \in Seq(Addresses \cup {0}) /\ Len(hps') = Len(hps)
        <5>1. 0 \in Addresses \cup {0}
          OBVIOUS
        <5> HIDE DEF DomainInv, DomainTypes
        <5> QED BY <1>0, <3>1, <4>1, <5>1
      <4> QED BY <1>0, <4>1, <4>2 DEF Announced
    <3>3. CASE hps[h_at[r]] # val[r]
      <4>1. hps' = hps /\ h_at' = [h_at EXCEPT ![r] = h_at[r] - 1] /\ UNCHANGED <<h_pc, val, slot>>
        BY <1>0, <2>6, <3>1, <3>3 DEF H!Remove, H!Walk
      <4>2. h_pc[r] \in PC /\ val[r] \in Addresses
        BY <3>1 DEF Walking
      <4> QED BY <1>0, <3>1, <4>1, <4>2 DEF Walking, Announced
    <3> QED BY <3>2, <3>3
  <2> QED BY <2>1, <2>2, <2>3, <2>4, <2>5, <2>6 DEF H!Reader
<1>3. h_pc' \in [H!AllThreads -> {"start", "again", "head", "insert", "validate", "use", "drop_head", "undo", "undo_head",
            "undo_walk", "drop", "scan_head", "scan", "free", "swapped", "cleanup", "clean_head", "clean", "clean_free",
            "done"}]
  <2> DEFINE x == h_pc'[r]
  <2>1. x \in PC /\ h_pc' = [h_pc EXCEPT ![r] = x]
    BY <1>2
  <2> HIDE DEF x
  <2> QED BY <2>1 DEF DomainTypes
<1>4. val' \in [H!AllThreads -> Addresses \cup {0}]
  <2> DEFINE x == val'[r]
  <2>1. x \in Addresses \cup {0} /\ val' = [val EXCEPT ![r] = x]
    BY <1>2
  <2> HIDE DEF x
  <2> QED BY <2>1 DEF DomainTypes
<1>5. slot' \in [H!AllThreads -> Nat]
  <2> DEFINE x == slot'[r]
  <2>1. x \in Nat /\ slot' = [slot EXCEPT ![r] = x]
    BY <1>2
  <2> HIDE DEF x
  <2> QED BY <2>1 DEF DomainTypes
<1>6. h_at' \in [H!AllThreads -> Nat]
  <2> DEFINE x == h_at'[r]
  <2>1. x \in Nat /\ h_at' = [h_at EXCEPT ![r] = x]
    BY <1>2
  <2> HIDE DEF x
  <2> QED BY <2>1 DEF DomainTypes
<1>7. H!TypeOK'
  <2>1. shared' \in allocated' /\ allocated' \subseteq Addresses /\ \A w \in Writers : retired'[w] \subseteq allocated' /\ h_todo'[w] \subseteq retired'[w]
    BY <1>1 DEF DomainTypes, H!TypeOK
  <2>2. \A k \in DOMAIN hps' : hps'[k] \in Addresses \cup {0}
    BY <1>2
  <2>3. \A t \in H!AllThreads : val'[t] \in Addresses \cup {0} /\ h_at'[t] \in 0 .. Len(hps')
    <3> SUFFICES ASSUME NEW t \in H!AllThreads PROVE val'[t] \in Addresses \cup {0} /\ h_at'[t] \in 0 .. Len(hps')
      OBVIOUS
    <3>1. CASE t = r
      BY <1>2, <3>1
    <3>2. CASE t # r
      BY <1>0, <1>1, <1>2, <3>2, DomainTyped DEF DomainTypes, H!TypeOK
    <3> QED BY <3>1, <3>2
  <2> QED BY <2>1, <2>2, <2>3 DEF H!TypeOK, H!nullptr, H!AllThreads
<1>8. ASSUME NEW s \in Readers
      PROVE  /\ Announced(s)' => val'[s] \in Addresses /\ Upto(s)' \in 0 .. Len(hps') /\ (~Walking(s)' => slot'[s] > 0)
             /\ h_pc'[s] \in {"insert", "head"} => val'[s] \in Addresses
             /\ h_pc'[s] \in PC
  <2>1. CASE s = r
    BY <1>0, <1>2, <2>1 DEF Upto
  <2>2. CASE s # r
    <3>1. h_pc'[s] = h_pc[s] /\ val'[s] = val[s] /\ slot'[s] = slot[s] /\ h_at'[s] = h_at[s]
      BY <1>1, <2>2, DomainTyped
    <3>2. h_pc[s] \in PC
      BY DomainTyped DEF DomainTypes
    <3>3. /\ Announced(s)' <=> Announced(s)
          /\ Walking(s)' <=> Walking(s)
          /\ Upto(s)' = Upto(s)
      BY <3>1 DEF Announced, Walking, Upto
    <3>4. Announced(s) => val[s] \in Addresses /\ Upto(s) \in 0 .. Len(hps) /\ (~Walking(s) => slot[s] > 0)
      BY DEF DomainTypes
    <3>5. h_pc[s] \in {"insert", "head"} => val[s] \in Addresses
      BY DEF DomainTypes
    <3> HIDE DEF PC
    <3> QED BY <1>0, <1>2, <3>1, <3>2, <3>3, <3>4, <3>5
  <2> QED BY <2>1, <2>2
<1>9. \A w \in Writers : h_pc'[w] \in {"start", "scan_head", "scan", "free", "swapped", "cleanup", "clean_head", "clean", "clean_free", "done"}
  BY <1>0, <1>1, DomainTyped DEF DomainTypes
<1>10. retired' \in [Writers -> SUBSET Addresses] /\ h_todo' \in [Writers -> SUBSET Addresses]
  BY <1>1 DEF DomainTypes
<1>11. hps' \in Seq(Addresses \cup {0})
  BY <1>2
<1> HIDE DEF DomainInv
<1> QED BY <1>3, <1>4, <1>5, <1>6, <1>7, <1>8, <1>9, <1>10, <1>11 DEF DomainTypes, H!AllThreads

LEMMA ReaderStep == ASSUME DomainInv, NEW r \in Readers, H!Reader(r) PROVE DomainInv'
<1> USE DEF DomainInv
<1>1. /\ UNCHANGED <<shared, allocated, retired, r_count, h_todo, h_iter>>
      /\ \A w \in Writers : h_pc'[w] = h_pc[w] /\ val'[w] = val[w] /\ h_at'[w] = h_at[w]
      /\ \A s \in Readers : s # r => h_pc'[s] = h_pc[s] /\ val'[s] = val[s]
  BY ReaderFrame, DomainTyped
<1>2. DomainTypes'
  BY ReaderTypes
<1>3. HeldOnce'
  <2>1. \A w \in Writers : Held(w)' = Held(w) /\ (H!Last(w)' <=> H!Last(w))
    BY <1>1 DEF Held, InHand, H!Last
  <2> QED BY <1>1, <2>1 DEF HeldOnce
<1>4. MarksSuffice'
  <2> SUFFICES ASSUME NEW a \in Addresses, NEW p \in 0 .. Len(hps') PROVE Enough(a, p, FALSE)'
    BY DEF MarksSuffice
  <2>1. 0 \in 0 .. Len(hps)
    BY DomainTyped
  <2>2. \A k \in 0 .. Len(hps) : Enough(a, k, FALSE)
    BY DEF MarksSuffice
  <2> QED BY <2>1, <2>2, ReaderKeepsEnough
<1>5. ScanSuffices'
  <2> SUFFICES ASSUME NEW w \in Writers, NEW a \in Addresses, h_pc'[w] \in {"scan", "clean"}, val'[w] = a,
                      NEW p \in h_at'[w] .. Len(hps')
               PROVE  Enough(a, p, TRUE)'
    BY DEF ScanSuffices
  <2>0. h_pc[w] \in {"scan", "clean"} /\ val[w] = a /\ p \in h_at[w] .. Len(hps')
    BY <1>1
  <2>1. a # shared
    BY <2>0 DEF HeldOnce, Held, InHand
  <2>2. h_at[w] \in 0 .. Len(hps)
    BY DomainTyped
  <2>3. \A k \in h_at[w] .. Len(hps) : Enough(a, k, TRUE)
    BY <2>0 DEF ScanSuffices
  <2> HIDE DEF DomainInv
  <2> QED BY <2>0, <2>1, <2>2, <2>3, ReaderKeepsEnough
<1>6. FreedIsUnused'
  <2> SUFFICES ASSUME NEW w \in Writers, h_pc[w] \in {"free", "clean_free"}, NEW s \in Readers, Using(s)'
               PROVE  val'[s] # val[w]
    BY <1>1 DEF FreedIsUnused
  <2>1. val[w] # shared
    BY DEF HeldOnce, Held, InHand
  <2>2. CASE Using(s) /\ val'[s] = val[s]
    BY <2>2 DEF FreedIsUnused
  <2>3. CASE s # r
    BY <1>1, <2>2, <2>3 DEF Using
  <2>4. CASE s = r
    <3>1. (Using(r) /\ val'[r] = val[r]) \/ val'[r] = shared
      BY <2>4, DomainTyped DEF Using, H!Reader, H!Load, H!LoadHead, H!Insert, H!Validate, H!Undo, H!Use, H!Remove, H!Goto, DomainTypes
    <3> QED BY <2>1, <2>2, <2>4, <3>1
  <2> QED BY <2>3, <2>4
<1> QED BY <1>2, <1>3, <1>4, <1>5, <1>6


\* The steps of a writer change neither the list nor what the readers have.
LEMMA WriterFrame ==
  ASSUME DomainInv, NEW w \in Writers, H!Writer(w)
  PROVE  /\ hps' = hps /\ slot' = slot
         /\ h_pc' = [h_pc EXCEPT ![w] = h_pc'[w]] /\ val' = [val EXCEPT ![w] = val'[w]] /\ h_at' = [h_at EXCEPT ![w] = h_at'[w]]
         /\ retired' = [retired EXCEPT ![w] = retired'[w]] /\ h_todo' = [h_todo EXCEPT ![w] = h_todo'[w]]
         /\ \A v \in Writers : v # w => (H!Last(v)' <=> H!Last(v))
<1> USE DEF DomainInv, DomainTypes, H!mine
<1>w. w \in H!AllThreads
  BY DEF H!AllThreads
<1>1. CASE \E a \in Addresses : H!Swap(w, a)
  BY <1>w, <1>1 DEF H!Swap, H!Goto, H!Last
<1>2. CASE H!LoadHead(w)
  BY <1>w, <1>2 DEF H!LoadHead, H!Walk, H!Last
<1>3. CASE H!Contains(w) \/ H!NotContained(w)
  BY <1>w, <1>3 DEF H!Contains, H!NotContained, H!Walk, H!Last
<1>4. CASE H!Free(w) \/ H!Defer(w) \/ H!Contained(w)
  BY <1>w, <1>4 DEF H!Free, H!Defer, H!Contained, H!Goto, H!Walk, H!Last
<1>5. CASE H!LastCleanup(w) \/ \E a \in Addresses : H!Cleanup(w, a)
  BY <1>w, <1>5 DEF H!LastCleanup, H!Cleanup, H!Goto, H!Last
<1>6. CASE H!Swapped(w)
  <2>1. \A v \in Writers : v # w => h_iter'[v] = h_iter[v]
    BY <1>6 DEF H!Swapped
  <2> QED BY <1>w, <1>6, <2>1 DEF H!Swapped, H!Goto, H!Last
<1>7. CASE H!CleanupEnds(w)
  <2>1. \A v \in Writers : v # w => h_iter'[v] = h_iter[v]
    BY <1>7 DEF H!CleanupEnds
  <2> QED BY <1>w, <1>7, <2>1 DEF H!CleanupEnds, H!Goto, H!Last
<1> QED BY <1>1, <1>2, <1>3, <1>4, <1>5, <1>6, <1>7 DEF H!Writer


\* What w has to show for its step.
LEMMA WriterKeeps ==
  ASSUME DomainInv, NEW w \in Writers, H!Writer(w),
         h_pc'[w] \in {"start", "scan_head", "scan", "free", "swapped", "cleanup", "clean_head", "clean", "clean_free", "done"},
         val'[w] \in Addresses \cup {0}, h_at'[w] \in 0 .. Len(hps), shared' \in allocated', allocated' \subseteq Addresses,
         retired'[w] \subseteq allocated', h_todo'[w] \subseteq retired'[w], HeldOnce',
         \A a \in Addresses : h_pc'[w] \in {"scan", "clean"} /\ val'[w] = a => \A p \in h_at'[w] .. Len(hps) : Enough(a, p, TRUE),
         h_pc'[w] \in {"free", "clean_free"} => \A r \in Readers : Using(r) => val[r] # val'[w]
  PROVE  DomainInv'
<1> USE DEF DomainInv
<1>0. hps' = hps /\ slot' = slot
  BY WriterFrame
<1>1. \A t \in H!AllThreads : t # w => h_pc'[t] = h_pc[t] /\ val'[t] = val[t] /\ h_at'[t] = h_at[t]
  BY WriterFrame DEF DomainTypes
<1>2. \A v \in Writers : v # w => retired'[v] = retired[v] /\ h_todo'[v] = h_todo[v]
  BY WriterFrame DEF DomainTypes
<1>3. \A r \in Readers : /\ h_pc'[r] = h_pc[r] /\ val'[r] = val[r] /\ slot'[r] = slot[r] /\ h_at'[r] = h_at[r]
                         /\ (Announced(r)' <=> Announced(r)) /\ (Walking(r)' <=> Walking(r)) /\ (Using(r)' <=> Using(r))
                         /\ Upto(r)' = Upto(r)
  <2>1. \A r \in Readers : h_pc'[r] = h_pc[r] /\ val'[r] = val[r] /\ slot'[r] = slot[r] /\ h_at'[r] = h_at[r]
    BY <1>0, <1>1, DomainTyped
  <2> QED BY <2>1 DEF Announced, Walking, Using, Upto
<1>4. ASSUME NEW a, NEW p, NEW b PROVE Enough(a, p, b)' <=> Enough(a, p, b)
  <2>1. Needs(a, p, b)' = Needs(a, p, b)
    BY <1>3 DEF Needs
  <2>2. Marks(a, p)' = Marks(a, p)
    BY <1>0 DEF Marks
  <2> QED BY <2>1, <2>2 DEF Enough
<1>5. MarksSuffice'
  BY <1>0, <1>4 DEF MarksSuffice
<1>6. ScanSuffices'
  <2> SUFFICES ASSUME NEW v \in Writers, NEW a \in Addresses, h_pc'[v] \in {"scan", "clean"}, val'[v] = a,
                      NEW p \in h_at'[v] .. Len(hps)
               PROVE  Enough(a, p, TRUE)
    BY <1>0, <1>4 DEF ScanSuffices
  <2>1. CASE v = w
    BY <2>1
  <2>2. CASE v # w
    BY <1>1, <2>2, DomainTyped DEF ScanSuffices
  <2> QED BY <2>1, <2>2
<1>7. FreedIsUnused'
  <2> SUFFICES ASSUME NEW v \in Writers, h_pc'[v] \in {"free", "clean_free"}, NEW r \in Readers, Using(r)
               PROVE  val[r] # val'[v]
    BY <1>3 DEF FreedIsUnused
  <2> QED BY <1>1, DomainTyped DEF FreedIsUnused
<1>8. DomainTypes'
  <2>1. H!TypeOK'
    <3>1. \A t \in H!AllThreads : val'[t] \in Addresses \cup {0} /\ h_at'[t] \in 0 .. Len(hps')
      BY <1>0, <1>1, DomainTyped DEF DomainTypes, H!TypeOK
    <3>2. \A v \in Writers : retired'[v] \subseteq allocated' /\ h_todo'[v] \subseteq retired'[v]
      <4> SUFFICES ASSUME NEW v \in Writers PROVE retired'[v] \subseteq allocated' /\ h_todo'[v] \subseteq retired'[v]
        OBVIOUS
      <4>1. retired'[v] \subseteq allocated'
        BY DEF HeldOnce, Held
      <4>2. v # w => h_todo'[v] \subseteq retired'[v]
        BY <1>2 DEF DomainTypes, H!TypeOK
      <4> QED BY <4>1, <4>2
    <3>3. \A k \in DOMAIN hps' : hps'[k] \in Addresses \cup {0}
      BY <1>0 DEF DomainTypes, H!TypeOK, H!nullptr
    <3> QED BY <3>1, <3>2, <3>3 DEF H!TypeOK, H!nullptr, H!AllThreads
  <2>2. h_pc' \in [H!AllThreads -> {"start", "again", "head", "insert", "validate", "use", "drop_head", "undo", "undo_head",
            "undo_walk", "drop", "scan_head", "scan", "free", "swapped", "cleanup", "clean_head", "clean", "clean_free",
            "done"}]
    <3> DEFINE x == h_pc'[w]
    <3>1. x \in {"start", "scan_head", "scan", "free", "swapped", "cleanup", "clean_head", "clean", "clean_free", "done"}
          /\ h_pc' = [h_pc EXCEPT ![w] = x]
      BY WriterFrame
    <3> HIDE DEF x
    <3> QED BY <3>1 DEF DomainTypes
  <2>3. val' \in [H!AllThreads -> Addresses \cup {0}]
    <3> DEFINE x == val'[w]
    <3>1. x \in Addresses \cup {0} /\ val' = [val EXCEPT ![w] = x]
      BY WriterFrame
    <3> HIDE DEF x
    <3> QED BY <3>1 DEF DomainTypes
  <2>4. h_at' \in [H!AllThreads -> Nat]
    <3> DEFINE x == h_at'[w]
    <3>1. x \in Nat /\ h_at' = [h_at EXCEPT ![w] = x]
      BY WriterFrame, DomainTyped
    <3> HIDE DEF x
    <3> QED BY <3>1 DEF DomainTypes
  <2>5. retired' \in [Writers -> SUBSET Addresses]
    <3> DEFINE x == retired'[w]
    <3>1. x \in SUBSET Addresses /\ retired' = [retired EXCEPT ![w] = x]
      BY WriterFrame
    <3> HIDE DEF x
    <3> QED BY <3>1 DEF DomainTypes
  <2>6. h_todo' \in [Writers -> SUBSET Addresses]
    <3> DEFINE x == h_todo'[w]
    <3>1. x \in SUBSET Addresses /\ h_todo' = [h_todo EXCEPT ![w] = x]
      BY WriterFrame
    <3> HIDE DEF x
    <3> QED BY <3>1 DEF DomainTypes
  <2>7. slot' \in [H!AllThreads -> Nat] /\ hps' \in Seq(Addresses \cup {0})
    BY <1>0 DEF DomainTypes
  <2>8. \A r \in Readers : /\ Announced(r)' => val'[r] \in Addresses /\ Upto(r)' \in 0 .. Len(hps') /\ (~Walking(r)' => slot'[r] > 0)
                           /\ h_pc'[r] = "insert" => val'[r] \in Addresses
                           /\ h_pc'[r] = "head" => val'[r] \in Addresses
                           /\ h_pc'[r] \notin {"scan_head", "scan", "free", "swapped", "cleanup", "clean_head", "clean", "clean_free", "done"}
    BY <1>0, <1>3 DEF DomainTypes
  <2>9. \A v \in Writers : h_pc'[v] \in {"start", "scan_head", "scan", "free", "swapped", "cleanup", "clean_head", "clean", "clean_free", "done"}
    <3>1. \A v \in Writers : v # w => h_pc'[v] = h_pc[v]
      BY <1>1, DomainTyped
    <3> QED BY <3>1 DEF DomainTypes
  <2> HIDE DEF DomainInv
  <2> QED BY <2>1, <2>2, <2>3, <2>4, <2>5, <2>6, <2>7, <2>8, <2>9 DEF DomainTypes, H!AllThreads
<1> QED BY <1>5, <1>6, <1>7, <1>8

\* The part of HeldOnce that is about w alone.
HeldBy(w) ==
    /\ h_pc[w] \in {"clean_head", "clean", "clean_free"} => val[w] \in retired[w] \ h_todo[w]
    /\ h_pc[w] \in {"cleanup", "clean_head", "clean", "clean_free"} /\ H!Last(w) =>
          retired[w] = h_todo[w] \cup (IF h_pc[w] = "cleanup" THEN {} ELSE {val[w]})
    /\ h_pc[w] = "done" => retired[w] = {}
    /\ h_pc[w] \notin {"cleanup", "clean_head", "clean", "clean_free"} => h_todo[w] = {}

LEMMA HeldOthers ==
  ASSUME DomainInv, NEW w \in Writers, H!Writer(w), NEW v \in Writers, v # w
  PROVE  Held(v)' = Held(v) /\ (HeldBy(v) => HeldBy(v)')
<1>1. v \in H!AllThreads /\ v # w
  BY DEF H!AllThreads
<1>2. h_pc'[v] = h_pc[v] /\ val'[v] = val[v] /\ retired'[v] = retired[v] /\ h_todo'[v] = h_todo[v] /\ (H!Last(v)' <=> H!Last(v))
  BY <1>1, WriterFrame DEF DomainInv, DomainTypes
<1> QED BY <1>2 DEF Held, InHand, HeldBy

LEMMA HeldSame ==
  ASSUME DomainInv, NEW w \in Writers, H!Writer(w), UNCHANGED <<shared, allocated>>, Held(w)' = Held(w), HeldBy(w)'
  PROVE  HeldOnce'
<1>1. \A v \in Writers : Held(v)' = Held(v) /\ HeldBy(v)'
  <2>1. \A v \in Writers : HeldBy(v)
    BY DEF DomainInv, HeldOnce, HeldBy
  <2> QED BY <2>1, HeldOthers
<1>2. \A v \in Writers : Held(v) \subseteq allocated \ {shared}
  BY DEF DomainInv, HeldOnce
<1>3. \A u, v \in Writers : u # v => Held(u) \cap Held(v) = {}
  BY DEF DomainInv, HeldOnce
<1>4. \A a \in allocated : a = shared \/ \E v \in Writers : a \in Held(v)
  BY DEF DomainInv, HeldOnce
<1>5. /\ \A v \in Writers : Held(v)' \subseteq allocated' \ {shared'}
      /\ \A u, v \in Writers : u # v => Held(u)' \cap Held(v)' = {}
      /\ \A a \in allocated' : a = shared' \/ \E v \in Writers : a \in Held(v)'
  BY <1>1, <1>2, <1>3, <1>4
<1> QED BY <1>1, <1>5 DEF HeldOnce, HeldBy


\* What a writer knows before its step.
LEMMA WriterKnows ==
  ASSUME DomainInv, NEW w \in Writers
  PROVE  /\ w \in H!AllThreads /\ Len(hps) \in Nat /\ h_at[w] \in 0 .. Len(hps) /\ val[w] \in Addresses \cup {0}
         /\ shared \in allocated /\ allocated \subseteq Addresses /\ retired[w] \subseteq allocated /\ h_todo[w] \subseteq retired[w]
         /\ HeldBy(w) /\ Held(w) \subseteq allocated \ {shared}
         /\ h_pc[w] \in {"start", "scan_head", "scan", "free", "swapped", "cleanup", "clean_head", "clean", "clean_free", "done"}
         /\ h_pc \in [H!AllThreads -> {"start", "again", "head", "insert", "validate", "use", "drop_head", "undo", "undo_head",
            "undo_walk", "drop", "scan_head", "scan", "free", "swapped", "cleanup", "clean_head", "clean", "clean_free",
            "done"}]
         /\ val \in [H!AllThreads -> Addresses \cup {0}] /\ h_at \in [H!AllThreads -> Nat]
         /\ retired \in [Writers -> SUBSET Addresses] /\ h_todo \in [Writers -> SUBSET Addresses]
<1>1. w \in H!AllThreads
  BY DEF H!AllThreads
<1>2. HeldBy(w) /\ Held(w) \subseteq allocated \ {shared}
  BY DEF DomainInv, HeldOnce, HeldBy
<1> QED BY <1>1, <1>2, DomainTyped DEF DomainInv, DomainTypes, H!TypeOK

\* A search that starts at the head has enough to find.
LEMMA HeadSuffices ==
  ASSUME DomainInv, NEW a \in Addresses
  PROVE  \A p \in Len(hps) .. Len(hps) : Enough(a, p, TRUE)
<1> USE DEF DomainInv
<1>0. Len(hps) \in Nat
  BY DomainTyped
<1>1. Enough(a, Len(hps), FALSE)
  <2>1. Len(hps) \in 0 .. Len(hps)
    BY <1>0
  <2> QED BY <2>1 DEF MarksSuffice
<1>2. Needs(a, Len(hps), TRUE) = Needs(a, Len(hps), FALSE)
  BY <1>0, DomainTyped DEF Needs
<1>3. Enough(a, Len(hps), TRUE)
  BY <1>1, <1>2 DEF Enough
<1>4. \A p \in Len(hps) .. Len(hps) : p = Len(hps)
  BY <1>0
<1> HIDE DEF DomainInv
<1> QED BY <1>3, <1>4

\* A search that leaves a node with another value behind has enough left to find.
LEMMA WalkSuffices ==
  ASSUME DomainInv, NEW w \in Writers, h_pc[w] \in {"scan", "clean"}, h_at[w] > 0, hps[h_at[w]] # val[w], val[w] \in Addresses
  PROVE  \A p \in h_at[w] - 1 .. Len(hps) : Enough(val[w], p, TRUE)
<1> USE DEF DomainInv
<1>0. Len(hps) \in Nat /\ h_at[w] \in 1 .. Len(hps)
  BY DomainTyped, WriterKnows
<1>1. \A p \in h_at[w] .. Len(hps) : Enough(val[w], p, TRUE)
  BY DEF ScanSuffices
<1>2. Enough(val[w], h_at[w] - 1, TRUE)
  <2>1. Needs(val[w], h_at[w] - 1, TRUE) \subseteq Needs(val[w], h_at[w], TRUE)
    BY <1>0, DomainTyped DEF Needs
  <2>2. Marks(val[w], h_at[w]) = Marks(val[w], h_at[w] - 1)
    BY <1>0 DEF Marks
  <2>3. IsFiniteSet(Needs(val[w], h_at[w], TRUE)) /\ IsFiniteSet(Marks(val[w], h_at[w])) /\ IsFiniteSet(Marks(val[w], h_at[w] - 1))
    <3>1. h_at[w] \in Nat /\ h_at[w] - 1 \in Nat
      BY <1>0
    <3> HIDE DEF DomainInv
    <3> QED BY <3>1, NeedsFinite, MarksFinite
  <2>4. Cardinality(Needs(val[w], h_at[w], TRUE)) <= Cardinality(Marks(val[w], h_at[w]))
    <3>1. h_at[w] \in h_at[w] .. Len(hps)
      BY <1>0
    <3>2. Enough(val[w], h_at[w], TRUE)
      BY <1>1, <3>1
    <3> QED BY <3>2 DEF Enough
  <2> HIDE DEF DomainInv
  <2>5. Cardinality(Needs(val[w], h_at[w] - 1, TRUE)) <= Cardinality(Marks(val[w], h_at[w] - 1))
    BY <2>1, <2>2, <2>3, <2>4, CountShrinks
  <2> QED BY <2>5 DEF Enough
<1>3. \A p \in h_at[w] - 1 .. Len(hps) : p = h_at[w] - 1 \/ p \in h_at[w] .. Len(hps)
  BY <1>0
<1> HIDE DEF DomainInv
<1> QED BY <1>1, <1>2, <1>3

\* A search that has found nothing has found that nobody uses the pointer.
LEMMA NobodyUses ==
  ASSUME DomainInv, NEW w \in Writers, h_pc[w] \in {"scan", "clean"}, h_at[w] = 0, val[w] \in Addresses
  PROVE  \A r \in Readers : Using(r) => val[r] # val[w]
<1> USE DEF DomainInv
<1>1. Enough(val[w], 0, TRUE)
  BY DomainTyped DEF ScanSuffices
<1>2. Marks(val[w], 0) = {}
  BY DEF Marks
<1>3. Needs(val[w], 0, TRUE) = {}
  BY <1>1, <1>2, NeedsFinite, CountZero DEF Enough
<1>4. \A r \in Readers : Using(r) => Announced(r)
  BY DEF Using, Announced
<1> HIDE DEF DomainInv
<1> QED BY <1>3, <1>4 DEF Needs

\* The steps that neither swap nor free.
LEMMA WriterSearches ==
  ASSUME DomainInv, NEW w \in Writers, H!Writer(w),
         \/ H!LoadHead(w) \/ H!Contains(w) \/ H!NotContained(w) \/ H!Defer(w) \/ H!Swapped(w) \/ H!LastCleanup(w)
         \/ (\E a \in Addresses : H!Cleanup(w, a)) \/ H!Contained(w) \/ H!CleanupEnds(w)
  PROVE  DomainInv'
<1> DEFINE PC == {"start", "scan_head", "scan", "free", "swapped", "cleanup", "clean_head", "clean", "clean_free", "done"}
           Reached == /\ h_pc'[w] \in PC
                      /\ UNCHANGED <<shared, allocated>> /\ val'[w] \in Addresses \cup {0} /\ h_at'[w] \in 0 .. Len(hps)
                      /\ retired'[w] \subseteq allocated /\ h_todo'[w] \subseteq retired'[w]
                      /\ Held(w)' = Held(w) /\ HeldBy(w)'
                      /\ \A a \in Addresses : h_pc'[w] \in {"scan", "clean"} /\ val'[w] = a =>
                             \A p \in h_at'[w] .. Len(hps) : Enough(a, p, TRUE)
                      /\ h_pc'[w] \in {"free", "clean_free"} => \A r \in Readers : Using(r) => val[r] # val'[w]
<1>0. /\ w \in H!AllThreads /\ Len(hps) \in Nat /\ h_at[w] \in 0 .. Len(hps) /\ val[w] \in Addresses \cup {0}
      /\ retired[w] \subseteq allocated /\ h_todo[w] \subseteq retired[w] /\ HeldBy(w) /\ Held(w) \subseteq allocated
      /\ allocated \subseteq Addresses
  BY WriterKnows
<1>1. ASSUME h_pc[w] \in {"scan_head", "scan", "clean_head", "clean"} PROVE val[w] \in Addresses
  BY <1>0, <1>1 DEF HeldBy, Held, InHand
<1>2. ASSUME H!LoadHead(w) PROVE Reached
  <2>1. /\ UNCHANGED <<shared, allocated, retired, h_todo, val, h_iter>> /\ h_at'[w] = Len(hps)
        /\ \/ h_pc[w] = "scan_head" /\ h_pc'[w] = "scan"
           \/ h_pc[w] = "clean_head" /\ h_pc'[w] = "clean"
    BY <1>0, <1>2, WriterKnows DEF H!LoadHead, H!Walk, H!mine
  <2>2. Held(w)' = Held(w) /\ HeldBy(w)'
    BY <1>0, <2>1 DEF Held, InHand, HeldBy, H!Last
  <2>3. \A a \in Addresses, p \in Len(hps) .. Len(hps) : Enough(a, p, TRUE)
    BY HeadSuffices
  <2>4. \A a \in Addresses : h_pc'[w] \in {"scan", "clean"} /\ val'[w] = a => \A p \in h_at'[w] .. Len(hps) : Enough(a, p, TRUE)
    BY <2>1, <2>3
  <2>5. Len(hps) \in 0 .. Len(hps)
    BY <1>0
  <2> QED BY <1>0, <2>1, <2>2, <2>4, <2>5
<1>3. ASSUME H!Contains(w) PROVE Reached
  <2>1. /\ UNCHANGED <<shared, allocated, retired, h_todo, val, h_iter, h_pc>> /\ h_at'[w] = h_at[w] - 1
        /\ h_pc[w] \in {"scan", "clean"} /\ h_at[w] > 0 /\ hps[h_at[w]] # val[w]
    BY <1>0, <1>3, WriterKnows DEF H!Contains, H!Walk, H!mine
  <2>2. Held(w)' = Held(w) /\ HeldBy(w)'
    BY <1>0, <2>1 DEF Held, InHand, HeldBy, H!Last
  <2>3. \A p \in h_at[w] - 1 .. Len(hps) : Enough(val[w], p, TRUE)
    BY <1>1, <2>1, WalkSuffices
  <2>4. \A a \in Addresses : h_pc'[w] \in {"scan", "clean"} /\ val'[w] = a => \A p \in h_at'[w] .. Len(hps) : Enough(a, p, TRUE)
    BY <2>1, <2>3
  <2>5. h_at[w] - 1 \in 0 .. Len(hps)
    BY <1>0, <2>1
  <2> QED BY <1>0, <2>1, <2>2, <2>4, <2>5
<1>4. ASSUME H!NotContained(w) PROVE Reached
  <2>1. /\ UNCHANGED <<shared, allocated, retired, h_todo, val, h_iter, h_at>> /\ h_at[w] = 0
        /\ \/ h_pc[w] = "scan" /\ h_pc'[w] = "free"
           \/ h_pc[w] = "clean" /\ h_pc'[w] = "clean_free"
    BY <1>0, <1>4, WriterKnows DEF H!NotContained, H!mine
  <2>2. Held(w)' = Held(w) /\ HeldBy(w)'
    BY <1>0, <2>1 DEF Held, InHand, HeldBy, H!Last
  <2> QED BY <1>0, <1>1, <2>1, <2>2, NobodyUses
<1>5. ASSUME H!Defer(w) PROVE Reached
  <2>1. /\ UNCHANGED <<shared, allocated, h_todo, val, h_iter>> /\ h_at'[w] = 0 /\ h_pc[w] = "scan" /\ h_pc'[w] = "swapped"
        /\ retired'[w] = retired[w] \cup {val[w]}
    BY <1>0, <1>5, WriterKnows DEF H!Defer, H!Walk, H!Goto
  <2>2. Held(w)' = Held(w) /\ HeldBy(w)' /\ val[w] \in allocated
    BY <1>0, <2>1 DEF Held, InHand, HeldBy, H!Last
  <2> QED BY <1>0, <2>1, <2>2
<1>6. ASSUME H!Swapped(w) \/ H!LastCleanup(w) PROVE Reached
  <2>1. /\ UNCHANGED <<shared, allocated, retired, val, h_at>> /\ h_pc[w] \in {"swapped", "start"}
        /\ \/ h_pc'[w] = "cleanup" /\ h_todo'[w] = retired[w]
           \/ h_pc'[w] = "start" /\ h_todo'[w] = {}
    BY <1>0, <1>6, WriterKnows DEF H!Swapped, H!LastCleanup, H!Goto
  <2>2. Held(w)' = Held(w) /\ HeldBy(w)'
    BY <1>0, <2>1 DEF Held, InHand, HeldBy
  <2> QED BY <1>0, <2>1, <2>2
<1>7. ASSUME \E a \in Addresses : H!Cleanup(w, a) PROVE Reached
  <2>1. PICK a \in Addresses : H!Cleanup(w, a)
    BY <1>7
  <2>2. /\ UNCHANGED <<shared, allocated, retired, h_at, h_iter>> /\ h_pc[w] = "cleanup" /\ h_pc'[w] = "clean_head"
        /\ a \in h_todo[w] /\ h_todo'[w] = h_todo[w] \ {a} /\ val'[w] = a
    BY <1>0, <2>1, WriterKnows DEF H!Cleanup, H!Goto
  <2>3. Held(w)' = Held(w)
    BY <2>2 DEF Held, InHand
  <2>4. HeldBy(w)'
    BY <1>0, <2>2 DEF HeldBy, H!Last
  <2> QED BY <1>0, <2>2, <2>3, <2>4
<1>8. ASSUME H!Contained(w) PROVE Reached
  <2>1. /\ UNCHANGED <<shared, allocated, retired, h_todo, val, h_iter>> /\ h_at'[w] = 0 /\ h_pc[w] = "clean"
        /\ h_pc'[w] = IF H!Last(w) THEN "clean_head" ELSE "cleanup"
    BY <1>0, <1>8, WriterKnows DEF H!Contained, H!Walk, H!Goto, H!mine
  <2>2. Held(w)' = Held(w)
    BY <2>1 DEF Held, InHand
  <2>3. HeldBy(w)'
    BY <1>0, <2>1 DEF HeldBy, H!Last
  <2> QED BY <1>0, <2>1, <2>2, <2>3
<1>9. ASSUME H!CleanupEnds(w) PROVE Reached
  <2>1. /\ UNCHANGED <<shared, allocated, retired, h_todo, val, h_at>> /\ h_pc[w] = "cleanup" /\ h_todo[w] = {}
        /\ h_pc'[w] = IF H!Last(w) THEN "done" ELSE "start"
    BY <1>0, <1>9, WriterKnows DEF H!CleanupEnds, H!Goto
  <2>2. Held(w)' = Held(w)
    BY <2>1 DEF Held, InHand
  <2>3. HeldBy(w)'
    BY <1>0, <2>1 DEF HeldBy, H!Last
  <2> QED BY <1>0, <2>1, <2>2, <2>3
<1>10. Reached
  BY <1>2, <1>3, <1>4, <1>5, <1>6, <1>7, <1>8, <1>9
<1>11. HeldOnce'
  BY <1>10, HeldSame
<1> QED BY <1>10, <1>11, WriterKeeps, WriterKnows


LEMMA WriterSwaps == ASSUME DomainInv, NEW w \in Writers, NEW a \in Addresses, H!Writer(w), H!Swap(w, a) PROVE DomainInv'
<1>0. /\ w \in H!AllThreads /\ h_at[w] \in 0 .. Len(hps) /\ retired[w] \subseteq allocated /\ h_todo[w] \subseteq retired[w]
      /\ Held(w) \subseteq allocated /\ allocated \subseteq Addresses /\ shared \in allocated
  BY WriterKnows
<1>1. /\ UNCHANGED <<retired, h_todo, h_at>> /\ h_pc[w] = "start" /\ h_pc'[w] = "scan_head" /\ val'[w] = shared /\ shared' = a
      /\ a \notin allocated /\ allocated' = allocated \cup {a}
  BY <1>0, WriterKnows DEF H!Swap, H!Goto, H!mine
<1>2. Held(w)' = Held(w) \cup {shared} /\ HeldBy(w)'
  BY <1>1, WriterKnows DEF Held, InHand, HeldBy
<1>3. HeldOnce'
  <2>1. \A v \in Writers : HeldBy(v)' /\ (v # w => Held(v)' = Held(v))
    <3>1. \A v \in Writers : HeldBy(v)
      BY WriterKnows
    <3> QED BY <1>2, <3>1, HeldOthers
  <2>2. \A v \in Writers : Held(v) \subseteq allocated \ {shared}
    BY WriterKnows
  <2>3. \A u, v \in Writers : u # v => Held(u) \cap Held(v) = {}
    BY DEF DomainInv, HeldOnce
  <2>4. \A b \in allocated : b = shared \/ \E v \in Writers : b \in Held(v)
    BY DEF DomainInv, HeldOnce
  <2>5. \A v \in Writers : Held(v)' \subseteq allocated' \ {shared'}
    BY <1>0, <1>1, <1>2, <2>1, <2>2
  <2>6. \A u, v \in Writers : u # v => Held(u)' \cap Held(v)' = {}
    BY <1>2, <2>1, <2>2, <2>3
  <2>7. \A b \in allocated' : b = shared' \/ \E v \in Writers : b \in Held(v)'
    BY <1>1, <1>2, <2>1, <2>4
  <2> QED BY <2>1, <2>5, <2>6, <2>7 DEF HeldOnce, HeldBy
<1> QED BY <1>0, <1>1, <1>3, WriterKeeps

LEMMA WriterFrees == ASSUME DomainInv, NEW w \in Writers, H!Writer(w), H!Free(w) PROVE DomainInv'
<1>0. /\ w \in H!AllThreads /\ h_at[w] \in 0 .. Len(hps) /\ retired[w] \subseteq allocated /\ h_todo[w] \subseteq retired[w]
      /\ Held(w) \subseteq allocated \ {shared} /\ allocated \subseteq Addresses /\ shared \in allocated /\ HeldBy(w)
      /\ val[w] \in Addresses \cup {0}
  BY WriterKnows
<1>1. /\ UNCHANGED <<h_todo, h_at, val, shared, h_iter>> /\ allocated' = allocated \ {val[w]}
      /\ retired'[w] = retired[w] \ {val[w]}
      /\ \/ h_pc[w] = "free" /\ h_pc'[w] = "swapped"
         \/ h_pc[w] = "clean_free" /\ h_pc'[w] = "cleanup"
  BY <1>0, WriterKnows DEF H!Free
<1>2. val[w] \in Held(w) /\ Held(w)' = Held(w) \ {val[w]}
  BY <1>0, <1>1 DEF Held, InHand, HeldBy
<1>3. HeldBy(w)'
  BY <1>0, <1>1 DEF HeldBy, H!Last
<1>a. h_todo'[w] \subseteq retired'[w]
  <2>1. CASE h_pc[w] = "free"
    <3>1. h_todo[w] = {} \/ val[w] \notin h_todo[w]
      BY <1>0, <2>1 DEF HeldBy
    <3> QED BY <1>0, <1>1, <3>1
  <2>2. CASE h_pc[w] = "clean_free"
    BY <1>0, <1>1, <2>2 DEF HeldBy
  <2> QED BY <1>1, <2>1, <2>2
<1>4. HeldOnce'
  <2>1. \A v \in Writers : HeldBy(v)' /\ (v # w => Held(v)' = Held(v))
    <3>1. \A v \in Writers : HeldBy(v)
      BY WriterKnows
    <3> QED BY <1>3, <3>1, HeldOthers
  <2>2. \A v \in Writers : Held(v) \subseteq allocated \ {shared}
    BY WriterKnows
  <2>3. \A u, v \in Writers : u # v => Held(u) \cap Held(v) = {}
    BY DEF DomainInv, HeldOnce
  <2>4. \A b \in allocated : b = shared \/ \E v \in Writers : b \in Held(v)
    BY DEF DomainInv, HeldOnce
  <2>5. \A v \in Writers : Held(v)' \subseteq allocated' \ {shared'}
    <3> SUFFICES ASSUME NEW v \in Writers PROVE Held(v)' \subseteq allocated' \ {shared'}
      OBVIOUS
    <3>1. CASE v = w
      BY <1>0, <1>1, <1>2, <3>1
    <3>2. CASE v # w
      BY <1>0, <1>1, <1>2, <2>1, <2>2, <2>3, <3>2
    <3> QED BY <3>1, <3>2
  <2>6. \A u, v \in Writers : u # v => Held(u)' \cap Held(v)' = {}
    BY <1>2, <2>1, <2>2, <2>3
  <2>7. \A b \in allocated' : b = shared' \/ \E v \in Writers : b \in Held(v)'
    BY <1>1, <1>2, <2>1, <2>4
  <2> QED BY <2>1, <2>5, <2>6, <2>7 DEF HeldOnce, HeldBy
<1>5. retired'[w] \subseteq allocated'
  BY <1>0, <1>1
<1>6. shared' \in allocated'
  BY <1>0, <1>1, <1>2
<1> QED BY <1>0, <1>1, <1>a, <1>4, <1>5, <1>6, WriterKeeps

LEMMA DomainInit == H!Init => DomainInv
<1> SUFFICES ASSUME H!Init PROVE DomainInv
  OBVIOUS
<1> USE DEF H!Init, H!nullptr, H!AllThreads
<1>1. \A r \in Readers : ~Announced(r)
  BY DEF Announced
<1>2. \A t \in Readers \cup Writers : h_pc[t] = "start" /\ val[t] = 0 /\ h_at[t] = 0 /\ slot[t] = 0
  OBVIOUS
<1>3. hps \in Seq(Addresses \cup {0}) /\ Len(hps) = 0 /\ DOMAIN hps = {}
  OBVIOUS
<1>4. DomainTypes
  BY <1>1, <1>2, <1>3 DEF DomainTypes, H!TypeOK
<1>5. \A w \in Writers : Held(w) = {}
  BY <1>2 DEF Held, InHand
<1>6. HeldOnce
  BY <1>2, <1>5 DEF HeldOnce
<1>7. MarksSuffice
  <2> SUFFICES ASSUME NEW a \in Addresses, NEW p \in 0 .. Len(hps) PROVE Enough(a, p, FALSE)
    BY DEF MarksSuffice
  <2>1. p = 0 /\ Needs(a, p, FALSE) = {} /\ Marks(a, p) = {}
    BY <1>1, <1>3 DEF Needs, Marks
  <2>2. Cardinality({}) = 0
    BY FS_EmptySet
  <2>3. Cardinality(Needs(a, p, FALSE)) <= Cardinality(Marks(a, p))
    <3>1. \A X, Y : X = {} /\ Y = {} => Cardinality(X) <= Cardinality(Y)
      BY <2>2
    <3> QED BY <2>1, <3>1
  <2> QED BY <2>3 DEF Enough
<1>8. ScanSuffices /\ FreedIsUnused
  BY <1>2 DEF ScanSuffices, FreedIsUnused
<1> QED BY <1>4, <1>6, <1>7, <1>8 DEF DomainInv

LEMMA DomainStep == DomainInv /\ [H!Next]_(H!vars) => DomainInv'
<1> SUFFICES ASSUME DomainInv, [H!Next]_(H!vars) PROVE DomainInv'
  OBVIOUS
<1>1. CASE \E r \in Readers : H!Reader(r)
  BY <1>1, ReaderStep
<1>2. ASSUME NEW w \in Writers, H!Writer(w) PROVE DomainInv'
  <2>1. CASE \E a \in Addresses : H!Swap(w, a)
    BY <1>2, <2>1, WriterSwaps
  <2>2. CASE H!Free(w)
    BY <1>2, <2>2, WriterFrees
  <2>3. CASE ~(\E a \in Addresses : H!Swap(w, a)) /\ ~H!Free(w)
    <3>1. \/ H!LoadHead(w) \/ H!Contains(w) \/ H!NotContained(w) \/ H!Defer(w) \/ H!Swapped(w) \/ H!LastCleanup(w)
          \/ (\E a \in Addresses : H!Cleanup(w, a)) \/ H!Contained(w) \/ H!CleanupEnds(w)
      BY <1>2, <2>3 DEF H!Writer
    <3> QED BY <1>2, <3>1, WriterSearches
  <2> QED BY <2>1, <2>2, <2>3
<1>3. CASE UNCHANGED H!vars
  <2>1. UNCHANGED <<shared, allocated, hps, h_pc, val, slot, h_at, retired, r_count, h_todo, loads, h_iter>>
    BY <1>3 DEF H!vars
  <2>2. \A r \in Readers : (Announced(r)' <=> Announced(r)) /\ (Walking(r)' <=> Walking(r)) /\ (Using(r)' <=> Using(r)) /\ Upto(r)' = Upto(r)
    BY <2>1 DEF Announced, Walking, Using, Upto
  <2>3. ASSUME NEW a, NEW p, NEW b PROVE Enough(a, p, b)' <=> Enough(a, p, b)
    <3>1. Needs(a, p, b)' = Needs(a, p, b)
      BY <2>1, <2>2 DEF Needs
    <3>2. Marks(a, p)' = Marks(a, p)
      BY <2>1 DEF Marks
    <3> QED BY <3>1, <3>2 DEF Enough
  <2>4. \A w \in Writers : Held(w)' = Held(w) /\ (H!Last(w)' <=> H!Last(w))
    BY <2>1 DEF Held, InHand, H!Last
  <2>5. DomainTypes'
    BY <2>1, <2>2 DEF DomainInv, DomainTypes, H!TypeOK
  <2>6. HeldOnce'
    BY <2>1, <2>4 DEF DomainInv, HeldOnce
  <2>7. MarksSuffice' /\ ScanSuffices' /\ FreedIsUnused'
    BY <2>1, <2>2, <2>3 DEF DomainInv, MarksSuffice, ScanSuffices, FreedIsUnused
  <2> QED BY <2>5, <2>6, <2>7 DEF DomainInv
<1> QED BY <1>1, <1>2, <1>3 DEF H!Next

LEMMA DomainGives == DomainInv => H!ConfigsAreSafe /\ H!DropFindsPointer
<1> SUFFICES ASSUME DomainInv PROVE H!ConfigsAreSafe /\ H!DropFindsPointer
  OBVIOUS
<1>1. ASSUME NEW w \in Writers, h_pc[w] \in {"free", "clean_free"}
      PROVE  /\ val[w] \in allocated \ {shared}
             /\ \A r \in Readers : h_pc[r] \in {"use", "drop_head"} => val[r] # val[w]
  <2>1. val[w] \in Held(w)
    BY <1>1, WriterKnows DEF Held, InHand, HeldBy
  <2> QED BY <1>1, <2>1, WriterKnows DEF DomainInv, FreedIsUnused, Using
<1>2. ASSUME \A w \in Writers : h_pc[w] = "done" PROVE allocated = {shared}
  <2>1. \A w \in Writers : Held(w) = {}
    BY <1>2 DEF Held, InHand, DomainInv, HeldOnce
  <2> QED BY <2>1 DEF DomainInv, HeldOnce, DomainTypes, H!TypeOK
<1>3. \A r \in Readers : ~(h_pc[r] = "drop" /\ h_at[r] = 0)
  BY WalkFinds DEF Walking
<1> QED BY <1>1, <1>2, <1>3 DEF H!ConfigsAreSafe, H!DropFindsPointer

-----------------------------------------------------------------------------
(* mpmc/mpmc.c *)

EnqControl == {"register", "idle", "find", "put", "clear", "wake"}
DeqControl == {"register", "idle", "find", "spin", "wait", "compare", "over", "lock", "scan", "free", "return"}

\* An enqueue has its index and has not filled its cell; a dequeue has its index and not yet
\* its value, or has its value as well.
Putting(e) == mpmc_pc[e] \in {"find", "put"}
Taking(d)  == mpmc_pc[d] \in {"find", "spin", "wait", "compare"}
Taken(d)   == mpmc_pc[d] \in {"over", "lock", "scan", "free", "return"}
Waits(d)   == mpmc_pc[d] \in {"wait", "compare"}

\* The enqueues and dequeues that have begun.
PutsBegun == {v \in Enqueuers \X (1 .. PerEnq) : v[2] <= PerEnq - left[v[1]]}
PopsBegun == {v \in Dequeuers \X (1 .. PerDeq) : v[2] <= PerDeq - left[v[1]]}

Filled(k) == k < put_index /\ \A e \in Enqueuers : Putting(e) => idx[e] # k

DataTypes ==
    /\ put_index \in Nat /\ pop_index \in Nat
    /\ cell \in [M!Indices -> M!Values \cup Dequeuers \cup {Null}]
    /\ mpmc_freed \subseteq Nat /\ init_node \in Nat /\ init_id \in Int
    /\ handle \in [M!AllThreads -> Nat] /\ curr \in [M!AllThreads -> Nat] /\ idx \in [M!AllThreads -> Nat]
    /\ left \in [M!AllThreads -> Nat]
    /\ cv \in [M!AllThreads -> M!Values \cup Dequeuers \cup {Null}]
    /\ futex \in [Dequeuers -> {0, 1}] /\ alive \subseteq Dequeuers /\ asleep \subseteq Dequeuers
    /\ rid \in [Dequeuers -> Int] /\ min \in [Dequeuers -> Int] /\ todo \in [Dequeuers -> SUBSET M!AllThreads]
    /\ putAt \in [M!Indices -> M!Values \cup {Null}] /\ received \in [M!Values -> {0, 1}]
MpmcTypes ==
    /\ DataTypes
    /\ mpmc_pc \in [M!AllThreads -> EnqControl \cup DeqControl]
    /\ \A e \in Enqueuers : mpmc_pc[e] \in EnqControl
    /\ \A d \in Dequeuers : mpmc_pc[d] \in DeqControl

\* Nodes below init_node, and only those, are or will be freed, once: no handle is below it, the
\* one reclaimer that looks for a new value of it finds one that no handle is below, and what
\* the others free are separate ranges.
HandlesAhead ==
    \A t \in M!AllThreads : /\ init_node <= handle[t]
                            /\ mpmc_pc[t] = "register" => handle[t] = 0
                            /\ mpmc_pc[t] = "find" => handle[t] <= curr[t]
OneScans ==
    /\ init_id # -1 => init_id = init_node
    /\ \A d \in Dequeuers : mpmc_pc[d] = "lock" => rid[d] \in Nat
    /\ \A d \in Dequeuers : mpmc_pc[d] = "scan" => /\ init_id = -1 /\ rid[d] = init_node /\ init_node <= min[d]
                                                   /\ \A t \in M!AllThreads \ todo[d] : min[d] <= handle[t]
    /\ \A d, g \in Dequeuers : mpmc_pc[d] = "scan" /\ mpmc_pc[g] = "scan" => d = g
RangesApart ==
    /\ \A d \in Dequeuers : mpmc_pc[d] = "free" => /\ rid[d] \in Nat /\ rid[d] < min[d] /\ min[d] <= init_node
                                                   /\ \A n \in mpmc_freed : n < rid[d] \/ min[d] <= n
    /\ \A d, g \in Dequeuers : d # g /\ mpmc_pc[d] = "free" /\ mpmc_pc[g] = "free" => min[d] <= rid[g] \/ min[g] <= rid[d]
    /\ \A n \in mpmc_freed : n < init_node
NodesInv == HandlesAhead /\ OneScans /\ RangesApart

\* Indices are handed out once, and there are cells for all of them.
IndicesOnce ==
    /\ put_index = Cardinality(PutsBegun) /\ pop_index = Cardinality(PopsBegun)
    /\ \A e \in Enqueuers : left[e] <= PerEnq
    /\ \A d \in Dequeuers : left[d] <= PerDeq
    /\ \A e \in Enqueuers : Putting(e) => idx[e] < put_index /\ cv[e] = putAt[idx[e]]
    /\ \A d \in Dequeuers : Taking(d) \/ Taken(d) => idx[d] < pop_index /\ d \in alive
    /\ \A e, f \in Enqueuers : e # f /\ Putting(e) /\ Putting(f) => idx[e] # idx[f]
    /\ \A d, g \in Dequeuers : d # g /\ (Taking(d) \/ Taken(d)) /\ (Taking(g) \/ Taken(g)) => idx[d] # idx[g]
    /\ \A k \in M!Indices : IF k < put_index THEN putAt[k] \in PutsBegun ELSE putAt[k] = Null
    /\ \A j, k \in M!Indices : j < put_index /\ putAt[j] = putAt[k] => j = k

\* A cell is empty or names a dequeue that waits until it is filled, and then has its value until
\* that is taken.
CellsHold ==
    /\ \A k \in M!Indices : ~Filled(k) /\ cell[k] # Null =>
           cell[k] \in Dequeuers /\ idx[cell[k]] = k /\ Waits(cell[k]) /\ futex[cell[k]] = 1
    /\ \A k \in M!Indices : Filled(k) /\ pop_index <= k => cell[k] = putAt[k]
    /\ \A d \in Dequeuers : Taking(d) /\ Filled(idx[d]) => cell[idx[d]] = putAt[idx[d]]

\* A waiting dequeue is named by its cell, or by the one enqueue that has still to clear its
\* futex, or the futex is clear and the cell filled; one that sleeps with a clear futex will be woken.
WaitersKnown ==
    /\ \A d \in Dequeuers : Waits(d) /\ ~Filled(idx[d]) => cell[idx[d]] = d /\ futex[d] = 1
    /\ \A d \in Dequeuers : Waits(d) /\ Filled(idx[d]) /\ futex[d] = 1 => \E e \in Enqueuers : mpmc_pc[e] = "clear" /\ cv[e] = d
    /\ \A e \in Enqueuers : mpmc_pc[e] = "clear" => /\ cv[e] \in Dequeuers /\ Waits(cv[e]) /\ futex[cv[e]] = 1
                                                    /\ Filled(idx[cv[e]])
    /\ \A e, f \in Enqueuers : mpmc_pc[e] = "clear" /\ mpmc_pc[f] = "clear" /\ cv[e] = cv[f] => e = f
    /\ \A d \in Dequeuers : mpmc_pc[d] \in {"find", "spin"} => futex[d] = 1
    /\ \A d \in asleep : mpmc_pc[d] = "compare" /\ (futex[d] = 0 => \E e \in Enqueuers : mpmc_pc[e] = "wake" /\ cv[e] = d)

\* What a dequeue has is the value of its index, and nobody received that before.
ValuesOnce ==
    /\ \A d \in Dequeuers : Taken(d) => cv[d] = putAt[idx[d]] /\ cv[d] \in M!Values
    /\ \A v \in M!Values : received[v] = 1 =>
           \E k \in M!Indices : k < pop_index /\ k < put_index /\ putAt[k] = v /\ \A d \in Dequeuers : Taking(d) \/ Taken(d) => idx[d] # k
CellsInv == IndicesOnce /\ CellsHold /\ WaitersKnown /\ ValuesOnce

MpmcInv == MpmcTypes /\ NodesInv /\ CellsInv


LEMMA MpmcCardinality == \A X : M!Cardinality(X) = Cardinality(X)
BY DEF M!Cardinality, Cardinality

LEMMA MpmcSets ==
  /\ M!AllThreads = Enqueuers \cup Dequeuers /\ M!Values = Enqueuers \X (1 .. PerEnq)
  /\ M!Indices = 0 .. PerEnq * Cardinality(Enqueuers) - 1 /\ PerEnq * Cardinality(Enqueuers) \in Nat
  /\ \A e \in Enqueuers : e \in M!AllThreads /\ e \notin Dequeuers
  /\ \A d \in Dequeuers : d \in M!AllThreads /\ d \notin Enqueuers /\ d \notin M!Values /\ d # Null
  /\ Null \notin M!Values
<1>1. M!Indices = 0 .. PerEnq * Cardinality(Enqueuers) - 1
  BY MpmcCardinality DEF M!Indices
<1>2. Cardinality(Enqueuers) \in Nat
  BY MpmcAssumption, FS_CardinalityType
<1>3. \A x \in Nat : PerEnq * x \in Nat
  BY MpmcAssumption
<1> QED BY <1>1, <1>2, <1>3, MpmcAssumption DEF M!AllThreads, M!Values

\* As long as a thread has something left to do there is a cell for it.
LEMMA PutFits ==
  ASSUME MpmcTypes, IndicesOnce, NEW e \in Enqueuers, left[e] > 0
  PROVE  put_index \in M!Indices /\ <<e, PerEnq - left[e] + 1>> \in M!Values \ PutsBegun /\ IsFiniteSet(PutsBegun)
<1> DEFINE x == <<e, PerEnq - left[e] + 1>>
<1>1. left[e] \in 1 .. PerEnq /\ PerEnq \in Nat
  BY MpmcSets, MpmcAssumption DEF MpmcTypes, DataTypes, IndicesOnce
<1>2. x \in M!Values \ PutsBegun
  BY <1>1, MpmcSets DEF PutsBegun
<1>3. IsFiniteSet(1 .. PerEnq) /\ Cardinality(1 .. PerEnq) = PerEnq
  BY <1>1, FS_Interval
<1>4. IsFiniteSet(M!Values) /\ Cardinality(M!Values) = Cardinality(Enqueuers) * PerEnq
  BY <1>3, FS_Product, MpmcAssumption, MpmcSets
<1>5. PutsBegun \subseteq M!Values \ {x}
  BY <1>2, MpmcSets DEF PutsBegun
<1>6. IsFiniteSet(M!Values \ {x}) /\ Cardinality(M!Values \ {x}) = Cardinality(M!Values) - 1
  BY <1>2, <1>4, FS_RemoveElement
<1>7. IsFiniteSet(PutsBegun) /\ Cardinality(PutsBegun) <= Cardinality(M!Values \ {x})
  BY <1>5, <1>6, FS_Subset
<1>8. Cardinality(Enqueuers) \in Nat
  BY MpmcAssumption, FS_CardinalityType
<1>9. Cardinality(Enqueuers) * PerEnq = PerEnq * Cardinality(Enqueuers)
  BY <1>1, <1>8
<1>10. put_index <= PerEnq * Cardinality(Enqueuers) - 1 /\ put_index \in Nat
  BY <1>4, <1>6, <1>7, <1>9 DEF IndicesOnce, MpmcTypes, DataTypes
<1> QED BY <1>2, <1>7, <1>10, MpmcSets

LEMMA PopFits ==
  ASSUME MpmcTypes, IndicesOnce, NEW d \in Dequeuers, left[d] > 0
  PROVE  pop_index \in M!Indices /\ <<d, PerDeq - left[d] + 1>> \notin PopsBegun /\ IsFiniteSet(PopsBegun)
         /\ <<d, PerDeq - left[d] + 1>> \in Dequeuers \X (1 .. PerDeq)
<1> DEFINE x == <<d, PerDeq - left[d] + 1>>
           V == Dequeuers \X (1 .. PerDeq)
<1>1. left[d] \in 1 .. PerDeq /\ PerDeq \in Nat
  BY MpmcSets, MpmcAssumption DEF MpmcTypes, DataTypes, IndicesOnce
<1>2. x \in V \ PopsBegun
  BY <1>1 DEF PopsBegun
<1>3. IsFiniteSet(1 .. PerDeq) /\ Cardinality(1 .. PerDeq) = PerDeq
  BY <1>1, FS_Interval
<1>4. IsFiniteSet(V) /\ Cardinality(V) = Cardinality(Dequeuers) * PerDeq
  BY <1>3, FS_Product, MpmcAssumption
<1>5. PopsBegun \subseteq V \ {x}
  BY <1>2 DEF PopsBegun
<1>6. IsFiniteSet(V \ {x}) /\ Cardinality(V \ {x}) = Cardinality(V) - 1
  BY <1>2, <1>4, FS_RemoveElement
<1>7. IsFiniteSet(PopsBegun) /\ Cardinality(PopsBegun) <= Cardinality(V \ {x})
  BY <1>5, <1>6, FS_Subset
<1>8. Cardinality(Dequeuers) \in Nat
  BY MpmcAssumption, FS_CardinalityType
<1>9. Cardinality(Dequeuers) * PerDeq = PerDeq * Cardinality(Dequeuers)
  BY <1>1, <1>8
<1>a. PerDeq * Cardinality(Dequeuers) \in Nat
  <2>1. \A y \in Nat : PerDeq * y \in Nat
    BY <1>1
  <2> QED BY <1>8, <2>1
<1>10. Cardinality(PopsBegun) <= PerDeq * Cardinality(Dequeuers) - 1
  <2> HIDE DEF V, x
  <2> QED BY <1>4, <1>6, <1>7, <1>9
<1>11. pop_index <= PerEnq * Cardinality(Enqueuers) - 1 /\ pop_index \in Nat
  <2>1. pop_index \in Nat /\ pop_index <= PerDeq * Cardinality(Dequeuers) - 1
    BY <1>10 DEF IndicesOnce, MpmcTypes, DataTypes
  <2>2. \A p, q, s \in Nat : p <= q - 1 /\ q <= s => p <= s - 1
    OBVIOUS
  <2> QED BY <1>a, <2>1, <2>2, MpmcAssumption, MpmcSets
<1> QED BY <1>2, <1>7, <1>11, MpmcSets

\* What a thread may do, in one list.
LEMMA MpmcActions ==
  ASSUME M!Next
  PROVE  \/ \E t \in M!AllThreads : M!Register(t) \/ M!Start(t) \/ M!NextNode(t) \/ M!FoundCell(t)
         \/ \E e \in Enqueuers : M!PutCell(e) \/ M!ClearFutex(e) \/ M!WakeFutex(e)
         \/ \E d \in Dequeuers : \/ M!SpinHit(d) \/ M!SpinEnds(d) \/ M!FutexWait(d) \/ M!FutexCompare(d) \/ M!Return(d)
                                 \/ M!TryReclaim(d) \/ M!NoReclaim(d) \/ M!LockReclaim(d) \/ M!ScanDone(d) \/ M!FreeNode(d)
                                 \/ \E h \in M!AllThreads : M!Scan(d, h)
BY DEF M!Next, M!Common, M!Enqueue, M!Dequeue


-----------------------------------------------------------------------------
LEMMA NodesKept ==
  ASSUME MpmcTypes, NodesInv, UNCHANGED <<handle, curr, init_node, init_id, rid, min, todo, mpmc_freed>>,
         \A t \in M!AllThreads : mpmc_pc'[t] \in {"register", "find", "lock", "scan", "free"} => mpmc_pc'[t] = mpmc_pc[t]
  PROVE  NodesInv'
<1>1. \A d \in Dequeuers : mpmc_pc'[d] \in {"register", "find", "lock", "scan", "free"} => mpmc_pc'[d] = mpmc_pc[d]
  BY MpmcSets
<1>2. HandlesAhead'
  BY DEF NodesInv, HandlesAhead
<1>3. OneScans'
  BY <1>1 DEF NodesInv, OneScans
<1>4. RangesApart'
  BY <1>1 DEF NodesInv, RangesApart
<1> QED BY <1>2, <1>3, <1>4 DEF NodesInv

\* Changes of a handle: it goes on, and is never below where reclaiming has got to.
LEMMA HandleMoves ==
  ASSUME MpmcTypes, NodesInv, NEW t \in M!AllThreads, M!Register(t) \/ M!Start(t) \/ M!NextNode(t) \/ M!FoundCell(t)
  PROVE  NodesInv'
<1>t. /\ handle \in [M!AllThreads -> Nat] /\ curr \in [M!AllThreads -> Nat] /\ init_node \in Nat
      /\ mpmc_pc \in [M!AllThreads -> EnqControl \cup DeqControl] /\ min \in [Dequeuers -> Int]
      /\ \A d \in Dequeuers : d \in M!AllThreads
  BY MpmcSets DEF MpmcTypes, DataTypes
<1>1. UNCHANGED <<init_node, init_id, rid, min, todo, mpmc_freed>>
  BY DEF M!Register, M!Start, M!NextNode, M!FoundCell, M!Goto, M!reclaim, M!list
<1>2. /\ \A u \in M!AllThreads : u # t => handle'[u] = handle[u] /\ mpmc_pc'[u] = mpmc_pc[u] /\ curr'[u] = curr[u]
      /\ mpmc_pc'[t] \in {"idle", "find", "put", "spin"}
      /\ handle'[t] \in Nat /\ handle[t] <= handle'[t] /\ (mpmc_pc'[t] = "find" => handle'[t] <= curr'[t])
  <2>1. CASE M!Register(t)
    <3>1. handle[t] = 0 /\ init_node <= handle[t] /\ handle' = [handle EXCEPT ![t] = init_node] /\ curr' = curr
          /\ mpmc_pc' = [mpmc_pc EXCEPT ![t] = "idle"]
      BY <2>1 DEF M!Register, M!Goto, M!local, NodesInv, HandlesAhead
    <3> QED BY <1>t, <3>1
  <2>2. CASE M!Start(t)
    <3>1. handle' = handle /\ curr' = [curr EXCEPT ![t] = handle[t]] /\ mpmc_pc' = [mpmc_pc EXCEPT ![t] = "find"]
      BY <2>2 DEF M!Start, M!Goto
    <3> QED BY <1>t, <3>1
  <2>3. CASE M!NextNode(t)
    <3>1. handle' = handle /\ curr' = [curr EXCEPT ![t] = curr[t] + 1] /\ mpmc_pc' = [mpmc_pc EXCEPT ![t] = "find"]
          /\ handle[t] <= curr[t]
      BY <1>t, <2>3 DEF M!NextNode, M!Goto, NodesInv, HandlesAhead
    <3> QED BY <1>t, <3>1
  <2>4. CASE M!FoundCell(t)
    <3>1. handle' = [handle EXCEPT ![t] = curr[t]] /\ curr' = curr /\ handle[t] <= curr[t]
          /\ mpmc_pc' = [mpmc_pc EXCEPT ![t] = IF t \in Enqueuers THEN "put" ELSE "spin"]
      BY <2>4 DEF M!FoundCell, M!Goto, M!local, NodesInv, HandlesAhead
    <3> QED BY <1>t, <3>1
  <2> QED BY <2>1, <2>2, <2>3, <2>4
<1>3. \A u \in M!AllThreads : handle[u] \in Nat /\ handle'[u] \in Nat /\ handle[u] <= handle'[u]
  BY <1>t, <1>2
<1>4. \A d \in Dequeuers : mpmc_pc'[d] \in {"lock", "scan", "free"} => mpmc_pc[d] = mpmc_pc'[d]
  BY <1>t, <1>2
<1>5. HandlesAhead'
  <2> SUFFICES ASSUME NEW u \in M!AllThreads
               PROVE  /\ init_node <= handle'[u]
                      /\ mpmc_pc'[u] = "register" => handle'[u] = 0
                      /\ mpmc_pc'[u] = "find" => handle'[u] <= curr'[u]
    BY <1>1 DEF HandlesAhead
  <2> QED BY <1>t, <1>2, <1>3 DEF NodesInv, HandlesAhead
<1>6. OneScans'
  <2>1. \A d \in Dequeuers : mpmc_pc'[d] = "scan" => \A u \in M!AllThreads \ todo[d] : min[d] <= handle'[u]
    BY <1>t, <1>3, <1>4 DEF NodesInv, OneScans
  <2> QED BY <1>1, <1>4, <2>1 DEF NodesInv, OneScans
<1>7. RangesApart'
  BY <1>1, <1>4 DEF NodesInv, RangesApart
<1> QED BY <1>5, <1>6, <1>7 DEF NodesInv

LEMMA ReclaimerMoves ==
  ASSUME MpmcTypes, NodesInv, NEW d \in Dequeuers,
         M!TryReclaim(d) \/ M!LockReclaim(d) \/ M!ScanDone(d) \/ M!FreeNode(d) \/ \E h \in M!AllThreads : M!Scan(d, h)
  PROVE  NodesInv'
<1>t. /\ handle \in [M!AllThreads -> Nat] /\ init_node \in Nat /\ init_id \in Int
      /\ mpmc_pc \in [M!AllThreads -> EnqControl \cup DeqControl] /\ min \in [Dequeuers -> Int] /\ rid \in [Dequeuers -> Int]
      /\ todo \in [Dequeuers -> SUBSET M!AllThreads] /\ d \in M!AllThreads /\ mpmc_freed \subseteq Nat
      /\ \A g \in Dequeuers : g \in M!AllThreads
  BY MpmcSets DEF MpmcTypes, DataTypes
<1>n. HandlesAhead /\ OneScans /\ RangesApart
  BY DEF NodesInv
<1>1. CASE M!TryReclaim(d)
  <2>1. /\ UNCHANGED <<handle, curr, init_node, init_id, min, todo, mpmc_freed>> /\ rid' = [rid EXCEPT ![d] = init_id]
        /\ mpmc_pc' = [mpmc_pc EXCEPT ![d] = mpmc_pc'[d]]
        /\ mpmc_pc'[d] \in {"lock", "return"} /\ (mpmc_pc'[d] = "lock" => init_id >= 0)
    BY <1>1, <1>t DEF M!TryReclaim, M!Goto, M!list, M!local
  <2>2. /\ \A t \in M!AllThreads : mpmc_pc'[t] \in {"register", "find", "scan", "free"} => mpmc_pc'[t] = mpmc_pc[t]
        /\ \A g \in Dequeuers : mpmc_pc'[g] \in {"scan", "free"} => mpmc_pc'[g] = mpmc_pc[g] /\ g # d
        /\ \A g \in Dequeuers : g # d => rid'[g] = rid[g] /\ mpmc_pc'[g] = mpmc_pc[g]
        /\ rid'[d] = init_id /\ (mpmc_pc'[d] = "lock" => rid'[d] \in Nat)
    BY <1>t, <2>1
  <2>3. HandlesAhead'
    BY <1>n, <2>1, <2>2 DEF HandlesAhead
  <2>4. OneScans'
    BY <1>n, <2>1, <2>2 DEF OneScans
  <2>5. RangesApart'
    BY <1>n, <2>1, <2>2 DEF RangesApart
  <2> QED BY <2>3, <2>4, <2>5 DEF NodesInv
<1>2. CASE M!LockReclaim(d) /\ init_id # rid[d]
  <2>1. /\ UNCHANGED <<handle, curr, init_node, init_id, rid, min, todo, mpmc_freed>> /\ mpmc_pc' = [mpmc_pc EXCEPT ![d] = "return"]
    BY <1>2 DEF M!LockReclaim, M!Goto, M!list, M!local
  <2> QED BY <1>t, <2>1, NodesKept
<1>3. CASE M!LockReclaim(d) /\ init_id = rid[d]
  <2>0. /\ UNCHANGED <<handle, curr, init_node, rid, mpmc_freed>> /\ mpmc_pc' = [mpmc_pc EXCEPT ![d] = "scan"] /\ init_id' = -1
        /\ mpmc_pc[d] = "lock"
        /\ \E h \in Dequeuers : min' = [min EXCEPT ![d] = handle[h]] /\ todo' = [todo EXCEPT ![d] = M!AllThreads \ {h}]
    BY <1>3 DEF M!LockReclaim, M!Goto, M!list, M!local
  <2>1. PICK h \in Dequeuers : min' = [min EXCEPT ![d] = handle[h]] /\ todo' = [todo EXCEPT ![d] = M!AllThreads \ {h}]
    BY <2>0
  <2>2. rid[d] = init_node /\ init_id # -1
    BY <1>3, <1>n, <2>0 DEF OneScans
  <2>3. /\ \A t \in M!AllThreads : t # d => mpmc_pc'[t] = mpmc_pc[t]
        /\ \A g \in Dequeuers : g # d => mpmc_pc'[g] = mpmc_pc[g] /\ mpmc_pc[g] # "scan" /\ min'[g] = min[g] /\ todo'[g] = todo[g]
        /\ mpmc_pc'[d] = "scan" /\ min'[d] = handle[h] /\ todo'[d] = M!AllThreads \ {h} /\ init_node <= handle[h]
    BY <1>t, <1>n, <2>0, <2>1, <2>2 DEF OneScans, HandlesAhead
  <2>4. HandlesAhead'
    BY <1>n, <2>0, <2>3 DEF HandlesAhead
  <2>5. OneScans'
    <3>1. \A u \in M!AllThreads \ todo'[d] : min'[d] <= handle'[u]
      <4>1. \A u \in M!AllThreads \ todo'[d] : u = h
        BY <2>3
      <4>2. handle[h] \in Nat /\ min'[d] = handle'[h]
        BY <1>t, <2>0, <2>3
      <4> QED BY <2>0, <4>1, <4>2
    <3>2. \A g \in Dequeuers : mpmc_pc'[g] = "scan" => g = d
      BY <2>3
    <3>3. \A g \in Dequeuers : mpmc_pc'[g] = "lock" => rid'[g] \in Nat
      BY <1>n, <2>0, <2>3 DEF OneScans
    <3> QED BY <2>0, <2>2, <2>3, <3>1, <3>2, <3>3 DEF OneScans
  <2>6. RangesApart'
    <3>1. \A g \in Dequeuers : mpmc_pc'[g] = "free" => mpmc_pc[g] = "free" /\ min'[g] = min[g] /\ rid'[g] = rid[g]
      BY <2>0, <2>3
    <3> QED BY <1>n, <2>0, <3>1 DEF RangesApart
  <2> QED BY <2>4, <2>5, <2>6 DEF NodesInv
<1>4. CASE \E h \in M!AllThreads : M!Scan(d, h)
  <2>1. PICK h \in M!AllThreads : M!Scan(d, h)
    BY <1>4
  <2>2. /\ UNCHANGED <<handle, curr, init_node, init_id, rid, mpmc_freed>> /\ mpmc_pc' = mpmc_pc /\ mpmc_pc[d] = "scan"
        /\ \A g \in Dequeuers : g # d => min'[g] = min[g] /\ todo'[g] = todo[g]
        /\ min'[d] = IF handle[h] < min[d] THEN handle[h] ELSE min[d]
        /\ todo'[d] = todo[d] \ {h}
    BY <1>t, <2>1 DEF M!Scan, M!Goto, M!list, M!local
  <2>3. HandlesAhead'
    BY <1>n, <2>2 DEF HandlesAhead
  <2>4. OneScans'
    <3>1. init_node <= min'[d] /\ \A t \in M!AllThreads \ todo'[d] : min'[d] <= handle'[t]
      BY <1>t, <1>n, <2>2 DEF OneScans, HandlesAhead
    <3>2. \A g \in Dequeuers : mpmc_pc[g] = "scan" => g = d
      BY <1>n, <2>2 DEF OneScans
    <3> QED BY <1>n, <2>2, <3>1, <3>2 DEF OneScans
  <2>5. RangesApart'
    <3>1. \A g \in Dequeuers : mpmc_pc'[g] = "free" => mpmc_pc[g] = "free" /\ min'[g] = min[g] /\ rid'[g] = rid[g]
      BY <2>2
    <3> QED BY <1>n, <2>2, <3>1 DEF RangesApart
  <2> QED BY <2>3, <2>4, <2>5 DEF NodesInv
<1>5. CASE M!ScanDone(d)
  <2>1. /\ UNCHANGED <<handle, curr, rid, min, todo, mpmc_freed>> /\ mpmc_pc[d] = "scan"
        /\ (todo[d] = {} \/ min[d] <= rid[d])
        /\ mpmc_pc' = [mpmc_pc EXCEPT ![d] = IF min[d] <= rid[d] THEN "return" ELSE "free"]
        /\ init_node' = IF min[d] <= rid[d] THEN init_node ELSE min[d]
        /\ init_id' = IF min[d] <= rid[d] THEN rid[d] ELSE min[d]
    BY <1>5 DEF M!ScanDone, M!Goto, M!list, M!local
  <2>2. /\ rid[d] = init_node /\ init_node <= min[d] /\ \A t \in M!AllThreads \ todo[d] : min[d] <= handle[t]
        /\ \A g \in Dequeuers : mpmc_pc[g] = "scan" => g = d
        /\ rid[d] \in Nat /\ min[d] \in Int /\ init_node \in Nat
    BY <1>t, <1>n, <2>1 DEF OneScans
  <2>3. /\ init_id' = init_node' /\ init_node <= init_node' /\ init_node' \in Int
        /\ \A t \in M!AllThreads : init_node' <= handle[t]
    BY <1>t, <1>n, <2>1, <2>2 DEF HandlesAhead
  <2>4. /\ \A t \in M!AllThreads : mpmc_pc'[t] \in {"register", "find", "lock", "scan"} => mpmc_pc'[t] = mpmc_pc[t]
        /\ \A g \in Dequeuers : mpmc_pc'[g] # "scan" /\ (mpmc_pc'[g] = "lock" => mpmc_pc[g] = "lock")
        /\ \A g \in Dequeuers : g # d /\ mpmc_pc'[g] = "free" => mpmc_pc[g] = "free"
        /\ mpmc_pc'[d] = "free" => min[d] > rid[d] /\ init_node' = min[d]
    BY <1>t, <2>1, <2>2
  <2>5. HandlesAhead'
    BY <1>n, <2>1, <2>3, <2>4 DEF HandlesAhead
  <2>6. OneScans'
    BY <1>n, <2>1, <2>3, <2>4 DEF OneScans
  <2>7. RangesApart'
    <3>1. \A n \in mpmc_freed : n \in Nat /\ n < init_node /\ n < init_node'
      BY <1>t, <1>n, <2>2, <2>3 DEF RangesApart
    <3>2. ASSUME NEW g \in Dequeuers, mpmc_pc'[g] = "free"
          PROVE  rid[g] \in Nat /\ rid[g] < min[g] /\ min[g] <= init_node' /\ \A n \in mpmc_freed : n < rid[g] \/ min[g] <= n
      <4>1. CASE g = d
        BY <2>2, <2>4, <3>1, <3>2, <4>1
      <4>2. CASE g # d
        <5>1. rid[g] \in Nat /\ rid[g] < min[g] /\ min[g] <= init_node /\ min[g] \in Int /\ \A n \in mpmc_freed : n < rid[g] \/ min[g] <= n
          BY <1>t, <1>n, <2>4, <3>2, <4>2 DEF RangesApart
        <5> QED BY <2>2, <2>3, <5>1
      <4> QED BY <4>1, <4>2
    <3>3. ASSUME NEW g \in Dequeuers, g # d, mpmc_pc'[g] = "free" PROVE min[g] <= rid[d]
      BY <1>n, <2>2, <2>4, <3>3 DEF RangesApart
    <3>4. ASSUME NEW g \in Dequeuers, NEW f \in Dequeuers, g # f, mpmc_pc'[g] = "free", mpmc_pc'[f] = "free"
          PROVE  min[g] <= rid[f] \/ min[f] <= rid[g]
      <4>1. CASE g = d \/ f = d
        BY <3>3, <3>4, <4>1
      <4>2. CASE g # d /\ f # d
        BY <1>n, <2>4, <3>4, <4>2 DEF RangesApart
      <4> QED BY <4>1, <4>2
    <3> QED BY <2>1, <3>1, <3>2, <3>4 DEF RangesApart
  <2> QED BY <2>5, <2>6, <2>7 DEF NodesInv
<1>6. CASE M!FreeNode(d)
  <2>1. /\ UNCHANGED <<handle, curr, min, todo, init_node, init_id>> /\ mpmc_pc[d] = "free"
        /\ mpmc_pc' = [mpmc_pc EXCEPT ![d] = IF rid[d] + 1 = min[d] THEN "return" ELSE "free"]
        /\ mpmc_freed' = mpmc_freed \cup {rid[d]} /\ rid' = [rid EXCEPT ![d] = rid[d] + 1]
    BY <1>t, <1>6 DEF M!FreeNode, M!Goto, M!local
  <2>2. /\ \A t \in M!AllThreads : mpmc_pc'[t] \in {"register", "find", "lock", "scan"} => mpmc_pc'[t] = mpmc_pc[t] /\ t # d
        /\ \A g \in Dequeuers : g # d => mpmc_pc'[g] = mpmc_pc[g] /\ rid'[g] = rid[g]
        /\ mpmc_pc'[d] \in {"free", "return"} /\ rid'[d] = rid[d] + 1 /\ (mpmc_pc'[d] = "free" => rid[d] + 1 # min[d])
    BY <1>t, <2>1
  <2>3. HandlesAhead'
    BY <1>n, <2>1, <2>2 DEF HandlesAhead
  <2>4. OneScans'
    <3>1. \A g \in Dequeuers : mpmc_pc'[g] \in {"lock", "scan"} => g # d /\ mpmc_pc[g] = mpmc_pc'[g] /\ rid'[g] = rid[g]
      BY <2>2
    <3> QED BY <1>n, <2>1, <3>1 DEF OneScans
  <2>5. RangesApart'
    <3>1. /\ rid[d] \in Nat /\ min[d] \in Int /\ rid[d] < min[d] /\ min[d] <= init_node /\ \A n \in mpmc_freed : n < rid[d] \/ min[d] <= n
      BY <1>t, <1>n, <2>1 DEF RangesApart
    <3>2. \A n \in mpmc_freed' : n \in Nat /\ n < init_node
      BY <1>t, <1>n, <2>1, <3>1 DEF RangesApart
    <3>3. ASSUME NEW g \in Dequeuers, mpmc_pc'[g] = "free"
          PROVE  rid'[g] \in Nat /\ rid'[g] < min[g] /\ min[g] <= init_node /\ \A n \in mpmc_freed' : n < rid'[g] \/ min[g] <= n
      <4>1. CASE g = d
        BY <1>t, <2>1, <2>2, <3>1, <3>3, <4>1
      <4>2. CASE g # d
        <5>1. rid[g] \in Nat /\ min[g] \in Int /\ rid[g] < min[g] /\ min[g] <= init_node /\ \A n \in mpmc_freed : n < rid[g] \/ min[g] <= n
          BY <1>t, <1>n, <2>2, <3>3, <4>2 DEF RangesApart
        <5>2. min[d] <= rid[g] \/ min[g] <= rid[d]
          BY <1>n, <2>1, <2>2, <3>3, <4>2 DEF RangesApart
        <5> QED BY <1>t, <2>1, <2>2, <3>1, <4>2, <5>1, <5>2
      <4> QED BY <4>1, <4>2
    <3>4. ASSUME NEW g \in Dequeuers, g # d, mpmc_pc'[g] = "free" PROVE rid[g] \in Nat /\ min[g] \in Int /\ (min[g] <= rid[d] \/ min[d] <= rid[g])
      BY <1>t, <1>n, <2>1, <2>2, <3>4 DEF RangesApart
    <3>5. ASSUME NEW g \in Dequeuers, NEW f \in Dequeuers, g # f, mpmc_pc'[g] = "free", mpmc_pc'[f] = "free"
          PROVE  min[g] <= rid'[f] \/ min[f] <= rid'[g]
      <4>1. CASE g = d
        BY <2>2, <3>1, <3>4, <3>5, <4>1
      <4>2. CASE f = d
        BY <2>2, <3>1, <3>4, <3>5, <4>2
      <4>3. CASE g # d /\ f # d
        BY <1>n, <2>2, <3>5, <4>3 DEF RangesApart
      <4> QED BY <4>1, <4>2, <4>3
    <3> QED BY <2>1, <3>2, <3>3, <3>5 DEF RangesApart
  <2> QED BY <2>3, <2>4, <2>5 DEF NodesInv
<1> QED BY <1>1, <1>2, <1>3, <1>4, <1>5, <1>6


-----------------------------------------------------------------------------
LEMMA ControlTyped ==
  ASSUME MpmcTypes, NEW t \in M!AllThreads, NEW c, mpmc_pc' = [mpmc_pc EXCEPT ![t] = c],
         t \in Enqueuers => c \in EnqControl, t \in Dequeuers => c \in DeqControl
  PROVE  /\ mpmc_pc' \in [M!AllThreads -> EnqControl \cup DeqControl]
         /\ \A e \in Enqueuers : mpmc_pc'[e] \in EnqControl
         /\ \A d \in Dequeuers : mpmc_pc'[d] \in DeqControl
<1>1. mpmc_pc \in [M!AllThreads -> EnqControl \cup DeqControl] /\ \A e \in Enqueuers : mpmc_pc[e] \in EnqControl
  BY DEF MpmcTypes
<1>2. \A d \in Dequeuers : mpmc_pc[d] \in DeqControl
  BY DEF MpmcTypes
<1> QED BY <1>1, <1>2, MpmcSets

LEMMA TypesTogether ==
  ASSUME MpmcTypes, NEW t \in M!AllThreads, NEW c, mpmc_pc' = [mpmc_pc EXCEPT ![t] = c],
         t \in Enqueuers => c \in EnqControl, t \in Dequeuers => c \in DeqControl, DataTypes'
  PROVE  MpmcTypes'
BY ControlTyped DEF MpmcTypes

LEMMA CommonTypes ==
  ASSUME MpmcTypes, IndicesOnce, NEW t \in M!AllThreads, M!Register(t) \/ M!Start(t) \/ M!NextNode(t) \/ M!FoundCell(t)
  PROVE  DataTypes'
<1>d. DataTypes
  BY DEF MpmcTypes
<1> USE <1>d DEF DataTypes, M!Goto
<1>t. t \in Enqueuers \/ t \in Dequeuers
  BY MpmcSets
<1>1. CASE M!Register(t)
  BY <1>t, <1>1, MpmcSets DEF M!Register, M!list, M!reclaim, M!local, M!sleep, M!history
<1>2. CASE M!NextNode(t)
  <2>1. /\ UNCHANGED <<put_index, pop_index, cell, mpmc_freed, init_node, init_id, handle, left, idx, cv, futex, alive, asleep, rid, min, todo, putAt, received>>
        /\ curr' = [curr EXCEPT ![t] = curr[t] + 1]
    BY <1>2 DEF M!NextNode, M!reclaim, M!sleep, M!history
  <2>2. curr' \in [M!AllThreads -> Nat]
    BY <2>1
  <2> QED BY <2>1, <2>2
<1>3. CASE M!FoundCell(t)
  BY <1>t, <1>3, MpmcSets DEF M!FoundCell, M!list, M!reclaim, M!local, M!sleep, M!history
<1>4. CASE M!Start(t) /\ t \in Enqueuers
  <2>0. t \notin Dequeuers
    BY <1>4, MpmcSets
  <2>1. <<t, PerEnq - left[t] + 1>> \in M!Values /\ left[t] > 0 /\ left[t] \in Nat
    BY <1>4, PutFits DEF M!Start
  <2>2. /\ UNCHANGED <<cell, mpmc_freed, init_node, init_id, handle, rid, min, todo, asleep, received, pop_index, futex, alive>>
        /\ mpmc_pc' = [mpmc_pc EXCEPT ![t] = "find"] /\ left' = [left EXCEPT ![t] = left[t] - 1]
        /\ curr' = [curr EXCEPT ![t] = handle[t]] /\ idx' = [idx EXCEPT ![t] = put_index] /\ put_index' = put_index + 1
        /\ cv' = [cv EXCEPT ![t] = <<t, PerEnq - left[t] + 1>>]
        /\ putAt' = [putAt EXCEPT ![put_index] = <<t, PerEnq - left[t] + 1>>]
    <3>1. /\ UNCHANGED <<cell, mpmc_freed, init_node, init_id, handle, rid, min, todo, asleep, received, pop_index, futex, alive>>
          /\ mpmc_pc' = [mpmc_pc EXCEPT ![t] = "find"] /\ left' = [left EXCEPT ![t] = left[t] - 1]
          /\ curr' = [curr EXCEPT ![t] = handle[t]] /\ idx' = [idx EXCEPT ![t] = put_index] /\ put_index' = put_index + 1
          /\ cv' = [cv EXCEPT ![t] = <<t, PerEnq - left[t] + 1>>]
          /\ putAt' = [putAt EXCEPT ![put_index] = cv'[t]]
      BY <1>4, <2>0 DEF M!Start, M!list, M!reclaim
    <3>2. cv'[t] = <<t, PerEnq - left[t] + 1>>
      BY <3>1
    <3> QED BY <3>1, <3>2
  <2> DEFINE x == <<t, PerEnq - left[t] + 1>>
  <2>3. x \in M!Values /\ cv' = [cv EXCEPT ![t] = x] /\ putAt' = [putAt EXCEPT ![put_index] = x]
    BY <2>1, <2>2
  <2> HIDE DEF x
  <2>4. cv' \in [M!AllThreads -> M!Values \cup Dequeuers \cup {Null}] /\ putAt' \in [M!Indices -> M!Values \cup {Null}]
    BY <2>3
  <2>5. left[t] - 1 \in Nat
    BY <2>1
  <2> QED BY <1>4, <2>0, <2>2, <2>4, <2>5, MpmcSets
<1>5. CASE M!Start(t) /\ t \in Dequeuers
  <2>0. t \notin Enqueuers /\ left[t] > 0 /\ left[t] \in Nat
    BY <1>5, MpmcSets DEF M!Start
  <2>2. /\ UNCHANGED <<cell, mpmc_freed, init_node, init_id, handle, rid, min, todo, asleep, received, put_index, putAt>>
        /\ mpmc_pc' = [mpmc_pc EXCEPT ![t] = "find"] /\ left' = [left EXCEPT ![t] = left[t] - 1]
        /\ curr' = [curr EXCEPT ![t] = handle[t]] /\ idx' = [idx EXCEPT ![t] = pop_index] /\ pop_index' = pop_index + 1
        /\ cv' = [cv EXCEPT ![t] = Null] /\ futex' = [futex EXCEPT ![t] = 1] /\ alive' = alive \cup {t}
    BY <1>5, <2>0 DEF M!Start, M!list, M!reclaim
  <2>3. left' \in [M!AllThreads -> Nat]
    BY <2>0, <2>2
  <2>4. curr' \in [M!AllThreads -> Nat] /\ idx' \in [M!AllThreads -> Nat] /\ pop_index' \in Nat
    BY <2>2
  <2>5. cv' \in [M!AllThreads -> M!Values \cup Dequeuers \cup {Null}] /\ futex' \in [Dequeuers -> {0, 1}] /\ alive' \subseteq Dequeuers
    BY <1>5, <2>2
  <2> QED BY <2>2, <2>3, <2>4, <2>5
<1> QED BY <1>t, <1>1, <1>2, <1>3, <1>4, <1>5

LEMMA EnqueueTypes ==
  ASSUME MpmcTypes, WaitersKnown, NEW e \in Enqueuers, M!PutCell(e) \/ M!ClearFutex(e) \/ M!WakeFutex(e)
  PROVE  DataTypes'
<1>d. DataTypes
  BY DEF MpmcTypes
<1> USE <1>d DEF DataTypes, M!Goto
<1>0. e \in M!AllThreads /\ e \notin Dequeuers
  BY MpmcSets
<1>1. CASE M!PutCell(e)
  <2>1. /\ UNCHANGED <<put_index, pop_index, mpmc_freed, init_node, init_id, handle, rid, min, todo, left, idx, curr, futex, alive, asleep, putAt, received>>
        /\ mpmc_pc' = [mpmc_pc EXCEPT ![e] = IF M!Waiter(e) THEN "clear" ELSE "idle"]
        /\ cell' = [cell EXCEPT ![idx[e]] = cv[e]]
        /\ cv' = [cv EXCEPT ![e] = IF M!Waiter(e) THEN cell[idx[e]] ELSE cv[e]]
    BY <1>1, <1>0 DEF M!PutCell, M!reclaim, M!sleep, M!history
  <2>2. cell' \in [M!Indices -> M!Values \cup Dequeuers \cup {Null}]
    BY <1>0, <2>1
  <2>3. cv' \in [M!AllThreads -> M!Values \cup Dequeuers \cup {Null}]
    BY <1>0, <2>1 DEF M!Waiter
  <2> QED BY <2>1, <2>2, <2>3
<1>2. CASE M!ClearFutex(e)
  BY <1>0, <1>2, MpmcSets DEF M!ClearFutex, M!list, M!reclaim, M!local, M!history
<1>3. CASE M!WakeFutex(e)
  BY <1>0, <1>3, MpmcSets DEF M!WakeFutex, M!list, M!reclaim, M!local, M!history
<1> QED BY <1>1, <1>2, <1>3

LEMMA DequeueTypes ==
  ASSUME MpmcTypes, NEW d \in Dequeuers, M!SpinHit(d) \/ M!SpinEnds(d) \/ M!FutexWait(d) \/ M!FutexCompare(d), idx[d] \in M!Indices
  PROVE  DataTypes'
<1>d. DataTypes
  BY DEF MpmcTypes
<1> USE <1>d DEF DataTypes, M!Goto
<1>0. d \in M!AllThreads /\ d \notin Enqueuers
  BY MpmcSets
<1>1. CASE M!SpinHit(d)
  BY <1>0, <1>1, MpmcSets DEF M!SpinHit, M!list, M!reclaim, M!sleep, M!history
<1>2. CASE M!SpinEnds(d)
  BY <1>0, <1>2, MpmcSets DEF M!SpinEnds, M!reclaim, M!sleep, M!history
<1>3. CASE M!FutexWait(d)
  BY <1>0, <1>3, MpmcSets DEF M!FutexWait, M!list, M!reclaim, M!local, M!history
<1>4. CASE M!FutexCompare(d)
  BY <1>0, <1>4, MpmcSets DEF M!FutexCompare, M!list, M!reclaim, M!sleep, M!history
<1> QED BY <1>1, <1>2, <1>3, <1>4

LEMMA ReturnTypes ==
  ASSUME MpmcTypes, NEW d \in Dequeuers, M!Return(d), cv[d] \in M!Values, received[cv[d]] = 0
  PROVE  DataTypes'
<1>d. DataTypes
  BY DEF MpmcTypes
<1> USE <1>d DEF DataTypes, M!Goto
<1>0. d \in M!AllThreads /\ d \notin Enqueuers
  BY MpmcSets
<1>1. received' = [received EXCEPT ![cv[d]] = received[cv[d]] + 1]
  BY DEF M!Return
<1>2. received' \in [M!Values -> {0, 1}]
  BY <1>1
<1> QED BY <1>0, <1>2, MpmcSets DEF M!Return, M!list, M!reclaim, M!local

LEMMA ReclaimTypes ==
  ASSUME MpmcTypes, NodesInv, NEW d \in Dequeuers,
         \/ M!TryReclaim(d) \/ M!NoReclaim(d) \/ M!LockReclaim(d) \/ M!ScanDone(d) \/ M!FreeNode(d)
         \/ \E h \in M!AllThreads : M!Scan(d, h)
  PROVE  DataTypes'
<1>d. DataTypes
  BY DEF MpmcTypes
<1> USE <1>d DEF DataTypes, M!Goto
<1>0. d \in M!AllThreads /\ d \notin Enqueuers
  BY MpmcSets
<1>1. CASE M!TryReclaim(d)
  BY <1>0, <1>1, MpmcSets DEF M!TryReclaim, M!list, M!local, M!sleep, M!history
<1>2. CASE M!NoReclaim(d)
  BY <1>0, <1>2, MpmcSets DEF M!NoReclaim, M!list, M!reclaim, M!local, M!sleep, M!history
<1>3. CASE M!LockReclaim(d)
  <2>1. /\ UNCHANGED <<put_index, pop_index, cell, mpmc_freed, init_node, handle, left, idx, curr, cv, futex, alive, asleep, rid, putAt, received>>
        /\ \/ UNCHANGED <<init_id, min, todo>>
           \/ \E h \in Dequeuers : init_id' = -1 /\ min' = [min EXCEPT ![d] = handle[h]] /\ todo' = [todo EXCEPT ![d] = M!AllThreads \ {h}]
    BY <1>3 DEF M!LockReclaim, M!list, M!local, M!sleep, M!history
  <2>2. \A h \in Dequeuers : handle[h] \in Int
    BY MpmcSets
  <2>3. min' \in [Dequeuers -> Int] /\ init_id' \in Int
    BY <2>1, <2>2
  <2>4. todo' \in [Dequeuers -> SUBSET M!AllThreads]
    BY <2>1
  <2> QED BY <2>1, <2>3, <2>4
<1>4. CASE M!ScanDone(d)
  <2>1. rid[d] = init_node /\ init_node <= min[d] /\ min[d] \in Int
    BY <1>4 DEF M!ScanDone, NodesInv, OneScans
  <2>2. min[d] \in Nat
    BY <2>1
  <2> QED BY <1>0, <1>4, <2>1, <2>2, MpmcSets DEF M!ScanDone, M!list, M!local, M!sleep, M!history
<1>5. CASE M!FreeNode(d)
  <2>1. rid[d] \in Nat
    BY <1>5 DEF M!FreeNode, NodesInv, RangesApart
  <2>2. /\ UNCHANGED <<put_index, pop_index, cell, init_node, init_id, handle, left, idx, curr, cv, futex, alive, asleep, min, todo, putAt, received>>
        /\ mpmc_freed' = mpmc_freed \cup {rid[d]} /\ rid' = [rid EXCEPT ![d] = rid[d] + 1]
    BY <1>5 DEF M!FreeNode, M!local, M!sleep, M!history
  <2>a. rid[d] + 1 \in Int /\ {rid[d]} \subseteq Nat
    BY <2>1
  <2>b. rid' \in [Dequeuers -> Int]
    BY <2>2, <2>a
  <2>3. rid' \in [Dequeuers -> Int] /\ mpmc_freed' \subseteq Nat
    BY <2>2, <2>a, <2>b
  <2> QED BY <2>2, <2>3
<1>6. CASE \E h \in M!AllThreads : M!Scan(d, h)
  <2>1. PICK h \in M!AllThreads : M!Scan(d, h)
    BY <1>6
  <2>2. /\ UNCHANGED <<put_index, pop_index, cell, mpmc_freed, init_node, init_id, handle, left, idx, curr, cv, futex, alive, asleep, rid, putAt, received>>
        /\ min' = [min EXCEPT ![d] = IF handle[h] < min[d] THEN handle[h] ELSE min[d]] /\ todo' = [todo EXCEPT ![d] = todo[d] \ {h}]
    BY <2>1 DEF M!Scan, M!list, M!local, M!sleep, M!history
  <2>3. min' \in [Dequeuers -> Int]
    BY <2>2
  <2>4. todo' \in [Dequeuers -> SUBSET M!AllThreads]
    BY <2>2
  <2> QED BY <2>2, <2>3, <2>4
<1> QED BY <1>1, <1>2, <1>3, <1>4, <1>5, <1>6


-----------------------------------------------------------------------------
\* Every index that was handed out is one of a cell.
LEMMA IndexBounds ==
  ASSUME MpmcTypes, IndicesOnce
  PROVE  /\ \A k \in Nat : k < put_index \/ k < pop_index => k \in M!Indices
         /\ \A e \in Enqueuers : Putting(e) => idx[e] \in M!Indices
         /\ \A d \in Dequeuers : Taking(d) \/ Taken(d) => idx[d] \in M!Indices
         /\ PutsBegun \subseteq M!Values
<1> DEFINE V == Dequeuers \X (1 .. PerDeq)
           L == PerEnq * Cardinality(Enqueuers)
<1>1. IsFiniteSet(1 .. PerEnq) /\ Cardinality(1 .. PerEnq) = PerEnq /\ IsFiniteSet(1 .. PerDeq) /\ Cardinality(1 .. PerDeq) = PerDeq
  <2>1. PerEnq \in Nat /\ PerDeq \in Nat
    BY MpmcAssumption
  <2> QED BY <2>1, FS_Interval
<1>2. IsFiniteSet(M!Values) /\ Cardinality(M!Values) = Cardinality(Enqueuers) * PerEnq
      /\ IsFiniteSet(V) /\ Cardinality(V) = Cardinality(Dequeuers) * PerDeq
  BY <1>1, FS_Product, MpmcAssumption, MpmcSets
<1>3. PutsBegun \subseteq M!Values /\ PopsBegun \subseteq V
  BY MpmcSets DEF PutsBegun, PopsBegun
<1>4. Cardinality(PutsBegun) <= Cardinality(M!Values) /\ Cardinality(PopsBegun) <= Cardinality(V)
  BY <1>2, <1>3, FS_Subset
<1>5. Cardinality(Enqueuers) \in Nat /\ Cardinality(Dequeuers) \in Nat
  BY MpmcAssumption, FS_CardinalityType
<1>6. \A x, y \in Nat : x * y = y * x /\ x * y \in Nat
  OBVIOUS
<1>7. L \in Nat /\ Cardinality(M!Values) = L /\ Cardinality(V) \in Nat /\ Cardinality(V) <= L
  BY <1>2, <1>5, <1>6, MpmcAssumption
<1>8. put_index \in Nat /\ pop_index \in Nat /\ put_index = Cardinality(PutsBegun) /\ pop_index = Cardinality(PopsBegun)
  BY DEF MpmcTypes, DataTypes, IndicesOnce
<1>9. put_index <= L /\ pop_index <= L
  <2> HIDE DEF L, V
  <2> QED BY <1>4, <1>7, <1>8
<1>10. \A k \in Nat : k < put_index \/ k < pop_index => k \in M!Indices
  <2>1. M!Indices = 0 .. L - 1
    BY MpmcSets
  <2> HIDE DEF L
  <2> QED BY <1>7, <1>8, <1>9, <2>1
<1>11. \A t \in M!AllThreads : idx[t] \in Nat
  BY DEF MpmcTypes, DataTypes
<1> QED BY <1>3, <1>10, <1>11, MpmcSets DEF IndicesOnce

LEMMA ControlOthers ==
  ASSUME MpmcTypes, NEW t \in M!AllThreads, NEW c, mpmc_pc' = [mpmc_pc EXCEPT ![t] = c]
  PROVE  /\ mpmc_pc'[t] = c
         /\ (Putting(t)' <=> c \in {"find", "put"}) /\ (Waits(t)' <=> c \in {"wait", "compare"})
         /\ (Taking(t)' <=> c \in {"find", "spin", "wait", "compare"})
         /\ (Taken(t)' <=> c \in {"over", "lock", "scan", "free", "return"})
         /\ \A u \in M!AllThreads : u # t => /\ mpmc_pc'[u] = mpmc_pc[u]
                                             /\ (Putting(u)' <=> Putting(u)) /\ (Waits(u)' <=> Waits(u))
                                             /\ (Taking(u)' <=> Taking(u)) /\ (Taken(u)' <=> Taken(u))
<1>1. mpmc_pc'[t] = c /\ \A u \in M!AllThreads : u # t => mpmc_pc'[u] = mpmc_pc[u]
  BY DEF MpmcTypes
<1> QED BY <1>1 DEF Putting, Waits, Taking, Taken

\* Steps that leave the cells, the indices and the waiting alone.
LEMMA CellsKept ==
  ASSUME MpmcTypes, CellsInv,
         UNCHANGED <<put_index, pop_index, cell, left, idx, cv, futex, alive, asleep, putAt, received>>,
         \A t \in M!AllThreads : /\ (Putting(t)' <=> Putting(t)) /\ (Waits(t)' <=> Waits(t))
                                 /\ (Taking(t)' <=> Taking(t)) /\ (Taken(t)' <=> Taken(t)),
         \A t \in M!AllThreads : mpmc_pc'[t] \in {"find", "spin"} => mpmc_pc[t] \in {"find", "spin"},
         \A t \in M!AllThreads : mpmc_pc'[t] \in {"clear", "wake", "compare"} \/ mpmc_pc[t] \in {"clear", "wake", "compare"} =>
                                    mpmc_pc'[t] = mpmc_pc[t]
  PROVE  CellsInv'
<1>0. /\ \A e \in Enqueuers : e \in M!AllThreads
      /\ \A d \in Dequeuers : d \in M!AllThreads
      /\ asleep \subseteq Dequeuers
  BY MpmcSets DEF MpmcTypes, DataTypes
<1>1. PutsBegun' = PutsBegun /\ PopsBegun' = PopsBegun
  BY DEF PutsBegun, PopsBegun
<1>2. \A k : Filled(k)' <=> Filled(k)
  BY <1>0 DEF Filled
<1>3. IndicesOnce'
  BY <1>0, <1>1 DEF CellsInv, IndicesOnce
<1>4. CellsHold'
  <2> SUFFICES ASSUME CellsHold PROVE CellsHold'
    BY DEF CellsInv
  <2> QED BY <1>0, <1>2 DEF CellsHold
<1>5. WaitersKnown'
  <2> SUFFICES ASSUME WaitersKnown PROVE WaitersKnown'
    BY DEF CellsInv
  <2>1. \A e \in Enqueuers : (mpmc_pc'[e] = "clear" <=> mpmc_pc[e] = "clear") /\ (mpmc_pc'[e] = "wake" <=> mpmc_pc[e] = "wake")
    BY <1>0
  <2>2. \A d \in Dequeuers : (mpmc_pc'[d] = "compare" <=> mpmc_pc[d] = "compare") /\ (Waits(d)' <=> Waits(d))
    BY <1>0
  <2>3. \A d \in Dequeuers : mpmc_pc'[d] \in {"find", "spin"} => mpmc_pc[d] \in {"find", "spin"}
    BY <1>0
  <2> QED BY <1>0, <1>2, <2>1, <2>2, <2>3 DEF WaitersKnown
<1>6. ValuesOnce'
  BY <1>0 DEF CellsInv, ValuesOnce
<1> QED BY <1>3, <1>4, <1>5, <1>6 DEF CellsInv


LEMMA EnqueueBegins == ASSUME MpmcTypes, CellsInv, NEW e \in Enqueuers, M!Start(e) PROVE CellsInv'
<1>c. IndicesOnce /\ CellsHold /\ WaitersKnown /\ ValuesOnce
  BY DEF CellsInv
<1> DEFINE x == <<e, PerEnq - left[e] + 1>>
<1>0. /\ e \in M!AllThreads /\ e \notin Dequeuers /\ asleep \subseteq Dequeuers /\ Null \notin M!Values /\ PerEnq \in Nat
      /\ \A f \in Enqueuers : f \in M!AllThreads /\ idx[f] \in Nat /\ left[f] \in Nat
      /\ \A d \in Dequeuers : d \in M!AllThreads /\ d # e /\ idx[d] \in Nat /\ left[d] \in Nat
      /\ put_index \in Nat
  BY MpmcSets, MpmcAssumption DEF MpmcTypes, DataTypes
<1>1. /\ UNCHANGED <<cell, asleep, received, pop_index, futex, alive>> /\ mpmc_pc[e] = "idle" /\ left[e] > 0
      /\ mpmc_pc' = [mpmc_pc EXCEPT ![e] = "find"] /\ left' = [left EXCEPT ![e] = left[e] - 1]
      /\ idx' = [idx EXCEPT ![e] = put_index] /\ put_index' = put_index + 1
      /\ cv' = [cv EXCEPT ![e] = x]
      /\ putAt' = [putAt EXCEPT ![put_index] = x]
  <2>1. /\ UNCHANGED <<cell, asleep, received, pop_index, futex, alive>> /\ mpmc_pc[e] = "idle" /\ left[e] > 0
        /\ mpmc_pc' = [mpmc_pc EXCEPT ![e] = "find"] /\ left' = [left EXCEPT ![e] = left[e] - 1]
        /\ idx' = [idx EXCEPT ![e] = put_index] /\ put_index' = put_index + 1
        /\ cv' = [cv EXCEPT ![e] = x]
        /\ putAt' = [putAt EXCEPT ![put_index] = cv'[e]]
    BY <1>0 DEF M!Start, M!Goto, M!list
  <2>2. cv'[e] = x
    BY <1>0, <2>1 DEF MpmcTypes, DataTypes
  <2> QED BY <2>1, <2>2
<1>2. put_index \in M!Indices /\ x \in M!Values \ PutsBegun /\ IsFiniteSet(PutsBegun)
  BY <1>c, <1>1, PutFits
<1>3. /\ mpmc_pc'[e] = "find" /\ Putting(e)'
      /\ \A u \in M!AllThreads : u # e => /\ mpmc_pc'[u] = mpmc_pc[u]
                                          /\ (Putting(u)' <=> Putting(u)) /\ (Waits(u)' <=> Waits(u))
                                          /\ (Taking(u)' <=> Taking(u)) /\ (Taken(u)' <=> Taken(u))
  BY <1>0, <1>1, ControlOthers
<1>4. /\ ~Putting(e)
      /\ \A u \in M!AllThreads : u # e => idx'[u] = idx[u] /\ cv'[u] = cv[u] /\ left'[u] = left[u]
      /\ idx'[e] = put_index /\ cv'[e] = x /\ left'[e] = left[e] - 1
      /\ \A k \in M!Indices : k # put_index => putAt'[k] = putAt[k]
      /\ putAt'[put_index] = x
  BY <1>0, <1>1, <1>2 DEF MpmcTypes, DataTypes, Putting
<1>5. PutsBegun' = PutsBegun \cup {x} /\ PopsBegun' = PopsBegun
  <2>1. PutsBegun' = PutsBegun \cup {x}
    <3>1. \A v \in Enqueuers \X (1 .. PerEnq) : v \in PutsBegun' <=> v \in PutsBegun \/ v = x
      <4> SUFFICES ASSUME NEW f \in Enqueuers, NEW n \in 1 .. PerEnq
                   PROVE  n <= PerEnq - left'[f] <=> (n <= PerEnq - left[f] \/ <<f, n>> = x)
        BY DEF PutsBegun
      <4> QED BY <1>0, <1>4
    <3> HIDE DEF x
    <3> QED BY <1>2, <3>1, MpmcSets DEF PutsBegun
  <2>2. PopsBegun' = PopsBegun
    BY <1>0, <1>4 DEF PopsBegun
  <2> QED BY <2>1, <2>2
<1> HIDE DEF x
<1>6. ASSUME NEW k \in Nat PROVE Filled(k)' <=> Filled(k)
  BY <1>0, <1>1, <1>3, <1>4 DEF Filled
<1>i. /\ \A d \in Dequeuers : Taking(d) \/ Taken(d) => idx[d] \in M!Indices
      /\ \A f \in Enqueuers : Putting(f) => idx[f] \in M!Indices
      /\ M!Indices \subseteq Nat
  BY <1>c, IndexBounds, MpmcSets
<1>7. IndicesOnce'
  <2>1. put_index' = Cardinality(PutsBegun') /\ pop_index' = Cardinality(PopsBegun')
    <3>1. Cardinality(PutsBegun \cup {x}) = Cardinality(PutsBegun) + 1
      BY <1>2, FS_AddElement
    <3> QED BY <1>c, <1>1, <1>5, <3>1 DEF IndicesOnce
  <2>2. /\ \A f \in Enqueuers : left'[f] <= PerEnq
        /\ \A d \in Dequeuers : left'[d] <= PerDeq
    BY <1>c, <1>0, <1>4 DEF IndicesOnce
  <2>3. \A f \in Enqueuers : Putting(f)' => idx'[f] < put_index' /\ cv'[f] = putAt'[idx'[f]]
    <3> SUFFICES ASSUME NEW f \in Enqueuers, Putting(f)' PROVE idx'[f] < put_index' /\ cv'[f] = putAt'[idx'[f]]
      OBVIOUS
    <3>1. CASE f = e
      BY <1>0, <1>1, <1>4, <3>1
    <3>2. CASE f # e
      BY <1>c, <1>0, <1>1, <1>3, <1>4, <1>i, <3>2 DEF IndicesOnce
    <3> QED BY <3>1, <3>2
  <2>4. \A d \in Dequeuers : Taking(d)' \/ Taken(d)' => idx'[d] < pop_index' /\ d \in alive'
    BY <1>c, <1>0, <1>1, <1>3, <1>4 DEF IndicesOnce
  <2>5. \A f, g \in Enqueuers : f # g /\ Putting(f)' /\ Putting(g)' => idx'[f] # idx'[g]
    <3>1. \A f \in Enqueuers : f # e /\ Putting(f)' => idx'[f] = idx[f] /\ idx[f] # put_index /\ Putting(f)
      BY <1>c, <1>0, <1>3, <1>4 DEF IndicesOnce
    <3> QED BY <1>c, <1>4, <3>1 DEF IndicesOnce
  <2>6. \A d, g \in Dequeuers : d # g /\ (Taking(d)' \/ Taken(d)') /\ (Taking(g)' \/ Taken(g)') => idx'[d] # idx'[g]
    BY <1>c, <1>0, <1>3, <1>4 DEF IndicesOnce
  <2>7. \A k \in M!Indices : IF k < put_index' THEN putAt'[k] \in PutsBegun' ELSE putAt'[k] = Null
    <3> SUFFICES ASSUME NEW k \in M!Indices PROVE IF k < put_index' THEN putAt'[k] \in PutsBegun' ELSE putAt'[k] = Null
      OBVIOUS
    <3>1. CASE k = put_index
      BY <1>0, <1>1, <1>4, <1>5, <3>1
    <3>2. CASE k # put_index
      <4>1. k \in Nat /\ (k < put_index' <=> k < put_index)
        BY <1>0, <1>1, <1>i, <3>2
      <4> QED BY <1>c, <1>4, <1>5, <3>2, <4>1 DEF IndicesOnce
    <3> QED BY <3>1, <3>2
  <2>8. \A j, k \in M!Indices : j < put_index' /\ putAt'[j] = putAt'[k] => j = k
    <3>1. \A k \in M!Indices : k # put_index => putAt'[k] = putAt[k] /\ putAt[k] # x
      <4> SUFFICES ASSUME NEW k \in M!Indices, k # put_index PROVE putAt[k] # x
        BY <1>4
      <4>1. putAt[k] \in PutsBegun \/ putAt[k] = Null
        BY <1>c DEF IndicesOnce
      <4> QED BY <1>0, <1>2, <4>1
    <3>2. \A k \in M!Indices : k # put_index /\ k < put_index' => k < put_index
      BY <1>0, <1>1, <1>i
    <3>3. \A j, k \in M!Indices : j < put_index /\ putAt[j] = putAt[k] => j = k
      BY <1>c DEF IndicesOnce
    <3> QED BY <1>4, <3>1, <3>2, <3>3
  <2> QED BY <2>1, <2>2, <2>3, <2>4, <2>5, <2>6, <2>7, <2>8 DEF IndicesOnce
<1>8. CellsHold'
  <2>1. \A k \in M!Indices : Filled(k)' <=> Filled(k)
    BY <1>6, <1>i
  <2>2. \A k \in M!Indices : Filled(k) => putAt'[k] = putAt[k]
    BY <1>0, <1>4 DEF Filled
  <2>3. \A d \in Dequeuers : idx'[d] = idx[d] /\ mpmc_pc'[d] = mpmc_pc[d] /\ (Waits(d)' <=> Waits(d)) /\ (Taking(d)' <=> Taking(d))
    BY <1>0, <1>3, <1>4
  <2>4. \A d \in Dequeuers : Taking(d) => idx[d] \in M!Indices
    BY <1>i
  <2> QED BY <1>c, <1>1, <2>1, <2>2, <2>3, <2>4 DEF CellsHold
<1>9. WaitersKnown'
  <2>1. \A d \in Dequeuers : idx'[d] = idx[d] /\ mpmc_pc'[d] = mpmc_pc[d] /\ (Waits(d)' <=> Waits(d)) /\ (Filled(idx[d])' <=> Filled(idx[d]))
    BY <1>0, <1>3, <1>4, <1>6
  <2>2. \A f \in Enqueuers : /\ (mpmc_pc'[f] = "clear" <=> mpmc_pc[f] = "clear") /\ (mpmc_pc'[f] = "wake" <=> mpmc_pc[f] = "wake")
                             /\ mpmc_pc[f] \in {"clear", "wake"} => cv'[f] = cv[f]
    BY <1>0, <1>1, <1>3, <1>4
  <2> QED BY <1>c, <1>0, <1>1, <2>1, <2>2 DEF WaitersKnown
<1>10. ValuesOnce'
  <2>1. ASSUME NEW d \in Dequeuers, Taken(d)' PROVE cv'[d] = putAt'[idx'[d]] /\ cv'[d] \in M!Values
    <3>1. cv[d] = putAt[idx[d]] /\ cv[d] \in M!Values /\ idx[d] \in M!Indices /\ cv'[d] = cv[d] /\ idx'[d] = idx[d]
      BY <1>c, <1>0, <1>3, <1>4, <1>i, <2>1 DEF ValuesOnce
    <3>2. idx[d] # put_index
      BY <1>c, <1>0, <1>2, <3>1 DEF IndicesOnce
    <3> QED BY <1>4, <3>1, <3>2
  <2>2. ASSUME NEW v \in M!Values, received'[v] = 1
        PROVE  \E k \in M!Indices : /\ k < pop_index' /\ k < put_index' /\ putAt'[k] = v
                                    /\ \A d \in Dequeuers : Taking(d)' \/ Taken(d)' => idx'[d] # k
    <3>1. PICK k \in M!Indices : k < pop_index /\ k < put_index /\ putAt[k] = v /\ \A d \in Dequeuers : Taking(d) \/ Taken(d) => idx[d] # k
      BY <1>c, <1>1, <2>2 DEF ValuesOnce
    <3>2. k \in Nat /\ k # put_index /\ k < put_index'
      BY <1>0, <1>1, <1>i, <3>1
    <3> QED BY <1>0, <1>1, <1>3, <1>4, <3>1, <3>2
  <2> QED BY <2>1, <2>2 DEF ValuesOnce
<1> QED BY <1>7, <1>8, <1>9, <1>10 DEF CellsInv

LEMMA DequeueBegins == ASSUME MpmcTypes, CellsInv, NEW d \in Dequeuers, M!Start(d) PROVE CellsInv'
<1>c. IndicesOnce /\ CellsHold /\ WaitersKnown /\ ValuesOnce
  BY DEF CellsInv
<1>0. /\ d \in M!AllThreads /\ d \notin Enqueuers /\ asleep \subseteq Dequeuers /\ Null \notin M!Values /\ PerDeq \in Nat
      /\ \A f \in Enqueuers : f \in M!AllThreads /\ f # d /\ idx[f] \in Nat /\ left[f] \in Nat
      /\ \A g \in Dequeuers : g \in M!AllThreads /\ idx[g] \in Nat /\ left[g] \in Nat
      /\ pop_index \in Nat /\ put_index \in Nat
  BY MpmcSets, MpmcAssumption DEF MpmcTypes, DataTypes
<1>1. /\ UNCHANGED <<cell, asleep, received, put_index, putAt>> /\ mpmc_pc[d] = "idle" /\ left[d] > 0 /\ d \notin asleep
      /\ mpmc_pc' = [mpmc_pc EXCEPT ![d] = "find"] /\ left' = [left EXCEPT ![d] = left[d] - 1]
      /\ idx' = [idx EXCEPT ![d] = pop_index] /\ pop_index' = pop_index + 1
      /\ cv' = [cv EXCEPT ![d] = Null] /\ futex' = [futex EXCEPT ![d] = 1] /\ alive' = alive \cup {d}
  BY <1>0 DEF M!Start, M!Goto, M!list
<1> DEFINE x == <<d, PerDeq - left[d] + 1>>
<1>2. pop_index \in M!Indices /\ x \notin PopsBegun /\ IsFiniteSet(PopsBegun) /\ x \in Dequeuers \X (1 .. PerDeq)
  BY <1>c, <1>1, PopFits
<1>3. /\ mpmc_pc'[d] = "find" /\ ~Waits(d)' /\ Taking(d)' /\ ~Taken(d)'
      /\ \A u \in M!AllThreads : u # d => /\ mpmc_pc'[u] = mpmc_pc[u]
                                          /\ (Putting(u)' <=> Putting(u)) /\ (Waits(u)' <=> Waits(u))
                                          /\ (Taking(u)' <=> Taking(u)) /\ (Taken(u)' <=> Taken(u))
  BY <1>0, <1>1, ControlOthers
<1>4. /\ ~Waits(d)
      /\ \A u \in M!AllThreads : u # d => idx'[u] = idx[u] /\ cv'[u] = cv[u] /\ left'[u] = left[u]
      /\ \A g \in Dequeuers : g # d => futex'[g] = futex[g]
      /\ idx'[d] = pop_index /\ left'[d] = left[d] - 1 /\ futex'[d] = 1
  BY <1>0, <1>1, <1>2 DEF MpmcTypes, DataTypes, Waits
<1>5. PopsBegun' = PopsBegun \cup {x} /\ PutsBegun' = PutsBegun
  <2>1. PopsBegun' = PopsBegun \cup {x}
    <3>1. \A v \in Dequeuers \X (1 .. PerDeq) : v \in PopsBegun' <=> v \in PopsBegun \/ v = x
      <4> SUFFICES ASSUME NEW f \in Dequeuers, NEW n \in 1 .. PerDeq
                   PROVE  n <= PerDeq - left'[f] <=> (n <= PerDeq - left[f] \/ <<f, n>> = x)
        BY DEF PopsBegun
      <4> QED BY <1>0, <1>4
    <3> HIDE DEF x
    <3> QED BY <1>2, <3>1 DEF PopsBegun
  <2>2. PutsBegun' = PutsBegun
    BY <1>0, <1>4 DEF PutsBegun
  <2> QED BY <2>1, <2>2
<1> HIDE DEF x
<1>6. \A k : Filled(k)' <=> Filled(k)
  BY <1>0, <1>1, <1>3, <1>4 DEF Filled
<1>i. M!Indices \subseteq Nat
  BY MpmcSets
<1>7. IndicesOnce'
  <2>1. put_index' = Cardinality(PutsBegun') /\ pop_index' = Cardinality(PopsBegun')
    <3>1. Cardinality(PopsBegun \cup {x}) = Cardinality(PopsBegun) + 1
      BY <1>2, FS_AddElement
    <3> QED BY <1>c, <1>1, <1>5, <3>1 DEF IndicesOnce
  <2>2. /\ \A f \in Enqueuers : left'[f] <= PerEnq
        /\ \A g \in Dequeuers : left'[g] <= PerDeq
    BY <1>c, <1>0, <1>4 DEF IndicesOnce
  <2>3. \A f \in Enqueuers : Putting(f)' => idx'[f] < put_index' /\ cv'[f] = putAt'[idx'[f]]
    BY <1>c, <1>0, <1>1, <1>3, <1>4 DEF IndicesOnce
  <2>4. \A g \in Dequeuers : g # d /\ (Taking(g)' \/ Taken(g)') => idx'[g] < pop_index /\ idx'[g] = idx[g] /\ g \in alive /\ (Taking(g) \/ Taken(g))
    BY <1>c, <1>0, <1>3, <1>4 DEF IndicesOnce
  <2>5. \A g \in Dequeuers : Taking(g)' \/ Taken(g)' => idx'[g] < pop_index' /\ g \in alive'
    BY <1>0, <1>1, <1>4, <2>4
  <2>6. \A g, h \in Dequeuers : g # h /\ (Taking(g)' \/ Taken(g)') /\ (Taking(h)' \/ Taken(h)') => idx'[g] # idx'[h]
    BY <1>c, <1>0, <1>4, <2>4 DEF IndicesOnce
  <2>7. \A f, h \in Enqueuers : f # h /\ Putting(f)' /\ Putting(h)' => idx'[f] # idx'[h]
    BY <1>c, <1>0, <1>3, <1>4 DEF IndicesOnce
  <2>8. /\ \A k \in M!Indices : IF k < put_index' THEN putAt'[k] \in PutsBegun' ELSE putAt'[k] = Null
        /\ \A j, k \in M!Indices : j < put_index' /\ putAt'[j] = putAt'[k] => j = k
    BY <1>c, <1>1, <1>5 DEF IndicesOnce
  <2> QED BY <2>1, <2>2, <2>3, <2>5, <2>6, <2>7, <2>8 DEF IndicesOnce
<1>8. CellsHold'
  <2>1. \A k \in M!Indices : ~Filled(k) /\ cell[k] # Null =>
           cell[k] \in Dequeuers /\ cell[k] # d /\ idx[cell[k]] = k /\ Waits(cell[k]) /\ futex[cell[k]] = 1
    BY <1>c, <1>4 DEF CellsHold
  <2>2. \A k \in M!Indices : ~Filled(k)' /\ cell'[k] # Null =>
           cell'[k] \in Dequeuers /\ idx'[cell'[k]] = k /\ mpmc_pc'[cell'[k]] \in {"wait", "compare"} /\ futex'[cell'[k]] = 1
    BY <1>0, <1>1, <1>3, <1>4, <1>6, <2>1 DEF Waits
  <2>3. \A k \in M!Indices : Filled(k)' /\ pop_index' <= k => cell'[k] = putAt'[k]
    <3>1. \A k \in M!Indices : pop_index' <= k => pop_index <= k
      BY <1>0, <1>1, <1>i
    <3> QED BY <1>c, <1>1, <1>6, <3>1 DEF CellsHold
  <2>4. ASSUME NEW g \in Dequeuers, Taking(g)', Filled(idx[g])' PROVE cell'[idx'[g]] = putAt'[idx'[g]]
    <3>1. CASE g = d
      BY <1>c, <1>0, <1>1, <1>2, <1>4, <1>6, <2>4, <3>1 DEF CellsHold
    <3>2. CASE g # d
      BY <1>c, <1>0, <1>1, <1>3, <1>4, <1>6, <2>4, <3>2 DEF CellsHold
    <3> QED BY <3>1, <3>2
  <2> QED BY <2>2, <2>3, <2>4 DEF CellsHold, Waits
<1>9. WaitersKnown'
  <2>1. \A g \in Dequeuers : Waits(g)' => Waits(g) /\ g # d /\ idx'[g] = idx[g] /\ futex'[g] = futex[g]
    BY <1>0, <1>3, <1>4
  <2>2. \A g \in Dequeuers : Waits(g) => Waits(g)' /\ g # d
    BY <1>0, <1>3, <1>4
  <2>3. \A f \in Enqueuers : mpmc_pc'[f] = mpmc_pc[f] /\ cv'[f] = cv[f]
    BY <1>0, <1>3, <1>4
  <2>4. \A g \in asleep : g # d /\ mpmc_pc'[g] = mpmc_pc[g] /\ futex'[g] = futex[g]
    BY <1>0, <1>1, <1>3, <1>4
  <2>5. \A g \in Dequeuers : mpmc_pc'[g] \in {"find", "spin"} => futex'[g] = 1
    BY <1>c, <1>0, <1>3, <1>4 DEF WaitersKnown
  <2>6. \A g \in Dequeuers : Waits(g)' /\ ~Filled(idx[g])' => cell'[idx'[g]] = g /\ futex'[g] = 1
    BY <1>c, <1>1, <1>6, <2>1 DEF WaitersKnown
  <2>7. \A g \in Dequeuers : Waits(g)' /\ Filled(idx[g])' /\ futex'[g] = 1 => \E f \in Enqueuers : mpmc_pc'[f] = "clear" /\ cv'[f] = g
    BY <1>c, <1>6, <2>1, <2>3 DEF WaitersKnown
  <2>8. ASSUME NEW f \in Enqueuers, mpmc_pc'[f] = "clear"
        PROVE  cv'[f] \in Dequeuers /\ Waits(cv[f])' /\ futex'[cv'[f]] = 1 /\ Filled(idx[cv[f]])'
    <3>1. cv'[f] = cv[f] /\ cv[f] \in Dequeuers /\ Waits(cv[f]) /\ futex[cv[f]] = 1 /\ Filled(idx[cv[f]])
      BY <1>c, <2>3, <2>8 DEF WaitersKnown
    <3>2. mpmc_pc'[cv[f]] \in {"wait", "compare"} /\ cv[f] # d
      BY <2>2, <3>1 DEF Waits
    <3>3. Waits(cv[f])'
      BY <3>1, <3>2 DEF Waits
    <3> QED BY <1>0, <1>4, <1>6, <3>1, <3>2, <3>3
  <2>9. \A e, f \in Enqueuers : mpmc_pc'[e] = "clear" /\ mpmc_pc'[f] = "clear" /\ cv'[e] = cv'[f] => e = f
    BY <1>c, <2>3 DEF WaitersKnown
  <2>10. \A g \in asleep' : mpmc_pc'[g] = "compare" /\ (futex'[g] = 0 => \E e \in Enqueuers : mpmc_pc'[e] = "wake" /\ cv'[e] = g)
    BY <1>c, <1>1, <2>3, <2>4 DEF WaitersKnown
  <2> QED BY <2>5, <2>6, <2>7, <2>8, <2>9, <2>10 DEF WaitersKnown
<1>10. ValuesOnce'
  <2>1. \A g \in Dequeuers : Taken(g)' => cv'[g] = putAt'[idx'[g]] /\ cv'[g] \in M!Values
    BY <1>c, <1>0, <1>1, <1>3, <1>4 DEF ValuesOnce
  <2>2. ASSUME NEW v \in M!Values, received'[v] = 1
        PROVE  \E k \in M!Indices : /\ k < pop_index' /\ k < put_index' /\ putAt'[k] = v
                                    /\ \A g \in Dequeuers : Taking(g)' \/ Taken(g)' => idx'[g] # k
    <3>1. PICK k \in M!Indices : k < pop_index /\ k < put_index /\ putAt[k] = v /\ \A g \in Dequeuers : Taking(g) \/ Taken(g) => idx[g] # k
      BY <1>c, <1>1, <2>2 DEF ValuesOnce
    <3>2. k \in Nat /\ k # pop_index /\ k < pop_index'
      BY <1>0, <1>1, <1>i, <3>1
    <3> QED BY <1>0, <1>1, <1>3, <1>4, <3>1, <3>2
  <2> QED BY <2>1, <2>2 DEF ValuesOnce
<1> QED BY <1>7, <1>8, <1>9, <1>10 DEF CellsInv


\* After its index is handed out, a thread keeps it until it is done.
LEMMA IndicesKept ==
  ASSUME MpmcTypes, IndicesOnce, UNCHANGED <<put_index, pop_index, left, idx, putAt>>,
         \A e \in Enqueuers : Putting(e)' => Putting(e) /\ cv'[e] = cv[e],
         \A d \in Dequeuers : Taking(d)' \/ Taken(d)' => (Taking(d) \/ Taken(d)) /\ (d \in alive => d \in alive')
  PROVE  IndicesOnce'
<1>1. PutsBegun' = PutsBegun /\ PopsBegun' = PopsBegun
  BY DEF PutsBegun, PopsBegun
<1>2. /\ put_index' = Cardinality(PutsBegun') /\ pop_index' = Cardinality(PopsBegun')
      /\ \A e \in Enqueuers : left'[e] <= PerEnq
      /\ \A d \in Dequeuers : left'[d] <= PerDeq
  BY <1>1 DEF IndicesOnce
<1>3. /\ \A e \in Enqueuers : Putting(e)' => idx'[e] < put_index' /\ cv'[e] = putAt'[idx'[e]]
      /\ \A e, f \in Enqueuers : e # f /\ Putting(e)' /\ Putting(f)' => idx'[e] # idx'[f]
  BY DEF IndicesOnce
<1>4. /\ \A d \in Dequeuers : Taking(d)' \/ Taken(d)' => idx'[d] < pop_index' /\ d \in alive'
      /\ \A d, g \in Dequeuers : d # g /\ (Taking(d)' \/ Taken(d)') /\ (Taking(g)' \/ Taken(g)') => idx'[d] # idx'[g]
  BY DEF IndicesOnce
<1>5. /\ \A k \in M!Indices : IF k < put_index' THEN putAt'[k] \in PutsBegun' ELSE putAt'[k] = Null
      /\ \A j, k \in M!Indices : j < put_index' /\ putAt'[j] = putAt'[k] => j = k
  BY <1>1 DEF IndicesOnce
<1> QED BY <1>2, <1>3, <1>4, <1>5 DEF IndicesOnce

\* What a thread that moves on from e or d can rely on.
LEMMA MpmcKnows ==
  ASSUME MpmcTypes, CellsInv
  PROVE  /\ IndicesOnce /\ CellsHold /\ WaitersKnown /\ ValuesOnce
         /\ asleep \subseteq Dequeuers /\ Null \notin M!Values
         /\ \A f \in Enqueuers : f \in M!AllThreads /\ f \notin Dequeuers
         /\ \A g \in Dequeuers : g \in M!AllThreads /\ g \notin Enqueuers /\ g \notin M!Values /\ g # Null
         /\ \A f \in Enqueuers : Putting(f) => idx[f] \in M!Indices
         /\ \A g \in Dequeuers : Taking(g) \/ Taken(g) => idx[g] \in M!Indices
         /\ \A k \in M!Indices : Filled(k) => putAt[k] \in M!Values
         /\ \A k \in M!Indices : putAt[k] \in M!Values => k < put_index
<1>1. IndicesOnce /\ CellsHold /\ WaitersKnown /\ ValuesOnce
  BY DEF CellsInv
<1>2. asleep \subseteq Dequeuers
  BY DEF MpmcTypes, DataTypes
<1>3. \A k \in M!Indices : Filled(k) => putAt[k] \in M!Values
  BY <1>1, IndexBounds DEF Filled, IndicesOnce
<1>4. \A k \in M!Indices : putAt[k] \in M!Values => k < put_index
  BY <1>1, MpmcSets DEF IndicesOnce
<1> QED BY <1>1, <1>2, <1>3, <1>4, IndexBounds, MpmcSets

LEMMA CellFilled == ASSUME MpmcTypes, CellsInv, NEW e \in Enqueuers, M!PutCell(e) PROVE CellsInv'
<1>c. IndicesOnce /\ CellsHold /\ WaitersKnown /\ ValuesOnce
  BY MpmcKnows
<1>1. /\ UNCHANGED <<put_index, pop_index, left, idx, futex, alive, asleep, putAt, received>> /\ mpmc_pc[e] = "put"
      /\ mpmc_pc' = [mpmc_pc EXCEPT ![e] = IF M!Waiter(e) THEN "clear" ELSE "idle"]
      /\ cell' = [cell EXCEPT ![idx[e]] = cv[e]]
      /\ cv' = [cv EXCEPT ![e] = IF M!Waiter(e) THEN cell[idx[e]] ELSE cv[e]]
  BY MpmcKnows DEF M!PutCell, M!Goto, M!sleep, M!history, MpmcTypes, DataTypes
<1>2. /\ e \in M!AllThreads /\ Putting(e) /\ idx[e] \in M!Indices /\ cv[e] = putAt[idx[e]] /\ idx[e] < put_index /\ ~Filled(idx[e])
      /\ ~Taking(e) /\ ~Taken(e)
  <2>1. Putting(e) /\ e \in M!AllThreads
    BY <1>1, MpmcKnows DEF Putting
  <2> QED BY <1>1, <1>c, <2>1, MpmcKnows DEF IndicesOnce, Filled, Taking, Taken
<1> DEFINE c == IF M!Waiter(e) THEN "clear" ELSE "idle"
<1>3. /\ mpmc_pc'[e] = c /\ ~Putting(e)'
      /\ \A u \in M!AllThreads : u # e => /\ mpmc_pc'[u] = mpmc_pc[u]
                                          /\ (Putting(u)' <=> Putting(u)) /\ (Waits(u)' <=> Waits(u))
                                          /\ (Taking(u)' <=> Taking(u)) /\ (Taken(u)' <=> Taken(u))
  BY <1>1, <1>2, ControlOthers
<1>4. /\ \A u \in M!AllThreads : u # e => cv'[u] = cv[u]
      /\ cv'[e] = IF M!Waiter(e) THEN cell[idx[e]] ELSE cv[e]
      /\ \A k \in M!Indices : k # idx[e] => cell'[k] = cell[k]
      /\ cell'[idx[e]] = putAt[idx[e]]
  BY <1>1, <1>2 DEF MpmcTypes, DataTypes
<1>5. \A k : Filled(k)' <=> (Filled(k) \/ k = idx[e])
  <2>1. \A f \in Enqueuers : f # e /\ Putting(f) => idx[f] # idx[e]
    BY <1>c, <1>2 DEF IndicesOnce
  <2>2. \A f \in Enqueuers : Putting(f)' <=> (Putting(f) /\ f # e)
    BY <1>3, MpmcKnows
  <2> QED BY <1>1, <1>2, <2>1, <2>2 DEF Filled
<1>6. ASSUME M!Waiter(e)
      PROVE  /\ cell[idx[e]] \in Dequeuers /\ idx[cell[idx[e]]] = idx[e] /\ Waits(cell[idx[e]]) /\ futex[cell[idx[e]]] = 1
             /\ mpmc_pc'[e] = "clear" /\ cv'[e] = cell[idx[e]]
  BY <1>c, <1>2, <1>3, <1>4, <1>6, MpmcKnows DEF M!Waiter, CellsHold
<1>7. ASSUME ~M!Waiter(e) PROVE mpmc_pc'[e] = "idle" /\ cell[idx[e]] \notin Dequeuers
  BY <1>3, <1>7 DEF M!Waiter
<1>d. /\ \A f \in Enqueuers : f \in M!AllThreads
      /\ \A g \in Dequeuers : g \in M!AllThreads /\ g # e
      /\ asleep \subseteq Dequeuers
      /\ \A g \in Dequeuers : Waits(g) => Taking(g)
      /\ \A g \in Dequeuers : Taking(g) => idx[g] \in M!Indices
  BY MpmcKnows DEF Waits, Taking
<1>8. IndicesOnce'
  <2>1. \A f \in Enqueuers : Putting(f)' => Putting(f) /\ cv'[f] = cv[f]
    BY <1>d, <1>3, <1>4
  <2>2. \A g \in Dequeuers : Taking(g)' \/ Taken(g)' => (Taking(g) \/ Taken(g)) /\ (g \in alive => g \in alive')
    BY <1>d, <1>1, <1>3
  <2> QED BY <1>c, <1>1, <2>1, <2>2, IndicesKept
<1>9. CellsHold'
  <2>1. \A k \in M!Indices : ~Filled(k)' /\ cell'[k] # Null =>
           cell'[k] \in Dequeuers /\ idx'[cell'[k]] = k /\ mpmc_pc'[cell'[k]] \in {"wait", "compare"} /\ futex'[cell'[k]] = 1
    BY <1>c, <1>d, <1>1, <1>3, <1>4, <1>5 DEF CellsHold, Waits
  <2>2. \A k \in M!Indices : Filled(k)' /\ pop_index' <= k => cell'[k] = putAt'[k]
    BY <1>c, <1>1, <1>4, <1>5 DEF CellsHold
  <2>3. \A g \in Dequeuers : Taking(g)' /\ Filled(idx[g])' => cell'[idx'[g]] = putAt'[idx'[g]]
    BY <1>c, <1>d, <1>1, <1>3, <1>4, <1>5 DEF CellsHold
  <2> QED BY <2>1, <2>2, <2>3 DEF CellsHold, Waits
<1>10. WaitersKnown'
  <2>1. \A g \in Dequeuers : mpmc_pc'[g] = mpmc_pc[g] /\ (Waits(g)' <=> Waits(g)) /\ futex'[g] = futex[g] /\ idx'[g] = idx[g]
    BY <1>d, <1>1, <1>3
  <2>2. \A f \in Enqueuers : f # e => mpmc_pc'[f] = mpmc_pc[f] /\ cv'[f] = cv[f]
    BY <1>d, <1>3, <1>4
  <2>3. \A g \in Dequeuers : Waits(g)' /\ ~Filled(idx[g])' => cell'[idx'[g]] = g /\ futex'[g] = 1
    BY <1>c, <1>d, <1>4, <1>5, <2>1 DEF WaitersKnown
  <2>4. ASSUME NEW g \in Dequeuers, Waits(g)', Filled(idx[g])', futex'[g] = 1
        PROVE  \E f \in Enqueuers : mpmc_pc'[f] = "clear" /\ cv'[f] = g
    <3>1. CASE Filled(idx[g])
      <4>1. PICK f \in Enqueuers : mpmc_pc[f] = "clear" /\ cv[f] = g
        BY <1>c, <2>1, <2>4, <3>1 DEF WaitersKnown
      <4> QED BY <1>1, <2>2, <4>1
    <3>2. CASE ~Filled(idx[g])
      <4>1. idx[g] = idx[e] /\ cell[idx[g]] = g
        BY <1>c, <1>5, <2>1, <2>4, <3>2 DEF WaitersKnown
      <4>2. M!Waiter(e)
        BY <4>1 DEF M!Waiter
      <4> QED BY <1>6, <4>1, <4>2
    <3> QED BY <3>1, <3>2
  <2>5. ASSUME NEW f \in Enqueuers, mpmc_pc'[f] = "clear"
        PROVE  cv'[f] \in Dequeuers /\ Waits(cv[f])' /\ futex'[cv'[f]] = 1 /\ Filled(idx[cv[f]])'
    <3>1. CASE f = e
      <4>1. M!Waiter(e)
        BY <1>7, <2>5, <3>1
      <4>2. cv'[f] \in Dequeuers /\ Waits(cell[idx[e]]) /\ cv'[f] = cell[idx[e]] /\ idx'[cv'[f]] = idx[e] /\ futex'[cv'[f]] = 1
        BY <1>1, <1>6, <3>1, <4>1
      <4>3. mpmc_pc'[cv'[f]] \in {"wait", "compare"}
        BY <2>1, <4>2 DEF Waits
      <4> QED BY <1>5, <4>2, <4>3 DEF Waits
    <3>2. CASE f # e
      <4>1. cv'[f] = cv[f] /\ cv[f] \in Dequeuers /\ Waits(cv[f]) /\ futex[cv[f]] = 1 /\ Filled(idx[cv[f]])
        BY <1>c, <2>2, <2>5, <3>2 DEF WaitersKnown
      <4>3. mpmc_pc'[cv'[f]] \in {"wait", "compare"}
        BY <2>1, <4>1 DEF Waits
      <4> QED BY <1>1, <1>5, <4>1, <4>3 DEF Waits
    <3> QED BY <3>1, <3>2
  <2>6. ASSUME NEW f \in Enqueuers, NEW h \in Enqueuers, mpmc_pc'[f] = "clear", mpmc_pc'[h] = "clear", cv'[f] = cv'[h] PROVE f = h
    <3>1. ASSUME NEW g \in Enqueuers, g # e, mpmc_pc'[g] = "clear" PROVE Filled(idx[cv[g]]) /\ cv'[g] = cv[g] /\ mpmc_pc[g] = "clear"
      BY <1>c, <2>2, <3>1 DEF WaitersKnown
    <3>2. mpmc_pc'[e] = "clear" => idx[cv'[e]] = idx[e]
      BY <1>6, <1>7
    <3>3. CASE f = e \/ h = e
      BY <1>2, <2>6, <3>1, <3>2, <3>3
    <3>4. CASE f # e /\ h # e
      BY <1>c, <2>6, <3>1, <3>4 DEF WaitersKnown
    <3> QED BY <3>3, <3>4
  <2>7. \A g \in Dequeuers : mpmc_pc'[g] \in {"find", "spin"} => futex'[g] = 1
    BY <1>c, <2>1 DEF WaitersKnown
  <2>8. \A g \in asleep' : mpmc_pc'[g] = "compare" /\ (futex'[g] = 0 => \E f \in Enqueuers : mpmc_pc'[f] = "wake" /\ cv'[f] = g)
    <3> SUFFICES ASSUME NEW g \in asleep PROVE mpmc_pc'[g] = "compare" /\ (futex'[g] = 0 => \E f \in Enqueuers : mpmc_pc'[f] = "wake" /\ cv'[f] = g)
      BY <1>1
    <3>1. mpmc_pc[g] = "compare" /\ (futex[g] = 0 => \E f \in Enqueuers : mpmc_pc[f] = "wake" /\ cv[f] = g)
      BY <1>c DEF WaitersKnown
    <3> QED BY <1>d, <1>1, <2>1, <2>2, <3>1
  <2> QED BY <2>3, <2>4, <2>5, <2>6, <2>7, <2>8 DEF WaitersKnown
<1>11. ValuesOnce'
  BY <1>c, <1>d, <1>1, <1>3, <1>4 DEF ValuesOnce
<1> QED BY <1>8, <1>9, <1>10, <1>11 DEF CellsInv


LEMMA FutexCleared == ASSUME MpmcTypes, CellsInv, NEW e \in Enqueuers, M!ClearFutex(e) PROVE CellsInv'
<1>c. IndicesOnce /\ CellsHold /\ WaitersKnown /\ ValuesOnce
  BY MpmcKnows
<1>1. /\ UNCHANGED <<put_index, pop_index, cell, left, idx, cv, alive, asleep, putAt, received>> /\ mpmc_pc[e] = "clear"
      /\ mpmc_pc' = [mpmc_pc EXCEPT ![e] = "wake"] /\ futex' = [futex EXCEPT ![cv[e]] = 0]
  BY DEF M!ClearFutex, M!Goto, M!list, M!local, M!history
<1>2. e \in M!AllThreads /\ cv[e] \in Dequeuers /\ Waits(cv[e]) /\ futex[cv[e]] = 1 /\ Filled(idx[cv[e]])
  BY <1>c, <1>1, MpmcKnows DEF WaitersKnown
<1>3. /\ mpmc_pc'[e] = "wake" /\ ~Putting(e)'
      /\ \A u \in M!AllThreads : u # e => /\ mpmc_pc'[u] = mpmc_pc[u]
                                          /\ (Putting(u)' <=> Putting(u)) /\ (Waits(u)' <=> Waits(u))
                                          /\ (Taking(u)' <=> Taking(u)) /\ (Taken(u)' <=> Taken(u))
  BY <1>1, <1>2, ControlOthers
<1>d. /\ \A f \in Enqueuers : f \in M!AllThreads
      /\ \A g \in Dequeuers : g \in M!AllThreads /\ g # e
      /\ asleep \subseteq Dequeuers
      /\ ~Putting(e)
  BY <1>1, MpmcKnows DEF Putting
<1>4. /\ \A g \in Dequeuers : mpmc_pc'[g] = mpmc_pc[g] /\ (Waits(g)' <=> Waits(g)) /\ (Taking(g)' <=> Taking(g)) /\ (Taken(g)' <=> Taken(g))
      /\ \A g \in Dequeuers : g # cv[e] => futex'[g] = futex[g]
      /\ futex'[cv[e]] = 0
      /\ \A f \in Enqueuers : Putting(f)' <=> Putting(f)
      /\ \A f \in Enqueuers : f # e => mpmc_pc'[f] = mpmc_pc[f]
  BY <1>d, <1>1, <1>2, <1>3 DEF MpmcTypes, DataTypes
<1>5. \A k : Filled(k)' <=> Filled(k)
  BY <1>1, <1>4 DEF Filled
<1>6. IndicesOnce'
  BY <1>c, <1>1, <1>4, IndicesKept
<1>7. CellsHold'
  <2>1. \A k \in M!Indices : ~Filled(k)' /\ cell'[k] # Null =>
           cell'[k] \in Dequeuers /\ idx'[cell'[k]] = k /\ mpmc_pc'[cell'[k]] \in {"wait", "compare"} /\ futex'[cell'[k]] = 1
    BY <1>c, <1>1, <1>2, <1>4, <1>5 DEF CellsHold, Waits
  <2>2. \A k \in M!Indices : Filled(k)' /\ pop_index' <= k => cell'[k] = putAt'[k]
    BY <1>c, <1>1, <1>5 DEF CellsHold
  <2>3. \A g \in Dequeuers : Taking(g)' /\ Filled(idx[g])' => cell'[idx'[g]] = putAt'[idx'[g]]
    BY <1>c, <1>1, <1>4, <1>5 DEF CellsHold
  <2> QED BY <2>1, <2>2, <2>3 DEF CellsHold, Waits
<1>8. WaitersKnown'
  <2>1. \A g \in Dequeuers : Waits(g)' /\ ~Filled(idx[g])' => cell'[idx'[g]] = g /\ futex'[g] = 1
    BY <1>c, <1>1, <1>2, <1>4, <1>5 DEF WaitersKnown
  <2>2. ASSUME NEW g \in Dequeuers, Waits(g)', Filled(idx[g])', futex'[g] = 1
        PROVE  \E f \in Enqueuers : mpmc_pc'[f] = "clear" /\ cv'[f] = g
    <3>1. g # cv[e] /\ futex[g] = 1
      BY <1>4, <2>2
    <3>2. PICK f \in Enqueuers : mpmc_pc[f] = "clear" /\ cv[f] = g
      BY <1>c, <1>1, <1>4, <1>5, <2>2, <3>1 DEF WaitersKnown
    <3> QED BY <1>1, <1>4, <3>1, <3>2
  <2>3. ASSUME NEW f \in Enqueuers, mpmc_pc'[f] = "clear"
        PROVE  cv'[f] \in Dequeuers /\ Waits(cv[f])' /\ futex'[cv'[f]] = 1 /\ Filled(idx[cv[f]])'
    <3>1. f # e /\ mpmc_pc[f] = "clear" /\ cv'[f] = cv[f]
      BY <1>1, <1>3, <1>4, <2>3
    <3>2. cv[f] # cv[e] /\ cv[f] \in Dequeuers /\ Waits(cv[f]) /\ futex[cv[f]] = 1 /\ Filled(idx[cv[f]])
      BY <1>c, <1>1, <3>1 DEF WaitersKnown
    <3>3. mpmc_pc'[cv'[f]] \in {"wait", "compare"}
      BY <1>4, <3>1, <3>2 DEF Waits
    <3> QED BY <1>1, <1>4, <1>5, <3>1, <3>2, <3>3 DEF Waits
  <2>4. \A f, h \in Enqueuers : mpmc_pc'[f] = "clear" /\ mpmc_pc'[h] = "clear" /\ cv'[f] = cv'[h] => f = h
    <3>1. \A f \in Enqueuers : mpmc_pc'[f] = "clear" => mpmc_pc[f] = "clear"
      BY <1>3, <1>4
    <3> QED BY <1>c, <1>1, <3>1 DEF WaitersKnown
  <2>5. \A g \in Dequeuers : mpmc_pc'[g] \in {"find", "spin"} => futex'[g] = 1
    BY <1>c, <1>2, <1>4 DEF WaitersKnown, Waits
  <2>6. ASSUME NEW g \in asleep PROVE mpmc_pc'[g] = "compare" /\ (futex'[g] = 0 => \E f \in Enqueuers : mpmc_pc'[f] = "wake" /\ cv'[f] = g)
    <3>1. mpmc_pc[g] = "compare" /\ (futex[g] = 0 => \E f \in Enqueuers : mpmc_pc[f] = "wake" /\ cv[f] = g)
      BY <1>c DEF WaitersKnown
    <3>2. CASE g = cv[e]
      BY <1>d, <1>1, <1>3, <1>4, <3>1, <3>2
    <3>3. CASE g # cv[e]
      BY <1>d, <1>1, <1>4, <3>1, <3>3
    <3> QED BY <3>2, <3>3
  <2> QED BY <1>1, <2>1, <2>2, <2>3, <2>4, <2>5, <2>6 DEF WaitersKnown
<1>9. ValuesOnce'
  BY <1>c, <1>1, <1>4 DEF ValuesOnce
<1> QED BY <1>6, <1>7, <1>8, <1>9 DEF CellsInv

LEMMA FutexWoken == ASSUME MpmcTypes, CellsInv, NEW e \in Enqueuers, M!WakeFutex(e) PROVE CellsInv'
<1>c. IndicesOnce /\ CellsHold /\ WaitersKnown /\ ValuesOnce
  BY MpmcKnows
<1>1. /\ UNCHANGED <<put_index, pop_index, cell, left, idx, cv, alive, futex, putAt, received>> /\ mpmc_pc[e] = "wake"
      /\ mpmc_pc' = [mpmc_pc EXCEPT ![e] = "idle"] /\ asleep' = asleep \ {cv[e]}
  BY DEF M!WakeFutex, M!Goto, M!list, M!local, M!history
<1>2. e \in M!AllThreads
  BY MpmcKnows
<1>3. /\ mpmc_pc'[e] = "idle" /\ ~Putting(e)'
      /\ \A u \in M!AllThreads : u # e => /\ mpmc_pc'[u] = mpmc_pc[u]
                                          /\ (Putting(u)' <=> Putting(u)) /\ (Waits(u)' <=> Waits(u))
                                          /\ (Taking(u)' <=> Taking(u)) /\ (Taken(u)' <=> Taken(u))
  BY <1>1, <1>2, ControlOthers
<1>d. /\ \A f \in Enqueuers : f \in M!AllThreads
      /\ \A g \in Dequeuers : g \in M!AllThreads /\ g # e
      /\ asleep \subseteq Dequeuers
      /\ ~Putting(e)
  BY <1>1, MpmcKnows DEF Putting
<1>4. /\ \A g \in Dequeuers : mpmc_pc'[g] = mpmc_pc[g] /\ (Waits(g)' <=> Waits(g)) /\ (Taking(g)' <=> Taking(g)) /\ (Taken(g)' <=> Taken(g))
      /\ \A f \in Enqueuers : Putting(f)' <=> Putting(f)
      /\ \A f \in Enqueuers : f # e => mpmc_pc'[f] = mpmc_pc[f]
      /\ \A f \in Enqueuers : mpmc_pc'[f] = "clear" <=> mpmc_pc[f] = "clear"
  BY <1>d, <1>1, <1>3
<1>5. \A k : Filled(k)' <=> Filled(k)
  BY <1>1, <1>4 DEF Filled
<1>6. IndicesOnce'
  BY <1>c, <1>1, <1>4, IndicesKept
<1>7. CellsHold'
  <2>1. \A k \in M!Indices : ~Filled(k)' /\ cell'[k] # Null =>
           cell'[k] \in Dequeuers /\ idx'[cell'[k]] = k /\ mpmc_pc'[cell'[k]] \in {"wait", "compare"} /\ futex'[cell'[k]] = 1
    BY <1>c, <1>1, <1>4, <1>5 DEF CellsHold, Waits
  <2>2. \A k \in M!Indices : Filled(k)' /\ pop_index' <= k => cell'[k] = putAt'[k]
    BY <1>c, <1>1, <1>5 DEF CellsHold
  <2>3. \A g \in Dequeuers : Taking(g)' /\ Filled(idx[g])' => cell'[idx'[g]] = putAt'[idx'[g]]
    BY <1>c, <1>1, <1>4, <1>5 DEF CellsHold
  <2> QED BY <2>1, <2>2, <2>3 DEF CellsHold, Waits
<1>8. WaitersKnown'
  <2>1. \A g \in Dequeuers : Waits(g)' /\ ~Filled(idx[g])' => cell'[idx'[g]] = g /\ futex'[g] = 1
    BY <1>c, <1>1, <1>4, <1>5 DEF WaitersKnown
  <2>2. \A g \in Dequeuers : Waits(g)' /\ Filled(idx[g])' /\ futex'[g] = 1 => \E f \in Enqueuers : mpmc_pc'[f] = "clear" /\ cv'[f] = g
    BY <1>c, <1>1, <1>4, <1>5 DEF WaitersKnown
  <2>3. ASSUME NEW f \in Enqueuers, mpmc_pc'[f] = "clear"
        PROVE  cv'[f] \in Dequeuers /\ Waits(cv[f])' /\ futex'[cv'[f]] = 1 /\ Filled(idx[cv[f]])'
    <3>2. cv'[f] = cv[f] /\ cv[f] \in Dequeuers /\ Waits(cv[f]) /\ futex[cv[f]] = 1 /\ Filled(idx[cv[f]])
      BY <1>c, <1>1, <1>4, <2>3 DEF WaitersKnown
    <3>3. mpmc_pc'[cv'[f]] \in {"wait", "compare"}
      BY <1>4, <3>2 DEF Waits
    <3> QED BY <1>1, <1>5, <3>2, <3>3 DEF Waits
  <2>4. \A f, h \in Enqueuers : mpmc_pc'[f] = "clear" /\ mpmc_pc'[h] = "clear" /\ cv'[f] = cv'[h] => f = h
    BY <1>c, <1>1, <1>4 DEF WaitersKnown
  <2>5. \A g \in Dequeuers : mpmc_pc'[g] \in {"find", "spin"} => futex'[g] = 1
    BY <1>c, <1>1, <1>4 DEF WaitersKnown
  <2>6. ASSUME NEW g \in asleep' PROVE mpmc_pc'[g] = "compare" /\ (futex'[g] = 0 => \E f \in Enqueuers : mpmc_pc'[f] = "wake" /\ cv'[f] = g)
    <3>1. mpmc_pc[g] = "compare" /\ (futex[g] = 0 => \E f \in Enqueuers : mpmc_pc[f] = "wake" /\ cv[f] = g) /\ g # cv[e] /\ g \in Dequeuers
      BY <1>c, <1>d, <1>1, <2>6 DEF WaitersKnown
    <3> QED BY <1>1, <1>4, <3>1
  <2> QED BY <2>1, <2>2, <2>3, <2>4, <2>5, <2>6 DEF WaitersKnown
<1>9. ValuesOnce'
  BY <1>c, <1>1, <1>4 DEF ValuesOnce
<1> QED BY <1>6, <1>7, <1>8, <1>9 DEF CellsInv


\* A dequeue finds the value of its index, in whichever way.
LEMMA ValueTaken ==
  ASSUME MpmcTypes, CellsInv, NEW d \in Dequeuers, Taking(d), d \notin asleep, ~(Waits(d) /\ futex[d] = 1), Filled(idx[d]),
         UNCHANGED <<put_index, pop_index, left, idx, alive, futex, asleep, putAt, received>>,
         mpmc_pc' = [mpmc_pc EXCEPT ![d] = "over"], cv' = [cv EXCEPT ![d] = cell[idx[d]]],
         cell' = cell \/ cell' = [cell EXCEPT ![idx[d]] = d]
  PROVE  CellsInv'
<1>c. IndicesOnce /\ CellsHold /\ WaitersKnown /\ ValuesOnce
  BY MpmcKnows
<1>2. /\ d \in M!AllThreads /\ idx[d] \in M!Indices /\ cell[idx[d]] = putAt[idx[d]] /\ putAt[idx[d]] \in M!Values
  BY <1>c, MpmcKnows DEF CellsHold
<1>3. /\ mpmc_pc'[d] = "over" /\ Taken(d)' /\ ~Taking(d)' /\ ~Waits(d)' /\ ~Putting(d)'
      /\ \A u \in M!AllThreads : u # d => /\ mpmc_pc'[u] = mpmc_pc[u]
                                          /\ (Putting(u)' <=> Putting(u)) /\ (Waits(u)' <=> Waits(u))
                                          /\ (Taking(u)' <=> Taking(u)) /\ (Taken(u)' <=> Taken(u))
  BY <1>2, ControlOthers
<1>4. /\ \A u \in M!AllThreads : u # d => cv'[u] = cv[u]
      /\ cv'[d] = putAt[idx[d]]
      /\ \A k \in M!Indices : k # idx[d] => cell'[k] = cell[k]
  BY <1>2 DEF MpmcTypes, DataTypes
<1>d. /\ \A f \in Enqueuers : f \in M!AllThreads /\ f # d
      /\ \A g \in Dequeuers : g \in M!AllThreads
      /\ asleep \subseteq Dequeuers
      /\ \A g \in Dequeuers : Waits(g) => Taking(g)
      /\ \A g \in Dequeuers : Taking(g) => idx[g] \in M!Indices
      /\ \A g \in Dequeuers : g # d /\ (Taking(g) \/ Taken(g)) => idx[g] # idx[d]
  <2>1. \A g \in Dequeuers : Waits(g) => Taking(g)
    BY DEF Waits, Taking
  <2>2. \A g \in Dequeuers : g # d /\ (Taking(g) \/ Taken(g)) => idx[g] # idx[d]
    BY <1>c DEF IndicesOnce
  <2> QED BY <2>1, <2>2, MpmcKnows
<1>5. \A f \in Enqueuers : mpmc_pc'[f] = mpmc_pc[f] /\ (Putting(f)' <=> Putting(f)) /\ cv'[f] = cv[f]
  BY <1>d, <1>3, <1>4
<1>6. \A k : Filled(k)' <=> Filled(k)
  BY <1>5 DEF Filled
<1>7. IndicesOnce'
  <2>1. \A g \in Dequeuers : Taking(g)' \/ Taken(g)' => (Taking(g) \/ Taken(g)) /\ (g \in alive => g \in alive')
    BY <1>d, <1>3
  <2> QED BY <1>c, <1>5, <2>1, IndicesKept
<1>8. CellsHold'
  <2>1. ASSUME NEW k \in M!Indices, ~Filled(k)', cell'[k] # Null
        PROVE  cell'[k] \in Dequeuers /\ idx'[cell'[k]] = k /\ mpmc_pc'[cell'[k]] \in {"wait", "compare"} /\ futex'[cell'[k]] = 1
    <3>1. k # idx[d] /\ cell'[k] = cell[k] /\ ~Filled(k)
      BY <1>4, <1>6, <2>1
    <3>2. cell[k] \in Dequeuers /\ idx[cell[k]] = k /\ Waits(cell[k]) /\ futex[cell[k]] = 1
      BY <1>c, <2>1, <3>1 DEF CellsHold
    <3>3. cell[k] # d
      BY <3>1, <3>2
    <3> QED BY <1>d, <1>3, <3>1, <3>2, <3>3 DEF Waits
  <2>2. \A k \in M!Indices : Filled(k)' /\ pop_index' <= k => cell'[k] = putAt'[k]
    <3>1. idx[d] < pop_index /\ idx[d] \in Int /\ pop_index \in Int
      BY <1>c, <1>2 DEF IndicesOnce, MpmcTypes, DataTypes
    <3>2. \A k \in M!Indices : pop_index <= k => k # idx[d]
      BY <3>1
    <3> QED BY <1>c, <1>4, <1>6, <3>2 DEF CellsHold
  <2>3. ASSUME NEW g \in Dequeuers, Taking(g)', Filled(idx[g])' PROVE cell'[idx'[g]] = putAt'[idx'[g]]
    <3>1. g # d /\ Taking(g) /\ Filled(idx[g])
      BY <1>d, <1>3, <1>6, <2>3
    <3>2. idx[g] # idx[d] /\ idx[g] \in M!Indices /\ cell[idx[g]] = putAt[idx[g]]
      BY <1>c, <1>d, <3>1 DEF CellsHold
    <3> QED BY <1>4, <3>2
  <2> QED BY <2>1, <2>2, <2>3 DEF CellsHold, Waits
<1>9. WaitersKnown'
  <2>1. \A g \in Dequeuers : Waits(g)' => g # d /\ Waits(g) /\ idx[g] # idx[d] /\ idx[g] \in M!Indices
    BY <1>d, <1>3
  <2>2. \A g \in Dequeuers : Waits(g)' /\ ~Filled(idx[g])' => cell'[idx'[g]] = g /\ futex'[g] = 1
    BY <1>c, <1>4, <1>6, <2>1 DEF WaitersKnown
  <2>3. \A g \in Dequeuers : Waits(g)' /\ Filled(idx[g])' /\ futex'[g] = 1 => \E f \in Enqueuers : mpmc_pc'[f] = "clear" /\ cv'[f] = g
    BY <1>c, <1>5, <1>6, <2>1 DEF WaitersKnown
  <2>4. ASSUME NEW f \in Enqueuers, mpmc_pc'[f] = "clear"
        PROVE  cv'[f] \in Dequeuers /\ Waits(cv[f])' /\ futex'[cv'[f]] = 1 /\ Filled(idx[cv[f]])'
    <3>2. cv'[f] = cv[f] /\ cv[f] \in Dequeuers /\ Waits(cv[f]) /\ futex[cv[f]] = 1 /\ Filled(idx[cv[f]]) /\ cv[f] # d
      BY <1>c, <1>5, <2>4 DEF WaitersKnown
    <3>3. mpmc_pc'[cv'[f]] \in {"wait", "compare"}
      BY <1>d, <1>3, <3>2 DEF Waits
    <3> QED BY <1>6, <3>2, <3>3 DEF Waits
  <2>5. \A f, h \in Enqueuers : mpmc_pc'[f] = "clear" /\ mpmc_pc'[h] = "clear" /\ cv'[f] = cv'[h] => f = h
    BY <1>c, <1>5 DEF WaitersKnown
  <2>6. \A g \in Dequeuers : mpmc_pc'[g] \in {"find", "spin"} => futex'[g] = 1
    BY <1>c, <1>d, <1>3 DEF WaitersKnown
  <2>7. ASSUME NEW g \in asleep PROVE mpmc_pc'[g] = "compare" /\ (futex'[g] = 0 => \E f \in Enqueuers : mpmc_pc'[f] = "wake" /\ cv'[f] = g)
    <3>1. mpmc_pc[g] = "compare" /\ (futex[g] = 0 => \E f \in Enqueuers : mpmc_pc[f] = "wake" /\ cv[f] = g) /\ g # d /\ g \in Dequeuers
      BY <1>c, <1>d, <2>7 DEF WaitersKnown
    <3> QED BY <1>d, <1>3, <1>5, <3>1
  <2> QED BY <2>2, <2>3, <2>4, <2>5, <2>6, <2>7 DEF WaitersKnown
<1>10. ValuesOnce'
  <2>1. \A g \in Dequeuers : Taken(g)' => cv'[g] = putAt'[idx'[g]] /\ cv'[g] \in M!Values
    BY <1>c, <1>d, <1>2, <1>3, <1>4 DEF ValuesOnce
  <2>2. \A g \in Dequeuers : Taking(g)' \/ Taken(g)' => Taking(g) \/ Taken(g)
    BY <1>d, <1>3
  <2> QED BY <1>c, <2>1, <2>2 DEF ValuesOnce
<1> QED BY <1>7, <1>8, <1>9, <1>10 DEF CellsInv

LEMMA CellFinds ==
  ASSUME MpmcTypes, CellsInv, NEW d \in Dequeuers, mpmc_pc[d] = "spin", cell[idx[d]] # Null
  PROVE  Filled(idx[d])
<1>1. Taking(d) /\ ~Waits(d)
  BY DEF Taking, Waits
<1>2. idx[d] \in M!Indices
  BY <1>1, MpmcKnows
<1>3. ASSUME ~Filled(idx[d]) PROVE FALSE
  <2>1. cell[idx[d]] \in Dequeuers /\ idx[cell[idx[d]]] = idx[d] /\ Waits(cell[idx[d]])
    BY <1>2, <1>3, MpmcKnows DEF CellsHold
  <2>2. cell[idx[d]] # d /\ Taking(cell[idx[d]])
    BY <1>1, <2>1 DEF Waits, Taking
  <2> QED BY <1>1, <2>1, <2>2, MpmcKnows DEF IndicesOnce
<1> QED BY <1>3

\* A dequeue begins to wait, or goes on to.
LEMMA WaitBegins ==
  ASSUME MpmcTypes, CellsInv, NEW d \in Dequeuers, mpmc_pc[d] = "spin", cell[idx[d]] = Null,
         UNCHANGED <<put_index, pop_index, left, idx, alive, futex, asleep, putAt, received>>,
         mpmc_pc' = [mpmc_pc EXCEPT ![d] = "wait"], cv' = [cv EXCEPT ![d] = cell[idx[d]]], cell' = [cell EXCEPT ![idx[d]] = d]
  PROVE  CellsInv'
<1>c. IndicesOnce /\ CellsHold /\ WaitersKnown /\ ValuesOnce
  BY MpmcKnows
<1>1. Taking(d) /\ ~Waits(d) /\ ~Taken(d)
  BY DEF Taking, Waits, Taken
<1>2. /\ d \in M!AllThreads /\ idx[d] \in M!Indices /\ ~Filled(idx[d]) /\ futex[d] = 1 /\ d # Null
  <2>1. idx[d] \in M!Indices /\ d \in M!AllThreads /\ d # Null
    BY <1>1, MpmcKnows
  <2>2. ~Filled(idx[d])
    BY <1>c, <1>1, <2>1, MpmcKnows DEF CellsHold
  <2> QED BY <1>c, <2>1, <2>2 DEF WaitersKnown
<1>3. /\ mpmc_pc'[d] = "wait" /\ ~Taken(d)' /\ Taking(d)' /\ Waits(d)'
      /\ \A u \in M!AllThreads : u # d => /\ mpmc_pc'[u] = mpmc_pc[u]
                                          /\ (Putting(u)' <=> Putting(u)) /\ (Waits(u)' <=> Waits(u))
                                          /\ (Taking(u)' <=> Taking(u)) /\ (Taken(u)' <=> Taken(u))
  BY <1>2, ControlOthers
<1>4. /\ \A u \in M!AllThreads : u # d => cv'[u] = cv[u]
      /\ \A k \in M!Indices : k # idx[d] => cell'[k] = cell[k]
      /\ cell'[idx[d]] = d
  BY <1>2 DEF MpmcTypes, DataTypes
<1>d. /\ \A f \in Enqueuers : f \in M!AllThreads /\ f # d
      /\ \A g \in Dequeuers : g \in M!AllThreads
      /\ asleep \subseteq Dequeuers /\ d \notin asleep
      /\ \A g \in Dequeuers : Waits(g) => Taking(g)
      /\ \A g \in Dequeuers : Taking(g) => idx[g] \in M!Indices
      /\ \A g \in Dequeuers : g # d /\ (Taking(g) \/ Taken(g)) => idx[g] # idx[d]
  <2>1. \A g \in Dequeuers : Waits(g) => Taking(g)
    BY DEF Waits, Taking
  <2>2. \A g \in Dequeuers : g # d /\ (Taking(g) \/ Taken(g)) => idx[g] # idx[d]
    BY <1>c, <1>1 DEF IndicesOnce
  <2>3. d \notin asleep
    BY <1>c DEF WaitersKnown
  <2> QED BY <2>1, <2>2, <2>3, MpmcKnows
<1>5. \A f \in Enqueuers : mpmc_pc'[f] = mpmc_pc[f] /\ (Putting(f)' <=> Putting(f)) /\ cv'[f] = cv[f]
  BY <1>d, <1>3, <1>4
<1>6. \A k : Filled(k)' <=> Filled(k)
  BY <1>5 DEF Filled
<1>7. IndicesOnce'
  <2>1. \A g \in Dequeuers : Taking(g)' \/ Taken(g)' => (Taking(g) \/ Taken(g)) /\ (g \in alive => g \in alive')
    BY <1>d, <1>1, <1>3
  <2> QED BY <1>c, <1>5, <2>1, IndicesKept
<1>8. CellsHold'
  <2>1. ASSUME NEW k \in M!Indices, ~Filled(k)', cell'[k] # Null
        PROVE  cell'[k] \in Dequeuers /\ idx'[cell'[k]] = k /\ mpmc_pc'[cell'[k]] \in {"wait", "compare"} /\ futex'[cell'[k]] = 1
    <3>1. CASE k = idx[d]
      BY <1>2, <1>3, <1>4, <3>1
    <3>2. CASE k # idx[d]
      <4>1. cell'[k] = cell[k] /\ cell[k] \in Dequeuers /\ idx[cell[k]] = k /\ Waits(cell[k]) /\ futex[cell[k]] = 1
        BY <1>c, <1>4, <1>6, <2>1, <3>2 DEF CellsHold
      <4> QED BY <1>d, <1>1, <1>3, <4>1 DEF Waits
    <3> QED BY <3>1, <3>2
  <2>2. \A k \in M!Indices : Filled(k)' /\ pop_index' <= k => cell'[k] = putAt'[k]
    BY <1>c, <1>2, <1>4, <1>6 DEF CellsHold
  <2>3. ASSUME NEW g \in Dequeuers, Taking(g)', Filled(idx[g])' PROVE cell'[idx'[g]] = putAt'[idx'[g]]
    <3>1. g # d /\ Taking(g) /\ Filled(idx[g])
      BY <1>d, <1>2, <1>3, <1>6, <2>3
    <3>2. idx[g] # idx[d] /\ idx[g] \in M!Indices /\ cell[idx[g]] = putAt[idx[g]]
      BY <1>c, <1>d, <3>1 DEF CellsHold
    <3> QED BY <1>4, <3>2
  <2> QED BY <2>1, <2>2, <2>3 DEF CellsHold, Waits
<1>9. WaitersKnown'
  <2>1. \A g \in Dequeuers : g # d /\ Waits(g)' => Waits(g) /\ idx[g] # idx[d] /\ idx[g] \in M!Indices
    BY <1>d, <1>3
  <2>2. \A g \in Dequeuers : Waits(g)' /\ ~Filled(idx[g])' => cell'[idx'[g]] = g /\ futex'[g] = 1
    BY <1>c, <1>2, <1>4, <1>6, <2>1 DEF WaitersKnown
  <2>3. \A g \in Dequeuers : Waits(g)' /\ Filled(idx[g])' /\ futex'[g] = 1 => \E f \in Enqueuers : mpmc_pc'[f] = "clear" /\ cv'[f] = g
    BY <1>c, <1>2, <1>5, <1>6, <2>1 DEF WaitersKnown
  <2>4. ASSUME NEW f \in Enqueuers, mpmc_pc'[f] = "clear"
        PROVE  cv'[f] \in Dequeuers /\ Waits(cv[f])' /\ futex'[cv'[f]] = 1 /\ Filled(idx[cv[f]])'
    <3>2. cv'[f] = cv[f] /\ cv[f] \in Dequeuers /\ Waits(cv[f]) /\ futex[cv[f]] = 1 /\ Filled(idx[cv[f]]) /\ cv[f] # d
      BY <1>c, <1>1, <1>5, <2>4 DEF WaitersKnown
    <3>3. mpmc_pc'[cv'[f]] \in {"wait", "compare"}
      BY <1>d, <1>3, <3>2 DEF Waits
    <3> QED BY <1>6, <3>2, <3>3 DEF Waits
  <2>5. \A f, h \in Enqueuers : mpmc_pc'[f] = "clear" /\ mpmc_pc'[h] = "clear" /\ cv'[f] = cv'[h] => f = h
    BY <1>c, <1>5 DEF WaitersKnown
  <2>6. \A g \in Dequeuers : mpmc_pc'[g] \in {"find", "spin"} => futex'[g] = 1
    BY <1>c, <1>d, <1>3 DEF WaitersKnown
  <2>7. ASSUME NEW g \in asleep PROVE mpmc_pc'[g] = "compare" /\ (futex'[g] = 0 => \E f \in Enqueuers : mpmc_pc'[f] = "wake" /\ cv'[f] = g)
    <3>1. mpmc_pc[g] = "compare" /\ (futex[g] = 0 => \E f \in Enqueuers : mpmc_pc[f] = "wake" /\ cv[f] = g) /\ g # d /\ g \in Dequeuers
      BY <1>c, <1>d, <2>7 DEF WaitersKnown
    <3> QED BY <1>d, <1>3, <1>5, <3>1
  <2> QED BY <2>2, <2>3, <2>4, <2>5, <2>6, <2>7 DEF WaitersKnown
<1>10. ValuesOnce'
  <2>1. \A g \in Dequeuers : Taken(g)' => Taken(g) /\ g # d
    BY <1>d, <1>3
  <2>2. \A g \in Dequeuers : Taking(g)' \/ Taken(g)' => Taking(g) \/ Taken(g)
    BY <1>d, <1>1, <1>3
  <2>3. \A g \in Dequeuers : Taken(g)' => cv'[g] = putAt'[idx'[g]] /\ cv'[g] \in M!Values
    BY <1>c, <1>d, <1>4, <2>1 DEF ValuesOnce
  <2> QED BY <1>c, <2>2, <2>3 DEF ValuesOnce
<1> QED BY <1>7, <1>8, <1>9, <1>10 DEF CellsInv


LEMMA WaitGoesOn ==
  ASSUME MpmcTypes, CellsInv, NEW d \in Dequeuers, Waits(d), d \notin asleep, NEW c \in {"wait", "compare"},
         UNCHANGED <<put_index, pop_index, cell, left, idx, alive, futex, putAt, received, cv>>,
         mpmc_pc' = [mpmc_pc EXCEPT ![d] = c],
         asleep' = asleep \/ (asleep' = asleep \cup {d} /\ c = "compare" /\ futex[d] = 1)
  PROVE  CellsInv'
<1>c. IndicesOnce /\ CellsHold /\ WaitersKnown /\ ValuesOnce
  BY MpmcKnows
<1>1. Taking(d) /\ ~Taken(d) /\ d \in M!AllThreads
  BY MpmcKnows DEF Taking, Waits, Taken
<1>3. /\ mpmc_pc'[d] = c /\ ~Taken(d)' /\ Taking(d)' /\ Waits(d)'
      /\ \A u \in M!AllThreads : u # d => /\ mpmc_pc'[u] = mpmc_pc[u]
                                          /\ (Putting(u)' <=> Putting(u)) /\ (Waits(u)' <=> Waits(u))
                                          /\ (Taking(u)' <=> Taking(u)) /\ (Taken(u)' <=> Taken(u))
  BY <1>1, ControlOthers
<1>d. /\ \A f \in Enqueuers : f \in M!AllThreads /\ f # d
      /\ \A g \in Dequeuers : g \in M!AllThreads
      /\ asleep \subseteq Dequeuers
  BY MpmcKnows
<1>4. /\ \A g \in Dequeuers : (Waits(g)' <=> Waits(g)) /\ (Taking(g)' <=> Taking(g)) /\ (Taken(g)' <=> Taken(g))
      /\ \A f \in Enqueuers : mpmc_pc'[f] = mpmc_pc[f] /\ (Putting(f)' <=> Putting(f))
  BY <1>d, <1>1, <1>3
<1>6. \A k : Filled(k)' <=> Filled(k)
  BY <1>4 DEF Filled
<1>7. IndicesOnce'
  BY <1>c, <1>4, IndicesKept
<1>8. CellsHold'
  <2>1. \A k \in M!Indices : ~Filled(k)' /\ cell'[k] # Null =>
           cell'[k] \in Dequeuers /\ idx'[cell'[k]] = k /\ mpmc_pc'[cell'[k]] \in {"wait", "compare"} /\ futex'[cell'[k]] = 1
    BY <1>c, <1>4, <1>6 DEF CellsHold, Waits
  <2>2. \A k \in M!Indices : Filled(k)' /\ pop_index' <= k => cell'[k] = putAt'[k]
    BY <1>c, <1>6 DEF CellsHold
  <2>3. \A g \in Dequeuers : Taking(g)' /\ Filled(idx[g])' => cell'[idx'[g]] = putAt'[idx'[g]]
    BY <1>c, <1>4, <1>6 DEF CellsHold
  <2> QED BY <2>1, <2>2, <2>3 DEF CellsHold, Waits
<1>9. WaitersKnown'
  <2>2. \A g \in Dequeuers : Waits(g)' /\ ~Filled(idx[g])' => cell'[idx'[g]] = g /\ futex'[g] = 1
    BY <1>c, <1>4, <1>6 DEF WaitersKnown
  <2>3. \A g \in Dequeuers : Waits(g)' /\ Filled(idx[g])' /\ futex'[g] = 1 => \E f \in Enqueuers : mpmc_pc'[f] = "clear" /\ cv'[f] = g
    BY <1>c, <1>4, <1>6 DEF WaitersKnown
  <2>4. ASSUME NEW f \in Enqueuers, mpmc_pc'[f] = "clear"
        PROVE  cv'[f] \in Dequeuers /\ Waits(cv[f])' /\ futex'[cv'[f]] = 1 /\ Filled(idx[cv[f]])'
    <3>2. cv'[f] = cv[f] /\ cv[f] \in Dequeuers /\ Waits(cv[f]) /\ futex[cv[f]] = 1 /\ Filled(idx[cv[f]])
      BY <1>c, <1>4, <2>4 DEF WaitersKnown
    <3>3. mpmc_pc'[cv'[f]] \in {"wait", "compare"}
      BY <1>4, <3>2 DEF Waits
    <3> QED BY <1>6, <3>2, <3>3 DEF Waits
  <2>5. \A f, h \in Enqueuers : mpmc_pc'[f] = "clear" /\ mpmc_pc'[h] = "clear" /\ cv'[f] = cv'[h] => f = h
    BY <1>c, <1>4 DEF WaitersKnown
  <2>6. \A g \in Dequeuers : mpmc_pc'[g] \in {"find", "spin"} => futex'[g] = 1
    BY <1>c, <1>d, <1>3 DEF WaitersKnown
  <2>7. ASSUME NEW g \in asleep' PROVE mpmc_pc'[g] = "compare" /\ (futex'[g] = 0 => \E f \in Enqueuers : mpmc_pc'[f] = "wake" /\ cv'[f] = g)
    <3>1. CASE g = d
      BY <1>3, <2>7, <3>1
    <3>2. CASE g # d
      <4>1. g \in asleep /\ g \in Dequeuers
        BY <1>d, <2>7, <3>2
      <4>2. mpmc_pc[g] = "compare" /\ (futex[g] = 0 => \E f \in Enqueuers : mpmc_pc[f] = "wake" /\ cv[f] = g)
        BY <1>c, <4>1 DEF WaitersKnown
      <4> QED BY <1>d, <1>3, <1>4, <3>2, <4>1, <4>2
    <3> QED BY <3>1, <3>2
  <2> QED BY <2>2, <2>3, <2>4, <2>5, <2>6, <2>7 DEF WaitersKnown
<1>10. ValuesOnce'
  BY <1>c, <1>4 DEF ValuesOnce
<1> QED BY <1>7, <1>8, <1>9, <1>10 DEF CellsInv

LEMMA ReturnIsFirst ==
  ASSUME MpmcTypes, CellsInv, NEW d \in Dequeuers, Taken(d)
  PROVE  cv[d] \in M!Values /\ received[cv[d]] = 0 /\ idx[d] \in M!Indices /\ putAt[idx[d]] = cv[d] /\ idx[d] < pop_index /\ idx[d] < put_index
<1>c. IndicesOnce /\ CellsHold /\ WaitersKnown /\ ValuesOnce
  BY MpmcKnows
<1>1. cv[d] \in M!Values /\ idx[d] \in M!Indices /\ putAt[idx[d]] = cv[d] /\ idx[d] < pop_index /\ idx[d] < put_index
  BY <1>c, MpmcKnows DEF ValuesOnce, IndicesOnce
<1>2. ASSUME received[cv[d]] = 1 PROVE FALSE
  <2>1. PICK k \in M!Indices : k < pop_index /\ k < put_index /\ putAt[k] = cv[d] /\ \A g \in Dequeuers : Taking(g) \/ Taken(g) => idx[g] # k
    BY <1>c, <1>1, <1>2 DEF ValuesOnce
  <2>2. k = idx[d]
    BY <1>c, <1>1, <2>1 DEF IndicesOnce
  <2> QED BY <2>1, <2>2
<1>3. received[cv[d]] \in {0, 1}
  BY <1>1 DEF MpmcTypes, DataTypes
<1> QED BY <1>1, <1>2, <1>3

LEMMA DequeueReturns == ASSUME MpmcTypes, CellsInv, NEW d \in Dequeuers, M!Return(d) PROVE CellsInv'
<1>c. IndicesOnce /\ CellsHold /\ WaitersKnown /\ ValuesOnce
  BY MpmcKnows
<1>1. /\ UNCHANGED <<put_index, pop_index, cell, left, idx, cv, futex, asleep, putAt>> /\ mpmc_pc[d] = "return" /\ d \notin asleep
      /\ mpmc_pc' = [mpmc_pc EXCEPT ![d] = "idle"] /\ alive' = alive \ {d}
      /\ received' = [received EXCEPT ![cv[d]] = received[cv[d]] + 1]
  BY DEF M!Return, M!Goto, M!list, M!local
<1>2. /\ d \in M!AllThreads /\ Taken(d) /\ ~Taking(d) /\ ~Waits(d)
  BY <1>1, MpmcKnows DEF Taking, Waits, Taken
<1>r. cv[d] \in M!Values /\ received[cv[d]] = 0 /\ idx[d] \in M!Indices /\ putAt[idx[d]] = cv[d] /\ idx[d] < pop_index /\ idx[d] < put_index
  BY <1>2, ReturnIsFirst
<1>3. /\ mpmc_pc'[d] = "idle" /\ ~Taken(d)' /\ ~Taking(d)' /\ ~Waits(d)'
      /\ \A u \in M!AllThreads : u # d => /\ mpmc_pc'[u] = mpmc_pc[u]
                                          /\ (Putting(u)' <=> Putting(u)) /\ (Waits(u)' <=> Waits(u))
                                          /\ (Taking(u)' <=> Taking(u)) /\ (Taken(u)' <=> Taken(u))
  BY <1>1, <1>2, ControlOthers
<1>d. /\ \A f \in Enqueuers : f \in M!AllThreads /\ f # d
      /\ \A g \in Dequeuers : g \in M!AllThreads
      /\ asleep \subseteq Dequeuers
  BY MpmcKnows
<1>4. /\ \A g \in Dequeuers : (Waits(g)' <=> Waits(g)) /\ (Taking(g)' <=> Taking(g)) /\ (Taken(g)' <=> (Taken(g) /\ g # d))
      /\ \A f \in Enqueuers : mpmc_pc'[f] = mpmc_pc[f] /\ (Putting(f)' <=> Putting(f))
  BY <1>d, <1>2, <1>3
<1>6. \A k : Filled(k)' <=> Filled(k)
  BY <1>1, <1>4 DEF Filled
<1>7. IndicesOnce'
  <2>1. \A g \in Dequeuers : Taking(g)' \/ Taken(g)' => (Taking(g) \/ Taken(g)) /\ (g \in alive => g \in alive')
    BY <1>1, <1>2, <1>4
  <2>2. \A f \in Enqueuers : Putting(f)' => Putting(f) /\ cv'[f] = cv[f]
    BY <1>1, <1>4
  <2> QED BY <1>c, <1>1, <2>1, <2>2, IndicesKept
<1>8. CellsHold'
  <2>1. \A k \in M!Indices : ~Filled(k)' /\ cell'[k] # Null =>
           cell'[k] \in Dequeuers /\ idx'[cell'[k]] = k /\ mpmc_pc'[cell'[k]] \in {"wait", "compare"} /\ futex'[cell'[k]] = 1
    BY <1>c, <1>1, <1>4, <1>6 DEF CellsHold, Waits
  <2>2. \A k \in M!Indices : Filled(k)' /\ pop_index' <= k => cell'[k] = putAt'[k]
    BY <1>c, <1>1, <1>6 DEF CellsHold
  <2>3. \A g \in Dequeuers : Taking(g)' /\ Filled(idx[g])' => cell'[idx'[g]] = putAt'[idx'[g]]
    BY <1>c, <1>1, <1>4, <1>6 DEF CellsHold
  <2> QED BY <2>1, <2>2, <2>3 DEF CellsHold, Waits
<1>9. WaitersKnown'
  <2>2. \A g \in Dequeuers : Waits(g)' /\ ~Filled(idx[g])' => cell'[idx'[g]] = g /\ futex'[g] = 1
    BY <1>c, <1>1, <1>4, <1>6 DEF WaitersKnown
  <2>3. \A g \in Dequeuers : Waits(g)' /\ Filled(idx[g])' /\ futex'[g] = 1 => \E f \in Enqueuers : mpmc_pc'[f] = "clear" /\ cv'[f] = g
    BY <1>c, <1>1, <1>4, <1>6 DEF WaitersKnown
  <2>4. ASSUME NEW f \in Enqueuers, mpmc_pc'[f] = "clear"
        PROVE  cv'[f] \in Dequeuers /\ Waits(cv[f])' /\ futex'[cv'[f]] = 1 /\ Filled(idx[cv[f]])'
    <3>2. cv'[f] = cv[f] /\ cv[f] \in Dequeuers /\ Waits(cv[f]) /\ futex[cv[f]] = 1 /\ Filled(idx[cv[f]])
      BY <1>c, <1>1, <1>4, <2>4 DEF WaitersKnown
    <3>3. mpmc_pc'[cv'[f]] \in {"wait", "compare"}
      BY <1>4, <3>2 DEF Waits
    <3> QED BY <1>1, <1>6, <3>2, <3>3 DEF Waits
  <2>5. \A f, h \in Enqueuers : mpmc_pc'[f] = "clear" /\ mpmc_pc'[h] = "clear" /\ cv'[f] = cv'[h] => f = h
    BY <1>c, <1>1, <1>4 DEF WaitersKnown
  <2>6. \A g \in Dequeuers : mpmc_pc'[g] \in {"find", "spin"} => futex'[g] = 1
    BY <1>c, <1>d, <1>1, <1>3 DEF WaitersKnown
  <2>7. ASSUME NEW g \in asleep PROVE mpmc_pc'[g] = "compare" /\ (futex'[g] = 0 => \E f \in Enqueuers : mpmc_pc'[f] = "wake" /\ cv'[f] = g)
    <3>1. mpmc_pc[g] = "compare" /\ (futex[g] = 0 => \E f \in Enqueuers : mpmc_pc[f] = "wake" /\ cv[f] = g) /\ g # d /\ g \in Dequeuers
      BY <1>c, <1>d, <1>1, <2>7 DEF WaitersKnown
    <3> QED BY <1>d, <1>1, <1>3, <1>4, <3>1
  <2> QED BY <1>1, <2>2, <2>3, <2>4, <2>5, <2>6, <2>7 DEF WaitersKnown
<1>10. ValuesOnce'
  <2>1. \A g \in Dequeuers : Taken(g)' => cv'[g] = putAt'[idx'[g]] /\ cv'[g] \in M!Values
    BY <1>c, <1>1, <1>4 DEF ValuesOnce
  <2>2. ASSUME NEW v \in M!Values, received'[v] = 1
        PROVE  \E k \in M!Indices : /\ k < pop_index' /\ k < put_index' /\ putAt'[k] = v
                                    /\ \A g \in Dequeuers : Taking(g)' \/ Taken(g)' => idx'[g] # k
    <3>1. CASE v = cv[d]
      <4>1. \A g \in Dequeuers : g # d /\ (Taking(g) \/ Taken(g)) => idx[g] # idx[d]
        BY <1>c, <1>2 DEF IndicesOnce
      <4>2. \A g \in Dequeuers : Taking(g)' \/ Taken(g)' => idx'[g] # idx[d]
        BY <1>1, <1>2, <1>4, <4>1
      <4> QED BY <1>1, <1>r, <3>1, <4>2
    <3>2. CASE v # cv[d]
      <4>1. received[v] = 1
        BY <1>1, <2>2, <3>2 DEF MpmcTypes, DataTypes
      <4>2. PICK k \in M!Indices : k < pop_index /\ k < put_index /\ putAt[k] = v /\ \A g \in Dequeuers : Taking(g) \/ Taken(g) => idx[g] # k
        BY <1>c, <4>1 DEF ValuesOnce
      <4> QED BY <1>1, <1>4, <4>2
    <3> QED BY <3>1, <3>2
  <2> QED BY <2>1, <2>2 DEF ValuesOnce
<1> QED BY <1>7, <1>8, <1>9, <1>10 DEF CellsInv


\* The steps of mpmc_dequeue up to its value.
LEMMA DequeueWorks ==
  ASSUME MpmcTypes, CellsInv, NEW d \in Dequeuers, M!SpinHit(d) \/ M!SpinEnds(d) \/ M!FutexWait(d) \/ M!FutexCompare(d)
  PROVE  CellsInv' /\ idx[d] \in M!Indices
<1>0. d \in M!AllThreads /\ Taking(d) /\ idx[d] \in M!Indices
  <2>1. Taking(d)
    BY DEF M!SpinHit, M!SpinEnds, M!FutexWait, M!FutexCompare, M!Goto, Taking
  <2> QED BY <2>1, MpmcKnows
<1>c. cv \in [M!AllThreads -> M!Values \cup Dequeuers \cup {Null}]
  BY DEF MpmcTypes, DataTypes
<1>1. CASE M!SpinHit(d)
  <2>1. /\ UNCHANGED <<put_index, pop_index, cell, left, idx, alive, futex, asleep, putAt, received>> /\ d \notin asleep /\ mpmc_pc[d] = "spin"
        /\ mpmc_pc' = [mpmc_pc EXCEPT ![d] = "over"] /\ cv' = [cv EXCEPT ![d] = cell[idx[d]]] /\ cell[idx[d]] # Null
    BY <1>1 DEF M!SpinHit, M!Goto, M!list, M!sleep, M!history
  <2>2. ~Waits(d)
    BY <2>1 DEF Waits
  <2>3. Filled(idx[d])
    BY <2>1, CellFinds
  <2> QED BY <1>0, <2>1, <2>2, <2>3, ValueTaken
<1>2. CASE M!SpinEnds(d)
  <2>1. /\ UNCHANGED <<put_index, pop_index, left, idx, alive, futex, asleep, putAt, received>> /\ d \notin asleep /\ mpmc_pc[d] = "spin"
        /\ mpmc_pc' = [mpmc_pc EXCEPT ![d] = IF cell[idx[d]] = Null THEN "wait" ELSE "over"]
        /\ cv' = [cv EXCEPT ![d] = cell[idx[d]]] /\ cell' = [cell EXCEPT ![idx[d]] = d]
    BY <1>2 DEF M!SpinEnds, M!Goto, M!sleep, M!history
  <2>2. ~Waits(d)
    BY <2>1 DEF Waits
  <2>3. CASE cell[idx[d]] = Null
    BY <1>0, <2>1, <2>3, WaitBegins
  <2>4. CASE cell[idx[d]] # Null
    <3>1. Filled(idx[d]) /\ mpmc_pc' = [mpmc_pc EXCEPT ![d] = "over"]
      BY <2>1, <2>4, CellFinds
    <3> QED BY <1>0, <2>1, <2>2, <3>1, ValueTaken
  <2> QED BY <2>3, <2>4
<1>3. CASE M!FutexWait(d)
  <2>1. /\ UNCHANGED <<put_index, pop_index, cell, left, idx, alive, futex, putAt, received, cv>> /\ d \notin asleep /\ mpmc_pc[d] = "wait"
        /\ mpmc_pc' = [mpmc_pc EXCEPT ![d] = "compare"] /\ asleep' = IF futex[d] = 1 THEN asleep \cup {d} ELSE asleep
    BY <1>3 DEF M!FutexWait, M!Goto, M!list, M!local, M!history
  <2>2. Waits(d)
    BY <2>1 DEF Waits
  <2> QED BY <1>0, <2>1, <2>2, WaitGoesOn
<1>4. CASE M!FutexCompare(d)
  <2>1. /\ UNCHANGED <<put_index, pop_index, cell, left, idx, alive, futex, asleep, putAt, received>> /\ d \notin asleep /\ mpmc_pc[d] = "compare"
        /\ mpmc_pc' = [mpmc_pc EXCEPT ![d] = IF futex[d] = 1 THEN "wait" ELSE "over"]
        /\ cv' = [cv EXCEPT ![d] = IF futex[d] = 1 THEN cv[d] ELSE cell[idx[d]]]
    BY <1>0, <1>4, <1>c DEF M!FutexCompare, M!Goto, M!list, M!sleep, M!history
  <2>2. Waits(d)
    BY <2>1 DEF Waits
  <2>3. CASE futex[d] = 1
    <3>1. cv' = cv /\ mpmc_pc' = [mpmc_pc EXCEPT ![d] = "wait"]
      BY <1>0, <1>c, <2>1, <2>3
    <3> QED BY <1>0, <2>1, <2>2, <3>1, WaitGoesOn
  <2>4. CASE futex[d] # 1
    <3>1. Filled(idx[d])
      BY <2>2, <2>4 DEF CellsInv, WaitersKnown
    <3>2. mpmc_pc' = [mpmc_pc EXCEPT ![d] = "over"] /\ cv' = [cv EXCEPT ![d] = cell[idx[d]]]
      BY <2>1, <2>4
    <3> QED BY <1>0, <2>1, <2>4, <3>1, <3>2, ValueTaken
  <2> QED BY <2>3, <2>4
<1> QED BY <1>0, <1>1, <1>2, <1>3, <1>4

\* The steps of reclaiming have nothing to do with the cells.
LEMMA ReclaimLeavesCells ==
  ASSUME MpmcTypes, CellsInv, NEW d \in Dequeuers,
         \/ M!TryReclaim(d) \/ M!NoReclaim(d) \/ M!LockReclaim(d) \/ M!ScanDone(d) \/ M!FreeNode(d)
         \/ \E h \in M!AllThreads : M!Scan(d, h)
  PROVE  CellsInv'
<1> DEFINE c == mpmc_pc'[d]
<1>0. d \in M!AllThreads
  BY MpmcSets
<1>1. /\ UNCHANGED <<put_index, pop_index, cell, left, idx, cv, futex, alive, asleep, putAt, received>>
      /\ mpmc_pc[d] \in {"over", "lock", "scan", "free"}
      /\ mpmc_pc' = [mpmc_pc EXCEPT ![d] = c] /\ c \in {"lock", "scan", "free", "return"}
  <2> USE DEF M!list, M!local, M!sleep, M!history, M!reclaim, M!Goto
  <2>1. CASE M!TryReclaim(d)
    BY <1>0, <2>1 DEF M!TryReclaim, MpmcTypes
  <2>2. CASE M!NoReclaim(d)
    BY <1>0, <2>2 DEF M!NoReclaim, MpmcTypes
  <2>3. CASE M!LockReclaim(d)
    BY <1>0, <2>3 DEF M!LockReclaim, MpmcTypes
  <2>4. CASE M!ScanDone(d)
    BY <1>0, <2>4 DEF M!ScanDone, MpmcTypes
  <2>5. CASE M!FreeNode(d)
    BY <1>0, <2>5 DEF M!FreeNode, MpmcTypes
  <2>6. CASE \E h \in M!AllThreads : M!Scan(d, h)
    BY <1>0, <2>6 DEF M!Scan, MpmcTypes
  <2> QED BY <2>1, <2>2, <2>3, <2>4, <2>5, <2>6
<1> HIDE DEF c
<1>2. ~Putting(d) /\ ~Waits(d) /\ ~Taking(d) /\ Taken(d)
  BY <1>1 DEF Putting, Waits, Taking, Taken
<1>3. /\ mpmc_pc'[d] = c /\ ~Putting(d)' /\ ~Waits(d)' /\ ~Taking(d)' /\ Taken(d)'
      /\ \A u \in M!AllThreads : u # d => /\ mpmc_pc'[u] = mpmc_pc[u]
                                          /\ (Putting(u)' <=> Putting(u)) /\ (Waits(u)' <=> Waits(u))
                                          /\ (Taking(u)' <=> Taking(u)) /\ (Taken(u)' <=> Taken(u))
  BY <1>0, <1>1, ControlOthers
<1>4. \A t \in M!AllThreads : /\ (Putting(t)' <=> Putting(t)) /\ (Waits(t)' <=> Waits(t))
                              /\ (Taking(t)' <=> Taking(t)) /\ (Taken(t)' <=> Taken(t))
  BY <1>2, <1>3
<1>5. /\ \A t \in M!AllThreads : mpmc_pc'[t] \in {"find", "spin"} => mpmc_pc[t] \in {"find", "spin"}
      /\ \A t \in M!AllThreads : mpmc_pc'[t] \in {"clear", "wake", "compare"} \/ mpmc_pc[t] \in {"clear", "wake", "compare"} =>
                                    mpmc_pc'[t] = mpmc_pc[t]
  BY <1>1, <1>3
<1> QED BY <1>1, <1>4, <1>5, CellsKept

LEMMA WalkLeavesCells ==
  ASSUME MpmcTypes, CellsInv, NEW t \in M!AllThreads, M!Register(t) \/ M!NextNode(t) \/ M!FoundCell(t)
  PROVE  CellsInv'
<1> DEFINE c == mpmc_pc'[t]
<1>1. /\ UNCHANGED <<put_index, pop_index, cell, left, idx, cv, futex, alive, asleep, putAt, received>>
      /\ mpmc_pc' = [mpmc_pc EXCEPT ![t] = c]
      /\ \/ mpmc_pc[t] = "register" /\ c = "idle"
         \/ mpmc_pc[t] = "find" /\ c = "find"
         \/ mpmc_pc[t] = "find" /\ c = "put" /\ t \in Enqueuers
         \/ mpmc_pc[t] = "find" /\ c = "spin" /\ t \in Dequeuers
  <2> USE DEF M!list, M!local, M!sleep, M!history, M!reclaim, M!Goto
  <2>0. t \in Enqueuers \/ t \in Dequeuers
    BY MpmcSets
  <2>1. CASE M!Register(t)
    BY <2>1 DEF M!Register, MpmcTypes
  <2>2. CASE M!NextNode(t)
    BY <2>2 DEF M!NextNode, MpmcTypes
  <2>3. CASE M!FoundCell(t)
    BY <2>0, <2>3 DEF M!FoundCell, MpmcTypes
  <2> QED BY <2>1, <2>2, <2>3
<1> HIDE DEF c
<1>2. \A u \in M!AllThreads : u # t => /\ mpmc_pc'[u] = mpmc_pc[u]
                                       /\ (Putting(u)' <=> Putting(u)) /\ (Waits(u)' <=> Waits(u))
                                       /\ (Taking(u)' <=> Taking(u)) /\ (Taken(u)' <=> Taken(u))
  BY <1>1, ControlOthers
<1>c. IndicesOnce /\ CellsHold /\ WaitersKnown /\ ValuesOnce
  BY MpmcKnows
<1>0. /\ \A f \in Enqueuers : f \in M!AllThreads /\ f \notin Dequeuers
      /\ \A g \in Dequeuers : g \in M!AllThreads /\ g \notin Enqueuers
      /\ asleep \subseteq Dequeuers
  BY MpmcKnows
<1>3. mpmc_pc'[t] = c
  BY <1>1, ControlOthers
<1>4. \A e \in Enqueuers : /\ (Putting(e)' <=> Putting(e))
                           /\ (mpmc_pc'[e] = "clear" <=> mpmc_pc[e] = "clear") /\ (mpmc_pc'[e] = "wake" <=> mpmc_pc[e] = "wake")
  BY <1>0, <1>1, <1>2, <1>3 DEF Putting
<1>5. \A d \in Dequeuers : /\ (Waits(d)' <=> Waits(d)) /\ (Taking(d)' <=> Taking(d)) /\ (Taken(d)' <=> Taken(d))
                           /\ (mpmc_pc'[d] = "compare" <=> mpmc_pc[d] = "compare")
                           /\ (mpmc_pc'[d] \in {"find", "spin"} <=> mpmc_pc[d] \in {"find", "spin"})
  BY <1>0, <1>1, <1>2, <1>3 DEF Waits, Taking, Taken
<1>6. \A k : Filled(k)' <=> Filled(k)
  BY <1>1, <1>4 DEF Filled
<1>7. IndicesOnce'
  BY <1>c, <1>1, <1>4, <1>5, IndicesKept
<1>8. CellsHold'
  <2>1. \A k \in M!Indices : ~Filled(k)' /\ cell'[k] # Null =>
           cell'[k] \in Dequeuers /\ idx'[cell'[k]] = k /\ mpmc_pc'[cell'[k]] \in {"wait", "compare"} /\ futex'[cell'[k]] = 1
    BY <1>c, <1>1, <1>5, <1>6 DEF CellsHold, Waits
  <2>2. \A k \in M!Indices : Filled(k)' /\ pop_index' <= k => cell'[k] = putAt'[k]
    BY <1>c, <1>1, <1>6 DEF CellsHold
  <2>3. \A g \in Dequeuers : Taking(g)' /\ Filled(idx[g])' => cell'[idx'[g]] = putAt'[idx'[g]]
    BY <1>c, <1>1, <1>5, <1>6 DEF CellsHold
  <2> QED BY <2>1, <2>2, <2>3 DEF CellsHold, Waits
<1>9. WaitersKnown'
  <2>2. \A g \in Dequeuers : Waits(g)' /\ ~Filled(idx[g])' => cell'[idx'[g]] = g /\ futex'[g] = 1
    BY <1>c, <1>1, <1>5, <1>6 DEF WaitersKnown
  <2>3. \A g \in Dequeuers : Waits(g)' /\ Filled(idx[g])' /\ futex'[g] = 1 => \E f \in Enqueuers : mpmc_pc'[f] = "clear" /\ cv'[f] = g
    BY <1>c, <1>1, <1>4, <1>5, <1>6 DEF WaitersKnown
  <2>4. ASSUME NEW f \in Enqueuers, mpmc_pc'[f] = "clear"
        PROVE  cv'[f] \in Dequeuers /\ Waits(cv[f])' /\ futex'[cv'[f]] = 1 /\ Filled(idx[cv[f]])'
    <3>2. cv'[f] = cv[f] /\ cv[f] \in Dequeuers /\ Waits(cv[f]) /\ futex[cv[f]] = 1 /\ Filled(idx[cv[f]])
      BY <1>c, <1>1, <1>4, <2>4 DEF WaitersKnown
    <3>3. mpmc_pc'[cv'[f]] \in {"wait", "compare"}
      BY <1>5, <3>2 DEF Waits
    <3> QED BY <1>1, <1>6, <3>2, <3>3 DEF Waits
  <2>5. \A f, h \in Enqueuers : mpmc_pc'[f] = "clear" /\ mpmc_pc'[h] = "clear" /\ cv'[f] = cv'[h] => f = h
    BY <1>c, <1>1, <1>4 DEF WaitersKnown
  <2>6. \A g \in Dequeuers : mpmc_pc'[g] \in {"find", "spin"} => futex'[g] = 1
    BY <1>c, <1>1, <1>5 DEF WaitersKnown
  <2>7. ASSUME NEW g \in asleep PROVE mpmc_pc'[g] = "compare" /\ (futex'[g] = 0 => \E f \in Enqueuers : mpmc_pc'[f] = "wake" /\ cv'[f] = g)
    <3>1. mpmc_pc[g] = "compare" /\ (futex[g] = 0 => \E f \in Enqueuers : mpmc_pc[f] = "wake" /\ cv[f] = g) /\ g \in Dequeuers
      BY <1>c, <1>0, <2>7 DEF WaitersKnown
    <3> QED BY <1>1, <1>4, <1>5, <3>1
  <2> QED BY <1>1, <2>2, <2>3, <2>4, <2>5, <2>6, <2>7 DEF WaitersKnown
<1>10. ValuesOnce'
  BY <1>c, <1>1, <1>5 DEF ValuesOnce
<1> QED BY <1>7, <1>8, <1>9, <1>10 DEF CellsInv


-----------------------------------------------------------------------------
LEMMA MpmcInit == M!Init => MpmcInv
<1> SUFFICES ASSUME M!Init PROVE MpmcInv
  OBVIOUS
<1> USE DEF M!Init
<1>0. /\ \A t \in M!AllThreads : mpmc_pc[t] = "register" /\ handle[t] = 0
      /\ \A e \in Enqueuers : e \in M!AllThreads /\ left[e] = PerEnq
      /\ \A d \in Dequeuers : d \in M!AllThreads /\ left[d] = PerDeq
      /\ PerEnq \in Nat /\ PerDeq \in Nat
  BY MpmcSets, MpmcAssumption
<1>1. MpmcTypes
  <2>1. left \in [M!AllThreads -> Nat]
    BY <1>0
  <2> QED BY <1>0, <2>1 DEF MpmcTypes, DataTypes, EnqControl, DeqControl
<1>2. NodesInv
  <2>0. /\ init_node = 0 /\ init_id = 0 /\ mpmc_freed = {}
        /\ \A d \in Dequeuers : mpmc_pc[d] = "register"
    BY <1>0
  <2> HIDE DEF M!Init
  <2>1. HandlesAhead
    BY <1>0, <2>0 DEF HandlesAhead
  <2>2. OneScans
    BY <2>0 DEF OneScans
  <2>3. RangesApart
    BY <2>0 DEF RangesApart
  <2> QED BY <2>1, <2>2, <2>3 DEF NodesInv
<1>3. /\ \A e \in Enqueuers : ~Putting(e) /\ mpmc_pc[e] # "clear"
      /\ \A d \in Dequeuers : ~Taking(d) /\ ~Taken(d) /\ ~Waits(d) /\ mpmc_pc[d] \notin {"find", "spin"}
  BY <1>0 DEF Putting, Taking, Taken, Waits
<1>4. PutsBegun = {} /\ PopsBegun = {}
  <2> HIDE DEF M!Init
  <2>1. ASSUME NEW v \in Enqueuers \X (1 .. PerEnq) PROVE ~(v[2] <= PerEnq - left[v[1]])
    <3>1. v[1] \in Enqueuers /\ v[2] \in 1 .. PerEnq
      OBVIOUS
    <3>2. left[v[1]] = PerEnq
      BY <1>0, <3>1
    <3> QED BY <1>0, <3>1, <3>2
  <2>2. ASSUME NEW v \in Dequeuers \X (1 .. PerDeq) PROVE ~(v[2] <= PerDeq - left[v[1]])
    <3>1. v[1] \in Dequeuers /\ v[2] \in 1 .. PerDeq
      OBVIOUS
    <3>2. left[v[1]] = PerDeq
      BY <1>0, <3>1
    <3> QED BY <1>0, <3>1, <3>2
  <2> QED BY <2>1, <2>2 DEF PutsBegun, PopsBegun
<1>5. \A k \in M!Indices : ~Filled(k) /\ ~(k < put_index) /\ putAt[k] = Null /\ cell[k] = Null
  BY MpmcSets DEF Filled
<1>6. IndicesOnce
  <2>1. Cardinality({}) = 0
    BY FS_EmptySet
  <2>2. Cardinality(PutsBegun) = 0 /\ Cardinality(PopsBegun) = 0
    BY <1>4, <2>1
  <2> QED BY <1>0, <1>3, <1>5, <2>2 DEF IndicesOnce
<1>7. CellsHold
  BY <1>3, <1>5 DEF CellsHold
<1>8. WaitersKnown
  BY <1>3 DEF WaitersKnown
<1>9. ValuesOnce
  BY <1>3 DEF ValuesOnce
<1> QED BY <1>1, <1>2, <1>6, <1>7, <1>8, <1>9 DEF MpmcInv, CellsInv

LEMMA MpmcMoves ==
  ASSUME MpmcTypes, M!Next
  PROVE  \E t \in M!AllThreads : \E c : /\ mpmc_pc' = [mpmc_pc EXCEPT ![t] = c]
                                        /\ t \in Enqueuers => c \in EnqControl
                                        /\ t \in Dequeuers => c \in DeqControl
<1> USE DEF M!Goto, EnqControl, DeqControl
<1>1. ASSUME NEW t \in M!AllThreads, M!Register(t) \/ M!Start(t) \/ M!NextNode(t) \/ M!FoundCell(t)
      PROVE  \E c : /\ mpmc_pc' = [mpmc_pc EXCEPT ![t] = c]
                    /\ t \in Enqueuers => c \in EnqControl
                    /\ t \in Dequeuers => c \in DeqControl
  <2>1. CASE M!FoundCell(t)
    BY <2>1, MpmcSets DEF M!FoundCell
  <2>2. CASE ~M!FoundCell(t)
    BY <1>1, <2>2 DEF M!Register, M!Start, M!NextNode
  <2> QED BY <2>1, <2>2
<1>2. ASSUME NEW e \in Enqueuers, M!PutCell(e) \/ M!ClearFutex(e) \/ M!WakeFutex(e)
      PROVE  \E c : mpmc_pc' = [mpmc_pc EXCEPT ![e] = c] /\ c \in EnqControl
  BY <1>2 DEF M!PutCell, M!ClearFutex, M!WakeFutex
<1>3. ASSUME NEW d \in Dequeuers, M!SpinHit(d) \/ M!SpinEnds(d) \/ M!FutexWait(d) \/ M!FutexCompare(d) \/ M!Return(d)
      PROVE  \E c : mpmc_pc' = [mpmc_pc EXCEPT ![d] = c] /\ c \in DeqControl
  BY <1>3 DEF M!SpinHit, M!SpinEnds, M!FutexWait, M!FutexCompare, M!Return
<1>4. ASSUME NEW d \in Dequeuers,
             \/ M!TryReclaim(d) \/ M!NoReclaim(d) \/ M!LockReclaim(d) \/ M!ScanDone(d) \/ M!FreeNode(d)
             \/ \E h \in M!AllThreads : M!Scan(d, h)
      PROVE  \E c : mpmc_pc' = [mpmc_pc EXCEPT ![d] = c] /\ c \in DeqControl
  BY <1>4 DEF M!TryReclaim, M!NoReclaim, M!LockReclaim, M!ScanDone, M!FreeNode, M!Scan
<1> HIDE DEF EnqControl, DeqControl
<1> QED BY <1>1, <1>2, <1>3, <1>4, MpmcActions, MpmcSets

LEMMA MpmcStep == MpmcInv /\ [M!Next]_(M!vars) => MpmcInv'
<1> SUFFICES ASSUME MpmcInv, [M!Next]_(M!vars) PROVE MpmcInv'
  OBVIOUS
<1>0. MpmcTypes /\ NodesInv /\ CellsInv /\ IndicesOnce /\ WaitersKnown
  BY DEF MpmcInv, CellsInv
<1>1. CASE M!Next
  <2>1. ASSUME NEW t \in M!AllThreads, M!Register(t) \/ M!Start(t) \/ M!NextNode(t) \/ M!FoundCell(t)
        PROVE  DataTypes' /\ NodesInv' /\ CellsInv'
    <3>1. t \in Enqueuers \/ t \in Dequeuers
      BY MpmcSets
    <3>2. CellsInv'
      BY <1>0, <2>1, <3>1, EnqueueBegins, DequeueBegins, WalkLeavesCells
    <3> QED BY <1>0, <2>1, <3>2, CommonTypes, HandleMoves
  <2>2. ASSUME NEW e \in Enqueuers, M!PutCell(e) \/ M!ClearFutex(e) \/ M!WakeFutex(e)
        PROVE  DataTypes' /\ NodesInv' /\ CellsInv'
    <3>0. e \in M!AllThreads
      BY MpmcSets
    <3>1. UNCHANGED <<handle, curr, init_node, init_id, rid, min, todo, mpmc_freed>>
      BY <2>2 DEF M!PutCell, M!ClearFutex, M!WakeFutex, M!reclaim, M!list, M!local
    <3>2. \A t \in M!AllThreads : mpmc_pc'[t] \in {"register", "find", "lock", "scan", "free"} => mpmc_pc'[t] = mpmc_pc[t]
      BY <1>0, <2>2, <3>0 DEF M!PutCell, M!ClearFutex, M!WakeFutex, M!Goto, MpmcTypes
    <3>3. NodesInv'
      BY <1>0, <3>1, <3>2, NodesKept
    <3>4. CellsInv'
      BY <1>0, <2>2, CellFilled, FutexCleared, FutexWoken
    <3> QED BY <1>0, <2>2, <3>3, <3>4, EnqueueTypes
  <2>3. ASSUME NEW d \in Dequeuers, M!SpinHit(d) \/ M!SpinEnds(d) \/ M!FutexWait(d) \/ M!FutexCompare(d) \/ M!Return(d)
        PROVE  DataTypes' /\ NodesInv' /\ CellsInv'
    <3>0. d \in M!AllThreads
      BY MpmcSets
    <3>1. UNCHANGED <<handle, curr, init_node, init_id, rid, min, todo, mpmc_freed>>
      BY <2>3 DEF M!SpinHit, M!SpinEnds, M!FutexWait, M!FutexCompare, M!Return, M!reclaim, M!list, M!local
    <3>2. \A t \in M!AllThreads : mpmc_pc'[t] \in {"register", "find", "lock", "scan", "free"} => mpmc_pc'[t] = mpmc_pc[t]
      BY <1>0, <2>3, <3>0 DEF M!SpinHit, M!SpinEnds, M!FutexWait, M!FutexCompare, M!Return, M!Goto, MpmcTypes
    <3>3. NodesInv'
      BY <1>0, <3>1, <3>2, NodesKept
    <3>4. CASE M!Return(d)
      <4>1. Taken(d)
        BY <3>4 DEF M!Return, M!Goto, Taken
      <4> QED BY <1>0, <3>3, <3>4, <4>1, ReturnIsFirst, ReturnTypes, DequeueReturns
    <3>5. CASE ~M!Return(d)
      BY <1>0, <2>3, <3>3, <3>5, DequeueWorks, DequeueTypes
    <3> QED BY <3>4, <3>5
  <2>4. ASSUME NEW d \in Dequeuers,
               \/ M!TryReclaim(d) \/ M!NoReclaim(d) \/ M!LockReclaim(d) \/ M!ScanDone(d) \/ M!FreeNode(d)
               \/ \E h \in M!AllThreads : M!Scan(d, h)
        PROVE  DataTypes' /\ NodesInv' /\ CellsInv'
    <3>1. DataTypes' /\ CellsInv'
      BY <1>0, <2>4, ReclaimTypes, ReclaimLeavesCells
    <3>2. CASE M!NoReclaim(d)
      <4>0. d \in M!AllThreads
        BY MpmcSets
      <4>1. UNCHANGED <<handle, curr, init_node, init_id, rid, min, todo, mpmc_freed>>
        BY <3>2 DEF M!NoReclaim, M!reclaim, M!list, M!local
      <4>2. \A t \in M!AllThreads : mpmc_pc'[t] \in {"register", "find", "lock", "scan", "free"} => mpmc_pc'[t] = mpmc_pc[t]
        BY <1>0, <3>2, <4>0 DEF M!NoReclaim, M!Goto, MpmcTypes
      <4> QED BY <1>0, <3>1, <4>1, <4>2, NodesKept
    <3>3. CASE ~M!NoReclaim(d)
      BY <1>0, <2>4, <3>1, <3>3, ReclaimerMoves
    <3> QED BY <3>2, <3>3
  <2>5. DataTypes' /\ NodesInv' /\ CellsInv'
    BY <1>1, <2>1, <2>2, <2>3, <2>4, MpmcActions
  <2>6. MpmcTypes'
    BY <1>0, <1>1, <2>5, MpmcMoves, TypesTogether
  <2> QED BY <2>5, <2>6 DEF MpmcInv
<1>2. CASE UNCHANGED M!vars
  <2>1. UNCHANGED <<put_index, pop_index, cell, last, mpmc_freed, init_node, init_id, handle, mpmc_pc,
                    left, idx, curr, cv, futex, alive, asleep, rid, min, todo, putAt, received>>
    BY <1>2 DEF M!vars, M!list, M!reclaim, M!local, M!sleep, M!history
  <2>2. MpmcTypes'
    BY <1>0, <2>1 DEF MpmcTypes, DataTypes
  <2>3. NodesInv'
    BY <1>0, <2>1, NodesKept
  <2>4. CellsInv'
    <3>1. \A t \in M!AllThreads : /\ (Putting(t)' <=> Putting(t)) /\ (Waits(t)' <=> Waits(t))
                                  /\ (Taking(t)' <=> Taking(t)) /\ (Taken(t)' <=> Taken(t))
      BY <2>1 DEF Putting, Waits, Taking, Taken
    <3> QED BY <1>0, <2>1, <3>1, CellsKept
  <2> QED BY <2>2, <2>3, <2>4 DEF MpmcInv
<1> QED BY <1>1, <1>2

LEMMA MpmcGives ==
  MpmcInv => M!NoUseAfterFree /\ M!NoDoubleFree /\ M!PairedByIndex /\ M!SleeperIsKnown /\ M!ClearFindsFrame
<1> SUFFICES ASSUME MpmcInv PROVE M!NoUseAfterFree /\ M!NoDoubleFree /\ M!PairedByIndex /\ M!SleeperIsKnown /\ M!ClearFindsFrame
  OBVIOUS
<1>0. MpmcTypes /\ HandlesAhead /\ OneScans /\ RangesApart /\ CellsInv
  BY DEF MpmcInv, NodesInv
<1>c. IndicesOnce /\ CellsHold /\ WaitersKnown /\ ValuesOnce
  BY <1>0, MpmcKnows
<1>t. /\ handle \in [M!AllThreads -> Nat] /\ curr \in [M!AllThreads -> Nat] /\ min \in [Dequeuers -> Int] /\ init_node \in Nat
      /\ mpmc_freed \subseteq Nat /\ rid \in [Dequeuers -> Int]
  BY <1>0 DEF MpmcTypes, DataTypes
<1>1. M!NoUseAfterFree
  <2>1. \A n \in Int : n \in mpmc_freed => n < init_node
    BY <1>0 DEF RangesApart
  <2>2. \A t \in M!AllThreads : init_node <= handle[t] /\ (mpmc_pc[t] = "find" => init_node <= curr[t])
    BY <1>0, <1>t DEF HandlesAhead
  <2>3. \A d \in Dequeuers : mpmc_pc[d] = "scan" => init_node <= min[d]
    BY <1>0 DEF OneScans
  <2>4. init_node \notin mpmc_freed
    BY <1>t, <2>1
  <2>5. \A t \in M!AllThreads : handle[t] \notin mpmc_freed /\ (mpmc_pc[t] = "find" => curr[t] \notin mpmc_freed)
    BY <1>t, <2>1, <2>2
  <2>6. \A d \in Dequeuers : mpmc_pc[d] = "scan" => min[d] \notin mpmc_freed
    BY <1>t, <2>1, <2>3
  <2> QED BY <2>4, <2>5, <2>6 DEF M!NoUseAfterFree
<1>2. M!NoDoubleFree
  <2>1. ASSUME NEW d \in Dequeuers, mpmc_pc[d] = "free", NEW n \in rid[d] .. min[d] - 1 PROVE n \notin mpmc_freed
    <3>1. ASSUME n \in mpmc_freed PROVE FALSE
      <4>1. n < rid[d] \/ min[d] <= n
        BY <1>0, <2>1, <3>1 DEF RangesApart
      <4> QED BY <1>t, <2>1, <4>1
    <3> QED BY <3>1
  <2>2. ASSUME NEW d \in Dequeuers, NEW g \in Dequeuers \ {d}, mpmc_pc[d] = "free", mpmc_pc[g] = "free"
        PROVE  (rid[d] .. min[d] - 1) \cap (rid[g] .. min[g] - 1) = {}
    <3>1. min[d] <= rid[g] \/ min[g] <= rid[d]
      BY <1>0, <2>2 DEF RangesApart
    <3> QED BY <1>t, <2>2, <3>1
  <2> QED BY <2>1, <2>2 DEF M!NoDoubleFree
<1>3. M!PairedByIndex
  <2>1. \A d \in Dequeuers : Taken(d) => cv[d] = putAt[idx[d]] /\ cv[d] # Null
    BY <1>c, MpmcSets DEF ValuesOnce
  <2>2. \A v \in M!Values : received[v] <= 1
    BY <1>0 DEF MpmcTypes, DataTypes
  <2> QED BY <2>1, <2>2 DEF M!PairedByIndex, Taken
<1>4. M!SleeperIsKnown
  <2> SUFFICES ASSUME NEW d \in asleep
               PROVE  cell[idx[d]] = d \/ \E e \in Enqueuers : mpmc_pc[e] \in {"clear", "wake"} /\ cv[e] = d
    BY DEF M!SleeperIsKnown
  <2>1. d \in Dequeuers /\ mpmc_pc[d] = "compare" /\ (futex[d] = 0 => \E e \in Enqueuers : mpmc_pc[e] = "wake" /\ cv[e] = d) /\ futex[d] \in {0, 1}
    BY <1>0, <1>c DEF WaitersKnown, MpmcTypes, DataTypes
  <2>2. Waits(d)
    BY <2>1 DEF Waits
  <2> QED BY <1>c, <2>1, <2>2 DEF WaitersKnown
<1>5. M!ClearFindsFrame
  <2> SUFFICES ASSUME NEW e \in Enqueuers, mpmc_pc[e] = "clear" PROVE cv[e] \in alive /\ futex[cv[e]] = 1
    BY DEF M!ClearFindsFrame
  <2>1. cv[e] \in Dequeuers /\ Waits(cv[e]) /\ futex[cv[e]] = 1
    BY <1>c DEF WaitersKnown
  <2>2. Taking(cv[e])
    BY <2>1 DEF Waits, Taking
  <2> QED BY <1>c, <2>1, <2>2 DEF IndicesOnce
<1> QED BY <1>1, <1>2, <1>3, <1>4, <1>5

-----------------------------------------------------------------------------
(* The composed specification *)

ReclaimInv ==
    /\ program = "mpmc"    => MpmcInv
    /\ program = "mpsc"    => QueueInv
    /\ program = "rcu"     => RcuInv
    /\ program = "hp_list" => DomainInv

LEMMA ReclaimAlways == ReclaimSpec => []ReclaimInv
<1>1. ReclaimInit => ReclaimInv
  <2> SUFFICES ASSUME ReclaimInit PROVE ReclaimInv
    OBVIOUS
  <2>1. M!Init /\ S!Init /\ U!Init /\ H!Init
    BY DEF ReclaimInit
  <2> QED BY <2>1, MpmcInit, QueueInit, RcuInit, DomainInit DEF ReclaimInv
<1>2. ASSUME ReclaimInv, [ReclaimNext]_<<program, vars, qsbr, rcu, mpmc, mpsc, dom, cmap>> PROVE ReclaimInv'
  <2>1. /\ program' = program
        /\ program = "mpmc" => [M!Next]_mpmc
        /\ program = "mpsc" => [S!Next]_mpsc
        /\ program = "rcu" => [U!Next]_rcu
        /\ program = "hp_list" => [H!Next]_dom
    BY <1>2 DEF ReclaimNext
  <2>2. CASE program = "mpmc"
    <3>1. [M!Next]_(M!vars)
      BY <2>1, <2>2 DEF mpmc, M!vars, M!list, M!reclaim, M!local, M!sleep, M!history
    <3> QED BY <1>2, <2>1, <2>2, <3>1, MpmcStep DEF ReclaimInv
  <2>3. CASE program = "mpsc"
    <3>1. [S!Next]_(S!vars)
      BY <2>1, <2>3 DEF mpsc, S!vars
    <3> QED BY <1>2, <2>1, <2>3, <3>1, QueueStep DEF ReclaimInv
  <2>4. CASE program = "rcu"
    <3>1. [U!Next]_(U!vars)
      BY <2>1, <2>4 DEF rcu, U!vars, U!shared, U!test, U!reader, U!upd
    <3> QED BY <1>2, <2>1, <2>4, <3>1, RcuStep DEF ReclaimInv
  <2>5. CASE program = "hp_list"
    <3>1. [H!Next]_(H!vars)
      BY <2>1, <2>5 DEF dom, H!vars
    <3> QED BY <1>2, <2>1, <2>5, <3>1, DomainStep DEF ReclaimInv
  <2> QED BY <2>1, <2>2, <2>3, <2>4, <2>5 DEF ReclaimInv
<1> QED BY <1>1, <1>2, PTL DEF ReclaimSpec

\* NodesAreSafe: for any number of threads, operations, values, updates and cells of a
\* node, mpmc_dequeue and queue_pop reclaim no node that a thread has still to touch, and
\* mpmc_dequeue none twice; synchronize_rcu waits for a reader whose bit was stored while
\* the index was the one it had loaded; cleanup frees a config once and while no reader
\* uses it, and drop finds its pointer in the list.
THEOREM ReclaimedNodesAreSafe == ReclaimSpec => []NodesAreSafe
<1>1. ReclaimInv => NodesAreSafe
  BY MpmcGives, QueueGives, RcuGives, DomainGives DEF ReclaimInv, NodesAreSafe
<1> QED BY <1>1, ReclaimAlways, PTL

\* ValuesInOrder: whatever the interleaving of any number of producers and consumers, a
\* mpmc_dequeue returns the value that was enqueued with its index and no value is returned
\* twice; queue_pop returns the values in the order in which queue_push exchanged tail, and
\* the queue is empty when all are consumed.
THEOREM ValuesComeInOrder == ReclaimSpec => []ValuesInOrder
<1>1. ReclaimInv => ValuesInOrder
  BY MpmcGives, QueueGives DEF ReclaimInv, ValuesInOrder
<1> QED BY <1>1, ReclaimAlways, PTL

\* SleeperIsServed: no wake-up is lost, for any number of enqueuers and dequeuers. A
\* dequeuer asleep on its futex is named by its cell or by an enqueuer that has still to
\* wake it, and mpmc_enqueue writes to a futex word only while its dequeue waits.
THEOREM SleepersAreServed == ReclaimSpec => []SleeperIsServed
<1>1. ReclaimInv => SleeperIsServed
  BY MpmcGives DEF ReclaimInv, SleeperIsServed
<1> QED BY <1>1, ReclaimAlways, PTL
=============================================================================
