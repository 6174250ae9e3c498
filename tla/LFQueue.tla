------------------------------- MODULE LFQueue -------------------------------
(***************************************************************************)
(* The lock-free queue with hazard pointers of lf-queue/lfq.c:             *)
(* lfq_enqueue, lfq_dequeue_tid, and the reclamation of nodes by safe_free,*)
(* insert_pool and free_pool.                                              *)
(*                                                                         *)
(* One action per access to shared memory.  A node is named by the item it *)
(* was allocated for (Dummy: the first node of the queue, PoolNode: that   *)
(* of the free list) and is not allocated again.  next and free_next share *)
(* their memory (a union): both are the function next here.                *)
(***************************************************************************)
EXTENDS Naturals, Sequences, FiniteSets

CONSTANTS
    Producers, Consumers,   \* a consumer is its tid
    Total,                  \* items 1 .. Total are enqueued
    MaxDequeues,            \* bound: calls of lfq_dequeue_tid per consumer
    MaxFree,                \* MAX_FREE
    Dummy, PoolNode, Null

Items == 1 .. Total
Nodes == Items \cup {Dummy, PoolNode}

VARIABLES
    head, tail, next, can_free, HP, fph, fpt, is_freeing,
    freed,              \* history: how often each node was freed
    item,               \* the next item to enqueue
    ppc, ptail, pnode,  \* a producer
    pc, old, new, ret, calls,   \* a consumer in lfq_dequeue_tid
    todo, pool, count,  \* a consumer that frees: hazard pointers to visit,
                        \* node of the free list, nodes freed in this call
    order, returned,    \* histories: items in the order of enqueueing; how
                        \* often each one was returned
    settled             \* history: per call, how many items had been enqueued

queue   == <<head, tail, next, can_free>>
freeing == <<fph, fpt, is_freeing, freed>>
prod    == <<item, ppc, ptail, pnode, order>>
deq     == <<old, new, ret, calls, returned, settled>>
free    == <<todo, pool, count>>
vars    == <<queue, HP, freeing, prod, pc, deq, free>>

\* lfq_init.
Init ==
    /\ head = Dummy /\ tail = Dummy
    /\ next = [n \in Nodes |-> Null]
    /\ can_free = [n \in Nodes |-> n \in {Dummy, PoolNode}]
    /\ HP = [c \in Consumers |-> Null]
    /\ fph = PoolNode /\ fpt = PoolNode
    /\ is_freeing = FALSE
    /\ freed = [n \in Nodes |-> 0]
    /\ item = 1
    /\ ppc = [p \in Producers |-> "idle"]
    /\ ptail = [p \in Producers |-> Null] /\ pnode = [p \in Producers |-> Null]
    /\ pc = [c \in Consumers |-> "idle"]
    /\ old = [c \in Consumers |-> Null] /\ new = [c \in Consumers |-> Null]
    /\ ret = [c \in Consumers |-> Null]
    /\ calls = [c \in Consumers |-> 0]
    /\ todo = [c \in Consumers |-> {}] /\ pool = [c \in Consumers |-> Null]
    /\ count = [c \in Consumers |-> 0]
    /\ order = << >>
    /\ returned = [i \in Items |-> 0]
    /\ settled = [c \in Consumers |-> 0]

Goto(c, from, to) == pc[c] = from /\ pc' = [pc EXCEPT ![c] = to]

-----------------------------------------------------------------------------
(* lfq_enqueue *)

PGoto(p, from, to) == ppc[p] = from /\ ppc' = [ppc EXCEPT ![p] = to]

\* Mutant: tail is read and not moved.
EnqSwap_Load(p) ==
    /\ item <= Total
    /\ PGoto(p, "idle", "link")
    /\ item' = item + 1
    /\ pnode' = [pnode EXCEPT ![p] = item]
    /\ ptail' = [ptail EXCEPT ![p] = tail]
    /\ order' = Append(order, item)
    /\ UNCHANGED <<head, tail, next, can_free, HP, freeing, pc, deq, free>>

EnqSwap(p) ==
    /\ item <= Total
    /\ PGoto(p, "idle", "link")
    /\ item' = item + 1
    /\ pnode' = [pnode EXCEPT ![p] = item]
    /\ ptail' = [ptail EXCEPT ![p] = tail]
    /\ tail' = item
    /\ order' = Append(order, item)
    /\ UNCHANGED <<head, next, can_free, HP, freeing, pc, deq, free>>

EnqLink(p) ==
    /\ PGoto(p, "link", "idle")
    /\ next' = [next EXCEPT ![ptail[p]] = pnode[p]]
    /\ UNCHANGED <<head, tail, can_free, HP, freeing, item, ptail, pnode, order, pc, deq, free>>

-----------------------------------------------------------------------------
(* lfq_dequeue_tid *)

\* Items whose enqueue has returned, counted from the front of the order.
Enqueued ==
    Cardinality({k \in 1 .. Len(order) :
        \A j \in 1 .. k : ~\E p \in Producers : ppc[p] = "link" /\ pnode[p] = order[j]})

DeqCall(c) ==
    /\ calls[c] < MaxDequeues
    /\ Goto(c, "idle", "head")
    /\ calls' = [calls EXCEPT ![c] = @ + 1]
    /\ settled' = [settled EXCEPT ![c] = Enqueued]
    /\ UNCHANGED <<queue, HP, freeing, prod, old, new, ret, returned, free>>

LoadHead(c) ==
    /\ Goto(c, "head", "sethp")
    /\ old' = [old EXCEPT ![c] = head]
    /\ UNCHANGED <<queue, HP, freeing, prod, new, ret, calls, returned, settled, free>>

SetHP(c) ==
    /\ Goto(c, "sethp", "validate")
    /\ HP' = [HP EXCEPT ![c] = old[c]]
    /\ UNCHANGED <<queue, freeing, prod, deq, free>>

\* Mutant: head is not read again after the hazard pointer is set.
Validate_Missing(c) ==
    /\ Goto(c, "validate", "next")
    /\ UNCHANGED <<queue, HP, freeing, prod, deq, free>>

\* "another thread freed it before seeing our HP[tid] store"
Validate(c) ==
    /\ Goto(c, "validate", IF head = old[c] THEN "next" ELSE "head")
    /\ UNCHANGED <<queue, HP, freeing, prod, deq, free>>

LoadNext(c) ==
    /\ Goto(c, "next", IF next[old[c]] = Null THEN "empty" ELSE "cas")
    /\ new' = [new EXCEPT ![c] = next[old[c]]]
    /\ UNCHANGED <<queue, HP, freeing, prod, old, ret, calls, returned, settled, free>>

ReturnEmpty(c) ==
    /\ Goto(c, "empty", "idle")
    /\ HP' = [HP EXCEPT ![c] = Null]
    /\ UNCHANGED <<queue, freeing, prod, deq, free>>

\* Mutant: a store instead of the compare-and-exchange.
CasHead_Store(c) ==
    /\ Goto(c, "cas", "clearhp")
    /\ head' = new[c]
    /\ UNCHANGED <<tail, next, can_free, HP, freeing, prod, deq, free>>

CasHead(c) ==
    /\ \/ /\ head = old[c]
          /\ Goto(c, "cas", "clearhp")
          /\ head' = new[c]
       \/ /\ head # old[c]
          /\ Goto(c, "cas", "head")
          /\ UNCHANGED head
    /\ UNCHANGED <<tail, next, can_free, HP, freeing, prod, deq, free>>

ClearHP(c) ==
    /\ Goto(c, "clearhp", "data")
    /\ HP' = [HP EXCEPT ![c] = Null]
    /\ UNCHANGED <<queue, freeing, prod, deq, free>>

\* The data of the new head, which is protected by can_free only.
ReadData(c) ==
    /\ Goto(c, "data", "canfree")
    /\ ret' = [ret EXCEPT ![c] = new[c]]
    /\ returned' = [returned EXCEPT ![new[c]] = @ + 1]
    /\ UNCHANGED <<queue, HP, freeing, prod, old, new, calls, settled, free>>

SetCanFree(c) ==
    /\ Goto(c, "canfree", "safe")
    /\ can_free' = [can_free EXCEPT ![new[c]] = TRUE]
    /\ UNCHANGED <<head, tail, next, HP, freeing, prod, deq, free>>

-----------------------------------------------------------------------------
(* safe_free of the old head *)

SafeFree(c) ==
    /\ Goto(c, "safe", IF can_free[old[c]] THEN "inhp" ELSE "pool_null")
    /\ todo' = [todo EXCEPT ![c] = Consumers]
    /\ UNCHANGED <<queue, HP, freeing, prod, deq, pool, count>>

\* in_hp visits the hazard pointers one by one, for node n: found or not.
Visit(c, h, from, n, found, notfound) ==
    /\ h \in todo[c]
    /\ Goto(c, from, IF HP[h] = n THEN found ELSE IF todo[c] = {h} THEN notfound ELSE from)
    /\ todo' = [todo EXCEPT ![c] = @ \ {h}]
    /\ UNCHANGED <<queue, HP, freeing, prod, deq, pool, count>>

InHP(c, h) == Visit(c, h, "inhp", old[c], "pool_null", "trylock")

TryLock(c) ==
    /\ Goto(c, "trylock", IF is_freeing THEN "pool_null" ELSE "free")
    /\ is_freeing' = TRUE
    /\ UNCHANGED <<queue, HP, fph, fpt, freed, prod, deq, free>>

FreeNow(c) ==
    /\ Goto(c, "free", "unlock")
    /\ freed' = [freed EXCEPT ![old[c]] = @ + 1]
    /\ UNCHANGED <<queue, HP, fph, fpt, is_freeing, prod, deq, free>>

Unlock(c) ==
    /\ Goto(c, "unlock", "fp_lock")
    /\ is_freeing' = FALSE
    /\ UNCHANGED <<queue, HP, fph, fpt, freed, prod, deq, free>>

-----------------------------------------------------------------------------
(* insert_pool *)

\* free_next = NULL: next of the node is NULL from now on.
PoolNull(c) ==
    /\ Goto(c, "pool_null", "pool_swap")
    /\ next' = [next EXCEPT ![old[c]] = Null]
    /\ UNCHANGED <<head, tail, can_free, HP, freeing, prod, deq, free>>

PoolSwap(c) ==
    /\ Goto(c, "pool_swap", "pool_link")
    /\ pool' = [pool EXCEPT ![c] = fpt]
    /\ fpt' = old[c]
    /\ UNCHANGED <<queue, HP, fph, is_freeing, freed, prod, deq, todo, count>>

PoolLink(c) ==
    /\ Goto(c, "pool_link", "fp_lock")
    /\ next' = [next EXCEPT ![pool[c]] = old[c]]
    /\ UNCHANGED <<head, tail, can_free, HP, freeing, prod, deq, free>>

-----------------------------------------------------------------------------
(* free_pool *)

\* Mutant: two threads free from the list at the same time.
PoolLock_Ignored(c) ==
    /\ Goto(c, "fp_lock", "fp_check")
    /\ is_freeing' = TRUE
    /\ count' = [count EXCEPT ![c] = 0]
    /\ UNCHANGED <<queue, HP, fph, fpt, freed, prod, deq, todo, pool>>

PoolLock(c) ==
    /\ Goto(c, "fp_lock", IF is_freeing THEN "return" ELSE "fp_check")
    /\ is_freeing' = TRUE
    /\ count' = [count EXCEPT ![c] = 0]
    /\ UNCHANGED <<queue, HP, fph, fpt, freed, prod, deq, todo, pool>>

\* Mutant: frees the last node of the free list too.
PoolCheck_NoNext(c) ==
    /\ Goto(c, "fp_check",
            IF count[c] < MaxFree /\ can_free[fph] THEN "fp_inhp" ELSE "fp_unlock")
    /\ pool' = [pool EXCEPT ![c] = fph]
    /\ todo' = [todo EXCEPT ![c] = Consumers]
    /\ UNCHANGED <<queue, HP, freeing, prod, deq, count>>

PoolCheck(c) ==
    /\ Goto(c, "fp_check",
            IF count[c] < MaxFree /\ can_free[fph] /\ next[fph] # Null
            THEN "fp_inhp" ELSE "fp_unlock")
    /\ pool' = [pool EXCEPT ![c] = fph]
    /\ todo' = [todo EXCEPT ![c] = Consumers]
    /\ UNCHANGED <<queue, HP, freeing, prod, deq, count>>

PoolInHP(c, h) == Visit(c, h, "fp_inhp", pool[c], "fp_unlock", "fp_free")

PoolFree(c) ==
    /\ Goto(c, "fp_free", "fp_check")
    /\ fph' = next[pool[c]]
    /\ freed' = [freed EXCEPT ![pool[c]] = @ + 1]
    /\ count' = [count EXCEPT ![c] = @ + 1]
    /\ UNCHANGED <<queue, HP, fpt, is_freeing, prod, deq, todo, pool>>

PoolUnlock(c) ==
    /\ Goto(c, "fp_unlock", "return")
    /\ is_freeing' = FALSE
    /\ UNCHANGED <<queue, HP, fph, fpt, freed, prod, deq, free>>

Return(c) ==
    /\ Goto(c, "return", "idle")
    /\ UNCHANGED <<queue, HP, freeing, prod, deq, free>>

-----------------------------------------------------------------------------
Enqueue(p) == EnqSwap(p) \/ EnqLink(p)
Dequeue(c) ==
    \/ DeqCall(c) \/ LoadHead(c) \/ SetHP(c) \/ Validate(c) \/ LoadNext(c) \/ ReturnEmpty(c)
    \/ CasHead(c) \/ ClearHP(c) \/ ReadData(c) \/ SetCanFree(c)
Reclaim(c) ==
    \/ SafeFree(c) \/ (\E h \in Consumers : InHP(c, h) \/ PoolInHP(c, h)) \/ TryLock(c)
    \/ FreeNow(c) \/ Unlock(c) \/ PoolNull(c) \/ PoolSwap(c) \/ PoolLink(c)
    \/ PoolLock(c) \/ PoolCheck(c) \/ PoolFree(c) \/ PoolUnlock(c) \/ Return(c)

Next ==
    \/ \E p \in Producers : Enqueue(p)
    \/ \E c \in Consumers : Dequeue(c) \/ Reclaim(c)

Spec == Init /\ [][Next]_vars

-----------------------------------------------------------------------------
TypeOK ==
    /\ head \in Nodes /\ tail \in Nodes /\ fph \in Nodes /\ fpt \in Nodes
    /\ next \in [Nodes -> Nodes \cup {Null}]
    /\ can_free \in [Nodes -> BOOLEAN]
    /\ HP \in [Consumers -> Nodes \cup {Null}]
    /\ freed \in [Nodes -> Nat] /\ returned \in [Items -> Nat]

IsFreed(n) == n \in Nodes /\ freed[n] > 0

\* No thread touches a node after it was freed: not the consumer that loads
\* next of a head it has validated, not the one that still reads the data of a
\* head that others have already dequeued, not a producer that links behind
\* the old tail, not the threads that work on the free list.
NoUseAfterFree ==
    /\ \A c \in Consumers :
         /\ pc[c] = "next" => ~IsFreed(old[c])
         /\ pc[c] \in {"data", "canfree"} => ~IsFreed(new[c])
         /\ pc[c] \in {"safe", "free", "pool_null"} => ~IsFreed(old[c])
         /\ pc[c] \in {"pool_link", "fp_free"} => ~IsFreed(pool[c])
    /\ \A p \in Producers : ppc[p] = "link" => ~IsFreed(ptail[p])
    /\ ~IsFreed(head) /\ ~IsFreed(tail) /\ ~IsFreed(fph) /\ ~IsFreed(fpt)

\* A node is freed at most once.
FreedOnce == \A n \in Nodes : freed[n] <= 1

\* The items come out in the order in which they went in, each once: those
\* returned (or about to be) are the ones up to head.
TakenInOrder ==
    \A k \in 1 .. Len(order) :
        LET i == order[k]
            passed == head # Dummy /\ \E j \in k .. Len(order) : order[j] = head
        IN  returned[i] + Cardinality({c \in Consumers : pc[c] \in {"clearhp", "data"}
                                                          /\ new[c] = i})
            = IF passed THEN 1 ELSE 0

\* The assertion of lfq_enqueue: next of the old tail is still NULL.
TailIsLast == \A p \in Producers : ppc[p] = "link" => next[ptail[p]] = Null

\* "Return zero if empty queue": lfq_dequeue_tid returns NULL only if all items
\* whose enqueue had returned before the call have been taken, or if others have
\* moved head on meanwhile: then the node may be in the pool, where free_next has
\* overwritten its next.
EmptyIsReal ==
    \A c \in Consumers : pc[c] = "empty" /\ head = old[c] =>
        \A k \in 1 .. settled[c] : \E j \in k .. Len(order) : order[j] = head
=============================================================================
