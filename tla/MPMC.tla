--------------------------------- MODULE MPMC ---------------------------------
(***************************************************************************)
(* The blocking multi-producer multi-consumer queue of mpmc/mpmc.c:        *)
(* mpmc_enqueue and mpmc_dequeue with the linked list of cell arrays,      *)
(* their registration, and the reclamation of arrays that every thread has *)
(* left behind.                                                            *)
(*                                                                         *)
(* An array (node) is named by its id: node j holds the cells of indices   *)
(* j * N .. j * N + N - 1.  A node that a thread keeps in reserve (spare)  *)
(* is private to it and is not modelled.  futex_addr is a variable in the  *)
(* frame of mpmc_dequeue: alive says whether the frame exists.             *)
(***************************************************************************)
EXTENDS Integers, FiniteSets

CONSTANTS
    Enqueuers, Dequeuers,
    PerEnq, PerDeq,     \* COUNTS_PER_THREAD; as many dequeues as enqueues
    N,                  \* cells of a node
    Threshold,          \* q->threshold
    Null

AllThreads == Enqueuers \cup Dequeuers
Values  == Enqueuers \X (1 .. PerEnq)
Indices == 0 .. PerEnq * Cardinality(Enqueuers) - 1
Nodes   == 0 .. PerEnq * Cardinality(Enqueuers)

VARIABLES
    put_index, pop_index,
    cell,           \* by index: Null, a value, or the dequeuer that waits
    last,           \* id of the last node of the list
    freed,          \* ids of the nodes given to free()
    init_node, init_id,
    handle,         \* th->push of an enqueuer, th->pop of a dequeuer
    pc, left, idx, curr, cv,
    futex,          \* futex_addr of a dequeuer
    alive,          \* dequeuers whose frame exists
    asleep,         \* dequeuers asleep in futex_wait
    rid, min, todo, \* reclamation: init_index, min_node, handles to visit
    putAt,          \* history: the value enqueued with each index
    received        \* history: how often each value was dequeued

list    == <<cell, last, freed>>
reclaim == <<init_node, init_id, rid, min, todo>>
local   == <<left, idx, curr, cv>>
sleep   == <<futex, alive, asleep>>
history == <<putAt, received>>
vars == <<put_index, pop_index, list, reclaim, handle, pc, local, sleep, history>>

NodeOf(i) == i \div N

Init ==
    /\ put_index = 0 /\ pop_index = 0
    /\ cell = [i \in Indices |-> Null]
    /\ last = 0 /\ freed = {}
    /\ init_node = 0 /\ init_id = 0
    /\ handle = [t \in AllThreads |-> 0]
    /\ pc = [t \in AllThreads |-> "register"]
    /\ left = [t \in AllThreads |-> IF t \in Enqueuers THEN PerEnq ELSE PerDeq]
    /\ idx = [t \in AllThreads |-> 0]
    /\ curr = [t \in AllThreads |-> 0]
    /\ cv = [t \in AllThreads |-> Null]
    /\ futex = [d \in Dequeuers |-> 1]
    /\ alive = {} /\ asleep = {}
    /\ rid = [d \in Dequeuers |-> 0]
    /\ min = [d \in Dequeuers |-> 0]
    /\ todo = [d \in Dequeuers |-> {}]
    /\ putAt = [i \in Indices |-> Null]
    /\ received = [v \in Values |-> 0]

Goto(t, from, to) ==
    /\ pc[t] = from
    /\ t \notin asleep
    /\ pc' = [pc EXCEPT ![t] = to]

Peers(t) == IF t \in Enqueuers THEN Enqueuers ELSE Dequeuers

-----------------------------------------------------------------------------
(* mpmc_queue_register, with its barrier, and the start of an operation *)

Register(t) ==
    /\ Goto(t, "register", "idle")
    /\ handle' = [handle EXCEPT ![t] = init_node]
    /\ UNCHANGED <<put_index, pop_index, list, reclaim, local, sleep, history>>

\* The fetch-and-add of put_index or pop_index, and the load of *ptr.
Start(t) ==
    /\ left[t] > 0
    /\ \A u \in Peers(t) : pc[u] # "register"
    /\ Goto(t, "idle", "find")
    /\ left' = [left EXCEPT ![t] = @ - 1]
    /\ curr' = [curr EXCEPT ![t] = handle[t]]
    /\ \/ /\ t \in Enqueuers
          /\ idx' = [idx EXCEPT ![t] = put_index]
          /\ put_index' = put_index + 1
          /\ cv' = [cv EXCEPT ![t] = <<t, PerEnq - left[t] + 1>>]
          /\ putAt' = [putAt EXCEPT ![put_index] = cv'[t]]
          /\ UNCHANGED <<pop_index, futex, alive>>
       \/ /\ t \in Dequeuers
          /\ idx' = [idx EXCEPT ![t] = pop_index]
          /\ pop_index' = pop_index + 1
          /\ cv' = [cv EXCEPT ![t] = Null]
          /\ futex' = [futex EXCEPT ![t] = 1]
          /\ alive' = alive \cup {t}
          /\ UNCHANGED <<put_index, putAt>>
    /\ UNCHANGED <<list, reclaim, handle, asleep, received>>

-----------------------------------------------------------------------------
(* mpmc_find_cell *)

\* Mutant: appends a node without looking whether there is one.
NextNode_NoTest(t) ==
    /\ curr[t] < NodeOf(idx[t])
    /\ Goto(t, "find", "find")
    /\ curr' = [curr EXCEPT ![t] = @ + 1]
    /\ last' = last + 1
    /\ UNCHANGED <<put_index, pop_index, cell, freed, reclaim, handle, left, idx, cv,
                   sleep, history>>

\* One node further; the list grows by a node when there is none (whoever wins
\* the compare-and-exchange).
NextNode(t) ==
    /\ curr[t] < NodeOf(idx[t])
    /\ Goto(t, "find", "find")
    /\ curr' = [curr EXCEPT ![t] = @ + 1]
    /\ last' = IF curr[t] = last THEN last + 1 ELSE last
    /\ UNCHANGED <<put_index, pop_index, cell, freed, reclaim, handle, left, idx, cv,
                   sleep, history>>

\* *ptr = curr.
FoundCell(t) ==
    /\ curr[t] >= NodeOf(idx[t])
    /\ Goto(t, "find", IF t \in Enqueuers THEN "put" ELSE "spin")
    /\ handle' = [handle EXCEPT ![t] = curr[t]]
    /\ UNCHANGED <<put_index, pop_index, list, reclaim, local, sleep, history>>

-----------------------------------------------------------------------------
(* mpmc_enqueue *)

Waiter(t) == cell[idx[t]] \in Dequeuers

\* Mutant: a waiter found in the cell is not woken.
PutCell_NoWake(e) ==
    /\ Goto(e, "put", "idle")
    /\ cell' = [cell EXCEPT ![idx[e]] = cv[e]]
    /\ UNCHANGED <<put_index, pop_index, last, freed, reclaim, handle, local, sleep, history>>

PutCell(e) ==
    /\ Goto(e, "put", IF Waiter(e) THEN "clear" ELSE "idle")
    /\ cell' = [cell EXCEPT ![idx[e]] = cv[e]]
    /\ cv' = [cv EXCEPT ![e] = IF Waiter(e) THEN cell[idx[e]] ELSE @]
    /\ UNCHANGED <<put_index, pop_index, last, freed, reclaim, handle, left, idx, curr,
                   sleep, history>>

\* *cv = 0, into the frame of the dequeuer.
ClearFutex(e) ==
    /\ Goto(e, "clear", "wake")
    /\ futex' = [futex EXCEPT ![cv[e]] = 0]
    /\ UNCHANGED <<put_index, pop_index, list, reclaim, handle, local, alive, asleep, history>>

WakeFutex(e) ==
    /\ Goto(e, "wake", "idle")
    /\ asleep' = asleep \ {cv[e]}
    /\ UNCHANGED <<put_index, pop_index, list, reclaim, handle, local, futex, alive, history>>

-----------------------------------------------------------------------------
(* mpmc_dequeue *)

SpinHit(d) ==
    /\ cell[idx[d]] # Null
    /\ Goto(d, "spin", "over")
    /\ cv' = [cv EXCEPT ![d] = cell[idx[d]]]
    /\ UNCHANGED <<put_index, pop_index, list, reclaim, handle, left, idx, curr, sleep, history>>

\* The spinning ends without a value: exchange the cell for &futex_addr.
SpinEnds(d) ==
    /\ Goto(d, "spin", IF cell[idx[d]] = Null THEN "wait" ELSE "over")
    /\ cv' = [cv EXCEPT ![d] = cell[idx[d]]]
    /\ cell' = [cell EXCEPT ![idx[d]] = d]
    /\ UNCHANGED <<put_index, pop_index, last, freed, reclaim, handle, left, idx, curr,
                   sleep, history>>

\* Mutant: sleeps whatever the futex says.
FutexWait_NoTest(d) ==
    /\ Goto(d, "wait", "compare")
    /\ asleep' = asleep \cup {d}
    /\ UNCHANGED <<put_index, pop_index, list, reclaim, handle, local, futex, alive, history>>

FutexWait(d) ==
    /\ Goto(d, "wait", "compare")
    /\ asleep' = IF futex[d] = 1 THEN asleep \cup {d} ELSE asleep
    /\ UNCHANGED <<put_index, pop_index, list, reclaim, handle, local, futex, alive, history>>

\* Mutant: the value is not loaded after the wait.
FutexCompare_NoReload(d) ==
    /\ Goto(d, "compare", IF futex[d] = 1 THEN "wait" ELSE "over")
    /\ UNCHANGED <<put_index, pop_index, list, reclaim, handle, local, sleep, history>>

\* Mutant: waits for the cell instead of the futex.
FutexCompare_Cell(d) ==
    /\ Goto(d, "compare", IF cell[idx[d]] = d THEN "wait" ELSE "over")
    /\ cv' = [cv EXCEPT ![d] = IF cell[idx[d]] = d THEN @ ELSE cell[idx[d]]]
    /\ UNCHANGED <<put_index, pop_index, list, reclaim, handle, left, idx, curr, sleep, history>>

\* while (futex_addr == 1), and then the value out of the cell.
FutexCompare(d) ==
    /\ Goto(d, "compare", IF futex[d] = 1 THEN "wait" ELSE "over")
    /\ cv' = [cv EXCEPT ![d] = IF futex[d] = 1 THEN @ ELSE cell[idx[d]]]
    /\ UNCHANGED <<put_index, pop_index, list, reclaim, handle, left, idx, curr, sleep, history>>

\* Whoever took the last cell of a node may reclaim: load init_id.
TryReclaim(d) ==
    /\ idx[d] % N = N - 1
    /\ Goto(d, "over", IF handle[d] - init_id >= Threshold /\ init_id >= 0
                       THEN "lock" ELSE "return")
    /\ rid' = [rid EXCEPT ![d] = init_id]
    /\ UNCHANGED <<put_index, pop_index, list, init_node, init_id, min, todo, handle, local,
                   sleep, history>>

NoReclaim(d) ==
    /\ idx[d] % N # N - 1
    /\ Goto(d, "over", "return")
    /\ UNCHANGED <<put_index, pop_index, list, reclaim, handle, local, sleep, history>>

\* Mutant: reclaims whoever else does.
LockReclaim_NoCas(d) ==
    /\ Goto(d, "lock", "scan")
    /\ \E h \in Dequeuers :
          /\ min' = [min EXCEPT ![d] = handle[h]]
          /\ todo' = [todo EXCEPT ![d] = AllThreads \ {h}]
    /\ UNCHANGED <<put_index, pop_index, list, init_node, init_id, rid, handle, local, sleep,
                   history>>

\* init_id = -1 locks reclamation.  Then visit all handles but the own one.
LockReclaim(d) ==
    /\ Goto(d, "lock", IF init_id = rid[d] THEN "scan" ELSE "return")
    /\ IF init_id = rid[d]
       THEN \E h \in Dequeuers :
              /\ init_id' = -1
              /\ min' = [min EXCEPT ![d] = handle[h]]
              /\ todo' = [todo EXCEPT ![d] = AllThreads \ {h}]
       ELSE UNCHANGED <<init_id, min, todo>>
    /\ UNCHANGED <<put_index, pop_index, list, init_node, rid, handle, local, sleep, history>>

\* Dequeuers' pop first, then enqueuers' push; stop early when there is nothing
\* to reclaim.
Scan(d, h) ==
    /\ h \in todo[d] /\ min[d] > rid[d]
    /\ h \in Enqueuers => todo[d] \cap Dequeuers = {}
    /\ Goto(d, "scan", "scan")
    /\ min' = [min EXCEPT ![d] = IF handle[h] < @ THEN handle[h] ELSE @]
    /\ todo' = [todo EXCEPT ![d] = @ \ {h}]
    /\ UNCHANGED <<put_index, pop_index, list, init_node, init_id, rid, handle, local,
                   sleep, history>>

\* Mutant: the enqueuers' handles are not visited.
ScanDone_PopOnly(d) ==
    /\ todo[d] \cap Dequeuers = {} \/ min[d] <= rid[d]
    /\ Goto(d, "scan", IF min[d] <= rid[d] THEN "return" ELSE "free")
    /\ init_node' = IF min[d] <= rid[d] THEN init_node ELSE min[d]
    /\ init_id' = IF min[d] <= rid[d] THEN rid[d] ELSE min[d]
    /\ UNCHANGED <<put_index, pop_index, list, rid, min, todo, handle, local, sleep, history>>

\* Unlock with the old id, or with the new one and the nodes below it to free.
ScanDone(d) ==
    /\ todo[d] = {} \/ min[d] <= rid[d]
    /\ Goto(d, "scan", IF min[d] <= rid[d] THEN "return" ELSE "free")
    /\ init_node' = IF min[d] <= rid[d] THEN init_node ELSE min[d]
    /\ init_id' = IF min[d] <= rid[d] THEN rid[d] ELSE min[d]
    /\ UNCHANGED <<put_index, pop_index, list, rid, min, todo, handle, local, sleep, history>>

\* do { ... free(init_node) ... } while (init_node != min_node).
FreeNode(d) ==
    /\ Goto(d, "free", IF rid[d] + 1 = min[d] THEN "return" ELSE "free")
    /\ freed' = freed \cup {rid[d]}
    /\ rid' = [rid EXCEPT ![d] = @ + 1]
    /\ UNCHANGED <<put_index, pop_index, cell, last, init_node, init_id, min, todo, handle,
                   local, sleep, history>>

Return(d) ==
    /\ Goto(d, "return", "idle")
    /\ received' = [received EXCEPT ![cv[d]] = @ + 1]
    /\ alive' = alive \ {d}
    /\ UNCHANGED <<put_index, pop_index, list, reclaim, handle, local, futex, asleep, putAt>>

-----------------------------------------------------------------------------
Common(t) == Register(t) \/ Start(t) \/ NextNode(t) \/ FoundCell(t)

Enqueue(e) == PutCell(e) \/ ClearFutex(e) \/ WakeFutex(e)

Dequeue(d) ==
    \/ SpinHit(d) \/ SpinEnds(d) \/ FutexWait(d) \/ FutexCompare(d)
    \/ TryReclaim(d) \/ NoReclaim(d) \/ LockReclaim(d) \/ (\E h \in AllThreads : Scan(d, h))
    \/ ScanDone(d) \/ FreeNode(d) \/ Return(d)

Next ==
    \/ \E t \in AllThreads : Common(t)
    \/ \E e \in Enqueuers : Enqueue(e)
    \/ \E d \in Dequeuers : Dequeue(d)

Spec == Init /\ [][Next]_vars
\* The scheduler runs every thread; a spin ends.
Fairness ==
    /\ \A t \in AllThreads : WF_vars(Common(t))
    /\ \A e \in Enqueuers : WF_vars(Enqueue(e))
    /\ \A d \in Dequeuers : WF_vars(Dequeue(d))
FairSpec == Spec /\ Fairness

-----------------------------------------------------------------------------
TypeOK ==
    /\ put_index \in Nat /\ pop_index \in Nat
    /\ cell \in [Indices -> Values \cup Dequeuers \cup {Null}]
    /\ last \in Nodes /\ freed \in SUBSET Nodes
    /\ init_node \in Nodes /\ init_id \in Nodes \cup {-1}
    /\ handle \in [AllThreads -> Nodes] /\ curr \in [AllThreads -> Nodes]
    /\ cv \in [AllThreads -> Values \cup Dequeuers \cup {Null}]
    /\ futex \in [Dequeuers -> {0, 1}]
    /\ alive \in SUBSET Dequeuers /\ asleep \in SUBSET alive

\* Reclamation frees no node that a thread still uses: not the nodes a thread
\* walks over in mpmc_find_cell, not the one whose cell it is about to access
\* (every thread refers to a node at or after its handle), not one that a
\* reclaimer reads or that a new registration would start from.
NoUseAfterFree ==
    /\ init_node \notin freed
    /\ \A t \in AllThreads :
         /\ handle[t] \notin freed
         /\ pc[t] = "find" => curr[t] \notin freed
    /\ \A d \in Dequeuers : pc[d] = "scan" => min[d] \notin freed

\* No node is freed twice, by two reclaimers or by one.
NoDoubleFree ==
    \A d \in Dequeuers : pc[d] = "free" =>
        /\ \A n \in rid[d] .. min[d] - 1 : n \notin freed
        /\ \A e \in Dequeuers \ {d} : pc[e] = "free" =>
              (rid[d] .. min[d] - 1) \cap (rid[e] .. min[e] - 1) = {}

\* The dequeue with index i returns the value enqueued with index i, whether it
\* found it, exchanged it or waited for it; so no value is lost or duplicated.
PairedByIndex ==
    /\ \A d \in Dequeuers : pc[d] \in {"over", "lock", "scan", "free", "return"} =>
            cv[d] = putAt[idx[d]] /\ cv[d] # Null
    /\ \A v \in Values : received[v] <= 1

\* A dequeuer asleep will be woken: the cell still names it, or the enqueuer
\* that took it out has still to wake it.
SleeperIsKnown ==
    \A d \in asleep :
        \/ cell[idx[d]] = d
        \/ \E e \in Enqueuers : pc[e] \in {"clear", "wake"} /\ cv[e] = d

\* The store of 0 that mpmc_enqueue makes through the address it took out of the
\* cell finds the frame of a dequeue that still waits on it.  (The FUTEX_WAKE
\* that follows may come after that dequeue has returned.)
ClearFindsFrame ==
    \A e \in Enqueuers : pc[e] = "clear" => cv[e] \in alive /\ futex[cv[e]] = 1

AllDequeued == \A v \in Values : received[v] = 1

\* What main verifies: all the values are dequeued, every thread ends its round.
AllReceived == <>AllDequeued
=============================================================================
