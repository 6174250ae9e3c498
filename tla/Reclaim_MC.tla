----------------------------- MODULE Reclaim_MC -----------------------------
(***************************************************************************)
(* Memory that is given back while other threads may use it, and threads    *)
(* that wait for one another meanwhile: reference counts (refcnt/), grace   *)
(* periods (qsbr/, thread-rcu/), hazard pointers (hp_list/list2.c), a map   *)
(* whose array is replaced (cmap/) and the queues that reclaim their own    *)
(* nodes (mpmc/, mpsc/).  A behaviour runs one of them, chosen in the       *)
(* initial state.                                                           *)
(*                                                                          *)
(* refcnt: three threads with two iterations each on one string.  qsbr: a   *)
(* writer and two readers on one object.  thread-rcu: two readers and three *)
(* updates, so that an index bit is used again while a reader may be late.  *)
(* mpmc: two enqueuers and a dequeuer over nodes of two cells, so that the  *)
(* enqueuers race to extend the list.  mpsc: three producers that share     *)
(* three values, so that the queue runs empty and fills up again while      *)
(* pushes are half done.  hp_list: two readers and a writer that swaps      *)
(* twice over three addresses, so that an address comes back while a reader *)
(* may still look for it.  cmap: a reader, and three insertions that double *)
(* the array twice, the second time behind the fence of the first.          *)
(***************************************************************************)
EXTENDS RefCnt

CONSTANTS
    Null,
    Readers, Updates,                                           \* thread-rcu; hp_list has its Readers too
    Enqueuers, Dequeuers, PerEnq, PerDeq, N, Threshold,         \* mpmc
    Producers, Total,                                           \* mpsc
    Writers, Addresses, Loads, Swaps, r_limit                   \* hp_list

ASSUME RcuAssumption == Updates \in Nat

\* The two kinds of threads, the values and NULL can be told apart in a cell, and nobody
\* dequeues more than is enqueued, as in the main of mpmc.c.
ASSUME MpmcAssumption ==
    /\ IsFiniteSet(Enqueuers) /\ IsFiniteSet(Dequeuers) /\ Enqueuers \cap Dequeuers = {}
    /\ PerEnq \in Nat /\ PerDeq \in Nat
    /\ PerDeq * Cardinality(Dequeuers) <= PerEnq * Cardinality(Enqueuers)
    /\ Null \notin Dequeuers /\ (Dequeuers \cup {Null}) \cap (Enqueuers \X (1 .. PerEnq)) = {}

ASSUME MpscAssumption == Total \in Nat /\ Null \notin 1 .. Total

\* 0 is the free slot of the list of hazard pointers.
ASSUME DomainAssumption ==
    IsFiniteSet(Readers) /\ Readers \cap Writers = {} /\ Addresses \subseteq Nat \ {0}

VARIABLES
    program,
    global_epoch, local_epoch, list, visible, valid, stop, qpc, seen, obj, target, qtodo,
    nodes, nesting, rcu_nesting_idx, dut, rcu_freed, prev_count, gp_idx,
    rcu_pc, rcu_last, rcu_idx, tmp, old, late, upc, i, oldp, at, gp,
    put_index, pop_index, cell, last, mpmc_freed, init_node, init_id, handle, mpmc_pc,
    left, idx, curr, cv, futex, alive, asleep, rid, min, todo, putAt, received,
    head, tail, next, mpsc_freed, producer_count, ppc, new, prev, mpsc_pc,
    popped, data, pushed, consumed,
    shared, allocated, hps, h_pc, val, slot, h_at, retired, r_count, h_todo, loads, h_iter,
    impl, arr, count, fence, rcu_counter, cb, c_freed, c_next, hash, c_pc, c_ref, key, node,
    cursor_next, bucket, made, searches, members, missed

qsbr == <<global_epoch, local_epoch, list, visible, valid, stop, qpc, seen, obj, target, qtodo>>
rcu  == <<nodes, nesting, rcu_nesting_idx, dut, rcu_freed, prev_count, gp_idx,
          rcu_pc, rcu_last, rcu_idx, tmp, old, late, upc, i, oldp, at, gp>>
mpmc == <<put_index, pop_index, cell, last, mpmc_freed, init_node, init_id, handle, mpmc_pc,
          left, idx, curr, cv, futex, alive, asleep, rid, min, todo, putAt, received>>
mpsc == <<head, tail, next, mpsc_freed, producer_count, ppc, new, prev, mpsc_pc,
          popped, data, pushed, consumed>>
dom  == <<shared, allocated, hps, h_pc, val, slot, h_at, retired, r_count, h_todo, loads, h_iter>>
cmap == <<impl, arr, count, fence, rcu_counter, cb, c_freed, c_next, hash, c_pc, c_ref, key, node,
          cursor_next, bucket, made, searches, members, missed>>

Q == INSTANCE QSBR WITH
       Writer <- "w", Readers <- {"r1", "r2"}, Objects <- {"o"}, MaxEpoch <- 3,
       pc <- qpc, todo <- qtodo

U == INSTANCE ThreadRCU WITH
       StartTogether <- TRUE, list <- nodes, freed <- rcu_freed, pc <- rcu_pc, last <- rcu_last, idx <- rcu_idx

M == INSTANCE MPMC WITH freed <- mpmc_freed, pc <- mpmc_pc

S == INSTANCE MPSC WITH freed <- mpsc_freed, pc <- mpsc_pc

H == INSTANCE HPDomain WITH
       pc <- h_pc, at <- h_at, todo <- h_todo, iter <- h_iter

C == INSTANCE CMap WITH
       Readers <- {"r1"}, Updater <- "u", InitialSize <- 2, LoadFactor <- 1,
       Initial <- 1, Hashes <- {0, 2}, Inserts <- 3, Searches <- 2,
       counter <- rcu_counter, freed <- c_freed, next <- c_next, pc <- c_pc, ref <- c_ref

ReclaimInit ==
    /\ program \in {"refcnt", "qsbr", "rcu", "mpmc", "mpsc", "hp_list", "cmap"}
    /\ Init /\ Q!Init /\ U!Init /\ M!Init /\ S!Init /\ H!Init /\ C!Init
    /\ program # "cmap" => hash = <<0>>

ReclaimNext ==
    \/ program = "refcnt" /\ Next   /\ UNCHANGED <<program, qsbr, rcu, mpmc, mpsc, dom, cmap>>
    \/ program = "qsbr"   /\ Q!Next /\ UNCHANGED <<program, vars, rcu, mpmc, mpsc, dom, cmap>>
    \/ program = "rcu"    /\ U!Next /\ UNCHANGED <<program, vars, qsbr, mpmc, mpsc, dom, cmap>>
    \/ program = "mpmc"   /\ M!Next /\ UNCHANGED <<program, vars, qsbr, rcu, mpsc, dom, cmap>>
    \/ program = "mpsc"   /\ S!Next /\ UNCHANGED <<program, vars, qsbr, rcu, mpmc, dom, cmap>>
    \/ program = "hp_list" /\ H!Next /\ UNCHANGED <<program, vars, qsbr, rcu, mpmc, mpsc, cmap>>
    \/ program = "cmap"   /\ C!Next /\ UNCHANGED <<program, vars, qsbr, rcu, mpmc, mpsc, dom>>

ReclaimSpec == ReclaimInit /\ [][ReclaimNext]_<<program, vars, qsbr, rcu, mpmc, mpsc, dom, cmap>>

-----------------------------------------------------------------------------
\* The types of all of them.
TypesOK ==
    /\ program = "refcnt"  => TypeOK
    /\ program = "qsbr"    => Q!TypeOK
    /\ program = "rcu"     => U!TypeOK
    /\ program = "mpmc"    => M!TypeOK
    /\ program = "mpsc"    => S!TypeOK
    /\ program = "hp_list" => H!TypeOK
    /\ program = "cmap"    => C!TypeOK

\* mpmc, mpsc: no thread touches a node that mpmc_dequeue or queue_pop has
\* reclaimed, and no node of mpmc is reclaimed twice.  thread-rcu:
\* synchronize_rcu finds every thread that called rcu_init, and waits for a reader
\* whose bit was stored while the index was still the one it had loaded.  hp_list: a
\* config is freed once, not while a reader uses it, and drop finds the pointer it looks
\* for.
NodesAreSafe ==
    /\ program = "mpmc"    => M!NoUseAfterFree /\ M!NoDoubleFree
    /\ program = "mpsc"    => S!NoUseAfterFree
    /\ program = "rcu"     => U!RegisteredIsListed /\ U!PromptReaderIsSafe
    /\ program = "hp_list" => H!ConfigsAreSafe /\ H!DropFindsPointer

\* mpmc: a dequeue returns the value that was enqueued with its index, once.
\* mpsc: the values come in the order of the exchanges of tail, and the queue is
\* empty at the end, as stress_test asserts.
ValuesInOrder ==
    /\ program = "mpmc" => M!PairedByIndex
    /\ program = "mpsc" => S!Fifo /\ S!EmptyAtTheEnd

\* mpmc: a dequeuer asleep on its futex is still known to an enqueuer, and
\* mpmc_enqueue stores to a futex word only while its dequeue is waiting.
SleeperIsServed == program = "mpmc" => M!SleeperIsKnown /\ M!ClearFindsFrame

\* Every value is dequeued, by a dequeuer of mpmc that may have to sleep and by
\* the consumer of mpsc that may have to spin.
EverythingReceived ==
    /\ program = "mpmc" /\ M!Fairness => M!AllReceived
    /\ program = "mpsc" /\ S!Fairness => S!AllConsumed

\* C!Fairness for the behaviours that run cmap.
CMapFairness ==
    /\ WF_cmap(program = "cmap" /\ C!Update)
    /\ WF_cmap(program = "cmap" /\ C!Reader("r1"))

\* refcnt: whichever thread finishes last frees the string.  qsbr: a grace period
\* ends, and after the alarm every thread of the test does.  thread-rcu: every
\* synchronize_rcu returns.  hp_list: loads and drops end, and so does the writer, which
\* waits for the readers in its last cleanup.  cmap: nobody waits at a fence for ever, and
\* only the last array is left.
ReclaimProgress ==
    /\ program = "refcnt" /\ Fairness => FreedInTheEnd
    /\ program = "qsbr" /\ Q!Fairness => Q!SyncReturns /\ Q!AllStop
    /\ program = "rcu" /\ U!Fairness => U!UpdatesEnd
    /\ program = "hp_list" /\ H!Fairness => H!DomainIsLeft
    /\ program = "cmap" /\ CMapFairness => C!MapIsLeft
=============================================================================
