------------------------------ MODULE Retire_MC ------------------------------
(***************************************************************************)
(* What one thread removes while others race to reach it: the objects of    *)
(* qsbr/, the nodes of lf-queue/, of mpmc/ with several dequeuers, of       *)
(* rcu_queue/ and of the list of hp_list/main.c, the arrays of cmap/.  A    *)
(* behaviour runs one of them, chosen in the initial state.                 *)
(*                                                                          *)
(* qsbr: two objects and epochs up to three, so that an object is removed,  *)
(* destroyed, inserted and removed again while a reader may still be on its *)
(* first access.  lf-queue: a producer of three items, two consumers of two *)
(* dequeues each and a limit of two frees per call.  mpmc: an enqueuer and  *)
(* two dequeuers over nodes of one cell, so that every item needs a new     *)
(* node and every dequeue may reclaim one while the other dequeuer sleeps   *)
(* or is on its way.  rcu_queue: two workers of two pushes and two pops     *)
(* each, so that nodes are retired while an epoch is under way.  hp_list:   *)
(* three insertions or deletions by two threads of two neighbouring keys,   *)
(* so that a node is marked by one, unlinked and retired by the other and   *)
(* its key inserted again.  cmap: two readers, and three insertions that    *)
(* double the array twice while nodes are removed.                          *)
(***************************************************************************)
EXTENDS QSBR, TLC

CONSTANTS Dummy, PoolNode, Null

VARIABLES
    program,
    head, tail, next, can_free, HP, fph, fpt, is_freeing, freed, item, ppc, ptail, pnode,
    q_pc, old, new, ret, calls, q_todo, pool, count, order, returned, settled,
    put_index, pop_index, cell, last, m_freed, init_node, init_id, handle, m_pc, left,
    idx, curr, cv, futex, alive, asleep, rid, min, m_todo, putAt, received,
    epoch, n_remaining, to_free1, to_free2, r_head, r_tail, r_next, r_pc, n_enqueue,
    n_dequeue, r_local_epoch, node, at, nxt, ep, r_todo, batch, r_freed, r_order, pops,
    h_next, h_key, h_freed, hp, rl, h_pc, op, k, h_calls, h_node, prev, h_curr, h_nxt,
    iret, h_at, keys, lost, slipped,
    impl, arr, c_count, fence, counter, cb, c_freed, c_next, hash, c_pc, ref, c_key, c_node,
    cursor_next, bucket, made, searches, members, missed

lfq  == <<head, tail, next, can_free, HP, fph, fpt, is_freeing, freed, item, ppc, ptail,
          pnode, q_pc, old, new, ret, calls, q_todo, pool, count, order, returned, settled>>
mpmc == <<put_index, pop_index, cell, last, m_freed, init_node, init_id, handle, m_pc,
          left, idx, curr, cv, futex, alive, asleep, rid, min, m_todo, putAt, received>>
rcuq == <<epoch, n_remaining, to_free1, to_free2, r_head, r_tail, r_next, r_pc, n_enqueue,
          n_dequeue, r_local_epoch, node, at, nxt, ep, r_todo, batch, r_freed, r_order,
          pops>>
hpl  == <<h_next, h_key, h_freed, hp, rl, h_pc, op, k, h_calls, h_node, prev, h_curr,
          h_nxt, iret, h_at, keys, lost, slipped>>
cmap == <<impl, arr, c_count, fence, counter, cb, c_freed, c_next, hash, c_pc, ref, c_key,
          c_node, cursor_next, bucket, made, searches, members, missed>>

Q == INSTANCE LFQueue WITH
    Producers <- {Writer}, Consumers <- Readers, Total <- 3, MaxDequeues <- 2,
    MaxFree <- 2, pc <- q_pc, todo <- q_todo

M == INSTANCE MPMC WITH
    Enqueuers <- {Writer}, Dequeuers <- Readers, PerEnq <- 4, PerDeq <- 2, N <- 1,
    Threshold <- 1, freed <- m_freed, pc <- m_pc, todo <- m_todo

R == INSTANCE RCUQueue WITH
    Workers <- Readers, Tries <- 2, Spurious <- FALSE,
    head <- r_head, tail <- r_tail, next <- r_next, pc <- r_pc,
    local_epoch <- r_local_epoch, todo <- r_todo, freed <- r_freed, order <- r_order

H == INSTANCE HPList WITH
    Threads <- {1, 2}, Calls <- 3, Initial <- {1}, Keys <- {1, 2},
    next <- h_next, key <- h_key, freed <- h_freed, pc <- h_pc, calls <- h_calls,
    node <- h_node, curr <- h_curr, nxt <- h_nxt, at <- h_at

C == INSTANCE CMap WITH
    Updater <- Writer, InitialSize <- 2, LoadFactor <- 1, Initial <- 1, Hashes <- {0, 2},
    Inserts <- 3, Searches <- 2, count <- c_count, freed <- c_freed, next <- c_next,
    pc <- c_pc, key <- c_key, node <- c_node

RetireInit ==
    /\ program \in {"qsbr", "lf_queue", "mpmc", "rcu_queue", "hp_list", "cmap"}
    /\ Init /\ Q!Init /\ M!Init /\ R!Init /\ H!Init /\ C!Init
    /\ program # "qsbr" => \A u, v \in AllThreads : obj[u] = obj[v]     \* not used then
    /\ program # "cmap" => hash = <<0>>                                 \* nor this

RetireNext ==
    \/ program = "qsbr"      /\ Next   /\ UNCHANGED <<program, lfq, mpmc, rcuq, hpl, cmap>>
    \/ program = "lf_queue"  /\ Q!Next /\ UNCHANGED <<program, vars, mpmc, rcuq, hpl, cmap>>
    \/ program = "mpmc"      /\ M!Next /\ UNCHANGED <<program, vars, lfq, rcuq, hpl, cmap>>
    \/ program = "rcu_queue" /\ R!Next /\ UNCHANGED <<program, vars, lfq, mpmc, hpl, cmap>>
    \/ program = "hp_list"   /\ H!Next /\ UNCHANGED <<program, vars, lfq, mpmc, rcuq, cmap>>
    \/ program = "cmap"      /\ C!Next /\ UNCHANGED <<program, vars, lfq, mpmc, rcuq, hpl>>

RetireSpec == RetireInit /\ [][RetireNext]_<<program, vars, lfq, mpmc, rcuq, hpl, cmap>>

Symmetry == Permutations(Readers) \cup Permutations(Objects)

-----------------------------------------------------------------------------
\* The types of all of them.
TypesOK ==
    /\ program = "qsbr" => TypeOK
    /\ program = "lf_queue" => Q!TypeOK
    /\ program = "mpmc" => M!TypeOK
    /\ program = "rcu_queue" => R!TypeOK
    /\ program = "hp_list" => H!TypeOK
    /\ program = "cmap" => C!TypeOK

\* lf-queue, mpmc: no node is used after it was freed, and none is freed twice;
\* mpmc: nor is the frame of a dequeue that has returned.  rcu_queue: the same for
\* the nodes a pop works on, and the assertions of qsbr_quiescent hold.  hp_list: the
\* same for the nodes of the list, as long as the scan of list_hp_retire did not miss a
\* hazard pointer that moved, and every unlinked node is retired once.
\* cmap: an array with a reference is not taken apart or freed.
NodesAreSafe ==
    /\ program = "lf_queue" => Q!NoUseAfterFree /\ Q!FreedOnce
    /\ program = "mpmc" => /\ M!NoUseAfterFree /\ M!NoDoubleFree
                           /\ M!SleeperIsKnown /\ M!ClearFindsFrame
    /\ program = "rcu_queue" => R!PopIsSafe /\ R!EpochsAreSound
    /\ program = "hp_list" => H!OnlySlippedAreUsed /\ H!NodesAreAccounted
    /\ program = "cmap" => C!HoldersAreSafe

\* lf-queue: the items come out in order, each once, a producer links behind the last
\* node, and "empty" is false only if other consumers have moved head on.
\* mpmc: a dequeue returns the value that was enqueued with its index, once.
\* rcu_queue: the nodes are popped in the order in which they were linked.
\* hp_list: the list holds what was inserted and not deleted, except for insertions
\* behind a marked node.  cmap: an open array has all the nodes, each once and in its
\* entry, and a search finds a value that is there, as read_cmap checks.
EachItemOnce ==
    /\ program = "lf_queue" => Q!TakenInOrder /\ Q!TailIsLast /\ Q!EmptyIsReal
    /\ program = "mpmc" => M!PairedByIndex
    /\ program = "rcu_queue" => R!PoppedInOrder
    /\ program = "hp_list" => H!ListIsExact
    /\ program = "cmap" => C!ArrayIsComplete /\ C!PresentIsFound
=============================================================================
