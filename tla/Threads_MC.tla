----------------------------- MODULE Threads_MC -----------------------------
(***************************************************************************)
(* Threads that wait, for a lock (mcslock/, seqlock/), for work (tpool/,    *)
(* work-steal/) or for the processor (preempt_sched/).  The programs share  *)
(* nothing, so a behaviour runs one of them, chosen in the initial state,   *)
(* and the others stay as they were initialised.                            *)
(*                                                                          *)
(* mcslock: three threads, so that one can stand between two others.        *)
(* seqlock: two writers and a reader, and a counter that wraps around after *)
(* two writes.  tpool: two workers and two clients, enough for a non-empty  *)
(* queue behind a busy worker and for more sentinels than sleeping workers; *)
(* once with clients that may apply while the pool is being joined, once    *)
(* without.  work-steal: three threads that steal from each other.          *)
(* preempt_sched: three tasks with two critical sections each, so that one  *)
(* ends and is reaped while another one is fresh.                           *)
(***************************************************************************)
EXTENDS MCSLock, FiniteSets

CONSTANTS
    Workers, Clients, LateApply, MayFail, MaxGets, Sentinel,    \* tpool
    NThreads, NPrints,                                          \* work-steal
    NTasks, Sections                                            \* preempt_sched

ASSUME PoolAssumption ==
    /\ Sentinel \notin Clients /\ Null \notin Clients /\ Sentinel # Null
    /\ IsFiniteSet(Workers)

ASSUME StealAssumption == NThreads \in Nat /\ NPrints \in Nat

ASSUME SchedAssumption == NTasks \in Nat /\ Sections \in Nat \ {0}

VARIABLES
    program,
    sync, data, rpc, prv, rat, buf, seq_wpc, old, wat, src, seen, since,
    queue, flag, result, freed, ran, wpc, task, cancel, cpc, got, gets, pool, count,
    deques, join_count, done, ws_freed, ws_pc, i, work, ws_ran,
    list, task_current, task_reap, destroyed, preempt_count, reg, blocked, ps_pc, todo

seqlock == <<sync, data, rpc, prv, rat, buf, seq_wpc, old, wat, src, seen, since>>
tpool   == <<queue, flag, result, freed, ran, wpc, task, cancel, cpc, got, gets, pool, count>>
steal   == <<deques, join_count, done, ws_freed, ws_pc, i, work, ws_ran>>
sched   == <<list, task_current, task_reap, destroyed, preempt_count, reg, blocked, ps_pc, todo>>

SL == INSTANCE SeqLock WITH
        Readers <- {"r1"}, Writers <- {"w1", "w2"}, Values <- {"a"},
        NWords <- 2, SeqMod <- 4, wpc <- seq_wpc

\* The pool; and one that starts, and is joined only after the last tpool_apply has
\* returned.
P == INSTANCE TPool
J == INSTANCE TPool WITH LateApply <- FALSE, MayFail <- FALSE

W == INSTANCE WorkSteal WITH
       queue <- deques, freed <- ws_freed, ran <- ws_ran,
       pc <- ws_pc

S == INSTANCE Preempt WITH
       Main <- 0, Tasks <- [k \in 1 .. NTasks |-> k], pc <- ps_pc

ThreadsInit ==
    /\ program \in {"mcslock", "seqlock", "tpool", "tpool_join", "work_steal", "preempt_sched"}
    /\ Init /\ SL!Init /\ P!Init /\ W!Init /\ S!Init
    /\ program # "mcslock" => wait = [t \in Threads |-> MCS_PROCEED]

ThreadsNext ==
    \/ program = "mcslock"    /\ Next    /\ UNCHANGED <<program, seqlock, tpool, steal, sched>>
    \/ program = "seqlock"    /\ SL!Next /\ UNCHANGED <<program, vars, tpool, steal, sched>>
    \/ program = "tpool"      /\ P!Next  /\ UNCHANGED <<program, vars, seqlock, steal, sched>>
    \/ program = "tpool_join" /\ J!Next  /\ UNCHANGED <<program, vars, seqlock, steal, sched>>
    \/ program = "work_steal" /\ W!Next  /\ UNCHANGED <<program, vars, seqlock, tpool, sched>>
    \/ program = "preempt_sched" /\ S!Next /\ UNCHANGED <<program, vars, seqlock, tpool, steal>>

ThreadsSpec == ThreadsInit /\ [][ThreadsNext]_<<program, vars, seqlock, tpool, steal, sched>>

-----------------------------------------------------------------------------
\* The types of all of them: pointers, flags and the wrapping counter of the locks, the
\* tasks and futures of the pool, of the stealing threads and of the scheduler.
TypesOK ==
    /\ program = "mcslock" => TypeOK
    /\ program = "seqlock" => SL!TypeOK
    /\ program \in {"tpool", "tpool_join"} => P!TypeOK
    /\ program = "work_steal" => W!TypeOK
    /\ program = "preempt_sched" => S!TypeOK

\* tpool: futures are neither used after they were freed nor freed twice, and
\* tpool_future_get returns what the task returned.
FuturesAreSafe == program \in {"tpool", "tpool_join"} => P!FuturesAreSafe

\* tpool: no worker sleeps while there is a task in the queue.
NoSleeperWithWork == program \in {"tpool", "tpool_join"} => P!NoSleeperWithWork

\* Nobody leaves work behind: when tpool_join has joined the workers every task
\* has been run; a stealing thread leaves only when every task has been run, and
\* done_work runs once, after all the others, and is not touched afterwards.
\* preempt_sched: a task that ends is reaped once, by another task, and critical sections
\* exclude each other.
AllTasksRun ==
    /\ program = "tpool_join" => P!JoinCompletesTasks
    /\ program = "work_steal" => W!DoneIsLast /\ W!LeaveWhenAllRan
    /\ program = "preempt_sched" => S!SectionsExclude /\ S!TasksAreReaped

\* The spins end: in mcslock_acquire for every thread, in seqlock_acquire_rd and
\* seqlock_release_rd once the writers stop coming, and in seqlock_acquire_wr for
\* some of the writers that compete.
\* tpool_create and tpool_join return, a future that its client destroys is freed
\* in the end, tpool_future_get returns if no task is applied during the join,
\* and every stealing thread leaves; main of preempt_sched sees all its tasks end.
EverybodyReturns ==
    /\ Fairness /\ program = "mcslock" => EveryAcquireReturns
    /\ SL!Fairness /\ program = "seqlock" => SL!ReadsEndWhenWritersStop /\ SL!SomeWriterGetsIn
    /\ P!Fairness /\ program \in {"tpool", "tpool_join"} => P!DestroyedIsFreed /\ P!JoinReturns
    /\ J!Fairness /\ program = "tpool_join" => J!GetReturns
    /\ W!Fairness /\ program = "work_steal" => W!AllExit
    /\ S!Fairness /\ program = "preempt_sched" => S!MainReturns
=============================================================================
