-------------------------------- MODULE TPool --------------------------------
(***************************************************************************)
(* The thread pool of tpool/tpool.c: tpool_create, tpool_apply,            *)
(* tpool_join, the workers' loop jobqueue_fetch, and the futures with      *)
(* tpool_future_get and tpool_future_destroy.                              *)
(*                                                                         *)
(* A critical section of the job queue's mutex or of a future's mutex is   *)
(* one action: everything it reads and writes is protected by that mutex.  *)
(* What the code does after the unlock (free a future, read its result,    *)
(* run the task) is an action of its own.                                  *)
(*                                                                         *)
(* Every client applies one task and owns its future: it may get the       *)
(* result any number of times and destroys the future at the end.  One     *)
(* more thread creates the pool and joins it.                              *)
(***************************************************************************)
EXTENDS Naturals, Sequences, FiniteSets

CONSTANTS
    Workers,
    Clients,        \* a client, its task and its future have the same name
    LateApply,      \* may a client apply while tpool_join is running?
    MayFail,        \* may pthread_create fail?
    MaxGets,        \* bound: calls of tpool_future_get per client
    Sentinel, Null

VARIABLES
    queue,      \* the list from head (newest) to tail (oldest)
    flag,       \* future->flag, a set of the bits below
    result,     \* future->result
    freed,      \* history: how often each future was freed
    ran,        \* history: how often each task was run
    wpc, task,  \* a worker's control and the task it has fetched
    cancel,     \* workers with a pending pthread_cancel
    cpc, got,   \* a client's control and what its last get returned
    gets,       \* gets a client has made
    pool,       \* the creating and joining thread's control
    count       \* workers spawned, and then sentinels applied

vars == <<queue, flag, result, freed, ran, wpc, task, cancel, cpc, got, gets, pool, count>>
futures == <<flag, result, freed>>

Flags == {"RUNNING", "FINISHED", "TIMEOUT", "CANCELLED", "DESTROYED"}

Init ==
    /\ queue = << >>
    /\ flag = [c \in Clients |-> {}]
    /\ result = [c \in Clients |-> Null]
    /\ freed = [c \in Clients |-> 0]
    /\ ran = [c \in Clients |-> 0]
    /\ wpc = [w \in Workers |-> "none"]
    /\ task = [w \in Workers |-> Null]
    /\ cancel = {}
    /\ cpc = [c \in Clients |-> "start"]
    /\ got = [c \in Clients |-> Null]
    /\ gets = [c \in Clients |-> 0]
    /\ pool = "create"
    /\ count = 0

WGoto(w, from, to) == wpc[w] = from /\ wpc' = [wpc EXCEPT ![w] = to]
CGoto(c, from, to) == cpc[c] = from /\ cpc' = [cpc EXCEPT ![c] = to]

-----------------------------------------------------------------------------
(* tpool_create *)

Spawn(w) ==
    /\ pool = "create"
    /\ WGoto(w, "none", "fetch")
    /\ count' = count + 1
    /\ pool' = IF count' = Cardinality(Workers) THEN "ready" ELSE pool
    /\ UNCHANGED <<queue, futures, ran, task, cancel, cpc, got, gets>>

\* pthread_create fails: cancel the workers there are, join them, give up.
SpawnFails ==
    /\ MayFail /\ pool = "create"
    /\ cancel' = {w \in Workers : wpc[w] # "none"}
    /\ pool' = "failing"
    /\ UNCHANGED <<queue, futures, ran, wpc, task, cpc, got, gets, count>>

CreateGivesUp ==
    /\ pool = "failing"
    /\ \A w \in cancel : wpc[w] = "exited"
    /\ pool' = "gone"
    /\ UNCHANGED <<queue, futures, ran, wpc, task, cancel, cpc, got, gets, count>>

-----------------------------------------------------------------------------
(* tpool_apply *)

\* Mutant: pushes at the end from which the workers take.
Push_AtTail(t) == Append(queue, t)

\* Pushes at the head; only a push onto an empty queue broadcasts.
Push(t) == <<t>> \o queue

\* Mutant: broadcasts only if the queue was not empty.
WokenBy_NonEmpty(q) == [w \in Workers |->
    IF q # << >> /\ wpc[w] = "asleep" THEN "fetch" ELSE wpc[w]]

WokenBy(q) == [w \in Workers |->
    IF q = << >> /\ wpc[w] = "asleep" THEN "fetch" ELSE wpc[w]]

PoolUsable == pool = "ready" \/ (LateApply /\ pool \in {"sentinels", "join"})

Apply(c) ==
    /\ PoolUsable
    /\ CGoto(c, "start", "applied")
    /\ queue' = Push(c)
    /\ wpc' = WokenBy(queue)
    /\ UNCHANGED <<futures, ran, task, cancel, got, gets, pool, count>>

-----------------------------------------------------------------------------
(* jobqueue_fetch *)

\* Takes the tail, or waits on cond_nonempty.  Both waiting and the test that
\* precedes it are cancellation points; the cleanup handler unlocks.
Fetch(w) ==
    /\ w \notin cancel
    /\ wpc[w] = "fetch"
    /\ \/ /\ queue # << >>
          /\ task' = [task EXCEPT ![w] = queue[Len(queue)]]
          /\ queue' = SubSeq(queue, 1, Len(queue) - 1)
          /\ WGoto(w, "fetch", "fetched")
       \/ /\ queue = << >>
          /\ WGoto(w, "fetch", "asleep")
          /\ UNCHANGED <<task, queue>>
    /\ UNCHANGED <<futures, ran, cancel, cpc, got, gets, pool, count>>

Cancelled(w) ==
    /\ w \in cancel
    /\ wpc[w] \in {"fetch", "asleep"}
    /\ wpc' = [wpc EXCEPT ![w] = "exited"]
    /\ UNCHANGED <<queue, futures, ran, task, cancel, cpc, got, gets, pool, count>>

\* pthread_cond_wait may return without a broadcast.
SpuriousWake(w) ==
    /\ WGoto(w, "asleep", "fetch")
    /\ UNCHANGED <<queue, futures, ran, task, cancel, cpc, got, gets, pool, count>>

\* A sentinel ends the worker; its future is the worker's to free.
Sentineled(w) ==
    /\ task[w] = Sentinel
    /\ WGoto(w, "fetched", "exited")
    /\ UNCHANGED <<queue, futures, ran, task, cancel, cpc, got, gets, pool, count>>

StartTask(w) ==
    /\ task[w] # Sentinel
    /\ WGoto(w, "fetched", IF "CANCELLED" \in flag[task[w]] THEN "fetch" ELSE "running")
    /\ flag' = [flag EXCEPT ![task[w]] = IF "CANCELLED" \in @ THEN @ ELSE @ \cup {"RUNNING"}]
    /\ UNCHANGED <<queue, result, freed, ran, task, cancel, cpc, got, gets, pool, count>>

RunTask(w) ==
    /\ WGoto(w, "running", "ran")
    /\ ran' = [ran EXCEPT ![task[w]] = @ + 1]
    /\ UNCHANGED <<queue, futures, task, cancel, cpc, got, gets, pool, count>>

\* Mutant: the worker leaves a destroyed future alone.
FinishTask_NoFree(w) ==
    LET t == task[w] IN
    /\ WGoto(w, "ran", "fetch")
    /\ flag' = [flag EXCEPT ![t] = @ \cup {"FINISHED"}]
    /\ result' = [result EXCEPT ![t] = t]
    /\ cpc' = [cpc EXCEPT ![t] = IF @ = "waiting" THEN "woken" ELSE @]
    /\ UNCHANGED <<queue, freed, ran, task, cancel, got, gets, pool, count>>

\* The last critical section: publish the result and wake the getter, unless
\* the client has already destroyed the future.
FinishTask(w) ==
    LET t == task[w] IN
    /\ \/ /\ WGoto(w, "ran", "free")
          /\ "DESTROYED" \in flag[t]
          /\ UNCHANGED <<flag, result, cpc>>
       \/ /\ WGoto(w, "ran", "fetch")
          /\ "DESTROYED" \notin flag[t]
          /\ flag' = [flag EXCEPT ![t] = @ \cup {"FINISHED"}]
          /\ result' = [result EXCEPT ![t] = t]
          /\ cpc' = [cpc EXCEPT ![t] = IF @ = "waiting" THEN "woken" ELSE @]
    /\ UNCHANGED <<queue, freed, ran, task, cancel, got, gets, pool, count>>

FreeByWorker(w) ==
    /\ WGoto(w, "free", "fetch")
    /\ freed' = [freed EXCEPT ![task[w]] = @ + 1]
    /\ UNCHANGED <<queue, flag, result, ran, task, cancel, cpc, got, gets, pool, count>>

-----------------------------------------------------------------------------
(* tpool_future_get *)

\* The first test of the loop, and the one after every wake-up.
GetTest(c, from) ==
    /\ CGoto(c, from, IF "FINISHED" \in flag[c] THEN "getresult" ELSE "waiting")
    /\ flag' = IF from = "applied" THEN [flag EXCEPT ![c] = @ \ {"TIMEOUT"}] ELSE flag
    /\ gets' = [gets EXCEPT ![c] = IF from = "applied" THEN @ + 1 ELSE @]
    /\ UNCHANGED <<queue, result, freed, ran, wpc, task, cancel, got, pool, count>>

GetCall(c) == gets[c] < MaxGets /\ GetTest(c, "applied")
\* Mutant: a wake-up is taken for the result.
GetAgain_NoTest(c) ==
    /\ CGoto(c, "woken", "getresult")
    /\ UNCHANGED <<queue, futures, ran, wpc, task, cancel, got, gets, pool, count>>

GetAgain(c) == GetTest(c, "woken")

\* A wait with a deadline ends with ETIMEDOUT.
GetTimeout(c) ==
    /\ CGoto(c, "waiting", "applied")
    /\ flag' = [flag EXCEPT ![c] = @ \cup {"TIMEOUT"}]
    /\ got' = [got EXCEPT ![c] = Null]
    /\ UNCHANGED <<queue, result, freed, ran, wpc, task, cancel, gets, pool, count>>

\* The wait ends without a broadcast.
GetSpurious(c) ==
    /\ CGoto(c, "waiting", "woken")
    /\ UNCHANGED <<queue, futures, ran, wpc, task, cancel, got, gets, pool, count>>

\* return future->result, read after the unlock.
GetReturn(c) ==
    /\ CGoto(c, "getresult", "applied")
    /\ got' = [got EXCEPT ![c] = result[c]]
    /\ UNCHANGED <<queue, futures, ran, wpc, task, cancel, gets, pool, count>>

-----------------------------------------------------------------------------
(* tpool_future_destroy *)

\* Mutant: frees a future that a worker may still use.
Destroy_Free(c) ==
    /\ CGoto(c, "applied", "free")
    /\ UNCHANGED <<queue, futures, ran, wpc, task, cancel, got, gets, pool, count>>

Destroy(c) ==
    /\ \/ /\ flag[c] \cap {"FINISHED", "CANCELLED"} # {}
          /\ CGoto(c, "applied", "free")
          /\ UNCHANGED flag
       \/ /\ flag[c] \cap {"FINISHED", "CANCELLED"} = {}
          /\ CGoto(c, "applied", "done")
          /\ flag' = [flag EXCEPT ![c] = @ \cup {"DESTROYED"}]
    /\ UNCHANGED <<queue, result, freed, ran, wpc, task, cancel, got, gets, pool, count>>

FreeByClient(c) ==
    /\ CGoto(c, "free", "done")
    /\ freed' = [freed EXCEPT ![c] = @ + 1]
    /\ UNCHANGED <<queue, flag, result, ran, wpc, task, cancel, got, gets, pool, count>>

-----------------------------------------------------------------------------
(* tpool_join *)

\* Mutant: the loop over the workers starts where tpool_create stopped.
JoinCall_NoReset ==
    /\ pool = "ready"
    /\ LateApply \/ \A c \in Clients : cpc[c] # "start"
    /\ pool' = "sentinels"
    /\ UNCHANGED <<queue, futures, ran, wpc, task, cancel, cpc, got, gets, count>>

\* A call of tpool_join: unless late applies are allowed, every client has
\* applied its task by then.
JoinCall ==
    /\ pool = "ready"
    /\ LateApply \/ \A c \in Clients : cpc[c] # "start"
    /\ pool' = "sentinels"
    /\ count' = 0
    /\ UNCHANGED <<queue, futures, ran, wpc, task, cancel, cpc, got, gets>>

\* Mutant: one sentinel too few.
ApplySentinel_OneLess ==
    /\ pool = "sentinels"
    /\ queue' = Push(Sentinel)
    /\ wpc' = WokenBy(queue)
    /\ count' = count + 1
    /\ pool' = IF count' + 1 >= Cardinality(Workers) THEN "join" ELSE pool
    /\ UNCHANGED <<futures, ran, task, cancel, cpc, got, gets>>

ApplySentinel ==
    /\ pool = "sentinels"
    /\ queue' = Push(Sentinel)
    /\ wpc' = WokenBy(queue)
    /\ count' = count + 1
    /\ pool' = IF count' = Cardinality(Workers) THEN "join" ELSE pool
    /\ UNCHANGED <<futures, ran, task, cancel, cpc, got, gets>>

JoinWorkers ==
    /\ pool = "join"
    /\ \A w \in Workers : wpc[w] = "exited"
    /\ pool' = "drain"
    /\ UNCHANGED <<queue, futures, ran, wpc, task, cancel, cpc, got, gets, count>>

\* jobqueue_destroy from the head: a task nobody ran is cancelled, or its
\* future freed when the client has given it up.
DrainOne ==
    /\ pool = "drain" /\ queue # << >>
    /\ LET t == Head(queue) IN
       IF "DESTROYED" \in flag[t]
       THEN freed' = [freed EXCEPT ![t] = @ + 1] /\ UNCHANGED flag
       ELSE flag' = [flag EXCEPT ![t] = @ \cup {"CANCELLED"}] /\ UNCHANGED freed
    /\ queue' = Tail(queue)
    /\ UNCHANGED <<result, ran, wpc, task, cancel, cpc, got, gets, pool, count>>

FreePool ==
    /\ pool = "drain" /\ queue = << >>
    /\ pool' = "gone"
    /\ UNCHANGED <<queue, futures, ran, wpc, task, cancel, cpc, got, gets, count>>

-----------------------------------------------------------------------------
Worker(w) ==
    \/ Fetch(w) \/ Cancelled(w) \/ Sentineled(w) \/ StartTask(w) \/ RunTask(w)
    \/ FinishTask(w) \/ FreeByWorker(w)
Client(c) ==
    \/ Apply(c) \/ GetCall(c) \/ GetAgain(c) \/ GetReturn(c)
    \/ Destroy(c) \/ FreeByClient(c)
Pool ==
    \/ (\E w \in Workers : Spawn(w)) \/ CreateGivesUp \/ JoinCall \/ ApplySentinel
    \/ JoinWorkers \/ DrainOne \/ FreePool

Next ==
    \/ \E w \in Workers : Worker(w) \/ SpuriousWake(w)
    \/ \E c \in Clients : Client(c) \/ GetTimeout(c) \/ GetSpurious(c)
    \/ Pool \/ SpawnFails

Spec == Init /\ [][Next]_vars

\* The scheduler runs every thread; nothing forces a timeout, a spurious
\* wake-up or a failure of pthread_create.
Fairness ==
    /\ \A w \in Workers : WF_vars(Worker(w))
    /\ \A c \in Clients : WF_vars(Client(c))
    /\ WF_vars(Pool)
FairSpec == Spec /\ Fairness

-----------------------------------------------------------------------------
TypeOK ==
    /\ queue \in Seq(Clients \cup {Sentinel})
    /\ flag \in [Clients -> SUBSET Flags]
    /\ result \in [Clients -> Clients \cup {Null}]
    /\ freed \in [Clients -> Nat] /\ ran \in [Clients -> Nat]
    /\ task \in [Workers -> Clients \cup {Sentinel, Null}]
    /\ cancel \in SUBSET Workers
    /\ got \in [Clients -> Clients \cup {Null}]
    /\ count \in 0 .. Cardinality(Workers)

\* A worker will touch (or free) the future of task t.
WorkerHolds(t) ==
    \E w \in Workers : task[w] = t /\ wpc[w] \in {"fetched", "running", "ran", "free"}

\* The race of tpool_future_destroy with the worker that finishes the task: a
\* future is freed at most once, and once it is freed neither the queue, a
\* worker nor the client refers to it.
FreedOnceAndLast ==
    \A c \in Clients : freed[c] > 0 =>
        /\ freed[c] = 1
        /\ \A i \in 1 .. Len(queue) : queue[i] # c
        /\ ~WorkerHolds(c)
        /\ cpc[c] = "done"

\* tpool_apply broadcasts only when the queue was empty.  That is enough: no
\* worker sleeps while there is a task (or a sentinel) to take.
NoSleeperWithWork ==
    queue # << >> => \A w \in Workers : wpc[w] # "asleep"

\* A get that did not time out returns the result of its own task, and that
\* task has been run exactly once.
GetIsTheResult ==
    \A c \in Clients :
        /\ cpc[c] = "getresult" => result[c] = c
        /\ got[c] # Null => got[c] = c /\ ran[c] = 1

\* A future lives as long as somebody refers to it and carries its own result.
FuturesAreSafe == FreedOnceAndLast /\ GetIsTheResult

\* "Wait for all pending tasks to complete before destroying the thread pool":
\* when the workers have been joined, every task that was applied before
\* tpool_join was called has been run, and no worker uses the freed pool.
JoinCompletesTasks ==
    pool \in {"drain", "gone"} =>
        /\ \A w \in Workers : wpc[w] \in {"none", "exited"}
        /\ queue = << >>
        /\ \A c \in Clients : ran[c] = IF cpc[c] = "start" THEN 0 ELSE 1

\* No future is leaked: one that the client destroys is freed in the end, by
\* the client, by the worker or by jobqueue_destroy.
DestroyedIsFreed ==
    \A c \in Clients : (cpc[c] = "done") ~> (freed[c] = 1)

\* tpool_create and tpool_join return, whatever the clients do.
JoinReturns == (pool # "ready") ~> (pool \in {"ready", "gone"})

\* A call of tpool_future_get returns, when all tasks were applied before the
\* pool is joined.
GetReturns == \A c \in Clients : (cpc[c] = "waiting") ~> (cpc[c] = "applied")
=============================================================================
