--------------------------- MODULE Threads_proofs ---------------------------
(***************************************************************************)
(* Proofs about programs of Threads_MC, for every value of the constants.  *)
(*                                                                         *)
(* mcslock: safety for any set of threads.  Mutual exclusion is not        *)
(* inductive: what makes it so is the shape of the line, LineInv, which    *)
(* ties the lock word, the prev locals, the next fields and the wait flags *)
(* to the places of the threads.                                           *)
(*                                                                         *)
(* tpool: the thread pool of tpool/tpool.c as the run of Threads_MC checks *)
(* it, for any finite set of workers, any clients and any number of calls  *)
(* of tpool_future_get: in the behaviours of ThreadsSpec that run the pool.*)
(*                                                                         *)
(* The future of a task has one reference besides its client's: its place  *)
(* in the queue, or the one worker that has fetched it.  As long as there  *)
(* is one, the future is neither finished, cancelled nor freed; who drops  *)
(* the last reference, the worker, the client or jobqueue_destroy, is told *)
(* by the flags alone.                                                     *)
(*                                                                         *)
(* work-steal: a task is in one deque or with one thread, and join_count   *)
(* counts those that have not run.  preempt_sched: a task is in the list,  *)
(* runs, or has ended and waits for another one to reap it.                *)
(***************************************************************************)
EXTENDS Threads_MC, Sequences, FiniteSetTheorems, TLAPS

-----------------------------------------------------------------------------
(* mcslock *)

LineInv ==
    /\ \A t \in Threads : place[t] > 0 <=> pc[t] \in Acquiring \cup Holding
    /\ \A t, u \in Threads : place[t] = place[u] /\ place[t] > 0 => t = u
    /\ lock = Null => \A t \in Threads : place[t] = 0
    /\ lock # Null => place[lock] > 0 /\ \A t \in Threads : place[t] <= place[lock]
    /\ \A t \in Threads : place[t] > 1 =>
          /\ pc[t] \in Acquiring
          /\ prev[t] \in Threads
          /\ place[prev[t]] = place[t] - 1

LinkInv ==
    /\ \A t \in Threads : pc[t] = "swap" => next[t] = Null
    /\ \A t \in Threads : pc[t] \in {"setwait", "link"} =>
          place[t] > 1 /\ next[prev[t]] = Null
    /\ \A t, u \in Threads : place[t] > 0 /\ next[t] = u =>
          place[u] = place[t] + 1 /\ pc[u] = "spin"
    /\ \A t \in Threads : pc[t] = "spin" =>
          wait[t] = IF place[t] = 1 THEN MCS_PROCEED ELSE MCS_WAIT
    /\ \A t \in Threads : pc[t] = "link" => wait[t] = MCS_WAIT
    /\ \A t \in Threads : pc[t] = "signal" => succ[t] = next[t] /\ next[t] # Null

MCSInv == TypeOK /\ LineInv /\ LinkInv

-----------------------------------------------------------------------------
LEMMA MCSInit == Init => MCSInv
  BY NullAssumption DEF Init, MCSInv, TypeOK, LineInv, LinkInv, Places, Acquiring,
     Holding, MCS_PROCEED, MCS_WAIT

LEMMA MCSStep == MCSInv /\ [Next]_vars => MCSInv'
  <1> SUFFICES ASSUME MCSInv, [Next]_vars PROVE MCSInv'
    OBVIOUS
  <1> USE NullAssumption DEF MCSInv, TypeOK, LineInv, LinkInv, Places, Acquiring,
          Holding, MCS_PROCEED, MCS_WAIT, Goto
  <1>1. ASSUME NEW t \in Threads, AcquireInit(t) PROVE MCSInv'
    <2>1. TypeOK' BY <1>1 DEF AcquireInit
    <2>2. LineInv' BY <1>1 DEF AcquireInit
    <2>3. LinkInv' BY <1>1 DEF AcquireInit
    <2> QED BY <2>1, <2>2, <2>3
  <1>2. ASSUME NEW t \in Threads, AcquireSwap(t) PROVE MCSInv'
    <2>1. TypeOK' BY <1>2 DEF AcquireSwap
    <2>2. LineInv' BY <1>2 DEF AcquireSwap
    <2>3. LinkInv' BY <1>2 DEF AcquireSwap
    <2> QED BY <2>1, <2>2, <2>3
  <1>3. ASSUME NEW t \in Threads, AcquireSetWait(t) PROVE MCSInv'
    BY <1>3 DEF AcquireSetWait
  <1>4. ASSUME NEW t \in Threads, AcquireLink(t) PROVE MCSInv'
    <2>1. TypeOK' BY <1>4 DEF AcquireLink
    <2>2. LineInv' BY <1>4 DEF AcquireLink
    <2>3. LinkInv' BY <1>4 DEF AcquireLink
    <2> QED BY <2>1, <2>2, <2>3
  <1>5. ASSUME NEW t \in Threads, AcquireSpin(t) PROVE MCSInv'
    BY <1>5 DEF AcquireSpin
  <1>6. ASSUME NEW t \in Threads, ReleaseRead(t) PROVE MCSInv'
    BY <1>6 DEF ReleaseRead
  <1>7. ASSUME NEW t \in Threads, ReleaseCAS(t) PROVE MCSInv'
    <2>1. CASE lock = t
      BY <1>7, <2>1 DEF ReleaseCAS, MoveUp
    <2>2. CASE lock # t
      BY <1>7, <2>2 DEF ReleaseCAS
    <2> QED BY <2>1, <2>2
  <1>8. ASSUME NEW t \in Threads, ReleaseWaitNext(t) PROVE MCSInv'
    BY <1>8 DEF ReleaseWaitNext
  <1>9. ASSUME NEW t \in Threads, ReleaseSignal(t) PROVE MCSInv'
    <2>1. TypeOK' BY <1>9 DEF ReleaseSignal, MoveUp
    <2>2. LineInv' BY <1>9 DEF ReleaseSignal, MoveUp
    <2>3. LinkInv' BY <1>9 DEF ReleaseSignal, MoveUp
    <2> QED BY <2>1, <2>2, <2>3
  <1>10. CASE UNCHANGED vars
    BY <1>10 DEF vars
  <1> QED
    BY <1>1, <1>2, <1>3, <1>4, <1>5, <1>6, <1>7, <1>8, <1>9, <1>10
       DEF Next, Acquire, Release

\* Type correctness and the shape of the line hold in every state of the lock.
THEOREM MCSInvariance == Spec => []MCSInv
  BY MCSInit, MCSStep, PTL DEF Spec

\* At most one thread holds the lock, whatever the number of threads: the
\* holder is at place 1 and no two threads share a place.
THEOREM ServedInLineHolds == Spec => []ServedInLine
  <1>1. MCSInv => ServedInLine
    BY DEF MCSInv, TypeOK, LineInv, ServedInLine, MutualExclusion, FirstInLineHolds, Acquiring,
       Holding
  <1> QED BY <1>1, MCSInvariance, PTL

\* acquire never writes into the node of a thread that has left release.
THEOREM NoLateLinkHolds == Spec => []NoLateLink
  <1>1. MCSInv => NoLateLink
    BY DEF MCSInv, TypeOK, LineInv, LinkInv, NoLateLink
  <1> QED BY <1>1, MCSInvariance, PTL

-----------------------------------------------------------------------------
(* MCSRefinement: the exchange A0 is an arrival, the successful A1 and the    *)
(* hand-over C1 are departures, every other step stutters.                 *)

LEMMA MCSStepRefinement == MCSInv /\ [Next]_vars => [Abstract!Next]_place
  <1> SUFFICES ASSUME MCSInv, Next PROVE Abstract!Next \/ UNCHANGED place
    BY DEF vars
  <1> USE DEF MCSInv, TypeOK, LineInv, LinkInv, Goto, Acquiring, Holding
  <1>1. ASSUME NEW t \in Threads, AcquireSwap(t) PROVE Abstract!Next
    <2>1. CASE lock = Null
      <3>1. Abstract!ArriveFirst(t)
        BY <1>1, <2>1 DEF AcquireSwap, Abstract!ArriveFirst
      <3> QED BY <3>1 DEF Abstract!Next
    <2>2. CASE lock # Null
      <3>1. Abstract!ArriveBehind(t, lock)
        BY <1>1, <2>2 DEF AcquireSwap, Abstract!ArriveBehind
      <3> QED BY <2>2, <3>1 DEF Abstract!Next
    <2> QED BY <2>1, <2>2
  <1>2. ASSUME NEW t \in Threads, ReleaseCAS(t)
        PROVE Abstract!Next \/ UNCHANGED place
    <2>1. CASE lock = t
      <3>1. Abstract!Leave(t)
        BY <1>2, <2>1 DEF ReleaseCAS, MoveUp, Abstract!Leave, Abstract!MoveUp
      <3> QED BY <3>1 DEF Abstract!Next
    <2>2. CASE lock # t
      BY <1>2, <2>2 DEF ReleaseCAS
    <2> QED BY <2>1, <2>2
  <1>3. ASSUME NEW t \in Threads, ReleaseSignal(t) PROVE Abstract!Next
    <2>1. Abstract!Leave(t)
      BY <1>3 DEF ReleaseSignal, MoveUp, Abstract!Leave, Abstract!MoveUp
    <2> QED BY <2>1 DEF Abstract!Next
  <1>4. ASSUME NEW t \in Threads,
               \/ AcquireInit(t) \/ AcquireSetWait(t) \/ AcquireLink(t)
               \/ AcquireSpin(t) \/ ReleaseRead(t) \/ ReleaseWaitNext(t)
        PROVE UNCHANGED place
    BY <1>4 DEF AcquireInit, AcquireSetWait, AcquireLink, AcquireSpin,
       ReleaseRead, ReleaseWaitNext
  <1> QED BY <1>1, <1>2, <1>3, <1>4 DEF Next, Acquire, Release

\* The MCS lock implements the abstract first-come first-served lock.
THEOREM MCSRefinement == Spec => ImplementsFifoLock
  <1>1. Init => Abstract!Init
    BY DEF Init, Abstract!Init
  <1> QED
    BY <1>1, MCSStepRefinement, MCSInvariance, PTL
       DEF Spec, ImplementsFifoLock, Abstract!Spec

-----------------------------------------------------------------------------
(* tpool *)

InQueue(c) == \E k \in 1 .. Len(queue) : queue[k] = c
Holds(w, c) == task[w] = c /\ wpc[w] \in {"fetched", "running", "ran", "free"}

Final(c) == "FINISHED" \in flag[c] \/ "CANCELLED" \in flag[c]

FutureTypes ==
    /\ flag \in [Clients -> SUBSET P!Flags]
    /\ result \in [Clients -> Clients \cup {Null}]
    /\ freed \in [Clients -> Nat] /\ ran \in [Clients -> Nat]

WorkerTypes ==
    /\ queue \in Seq(Clients \cup {Sentinel})
    /\ wpc \in [Workers -> {"none", "fetch", "asleep", "fetched", "running", "ran", "free",
                            "exited"}]
    /\ task \in [Workers -> Clients \cup {Sentinel, Null}]
    /\ cancel \in SUBSET Workers
    /\ \A w \in Workers : wpc[w] \in {"running", "ran", "free"} => task[w] \in Clients
    /\ \A w \in Workers : wpc[w] = "fetched" => task[w] # Null

ClientTypes ==
    /\ cpc \in [Clients -> {"start", "applied", "waiting", "woken", "getresult", "free", "done"}]
    /\ got \in [Clients -> Clients \cup {Null}]

PoolTypes == FutureTypes /\ WorkerTypes /\ ClientTypes

QueuedOnce ==
    \A c \in Clients : \A k, m \in 1 .. Len(queue) : queue[k] = c /\ queue[m] = c => k = m

OneReference ==
    /\ QueuedOnce
    /\ \A c \in Clients : \A v, w \in Workers : Holds(v, c) /\ Holds(w, c) => v = w
    /\ \A c \in Clients : InQueue(c) => \A w \in Workers : ~Holds(w, c)

QueuedIsPending ==
    \A c \in Clients : InQueue(c) =>
        /\ cpc[c] # "start" /\ ran[c] = 0 /\ freed[c] = 0
        /\ ~Final(c)

HeldIsPending ==
    \A w \in Workers, c \in Clients : Holds(w, c) =>
        /\ cpc[c] # "start" /\ freed[c] = 0
        /\ ~Final(c)
        /\ ran[c] = IF wpc[w] \in {"ran", "free"} THEN 1 ELSE 0
        /\ wpc[w] = "free" => "DESTROYED" \in flag[c]

FutureOf(c) ==
    /\ cpc[c] = "start" => flag[c] = {} /\ ran[c] = 0 /\ freed[c] = 0
    /\ "FINISHED" \in flag[c] => result[c] = c /\ ran[c] = 1
    /\ Final(c) => "DESTROYED" \notin flag[c]
    /\ "DESTROYED" \in flag[c] => cpc[c] = "done"
    /\ cpc[c] = "free" => Final(c) /\ freed[c] = 0
    /\ freed[c] > 0 => freed[c] = 1 /\ cpc[c] = "done"
    /\ cpc[c] = "getresult" => "FINISHED" \in flag[c]
    /\ got[c] # Null => got[c] = c /\ "FINISHED" \in flag[c]

FlagsAreFinal == \A c \in Clients : FutureOf(c)

PoolInv ==
    PoolTypes /\ OneReference /\ QueuedIsPending /\ HeldIsPending /\ FlagsAreFinal
    /\ P!NoSleeperWithWork

-----------------------------------------------------------------------------
(* The queue: Push puts a task first, a worker takes the last one,         *)
(* jobqueue_destroy the first one.                                         *)

LEMMA PushFirst ==
  ASSUME NEW Elem, NEW q \in Seq(Elem), NEW x \in Elem
  PROVE  /\ <<x>> \o q \in Seq(Elem) /\ <<x>> \o q # << >>
         /\ Len(<<x>> \o q) = Len(q) + 1
         /\ (<<x>> \o q)[1] = x
         /\ \A k \in 1 .. Len(q) : (<<x>> \o q)[k + 1] = q[k]
  OBVIOUS

LEMMA Prefix ==
  ASSUME NEW Elem, NEW q \in Seq(Elem), NEW n \in Nat, n <= Len(q)
  PROVE  /\ SubSeq(q, 1, n) \in Seq(Elem) /\ Len(SubSeq(q, 1, n)) = n
         /\ \A k \in 1 .. n : SubSeq(q, 1, n)[k] = q[k]
  OBVIOUS

LEMMA TakeLast ==
  ASSUME NEW Elem, NEW q \in Seq(Elem), q # << >>
  PROVE  /\ SubSeq(q, 1, Len(q) - 1) \in Seq(Elem)
         /\ Len(SubSeq(q, 1, Len(q) - 1)) = Len(q) - 1
         /\ \A k \in 1 .. Len(q) - 1 : SubSeq(q, 1, Len(q) - 1)[k] = q[k]
         /\ Len(q) \in 1 .. Len(q) /\ q[Len(q)] \in Elem
  <1>1. Len(q) \in Nat /\ Len(q) # 0
    OBVIOUS
  <1>2. Len(q) \in 1 .. Len(q) /\ Len(q) - 1 \in Nat /\ Len(q) - 1 <= Len(q)
    BY <1>1
  <1>3. q[Len(q)] \in Elem
    BY <1>2
  <1> DEFINE n == Len(q) - 1
  <1>4. n \in Nat /\ n <= Len(q)
    BY <1>2
  <1> HIDE DEF n
  <1>5. /\ SubSeq(q, 1, n) \in Seq(Elem) /\ Len(SubSeq(q, 1, n)) = n
        /\ \A k \in 1 .. n : SubSeq(q, 1, n)[k] = q[k]
    BY <1>4, Prefix
  <1> QED BY <1>2, <1>3, <1>5 DEF n

LEMMA TakeFirst ==
  ASSUME NEW Elem, NEW q \in Seq(Elem), q # << >>
  PROVE  /\ Tail(q) \in Seq(Elem) /\ Len(Tail(q)) = Len(q) - 1
         /\ \A k \in 1 .. Len(q) - 1 : Tail(q)[k] = q[k + 1]
         /\ Head(q) = q[1] /\ 1 \in 1 .. Len(q) /\ q[1] \in Elem
  OBVIOUS
-----------------------------------------------------------------------------
LEMMA PoolInit == P!Init => PoolInv
  BY PoolAssumption DEF P!Init, P!Flags, PoolInv, PoolTypes, FutureTypes,
     WorkerTypes, ClientTypes, OneReference, QueuedOnce, QueuedIsPending,
     HeldIsPending, FlagsAreFinal, FutureOf, P!NoSleeperWithWork, InQueue, Holds, Final

\* Every update of a future is by one bit of its flag or one more of a count.
LEMMA FutureUpdate ==
  ASSUME FutureTypes, NEW c \in Clients
  PROVE  /\ \A bit \in P!Flags : [flag EXCEPT ![c] = @ \cup {bit}] \in [Clients -> SUBSET P!Flags]
         /\ \A bit \in P!Flags : [flag EXCEPT ![c] = @ \ {bit}] \in [Clients -> SUBSET P!Flags]
         /\ [freed EXCEPT ![c] = @ + 1] \in [Clients -> Nat]
         /\ [ran EXCEPT ![c] = @ + 1] \in [Clients -> Nat]
         /\ [result EXCEPT ![c] = c] \in [Clients -> Clients \cup {Null}]
  BY DEF FutureTypes

LEMMA Bits ==
  /\ "RUNNING" \in P!Flags /\ "FINISHED" \in P!Flags /\ "TIMEOUT" \in P!Flags
  /\ "CANCELLED" \in P!Flags /\ "DESTROYED" \in P!Flags
  BY DEF P!Flags

LEMMA FutureTypesStep == PoolTypes /\ P!Next => FutureTypes'
  <1> SUFFICES ASSUME PoolTypes, P!Next PROVE FutureTypes'
    OBVIOUS
  <1> USE Bits DEF PoolTypes, P!futures
  <1>1. ASSUME NEW w \in Workers, P!StartTask(w) PROVE FutureTypes'
    <2>1. task[w] \in Clients
      BY <1>1 DEF P!StartTask, P!WGoto, WorkerTypes
    <2>2. flag' = flag \/ flag' = [flag EXCEPT ![task[w]] = @ \cup {"RUNNING"}]
      BY <1>1, <2>1 DEF P!StartTask, FutureTypes
    <2> QED BY <1>1, <2>1, <2>2, FutureUpdate DEF P!StartTask, FutureTypes
  <1>2. ASSUME NEW w \in Workers, P!RunTask(w) \/ P!FinishTask(w) \/ P!FreeByWorker(w)
        PROVE  FutureTypes'
    <2>1. task[w] \in Clients
      BY <1>2 DEF P!RunTask, P!FinishTask, P!FreeByWorker, P!WGoto, WorkerTypes
    <2>2. CASE P!RunTask(w)
      BY <2>1, <2>2, FutureUpdate DEF P!RunTask, FutureTypes
    <2>3. CASE P!FinishTask(w)
      BY <2>1, <2>3, FutureUpdate DEF P!FinishTask, FutureTypes
    <2>4. CASE P!FreeByWorker(w)
      BY <2>1, <2>4, FutureUpdate DEF P!FreeByWorker, FutureTypes
    <2> QED BY <1>2, <2>2, <2>3, <2>4
  <1>3. ASSUME NEW c \in Clients, P!GetCall(c) \/ P!GetAgain(c) \/ P!GetTimeout(c)
        PROVE  FutureTypes'
    BY <1>3, FutureUpdate DEF P!GetCall, P!GetAgain, P!GetTest, P!GetTimeout, FutureTypes
  <1>4. ASSUME NEW c \in Clients, P!Destroy(c) \/ P!FreeByClient(c) PROVE FutureTypes'
    BY <1>4, FutureUpdate DEF P!Destroy, P!FreeByClient, FutureTypes
  <1>5. CASE P!DrainOne
    <2> DEFINE t == Head(queue)
    <2>1. /\ UNCHANGED <<result, ran>>
          /\ \/ UNCHANGED flag /\ freed' = [freed EXCEPT ![t] = @ + 1]
             \/ UNCHANGED freed /\ flag' = [flag EXCEPT ![t] = @ \cup {"CANCELLED"}]
      BY <1>5 DEF P!DrainOne
    <2> HIDE DEF t
    <2>2. CASE t \in Clients
      BY <2>1, <2>2, FutureUpdate DEF FutureTypes
    <2>3. CASE t \notin Clients
      BY <2>1, <2>3 DEF FutureTypes
    <2> QED BY <2>2, <2>3
  <1>6. CASE UNCHANGED <<flag, result, freed, ran>>
    BY <1>6 DEF FutureTypes
  <1>7. \/ UNCHANGED <<flag, result, freed, ran>>
        \/ P!DrainOne
        \/ \E w \in Workers : P!StartTask(w) \/ P!RunTask(w) \/ P!FinishTask(w) \/ P!FreeByWorker(w)
        \/ \E c \in Clients : P!GetCall(c) \/ P!GetAgain(c) \/ P!GetTimeout(c) \/ P!Destroy(c)
                              \/ P!FreeByClient(c)
    BY DEF P!Next, P!Worker, P!Client, P!Pool, P!Fetch, P!Cancelled, P!SpuriousWake,
       P!Sentineled, P!Spawn, P!Apply, P!GetSpurious, P!GetReturn, P!SpawnFails,
       P!CreateGivesUp, P!JoinCall, P!ApplySentinel, P!JoinWorkers, P!FreePool
  <1> QED BY <1>1, <1>2, <1>3, <1>4, <1>5, <1>6, <1>7

LEMMA WorkerTypesStep == PoolTypes /\ P!Next => WorkerTypes'
  <1> SUFFICES ASSUME PoolTypes, P!Next PROVE WorkerTypes'
    OBVIOUS
  <1> USE PoolAssumption DEF PoolTypes, WorkerTypes, P!WGoto
  <1>1. ASSUME NEW w \in Workers, P!Fetch(w) PROVE WorkerTypes'
    <2>1. CASE queue # << >>
      <3>1. queue[Len(queue)] \in Clients \cup {Sentinel} /\ queue' \in Seq(Clients \cup {Sentinel})
        BY <1>1, <2>1, TakeLast DEF P!Fetch
      <3> QED BY <1>1, <2>1, <3>1 DEF P!Fetch
    <2>2. CASE queue = << >>
      BY <1>1, <2>2 DEF P!Fetch
    <2> QED BY <2>1, <2>2
  <1>2. ASSUME NEW w \in Workers,
               \/ P!Cancelled(w) \/ P!SpuriousWake(w) \/ P!Sentineled(w) \/ P!Spawn(w)
               \/ P!StartTask(w) \/ P!RunTask(w) \/ P!FinishTask(w) \/ P!FreeByWorker(w)
        PROVE  WorkerTypes'
    BY <1>2 DEF P!Cancelled, P!SpuriousWake, P!Sentineled, P!Spawn, P!StartTask, P!RunTask,
       P!FinishTask, P!FreeByWorker
  <1>3. ASSUME NEW c \in Clients, P!Apply(c) PROVE WorkerTypes'
    BY <1>3, PushFirst DEF P!Apply, P!Push, P!WokenBy
  <1>4. CASE P!ApplySentinel
    BY <1>4, PushFirst DEF P!ApplySentinel, P!Push, P!WokenBy
  <1>5. CASE P!DrainOne
    BY <1>5, TakeFirst DEF P!DrainOne
  <1>6. CASE P!SpawnFails
    BY <1>6 DEF P!SpawnFails
  <1>7. CASE UNCHANGED <<queue, wpc, task, cancel>>
    BY <1>7
  <1>8. \/ UNCHANGED <<queue, wpc, task, cancel>>
        \/ P!ApplySentinel \/ P!DrainOne \/ P!SpawnFails \/ \E c \in Clients : P!Apply(c)
        \/ \E w \in Workers : P!Worker(w) \/ P!SpuriousWake(w) \/ P!Spawn(w)
    BY DEF P!Next, P!Client, P!Pool, P!GetCall, P!GetAgain, P!GetTest, P!GetTimeout,
       P!GetSpurious, P!GetReturn, P!Destroy, P!FreeByClient, P!CreateGivesUp, P!JoinCall,
       P!JoinWorkers, P!FreePool
  <1> QED BY <1>1, <1>2, <1>3, <1>4, <1>5, <1>6, <1>7, <1>8 DEF P!Worker

LEMMA ClientTypesStep == PoolTypes /\ P!Next => ClientTypes'
  <1> SUFFICES ASSUME PoolTypes, P!Next PROVE ClientTypes'
    OBVIOUS
  <1> USE DEF PoolTypes, ClientTypes, P!CGoto
  <1>1. ASSUME NEW w \in Workers, P!FinishTask(w) PROVE ClientTypes'
    BY <1>1 DEF P!FinishTask
  <1>2. ASSUME NEW c \in Clients, P!GetCall(c) \/ P!GetAgain(c) PROVE ClientTypes'
    BY <1>2 DEF P!GetCall, P!GetAgain, P!GetTest
  <1>3. ASSUME NEW c \in Clients,
               \/ P!Apply(c) \/ P!GetTimeout(c) \/ P!GetSpurious(c) \/ P!GetReturn(c)
               \/ P!Destroy(c) \/ P!FreeByClient(c)
        PROVE  ClientTypes'
    BY <1>3 DEF P!Apply, P!GetTimeout, P!GetSpurious, P!GetReturn, P!Destroy, P!FreeByClient,
       FutureTypes
  <1>4. CASE UNCHANGED <<cpc, got>>
    BY <1>4
  <1>5. \/ UNCHANGED <<cpc, got>>
        \/ \E w \in Workers : P!FinishTask(w)
        \/ \E c \in Clients : P!Client(c) \/ P!GetTimeout(c) \/ P!GetSpurious(c)
    BY DEF P!Next, P!Worker, P!Pool, P!Fetch, P!Cancelled, P!SpuriousWake, P!Sentineled,
       P!StartTask, P!RunTask, P!FreeByWorker, P!Spawn, P!SpawnFails, P!CreateGivesUp,
       P!JoinCall, P!ApplySentinel, P!JoinWorkers, P!DrainOne, P!FreePool
  <1> QED BY <1>1, <1>2, <1>3, <1>4, <1>5 DEF P!Client
-----------------------------------------------------------------------------
(* The references to a task, and what its future looks like meanwhile *)

Books == QueuedIsPending /\ HeldIsPending /\ FlagsAreFinal

\* A step that leaves the queue alone and fetches nothing adds no reference.
LEMMA ReferencesKept ==
  ASSUME OneReference, UNCHANGED queue,
         \A v \in Workers, d \in Clients : Holds(v, d)' => Holds(v, d)
  PROVE  OneReference' /\ \A d \in Clients : InQueue(d)' <=> InQueue(d)
  <1>1. QueuedOnce'
    BY DEF OneReference, QueuedOnce
  <1>2. \A d \in Clients : InQueue(d)' <=> InQueue(d)
    BY DEF InQueue
  <1> QED BY <1>1, <1>2 DEF OneReference

LEMMA FetchStep ==
  ASSUME PoolInv, NEW w \in Workers, P!Fetch(w) PROVE OneReference' /\ Books'
  <1>1. CASE queue = << >>
    <2>1. \A v \in Workers, d \in Clients : Holds(v, d)' <=> Holds(v, d)
      BY <1>1 DEF P!Fetch, P!WGoto, PoolInv, PoolTypes, WorkerTypes, Holds
    <2>2. OneReference' /\ \A d \in Clients : InQueue(d)' <=> InQueue(d)
      BY <1>1, <2>1, ReferencesKept DEF P!Fetch, PoolInv
    <2>3. \A v \in Workers, d \in Clients : Holds(v, d) => wpc'[v] = wpc[v]
      BY <1>1 DEF P!Fetch, P!WGoto, PoolInv, PoolTypes, WorkerTypes, Holds
    <2>4. UNCHANGED <<flag, result, freed, ran, cpc, got>>
      BY <1>1 DEF P!Fetch, P!futures
    <2> QED BY <2>1, <2>2, <2>3, <2>4 DEF PoolInv, Books, QueuedIsPending, HeldIsPending,
               FlagsAreFinal, FutureOf, Final
  <1>2. CASE queue # << >>
    <2> DEFINE x == queue[Len(queue)]
    <2>1. /\ queue \in Seq(Clients \cup {Sentinel})
          /\ queue' = SubSeq(queue, 1, Len(queue) - 1)
          /\ wpc' = [wpc EXCEPT ![w] = "fetched"] /\ task' = [task EXCEPT ![w] = x]
          /\ wpc[w] = "fetch"
          /\ UNCHANGED <<flag, result, freed, ran, cpc, got>>
      BY <1>2 DEF P!Fetch, P!WGoto, P!futures, PoolInv, PoolTypes, WorkerTypes
    <2>2. /\ Len(queue') = Len(queue) - 1 /\ Len(queue) \in 1 .. Len(queue)
          /\ \A k \in 1 .. Len(queue) - 1 : queue'[k] = queue[k]
      BY <1>2, <2>1, TakeLast
    <2>3. \A d \in Clients : InQueue(d)' <=> InQueue(d) /\ d # x
      <3>1. \A d \in Clients : InQueue(d)' => InQueue(d) /\ d # x
        BY <2>2 DEF InQueue, PoolInv, OneReference, QueuedOnce
      <3>2. \A d \in Clients : InQueue(d) /\ d # x => InQueue(d)'
        BY <2>2 DEF InQueue
      <3> QED BY <3>1, <3>2
    <2>4. x \in Clients => InQueue(x)
      BY <2>2 DEF InQueue
    <2>5. QueuedOnce'
      BY <2>2 DEF PoolInv, OneReference, QueuedOnce
    <2> HIDE DEF x
    <2>6. \A v \in Workers, d \in Clients : Holds(v, d)' <=> Holds(v, d) \/ (v = w /\ d = x)
      BY <2>1 DEF PoolInv, PoolTypes, WorkerTypes, Holds
    <2>7. \A v \in Workers, d \in Clients : Holds(v, d) => wpc'[v] = wpc[v]
      BY <2>1 DEF PoolInv, PoolTypes, WorkerTypes, Holds
    <2>8. wpc'[w] = "fetched"
      BY <2>1 DEF PoolInv, PoolTypes, WorkerTypes
    <2>9. OneReference'
      BY <2>3, <2>4, <2>5, <2>6 DEF PoolInv, OneReference
    <2>10. QueuedIsPending' /\ FlagsAreFinal'
      BY <2>1, <2>3 DEF PoolInv, QueuedIsPending, FlagsAreFinal, FutureOf, Final
    <2>11. HeldIsPending'
      BY <2>1, <2>4, <2>6, <2>7, <2>8 DEF PoolInv, QueuedIsPending, HeldIsPending, Final
    <2> QED BY <2>9, <2>10, <2>11 DEF Books
  <1> QED BY <1>1, <1>2

\* tpool_apply of a task or of a sentinel.
LEMMA PushStep ==
  ASSUME PoolInv, NEW x \in Clients \cup {Sentinel}, x \in Clients => cpc[x] = "start",
         queue' = P!Push(x), wpc' = P!WokenBy(queue),
         UNCHANGED <<flag, result, freed, ran, task, got>>,
         cpc' = [cpc EXCEPT ![x] = "applied"] \/ (x = Sentinel /\ UNCHANGED cpc)
  PROVE  OneReference' /\ Books' /\ P!NoSleeperWithWork'
  <1>1. /\ Len(queue') = Len(queue) + 1 /\ Len(queue) \in Nat /\ queue'[1] = x
        /\ \A k \in 1 .. Len(queue) : queue'[k + 1] = queue[k]
    BY PushFirst DEF P!Push, PoolInv, PoolTypes, WorkerTypes
  <1>2. \A k \in 2 .. Len(queue') : k - 1 \in 1 .. Len(queue) /\ queue'[k] = queue[k - 1]
    BY <1>1
  <1>3. \A d \in Clients : InQueue(d)' <=> InQueue(d) \/ d = x
    <2>1. ASSUME NEW d \in Clients, InQueue(d) PROVE InQueue(d)'
      BY <1>1, <2>1 DEF InQueue
    <2>2. ASSUME NEW d \in Clients, InQueue(d)', d # x PROVE InQueue(d)
      BY <1>1, <1>2, <2>2 DEF InQueue
    <2>3. InQueue(x)'
      BY <1>1 DEF InQueue
    <2> QED BY <2>1, <2>2, <2>3
  <1>4. x \in Clients => ~InQueue(x) /\ \A v \in Workers : ~Holds(v, x)
    BY DEF PoolInv, QueuedIsPending, HeldIsPending
  <1>5. QueuedOnce'
    <2> SUFFICES ASSUME NEW d \in Clients, NEW k \in 1 .. Len(queue'), NEW m \in 1 .. Len(queue'),
                        queue'[k] = d, queue'[m] = d
                 PROVE  k = m
      BY DEF QueuedOnce
    <2>1. CASE d = x
      BY <1>1, <1>2, <1>4, <2>1 DEF InQueue
    <2>2. CASE d # x
      <3>1. k \in 2 .. Len(queue') /\ m \in 2 .. Len(queue')
        BY <1>1, <2>2
      <3>2. queue[k - 1] = d /\ queue[m - 1] = d
        BY <1>2, <3>1
      <3>3. k - 1 = m - 1
        BY <1>2, <3>1, <3>2 DEF PoolInv, OneReference, QueuedOnce
      <3> QED BY <1>1, <3>1, <3>3
    <2> QED BY <2>1, <2>2
  <1>6. \A v \in Workers, d \in Clients :
           (Holds(v, d)' <=> Holds(v, d)) /\ (Holds(v, d) => wpc'[v] = wpc[v])
    BY DEF P!WokenBy, Holds, PoolInv, PoolTypes, WorkerTypes
  <1>7. OneReference'
    BY <1>3, <1>4, <1>5, <1>6 DEF PoolInv, OneReference
  <1>8. \A d \in Clients : cpc'[d] = IF d = x THEN "applied" ELSE cpc[d]
    BY PoolAssumption DEF PoolInv, PoolTypes, ClientTypes
  <1>9. QueuedIsPending' /\ FlagsAreFinal'
    BY <1>3, <1>8 DEF PoolInv, QueuedIsPending, FlagsAreFinal, FutureOf, Final
  <1>10. HeldIsPending'
    BY <1>6, <1>8 DEF PoolInv, HeldIsPending, Final
  <1>11. P!NoSleeperWithWork'
    BY DEF P!WokenBy, PoolInv, P!NoSleeperWithWork
  <1> QED BY <1>7, <1>9, <1>10, <1>11 DEF Books
\* jobqueue_destroy takes the first entry out, and cancels or frees it.
LEMMA DrainStep ==
  ASSUME PoolInv, P!DrainOne PROVE OneReference' /\ Books' /\ P!NoSleeperWithWork'
  <1> DEFINE t == Head(queue)
  <1>1. /\ queue \in Seq(Clients \cup {Sentinel}) /\ queue # << >> /\ queue' = Tail(queue)
        /\ UNCHANGED <<result, ran, wpc, task, cpc, got>>
        /\ \/ "DESTROYED" \in flag[t] /\ UNCHANGED flag /\ freed' = [freed EXCEPT ![t] = @ + 1]
           \/ /\ "DESTROYED" \notin flag[t] /\ UNCHANGED freed
              /\ flag' = [flag EXCEPT ![t] = @ \cup {"CANCELLED"}]
    BY DEF P!DrainOne, PoolInv, PoolTypes, WorkerTypes
  <1>2. /\ Len(queue') = Len(queue) - 1 /\ Len(queue) \in Nat /\ queue[1] = t
        /\ \A k \in 1 .. Len(queue) - 1 : queue'[k] = queue[k + 1]
        /\ 1 \in 1 .. Len(queue) /\ t \in Clients \cup {Sentinel}
    BY <1>1, TakeFirst
  <1> HIDE DEF t
  <1>3. \A k \in 2 .. Len(queue) : k - 1 \in 1 .. Len(queue') /\ queue'[k - 1] = queue[k]
    BY <1>2
  <1>4. \A k \in 1 .. Len(queue') : k + 1 \in 1 .. Len(queue) /\ queue'[k] = queue[k + 1]
    BY <1>2
  <1>5. \A d \in Clients : InQueue(d)' <=> InQueue(d) /\ d # t
    <2>1. ASSUME NEW d \in Clients, InQueue(d)' PROVE InQueue(d) /\ d # t
      <3>1. PICK k \in 1 .. Len(queue') : queue'[k] = d
        BY <2>1 DEF InQueue
      <3>2. k + 1 \in 1 .. Len(queue) /\ queue[k + 1] = d /\ k + 1 # 1
        BY <1>4, <3>1
      <3> QED BY <1>2, <3>2 DEF InQueue, PoolInv, OneReference, QueuedOnce
    <2>2. ASSUME NEW d \in Clients, InQueue(d), d # t PROVE InQueue(d)'
      <3>1. PICK k \in 1 .. Len(queue) : queue[k] = d
        BY <2>2 DEF InQueue
      <3>2. k \in 2 .. Len(queue)
        BY <1>2, <2>2, <3>1
      <3> QED BY <1>3, <3>1, <3>2 DEF InQueue
    <2> QED BY <2>1, <2>2
  <1>6. t \in Clients => InQueue(t)
    BY <1>2 DEF InQueue
  <1>7. QueuedOnce'
    <2> SUFFICES ASSUME NEW d \in Clients, NEW k \in 1 .. Len(queue'), NEW m \in 1 .. Len(queue'),
                        queue'[k] = d, queue'[m] = d
                 PROVE  k = m
      BY DEF QueuedOnce
    <2>1. k + 1 = m + 1
      BY <1>4 DEF PoolInv, OneReference, QueuedOnce
    <2> QED BY <2>1
  <1>8. \A v \in Workers, d \in Clients : Holds(v, d)' <=> Holds(v, d)
    BY <1>1 DEF Holds
  <1>9. OneReference'
    BY <1>5, <1>7, <1>8 DEF PoolInv, OneReference
  <1>10. \A d \in Clients : InQueue(d) => d = t \/ InQueue(d)'
    BY <1>5
  <1>11. \A d \in Clients \ {t} : flag'[d] = flag[d] /\ freed'[d] = freed[d]
    BY <1>1 DEF PoolInv, PoolTypes, FutureTypes
  <1>12. QueuedIsPending' /\ HeldIsPending'
    <2>1. \A v \in Workers : t \in Clients => ~Holds(v, t)
      BY <1>6 DEF PoolInv, OneReference
    <2> QED BY <1>1, <1>5, <1>8, <1>11, <2>1 DEF PoolInv, QueuedIsPending, HeldIsPending, Final
  <1>13. FlagsAreFinal'
    <2> SUFFICES ASSUME NEW d \in Clients PROVE FutureOf(d)'
      BY DEF FlagsAreFinal
    <2>1. CASE d # t
      BY <1>1, <1>11, <2>1 DEF PoolInv, FlagsAreFinal, FutureOf, Final
    <2>2. CASE d = t /\ "DESTROYED" \in flag[t]
      <3>1. flag' = flag /\ freed'[d] = 1
        BY <1>1, <1>6, <2>2 DEF PoolInv, PoolTypes, FutureTypes, QueuedIsPending
      <3> QED BY <1>1, <2>2, <3>1 DEF PoolInv, FlagsAreFinal, FutureOf, Final
    <2>3. CASE d = t /\ "DESTROYED" \notin flag[t]
      <3>1. freed' = freed /\ flag'[d] = flag[d] \cup {"CANCELLED"}
        BY <1>1, <2>3 DEF PoolInv, PoolTypes, FutureTypes
      <3>2. cpc[d] # "start"
        BY <1>6, <2>3 DEF PoolInv, QueuedIsPending
      <3> QED BY <1>1, <2>3, <3>1, <3>2 DEF PoolInv, FlagsAreFinal, FutureOf, Final
    <2> QED BY <2>1, <2>2, <2>3
  <1>14. P!NoSleeperWithWork'
    BY <1>1 DEF PoolInv, P!NoSleeperWithWork
  <1> QED BY <1>9, <1>12, <1>13, <1>14 DEF Books
\* What a worker does with a task it has fetched.
LEMMA WorkerStep ==
  ASSUME PoolInv, NEW w \in Workers,
         \/ P!Cancelled(w) \/ P!SpuriousWake(w) \/ P!Sentineled(w) \/ P!Spawn(w)
         \/ P!StartTask(w) \/ P!RunTask(w) \/ P!FinishTask(w) \/ P!FreeByWorker(w)
  PROVE  OneReference' /\ Books' /\ P!NoSleeperWithWork'
  <1> USE PoolAssumption DEF P!WGoto, P!futures
  <1>1. /\ UNCHANGED <<queue, task, got>> /\ wpc'[w] # "asleep" /\ wpc'[w] # "fetched"
        /\ \A v \in Workers \ {w} : wpc'[v] = wpc[v]
    BY DEF P!Cancelled, P!SpuriousWake, P!Sentineled, P!Spawn, P!StartTask, P!RunTask,
       P!FinishTask, P!FreeByWorker, PoolInv, PoolTypes, WorkerTypes
  <1>2. \A v \in Workers, d \in Clients : v # w => (Holds(v, d)' <=> Holds(v, d))
    BY <1>1 DEF Holds
  <1>3. \A d \in Clients : Holds(w, d)' => Holds(w, d)
    BY <1>1 DEF P!Cancelled, P!SpuriousWake, P!Sentineled, P!Spawn, P!StartTask, P!RunTask,
       P!FinishTask, P!FreeByWorker, PoolInv, PoolTypes, WorkerTypes, Holds
  <1>4. OneReference' /\ \A d \in Clients : InQueue(d)' <=> InQueue(d)
    BY <1>1, <1>2, <1>3, ReferencesKept DEF PoolInv
  <1>5. P!NoSleeperWithWork'
    BY <1>1 DEF PoolInv, P!NoSleeperWithWork
  <1>6. CASE P!Cancelled(w) \/ P!SpuriousWake(w) \/ P!Sentineled(w) \/ P!Spawn(w)
    <2>1. UNCHANGED <<flag, result, freed, ran, cpc, got>>
      BY <1>6 DEF P!Cancelled, P!SpuriousWake, P!Sentineled, P!Spawn
    <2>2. \A d \in Clients : ~Holds(w, d)'
      BY <1>6 DEF P!Cancelled, P!SpuriousWake, P!Sentineled, P!Spawn, PoolInv, PoolTypes,
         WorkerTypes, Holds
    <2> QED BY <1>1, <1>2, <1>4, <1>5, <2>1, <2>2 DEF PoolInv, Books, QueuedIsPending,
               HeldIsPending, FlagsAreFinal, FutureOf, Final
  <1>7. CASE P!StartTask(w) \/ P!RunTask(w) \/ P!FinishTask(w) \/ P!FreeByWorker(w)
    <2>1. PICK c \in Clients : c = task[w] /\ Holds(w, c) /\ \A d \in Clients \ {c} : ~Holds(w, d)
      BY <1>7 DEF P!StartTask, P!RunTask, P!FinishTask, P!FreeByWorker, PoolInv, PoolTypes,
         WorkerTypes, Holds
    <2>2. ~InQueue(c) /\ \A v \in Workers \ {w} : ~Holds(v, c)
      BY <2>1 DEF PoolInv, OneReference
    <2>3. /\ cpc[c] # "start" /\ freed[c] = 0 /\ ~Final(c)
          /\ ran[c] = IF wpc[w] \in {"ran", "free"} THEN 1 ELSE 0
          /\ wpc[w] = "free" => "DESTROYED" \in flag[c]
      BY <2>1 DEF PoolInv, HeldIsPending
    <2>4. FutureOf(c)
      BY DEF PoolInv, FlagsAreFinal
    \* The step is about the future of c alone.
    <2>5. SUFFICES /\ \A d \in Clients \ {c} :
                       /\ flag'[d] = flag[d] /\ result'[d] = result[d] /\ cpc'[d] = cpc[d]
                       /\ freed'[d] = freed[d] /\ ran'[d] = ran[d]
                   /\ FutureOf(c)'
                   /\ wpc'[w] \in {"fetched", "running", "ran", "free"} =>
                       /\ cpc'[c] # "start" /\ freed'[c] = 0 /\ ~Final(c)'
                       /\ ran'[c] = IF wpc'[w] \in {"ran", "free"} THEN 1 ELSE 0
                       /\ wpc'[w] = "free" => "DESTROYED" \in flag'[c]
      <3>1. QueuedIsPending'
        BY <1>4, <2>2, <2>5 DEF PoolInv, QueuedIsPending, Final
      <3>2. HeldIsPending'
        <4> SUFFICES ASSUME NEW v \in Workers, NEW d \in Clients, Holds(v, d)'
                     PROVE  /\ cpc'[d] # "start" /\ freed'[d] = 0 /\ ~Final(d)'
                            /\ ran'[d] = IF wpc'[v] \in {"ran", "free"} THEN 1 ELSE 0
                            /\ wpc'[v] = "free" => "DESTROYED" \in flag'[d]
          BY DEF HeldIsPending
        <4>1. CASE v = w
          <5>1. d = c
            BY <1>3, <2>1, <4>1
          <5> QED BY <2>5, <4>1, <5>1 DEF Holds
        <4>2. CASE v # w
          <5>1. d # c /\ Holds(v, d)
            BY <1>2, <2>2, <4>2
          <5> QED BY <1>1, <2>5, <4>2, <5>1 DEF PoolInv, HeldIsPending, Final
        <4> QED BY <4>1, <4>2
      <3>3. FlagsAreFinal'
        BY <1>1, <2>5 DEF PoolInv, FlagsAreFinal, FutureOf, Final
      <3> QED BY <1>4, <1>5, <3>1, <3>2, <3>3 DEF Books
    <2>6. CASE P!StartTask(w)
      <3>1. /\ \A d \in Clients \ {c} : flag'[d] = flag[d]
            /\ flag'[c] = flag[c] \cup {"RUNNING"} /\ wpc'[w] = "running" /\ wpc[w] = "fetched"
            /\ UNCHANGED <<result, freed, ran, cpc>>
        BY <2>1, <2>3, <2>6 DEF P!StartTask, PoolInv, PoolTypes, FutureTypes, WorkerTypes, Final
      <3> QED BY <1>1, <2>3, <2>4, <3>1 DEF FutureOf, Final
    <2>7. CASE P!RunTask(w)
      <3>1. /\ \A d \in Clients \ {c} : ran'[d] = ran[d]
            /\ ran'[c] = ran[c] + 1 /\ wpc'[w] = "ran" /\ wpc[w] = "running"
            /\ UNCHANGED <<flag, result, freed, cpc>>
        BY <2>1, <2>7 DEF P!RunTask, PoolInv, PoolTypes, FutureTypes, WorkerTypes
      <3> QED BY <1>1, <2>3, <2>4, <3>1 DEF FutureOf, Final
    <2>8. CASE P!FinishTask(w) /\ "DESTROYED" \in flag[c]
      <3>1. /\ wpc'[w] = "free" /\ wpc[w] = "ran"
            /\ UNCHANGED <<flag, result, freed, ran, cpc>>
        BY <2>1, <2>8 DEF P!FinishTask, PoolInv, PoolTypes, WorkerTypes
      <3> QED BY <1>1, <2>3, <2>4, <2>8, <3>1 DEF FutureOf, Final
    <2>9. CASE P!FinishTask(w) /\ "DESTROYED" \notin flag[c]
      <3>1. /\ wpc'[w] = "fetch" /\ wpc[w] = "ran"
            /\ \A d \in Clients \ {c} :
                  flag'[d] = flag[d] /\ result'[d] = result[d] /\ cpc'[d] = cpc[d]
            /\ flag'[c] = flag[c] \cup {"FINISHED"} /\ result'[c] = c
            /\ cpc'[c] = IF cpc[c] = "waiting" THEN "woken" ELSE cpc[c]
            /\ UNCHANGED <<freed, ran>>
        BY <2>1, <2>9 DEF P!FinishTask, PoolInv, PoolTypes, FutureTypes, WorkerTypes, ClientTypes
      <3> QED BY <1>1, <2>3, <2>4, <2>9, <3>1 DEF FutureOf, Final
    <2>10. CASE P!FreeByWorker(w)
      <3>1. /\ \A d \in Clients \ {c} : freed'[d] = freed[d]
            /\ freed'[c] = freed[c] + 1 /\ wpc'[w] = "fetch" /\ wpc[w] = "free"
            /\ UNCHANGED <<flag, result, ran, cpc>>
        BY <2>1, <2>10 DEF P!FreeByWorker, PoolInv, PoolTypes, FutureTypes, WorkerTypes
      <3> QED BY <1>1, <2>3, <2>4, <3>1 DEF FutureOf, Final
    <2> QED BY <1>7, <2>6, <2>7, <2>8, <2>9, <2>10
  <1> QED BY <1>6, <1>7

\* What a client does with its own future; nobody else's references change.
LEMMA ClientStep ==
  ASSUME PoolInv, NEW c \in Clients,
         \/ P!GetCall(c) \/ P!GetAgain(c) \/ P!GetReturn(c) \/ P!GetTimeout(c)
         \/ P!GetSpurious(c) \/ P!Destroy(c) \/ P!FreeByClient(c)
  PROVE  OneReference' /\ Books' /\ P!NoSleeperWithWork'
  <1> USE PoolAssumption DEF P!CGoto, P!futures
  <1>1. UNCHANGED <<queue, wpc, task, ran, result>>
    BY DEF P!GetCall, P!GetAgain, P!GetTest, P!GetReturn, P!GetTimeout, P!GetSpurious,
       P!Destroy, P!FreeByClient
  <1>2. \A v \in Workers, d \in Clients : Holds(v, d)' <=> Holds(v, d)
    BY <1>1 DEF Holds
  <1>3. OneReference' /\ \A d \in Clients : InQueue(d)' <=> InQueue(d)
    BY <1>1, <1>2, ReferencesKept DEF PoolInv
  <1>4. P!NoSleeperWithWork'
    BY <1>1 DEF PoolInv, P!NoSleeperWithWork
  <1>5. FutureOf(c)
    BY DEF PoolInv, FlagsAreFinal
  <1>6. SUFFICES /\ \A d \in Clients \ {c} :
                     /\ flag'[d] = flag[d] /\ cpc'[d] = cpc[d]
                     /\ freed'[d] = freed[d] /\ got'[d] = got[d]
                 /\ FutureOf(c)'
                 /\ ~Final(c) => freed'[c] = freed[c]
                 /\ Final(c)' => Final(c)
                 /\ "DESTROYED" \in flag[c] => "DESTROYED" \in flag'[c]
                 /\ cpc'[c] # "start"
    <2>1. QueuedIsPending'
      BY <1>1, <1>3, <1>6 DEF PoolInv, QueuedIsPending, Final
    <2>2. HeldIsPending'
      BY <1>1, <1>2, <1>6 DEF PoolInv, HeldIsPending, Final
    <2>3. FlagsAreFinal'
      BY <1>1, <1>6 DEF PoolInv, FlagsAreFinal, FutureOf, Final
    <2> QED BY <1>3, <1>4, <2>1, <2>2, <2>3 DEF Books
  <1> USE DEF PoolInv, PoolTypes, FutureTypes, ClientTypes
  <1>7. CASE P!GetCall(c)
    <2>1. /\ \A d \in Clients \ {c} : flag'[d] = flag[d] /\ cpc'[d] = cpc[d]
          /\ flag'[c] = flag[c] \ {"TIMEOUT"} /\ cpc[c] = "applied"
          /\ cpc'[c] = IF "FINISHED" \in flag[c] THEN "getresult" ELSE "waiting"
          /\ UNCHANGED <<freed, got>>
      BY <1>7 DEF P!GetCall, P!GetTest
    <2> QED BY <1>1, <1>5, <2>1 DEF FutureOf, Final
  <1>8. CASE P!GetAgain(c)
    <2>1. /\ \A d \in Clients \ {c} : cpc'[d] = cpc[d]
          /\ cpc'[c] = IF "FINISHED" \in flag[c] THEN "getresult" ELSE "waiting"
          /\ cpc[c] = "woken"
          /\ UNCHANGED <<flag, freed, got>>
      BY <1>8 DEF P!GetAgain, P!GetTest
    <2> QED BY <1>1, <1>5, <2>1 DEF FutureOf, Final
  <1>9. CASE P!GetReturn(c)
    <2>1. /\ \A d \in Clients \ {c} : cpc'[d] = cpc[d] /\ got'[d] = got[d]
          /\ cpc'[c] = "applied" /\ cpc[c] = "getresult" /\ got'[c] = result[c]
          /\ UNCHANGED <<flag, freed>>
      BY <1>9 DEF P!GetReturn
    <2> QED BY <1>1, <1>5, <2>1 DEF FutureOf, Final
  <1>10. CASE P!GetTimeout(c)
    <2>1. /\ \A d \in Clients \ {c} : flag'[d] = flag[d] /\ cpc'[d] = cpc[d] /\ got'[d] = got[d]
          /\ cpc'[c] = "applied" /\ cpc[c] = "waiting" /\ got'[c] = Null
          /\ flag'[c] = flag[c] \cup {"TIMEOUT"}
          /\ UNCHANGED freed
      BY <1>10 DEF P!GetTimeout
    <2> QED BY <1>1, <1>5, <2>1 DEF FutureOf, Final
  <1>11. CASE P!GetSpurious(c)
    <2>1. /\ \A d \in Clients \ {c} : cpc'[d] = cpc[d]
          /\ cpc'[c] = "woken" /\ cpc[c] = "waiting"
          /\ UNCHANGED <<flag, freed, got>>
      BY <1>11 DEF P!GetSpurious
    <2> QED BY <1>1, <1>5, <2>1 DEF FutureOf, Final
  <1>12. CASE P!Destroy(c) /\ Final(c)
    <2>1. flag[c] \cap {"FINISHED", "CANCELLED"} # {}
      BY <1>12 DEF Final
    <2>2. /\ \A d \in Clients \ {c} : cpc'[d] = cpc[d]
          /\ cpc'[c] = "free" /\ cpc[c] = "applied"
          /\ UNCHANGED <<flag, freed, got>>
      BY <1>12, <2>1 DEF P!Destroy
    <2> QED BY <1>1, <1>5, <1>12, <2>2 DEF FutureOf, Final
  <1>13. CASE P!Destroy(c) /\ ~Final(c)
    <2>1. flag[c] \cap {"FINISHED", "CANCELLED"} = {}
      BY <1>13 DEF Final
    <2>2. /\ \A d \in Clients \ {c} : cpc'[d] = cpc[d] /\ flag'[d] = flag[d]
          /\ cpc'[c] = "done" /\ cpc[c] = "applied" /\ flag'[c] = flag[c] \cup {"DESTROYED"}
          /\ UNCHANGED <<freed, got>>
      BY <1>13, <2>1 DEF P!Destroy
    <2> QED BY <1>1, <1>5, <1>13, <2>2 DEF FutureOf, Final
  <1>14. CASE P!FreeByClient(c)
    <2>1. /\ \A d \in Clients \ {c} : cpc'[d] = cpc[d] /\ freed'[d] = freed[d]
          /\ cpc'[c] = "done" /\ cpc[c] = "free" /\ freed'[c] = freed[c] + 1
          /\ UNCHANGED <<flag, got>>
      BY <1>14 DEF P!FreeByClient
    <2> QED BY <1>1, <1>5, <2>1 DEF FutureOf, Final
  <1> QED BY <1>7, <1>8, <1>9, <1>10, <1>11, <1>12, <1>13, <1>14

LEMMA PoolStep == PoolInv /\ P!Next => PoolInv'
  <1> SUFFICES ASSUME PoolInv, P!Next PROVE PoolInv'
    OBVIOUS
  <1>1. PoolTypes'
    BY FutureTypesStep, WorkerTypesStep, ClientTypesStep DEF PoolInv, PoolTypes
  <1>2. SUFFICES OneReference' /\ Books' /\ P!NoSleeperWithWork'
    BY <1>1, <1>2 DEF PoolInv, Books
  <1>3. ASSUME NEW w \in Workers, P!Worker(w) \/ P!SpuriousWake(w) \/ P!Spawn(w)
        PROVE  OneReference' /\ Books' /\ P!NoSleeperWithWork'
    <2>1. CASE P!Fetch(w)
      <3>1. P!NoSleeperWithWork'
        BY <2>1 DEF P!Fetch, P!WGoto, PoolInv, PoolTypes, WorkerTypes, P!NoSleeperWithWork
      <3> QED BY <2>1, <3>1, FetchStep
    <2> QED BY <1>3, <2>1, WorkerStep DEF P!Worker
  <1>4. ASSUME NEW c \in Clients, P!Client(c) \/ P!GetTimeout(c) \/ P!GetSpurious(c)
        PROVE  OneReference' /\ Books' /\ P!NoSleeperWithWork'
    <2>1. CASE P!Apply(c)
      BY <2>1, PushStep DEF P!Apply, P!CGoto, P!futures
    <2> QED BY <1>4, <2>1, ClientStep DEF P!Client
  <1>5. CASE P!ApplySentinel
    BY <1>5, PushStep, PoolAssumption DEF P!ApplySentinel, P!futures
  <1>6. CASE P!DrainOne
    BY <1>6, DrainStep
  <1>7. CASE P!SpawnFails \/ P!CreateGivesUp \/ P!JoinCall \/ P!JoinWorkers \/ P!FreePool
    <2>1. UNCHANGED <<queue, flag, result, freed, ran, wpc, task, cpc, got>>
      BY <1>7 DEF P!SpawnFails, P!CreateGivesUp, P!JoinCall, P!JoinWorkers, P!FreePool, P!futures
    <2> QED BY <2>1 DEF PoolInv, OneReference, QueuedOnce, Books, QueuedIsPending, HeldIsPending,
               FlagsAreFinal, FutureOf, Final, Holds, InQueue, P!NoSleeperWithWork
  <1> QED BY <1>3, <1>4, <1>5, <1>6, <1>7 DEF P!Next, P!Pool
-----------------------------------------------------------------------------
(* The pool among the programs of the run *)

\* The two instances count with their own copies of Cardinality.
LEMMA SameCardinality ==
  J!Cardinality(Workers) = Cardinality(Workers) /\ P!Cardinality(Workers) = Cardinality(Workers)
  BY DEF J!Cardinality, P!Cardinality, Cardinality

\* Without late applies and failures the pool does no more than with them.
LEMMA JoinIsPool == J!Next => P!Next
  <1>1. ASSUME NEW w \in Workers, J!Worker(w) \/ J!SpuriousWake(w)
        PROVE  P!Worker(w) \/ P!SpuriousWake(w)
    BY <1>1 DEF J!Worker, P!Worker, J!Fetch, P!Fetch, J!Cancelled, P!Cancelled, J!SpuriousWake,
       P!SpuriousWake, J!Sentineled, P!Sentineled, J!StartTask, P!StartTask, J!RunTask,
       P!RunTask, J!FinishTask, P!FinishTask, J!FreeByWorker, P!FreeByWorker, J!WGoto,
       P!WGoto, J!futures, P!futures
  <1>2. ASSUME NEW c \in Clients, J!Client(c) \/ J!GetTimeout(c) \/ J!GetSpurious(c)
        PROVE  P!Client(c) \/ P!GetTimeout(c) \/ P!GetSpurious(c)
    BY <1>2 DEF J!Client, P!Client, J!Apply, P!Apply, J!GetCall, P!GetCall, J!GetAgain, P!GetAgain,
       J!GetReturn, P!GetReturn, J!GetTimeout, P!GetTimeout, J!GetSpurious, P!GetSpurious,
       J!Destroy, P!Destroy, J!FreeByClient, P!FreeByClient, J!GetTest, P!GetTest,
       J!PoolUsable, P!PoolUsable, J!Push, P!Push, J!WokenBy, P!WokenBy, J!CGoto, P!CGoto,
       J!futures, P!futures
  <1>3. J!Pool => P!Pool
    <2> USE SameCardinality
    <2>1. ASSUME NEW w \in Workers, J!Spawn(w) PROVE P!Spawn(w)
      BY <2>1 DEF J!Spawn, P!Spawn, J!WGoto, P!WGoto, J!futures, P!futures
    <2>2. J!CreateGivesUp \/ J!JoinWorkers \/ J!FreePool =>
          P!CreateGivesUp \/ P!JoinWorkers \/ P!FreePool
      BY DEF J!CreateGivesUp, J!JoinWorkers, J!FreePool, P!CreateGivesUp, P!JoinWorkers,
         P!FreePool, J!futures, P!futures
    <2>3. J!JoinCall => P!JoinCall
      BY DEF J!JoinCall, P!JoinCall, J!futures, P!futures
    <2>4. J!ApplySentinel => P!ApplySentinel
      BY DEF J!ApplySentinel, P!ApplySentinel, J!Push, P!Push, J!WokenBy, P!WokenBy,
         J!futures, P!futures
    <2>5. J!DrainOne => P!DrainOne
      BY DEF J!DrainOne, P!DrainOne
    <2> QED BY <2>1, <2>2, <2>3, <2>4, <2>5 DEF J!Pool, P!Pool
  <1>4. ~J!SpawnFails
    BY DEF J!SpawnFails
  <1> QED BY <1>1, <1>2, <1>3, <1>4 DEF J!Next, P!Next

-----------------------------------------------------------------------------
(* tpool_join: the sentinels come after the tasks.                          *)

\* Workers that have fetched their sentinel, and sentinels that nobody has fetched.
Out == {w \in Workers : wpc[w] = "exited" \/ (wpc[w] = "fetched" /\ task[w] = Sentinel)}
Unfetched == count - Cardinality(Out)

Phases ==
    /\ pool \in {"create", "ready", "sentinels", "join", "drain", "gone"}
    /\ cancel = {} /\ count \in Nat
    /\ pool # "create" => Workers # {}
    /\ pool = "sentinels" => count < Cardinality(Workers)
    /\ pool \in {"join", "drain", "gone"} => count = Cardinality(Workers)
    /\ pool \in {"drain", "gone"} => \A w \in Workers : wpc[w] = "exited"

\* Until tpool_join there is no sentinel; then they are the newest in the queue, in front
\* of the tasks, and once one is fetched there is nothing else left.
SentinelsLast ==
    /\ pool \in {"create", "ready"} => Out = {} /\ \A k \in 1 .. Len(queue) : queue[k] # Sentinel
    /\ pool \notin {"create", "ready"} =>
          /\ \A c \in Clients : cpc[c] # "start"
          /\ Unfetched \in 0 .. Len(queue)
          /\ \A k \in 1 .. Len(queue) : queue[k] = Sentinel <=> k <= Unfetched
          /\ Out # {} => Unfetched = Len(queue)

Accounted ==
    \A c \in Clients :
        cpc[c] # "start" => InQueue(c) \/ ran[c] = 1 \/ \E w \in Workers : Holds(w, c)

JoinInv == Phases /\ SentinelsLast /\ Accounted

-----------------------------------------------------------------------------
LEMMA OutIsFinite == IsFiniteSet(Out) /\ Cardinality(Out) \in Nat
  <1>1. Out \in SUBSET Workers
    BY DEF Out
  <1> QED BY <1>1, PoolAssumption, FS_Subset, FS_CardinalityType

LEMMA JoinInit == P!Init => JoinInv
  <1> SUFFICES ASSUME P!Init PROVE JoinInv
    OBVIOUS
  <1>1. Out = {} /\ Len(queue) = 0
    BY DEF P!Init, Out
  <1> QED BY <1>1 DEF P!Init, JoinInv, Phases, SentinelsLast, Accounted

\* When the workers have been joined the queue is empty.
LEMMA DrainedIsEmpty == ASSUME PoolInv, JoinInv, pool \in {"drain", "gone"} PROVE queue = << >>
  <1>1. Out = Workers /\ Out # {} /\ count = Cardinality(Workers)
    BY DEF JoinInv, Phases, Out
  <1>2. Unfetched = 0 /\ Unfetched = Len(queue)
    BY <1>1, OutIsFinite DEF JoinInv, SentinelsLast, Unfetched
  <1> QED BY <1>2 DEF PoolInv, PoolTypes, WorkerTypes

\* A step that leaves the queue, the pool and who is out as they were.
LEMMA QuietStep ==
  ASSUME PoolInv, JoinInv, UNCHANGED <<queue, pool, count, cancel>>, Out' = Out,
         \A w \in Workers : wpc[w] = "exited" => wpc'[w] = "exited",
         \A c \in Clients : cpc[c] # "start" <=> cpc'[c] # "start",
         \A c \in Clients : ran[c] = 1 => ran'[c] = 1,
         \A c \in Clients, w \in Workers : Holds(w, c) => Holds(w, c)' \/ ran'[c] = 1
  PROVE  JoinInv'
  <1>1. Unfetched' = Unfetched
    BY DEF Unfetched
  <1>2. \A c \in Clients : InQueue(c)' <=> InQueue(c)
    BY DEF InQueue
  <1>3. Phases'
    BY DEF JoinInv, Phases
  <1>4. SentinelsLast'
    BY <1>1 DEF JoinInv, SentinelsLast
  <1>5. Accounted'
    BY <1>2 DEF JoinInv, Accounted
  <1> QED BY <1>3, <1>4, <1>5 DEF JoinInv

LEMMA JoinFetch ==
  ASSUME PoolInv, JoinInv, NEW w \in Workers, J!Fetch(w) PROVE JoinInv'
  <1> USE PoolAssumption DEF J!WGoto, J!futures
  <1>1. CASE queue = << >>
    <2>1. /\ UNCHANGED <<queue, pool, count, cancel, cpc, ran, task>>
          /\ wpc[w] = "fetch" /\ wpc' = [wpc EXCEPT ![w] = "asleep"]
      BY <1>1 DEF J!Fetch
    <2>2. Out' = Out
      BY <2>1 DEF Out, PoolInv, PoolTypes, WorkerTypes
    <2>3. \A c \in Clients, v \in Workers : Holds(v, c) => Holds(v, c)'
      BY <2>1 DEF Holds, PoolInv, PoolTypes, WorkerTypes
    <2>4. \A v \in Workers : wpc[v] = "exited" => wpc'[v] = "exited"
      BY <2>1 DEF PoolInv, PoolTypes, WorkerTypes
    <2> QED BY <2>1, <2>2, <2>3, <2>4, QuietStep
  <1>2. CASE queue # << >>
    <2> DEFINE n == Len(queue)
               x == queue[n]
    <2>1. /\ queue \in Seq(Clients \cup {Sentinel})
          /\ queue' = SubSeq(queue, 1, Len(queue) - 1)
          /\ wpc' = [wpc EXCEPT ![w] = "fetched"] /\ task' = [task EXCEPT ![w] = x]
          /\ wpc[w] = "fetch"
          /\ UNCHANGED <<ran, cpc, pool, count, cancel>>
      BY <1>2 DEF J!Fetch, PoolInv, PoolTypes, WorkerTypes
    <2>2. /\ Len(queue') = n - 1 /\ n \in 1 .. n /\ n \in Nat
          /\ \A k \in 1 .. n - 1 : queue'[k] = queue[k]
          /\ x \in Clients \cup {Sentinel}
      BY <1>2, <2>1, TakeLast
    <2>3. Out' = IF x = Sentinel THEN Out \cup {w} ELSE Out
      BY <2>1 DEF Out, PoolInv, PoolTypes, WorkerTypes
    <2>4. w \notin Out
      BY <2>1 DEF Out
    <2>5. Cardinality(Out') = IF x = Sentinel THEN Cardinality(Out) + 1 ELSE Cardinality(Out)
      BY <2>3, <2>4, OutIsFinite, FS_AddElement
    <2>6. Phases'
      BY <2>1 DEF JoinInv, Phases, PoolInv, PoolTypes, WorkerTypes
    <2>7. Accounted'
      <3>1. \A c \in Clients : InQueue(c) => InQueue(c)' \/ c = x
        BY <2>2 DEF InQueue
      <3>2. \A c \in Clients : c = x => Holds(w, c)'
        BY <2>1 DEF Holds, PoolInv, PoolTypes, WorkerTypes
      <3>3. \A c \in Clients, v \in Workers : Holds(v, c) => Holds(v, c)'
        BY <2>1 DEF Holds, PoolInv, PoolTypes, WorkerTypes
      <3> HIDE DEF x
      <3> QED BY <2>1, <3>1, <3>2, <3>3 DEF JoinInv, Accounted
    <2>8. SentinelsLast'
      <3>1. CASE pool \in {"create", "ready"}
        <4>1. x # Sentinel /\ Out = {}
          BY <2>2, <3>1 DEF JoinInv, SentinelsLast
        <4> QED BY <2>1, <2>2, <2>3, <3>1, <4>1 DEF JoinInv, SentinelsLast
      <3>2. CASE pool \notin {"create", "ready"}
        <4>1. x = Sentinel <=> Unfetched = n
          BY <2>2, <3>2 DEF JoinInv, SentinelsLast
        <4>2. Unfetched \in Nat /\ Unfetched' = IF x = Sentinel THEN Unfetched - 1 ELSE Unfetched
          BY <2>1, <2>5, <3>2, OutIsFinite DEF Unfetched, JoinInv, Phases, SentinelsLast
        <4>3. x # Sentinel => Out = {} /\ Out' = {}
          BY <2>3, <3>2, <4>1 DEF JoinInv, SentinelsLast
        <4>4. Unfetched' \in 0 .. n - 1 /\ (Out' # {} => Unfetched' = n - 1)
          BY <2>2, <3>2, <4>1, <4>2, <4>3 DEF JoinInv, SentinelsLast
        <4>5. \A k \in 1 .. n - 1 : queue'[k] = Sentinel <=> k <= Unfetched'
          BY <2>2, <3>2, <4>1, <4>2 DEF JoinInv, SentinelsLast
        <4> QED BY <2>1, <2>2, <3>2, <4>4, <4>5 DEF JoinInv, SentinelsLast
      <3> QED BY <3>1, <3>2
    <2> QED BY <2>6, <2>7, <2>8 DEF JoinInv
  <1> QED BY <1>1, <1>2

LEMMA JoinWorker ==
  ASSUME PoolInv, JoinInv, NEW w \in Workers,
         \/ J!Cancelled(w) \/ J!SpuriousWake(w) \/ J!Sentineled(w)
         \/ J!StartTask(w) \/ J!RunTask(w) \/ J!FinishTask(w) \/ J!FreeByWorker(w)
  PROVE  JoinInv'
  <1> USE PoolAssumption DEF J!WGoto, J!futures, PoolInv, PoolTypes, WorkerTypes
  <1>1. ~J!Cancelled(w)
    BY DEF J!Cancelled, JoinInv, Phases
  <1>2. UNCHANGED <<queue, pool, count, cancel, task>>
    BY <1>1 DEF J!SpuriousWake, J!Sentineled, J!StartTask, J!RunTask, J!FinishTask, J!FreeByWorker
  <1>3. Out' = Out /\ \A v \in Workers : wpc[v] = "exited" => wpc'[v] = "exited"
    BY <1>1, <1>2 DEF J!SpuriousWake, J!Sentineled, J!StartTask, J!RunTask, J!FinishTask,
       J!FreeByWorker, Out
  <1>4. \A c \in Clients : cpc[c] # "start" <=> cpc'[c] # "start"
    <2>1. CASE J!FinishTask(w)
      BY <2>1 DEF J!FinishTask, ClientTypes
    <2> QED BY <1>1, <2>1 DEF J!SpuriousWake, J!Sentineled, J!StartTask, J!RunTask, J!FreeByWorker
  <1>5. \A c \in Clients, v \in Workers : Holds(v, c) /\ v # w => Holds(v, c)'
    BY <1>1 DEF J!SpuriousWake, J!Sentineled, J!StartTask, J!RunTask, J!FinishTask,
       J!FreeByWorker, Holds
  <1>6. ASSUME NEW c \in Clients
        PROVE  (ran[c] = 1 => ran'[c] = 1) /\ (Holds(w, c) => Holds(w, c)' \/ ran'[c] = 1)
    <2>1. Holds(w, c) => /\ ~Final(c)
                         /\ ran[c] = IF wpc[w] \in {"ran", "free"} THEN 1 ELSE 0
      BY DEF HeldIsPending
    <2>2. CASE J!SpuriousWake(w) \/ J!Sentineled(w)
      BY <2>2 DEF J!SpuriousWake, J!Sentineled, Holds
    <2>3. CASE J!StartTask(w)
      BY <2>1, <2>3 DEF J!StartTask, Holds, Final
    <2>4. CASE J!RunTask(w)
      <3>1. task[w] \in Clients /\ Holds(w, task[w])
        BY <2>4 DEF J!RunTask, Holds
      <3>2. ran[task[w]] = 0
        BY <2>4, <3>1 DEF J!RunTask, HeldIsPending
      <3> QED BY <2>1, <2>4, <3>1, <3>2 DEF J!RunTask, Holds, FutureTypes
    <2>5. CASE J!FinishTask(w) \/ J!FreeByWorker(w)
      BY <2>1, <2>5 DEF J!FinishTask, J!FreeByWorker, Holds
    <2> QED BY <1>1, <2>2, <2>3, <2>4, <2>5
  <1>7. \A c \in Clients, v \in Workers : Holds(v, c) => Holds(v, c)' \/ ran'[c] = 1
    BY <1>5, <1>6
  <1> QED BY <1>2, <1>3, <1>4, <1>6, <1>7, QuietStep

LEMMA JoinClient ==
  ASSUME PoolInv, JoinInv, NEW c \in Clients,
         \/ J!GetCall(c) \/ J!GetAgain(c) \/ J!GetReturn(c) \/ J!GetTimeout(c)
         \/ J!GetSpurious(c) \/ J!Destroy(c) \/ J!FreeByClient(c)
  PROVE  JoinInv'
  <1> USE DEF J!CGoto, J!futures
  <1>1. UNCHANGED <<queue, pool, count, cancel, wpc, task, ran>>
    BY DEF J!GetCall, J!GetAgain, J!GetTest, J!GetReturn, J!GetTimeout, J!GetSpurious,
       J!Destroy, J!FreeByClient
  <1>2. \A d \in Clients : cpc[d] # "start" <=> cpc'[d] # "start"
    BY DEF J!GetCall, J!GetAgain, J!GetTest, J!GetReturn, J!GetTimeout, J!GetSpurious,
       J!Destroy, J!FreeByClient, PoolInv, PoolTypes, ClientTypes
  <1>3. Out' = Out /\ \A d \in Clients, w \in Workers : Holds(w, d) => Holds(w, d)'
    BY <1>1 DEF Out, Holds
  <1> QED BY <1>1, <1>2, <1>3, QuietStep

\* tpool_apply, of a task before the join or of a sentinel during it.
LEMMA JoinPush ==
  ASSUME PoolInv, JoinInv, NEW x \in Clients \cup {Sentinel},
         queue' = J!Push(x), wpc' = J!WokenBy(queue), UNCHANGED <<ran, task, cancel>>
  PROVE  /\ Out' = Out /\ \A w \in Workers : wpc[w] = "exited" => wpc'[w] = "exited"
         /\ Len(queue') = Len(queue) + 1 /\ Len(queue) \in Nat /\ queue'[1] = x
         /\ \A k \in 2 .. Len(queue') : k - 1 \in 1 .. Len(queue) /\ queue'[k] = queue[k - 1]
         /\ \A c \in Clients : InQueue(c) => InQueue(c)'
         /\ x \in Clients => InQueue(x)'
         /\ \A c \in Clients, w \in Workers : Holds(w, c) => Holds(w, c)'
  <1>1. /\ Len(queue') = Len(queue) + 1 /\ Len(queue) \in Nat /\ queue'[1] = x
        /\ \A k \in 1 .. Len(queue) : queue'[k + 1] = queue[k]
    BY PushFirst DEF J!Push, PoolInv, PoolTypes, WorkerTypes
  <1>2. \A k \in 2 .. Len(queue') : k - 1 \in 1 .. Len(queue) /\ queue'[k] = queue[k - 1]
    BY <1>1
  <1>3. /\ Out' = Out /\ \A w \in Workers : wpc[w] = "exited" => wpc'[w] = "exited"
        /\ \A c \in Clients, w \in Workers : Holds(w, c) => Holds(w, c)'
    BY DEF J!WokenBy, Out, Holds, PoolInv, PoolTypes, WorkerTypes
  <1>4. ASSUME NEW c \in Clients, InQueue(c) PROVE InQueue(c)'
    BY <1>1, <1>4 DEF InQueue
  <1>5. InQueue(x)'
    BY <1>1 DEF InQueue
  <1> QED BY <1>1, <1>2, <1>3, <1>4, <1>5

LEMMA JoinStep == PoolInv /\ JoinInv /\ J!Next => JoinInv'
  <1> SUFFICES ASSUME PoolInv, JoinInv, J!Next PROVE JoinInv'
    OBVIOUS
  <1> USE PoolAssumption
  <1>1. ASSUME NEW w \in Workers, J!Worker(w) \/ J!SpuriousWake(w) PROVE JoinInv'
    BY <1>1, JoinFetch, JoinWorker DEF J!Worker
  <1>2. ASSUME NEW c \in Clients, J!Apply(c) PROVE JoinInv'
    <2>1. /\ pool = "ready" /\ queue' = J!Push(c) /\ wpc' = J!WokenBy(queue)
          /\ cpc' = [cpc EXCEPT ![c] = "applied"]
          /\ UNCHANGED <<ran, task, cancel, pool, count>>
      BY <1>2 DEF J!Apply, J!PoolUsable, J!CGoto
    <2>2. Phases'
      BY <2>1 DEF JoinInv, Phases
    <2>3. SentinelsLast'
      <3>1. ASSUME NEW k \in 1 .. Len(queue') PROVE queue'[k] # Sentinel
        <4>1. k = 1 \/ k \in 2 .. Len(queue')
          BY <2>1, JoinPush
        <4> QED BY <2>1, <4>1, JoinPush DEF JoinInv, SentinelsLast
      <3> QED BY <2>1, <3>1, JoinPush DEF JoinInv, SentinelsLast
    <2>4. Accounted'
      <3>1. \A d \in Clients : cpc'[d] # "start" => d = c \/ cpc[d] # "start"
        BY <2>1 DEF PoolInv, PoolTypes, ClientTypes
      <3> QED BY <2>1, <3>1, JoinPush DEF JoinInv, Accounted
    <2> QED BY <2>2, <2>3, <2>4 DEF JoinInv
  <1>3. ASSUME NEW c \in Clients, J!Client(c) \/ J!GetTimeout(c) \/ J!GetSpurious(c)
        PROVE  JoinInv'
    BY <1>2, <1>3, JoinClient DEF J!Client
  <1>4. ASSUME NEW w \in Workers, J!Spawn(w) PROVE JoinInv'
    <2>1. /\ pool = "create" /\ wpc[w] = "none" /\ wpc' = [wpc EXCEPT ![w] = "fetch"]
          /\ count' = count + 1 /\ pool' \in {"create", "ready"}
          /\ UNCHANGED <<queue, ran, task, cancel, cpc>>
      BY <1>4 DEF J!Spawn, J!WGoto
    <2>2. Out' = Out /\ \A c \in Clients, v \in Workers : Holds(v, c) => Holds(v, c)'
      BY <2>1 DEF Out, Holds, PoolInv, PoolTypes, WorkerTypes
    <2>3. Phases'
      BY <2>1 DEF JoinInv, Phases
    <2>4. SentinelsLast'
      BY <2>1, <2>2 DEF JoinInv, SentinelsLast
    <2>5. Accounted'
      BY <2>1, <2>2 DEF JoinInv, Accounted, InQueue
    <2> QED BY <2>3, <2>4, <2>5 DEF JoinInv
  <1>5. CASE J!CreateGivesUp
    BY <1>5 DEF J!CreateGivesUp, JoinInv, Phases
  <1>6. CASE J!JoinCall
    <2>1. /\ pool = "ready" /\ pool' = "sentinels" /\ count' = 0
          /\ \A c \in Clients : cpc[c] # "start"
          /\ UNCHANGED <<queue, ran, wpc, task, cancel, cpc>>
      BY <1>6 DEF J!JoinCall
    <2>2. Out' = {} /\ Unfetched' = 0 /\ \A k \in 1 .. Len(queue) : queue[k] # Sentinel
      <3>1. Out' = Out /\ Out = {} /\ \A k \in 1 .. Len(queue) : queue[k] # Sentinel
        BY <2>1 DEF Out, JoinInv, SentinelsLast
      <3>2. Cardinality(Out') = 0
        BY <3>1, FS_EmptySet
      <3> QED BY <2>1, <3>1, <3>2 DEF Unfetched
    <2>3. Phases'
      <3>1. Cardinality(Workers) \in Nat /\ Cardinality(Workers) # 0
        BY <2>1, FS_CardinalityType, FS_EmptySet DEF JoinInv, Phases
      <3> QED BY <2>1, <3>1 DEF JoinInv, Phases
    <2>4. SentinelsLast'
      <3>1. Len(queue) \in Nat
        BY DEF PoolInv, PoolTypes, WorkerTypes
      <3> QED BY <2>1, <2>2, <3>1 DEF SentinelsLast
    <2>5. Accounted'
      BY <2>1 DEF JoinInv, Accounted, InQueue, Holds
    <2> QED BY <2>3, <2>4, <2>5 DEF JoinInv
  <1>7. CASE J!ApplySentinel
    <2>1. /\ pool = "sentinels" /\ queue' = J!Push(Sentinel) /\ wpc' = J!WokenBy(queue)
          /\ count' = count + 1
          /\ pool' = IF count + 1 = Cardinality(Workers) THEN "join" ELSE "sentinels"
          /\ UNCHANGED <<ran, task, cancel, cpc>>
      BY <1>7, SameCardinality DEF J!ApplySentinel
    <2>2. Phases'
      <3>1. Cardinality(Workers) \in Nat
        BY FS_CardinalityType
      <3> QED BY <2>1, <3>1 DEF JoinInv, Phases
    <2>3. SentinelsLast'
      <3>1. Unfetched' = Unfetched + 1 /\ Unfetched \in 0 .. Len(queue)
        <4>1. Out' = Out
          BY <2>1, JoinPush
        <4> QED BY <2>1, <4>1, OutIsFinite DEF Unfetched, JoinInv, SentinelsLast, Phases
      <3>2. ASSUME NEW k \in 1 .. Len(queue')
            PROVE  queue'[k] = Sentinel <=> k <= Unfetched'
        <4>1. CASE k = 1
          BY <2>1, <3>1, <4>1, JoinPush
        <4>2. CASE k # 1
          <5>1. k \in 2 .. Len(queue')
            BY <4>2
          <5>2. k - 1 \in 1 .. Len(queue) /\ queue'[k] = queue[k - 1]
            BY <2>1, <5>1, JoinPush
          <5>3. queue[k - 1] = Sentinel <=> k - 1 <= Unfetched
            BY <2>1, <5>2 DEF JoinInv, SentinelsLast
          <5> QED BY <3>1, <5>1, <5>2, <5>3
        <4> QED BY <4>1, <4>2
      <3>3. Unfetched' \in 0 .. Len(queue') /\ (Out' # {} => Unfetched' = Len(queue'))
        BY <2>1, <3>1, JoinPush DEF JoinInv, SentinelsLast
      <3> QED BY <2>1, <3>2, <3>3 DEF JoinInv, SentinelsLast
    <2>4. Accounted'
      BY <2>1, JoinPush DEF JoinInv, Accounted
    <2> QED BY <2>2, <2>3, <2>4 DEF JoinInv
  <1>8. CASE J!JoinWorkers \/ J!FreePool
    <2>1. /\ pool \in {"join", "drain"} /\ pool' \in {"drain", "gone"}
          /\ \A w \in Workers : wpc[w] = "exited"
          /\ UNCHANGED <<queue, ran, wpc, task, cancel, cpc, count>>
      BY <1>8 DEF J!JoinWorkers, J!FreePool, JoinInv, Phases
    <2>2. Out' = Out /\ Unfetched' = Unfetched
      BY <2>1 DEF Out, Unfetched
    <2>3. Phases'
      BY <2>1 DEF JoinInv, Phases
    <2>4. SentinelsLast'
      BY <2>1, <2>2 DEF JoinInv, SentinelsLast
    <2>5. Accounted'
      BY <2>1 DEF JoinInv, Accounted, InQueue, Holds
    <2> QED BY <2>3, <2>4, <2>5 DEF JoinInv
  <1>9. CASE J!DrainOne
    BY <1>9, DrainedIsEmpty DEF J!DrainOne
  <1>10. CASE J!SpawnFails
    BY <1>10 DEF J!SpawnFails
  <1> QED BY <1>1, <1>3, <1>4, <1>5, <1>6, <1>7, <1>8, <1>9, <1>10 DEF J!Next, J!Pool

LEMMA JoinSafe == PoolInv /\ JoinInv => P!JoinCompletesTasks
  <1> SUFFICES ASSUME PoolInv, JoinInv, pool \in {"drain", "gone"}
               PROVE  /\ \A w \in Workers : wpc[w] = "exited"
                      /\ queue = << >> /\ \A c \in Clients : cpc[c] # "start" /\ ran[c] = 1
    BY DEF P!JoinCompletesTasks
  <1>1. queue = << >>
    BY DrainedIsEmpty
  <1>2. \A w \in Workers : wpc[w] = "exited"
    BY DEF JoinInv, Phases
  <1>3. \A c \in Clients : cpc[c] # "start" /\ ~InQueue(c) /\ \A w \in Workers : ~Holds(w, c)
    BY <1>1, <1>2 DEF JoinInv, SentinelsLast, InQueue, Holds
  <1> QED BY <1>1, <1>2, <1>3 DEF JoinInv, Accounted

-----------------------------------------------------------------------------
(* work-steal: a task is in one place until join_work has counted it.       *)

Waits(x) == \E k \in W!Thieves : \E j \in 1 .. Len(deques[k]) : deques[k][j] = x
Taken(x) == \E k \in W!Thieves : work[k] = x

\* The tasks that join_work has not yet counted.
Uncounted == {x \in W!Tasks : Waits(x) \/ Taken(x)}

StealTypes ==
    /\ deques \in [W!Thieves -> Seq(W!Tasks)]
    /\ done \in BOOLEAN /\ ws_freed \in Nat
    /\ i \in [W!Thieves -> 0 .. NThreads]
    /\ work \in [W!Thieves -> W!Tasks \cup {W!NoWork}]
    /\ ws_ran \in [W!Tasks -> Nat]
    /\ ws_pc \in [W!Thieves -> {"take", "steal", "print", "join", "donetask", "setdone", "exit"}]
    /\ \A k \in W!Thieves : work[k] # W!NoWork <=> ws_pc[k] \in {"print", "join"}

\* A task is in one place.
OnePlace ==
    /\ \A k, l \in W!Thieves : \A j \in 1 .. Len(deques[k]), m \in 1 .. Len(deques[l]) :
          deques[k][j] = deques[l][m] => k = l /\ j = m
    /\ \A k, l \in W!Thieves : work[k] = work[l] /\ work[k] # W!NoWork => k = l
    /\ \A x \in W!Tasks : Waits(x) => ~Taken(x)

RanOnce ==
    \A x \in W!Tasks :
        /\ Waits(x) => ws_ran[x] = 0
        /\ \A k \in W!Thieves : work[k] = x => ws_ran[x] = IF ws_pc[k] = "print" THEN 0 ELSE 1
        /\ ~Waits(x) /\ ~Taken(x) => ws_ran[x] = 1

Counted == IsFiniteSet(Uncounted) /\ join_count = Cardinality(Uncounted)

\* done_task is run by the thread that brought the count to zero.
DoneInTurn ==
    /\ \A k \in W!Thieves : ws_pc[k] \in {"donetask", "setdone"} =>
          /\ join_count = 0 /\ ~done
          /\ ws_freed = IF ws_pc[k] = "donetask" THEN 0 ELSE 1
          /\ \A l \in W!Thieves \ {k} : ws_pc[l] \notin {"donetask", "setdone"}
    /\ ws_freed > 0 => ws_freed = 1 /\ join_count = 0
    /\ done => ws_freed = 1
    /\ \A k \in W!Thieves : ws_pc[k] = "exit" => done

StealInv == StealTypes /\ OnePlace /\ RanOnce /\ Counted /\ DoneInTurn

-----------------------------------------------------------------------------
LEMMA FunctionIsSeq ==
  ASSUME NEW n \in Nat, NEW Elem, NEW q \in [1 .. n -> Elem] PROVE q \in Seq(Elem) /\ Len(q) = n
  OBVIOUS

LEMMA NoWorkIsNoTask == W!NoWork \notin W!Tasks
  BY DEF W!NoWork, W!Tasks

LEMMA StealInit == W!Init => StealInv
  <1> SUFFICES ASSUME W!Init PROVE StealInv
    OBVIOUS
  <1> USE StealAssumption DEF W!Init
  <1>1. \A k \in W!Thieves :
           /\ deques[k] \in Seq(W!Tasks) /\ Len(deques[k]) = NPrints
           /\ \A j \in 1 .. NPrints : deques[k][j] = <<k, j>>
    <2> SUFFICES ASSUME NEW k \in W!Thieves
                 PROVE  /\ deques[k] \in Seq(W!Tasks) /\ Len(deques[k]) = NPrints
                        /\ \A j \in 1 .. NPrints : deques[k][j] = <<k, j>>
      OBVIOUS
    <2>1. deques[k] = [j \in 1 .. NPrints |-> <<k, j>>]
      OBVIOUS
    <2>2. [j \in 1 .. NPrints |-> <<k, j>>] \in [1 .. NPrints -> W!Tasks]
      BY DEF W!Tasks
    <2> QED BY <2>1, <2>2, FunctionIsSeq
  <1>2. deques \in [W!Thieves -> Seq(W!Tasks)]
    BY <1>1
  <1>3. StealTypes
    <2>1. 0 \in 0 .. NThreads
      OBVIOUS
    <2>2. i \in [W!Thieves -> 0 .. NThreads]
      BY <2>1
    <2>3. work \in [W!Thieves -> W!Tasks \cup {W!NoWork}] /\ ws_ran \in [W!Tasks -> Nat]
      OBVIOUS
    <2> QED BY <1>2, <2>2, <2>3 DEF StealTypes
  <1>4. \A k \in W!Thieves : \A j \in 1 .. NPrints : deques[k][j] = <<k, j>>
    BY <1>1
  <1>5. \A x \in W!Tasks : Waits(x) /\ ~Taken(x)
    <2> SUFFICES ASSUME NEW x \in W!Tasks PROVE Waits(x) /\ ~Taken(x)
      OBVIOUS
    <2>1. PICK k \in W!Thieves, j \in 1 .. NPrints : x = <<k, j>>
      BY DEF W!Tasks
    <2> QED BY <1>1, <2>1, NoWorkIsNoTask DEF Waits, Taken
  <1>6. OnePlace
    BY <1>1, <1>5 DEF OnePlace
  <1>7. RanOnce
    BY <1>5, NoWorkIsNoTask DEF RanOnce
  <1>8. Counted
    <2>1. Uncounted = W!Tasks
      BY <1>5 DEF Uncounted
    <2>2. IsFiniteSet(W!Thieves) /\ Cardinality(W!Thieves) = NThreads
      BY FS_Interval DEF W!Thieves
    <2>3. IsFiniteSet(1 .. NPrints) /\ Cardinality(1 .. NPrints) = NPrints
      BY FS_Interval
    <2>4. IsFiniteSet(W!Tasks) /\ Cardinality(W!Tasks) = NThreads * NPrints
      BY <2>2, <2>3, FS_Product DEF W!Tasks
    <2> QED BY <2>1, <2>4 DEF Counted
  <1>9. DoneInTurn
    BY DEF DoneInTurn
  <1> QED BY <1>3, <1>6, <1>7, <1>8, <1>9 DEF StealInv

\* A thread takes the last task of its own deque or the first one of another: it is
\* in its hands instead of the deque.
LEMMA ObtainStep ==
  ASSUME StealInv, NEW k \in W!Thieves, NEW l \in W!Thieves, NEW r \in Seq(W!Tasks),
         NEW at \in 1 .. Len(deques[l]), NEW shift \in {0, 1},
         Len(r) = Len(deques[l]) - 1, at = IF shift = 1 THEN 1 ELSE Len(deques[l]),
         \A j \in 1 .. Len(r) : r[j] = deques[l][j + shift],
         deques' = [deques EXCEPT ![l] = r],
         work' = [work EXCEPT ![k] = deques[l][at]],
         work[k] = W!NoWork, ws_pc' = [ws_pc EXCEPT ![k] = "print"],
         ws_pc[k] \notin {"donetask", "setdone", "exit"},
         UNCHANGED <<i, join_count, done, ws_freed, ws_ran>>
  PROVE  StealInv'
  <1> DEFINE x == deques[l][at]
             was(h, j) == IF h = l THEN j + shift ELSE j
  <1>1. x \in W!Tasks /\ Waits(x) /\ x # W!NoWork
    BY NoWorkIsNoTask DEF StealInv, StealTypes, Waits
  <1>2. ASSUME NEW h \in W!Thieves, NEW j \in 1 .. Len(deques'[h])
        PROVE  /\ was(h, j) \in 1 .. Len(deques[h]) /\ deques'[h][j] = deques[h][was(h, j)]
               /\ ~(h = l /\ was(h, j) = at)
    <2>1. CASE h = l
      <3>1. deques'[h] = r /\ Len(deques[l]) \in Nat /\ Len(r) \in Nat
        BY <2>1 DEF StealInv, StealTypes
      <3>2. j \in 1 .. Len(r) /\ j + shift \in 1 .. Len(deques[l]) /\ j + shift # at
        BY <1>2, <3>1
      <3> QED BY <2>1, <3>1, <3>2
    <2>2. CASE h # l
      BY <1>2, <2>2 DEF StealInv, StealTypes
    <2> QED BY <2>1, <2>2
  <1>3. ASSUME NEW h \in W!Thieves, NEW j \in 1 .. Len(deques[h]), ~(h = l /\ j = at)
        PROVE  \E m \in 1 .. Len(deques'[h]) : deques'[h][m] = deques[h][j]
    <2>1. CASE h = l
      <3>1. j - shift \in 1 .. Len(r) /\ r[j - shift] = deques[l][j]
        BY <1>3, <2>1
      <3> QED BY <2>1, <3>1 DEF StealInv, StealTypes
    <2>2. CASE h # l
      BY <2>2 DEF StealInv, StealTypes
    <2> QED BY <2>1, <2>2
  <1>4. /\ \A h \in W!Thieves : work'[h] = IF h = k THEN x ELSE work[h]
        /\ \A h \in W!Thieves : ws_pc'[h] = IF h = k THEN "print" ELSE ws_pc[h]
    BY DEF StealInv, StealTypes
  <1>5. \A y \in W!Tasks : Waits(y)' <=> Waits(y) /\ y # x
    <2> SUFFICES ASSUME NEW y \in W!Tasks PROVE Waits(y)' <=> Waits(y) /\ y # x
      OBVIOUS
    <2>1. ASSUME Waits(y)' PROVE Waits(y) /\ y # x
      <3>1. PICK h \in W!Thieves : \E j \in 1 .. Len(deques'[h]) : deques'[h][j] = y
        BY <2>1 DEF Waits
      <3>2. PICK j \in 1 .. Len(deques'[h]) : deques'[h][j] = y
        BY <3>1
      <3>3. /\ was(h, j) \in 1 .. Len(deques[h]) /\ deques[h][was(h, j)] = y
            /\ ~(h = l /\ was(h, j) = at)
        BY <1>2, <3>2
      <3>4. y # x
        BY <3>3 DEF StealInv, OnePlace
      <3> QED BY <3>3, <3>4 DEF Waits
    <2>2. ASSUME Waits(y), y # x PROVE Waits(y)'
      <3>1. PICK h \in W!Thieves : \E j \in 1 .. Len(deques[h]) : deques[h][j] = y
        BY <2>2 DEF Waits
      <3>2. PICK j \in 1 .. Len(deques[h]) : deques[h][j] = y
        BY <3>1
      <3> QED BY <1>3, <2>2, <3>2 DEF Waits
    <2> QED BY <2>1, <2>2
  <1>6. ASSUME NEW g \in W!Thieves, NEW h \in W!Thieves, NEW j \in 1 .. Len(deques'[g]),
               NEW m \in 1 .. Len(deques'[h]), deques'[g][j] = deques'[h][m]
        PROVE  g = h /\ j = m
    <2>1. g = h /\ was(g, j) = was(h, m)
      BY <1>2, <1>6 DEF StealInv, OnePlace
    <2> QED BY <2>1
  <1>7. StealTypes'
    BY <1>1, <1>4 DEF StealInv, StealTypes
  <1> HIDE DEF x, was
  <1>8. \A y \in W!Tasks : Taken(y)' <=> Taken(y) \/ y = x
    BY <1>1, <1>4, NoWorkIsNoTask DEF Taken
  <1>9. OnePlace'
    <2>1. ~Taken(x)
      BY <1>1 DEF StealInv, OnePlace
    <2> QED BY <1>1, <1>4, <1>5, <1>6, <1>8, <2>1 DEF StealInv, OnePlace, Taken
  <1>10. RanOnce'
    <2>1. ~Taken(x)
      BY <1>1 DEF StealInv, OnePlace
    <2> QED BY <1>1, <1>4, <1>5, <1>8, <2>1, NoWorkIsNoTask DEF StealInv, RanOnce, Taken
  <1>11. Counted'
    <2>1. Uncounted' = Uncounted
      BY <1>1, <1>5, <1>8 DEF Uncounted
    <2> QED BY <2>1 DEF StealInv, Counted
  <1>12. DoneInTurn'
    BY <1>4 DEF StealInv, DoneInTurn
  <1> QED BY <1>7, <1>9, <1>10, <1>11, <1>12 DEF StealInv

LEMMA StealStep == StealInv /\ W!Next => StealInv'
  <1> SUFFICES ASSUME StealInv, NEW k \in W!Thieves, W!Step(k) PROVE StealInv'
    BY DEF W!Next
  <1> USE DEF W!Goto
  \* No step but the two that obtain a task moves one into a deque or a hand.
  <1>1. ASSUME UNCHANGED <<deques, work>>
        PROVE  /\ \A x : (Waits(x)' <=> Waits(x)) /\ (Taken(x)' <=> Taken(x))
               /\ Uncounted' = Uncounted /\ OnePlace'
    BY <1>1 DEF Waits, Taken, Uncounted, StealInv, OnePlace
  <1>2. CASE W!Take(k) /\ deques[k] # << >>
    <2>1. deques[k] \in Seq(W!Tasks) /\ work[k] = W!NoWork
      BY <1>2 DEF W!Take, StealInv, StealTypes
    <2> DEFINE r == SubSeq(deques[k], 1, Len(deques[k]) - 1)
    <2>2. /\ r \in Seq(W!Tasks) /\ Len(r) = Len(deques[k]) - 1
          /\ \A j \in 1 .. Len(r) : r[j] = deques[k][j + 0]
          /\ Len(deques[k]) \in 1 .. Len(deques[k])
      BY <1>2, <2>1, TakeLast
    <2>3. /\ deques' = [deques EXCEPT ![k] = r] /\ ws_pc[k] = "take"
          /\ work' = [work EXCEPT ![k] = deques[k][Len(deques[k])]]
          /\ ws_pc' = [ws_pc EXCEPT ![k] = "print"]
          /\ UNCHANGED <<i, join_count, done, ws_freed, ws_ran>>
      BY <1>2 DEF W!Take
    <2> HIDE DEF r
    <2>4. PICK last \in 1 .. Len(deques[k]) : last = Len(deques[k])
      BY <2>2
    <2>5. last = IF 0 = 1 THEN 1 ELSE Len(deques[k])
      BY <2>4
    <2>6. work' = [work EXCEPT ![k] = deques[k][last]]
      BY <2>3, <2>4
    <2> QED BY <2>1, <2>2, <2>3, <2>5, <2>6, ObtainStep
  <1>3. CASE W!Steal(k) /\ i[k] # k /\ deques[i[k]] # << >>
    <2>1. PICK l \in W!Thieves : l = i[k]
      BY <1>3, StealAssumption DEF W!Steal, W!Thieves, StealInv, StealTypes
    <2>2. deques[l] \in Seq(W!Tasks) /\ work[k] = W!NoWork
      BY <1>3 DEF W!Steal, StealInv, StealTypes
    <2> DEFINE r == Tail(deques[l])
    <2>3. /\ r \in Seq(W!Tasks) /\ Len(r) = Len(deques[l]) - 1
          /\ \A j \in 1 .. Len(r) : r[j] = deques[l][j + 1]
          /\ 1 \in 1 .. Len(deques[l]) /\ Head(deques[l]) = deques[l][1]
      BY <1>3, <2>1, <2>2, TakeFirst
    <2>4. /\ deques' = [deques EXCEPT ![l] = r] /\ ws_pc[k] = "steal"
          /\ work' = [work EXCEPT ![k] = deques[l][1]]
          /\ ws_pc' = [ws_pc EXCEPT ![k] = "print"]
          /\ UNCHANGED <<i, join_count, done, ws_freed, ws_ran>>
      BY <1>3, <2>1, <2>3 DEF W!Steal
    <2> HIDE DEF r
    <2> QED BY <2>2, <2>3, <2>4, ObtainStep
  <1>4. CASE \/ W!Take(k) /\ deques[k] = << >>
             \/ W!Steal(k) /\ (i[k] = k \/ deques[i[k]] = << >>)
             \/ W!CheckDone(k)
    <2>1. /\ UNCHANGED <<deques, work, join_count, done, ws_freed, ws_ran>>
          /\ ws_pc[k] \in {"take", "steal"}
          /\ i' \in [W!Thieves -> 0 .. NThreads]
          /\ \/ ws_pc' = [ws_pc EXCEPT ![k] = "take"] \/ ws_pc' = [ws_pc EXCEPT ![k] = "steal"]
             \/ ws_pc' = [ws_pc EXCEPT ![k] = "exit"] /\ done
      <3>1. CASE W!Take(k) /\ deques[k] = << >>
        <4>1. 0 \in 0 .. NThreads
          BY StealAssumption
        <4>2. i' = [i EXCEPT ![k] = 0] /\ ws_pc' = [ws_pc EXCEPT ![k] = "steal"]
          BY <3>1 DEF W!Take
        <4> QED BY <3>1, <4>1, <4>2 DEF W!Take, StealInv, StealTypes
      <3>2. CASE W!Steal(k) /\ (i[k] = k \/ deques[i[k]] = << >>)
        <4>1. i[k] + 1 \in 0 .. NThreads
          BY <3>2, StealAssumption DEF W!Steal, StealInv, StealTypes
        <4>2. i' = [i EXCEPT ![k] = i[k] + 1] /\ ws_pc' = [ws_pc EXCEPT ![k] = "steal"]
          BY <3>2 DEF W!Steal
        <4> QED BY <3>2, <4>1, <4>2 DEF W!Steal, StealInv, StealTypes
      <3>3. CASE W!CheckDone(k)
        BY <3>3 DEF W!CheckDone, StealInv, StealTypes
      <3> QED BY <1>4, <3>1, <3>2, <3>3
    <2>2. StealTypes'
      BY <2>1 DEF StealInv, StealTypes
    <2>3. RanOnce'
      BY <1>1, <2>1, NoWorkIsNoTask DEF StealInv, StealTypes, RanOnce
    <2>4. Counted'
      BY <1>1, <2>1 DEF StealInv, Counted
    <2>5. DoneInTurn'
      BY <2>1 DEF StealInv, StealTypes, DoneInTurn
    <2> QED BY <1>1, <2>1, <2>2, <2>3, <2>4, <2>5 DEF StealInv
  <1>5. CASE W!PrintTask(k)
    <2>1. /\ UNCHANGED <<deques, work, join_count, done, ws_freed, i>>
          /\ ws_pc[k] = "print" /\ ws_pc' = [ws_pc EXCEPT ![k] = "join"]
          /\ ws_ran' = [ws_ran EXCEPT ![work[k]] = @ + 1] /\ work[k] \in W!Tasks
      BY <1>5 DEF W!PrintTask, StealInv, StealTypes
    <2>2. StealTypes'
      BY <2>1 DEF StealInv, StealTypes
    <2>3. RanOnce'
      <3>1. ~Waits(work[k]) /\ \A h \in W!Thieves : h # k => work[h] # work[k]
        BY <2>1 DEF StealInv, OnePlace, Taken, StealTypes
      <3> QED BY <1>1, <2>1, <3>1 DEF StealInv, StealTypes, RanOnce, Taken
    <2>4. Counted'
      BY <1>1, <2>1 DEF StealInv, Counted
    <2>5. DoneInTurn'
      BY <2>1 DEF StealInv, StealTypes, DoneInTurn
    <2> QED BY <1>1, <2>1, <2>2, <2>3, <2>4, <2>5 DEF StealInv
  <1>6. CASE W!JoinWork(k)
    <2>1. PICK x \in W!Tasks : x = work[k]
      BY <1>6 DEF W!JoinWork, StealInv, StealTypes
    <2>2. /\ UNCHANGED <<deques, done, ws_freed, i, ws_ran>>
          /\ ws_pc[k] = "join" /\ join_count' = join_count - 1
          /\ ws_pc' = [ws_pc EXCEPT ![k] = IF join_count = 1 THEN "donetask" ELSE "take"]
          /\ work' = [work EXCEPT ![k] = W!NoWork]
      BY <1>6 DEF W!JoinWork
    <2>3. ~Waits(x) /\ \A h \in W!Thieves : h # k => work[h] # x
      BY <2>1, NoWorkIsNoTask DEF StealInv, OnePlace, Taken
    <2>4. \A y \in W!Tasks : (Waits(y)' <=> Waits(y)) /\ (Taken(y)' <=> Taken(y) /\ y # x)
      BY <2>1, <2>2, <2>3, NoWorkIsNoTask DEF Waits, Taken, StealInv, StealTypes
    <2>5. Counted' /\ join_count \in Nat \ {0}
      <3>1. Uncounted' = Uncounted \ {x} /\ x \in Uncounted
        BY <2>1, <2>3, <2>4 DEF Uncounted, Taken
      <3>2. IsFiniteSet(Uncounted) /\ join_count = Cardinality(Uncounted)
        BY DEF StealInv, Counted
      <3>3. IsFiniteSet(Uncounted') /\ Cardinality(Uncounted') = join_count - 1
        BY <3>1, <3>2, FS_RemoveElement
      <3>4. join_count \in Nat /\ Cardinality(Uncounted') \in Nat
        BY <3>2, <3>3, FS_CardinalityType
      <3> QED BY <2>2, <3>3, <3>4 DEF Counted
    <2>6. StealTypes'
      BY <2>2 DEF StealInv, StealTypes
    <2>7. OnePlace'
      BY <2>2, <2>4 DEF StealInv, StealTypes, OnePlace
    <2>8. RanOnce'
      <3>1. ws_ran[x] = 1
        BY <2>1, <2>2 DEF StealInv, RanOnce
      <3> QED BY <2>2, <2>4, <3>1, NoWorkIsNoTask DEF StealInv, StealTypes, RanOnce
    <2>9. DoneInTurn'
      BY <2>2, <2>5 DEF StealInv, StealTypes, DoneInTurn
    <2> QED BY <2>5, <2>6, <2>7, <2>8, <2>9 DEF StealInv
  <1>7. CASE W!DoneFree(k)
    <2>1. /\ UNCHANGED <<deques, work, join_count, i, ws_ran, done>>
          /\ ws_pc[k] = "donetask" /\ ws_pc' = [ws_pc EXCEPT ![k] = "setdone"]
          /\ ws_freed' = ws_freed + 1
      BY <1>7 DEF W!DoneFree
    <2>2. StealTypes'
      BY <2>1 DEF StealInv, StealTypes
    <2>3. RanOnce'
      BY <1>1, <2>1, NoWorkIsNoTask DEF StealInv, StealTypes, RanOnce
    <2>4. Counted'
      BY <1>1, <2>1 DEF StealInv, Counted
    <2>5. DoneInTurn'
      BY <2>1 DEF StealInv, StealTypes, DoneInTurn
    <2> QED BY <1>1, <2>1, <2>2, <2>3, <2>4, <2>5 DEF StealInv
  <1>8. CASE W!DoneSet(k)
    <2>1. /\ UNCHANGED <<deques, work, join_count, i, ws_ran, ws_freed>>
          /\ ws_pc[k] = "setdone" /\ ws_pc' = [ws_pc EXCEPT ![k] = "take"]
          /\ done' = TRUE
      BY <1>8 DEF W!DoneSet
    <2>2. StealTypes'
      BY <2>1 DEF StealInv, StealTypes
    <2>3. RanOnce'
      BY <1>1, <2>1, NoWorkIsNoTask DEF StealInv, StealTypes, RanOnce
    <2>4. Counted'
      BY <1>1, <2>1 DEF StealInv, Counted
    <2>5. DoneInTurn'
      BY <2>1 DEF StealInv, StealTypes, DoneInTurn
    <2> QED BY <1>1, <2>1, <2>2, <2>3, <2>4, <2>5 DEF StealInv
  <1> QED BY <1>2, <1>3, <1>4, <1>5, <1>6, <1>7, <1>8 DEF W!Step

LEMMA StealSafe == StealInv => W!DoneIsLast /\ W!LeaveWhenAllRan
  <1> SUFFICES ASSUME StealInv, ws_freed > 0 \/ done
               PROVE  /\ ws_freed = 1 /\ \A x \in W!Tasks : ws_ran[x] = 1
                      /\ \A k \in W!Thieves : ws_pc[k] \notin {"print", "join", "donetask"}
    BY DEF W!DoneIsLast, W!LeaveWhenAllRan, StealInv, DoneInTurn
  <1>1. ws_freed = 1 /\ join_count = 0
    BY DEF StealInv, DoneInTurn
  <1>2. Uncounted = {}
    BY <1>1, FS_EmptySet DEF StealInv, Counted
  <1>3. \A x \in W!Tasks : ~Waits(x) /\ ~Taken(x)
    BY <1>2 DEF Uncounted
  <1>4. \A k \in W!Thieves : ws_pc[k] \notin {"print", "join"}
    BY <1>3 DEF StealInv, StealTypes, Taken
  <1> QED BY <1>1, <1>3, <1>4 DEF StealInv, RanOnce, DoneInTurn

-----------------------------------------------------------------------------
(* preempt_sched: the list, the counter and the tasks that have ended.      *)

Gone == task_reap \cup destroyed
Inside == {"loop", "critical", "enable", "enabling"}
Controls == Inside \cup {"new", "disable", "disabling", "work", "ended", "wait", "exit"}
Listed(t) == \E k \in 1 .. Len(list) : list[k] = t

SchedTypes ==
    /\ list \in Seq(S!All) /\ Len(list) > 0 /\ list[1] = 0
    /\ task_current \in S!All \ Gone
    /\ preempt_count \in Int /\ reg \in [S!All -> Int]
    /\ ps_pc \in [S!All -> Controls] /\ todo \in [S!All -> Int]

ListIsExact ==
    /\ \A j, k \in 1 .. Len(list) : list[j] = list[k] => j = k
    /\ \A t \in S!All : Listed(t) <=> t \notin Gone
    /\ Len(list) = Cardinality(S!All) - Cardinality(Gone)

EndedIsGone ==
    /\ task_reap \cap destroyed = {}
    /\ Gone = {t \in S!Added : ps_pc[t] = "ended"}

CountIsInside ==
    /\ \A t \in S!All : ps_pc[t] \in Inside => t = task_current
    /\ preempt_count = IF ps_pc[task_current] \in Inside THEN 1 ELSE 0
    /\ \A t \in S!All : ps_pc[t] = "disabling" => reg[t] = 0
    /\ \A t \in S!All : ps_pc[t] = "enabling" => reg[t] = 1

\* From the test that finds all tasks gone to its exit main is alone.
MainIsAlone ==
    /\ ps_pc[0] # "new"
    /\ ps_pc[0] \in {"enable", "enabling", "work"} => todo[0] \in 0 .. 1
    /\ (ps_pc[0] \in {"enable", "enabling", "work"} /\ todo[0] = 0) \/ ps_pc[0] = "exit" =>
          Len(list) = 1 /\ task_reap = {}

SchedInv == SchedTypes /\ ListIsExact /\ EndedIsGone /\ CountIsInside /\ MainIsAlone
-----------------------------------------------------------------------------
LEMMA AllTasks == /\ S!All = 0 .. NTasks /\ S!Added = 1 .. NTasks
                  /\ IsFiniteSet(S!All) /\ Cardinality(S!All) = NTasks + 1
  <1> USE SchedAssumption
  <1>1. S!All = 0 .. NTasks /\ S!Added = 1 .. NTasks
    BY DEF S!All, S!Added
  <1> QED BY <1>1, FS_Interval

LEMMA SameSize == \A T : S!Cardinality(T) = Cardinality(T)
  BY DEF S!Cardinality, Cardinality, S!IsFiniteSet, IsFiniteSet

LEMMA Concat ==
  ASSUME NEW T, NEW a \in Seq(T), NEW b \in Seq(T)
  PROVE  /\ a \o b \in Seq(T) /\ Len(a \o b) = Len(a) + Len(b)
         /\ \A k \in 1 .. Len(a) : (a \o b)[k] = a[k]
         /\ \A k \in Len(a) + 1 .. Len(a) + Len(b) : (a \o b)[k] = b[k - Len(a)]
  OBVIOUS

\* A sequence without its p-th element.
LEMMA Removal ==
  ASSUME NEW T, NEW s \in Seq(T), NEW p \in 1 .. Len(s)
  PROVE  LET r == SubSeq(s, 1, p - 1) \o SubSeq(s, p + 1, Len(s))
         IN  /\ r \in Seq(T) /\ Len(r) = Len(s) - 1
             /\ \A k \in 1 .. Len(s) - 1 : r[k] = IF k < p THEN s[k] ELSE s[k + 1]
  <1>1. PICK a \in Seq(T) : /\ a = SubSeq(s, 1, p - 1) /\ Len(a) = p - 1
                            /\ \A k \in 1 .. p - 1 : a[k] = s[k]
    <2> DEFINE x == SubSeq(s, 1, p - 1)
    <2>1. x \in Seq(T) /\ Len(x) = p - 1 /\ \A k \in 1 .. p - 1 : x[k] = s[k]
      OBVIOUS
    <2> HIDE DEF x
    <2> QED BY <2>1 DEF x
  <1>2. PICK b \in Seq(T) : /\ b = SubSeq(s, p + 1, Len(s)) /\ Len(b) = Len(s) - p
                            /\ \A k \in 1 .. Len(s) - p : b[k] = s[k + p]
    <2> DEFINE x == SubSeq(s, p + 1, Len(s))
    <2>1. x \in Seq(T) /\ Len(x) = Len(s) - p /\ \A k \in 1 .. Len(s) - p : x[k] = s[k + p]
      OBVIOUS
    <2> HIDE DEF x
    <2> QED BY <2>1 DEF x
  <1>3. PICK r : r = a \o b
    OBVIOUS
  <1>4. /\ r \in Seq(T) /\ Len(r) = Len(s) - 1
        /\ \A k \in 1 .. p - 1 : r[k] = a[k]
        /\ \A k \in p .. Len(s) - 1 : r[k] = b[k - (p - 1)]
    <2> HIDE <1>1, <1>2
    <2>1. Len(a) = p - 1 /\ Len(b) = Len(s) - p
      BY <1>1, <1>2
    <2> QED BY <1>3, <2>1, Concat
  <1>5. \A k \in p .. Len(s) - 1 : r[k] = s[k + 1]
    <2> SUFFICES ASSUME NEW k \in p .. Len(s) - 1 PROVE r[k] = s[k + 1]
      OBVIOUS
    <2>1. k - (p - 1) \in 1 .. Len(s) - p /\ (k - (p - 1)) + p = k + 1
      OBVIOUS
    <2>2. b[k - (p - 1)] = s[(k - (p - 1)) + p]
      BY <1>2, <2>1
    <2> QED BY <1>4, <2>1, <2>2
  <1>6. \A k \in 1 .. Len(s) - 1 : r[k] = IF k < p THEN s[k] ELSE s[k + 1]
    <2> SUFFICES ASSUME NEW k \in 1 .. Len(s) - 1
                 PROVE  r[k] = IF k < p THEN s[k] ELSE s[k + 1]
      OBVIOUS
    <2>1. k \in 1 .. p - 1 \/ k \in p .. Len(s) - 1
      OBVIOUS
    <2> QED BY <1>1, <1>4, <1>5, <2>1
  <1> QED BY <1>1, <1>2, <1>3, <1>4, <1>6

LEMMA GoneIsFinite ==
  ASSUME EndedIsGone PROVE IsFiniteSet(Gone) /\ Cardinality(Gone) \in Nat /\ Gone \subseteq S!Added
  <1>1. Gone \subseteq S!Added /\ S!Added \subseteq S!All
    BY DEF EndedIsGone, S!Added
  <1>2. IsFiniteSet(Gone)
    BY <1>1, AllTasks, FS_Subset
  <1> QED BY <1>1, <1>2, FS_CardinalityType

LEMMA SchedInit == S!Init => SchedInv
  <1> SUFFICES ASSUME S!Init PROVE SchedInv
    OBVIOUS
  <1> USE AllTasks, SchedAssumption DEF S!Init
  <1>1. Gone = {} /\ Cardinality(Gone) = 0
    BY FS_EmptySet DEF Gone
  <1>2. [k \in 1 .. NTasks |-> k] \in Seq(1 .. NTasks) /\ Len([k \in 1 .. NTasks |-> k]) = NTasks
    OBVIOUS
  <1>3. /\ list \in Seq(0 .. NTasks) /\ Len(list) = NTasks + 1
        /\ \A k \in 1 .. NTasks + 1 : list[k] = k - 1
    BY <1>2
  <1>4. SchedTypes
    BY <1>1, <1>3 DEF SchedTypes, Controls, Inside
  <1>5. ListIsExact
    <2>1. ASSUME NEW t \in 0 .. NTasks PROVE Listed(t)
      <3>1. t + 1 \in 1 .. Len(list) /\ list[t + 1] = t
        BY <1>3
      <3> QED BY <3>1 DEF Listed
    <2> QED BY <1>1, <1>3, <2>1 DEF ListIsExact
  <1>6. EndedIsGone
    BY <1>1 DEF EndedIsGone
  <1>7. CountIsInside
    BY DEF CountIsInside, Inside
  <1>8. MainIsAlone
    BY DEF MainIsAlone
  <1> QED BY <1>4, <1>5, <1>6, <1>7, <1>8 DEF SchedInv

\* The task that schedule() resumes is in the list, and another one if the caller leaves.
LEMMA NextTask ==
  ASSUME SchedInv
  PROVE  /\ S!Position(task_current) \in 1 .. Len(list)
         /\ list[S!Position(task_current)] = task_current
         /\ S!After(task_current) \in S!All \ Gone
         /\ task_current # 0 => S!After(task_current) # task_current
         /\ Len(list) = 1 => S!After(task_current) = 0
  <1> USE DEF SchedInv, SchedTypes
  <1> DEFINE p == S!Position(task_current)
  <1>1. Listed(task_current)
    BY DEF ListIsExact
  <1>2. p \in 1 .. Len(list) /\ list[p] = task_current
    BY <1>1 DEF Listed, S!Position
  <1> DEFINE n == IF p = Len(list) THEN 1 ELSE p + 1
  <1>3. n \in 1 .. Len(list) /\ S!After(task_current) = list[n]
    BY <1>2 DEF S!After
  <1>4. list[n] \in S!All /\ Listed(list[n])
    BY <1>3 DEF Listed
  <1>5. list[n] \notin Gone
    BY <1>4 DEF ListIsExact
  <1>6. n = p => p = 1
    BY <1>2
  <1>7. list[n] = task_current => n = p
    BY <1>2, <1>3 DEF ListIsExact
  <1>8. Len(list) = 1 => n = 1
    BY <1>3
  <1> QED BY <1>2, <1>3, <1>4, <1>5, <1>6, <1>7, <1>8

\* What schedule() does to the list and to the tasks that have ended.
LEMMA Scheduled ==
  ASSUME SchedInv, NEW reap \in BOOLEAN, reap => task_current # 0, S!schedule(reap)
  PROVE  /\ task_current' = S!After(task_current) /\ task_current' \in S!All \ Gone'
         /\ reap => task_current' # task_current
         /\ Gone' = IF reap THEN Gone \cup {task_current} ELSE Gone
         /\ task_reap' \cap destroyed' = {}
         /\ list' \in Seq(S!All) /\ Len(list') > 0 /\ list'[1] = 0
         /\ ListIsExact'
         /\ Len(list) = 1 => ~reap /\ Len(list') = 1 /\ task_current = 0 /\ task_current' = 0
         /\ task_reap = {} /\ ~reap => task_reap' = {}
  <1> DEFINE p == S!Position(task_current)
             nxt == S!After(task_current)
  <1>1. /\ p \in 1 .. Len(list) /\ list[p] = task_current
        /\ nxt \in S!All \ Gone /\ (reap => nxt # task_current)
        /\ Len(list) = 1 => nxt = 0
    BY NextTask
  <1> HIDE DEF p, nxt
  <1>2. /\ task_current' = nxt /\ Gone' = IF reap THEN Gone \cup {task_current} ELSE Gone
        /\ list' = IF reap THEN S!Without(task_current) ELSE list
        /\ task_reap = {} /\ ~reap => task_reap' = {}
    BY DEF S!schedule, Gone, nxt
  <1>3. task_reap' \cap destroyed' = {}
    BY DEF S!schedule, Gone, SchedInv, SchedTypes, EndedIsGone
  <1>4. CASE ~reap
    <2>1. ListIsExact'
      BY <1>2, <1>4 DEF SchedInv, ListIsExact, Listed
    <2>2. Len(list) = 1 => task_current = 0
      BY <1>1 DEF SchedInv, SchedTypes
    <2> QED BY <1>1, <1>2, <1>3, <1>4, <2>1, <2>2 DEF nxt, SchedInv, SchedTypes
  <1>5. CASE reap
    <2>1. list \in Seq(S!All) /\ list[1] = 0 /\ task_current \in S!All /\ task_current \notin Gone
      BY DEF SchedInv, SchedTypes
    <2>2. /\ list' \in Seq(S!All) /\ Len(list') = Len(list) - 1
          /\ \A k \in 1 .. Len(list') : list'[k] = IF k < p THEN list[k] ELSE list[k + 1]
      <3>1. list' = SubSeq(list, 1, p - 1) \o SubSeq(list, p + 1, Len(list))
        BY <1>2, <1>5 DEF S!Without, p
      <3>2. PICK r : r = SubSeq(list, 1, p - 1) \o SubSeq(list, p + 1, Len(list))
        OBVIOUS
      <3>3. /\ r \in Seq(S!All) /\ Len(r) = Len(list) - 1
            /\ \A k \in 1 .. Len(list) - 1 : r[k] = IF k < p THEN list[k] ELSE list[k + 1]
        BY <1>1, <2>1, <3>2, Removal
      <3>4. list' = r
        BY <3>1, <3>2
      <3> QED BY <3>3, <3>4
    <2>3. p > 1 /\ Len(list) > 1
      BY <1>1, <1>5, <2>1
    <2>4. \A j, k \in 1 .. Len(list') : list'[j] = list'[k] => j = k
      <3> SUFFICES ASSUME NEW j \in 1 .. Len(list'), NEW k \in 1 .. Len(list'), list'[j] = list'[k]
                   PROVE  j = k
        OBVIOUS
      <3> DEFINE a == IF j < p THEN j ELSE j + 1
                 b == IF k < p THEN k ELSE k + 1
      <3>1. a \in 1 .. Len(list) /\ b \in 1 .. Len(list) /\ list[a] = list[b]
        BY <1>1, <2>2
      <3>2. a = b
        BY <3>1 DEF SchedInv, ListIsExact
      <3> QED BY <1>1, <2>2, <3>2
    <2>5. ASSUME NEW t \in S!All PROVE Listed(t)' <=> t \notin Gone'
      <3>1. ASSUME Listed(t)' PROVE t \notin Gone'
        <4>1. PICK k \in 1 .. Len(list') : list'[k] = t
          BY <3>1 DEF Listed
        <4> DEFINE a == IF k < p THEN k ELSE k + 1
        <4>2. a \in 1 .. Len(list) /\ a # p /\ list[a] = t
          BY <1>1, <2>2, <4>1
        <4>3. Listed(t) /\ t # task_current
          BY <1>1, <4>2 DEF Listed, SchedInv, ListIsExact
        <4> QED BY <1>2, <1>5, <4>3 DEF SchedInv, ListIsExact
      <3>2. ASSUME t \notin Gone' PROVE Listed(t)'
        <4>1. t # task_current /\ Listed(t)
          BY <1>2, <1>5, <3>2 DEF SchedInv, ListIsExact
        <4>2. PICK k \in 1 .. Len(list) : list[k] = t
          BY <4>1 DEF Listed
        <4> DEFINE a == IF k < p THEN k ELSE k - 1
        <4>3. k # p
          BY <1>1, <4>1, <4>2
        <4>4. a \in 1 .. Len(list') /\ list'[a] = t
          BY <1>1, <2>2, <4>2, <4>3
        <4> QED BY <4>4 DEF Listed
      <3> QED BY <3>1, <3>2
    <2>6. Len(list') = Cardinality(S!All) - Cardinality(Gone')
      <3>1. Cardinality(Gone') = Cardinality(Gone) + 1 /\ Cardinality(Gone) \in Nat
        BY <1>2, <1>5, <2>1, GoneIsFinite, FS_AddElement DEF SchedInv
      <3> QED BY <2>2, <3>1, AllTasks, SchedAssumption DEF SchedInv, ListIsExact
    <2>7. ListIsExact'
      BY <2>4, <2>5, <2>6 DEF ListIsExact
    <2>8. Len(list') > 0 /\ list'[1] = 0
      BY <1>1, <2>1, <2>2, <2>3
    <2>9. nxt \in S!All \ Gone'
      BY <1>1, <1>2, <1>5
    <2> QED BY <1>1, <1>2, <1>3, <1>5, <2>2, <2>3, <2>7, <2>8, <2>9 DEF nxt
  <1> QED BY <1>4, <1>5

LEMMA SchedTick == SchedInv /\ S!Tick => SchedInv'
  <1> SUFFICES ASSUME SchedInv, S!Tick PROVE SchedInv'
    OBVIOUS
  <1> DEFINE c == task_current
  <1>1. /\ preempt_count = 0 /\ S!schedule(FALSE) /\ ps_pc[0] # "exit"
        /\ ps_pc' = IF ps_pc[c] = "wait" THEN [ps_pc EXCEPT ![c] = "disable"] ELSE ps_pc
        /\ UNCHANGED <<preempt_count, reg, todo>>
    BY DEF S!Tick
  <1>2. /\ task_current' \in S!All \ Gone' /\ Gone' = Gone /\ task_reap' \cap destroyed' = {}
        /\ list' \in Seq(S!All) /\ Len(list') > 0 /\ list'[1] = 0 /\ ListIsExact'
        /\ Len(list) = 1 => Len(list') = 1
        /\ task_reap = {} => task_reap' = {}
    BY <1>1, Scheduled
  <1>3. \A t \in S!All : ps_pc[t] \notin Inside
    BY <1>1 DEF SchedInv, SchedTypes, CountIsInside
  <1>4. /\ ps_pc' \in [S!All -> Controls]
        /\ \A t \in S!All : ps_pc'[t] = ps_pc[t] \/ (ps_pc[t] = "wait" /\ ps_pc'[t] = "disable")
    BY <1>1 DEF SchedInv, SchedTypes, Controls
  <1>5. SchedTypes'
    BY <1>1, <1>2, <1>4 DEF SchedInv, SchedTypes
  <1>6. EndedIsGone'
    <2>1. \A t \in S!Added : ps_pc'[t] = "ended" <=> ps_pc[t] = "ended"
      BY <1>4 DEF S!Added
    <2> QED BY <1>2, <2>1 DEF SchedInv, EndedIsGone
  <1>7. CountIsInside'
    BY <1>1, <1>2, <1>3, <1>4 DEF SchedInv, CountIsInside, Inside
  <1>8. MainIsAlone'
    <2>1. 0 \in S!All
      BY AllTasks, SchedAssumption
    <2> QED BY <1>1, <1>2, <1>4, <2>1 DEF SchedInv, MainIsAlone
  <1> QED BY <1>2, <1>5, <1>6, <1>7, <1>8 DEF SchedInv

\* The steps of the running task that are not schedule().
LEMMA SchedRun ==
  ASSUME SchedInv, NEW old_pc \in Controls, NEW new_pc \in Controls, new_pc # "ended",
         ps_pc[task_current] = old_pc, ps_pc' = [ps_pc EXCEPT ![task_current] = new_pc],
         UNCHANGED <<list, task_reap, destroyed, task_current>>, old_pc # "ended",
         reg' \in [S!All -> Int], todo' \in [S!All -> Int],
         \A t \in S!All \ {task_current} : reg'[t] = reg[t] /\ todo'[t] = todo[t],
         new_pc = "disabling" => reg'[task_current] = 0,
         new_pc = "enabling" => reg'[task_current] = 1,
         preempt_count' = IF new_pc \in Inside THEN 1 ELSE 0,
         task_current = 0 => MainIsAlone'
  PROVE  SchedInv'
  <1> DEFINE c == task_current
  <1> USE DEF SchedInv
  <1>1. /\ ps_pc' \in [S!All -> Controls] /\ ps_pc'[c] = new_pc /\ c \in S!All
        /\ \A t \in S!All \ {c} : ps_pc'[t] = ps_pc[t]
    BY DEF SchedTypes
  <1>2. Gone' = Gone /\ task_current' = c
    BY DEF Gone
  <1>3. SchedTypes'
    BY <1>1, <1>2 DEF SchedTypes
  <1>4. ListIsExact'
    BY <1>2 DEF ListIsExact, Listed
  <1>5. EndedIsGone'
    BY <1>1, <1>2 DEF EndedIsGone, S!Added
  <1>6. CountIsInside'
    <2>1. \A t \in S!All : ps_pc'[t] \in Inside => t = c
      BY <1>1 DEF CountIsInside
    <2>2. \A t \in S!All : (ps_pc'[t] = "disabling" => reg'[t] = 0)
                        /\ (ps_pc'[t] = "enabling" => reg'[t] = 1)
      BY <1>1 DEF CountIsInside
    <2> QED BY <1>1, <1>2, <2>1, <2>2 DEF CountIsInside
  <1>7. MainIsAlone'
    <2>1. CASE c # 0
      <3>1. 0 \in S!All \ {c}
        BY <2>1, AllTasks, SchedAssumption
      <3> QED BY <1>1, <1>2, <3>1 DEF MainIsAlone
    <2> QED BY <2>1
  <1> QED BY <1>3, <1>4, <1>5, <1>6, <1>7

LEMMA SchedStep == SchedInv /\ S!Next => SchedInv'
  <1> SUFFICES ASSUME SchedInv, S!Next PROVE SchedInv'
    OBVIOUS
  <1> DEFINE c == task_current
  <1> USE DEF S!lists
  <1>0. /\ c \in S!All /\ 0 \in S!All /\ reg \in [S!All -> Int] /\ todo \in [S!All -> Int]
        /\ ps_pc \in [S!All -> Controls] /\ ps_pc[c] \in Controls
        /\ preempt_count = IF ps_pc[c] \in Inside THEN 1 ELSE 0
    BY AllTasks, SchedAssumption DEF SchedInv, SchedTypes, CountIsInside
  <1>1. CASE S!Tick
    BY <1>1, SchedTick
  <1>2. ASSUME NEW from_pc, NEW to_pc, S!Load(from_pc, to_pc),
               <<from_pc, to_pc>> \in {<<"disable", "disabling">>, <<"enable", "enabling">>}
        PROVE  SchedInv'
    <2>1. /\ ps_pc[c] = from_pc /\ ps_pc' = [ps_pc EXCEPT ![c] = to_pc]
          /\ reg' = [reg EXCEPT ![c] = preempt_count] /\ preempt_count' = preempt_count
          /\ UNCHANGED <<list, task_reap, destroyed, task_current, todo>>
      BY <1>2 DEF S!Load, S!Goto
    <2>2. c = 0 => MainIsAlone'
      BY <1>0, <1>2, <2>1 DEF SchedInv, MainIsAlone
    <2>3. /\ reg' \in [S!All -> Int] /\ reg'[c] = preempt_count
          /\ \A t \in S!All \ {c} : reg'[t] = reg[t]
      BY <1>0, <2>1
    <2>4. /\ from_pc \in Controls /\ to_pc \in Controls
          /\ from_pc # "ended" /\ to_pc # "ended" /\ (from_pc \in Inside <=> to_pc \in Inside)
          /\ to_pc = "disabling" => from_pc \notin Inside
          /\ to_pc = "enabling" => from_pc \in Inside
      BY <1>2 DEF Controls, Inside
    <2> QED BY <1>0, <2>1, <2>2, <2>3, <2>4, SchedRun
  <1>3. ASSUME NEW from_pc, NEW to_pc, NEW by, S!Store(from_pc, to_pc, by),
               <<from_pc, to_pc, by>> \in {<<"disabling", "critical", 1>>, <<"enabling", "work", -1>>}
        PROVE  SchedInv'
    <2>1. /\ ps_pc[c] = from_pc /\ ps_pc' = [ps_pc EXCEPT ![c] = to_pc]
          /\ reg' = [reg EXCEPT ![c] = 0] /\ preempt_count' = reg[c] + by
          /\ UNCHANGED <<list, task_reap, destroyed, task_current, todo>>
      BY <1>3 DEF S!Store, S!Goto
    <2>2. c = 0 => MainIsAlone'
      BY <1>0, <1>3, <2>1 DEF SchedInv, MainIsAlone
    <2>3. /\ reg' \in [S!All -> Int] /\ \A t \in S!All \ {c} : reg'[t] = reg[t]
      BY <1>0, <2>1
    <2>4. preempt_count' = IF to_pc \in Inside THEN 1 ELSE 0
      BY <1>0, <1>3, <2>1 DEF SchedInv, CountIsInside, Inside
    <2>5. /\ from_pc \in Controls /\ to_pc \in Controls
          /\ from_pc # "ended" /\ to_pc \notin {"ended", "disabling", "enabling"}
      BY <1>3 DEF Controls, Inside
    <2> QED BY <1>0, <2>1, <2>2, <2>3, <2>4, <2>5, SchedRun
  <1>4. ASSUME NEW from_pc, NEW to_pc, ps_pc[c] = from_pc,
               ps_pc' = [ps_pc EXCEPT ![c] = to_pc], c = 0 => MainIsAlone',
               UNCHANGED <<list, task_reap, destroyed, task_current, preempt_count, reg>>,
               todo' \in [S!All -> Int], \A t \in S!All \ {c} : todo'[t] = todo[t],
               <<from_pc, to_pc>> \in {<<"new", "work">>, <<"work", "disable">>,
                   <<"critical", "enable">>, <<"loop", "enable">>,
                   <<"work", "wait">>, <<"work", "exit">>}
        PROVE  SchedInv'
    <2>1. /\ from_pc \in Controls /\ to_pc \in Controls
          /\ from_pc # "ended" /\ to_pc \notin {"ended", "disabling", "enabling"}
          /\ (from_pc \in Inside <=> to_pc \in Inside)
      BY <1>4 DEF Controls, Inside
    <2> QED BY <1>0, <1>4, <2>1, SchedRun
  <1>5. CASE S!preempt_disable \/ S!preempt_enable
    BY <1>2, <1>3, <1>5 DEF S!preempt_disable, S!preempt_enable
  <1>6. CASE S!Trampoline
    <2>1. c = 0 => MainIsAlone'
      BY <1>0, <1>6 DEF S!Trampoline, S!Goto, SchedInv, MainIsAlone
    <2> QED BY <1>0, <1>4, <1>6, <2>1 DEF S!Trampoline, S!Goto
  <1>7. CASE S!Section
    BY <1>0, <1>4, <1>7 DEF S!Section, S!Goto
  <1>8. CASE S!MainTest
    <2>1. /\ c = 0 /\ ps_pc[0] \in {"loop", "critical"} /\ ps_pc' = [ps_pc EXCEPT ![0] = "enable"]
          /\ todo' = [todo EXCEPT ![0] = IF list = <<0>> /\ task_reap = {} THEN 0 ELSE 1]
          /\ UNCHANGED <<list, task_reap, destroyed, task_current, preempt_count, reg>>
      BY <1>8 DEF S!MainTest
    <2>2. list = <<0>> => Len(list) = 1
      OBVIOUS
    <2>3. /\ ps_pc'[0] = "enable" /\ todo'[0] \in 0 .. 1
          /\ todo'[0] = 0 => Len(list') = 1 /\ task_reap' = {}
      BY <1>0, <2>1, <2>2
    <2>4. MainIsAlone'
      BY <2>3 DEF MainIsAlone
    <2>5. todo' \in [S!All -> Int] /\ \A t \in S!All \ {c} : todo'[t] = todo[t]
      BY <1>0, <2>1
    <2> QED BY <1>0, <1>4, <2>1, <2>4, <2>5
  <1>9. CASE S!MainGoOn
    <2>1. /\ c = 0 /\ ps_pc[0] = "work"
          /\ ps_pc' = [ps_pc EXCEPT ![0] = IF todo[0] = 1 THEN "wait" ELSE "exit"]
          /\ UNCHANGED <<list, task_reap, destroyed, task_current, preempt_count, reg, todo>>
      BY <1>9 DEF S!MainGoOn, S!Goto
    <2>2. MainIsAlone'
      BY <1>0, <2>1 DEF SchedInv, MainIsAlone
    <2> QED BY <1>0, <1>4, <2>1, <2>2
  <1>10. CASE S!Work
    <2>1. CASE /\ c # 0 /\ S!Goto("work", "disable") /\ todo' = [todo EXCEPT ![c] = @ - 1]
               /\ UNCHANGED <<list, task_reap, destroyed, task_current, preempt_count, reg>>
      <3>1. todo' \in [S!All -> Int] /\ \A t \in S!All \ {c} : todo'[t] = todo[t]
        BY <1>0, <2>1
      <3> QED BY <1>0, <1>4, <2>1, <3>1 DEF S!Goto
    <2>2. CASE c # 0 /\ S!Goto("work", "ended") /\ S!schedule(TRUE)
               /\ UNCHANGED <<preempt_count, reg, todo>>
      <3>1. /\ task_current' \in S!All \ Gone' /\ task_current' # c
            /\ Gone' = Gone \cup {c} /\ task_reap' \cap destroyed' = {}
            /\ list' \in Seq(S!All) /\ Len(list') > 0 /\ list'[1] = 0 /\ ListIsExact'
            /\ Len(list) # 1
        BY <2>2, Scheduled
      <3>2. /\ ps_pc' \in [S!All -> Controls] /\ ps_pc'[c] = "ended" /\ ps_pc[c] = "work"
            /\ \A t \in S!All \ {c} : ps_pc'[t] = ps_pc[t]
        BY <1>0, <2>2 DEF S!Goto, Controls
      <3>3. SchedTypes'
        BY <2>2, <3>1, <3>2 DEF SchedInv, SchedTypes
      <3>4. EndedIsGone'
        <4>1. c \in S!Added
          BY <1>0, <2>2 DEF S!Added
        <4>2. \A t \in S!Added : ps_pc'[t] = "ended" <=> t = c \/ ps_pc[t] = "ended"
          BY <3>2 DEF S!Added
        <4> QED BY <3>1, <4>1, <4>2 DEF SchedInv, EndedIsGone
      <3>5. CountIsInside'
        BY <1>0, <2>2, <3>1, <3>2 DEF SchedInv, CountIsInside, Inside
      <3>6. MainIsAlone'
        <4>1. ps_pc'[0] = ps_pc[0] /\ todo' = todo
          BY <1>0, <2>2, <3>2
        <4> QED BY <3>1, <4>1 DEF SchedInv, MainIsAlone
      <3> QED BY <3>1, <3>3, <3>4, <3>5, <3>6 DEF SchedInv
    <2> QED BY <1>10, <2>1, <2>2 DEF S!Work
  <1> QED BY <1>1, <1>5, <1>6, <1>7, <1>8, <1>9, <1>10 DEF S!Next, S!Step

\* The two properties follow.
LEMMA SchedSafe == SchedInv => S!SectionsExclude /\ S!TasksAreReaped
  <1> SUFFICES ASSUME SchedInv PROVE S!SectionsExclude /\ S!TasksAreReaped
    OBVIOUS
  <1> USE DEF SchedInv
  <1>1. S!SectionsExclude
    <2> DEFINE inside == {t \in S!All : ps_pc[t] \in Inside}
    <2>1. inside \subseteq {task_current}
      BY DEF CountIsInside
    <2>2. Cardinality(inside) = preempt_count
      <3>1. CASE ps_pc[task_current] \in Inside
        <4>1. inside = {task_current} /\ preempt_count = 1
          BY <2>1, <3>1 DEF CountIsInside, SchedTypes
        <4> QED BY <4>1, FS_Singleton
      <3>2. CASE ps_pc[task_current] \notin Inside
        <4>1. inside = {} /\ preempt_count = 0
          BY <2>1, <3>2 DEF CountIsInside
        <4> QED BY <4>1, FS_EmptySet
      <3> QED BY <3>1, <3>2
    <2> QED BY <2>1, <2>2, SameSize DEF S!SectionsExclude, Inside
  <1>2. S!TasksAreReaped
    <2>1. S!Added \subseteq S!All /\ 0 \in S!All /\ 0 \notin S!Added
      BY AllTasks, SchedAssumption
    <2>2. task_current \notin Gone /\ Gone = {t \in S!Added : ps_pc[t] = "ended"}
      BY DEF SchedTypes, EndedIsGone
    <2>3. Len(list) = S!Cardinality(S!All) - S!Cardinality(Gone)
      BY SameSize DEF ListIsExact
    <2>4. \A t \in S!All \ Gone : \E j \in DOMAIN list : list[j] = t
      BY DEF ListIsExact, Listed, SchedTypes
    <2>5. ASSUME ps_pc[0] = "exit" PROVE destroyed = S!Added
      <3>1. Len(list) = 1 /\ task_reap = {}
        BY <2>5 DEF MainIsAlone
      <3>2. \A t \in S!Added : ~Listed(t)
        BY <2>1, <3>1 DEF Listed, SchedTypes
      <3>3. \A t \in S!Added : t \in Gone
        BY <2>1, <3>2 DEF ListIsExact
      <3> QED BY <2>2, <3>1, <3>3 DEF Gone
    <2> QED BY <2>2, <2>3, <2>4, <2>5 DEF S!TasksAreReaped, Gone, EndedIsGone
  <1> QED BY <1>1, <1>2

-----------------------------------------------------------------------------
(* The programs together.                                                   *)

RunsPool == program \in {"tpool", "tpool_join"}

LEMMA PoolUnchanged == PoolInv /\ UNCHANGED tpool => PoolInv'
  BY DEF tpool, PoolInv, PoolTypes, FutureTypes, WorkerTypes, ClientTypes, OneReference,
     QueuedOnce, QueuedIsPending, HeldIsPending, FlagsAreFinal, FutureOf, Final, Holds, InQueue,
     P!NoSleeperWithWork

LEMMA PoolAlways == ThreadsSpec => [](RunsPool => PoolInv)
  <1>1. ThreadsInit => (RunsPool => PoolInv)
    BY PoolInit DEF ThreadsInit
  <1>2. ASSUME RunsPool => PoolInv, [ThreadsNext]_<<program, vars, seqlock, tpool, steal, sched>>
        PROVE  (RunsPool => PoolInv)'
    <2>1. CASE RunsPool /\ ThreadsNext
      <3>1. P!Next
        BY <2>1, JoinIsPool DEF RunsPool, ThreadsNext
      <3> QED BY <1>2, <2>1, <3>1, PoolStep
    <2>2. CASE ~RunsPool /\ ThreadsNext
      BY <2>2 DEF RunsPool, ThreadsNext
    <2>3. CASE UNCHANGED <<program, vars, seqlock, tpool, steal, sched>>
      BY <1>2, <2>3, PoolUnchanged DEF RunsPool
    <2> QED BY <1>2, <2>1, <2>2, <2>3
  <1> QED BY <1>1, <1>2, PTL DEF ThreadsSpec

\* FuturesAreSafe: whichever of tpool_future_destroy, the worker's last critical section
\* and jobqueue_destroy comes first, a future is freed at most once and nobody refers to
\* it afterwards, and tpool_future_get returns the result of a task that ran once.
THEOREM FuturesAreNeverDangling == ThreadsSpec => []FuturesAreSafe
  <1>1. (RunsPool => PoolInv) => FuturesAreSafe
    <2> SUFFICES ASSUME RunsPool, PoolInv PROVE P!FuturesAreSafe
      BY DEF FuturesAreSafe, RunsPool
    <2>1. P!FreedOnceAndLast
      <3> SUFFICES ASSUME NEW c \in Clients, freed[c] > 0
                   PROVE  /\ freed[c] = 1 /\ cpc[c] = "done"
                          /\ ~InQueue(c) /\ \A w \in Workers : ~Holds(w, c)
        BY DEF P!FreedOnceAndLast, P!WorkerHolds, InQueue, Holds
      <3> QED BY DEF PoolInv, QueuedIsPending, HeldIsPending, FlagsAreFinal, FutureOf
    <2>2. P!GetIsTheResult
      BY DEF P!GetIsTheResult, PoolInv, FlagsAreFinal, FutureOf
    <2> QED BY <2>1, <2>2 DEF P!FuturesAreSafe
  <1> QED BY <1>1, PoolAlways, PTL

\* NoSleeperWithWork: tpool_apply broadcasts cond_nonempty only when it pushes onto an
\* empty queue, and yet no worker sleeps while there is a task or a sentinel to take.
THEOREM BroadcastOnEmptySuffices == ThreadsSpec => []NoSleeperWithWork
  <1>1. (RunsPool => PoolInv) => NoSleeperWithWork
    BY DEF NoSleeperWithWork, RunsPool, PoolInv
  <1> QED BY <1>1, PoolAlways, PTL

LEMMA JoinAlways == ThreadsSpec => [](program = "tpool_join" => JoinInv)
  <1> DEFINE Inv == program = "tpool_join" => JoinInv
  <1>1. ThreadsInit => Inv
    BY JoinInit DEF ThreadsInit
  <1>2. ASSUME RunsPool => PoolInv, Inv, [ThreadsNext]_<<program, vars, seqlock, tpool, steal, sched>>
        PROVE  Inv'
    <2>1. CASE program = "tpool_join" /\ ThreadsNext
      <3>1. J!Next
        BY <2>1 DEF ThreadsNext
      <3> QED BY <1>2, <2>1, <3>1, JoinStep DEF RunsPool
    <2>2. CASE program # "tpool_join" /\ ThreadsNext
      BY <2>2 DEF ThreadsNext
    <2>3. CASE UNCHANGED <<program, vars, seqlock, tpool, steal, sched>>
      <3>1. JoinInv /\ UNCHANGED tpool => JoinInv'
        BY DEF tpool, JoinInv, Phases, SentinelsLast, Accounted, Out, Unfetched, InQueue, Holds
      <3> QED BY <1>2, <2>3, <3>1
    <2> QED BY <1>2, <2>1, <2>2, <2>3
  <1> QED BY <1>1, <1>2, PoolAlways, PTL DEF ThreadsSpec

LEMMA StealAlways == ThreadsSpec => [](program = "work_steal" => StealInv)
  <1> DEFINE Inv == program = "work_steal" => StealInv
  <1>1. ThreadsInit => Inv
    BY StealInit DEF ThreadsInit
  <1>2. ASSUME Inv, [ThreadsNext]_<<program, vars, seqlock, tpool, steal, sched>> PROVE Inv'
    <2>1. CASE program = "work_steal" /\ ThreadsNext
      <3>1. W!Next
        BY <2>1 DEF ThreadsNext
      <3> QED BY <1>2, <2>1, <3>1, StealStep
    <2>2. CASE program # "work_steal" /\ ThreadsNext
      BY <2>2 DEF ThreadsNext
    <2>3. CASE UNCHANGED <<program, vars, seqlock, tpool, steal, sched>>
      <3>1. ASSUME UNCHANGED steal, StealInv PROVE StealInv'
        <4>1. /\ \A x : (Waits(x)' <=> Waits(x)) /\ (Taken(x)' <=> Taken(x))
              /\ Uncounted' = Uncounted
          BY <3>1 DEF steal, Waits, Taken, Uncounted
        <4>2. StealTypes' /\ OnePlace' /\ RanOnce'
          BY <3>1, <4>1 DEF steal, StealInv, StealTypes, OnePlace, RanOnce
        <4>3. Counted' /\ DoneInTurn'
          BY <3>1, <4>1 DEF steal, StealInv, Counted, DoneInTurn
        <4> QED BY <4>2, <4>3 DEF StealInv
      <3> QED BY <1>2, <2>3, <3>1
    <2> QED BY <1>2, <2>1, <2>2, <2>3
  <1> QED BY <1>1, <1>2, PTL DEF ThreadsSpec

LEMMA SchedAlways == ThreadsSpec => [](program = "preempt_sched" => SchedInv)
  <1> DEFINE Inv == program = "preempt_sched" => SchedInv
  <1>1. ThreadsInit => Inv
    BY SchedInit DEF ThreadsInit
  <1>2. ASSUME Inv, [ThreadsNext]_<<program, vars, seqlock, tpool, steal, sched>> PROVE Inv'
    <2>1. CASE program = "preempt_sched" /\ ThreadsNext
      <3>1. S!Next
        BY <2>1 DEF ThreadsNext
      <3> QED BY <1>2, <2>1, <3>1, SchedStep
    <2>2. CASE program # "preempt_sched" /\ ThreadsNext
      BY <2>2 DEF ThreadsNext
    <2>3. CASE UNCHANGED <<program, vars, seqlock, tpool, steal, sched>>
      <3>1. ASSUME UNCHANGED sched, SchedInv PROVE SchedInv'
        <4>1. Gone' = Gone /\ \A t : Listed(t)' <=> Listed(t)
          BY <3>1 DEF sched, Gone, Listed
        <4>2. SchedTypes' /\ ListIsExact'
          BY <3>1, <4>1 DEF sched, SchedInv, SchedTypes, ListIsExact
        <4>3. EndedIsGone' /\ CountIsInside' /\ MainIsAlone'
          BY <3>1, <4>1 DEF sched, SchedInv, EndedIsGone, CountIsInside, MainIsAlone
        <4> QED BY <4>2, <4>3 DEF SchedInv
      <3> QED BY <1>2, <2>3, <3>1
    <2> QED BY <1>2, <2>1, <2>2, <2>3
  <1> QED BY <1>1, <1>2, PTL DEF ThreadsSpec

\* AllTasksRun: when tpool_join has joined the workers the queue is empty and every task
\* has run once; work_steal's threads leave when every task has run, and done_work ran
\* once, after them; in preempt_sched critical sections exclude each other and a task that
\* ended is reaped once, by another one, before main returns.
THEOREM NoWorkIsLeft == ThreadsSpec => []AllTasksRun
  <1>1. /\ RunsPool => PoolInv
        /\ program = "tpool_join" => JoinInv
        /\ program = "work_steal" => StealInv
        /\ program = "preempt_sched" => SchedInv
        => AllTasksRun
    BY JoinSafe, StealSafe, SchedSafe DEF AllTasksRun, RunsPool
  <1> QED BY <1>1, PoolAlways, JoinAlways, StealAlways, SchedAlways, PTL
=============================================================================
