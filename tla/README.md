# TLA+ models of concurrent-programs

The repository is a collection of small, independent C programs about
concurrency: locks, queues, memory reclamation, thread pools, coroutines and a
few applications. There is no program that uses all the others, so the
verification is organised the same way: one module per algorithm, modules that
put several of them into one model-checking run, and proof modules for the
algorithms whose correctness is proved for all parameters.

Contents: 1 the system, 2 how code is modelled, 3 modules, 4 runs and bounds,
5 fairness, 6 proofs, 7 disagreements between code and documentation, 8 what was
observed besides, 9 what is not modelled, 10 plan.

## 1. The system

### Modelled

| program | state | operations | what is hard | what makes it correct |
|---|---|---|---|---|
| `mcslock` | `lock` (tail of the line), per node `next`, `wait` | `mcslock_acquire`, `mcslock_release` | a thread is in the line before it is linked to it | one holder, first come first served, nobody is forgotten |
| `seqlock` | a counter whose parity is the writer flag, the record | `seqlock_read`, `seqlock_write` and their four primitives | readers copy while writers write; the counter wraps | a returned read is a record written whole; writers exclude one another |
| `channel`, mutex | one futex word (0, 1, 2) | `mutex_lock`, `mutex_unlock` | the decision to wake is taken from an old value | a mutex; no sleeper without a coming wake-up |
| `channel`, unbuffered | `datap`, two mutexes, two futexes, `closed` | `chan_send_unbuf`, `chan_recv_unbuf`, `chan_close` | a peer writes through a pointer into the other's stack frame | the exchange is a rendezvous; the frame is alive |
| `channel`, buffered | head, tail and per-slot laps, two credit counters, two waiter counters | `chan_send_buf`, `chan_recv_buf` and the try functions, `chan_close` | a credit says "try again", not "a slot is yours" | a slot has one owner, a message is received once, nobody sleeps beside a message |
| `tpool` | the job list, futures with flag bits and a result, workers | `tpool_create`, `_apply`, `_join`, `tpool_future_get`, `_destroy` | a future is shared by client and worker and freed by whoever is last; timed waits; cancellation | freed once and last; `get` returns the task's result; `join` waits for all tasks |
| `work-steal`, scheduler | one deque per thread, `join_count`, `done` | `thread`, `do_work`, `join_work` | termination through a last task | all tasks run, then everybody leaves |
| `work-steal`, deque | `top`, `bottom`, an array that doubles | `push`, `take`, `steal`, `resize` | owner and thief want the last item; stale arrays | each item once, none lost |
| `preempt_sched` | the list of tasks, `task_current`, `task_reap`, `preempt_count` | `task_add`, `schedule` from tasks and from the signal handler, the trampoline | a signal between the load and the store of the counter, or inside `schedule` | sections exclude each other; a task that ended is reaped once, by another one |
| `mpmc` | a list of nodes of N cells, two index counters, handles with their oldest node, a futex per waiting dequeuer | `mpmc_enqueue`, `mpmc_dequeue`, `mpmc_find_cell` | a dequeuer frees nodes others may stand on; values meet sleepers in a cell | a node is not used after it is freed; index i of one side meets index i of the other |
| `spmc` | a circle of growing buffers, each with `front` and `back` | `spmc_enqueue`, `spmc_dequeue` | the producer adds a buffer under the consumers' eyes | nothing lost or duplicated |
| `mpsc` | a linked list with `head` and `tail` | `queue_push`, `queue_front`, `queue_pop` | a push is an exchange and a later link | FIFO in the order of the exchanges |
| `lfring` | `head`, `tail`, slots with the index they were written for | `lfring_enqueue`, `lfring_dequeue` in four modes | the published tail lags; consumers copy before they claim | every element once; 0 only when empty |
| `ringbuffer` | head and tail of each side modulo 2^32, the slots, a watermark | bulk and burst enqueue and dequeue, the tests for full and empty | wrap-around of the indices, full and empty at the limit | a batch is what was enqueued next; published objects stay until they are consumed |
| `ringbuf-shm` | byte ring in shared memory with gap elements, `head`, `tail`, `mask` | `ringbuf_reserve`, `_advance`, `_read`, `_skip`, creation by either process | the gap at the end; the process that maps the memory first initialises it | messages arrive whole and in order |
| `lf-queue` | a Michael-Scott list, hazard pointers, a pool of retired nodes | `lfq_enqueue`, `lfq_dequeue_tid`, `safe_free`, `free_pool` | retired nodes are tested and freed while hazard pointers appear | no use after free, freed once, in order |
| `broadcast` | ring of slots with tagged references, a pool of elements | `broadcast_pub`, `broadcast_sub_next`, `try_drop_head`, the pool's acquire and release | a publisher rolls the oldest message off and reuses its element | an element has one owner; the latest messages are kept; an overrun subscriber notices |
| `mbus` | client slots: `registered`, `refcnt`, callback | `bus_register`, `bus_send`, `bus_unregister` | a callback runs while its client is unregistered; a 24-byte exchange under a lock beside a lock-free decrement | a callback runs only while its client is registered |
| `redirect` | a list of watchers, timers, epoll's set | `ev_init`, `ev_io_*`, `ev_timer_*`, `ev_run` | watchers are started and stopped by callbacks in the middle of a batch of events | list, watchers and kernel agree; the loop starts what is dormant before it waits |
| `qsbr` | a global and a local epoch per thread, the thread list | `qsbr_register`, `_checkpoint`, `_barrier`, `_sync`, `_unregister` | an epoch loaded earlier is stored later | no access to a destroyed object; grace periods end |
| `thread-rcu` | an index, per thread a word with two bits and the link to the next thread | `rcu_init`, `rcu_read_lock`, `rcu_read_unlock`, `synchronize_rcu` | index loaded, bit stored later; the whole word is loaded and stored | no reader's object is freed; grace periods end |
| `rcu_queue` | a list with `head` and `tail`; an epoch, a countdown of workers, two lists of retired nodes | `qsbr_queue_push`, `_pop`, `qsbr_free`, `qsbr_quiescent` | `tail` lags behind `head`; the last worker moves one list to the other while pops add to it | no node used after it is freed, freed once, FIFO |
| `refcnt` | a counter | `refcnt_ref`, `refcnt_unref` | decrement and free are two steps | freed once, after the last use |
| `hp_list`, list | an ordered list with marked pointers, three hazard pointers and a retire list per thread | `list_insert`, `list_delete`, `__list_find`, `list_hp_retire` | a hazard pointer moves from slot to slot while others scan | no use after free, retired once, the list holds what was inserted |
| `hp_list`, domain | a list of hazard pointers, one shared pointer | `load`, `drop`, `swap`, `cleanup` of `list2.c` | a reader publishes its pointer and reads again | a loaded object is not freed; the writer's last cleanup ends |
| `hashmap` | buckets of lists changed by compare-and-exchange; the list of deferred frees | `hashmap_get`, `_put`, `_del`, `free_later` | a change behind a node that is being removed | a bucket holds the last put of each key; removed nodes wait in the buffer |
| `lf-timer` | an array of timers, the cached earliest expiration, a free list with a counter | `timer_alloc`, `_set`, `_reset`, `_cancel`, `_free`, `lf_timer_expire` | a timer set earlier than the cached minimum while a scan runs | no timer that is set is forgotten; each timer is free or in one hand |
| `list-move` | lists of nodes with versioned slots, a chain of records with epochs | `list_move` of `lockfree.c` | threads number each other's records | a move reads one version; no key is lost |
| `cmap` | arrays of entries, a fence, reference counters with postponed callbacks | `cmap_insert`, `_remove`, `_expand`, the search, `rcu_acquire` ... `rcu_free` | the array is doubled and its nodes moved by the last reader | an array with a reference is not freed; what is present is found |
| `httpd` | two-lock queue of descriptors, a condition variable | `enqueue`, `dequeue`, greeters, workers, keep-alive | empty is tested under one lock, the wait is under the other | a connection has one owner; a queued one is served |
| `map-reduce` | the file in slices, a table per thread, ranges of buckets | `fa_getword`, `buff_init`, `count`, merge, print | cuts inside a word; ranges of a merge | the exact count of every word |
| `tinync` | three coroutines, a byte queue | the relay between stdin, network and stdout | a byte is popped and not yet sent; calls that would block | bytes leave in order |

### How the parts interact

Programs do not call one another. Inside a program the interaction is through
shared memory and callbacks, plus kernel or library services: `futex_wait` and
`futex_wake` (channel, mpmc), pthread mutexes, barriers and condition variables (tpool,
httpd, map-reduce, qsbr), `epoll` and timers (redirect), a signal timer
(preempt_sched). In the models these services are environment:

* `futex_wait(addr, v)` compares and goes to sleep in one step, may return at once
  and may return without a wake-up; `futex_wake` wakes the sleepers it finds.
* A pthread mutex makes its critical section one action; a condition variable
  may wake spuriously, a timed wait may time out at any moment.
* `epoll_wait` reports what is ready in some order, or fails; a timer expires at any time.
* Memory is sequentially consistent. The code annotates its atomics with weaker
  orders; what these orders allow beyond interleavings is not modelled.
* A weak compare-and-exchange may fail when the values agree, where its failure
  path does more than try again; for `rcu_queue` this is the constant `Spurious`
  (section 8).

## 2. How code is modelled

An action is one access to memory another thread may write, with the local
computation around it, so that every interleaving the code has is an interleaving
of the model. Program counters are named after what the thread does next. Data
is abstracted to what the properties tell apart: a message is a name, a node is
named by the item it was allocated for, a record is a function from words to
values. Variables marked *history* in a module are not in the code; they record what
happened for the properties. A guard reads one only where the module says so:
`NotLapped` of `SeqLock` (section 6).

Callers are the ones in the repository: each module drives its operations the way the
program's own `main` or test does (for example, `mpsc`'s producers share one counter,
`qsbr`'s threads wait at a barrier before they work, the owner of a deque pushes
before it takes). Where a program is a library with a thin `main` (`mbus`, `redirect`,
`lf-timer`, `cmap`) the calls come in any order that the interface allows. Definitions
whose comment begins with *Mutant* say which mistake they make; they are not part of the
specification.

## 3. Modules

| module | source | notes on the correspondence |
|---|---|---|
| `MCSLock` | `mcslock/mcslock.c` | one action per atomic access; `place` is a history of the line |
| `FifoLock` | - | abstract first-come-first-served lock that `MCSLock` refines |
| `SeqLock` | `seqlock/seqlock.c` | copies word by word; `SeqMod` stands for 2^32; the ARM wait-for-event loop is a plain wait |
| `Mutex`, `ChanMutex` | `channel/channel.c` 7-64 | abstract mutex, and the futex mutex that refines it |
| `ChanUnbuf` | `channel/channel.c` | `datap` holds the thread whose frame it points to; the mutexes are the abstract ones; the early EPIPE return leaves its mutex locked, as in the code |
| `ChanBuf` | `channel/channel.c` | the 64-bit word of lap and position is a record |
| `TPool` | `tpool/tpool.c` | one thread creates and joins the pool, each client applies one task and owns its future |
| `WSDeque`, `WorkSteal` | `work-steal/work-steal.c` | the deque in detail; the scheduler over atomic deques |
| `Preempt` | `preempt_sched/task_sched.c` | the counter is loaded and stored in two steps; the signal comes between any two; the list is a sequence |
| `MPMC` | `mpmc/mpmc.c` | `Threshold` stands for the number of nodes that must have passed before a dequeuer reclaims |
| `SPMC` | `spmc/spmc.c` | buffers double in size, from `2^InitialPower` |
| `MPSC` | `mpsc/mpsc.c` | the stress test with a `queue_front` before each `queue_pop` |
| `LFRing` | `lfring/lfring.c` | `SP`, `SC` are the flags; the double-word exchange is one step |
| `RingBuffer` | `ringbuffer/ringbuffer.c` | objects are numbered; `Mod` stands for 2^32 |
| `ShmRing` | `ringbuf-shm/` | memory is a function from offsets to what was written there; `WordMod` stands for the range of `size_t` |
| `LFQueue` | `lf-queue/lfq.c` | `next` and `free_next` share their memory, as the union does |
| `Broadcast` | `broadcast/broadcast.c` | slots and pool with their tags; `mem` is what an element holds |
| `MBus` | `mbus/mbus.c` | the 24-byte compare-and-exchange is a comparison and a copy under libatomic's lock, the decrement is not |
| `EventLoop` | `redirect/main.c` | the list is a sequence, latest first; EV_FOREACH leaves the last node out, as in the code; one read is one unit of input |
| `QSBR` | `qsbr/main.c` | library and stress test |
| `ThreadRCU` | `thread-rcu/rcu.h`, `main.c` | a node is named by its thread; storing a word without a link cuts the list, as in the code; the order of the two loads in `rcu_read_lock`, which C leaves open, is word first; `late` is a history |
| `RCUQueue` | `rcu_queue/rcu_queue.c` | queue, reclamation and the test's workers; a freed node keeps its contents |
| `RefCnt` | `refcnt/main.c` | a reference is a token, the counter their number |
| `HPList`, `HPDomain` | `hp_list/main.c`, `hp_list/list2.c` | the scan looks at one hazard pointer per step; addresses of `HPDomain` are reused, nodes of `HPList` are not |
| `HashMap` | `hashmap/hashmap.c`, `free_later.c` | one bucket; `raced` is a history of two changes at neighbouring nodes |
| `LFTimer` | `lf-timer/lf_timer.c` | the scan reads ahead, as the code does; time is a tick; `owned` and `orphans` are histories |
| `ListMove` | `list-move/lockfree.c` | a record is a place in the chain; `misnumbered` is a history |
| `CMap` | `cmap/cmap.c`, `rcu.c` | arrays, fences and counters are indexed by generation; a cursor reads `next` on arrival at a node, as the code does; `missed` is a history |
| `HTTPD` | `httpd/httpd.c` | a request is its protocol version, an answer its status |
| `WordCount` | `map-reduce/word-count.c` | letters are numbers, a text is a sequence of them |
| `TinyNC` | `tinync/tinync.c` | a coroutine's state is its resume label; a call may be not ready or fail |
| `*_MC` | - | unions of instances for TLC |
| `*_proofs` | - | inductive invariants and proofs (section 6); those of `QSBR` are in the module itself |

The models that share a run share nothing else. `Threads_MC`, `Buffers_MC`, `Channel_MC`,
`Reclaim_MC` and `Retire_MC` are disjoint unions: a
variable `program`, chosen in the initial state, says which program the behaviour
runs, and the variables of the others keep their initial value. The properties
of a union are conjunctions of those of its components, grouped by theme (types, memory,
order, progress), and the sets of states add up rather than multiply.

Composition inside a program: `ChanUnbuf` uses the mutex that
`ChanMutex` implements, `WorkSteal` the atomic deque that `WSDeque` is about.

## 4. Runs, bounds, and what they show

| run | instance | shows |
|---|---|---|
| `threads` | MCS lock with 3 threads; sequence lock with 2 writers, 1 reader, counter modulo 4; pool with 2 workers and 2 clients, with and without clients that apply during the join; 3 stealing threads with 2 tasks each; 3 preempted tasks with 2 sections each | `ServedInLine`, `NoLateLink`, refinement of `FifoLock`; `FuturesAreSafe` (freed once and last, `get` returns the result), `NoSleeperWithWork`, `AllTasksRun`; `EverybodyReturns` |
| `buffers` | sequence lock with 2 words and 2 values; `lfring` 2 x 2, 2 x 1, 1 x 2 and single-threaded modes; `spmc` with 2 consumers and 4 items, 1 consumer and 7 items; deque of two slots with 3 items and 2 thieves; `ringbuffer` of 4 slots (`ring_count`) modulo 12 (`ring_mod`), up to 3 objects per call (`ring_batch`); `httpd` with 1 greeter, 2 workers, 2 descriptors and 4 `Enqueues`; all texts of 4 characters with 3 and 2 threads; `hashmap` with 3 calls; `lf-timer` with 3 `MAXTIMERS`, `MaxTick` 2 and 5 `TimerCalls`; `tinync` with 3 `Bytes` each way, 1 error and a `queue_size` of 2; `list-move` with 2 and 3 threads | `ReadIsSnapshot`, `OneWriterInside`; `PromisedAreFull`, `EachElementOnce` (nothing lost, duplicated or overwritten), `BatchesAreExact`; `OneOwnerPerConnection`, `ConnectionsAreServed`; `WordsAreCounted`; `TimersAreKept` |
| `channel` | mutex with 3 threads; unbuffered 2 x 2; ring 2 x 1 and 1 x 2 with one slot, 1 x 1 with two slots; shared memory ring of 16 bytes; event loop with 2 timers and stdin; 2 publishers, 1 subscriber, 1 slot; bus with 3 threads, 2 slots, 3 calls | mutex: `SleeperIsCovered`, refinement of `Mutex`. Unbuffered: `Rendezvous`. Buffered: `RingIsExact`. `ringbuf-shm`: `MessagesInOrder`. `redirect`: `WatchersAgree`, `OnlyOldestIsMissed`. `broadcast`: `LatestAreKept`. `mbus`: `CallbacksAreCounted`. `ChannelProgress`: all of them get on |
| `reclaim` | reference counts: 3 threads, 2 iterations; QSBR: 2 readers, 1 object; `thread-rcu`: 2 readers, 3 updates; `mpmc` 2 x 1 with 2 cells per node; `mpsc` with 3 producers and 3 values; hazard pointer domain with 2 readers and 2 swaps; `cmap` with 1 reader and 3 insertions | `FreedByTheLast`; `NodesAreSafe` (no node used after it is freed or freed twice; an RCU reader that announced itself in time is waited for); `ValuesInOrder`, `SleeperIsServed`, `EverythingReceived`; `ReclaimProgress`: freed in the end, grace periods, cleanups and fences end |
| `retire` | QSBR: 2 readers, 2 objects, 3 epochs; `lf-queue` with 3 items, 2 consumers, 2 frees per call; `mpmc` 1 x 2 with 1 cell per node; `rcu_queue` with 2 workers, 2 pushes and 2 pops each; `hp_list` with 2 threads, 3 calls, 2 keys; `cmap` with 2 readers, 3 insertions | `DerefIsValid`; `NodesAreSafe` (no use after free, no double free, the assertions of `qsbr_quiescent`, arrays with a reference), `EachItemOnce` (in order, each once; a false "empty" only after `head` has moved on; the list and the arrays are complete) |
| `chanbuf_stall`, `spmc_order`, `thread_rcu`, `rcu_queue`, `broadcast`, `hp_list`, `hashmap` | see section 7 | a documented property that the code does not have |

Why these bounds. Three threads are the least with which somebody stands between
two others in a line, arrives while one hands over to another, or sleeps while two others
work. Rings have one or two slots, so that they fill and every slot is used again;
counters wrap after two or three laps; lists have so few
cells per node that every dequeue needs a new node and reclaims an old one; the
deque and the map start too small for their items and have to grow in the middle of steals and searches.
The header of each `*_MC` module says which case each number is for.
`MaxEpoch`, `MaxDequeues`, `MaxSteals`, `MaxGets`, `MaxNodes`, `MaxArrays`, `MaxRecs`, `MaxEvents`, `MaxErrors`,
`MaxTick`, `Enqueues`, `Bytes` and `Calls` are the named bounds of
what the code does without limit; `Symmetry` permutes threads and values that no
action tells apart (only in runs without temporal properties). For what section 6 proves the
numbers do not matter.

The programs are finite tests or servers that may be idle, so deadlock is not an error in the unions
(`CHECK_DEADLOCK FALSE`); the liveness properties say that what ends ends well.

## 5. Fairness

Each module with liveness has `Fairness`. It is weak fairness of each thread's step:
the operating system runs every thread that can run. Nothing forces a thread to
call an operation (`AcquireInit`, `LockCall`, `ReadCall`, `WriteCall`, `Call`), a spurious wake-up, a timeout, a failing
`pthread_create`, a close, an error of a system call, a signal or an alarm - except the periodic timer of `preempt_sched`.
Strong fairness appears only where another thread may disable the step again and again:

* `SeqLock`, `ChanBuf`: a weak compare-and-exchange does not fail for ever while its value agrees;
* `ChanUnbuf`: the channel's mutex, free again and again, is given to each thread that
  wants it. `ChanMutex` itself promises less (`SomeoneGetsIn`): the kernel's wake-up order decides;
* `ShmRing`: the two processes poll; a poll that succeeds again and again is made in the end;
* `Preempt`: `SF` of a task's step while it is the current one, and `WF` of the timer: whoever has the
  processor again and again does run.

In the unions a liveness property is
`Fairness => property` of its component, which is the same statement about the behaviours that run
that component; for `cmap`, whose `Updater` is one of several processes, the fairness is restated with `program = "cmap"` in
the action (`CMapFairness`).

## 6. Proofs

TLAPS checks every leaf; the only assumptions are those on the constants, named in the module that
declares them and evaluated by TLC in the runs.

| module | for every | proved | inductive invariant |
|---|---|---|---|
| `Threads_proofs`, MCS lock | set of threads, `Null` not among them | `ServedInLine`, `NoLateLink`, refinement of `FifoLock` | `LineInv`: the places are 1..n without gap or repetition and `lock` is the last; `LinkInv`: a node's `next` is the thread one place behind it, or null while that thread is still on its way to link itself; the `wait` flag is cleared only for the first in line |
| `Buffers_proofs`, sequence lock | sets of readers, writers and values, `NWords > 0`, even `SeqMod > 3` | `ReadIsSnapshot`, `OneWriterInside` | `WriterInv`: the counter is odd exactly while one writer is inside; `ReaderInv`: the counter is the one the reader saw plus the steps since, and if there were none what it copied agrees with the record |
| `Channel_proofs`, futex mutex | set of threads | `WordMatchesOwner`, `SleeperIsCovered`, refinement of `Mutex` | those two themselves, with the place of a sleeper |
| `QSBR` | sets of readers and objects, `MaxEpoch` | `DerefIsValid` | `GracePeriod`: a thread that has seen the target epoch holds no pointer to an object removed before it; the epochs a thread has loaded are past ones |
| `Reclaim_proofs`, reference counts | finite set of threads, any number of iterations | `FreedByTheLast` | the counter is the number of references; whoever is between decrement and free saw the last one go |
| `Reclaim_proofs`, `mpmc` | disjoint finite sets of enqueuers and dequeuers, any number of calls each, no more dequeues than enqueues, any size of a node and any threshold (`MpmcAssumption`) | its parts of `NodesAreSafe` and `ValuesInOrder`; `SleeperIsServed` | `MpmcInv`, below |
| `Reclaim_proofs`, `mpsc` | set of producers and number of values (`MpscAssumption`) | its parts of `NodesAreSafe` and `ValuesInOrder` | `QueueInv`: a value is pushed once (`ValuesAreNew`); a push that has still to link its node has its predecessor in the queue (`PushesAreBehind`); from `head` on each node leads to the next one pushed unless that is not linked yet (`ListIsLinked`); where `queue_pop` stands says what is gone (`PopIsExact`) |
| `Reclaim_proofs`, `thread-rcu` | set of readers and number of updates (`RcuAssumption`) | its part of `NodesAreSafe` | `RcuInv`: the list has every registered thread (`ListIsComplete`); a reader inside has its bit set (`BitsAreSet`); a prompt reader inside has the current index, or the one before it while the second scan has not come to its node, and its object is not older than the one that is being replaced (`PromptIsSeen`) |
| `Reclaim_proofs`, hazard pointers of `list2.c` | finite set of readers, set of writers, positive addresses, any number of loads and swaps (`DomainAssumption`) | its part of `NodesAreSafe` | `DomainInv`, below |
| `Channel_proofs`, unbuffered channel | disjoint sets of senders, receivers and closers, any number of messages (`UnbufAssumption`) | `Rendezvous`, `FutexesAreSmall` | `UnbufInv`, below |
| `ChanBuf_proofs`, with `Channel_proofs` for the channels of the run | finite disjoint sets of senders and receivers, other threads that close, any batches, any capacity (`BufAssumption`) | `RingIsExact`: `SlotIsExclusive`, `ReceivedOnce`, `CreditIsSeen` | `BufInv`, below |
| `Channel_proofs`, message bus | numbers of slots and calls, set of threads (`BusAssumption`) | `CallbacksAreCounted` | `BusInv`: a caller's copy of a slot that is about to be exchanged is current unless the slot has changed since (`CopyIsCurrent`), and `refcnt` is the number of threads inside plus the decrements that an exchange has overwritten |
| `Channel_proofs`, event loop | set of timers (`LoopAssumption`) | `WatchersAgree`, `OnlyOldestIsMissed` | `LoopInv`: no watcher is twice in the list and it holds the ones that are active (`ListAgrees`); what epoll knows is what was started (`KernelAgrees`); behind the loop's cursor everything has had its start (`StartedInTime`) |
| `Buffers_proofs`, ring of objects | ring, batch and index range, the range a multiple of the ring (`RingAssumption`) | its part of `BatchesAreExact`: published objects are whole and in order, and the tests for full and empty agree with the counts | `RingInv`: from `cons_tail` on come `cons_head`, `prod_tail` and `prod_head` within one ring, across the wrap-around of the indices (`RingOrder`); a call has copied no more than it reserved (`RingCalls`); every slot between the tails holds its object (`RingKept`) |
| `Buffers_proofs`, relay | size of the queue, numbers of bytes and errors (`RelayAssumption`) | its part of `BatchesAreExact`: bytes in order, all but the one at hand are sent | `RelayInv`: the queue is a window of the numbers read and the pointer of `socket_write_loop` is the slot just before it (`QueueIsWindow`); without errors queue, sent and written are exact (`QueueIsExact`, `SentIsExact`, `WrittenIsExact`) |
| `LFTimer_proofs`, with `Buffers_proofs` for the union | set of threads, numbers of timers, ticks and calls (`TimerAssumption`) | `TimersAreKept`: `NoTimerForgotten`, `TimersAreAccounted` | `TimerInv`, below |
| `LFRing_proofs`, with `Buffers_proofs` for the union | sizes of ring and batch, finite set of producers, other consumers, number of calls, all flags (`LfringAssumption`) | `PromisedAreFull` and the ring's part of `EachElementOnce`: `PromisedSlotsAreFull`, `DequeuedInOrder`, `SlotIsOneLapBack`, `EmptyIsReal` | `LfringInv`, below |
| `Buffers_proofs`, web server | finite set of two workers or more, sets of greeters and descriptors (`HttpdAssumption`) | `OneOwnerPerConnection`, `ConnectionsAreServed` | `ServerInv`: the nodes are linked in order and only the tail lags, for the holder of its lock (`ListIsOrdered`); an open descriptor is in one node or one thread (`Owners`); while no signal was lost there are as many workers on their way as connections in the queue (`EnoughAwake`), and if all of them sleep it is empty (`AllIdle`) |
| `Threads_proofs`, thread pool | sets of clients and workers (`PoolAssumption`) | `FuturesAreSafe`, `NoSleeperWithWork`, the pool's part of `AllTasksRun` | `PoolInv`: a task is in one place (`OneReference`), and while it is queued or held its future is pending and alive (`QueuedIsPending`, `HeldIsPending`); a future's flag bits say who is left (`FlagsAreFinal`). `JoinInv`: the phases of `tpool_join` (`Phases`), its sentinels are behind all tasks (`SentinelsLast`), and sentinels queued, taken and to come add up to the workers (`Accounted`) |
| `Threads_proofs`, work stealing | numbers of threads and tasks (`StealAssumption`) | its part of `AllTasksRun` | `StealInv`: a task is in one deque or in one hand (`OnePlace`), ran at most once (`RanOnce`), the join counter is what has not been joined (`Counted`), and `done` follows the last task (`DoneInTurn`) |
| `Threads_proofs`, preemptive scheduler | set of tasks and number of sections (`SchedAssumption`) | its part of `AllTasksRun` | `SchedInv`: the list holds the tasks that exist, once each (`ListIsExact`); a task that ended is not in it (`EndedIsGone`); the nesting counter is the number of sections the current task is in, with what a preempted load still has to store (`CountIsInside`); at the end main is alone (`MainIsAlone`) |

The theorems of `Channel_proofs` (except those of the mutex), `Threads_proofs` (except those of the MCS lock), `Buffers_proofs` (except those of the sequence lock) and `Reclaim_proofs` (except those of the
reference counts) are about the specifications of the unions (`ChannelSpec`, `ThreadsSpec`, `BuffersSpec`, `ReclaimSpec`), that is, about the behaviours that run the program in question. Of the
component they use its initial states and its next-state relation only.

None of the properties is inductive as it stands. Nine examples of what they need:

* For the sequence lock, `ReadIsSnapshot` speaks of finished reads only; the proof needs what is true of a
  read in progress. That in turn needs the history `since` (writer steps since the reader's first look) and
  the bound that fewer than `SeqMod` of them happen within one read: the model lets no writer step wrap the
  counter around completely behind a reader's back, which is what the code relies on with 2^32.
* For the unbuffered channel, that a peer's frame is alive when it is written follows from who is
  between which two steps: each side's mutex admits one call at a time (`Exclusive`, `CallsInTurn`); the
  futex word counts what is still to be done (`FutexCounts`); `datap` points to a call that has not been
  served (`DatapIsUnserved`, `UnservedIsOffered`); who took it has its peer waiting (`TakerHasPeer`); a
  sleeper whose futex has moved has a wake-up coming (`SleeperIsServed`); and the messages taken are those
  sent (`Messages`). All of it is about an open channel: `chan_close` breaks each of these (section 8).
* For the thread pool, that a broadcast is needed only when the queue was empty rests on every worker
  that sleeps having gone to sleep on an empty queue, and on every waker having broadcast before it
  lets go of the lock; for the join it takes the count of sentinels too.
* For the web server, a signal given to nobody is lost, so "a sleeper has nothing to do" is false: what holds is
  that as long as no signal has fallen between a worker's test and its wait (`missed`), workers awake and signals
  to come cover the queue. A signal that was lost is made up for by a second worker that comes back, which is why
  there have to be two of them.
* For `mpmc`, memory and values are separate arguments. Memory (`NodesInv`): `init_id` is a lock that one dequeuer at a time holds while it
  looks for the smallest node in use (`OneScans`); the handle of a thread it has passed is not below its minimum and handles only
  grow (`HandlesAhead`), and what different dequeuers free are separate ranges below `init_node` (`RangesApart`). Values
  (`CellsInv`): indices are handed out once, and there are as many as calls have begun (`IndicesOnce`, with cardinalities); a cell is empty or names a
  dequeue that waits, and once filled has the value of its index until that is taken (`CellsHold`); a waiting dequeue is named by its cell, or by the one
  enqueue that has still to clear its futex, or its futex is clear (`WaitersKnown`); what was received belongs to an index nobody will take again
  (`ValuesOnce`).
* For the hazard pointers of `list2.c`, a slot belongs to nobody: `drop` clears the first one with its address, which another reader may have
  filled. So "my slot protects me" is false. What holds is a count (`MarksSuffice`): up to every place of the list the address stands at least as often as
  there are readers that need it there, a walking reader counting up to where it has walked. A scan walks down the list: as long as it has met no match, the places it
  has still to visit hold enough marks for all readers that use the address (`ScanSuffices`), so at the end nobody uses it (`FreedIsUnused`).
* For the ring of the buffered channel, "the slot is mine" rests on the laps: the lap at which a side will claim a slot next follows from its index
  (`Due`), and the laps of both sides and of the slot are never further apart than one round, so the slot waits for one side, for the other, or is with the one thread that
  claimed it (`SlotsInTurn`). From that a message is in one place (`OnePlace`). `CreditIsSeen` is a count: while somebody sleeps there are never more credits for its side than
  threads that will look for waiters or can take one (`CreditsCovered`). `BufAssumption` is a hypothesis of the theorem; `Channel_proofs` discharges it for the three channels of the union.
* For the timers, the cache may be later than a timer that is set, as long as somebody covers that timer (`CoverInv`): it has set it and not yet updated the cache, or its scan has
  the entry still to read, has read just what the entry holds and not passed it, or has it in its minimum. A scan resets the cache before it loads `hi_watermark`, and an allocated timer is below the
  watermark (`FreshInv`). For the free list one has to know which timers it reaches; that is defined as the least set that has its head and goes on with `arg`, so that a pop or a push
  changes it by one timer without induction (`ReachPop`, `ReachPush`). Its counter only grows, so an exchange that succeeds has read the right successor (`ListInv`). Entries that were never filled
  hold 0, which looks due: they are beyond the watermark, behind all others in the list, or with the thread that fills them (`FreshInv`).
* For `lfring`, `tail` says too little: producers fill slots beyond it, in any order of their steps, and anybody publishes them. The invariant is about what was enqueued: the
  indices filled have no hole (`NoHoles`), so each producer knows that everything below its own `pt` is filled (`PassedIsFull`); a slot holds the latest index filled of those that share
  it (`SlotsHold`), no index is filled a ring ahead of `head` (`InRoom`), so that an exchange that finds the index one lap back is the one for the first index missing. What a consumer has
  copied is right as long as `head` has not moved since (`CopiesHold`). That 0 is returned only if all is gone takes a bound for what was enqueued before the call (`PendingBelow`).

The ring needs arithmetic on remainders that the SMT solver does not do by itself: `Multiples` to `ModDistinct` state
it, from the least element of a set of natural numbers (`NatMin`, `NatInd`); `Behind` and `SlotIs` turn
it into facts about slots.

Each invariant was checked with TLC before it was proved.
Refinements are proved step by step: the initial state maps to an initial state, and each action
to one abstract action or none.

Only model-checked:

* liveness: fairness and `ENABLED` are out of the prover's reach;
* what is computed by recursion over data (`WordCount`'s tables against the reference count): this takes
  induction with an operator as a parameter, which none of the provers can instantiate (induction over a set of numbers,
  as in `NatInd`, is possible and is used for the ring);
* the unions' `TypesOK`, which has one conjunct per component (the proofs contain the part of it that they use);
* `MessagesInOrder` and `LatestAreKept` of the channel union, `EachElementOnce` (but for `lfring`) and `WordsAreCounted`
  of the buffers, and the invariants of `Retire_MC` except `DerefIsValid`: see the plan.

## 7. Disagreements between the code and what is said of it

Seven runs end with a counterexample.

* `chanbuf_stall`. The test of the buffered channel asserts that every message arrives
  (`channel/channel.c:470`). With two senders and two receivers: sender 1 claims slot 0,
  sender 2 fills slot 1 and gives a credit; a receiver spends it on slot 0, which is not ready,
  and waits again; sender 1 finishes and gives its credit, with which the same receiver takes slot 0.
  The other receiver sleeps for ever although slot 1 is full.
* `spmc_order`. With one consumer, items come out of order. `spmc/spmc.c:5-7` lists this for many consumers.
  The consumer looks at its empty buffer, the producer fills it and moves to the next one,
  the consumer then sees that it is not the producer's buffer any more and moves on.
* `thread_rcu`. A reader loads the index in `rcu_read_lock` and is delayed. One `synchronize_rcu` increases the index;
  the reader stores the bit of the old index and dereferences the new object. The next `synchronize_rcu` looks only at the bit of the
  new index, twice, and the updater frees the object that is being read. What the second loop of `synchronize_rcu` does achieve is part of `NodesAreSafe`
  (`PromptReaderIsSafe`): a reader whose bit was stored while the index was the one it had loaded is waited for.
* `rcu_queue`. A pop may move `head` past the node `tail` points to and hand it to `qsbr_free`. A push that begins afterwards takes that node
  from `tail`; its worker has nothing to report for the epoch any more, the node is freed, and the push accesses it. Pops are safe (`PopIsSafe`).
* `broadcast`. `broadcast_sub_next` compares the slot's reference before and after it copies the message (`broadcast.c:175-176`:
  dropped if the data changed while reading). A publisher that rolls the oldest message off reuses its element at once, while the slot keeps the old
  reference until the next lap: the subscriber copies the new message and both comparisons agree.
* `hp_list`. `list_hp_retire` scans a thread's hazard pointers one by one, from the last index down, while `__list_find`
  moves a protected pointer from one slot to another. The scan can read the target slot before the copy and the source slot after it was
  overwritten, and frees a node that is in use.
* `hashmap`. `hashmap_del` unlinks a node by one exchange in a predecessor that may itself have been unlinked. Two deletions of
  one key succeed, where `hashmap.h:53-54` promises that only one returns true.

## 8. Observed besides

These were met while modelling and have no run of their own; the properties are stated so that they do not depend on them.

* `channel`, unbuffered: `chan_close` overwrites the futex words in the middle of an exchange (`channel.c:351`). A word that was `CHAN_CLOSED` can then
  be decremented to `CHAN_WAITING`, with eight senders or more below zero; two senders can pair, against the comment at `channel.c:77-78`; a served
  waiter whose word was decremented finds `CHAN_WAITING` and sleeps after the wake-up of `chan_close`. A thread that returns EPIPE from inside the exchange
  (`channel.c:293-296`, `336-339`) keeps the mutex. `Rendezvous` is therefore about a channel that is still open.
* `channel`, buffered: `chan_close` wakes sleepers but leaves the credits at 0, so that they go back to sleep.
* `mpmc`: `mpmc_enqueue` may call `FUTEX_WAKE` on a frame whose `mpmc_dequeue` has returned (`mpmc.c:202`). The store before it cannot (`SleeperIsServed`).
* `tpool`: a task applied behind the sentinels of `tpool_join` is cancelled without a broadcast, so a `tpool_future_get` without timeout on it does not
  return; `EverybodyReturns` is about clients that apply before the join. The deadline of a timed get is computed with `CLOCK_MONOTONIC` for a condition
  variable with the default clock.
* `thread-rcu`: the test aborts when a reader finds a smaller count than another one has stored (`main.c:80-85`), which a reader that holds the old object
  legally can meet; `UpdatesEnd` is about runs without it. Without the barrier of `main.c` (`StartTogether = FALSE`, as in `rcu-list/test.c`) a thread may
  register while another one is between the load and the store of its word, and the store removes the link to the new node.
* `rcu_queue`: a spurious failure of the weak compare-and-exchange at `rcu_queue.c:196` leaves `next` at `NULL`, and the following one may store that to
  `tail` (`Spurious = TRUE`); on x86 the instruction does not fail without reason.
* `work-steal`: `take` on a deque that was never pushed to decrements `bottom` below zero; `main` never does this.
* `lf-queue`: `lfq_dequeue_tid` may return "empty" although an item is there: a retired node that goes into the pool loses its `next`, which shares a word with
  `free_next` (`lfq.h:61`, `lfq.c:22`), between another consumer's validation and its read. `EmptyIsReal` says that this is the only case: `head` has moved on.
* `map-reduce`: an end of file inside `buff_init` ends a thread before the barrier the others wait at; `scale_range` of the largest code is `n_buckets`, one past the table.
* `httpd`: `dequeue` tests for empty under one lock and `enqueue` signals under the other (`httpd.c:87-102`), so a signal can be lost: a connection may wait in the queue beside a sleeping worker until another one comes back (`LostOnlyBeforeWait`, `NoConnectionStalls`); a server with a single worker would leave it there.
* `redirect`: EV_FOREACH never visits the oldest watcher (`main.c:551-552`), so a single dormant one is never started, and neither is the last dormant timer armed (`:540`);
  data left in a pipe after the first hang-up is lost; after EV_ERROR the read may block.
* `ringbuffer`: the comment of the dequeue functions promises another error than the `-ENOENT` the code returns.
* `ringbuf-shm`: the consumer may create the memory as well; who maps it first writes the header while the other one may already read it. The test for free space leaves the header of the element out.
* `broadcast`: the number of messages a subscriber missed is discarded when `broadcast_sub_next` returns false.
* `hp_list`: an insertion behind a node that is being deleted (marked) is lost, and a deletion's exchange may be made at the address of a marked pointer.
* `mbus`: a decrement of `refcnt` that is overwritten by the 24-byte exchange leaves the counter too high, and `bus_unregister` spins for ever (`mbus.c:108-110`). `CallbacksAreCounted` says so: it counts what was lost.
* `hashmap`: a failed exchange in `list_add` overwrites the global `empty` (`free_later.c:38`); `release_lock` does not release (`:72-76`); `free_later_stage` never stages the first buffer (`:110`); `hashmap_put` may link in front of a node that is stale.
* `lf-timer`: `lf_timer_free` between the exchange of `lf_timer_expire` and the callback sets the callback to null (`lf_timer.c:97-101`, `:283`). Of two threads in `lf_timer_alloc`, the one with the later
  timer may raise `hi_watermark` (`:257`) while the other one has taken its timer from the free list and not yet stored to its entry (`:252-253`): the entry is still 0, from `init_timers` (`:60-61`,
  "All timers beyond hi_watermark <= now"), a scan finds it due and calls a callback that is null. It takes three timers; `TimersAreAccounted` leaves out who has expired such a timer (`orphans`).
* `preempt_sched`: the handler may interrupt `qsort_r` or `malloc`, and `task_destroy` frees memory inside it; these functions are not signal safe. The model treats each as one step.
* `cmap`: `rcu_acquire` loads the pointer and increments its counter in two steps, between which `rcu_set` may exchange and free it (`rcu.c:51-52`); `cmap_insert` and `cmap_remove` do not wait for the fence of an expansion (`cmap.c:104`); the utilization is never decremented.
* `tinync`: a byte that was popped and not yet sent is lost at end of file, and its place is overwritten when the queue fills; `select` may sleep with a byte pending; a failed read repeats the previous byte.
* `list-move`: `cs_exit` increments the epoch before another thread's record has its number (`lockfree.c:283-285`); with three threads the lists are corrupted. `qsbr_update_epoch` takes the success of `pthread_spin_trylock` for its failure (`lockfree.c:61`).

## 9. Not modelled

* Memory orders weaker than sequential consistency.
* Allocation failure, except `pthread_create` in `tpool_create`.
* Single-threaded teardown (`spmc_delete`, `queue_destroy`, `lfring_free`, `lfq_release`, `cmap_destroy`, `shm_unlink` and the like).
* Wrap-around of the 64-bit indices of `mpmc`, `spmc` and `lfring`.
* Output, timing and benchmarks.
* `rcu-list`: one writer over a copy of `thread-rcu`; the list adds three pointer stores, published by `rcu_assign_pointer`.
* `coro`: its tasks `longjmp` into stack frames that later calls have overwritten; what happens then is up to compiler and stack layout.
* `fiber`: the scheduler is the kernel's; the program waits for an array of children.
* `picosh`: parsing, `fork`, `exec` and `pipe`; its processes share no state.
* In `httpd` parsing, the MIME table and sending a file; in `list-move` the quiescent states and `lock.c`; in `hashmap` the running of deferred frees; in `tinync` connecting and
  sleeping in `select`. `PROJECT.json` lists what is left out of each component.

## 10. Plan

1. `MessagesInOrder` of `ringbuf-shm`; the deque's part of `EachElementOnce`.
2. The queues of `Retire_MC`, and the unions' `TypesOK`.
