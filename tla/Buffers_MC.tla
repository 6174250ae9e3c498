----------------------------- MODULE Buffers_MC -----------------------------
(***************************************************************************)
(* Memory that is written by one thread while another one reads it: the     *)
(* record under the sequence lock (seqlock/), the queues over reused slots  *)
(* (lfring/, spmc/, ringbuffer/ and the deque of work-steal/), the queue of *)
(* connections (httpd/), the tables that are filled in parallel and then    *)
(* merged (map-reduce/), the hash map (hashmap/), the array of timers (lf-  *)
(* timer/), the lists with versions (list-move/) and the bytes between      *)
(* coroutines (tinync/).  The programs share nothing: a behaviour runs one  *)
(* of them, chosen in the initial state.                                    *)
(*                                                                          *)
(* seqlock: a record of two words, which can be torn, and a counter that    *)
(* wraps around within two writes.  lfring: one or two slots, so that the   *)
(* ring fills up and slots are reused; two threads on both sides or on one, *)
(* and one on each on the paths for a single producer and a single          *)
(* consumer.  spmc: a first buffer of two slots, which wraps around, fills  *)
(* up and is left for a second one within four items and two consumers; and *)
(* seven items through three buffers with one consumer.  The deque: an      *)
(* array of two slots that has to grow once for three items, and two        *)
(* thieves.  ringbuffer: four slots, batches of up to three, and indices    *)
(* that wrap around after three laps.  httpd: two workers and two           *)
(* descriptors, so that one is closed and accepted again while the other    *)
(* one is queued.  map-reduce: all texts of up to four characters, cut into *)
(* more slices or fewer than there are buckets.  hashmap: three calls of    *)
(* two threads on a bucket of two nodes, neighbours of each other.  lf-     *)
(* timer: three timers, two ticks and five calls of two threads, so that a  *)
(* timer is set while a scan is behind it, and the free list is popped by   *)
(* both at once and pushed.  tinync: a queue of two bytes, three bytes each *)
(* way and one failing call.  list-move: two threads with two moves each,   *)
(* which share nodes or do not, and three with one, of which two want the   *)
(* same node, so that moves are retried, and records are numbered by the    *)
(* thread that follows.                                                     *)
(***************************************************************************)
EXTENDS SeqLock, FiniteSets, TLC

CONSTANTS
    A, B, a, b,     \* two pairs of threads, and one of each
    Null, EMPTY,
    Greeters, Enqueues,                 \* httpd: threads that accept, bound on calls of enqueue
    ring_count, ring_mod, ring_batch,   \* ringbuffer: slots, range of an index, objects per call
    queue_size, Bytes, MaxErrors,       \* tinync: size of the queue, bounds on input and errors
    MAXTIMERS, MaxTick, TimerCalls      \* lf-timer: timers, bounds on ticks and calls

\* The server has two workers or more, which are threads of their own.
ASSUME HttpdAssumption ==
    /\ IsFiniteSet(A) /\ \E v, w \in A : v # w
    /\ Greeters \cap A = {} /\ Enqueues \in Nat
    /\ Null \notin Greeters \cup A \cup B \cup (0..Enqueues)

\* Producers are not consumers, and no element of lfring is Null.
ASSUME LfringAssumption ==
    /\ A \cap B = {} /\ a \in A /\ b \in B
    /\ Null \notin A \X (1..4) \X (1..2)

\* The indices are reduced to slots by a mask, so their range is a multiple of the ring.
ASSUME RingAssumption ==
    /\ ring_count \in Nat \ {0} /\ ring_mod \in Nat /\ ring_batch \in Nat
    /\ \E q \in 1..ring_mod : ring_mod = q * ring_count

ASSUME RelayAssumption == queue_size \in Nat \ {0} /\ Bytes \in Nat /\ MaxErrors \in Nat

ASSUME TimerAssumption == MAXTIMERS \in Nat \ {0} /\ MaxTick \in Nat /\ TimerCalls \in Nat

VARIABLES
    program,
    \* lfring
    head, tail, ring, lpc, pt, lold, actual, call, upd, ch, ct, n, elems, scan, calls,
    enqueued, dequeued, pending,
    \* spmc
    curr_enqueue, curr_dequeue, nodes, front, back, next, sbuf, ppc, item, pnode,
    pidx, pnext, spc, node, idx, to, slot, observed,
    \* the deque
    top, bottom, array, buffer, opc, oitem, ob, ot, x, tpc, tt, ta, tx, steals, taken,
    \* ringbuffer
    prod_head, prod_tail, cons_head, cons_tail, slots, prod_pc, p, cons_pc, obj_table, free, ret,
    \* httpd
    hhead, htail, hnext, fd_of, head_lock, tail_lock, allocated, freed, open, hpc, connfd,
    hnode, version, status, asked, missed,
    \* map-reduce
    file, file_content, cache, main_cache, worker_current, worker_slice, word, mpc,
    to_merge, printed,
    \* hashmap
    bucket, hm_next, key, length, made, l_head, l_next, empty, hm_pc, op, k, hm_head, prev,
    kv, new, des, hm_calls, present, absent, raced, removals,
    \* lf-timer
    earliest, current, hi_watermark, expirations, cb, arg, freelist, l_pc, l_idx, exp, l_old,
    nxt, now, l_top, got, done, min, l_calls, owned, orphans,
    \* tinync
    turn, bytes, nc_r, nc_w, in, in_b, out, out_b, net, net_b, read, received, sent, written,
    errors, overwritten,
    \* list-move
    chain, rec_epoch, m_nodes, slot_epoch, m_slots, rec, epoch, new_rec, count, retired, m_pc,
    m_key, from, prev_src, cur, next_src, prev_dst, next_dst, it_rec, it_epoch, misnumbered,
    twice

lfring == <<head, tail, ring, lpc, pt, lold, actual, call, upd, ch, ct, n, elems, scan, calls,
            enqueued, dequeued, pending>>
spmc   == <<curr_enqueue, curr_dequeue, nodes, front, back, next, sbuf, ppc, item, pnode,
            pidx, pnext, spc, node, idx, to, slot, observed>>
deque  == <<top, bottom, array, buffer, opc, oitem, ob, ot, x, tpc, tt, ta, tx, steals, taken>>
dpdk   == <<prod_head, prod_tail, cons_head, cons_tail, slots, prod_pc, p, cons_pc,
            obj_table, free, ret>>
httpd  == <<hhead, htail, hnext, fd_of, head_lock, tail_lock, allocated, freed, open, hpc,
            connfd, hnode, version, status, asked, missed>>
words  == <<file, file_content, cache, main_cache, worker_current, worker_slice, word, mpc,
            to_merge, printed>>
hash   == <<bucket, hm_next, key, length, made, l_head, l_next, empty, hm_pc, op, k, hm_head,
            prev, kv, new, des, hm_calls, present, absent, raced, removals>>
timer  == <<earliest, current, hi_watermark, expirations, cb, arg, freelist, l_pc, l_idx, exp,
            l_old, nxt, now, l_top, got, done, min, l_calls, owned, orphans>>
relay  == <<turn, bytes, nc_r, nc_w, in, in_b, out, out_b, net, net_b, read, received, sent,
            written, errors, overwritten>>
lists  == <<chain, rec_epoch, m_nodes, slot_epoch, m_slots, rec, epoch, new_rec, count, retired,
            m_pc, m_key, from, prev_src, cur, next_src, prev_dst, next_dst, it_rec, it_epoch,
            misnumbered, twice>>
all    == <<program, vars, lfring, spmc, deque, dpdk, httpd, words, hash, timer, relay, lists>>

L22 == INSTANCE LFRing WITH
    Producers <- A, Consumers <- B, Size <- 1, Batch <- 1, Calls <- 1, MaxDequeues <- 1,
    SP <- FALSE, SC <- FALSE, pc <- lpc, old <- lold
L21 == INSTANCE LFRing WITH
    Producers <- A, Consumers <- {b}, Size <- 2, Batch <- 2, Calls <- 1, MaxDequeues <- 2,
    SP <- FALSE, SC <- FALSE, pc <- lpc, old <- lold
L12 == INSTANCE LFRing WITH
    Producers <- {a}, Consumers <- B, Size <- 2, Batch <- 2, Calls <- 2, MaxDequeues <- 1,
    SP <- FALSE, SC <- FALSE, pc <- lpc, old <- lold
L11 == INSTANCE LFRing WITH
    Producers <- {a}, Consumers <- {b}, Size <- 2, Batch <- 2, Calls <- 4, MaxDequeues <- 4,
    SP <- TRUE, SC <- TRUE, pc <- lpc, old <- lold

C2 == INSTANCE SPMC WITH
    Consumers <- A, Items <- 4, InitialPower <- 1, MaxNodes <- 2, pc <- spc, buf <- sbuf
C1 == INSTANCE SPMC WITH
    Consumers <- {a}, Items <- 7, InitialPower <- 1, MaxNodes <- 3, pc <- spc, buf <- sbuf

D == INSTANCE WSDeque WITH
    Thieves <- A, Items <- 3, Size <- 2, MaxArrays <- 2, MaxSteals <- 2, Wrap <- 16,
    pc <- opc, item <- oitem, b <- ob, t <- ot

R == INSTANCE RingBuffer WITH
    Size <- ring_count, Mod <- ring_mod, Batch <- ring_batch, Watermark <- ring_count,
    ring <- slots, ppc <- prod_pc,
    cpc <- cons_pc

H == INSTANCE HTTPD WITH
    Workers <- A, FDs <- B, MaxNodes <- Enqueues,
    head <- hhead, tail <- htail, next <- hnext, pc <- hpc, node <- hnode

\* All texts over no letter, two small letters and a capital one, except those with a
\* word that begins with bb: see the README on scale_range.
Texts == {f \in UNION {[1..len -> 0..3] : len \in 0..4} :
            \A i \in DOMAIN f \ {1} : ~(f[i - 1] = 2 /\ f[i] = 2)}

W32 == INSTANCE WordCount WITH
    NThreads <- 3, Files <- Texts, BufferSize <- 2, NLetters <- 2, Radix <- 4, CodeLen <- 2,
    NBuckets <- 2, pc <- mpc
W23 == INSTANCE WordCount WITH
    NThreads <- 2, Files <- Texts, BufferSize <- 2, NLetters <- 2, Radix <- 4, CodeLen <- 2,
    NBuckets <- 3, pc <- mpc

M == INSTANCE HashMap WITH
    Threads <- A, Calls <- 3, Keys <- 1..3, Initial <- 2, next <- hm_next, pc <- hm_pc,
    head <- hm_head, calls <- hm_calls

T == INSTANCE LFTimer WITH
    Threads <- A, Calls <- TimerCalls, pc <- l_pc, idx <- l_idx, old <- l_old, top <- l_top,
    calls <- l_calls

N == INSTANCE TinyNC WITH
    Size <- queue_size, buf <- bytes, r <- nc_r, w <- nc_w

\* Two threads that undo each other's moves or keep apart, and three of which two make the
\* same move.
K2 == INSTANCE ListMove WITH
    Threads <- A, NKeys <- 4, Moves <- [t \in A |-> {<<0, 0>>, <<0, 1>>, <<3, 1>>}], Calls <- 2,
    MaxRecs <- 5, NULL <- Null, nodes <- m_nodes, slots <- m_slots, pc <- m_pc, key <- m_key
K3 == INSTANCE ListMove WITH
    Threads <- A \cup {b}, NKeys <- 4, Calls <- 1, MaxRecs <- 3, NULL <- Null,
    Moves <- [t \in A \cup {b} |-> IF t = b THEN {<<3, 1>>} ELSE {<<0, 0>>}],
    nodes <- m_nodes, slots <- m_slots, pc <- m_pc, key <- m_key

\* An instance runs, or its variables have one of their initial values.
BuffersInit ==
    /\ program \in {"seqlock", "lfring22", "lfring21", "lfring12", "lfring11", "spmc2",
                    "spmc1", "deque", "ringbuffer", "httpd", "words32", "words23", "hashmap",
                    "lf_timer", "tinync", "list_move2", "list_move3"}
    /\ D!Init /\ R!Init /\ H!Init /\ M!Init /\ T!Init /\ N!Init /\ Init
    /\ CASE program = "lfring21" -> L21!Init
         [] program = "lfring12" -> L12!Init
         [] program = "lfring11" -> L11!Init
         [] OTHER -> L22!Init
    /\ IF program = "spmc1" THEN C1!Init ELSE C2!Init
    /\ IF program = "list_move3" THEN K3!Init ELSE K2!Init
    /\ IF program = "words32" THEN W32!Init ELSE W23!Init
    /\ program \notin {"words32", "words23"} => file = <<>>
    /\ program # "httpd" => version = [w \in A |-> 0]
    /\ program # "seqlock" => data = [w \in Words |-> b]

BuffersNext ==
    \/ /\ program = "seqlock" /\ Next
       /\ UNCHANGED <<program, lfring, spmc, deque, dpdk, httpd, words, hash, timer, relay, lists>>
    \/ /\ \/ program = "lfring22" /\ L22!Next
          \/ program = "lfring21" /\ L21!Next
          \/ program = "lfring12" /\ L12!Next
          \/ program = "lfring11" /\ L11!Next
       /\ UNCHANGED <<program, vars, spmc, deque, dpdk, httpd, words, hash, timer, relay, lists>>
    \/ /\ \/ program = "spmc2" /\ C2!Next
          \/ program = "spmc1" /\ C1!Next
       /\ UNCHANGED <<program, vars, lfring, deque, dpdk, httpd, words, hash, timer, relay, lists>>
    \/ /\ program = "deque" /\ D!Next
       /\ UNCHANGED <<program, vars, lfring, spmc, dpdk, httpd, words, hash, timer, relay, lists>>
    \/ /\ program = "ringbuffer" /\ R!Next
       /\ UNCHANGED <<program, vars, lfring, spmc, deque, httpd, words, hash, timer, relay, lists>>
    \/ /\ program = "httpd" /\ H!Next
       /\ UNCHANGED <<program, vars, lfring, spmc, deque, dpdk, words, hash, timer, relay, lists>>
    \/ /\ \/ program = "words32" /\ W32!Next
          \/ program = "words23" /\ W23!Next
       /\ UNCHANGED <<program, vars, lfring, spmc, deque, dpdk, httpd, hash, timer, relay, lists>>
    \/ /\ program = "hashmap" /\ M!Next
       /\ UNCHANGED <<program, vars, lfring, spmc, deque, dpdk, httpd, words, timer, relay, lists>>
    \/ /\ program = "lf_timer" /\ T!Next
       /\ UNCHANGED <<program, vars, lfring, spmc, deque, dpdk, httpd, words, hash, relay, lists>>
    \/ /\ program = "tinync" /\ N!Next
       /\ UNCHANGED <<program, vars, lfring, spmc, deque, dpdk, httpd, words, hash, timer, lists>>
    \/ /\ \/ program = "list_move2" /\ K2!Next
          \/ program = "list_move3" /\ K3!Next
       /\ UNCHANGED <<program, vars, lfring, spmc, deque, dpdk, httpd, words, hash, timer, relay>>

BuffersSpec == BuffersInit /\ [][BuffersNext]_all

Symmetry == Permutations(A) \cup Permutations(B)

-----------------------------------------------------------------------------
\* A property of lfring, of its four instances, and the same for the others with two.
Lfring(p22, p21, p12, p11) ==
    /\ program = "lfring22" => p22
    /\ program = "lfring21" => p21
    /\ program = "lfring12" => p12
    /\ program = "lfring11" => p11
Spmc(two, one) ==
    /\ program = "spmc2" => two
    /\ program = "spmc1" => one
ListMoves(two, three) ==
    /\ program = "list_move2" => two
    /\ program = "list_move3" => three
Counts(three, two) ==
    /\ program = "words32" => three
    /\ program = "words23" => two

\* The types of all of them.
TypesOK ==
    /\ Lfring(L22!TypeOK, L21!TypeOK, L12!TypeOK, L11!TypeOK)
    /\ Spmc(C2!TypeOK, C1!TypeOK) /\ Counts(W32!TypeOK, W23!TypeOK)
    /\ ListMoves(K2!TypeOK, K3!TypeOK)
    /\ program = "deque" => D!TypeOK
    /\ program = "ringbuffer" => R!TypeOK
    /\ program = "httpd" => H!TypeOK
    /\ program = "hashmap" => M!TypeOK
    /\ program = "lf_timer" => T!TypeOK
    /\ program = "tinync" => N!TypeOK

\* lfring: every slot that head and tail promise to a consumer is written, the
\* assertion of the single-producer path holds, and 0 is returned only if the
\* elements enqueued before are gone.
PromisedAreFull ==
    /\ Lfring(L22!PromisedSlotsAreFull, L21!PromisedSlotsAreFull, L12!PromisedSlotsAreFull,
              L11!PromisedSlotsAreFull /\ L11!SlotIsOneLapBack)
    /\ Lfring(L22!EmptyIsReal, L21!EmptyIsReal, L12!EmptyIsReal, L11!EmptyIsReal)

\* lfring: the elements below head were each returned once, no other one was.
\* spmc: every item enqueued is in one buffer or was received by one consumer, a
\* consumer whose compare-and-exchange succeeds has read a current slot, and the
\* buffers stay one circle while the producer adds to it.
\* The deque: no item is obtained twice, none is lost in a resize or in the race
\* for the last one, and a steal that succeeds has read the oldest.
\* hashmap: a bucket holds the last put of every key, and a removed node waits in the
\* buffer of free_later, as long as no two threads change neighbours at once.
\* list-move: a move reads one version of both lists, every key stays in one of them at
\* its place, and only what is replaced is retired, as long as the epochs that threads
\* store for each other follow the chain of records.
EachElementOnce ==
    /\ Lfring(L22!DequeuedInOrder, L21!DequeuedInOrder, L12!DequeuedInOrder, L11!DequeuedInOrder)
    /\ Spmc(C2!ItemsConserved /\ C2!ReadIsCurrent /\ C2!OneCircle,
            C1!ItemsConserved /\ C1!ReadIsCurrent /\ C1!OneCircle)
    /\ program = "deque" => D!ObtainedOnce /\ D!NothingLost /\ D!StealSeesTop
    /\ program = "hashmap" => M!MapIsExact /\ M!RemovedAreBuffered
    /\ ListMoves(K2!SnapshotIsExact /\ K2!EveryKeyIsListed /\ K2!RetiredAreOld /\ K2!NeverItsOwnNext,
                 K3!SnapshotIsExact /\ K3!EveryKeyIsListed /\ K3!RetiredAreOld /\ K3!NeverItsOwnNext)

\* ringbuffer: what a batch dequeues is what was enqueued next, across both ends of
\* the ring and of the 32-bit indices; the published objects stay until the consumer
\* has moved its tail; and ringbuf_is_full and ringbuf_is_empty agree with what the
\* next call would do.
\* tinync: while no call fails, bytes leave in the order in which they came, unless the
\* queue fills up behind one that waits to be sent; and at the end of the input at most
\* that one is lost.
BatchesAreExact ==
    /\ program = "ringbuffer" => /\ R!DequeuedAreNext /\ R!PublishedAreKept
                                 /\ R!NeverOverfull /\ R!TestsAgree
    /\ program = "tinync" => N!BytesInOrder /\ N!AllButOneAreSent

\* httpd: a connection is in one place, in a queue that never leads to freed nodes,
\* and is kept open only for a client that has asked for it.
OneOwnerPerConnection ==
    program = "httpd" => H!OneOwner /\ H!QueueIsSafe /\ H!KeptAliveIfAsked

\* httpd: a connection in the queue is never left to workers that all sleep.
ConnectionsAreServed ==
    program = "httpd" => H!NoConnectionStalls /\ H!LostOnlyBeforeWait

\* map-reduce: what is printed is the words of the file, in order, each with the
\* number of times it occurs; no word is counted by two workers; and with a text that
\* ends in a separator no worker is left at the barrier.
WordsAreCounted ==
    Counts(W32!PrintedIsExact /\ W32!CountedOnce /\ W32!CountEnds,
           W23!PrintedIsExact /\ W23!CountedOnce /\ W23!CountEnds)

\* lf-timer: a timer that is set is not later than the cached earliest one, unless a
\* thread is about to see to that; every timer is free, allocated or in one hand, and its
\* callback is there when it expires, unless it was freed or taken anew meanwhile.
TimersAreKept == program = "lf_timer" => T!NoTimerForgotten /\ T!TimersAreAccounted
=============================================================================
