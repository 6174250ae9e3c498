----------------------------- MODULE Channel_MC -----------------------------
(***************************************************************************)
(* Two sides and something between them: channel/channel.c in parts (the    *)
(* futex mutex, the unbuffered exchange and the ring of the buffered        *)
(* channel), the ring in shared memory (ringbuf-shm/), publishers and       *)
(* subscribers (broadcast/), clients of a message bus (mbus/), and the      *)
(* event loop with the kernel (redirect/).  A behaviour runs one of them,   *)
(* chosen in the initial state; in the unbuffered exchange the mutex is the *)
(* abstract one, which ImplementsMutex justifies.                           *)
(*                                                                          *)
(* Unbuffered: two threads on each side, so that both mutexes are contended *)
(* and an exchange overlaps the next one.  Buffered: two senders against    *)
(* one receiver and one sender against two receivers over a single slot, so *)
(* that either end of the ring is contended and every slot is reused; and   *)
(* one thread on each side going round a ring of two slots.  A close may    *)
(* come at any time except in the last one.  ringbuf-shm: messages of two   *)
(* lengths that go round the buffer more than once and leave gaps at its    *)
(* end.  redirect: two timers besides stdin, so that each of the three is   *)
(* the oldest, between the others, or the latest.  broadcast: two           *)
(* publishers of two messages and one over a single slot, so that every     *)
(* message rolls the one before off and elements go through the pool again  *)
(* while a subscriber reads them.  mbus: three threads that register,       *)
(* unregister, send and broadcast, three calls over two slots.              *)
(***************************************************************************)
EXTENDS ChanMutex, FiniteSets

CONSTANTS
    Senders, Receivers, PerSender, PerReceiver, Closers,    \* the unbuffered channel
    n_clients, Calls,                                       \* the message bus
    Timers, Reads, MaxEvents                                \* the event loop

\* Different threads, an address that is none of theirs, batches of some length.
ASSUME UnbufAssumption ==
    /\ Senders \cap Receivers = {} /\ Closers \cap (Senders \cup Receivers) = {}
    /\ None \notin Senders \cup Receivers /\ None \notin Senders \X (1 .. PerSender)
    /\ PerSender \in Nat /\ PerReceiver \in Nat

\* Nor does a message of the buffered channels look like an empty slot.
ASSUME MessageAssumption == None \notin {"s1", "s2"} \X (1 .. 3)

\* A bus has a slot, and finitely many threads use it.
ASSUME BusAssumption == n_clients \in Nat \ {0} /\ Calls \in Nat /\ IsFiniteSet(Threads)

\* Timers are other watchers than that of standard input.
ASSUME LoopAssumption ==
    "stdin" \notin Timers /\ IsFiniteSet(Timers) /\ Reads \in Nat /\ MaxEvents \in Nat

VARIABLES
    program,
    \* the unbuffered channel
    u_closed, datap, send_mtx, recv_mtx, u_ftx, u_asleep, u_pc, ptr, cell,
    u_left, delivered, sent, u_received,
    \* the buffered channel
    closed, index, lap, data, ftx, waiters, b_asleep, b_pc, at, item, left,
    received,
    \* the ring in shared memory
    size, mask, head, tail, mem, rsvd, gapd, creator, opened, ppc, s_sent, s_at, len,
    cpc, s_received, from, toread, early,
    \* the event loop
    running, epoll, watchers, workaround, active, fd, timeout, period, interest, armed,
    expired, is_file, avail, unwritten, e_closed, once, nonblock, e_pc, ee, event, copied,
    budget,
    \* publishers and subscribers
    head_idx, tail_idx, slots, pool_head, tag_next, fill, p_pc, count, elt, cur, next, h, t,
    drop, spc, idx, ref, msg, published, got,
    \* the message bus
    clients, lock, bus_pc, op, id, local, broadcast, calls, lost

unbuf == <<u_closed, datap, send_mtx, recv_mtx, u_ftx, u_asleep, u_pc, ptr, cell,
           u_left, delivered, sent, u_received>>
buf   == <<closed, index, lap, data, ftx, waiters, b_asleep, b_pc, at, item, left,
           received>>
shm   == <<size, mask, head, tail, mem, rsvd, gapd, creator, opened, ppc, s_sent, s_at, len,
           cpc, s_received, from, toread, early>>
loop  == <<running, epoll, watchers, workaround, active, fd, timeout, period, interest, armed,
           expired, is_file, avail, unwritten, e_closed, once, nonblock, e_pc, ee, event,
           copied, budget>>
cast  == <<head_idx, tail_idx, slots, pool_head, tag_next, fill, p_pc, count, elt, cur, next,
           h, t, drop, spc, idx, ref, msg, published, got>>
bus   == <<clients, lock, bus_pc, op, id, local, broadcast, calls, lost>>

U == INSTANCE ChanUnbuf WITH
       Null <- None, closed <- u_closed, ftx <- u_ftx, asleep <- u_asleep, pc <- u_pc,
       left <- u_left, received <- u_received

\* Two senders and a receiver; a sender and two receivers; one of each.
B21 == INSTANCE ChanBuf WITH
       Senders <- {"s1", "s2"}, Receivers <- {"r1"},
       PerSender <- 1, PerReceiver <- 2, Cap <- 1, Closers <- {"c"}, Null <- None,
       asleep <- b_asleep, pc <- b_pc
B12 == INSTANCE ChanBuf WITH
       Senders <- {"s1"}, Receivers <- {"r1", "r2"},
       PerSender <- 2, PerReceiver <- 1, Cap <- 1, Closers <- {"c"}, Null <- None,
       asleep <- b_asleep, pc <- b_pc
B11 == INSTANCE ChanBuf WITH
       Senders <- {"s1"}, Receivers <- {"r1"},
       PerSender <- 3, PerReceiver <- 3, Cap <- 2, Closers <- {}, Null <- None,
       asleep <- b_asleep, pc <- b_pc

S == INSTANCE ShmRing WITH
       Body <- 16, Hdr <- 2, Lengths <- {0, 4}, Iterations <- 6, WordMod <- 64,
       sent <- s_sent, at <- s_at, received <- s_received

E == INSTANCE EventLoop WITH
       Stdin <- "stdin", closed <- e_closed, pc <- e_pc

P == INSTANCE Broadcast WITH
       Publishers <- {7, 8}, Messages <- [p \in {7, 8} |-> 9 - p], Subscribers <- {"s"},
       Depth <- 1, Spare <- 4, mem <- fill, pc <- p_pc

M == INSTANCE MBus WITH NoThread <- None, pc <- bus_pc

ChannelInit ==
    /\ program \in {"mutex", "unbuf", "buf21", "buf12", "buf11", "shm", "loop", "cast",
                    "bus"}
    /\ Init /\ U!Init /\ S!Init /\ E!Init /\ P!Init /\ M!Init
    /\ CASE program = "buf12" -> B12!Init
         [] program = "buf11" -> B11!Init
         [] OTHER             -> B21!Init
    /\ program # "shm" => creator = "main"
    /\ program # "loop" => is_file /\ once /\ nonblock

ChannelNext ==
    \/ program = "mutex" /\ Next     /\ UNCHANGED <<program, unbuf, buf, shm, loop, cast, bus>>
    \/ program = "unbuf" /\ U!Next   /\ UNCHANGED <<program, vars, buf, shm, loop, cast, bus>>
    \/ program = "buf21" /\ B21!Next /\ UNCHANGED <<program, vars, unbuf, shm, loop, cast, bus>>
    \/ program = "buf12" /\ B12!Next /\ UNCHANGED <<program, vars, unbuf, shm, loop, cast, bus>>
    \/ program = "buf11" /\ B11!Next /\ UNCHANGED <<program, vars, unbuf, shm, loop, cast, bus>>
    \/ program = "shm"   /\ S!Next   /\ UNCHANGED <<program, vars, unbuf, buf, loop, cast, bus>>
    \/ program = "loop"  /\ E!Next   /\ UNCHANGED <<program, vars, unbuf, buf, shm, cast, bus>>
    \/ program = "cast"  /\ P!Next   /\ UNCHANGED <<program, vars, unbuf, buf, shm, loop, bus>>
    \/ program = "bus"   /\ M!Next   /\ UNCHANGED <<program, vars, unbuf, buf, shm, loop, cast>>

ChannelSpec == ChannelInit /\ [][ChannelNext]_<<program, vars, unbuf, buf, shm, loop, cast, bus>>

\* The behaviours that run broadcast/.
CastSpec == program = "cast" /\ ChannelSpec

-----------------------------------------------------------------------------
\* The types of all of them.
TypesOK ==
    /\ program = "mutex" => TypeOK
    /\ program = "unbuf" => U!TypeOK
    /\ program = "buf21" => B21!TypeOK
    /\ program = "buf12" => B12!TypeOK
    /\ program = "buf11" => B11!TypeOK
    /\ program = "shm"   => S!TypeOK
    /\ program = "loop"  => E!TypeOK
    /\ program = "cast"  => P!TypeOK
    /\ program = "bus"   => M!TypeOK

\* An unbuffered exchange (chan_send_unbuf, chan_recv_unbuf): it follows datap
\* only into the frame of a peer that is still inside its call, gives a message
\* to one receiver, leaves nobody asleep on a futex when it is over, and gives its mutex
\* back unless the channel was closed under it (the EPIPE return does not).
Rendezvous ==
    program = "unbuf" =>
        U!PeerStillWaiting /\ U!Rendezvous /\ U!NoLostWakeup /\ U!MutexIsReturned

\* mbus: a callback runs only while its client is registered, and the reference count
\* is the number of threads inside, but for decrements that were overwritten.
CallbacksAreCounted == program = "bus" => M!CallbackIsRegistered /\ M!RefcntIsExact

\* The ring (chan_trysend_buf, chan_tryrecv_buf): a claimed slot belongs to one
\* thread, no message is duplicated, and a credit is not left beside a sleeper of its
\* side (chan_send_buf, chan_recv_buf).
RingIsExact ==
    /\ program = "buf21" => B21!SlotIsExclusive /\ B21!ReceivedOnce /\ B21!CreditIsSeen
    /\ program = "buf12" => B12!SlotIsExclusive /\ B12!ReceivedOnce /\ B12!CreditIsSeen
    /\ program = "buf11" => B11!SlotIsExclusive /\ B11!ReceivedOnce /\ B11!CreditIsSeen

\* ringbuf-shm: what the producer is writing and what is published and not yet
\* consumed are different bytes, a full ring does not look like an empty one, and
\* consumer_main's assertion holds, message by message; it needs the mask, which only
\* a consumer that creates the memory may still have to set.
MessagesInOrder ==
    program = "shm" => S!PrivateRegions /\ S!MessagesInOrder /\ S!EarlyOnlyInRace

\* redirect: the list of watchers, their own state and the kernel's agree.
WatchersAgree == program = "loop" => E!WatchersAgree

\* redirect: of the dormant timers and the input file only the oldest watcher is
\* left out when the loop starts to wait.
OnlyOldestIsMissed == program = "loop" => E!OnlyOldestIsMissed

\* broadcast: an element is free, held by one publisher or in one live slot; the live
\* messages are the latest ones, untouched; the pool is never found empty; and what a
\* subscriber gets for an index that is still in the ring when it checks the
\* reference is the message published there.
LatestAreKept ==
    program = "cast" =>
        P!ElementsAreExclusive /\ P!RingKeepsLatest /\ P!PubSucceeds /\ P!KeptIsExact

\* broadcast: "Data hanged while reading? Drop it" (broadcast.c:175): whatever a
\* subscriber gets is the message published under its index.
GotIsPublished == program = "cast" => P!GotIsPublished

\* While somebody wants the mutex somebody gets it (mutex_lock, mutex_unlock);
\* and the assertion of test_chan: every message is received, on an unbuffered
\* channel that nobody closes and, over several laps of the ring, on a buffered
\* one with one thread on each side.  ringbuf-shm: all messages arrive.  redirect: an
\* input file is copied to its end if there is an older watcher.  broadcast: every
\* publisher comes through its loop.  mbus: unless a decrement is overwritten every call
\* returns.
ChannelProgress ==
    /\ Fairness /\ program = "mutex" => SomeoneGetsIn
    /\ program = "unbuf" /\ U!Fairness /\ []~u_closed => U!AllReceived
    /\ program = "buf11" /\ B11!Fairness => <>(program = "buf11" => B11!Complete)
    /\ program = "shm" /\ S!Fairness => S!AllConsumed
    /\ program = "loop" /\ E!Fairness => E!FileIsCopied
    /\ program = "cast" /\ P!Fairness => P!AllPublished
    /\ program = "bus" /\ M!Fairness => M!EveryCallReturns
=============================================================================
