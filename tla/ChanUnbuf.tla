------------------------------ MODULE ChanUnbuf ------------------------------
(***************************************************************************)
(* The unbuffered channel of channel/channel.c: chan_send_unbuf,           *)
(* chan_recv_unbuf and chan_close, driven as in test_chan: each writer     *)
(* sends its batch, each reader receives its batch and stops on an error.  *)
(*                                                                         *)
(* The two functions are mirror images: a thread has a side, takes the     *)
(* mutex of its side, and either finds a peer of the other side in datap   *)
(* and completes the exchange, or leaves the address of its own cell there *)
(* and waits on the futex of its side.  One action is one atomic access    *)
(* or futex call; the mutexes are used as module Mutex specifies them.     *)
(***************************************************************************)
EXTENDS Integers, FiniteSets

CONSTANTS
    Senders, Receivers,
    PerSender, PerReceiver,     \* batch sizes, equal in total
    Closers,                    \* threads that call chan_close (at most one)
    Null

CHAN_READY     == 0
CHAN_NOT_READY == 1
CHAN_WAITING   == 2
CHAN_CLOSED    == 3

AllThreads == Senders \cup Receivers
Msgs    == Senders \X (1 .. PerSender)
Side(t) == IF t \in Senders THEN "send" ELSE "recv"
Other(t) == IF t \in Senders THEN "recv" ELSE "send"

VARIABLES
    closed,             \* ch->closed
    datap,              \* ch->datap: the thread whose cell it points to
    send_mtx, recv_mtx, \* owners of the two mutexes
    ftx,                \* ch->send_ftx and ch->recv_ftx; 0 .. 2 while the channel is
                        \* open, and compared with 1 and 2 only, so Int stands for uint32_t
    asleep,             \* threads asleep in futex_wait on the futex of their side
    pc, ptr,            \* control and the local ptr of each thread
    cell,               \* the data argument of a sender, *data of a receiver
    left,               \* calls a thread has still to make
    delivered,          \* history: how often each message was copied to a receiver
    sent, received      \* history: messages whose send / receive returned 0

vars == <<closed, datap, send_mtx, recv_mtx, ftx, asleep, pc, ptr, cell, left,
          delivered, sent, received>>

SendMtx == INSTANCE Mutex WITH Threads <- Senders, owner <- send_mtx, None <- Null
RecvMtx == INSTANCE Mutex WITH Threads <- Receivers, owner <- recv_mtx, None <- Null

LockMtx(t) ==
    \/ t \in Senders   /\ SendMtx!Lock(t) /\ UNCHANGED recv_mtx
    \/ t \in Receivers /\ RecvMtx!Lock(t) /\ UNCHANGED send_mtx

UnlockMtx(t) ==
    \/ t \in Senders   /\ SendMtx!Unlock(t) /\ UNCHANGED recv_mtx
    \/ t \in Receivers /\ RecvMtx!Unlock(t) /\ UNCHANGED send_mtx

Init ==                                             \* chan_init with cap 0
    /\ closed = FALSE
    /\ datap = Null
    /\ SendMtx!Init /\ RecvMtx!Init
    /\ ftx = [s \in {"send", "recv"} |-> CHAN_NOT_READY]
    /\ asleep = {}
    /\ pc = [t \in AllThreads \cup Closers |-> "idle"]
    /\ ptr = [t \in AllThreads |-> Null]
    /\ cell = [t \in AllThreads |-> Null]
    /\ left = [t \in AllThreads |-> IF t \in Senders THEN PerSender ELSE PerReceiver]
    /\ delivered = [m \in Msgs |-> 0]
    /\ sent = {} /\ received = {}

Goto(t, from, to) ==
    /\ t \notin asleep
    /\ pc[t] = from
    /\ pc' = [pc EXCEPT ![t] = to]

history == <<delivered, sent, received>>
mtxs    == <<send_mtx, recv_mtx>>

-----------------------------------------------------------------------------
(* chan_send_unbuf and chan_recv_unbuf *)

\* The next call of a batch; EPIPE ends the batch.
Call(t) ==
    /\ left[t] > 0
    /\ Goto(t, "idle", IF closed THEN "idle" ELSE "lock")
    /\ left' = [left EXCEPT ![t] = IF closed THEN 0 ELSE @]
    /\ cell' = [cell EXCEPT ![t] =
                   IF t \in Senders THEN <<t, PerSender - left[t] + 1>> ELSE Null]
    /\ UNCHANGED <<closed, datap, mtxs, ftx, asleep, ptr, history>>

Lock(t) ==
    /\ Goto(t, "lock", "offer")
    /\ LockMtx(t)
    /\ UNCHANGED <<closed, datap, ftx, asleep, ptr, cell, left, history>>

\* Compare-and-exchange of datap from NULL to our own cell.
Offer(t) ==
    /\ Goto(t, "offer", IF datap = Null THEN "add" ELSE "copy")
    /\ ptr' = [ptr EXCEPT ![t] = datap]
    /\ datap' = IF datap = Null THEN t ELSE datap
    /\ UNCHANGED <<closed, mtxs, ftx, asleep, cell, left, history>>

\* A peer waits: *ptr = data, or *data = *ptr.
Copy(t) ==
    /\ Goto(t, "copy", "clear")
    /\ LET from == IF t \in Senders THEN t ELSE ptr[t]
           to   == IF t \in Senders THEN ptr[t] ELSE t
       IN  /\ cell' = [cell EXCEPT ![to] = cell[from]]
           /\ delivered' = IF to \in Receivers /\ cell[from] \in Msgs
                           THEN [delivered EXCEPT ![cell[from]] = @ + 1]
                           ELSE delivered
    /\ UNCHANGED <<closed, datap, mtxs, ftx, asleep, ptr, left, sent, received>>

\* Mutant: datap is not reset after the exchange.
Clear_Missing(t) ==
    /\ Goto(t, "clear", "sub")
    /\ UNCHANGED <<closed, datap, mtxs, ftx, asleep, ptr, cell, left, history>>

Clear(t) ==
    /\ Goto(t, "clear", "sub")
    /\ datap' = Null
    /\ UNCHANGED <<closed, mtxs, ftx, asleep, ptr, cell, left, history>>

\* Mutant: wakes the peer that is not asleep instead of the one that is.
Sub_WrongWake(t) ==
    /\ Goto(t, "sub", IF ftx[Other(t)] = CHAN_NOT_READY THEN "wake" ELSE "unlock")
    /\ ftx' = [ftx EXCEPT ![Other(t)] = @ - 1]
    /\ UNCHANGED <<closed, datap, mtxs, asleep, ptr, cell, left, history>>

\* Tell the peer: its futex goes down by one; it sleeps only on CHAN_WAITING.
Sub(t) ==
    /\ Goto(t, "sub", IF ftx[Other(t)] = CHAN_WAITING THEN "wake" ELSE "unlock")
    /\ ftx' = [ftx EXCEPT ![Other(t)] = @ - 1]
    /\ UNCHANGED <<closed, datap, mtxs, asleep, ptr, cell, left, history>>

Wake(t) ==
    /\ Goto(t, "wake", "unlock")
    /\ LET sleepers == {u \in asleep : Side(u) = Other(t)}
       IN  IF sleepers = {} THEN UNCHANGED asleep
           ELSE \E u \in sleepers : asleep' = asleep \ {u}
    /\ UNCHANGED <<closed, datap, mtxs, ftx, ptr, cell, left, history>>

\* Mutant: does not wait for the peer.
Add_NoWait(t) ==
    /\ Goto(t, "add", "unlock")
    /\ ftx' = [ftx EXCEPT ![Side(t)] = @ + 1]
    /\ UNCHANGED <<closed, datap, mtxs, asleep, ptr, cell, left, history>>

\* No peer yet: our futex goes up by one, to CHAN_WAITING unless the peer has
\* already been here (CHAN_READY) or the channel was closed.
Add(t) ==
    /\ Goto(t, "add", IF ftx[Side(t)] = CHAN_NOT_READY THEN "wait" ELSE "unlock")
    /\ ftx' = [ftx EXCEPT ![Side(t)] = @ + 1]
    /\ UNCHANGED <<closed, datap, mtxs, asleep, ptr, cell, left, history>>

Wait(t) ==
    /\ Goto(t, "wait", "recheck")
    /\ asleep' = IF ftx[Side(t)] = CHAN_WAITING THEN asleep \cup {t} ELSE asleep
    /\ UNCHANGED <<closed, datap, mtxs, ftx, ptr, cell, left, history>>

Recheck(t) ==
    /\ Goto(t, "recheck", IF ftx[Side(t)] = CHAN_WAITING THEN "wait" ELSE "checkclosed")
    /\ UNCHANGED <<closed, datap, mtxs, ftx, asleep, ptr, cell, left, history>>

\* EPIPE after the wait returns without unlocking the mutex.
CheckClosed(t) ==
    /\ Goto(t, "checkclosed", IF closed THEN "idle" ELSE "unlock")
    /\ left' = [left EXCEPT ![t] = IF closed THEN 0 ELSE @]
    /\ UNCHANGED <<closed, datap, mtxs, ftx, asleep, ptr, cell, history>>

\* Mutant: a successful call returns like EPIPE does, without mutex_unlock.
Return_NoUnlock(t) ==
    /\ Goto(t, "unlock", "idle")
    /\ left' = [left EXCEPT ![t] = @ - 1]
    /\ sent' = IF t \in Senders THEN sent \cup {cell[t]} ELSE sent
    /\ received' = IF t \in Receivers THEN received \cup {cell[t]} ELSE received
    /\ UNCHANGED <<closed, datap, mtxs, ftx, asleep, ptr, cell, delivered>>

\* mutex_unlock and return 0.
Return(t) ==
    /\ Goto(t, "unlock", "idle")
    /\ UnlockMtx(t)
    /\ left' = [left EXCEPT ![t] = @ - 1]
    /\ sent' = IF t \in Senders THEN sent \cup {cell[t]} ELSE sent
    /\ received' = IF t \in Receivers THEN received \cup {cell[t]} ELSE received
    /\ UNCHANGED <<closed, datap, ftx, asleep, ptr, cell, delivered>>

\* futex_wait returns without a wake-up.
SpuriousWake(t) ==
    /\ t \in asleep
    /\ asleep' = asleep \ {t}
    /\ UNCHANGED <<closed, datap, mtxs, ftx, pc, ptr, cell, left, history>>

-----------------------------------------------------------------------------
(* chan_close *)

CloseFlag(c) ==
    /\ Goto(c, "idle", "close_recv")
    /\ closed' = TRUE
    /\ UNCHANGED <<datap, mtxs, ftx, asleep, ptr, cell, left, history>>

CloseFutex(c, s, from, to) ==
    /\ Goto(c, from, to)
    /\ ftx' = [ftx EXCEPT ![s] = CHAN_CLOSED]
    /\ UNCHANGED <<closed, datap, mtxs, asleep, ptr, cell, left, history>>

CloseWake(c, s, from, to) ==
    /\ Goto(c, from, to)
    /\ asleep' = {u \in asleep : Side(u) # s}
    /\ UNCHANGED <<closed, datap, mtxs, ftx, ptr, cell, left, history>>

Close(c) ==
    \/ CloseFlag(c)
    \/ CloseFutex(c, "recv", "close_recv", "close_send")
    \/ CloseFutex(c, "send", "close_send", "wake_recv")
    \/ CloseWake(c, "recv", "wake_recv", "wake_send")
    \/ CloseWake(c, "send", "wake_send", "done")

-----------------------------------------------------------------------------
Step(t) ==
    \/ Call(t) \/ Lock(t) \/ Offer(t) \/ Copy(t) \/ Clear(t) \/ Sub(t) \/ Wake(t)
    \/ Add(t) \/ Wait(t) \/ Recheck(t) \/ CheckClosed(t) \/ Return(t)

Next ==
    \/ \E t \in AllThreads : Step(t) \/ SpuriousWake(t)
    \/ \E c \in Closers : Close(c)

Spec == Init /\ [][Next]_vars

\* The scheduler runs every thread; the mutex is fair enough that a thread
\* for which it is free again and again gets it.
Fairness == \A t \in AllThreads : WF_vars(Step(t)) /\ SF_vars(Lock(t))
FairSpec == Spec /\ Fairness

-----------------------------------------------------------------------------
InExchange(t) == pc[t] \in {"add", "wait", "recheck"}

TypeOK ==
    /\ closed \in BOOLEAN
    /\ datap \in AllThreads \cup {Null}
    /\ send_mtx \in Senders \cup {Null} /\ recv_mtx \in Receivers \cup {Null}
    /\ ftx \in [{"send", "recv"} -> Int]
    /\ asleep \in SUBSET AllThreads
    /\ ptr \in [AllThreads -> AllThreads \cup {Null}]
    /\ cell \in [AllThreads -> Msgs \cup {Null}]
    /\ delivered \in [Msgs -> Nat]
    /\ sent \in SUBSET Msgs /\ received \in SUBSET (Msgs \cup {Null})

\* While the channel is open, ptr is followed only into the cell of a thread
\* of the other side that is still inside its call: the address of the stack
\* variable that datap carries never outlives it.
PeerStillWaiting ==
    \A t \in AllThreads : pc[t] = "copy" /\ ~closed =>
        /\ Side(ptr[t]) = Other(t)
        /\ InExchange(ptr[t])

\* A rendezvous: while the channel is open, a send that has returned 0 has
\* put its message into a receiver, a receive that has returned 0 has got a
\* message, and no message has reached two receivers.
Rendezvous ==
    ~closed =>
        /\ \A m \in sent : delivered[m] = 1
        /\ \A m \in received : m \in Msgs
        /\ \A m \in Msgs : delivered[m] <= 1

\* Never asleep beside a finished exchange: an open channel's sleeper either
\* still waits for a peer to come, or the peer that served it has not yet
\* given its wake-up.
NoLostWakeup ==
    \A t \in asleep : ~closed /\ ftx[Side(t)] # CHAN_WAITING =>
        \E u \in AllThreads : pc[u] = "wake" /\ Side(u) = Other(t)

\* The early return of EPIPE keeps the mutex of its side locked, and the threads behind
\* it stay in mutex_lock.  That happens on a closed channel only, to a thread that will
\* not call again: on an open channel nobody leaves a call, or is still in front of
\* mutex_lock, with the mutex.
MutexIsReturned ==
    \A t \in AllThreads : pc[t] \in {"idle", "lock"} /\ t \in {send_mtx, recv_mtx} =>
        closed /\ left[t] = 0

\* Without a close, every message of every batch is received (the assertion
\* of test_chan) and every thread ends.
AllReceived == <>(received = Msgs /\ \A t \in AllThreads : left[t] = 0)
=============================================================================
