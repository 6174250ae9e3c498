------------------------------- MODULE ChanBuf -------------------------------
(***************************************************************************)
(* The buffered channel of channel/channel.c: chan_send_buf and            *)
(* chan_recv_buf with their try functions, driven as in test_chan.         *)
(*                                                                         *)
(* The two sides are mirror images again: a thread claims the slot at its  *)
(* side's index (tail or head) when the slot's lap is the index's lap,     *)
(* moves the data, and bumps the slot's lap.  A side that finds no slot    *)
(* consumes a credit to try again, and sleeps when there is none; every    *)
(* completed operation gives one credit to the other side.                 *)
(*                                                                         *)
(* chan_close sets the flag, which the try functions test once at their    *)
(* start, and wakes all sleepers; it leaves the credits alone.             *)
(***************************************************************************)
EXTENDS Naturals, FiniteSets

CONSTANTS
    Senders, Receivers,
    PerSender, PerReceiver,     \* batch sizes, equal in total
    Cap,                        \* ch->cap, not 0
    Closers,                    \* threads that call chan_close (at most one)
    Null

AllThreads  == Senders \cup Receivers
Msgs     == Senders \X (1 .. PerSender)
Sides    == {"send", "recv"}
Side(t)  == IF t \in Senders THEN "send" ELSE "recv"
Other(t) == IF t \in Senders THEN "recv" ELSE "send"

VARIABLES
    closed,     \* ch->closed
    index,      \* ch->tail (send) and ch->head (recv): position and lap
    lap, data,  \* the two fields of each ring slot
    ftx,        \* ch->send_ftx, ch->recv_ftx: credits
    waiters,    \* ch->send_waiters, ch->recv_waiters
    asleep,     \* threads asleep in futex_wait on the futex of their side
    pc, at,     \* control, and the index a thread has loaded
    item,       \* the message of a sender, the result of a receiver
    left,       \* calls a thread has still to make
    received    \* history: msg_count, how often each message was received

vars == <<closed, index, lap, data, ftx, waiters, asleep, pc, at, item, left, received>>
ring == <<index, lap, data>>

\* chan_init: head starts at lap 1, tail and the slots at lap 0.
Init ==
    /\ closed = FALSE
    /\ index = [s \in Sides |-> [pos |-> 0, lap |-> IF s = "send" THEN 0 ELSE 1]]
    /\ lap   = [i \in 0 .. Cap - 1 |-> 0]
    /\ data  = [i \in 0 .. Cap - 1 |-> Null]
    /\ ftx = [s \in Sides |-> 0]
    /\ waiters = [s \in Sides |-> 0]
    /\ asleep = {}
    /\ pc = [t \in AllThreads \cup Closers |-> "idle"]
    /\ at = [t \in AllThreads |-> index[Side(t)]]
    /\ item = [t \in AllThreads |-> Null]
    /\ left = [t \in AllThreads |-> IF t \in Senders THEN PerSender ELSE PerReceiver]
    /\ received = [m \in Msgs |-> 0]

Goto(t, from, to) ==
    /\ t \notin asleep
    /\ pc[t] = from
    /\ pc' = [pc EXCEPT ![t] = to]

Advance(ix) == IF ix.pos + 1 = Cap THEN [pos |-> 0, lap |-> ix.lap + 2]
                                   ELSE [ix EXCEPT !.pos = @ + 1]

-----------------------------------------------------------------------------
(* chan_trysend_buf and chan_tryrecv_buf *)

Call(t) ==
    /\ left[t] > 0
    /\ Goto(t, "idle", "try")
    /\ item' = [item EXCEPT ![t] =
                   IF t \in Senders THEN <<t, PerSender - left[t] + 1>> ELSE Null]
    /\ UNCHANGED <<closed, ring, ftx, waiters, asleep, at, left, received>>

\* EPIPE ends the batch of a thread.
CheckClosed(t) ==
    /\ Goto(t, "try", IF closed THEN "idle" ELSE "load")
    /\ left' = [left EXCEPT ![t] = IF closed THEN 0 ELSE @]
    /\ UNCHANGED <<closed, ring, ftx, waiters, asleep, at, item, received>>

LoadIndex(t) ==
    /\ Goto(t, "load", "lap")
    /\ at' = [at EXCEPT ![t] = index[Side(t)]]
    /\ UNCHANGED <<closed, ring, ftx, waiters, asleep, item, left, received>>

\* EAGAIN when the slot is not of our lap.
LoadLap(t) ==
    /\ Goto(t, "lap", IF lap[at[t].pos] = at[t].lap THEN "claim" ELSE "credit")
    /\ UNCHANGED <<closed, ring, ftx, waiters, asleep, at, item, left, received>>

\* Mutant: a store instead of the compare-and-exchange.
Claim_Store(t) ==
    /\ Goto(t, "claim", "move")
    /\ index' = [index EXCEPT ![Side(t)] = Advance(at[t])]
    /\ UNCHANGED <<closed, lap, data, ftx, waiters, asleep, at, item, left, received>>

Claim(t) ==
    /\ index[Side(t)] = at[t]
    /\ Goto(t, "claim", "move")
    /\ index' = [index EXCEPT ![Side(t)] = Advance(at[t])]
    /\ UNCHANGED <<closed, lap, data, ftx, waiters, asleep, at, item, left, received>>

\* The weak compare-and-exchange fails: another thread was faster, or for no
\* reason.
ClaimFails(t) ==
    /\ Goto(t, "claim", "load")
    /\ UNCHANGED <<closed, ring, ftx, waiters, asleep, at, item, left, received>>

\* item->data = data, or *data = item->data.
MoveData(t) ==
    /\ Goto(t, "move", "publish")
    /\ \/ /\ t \in Senders
          /\ data' = [data EXCEPT ![at[t].pos] = item[t]]
          /\ UNCHANGED item
       \/ /\ t \in Receivers
          /\ item' = [item EXCEPT ![t] = data[at[t].pos]]
          /\ UNCHANGED data
    /\ UNCHANGED <<closed, index, lap, ftx, waiters, asleep, at, left, received>>

\* Mutant: the slot skips the other side's lap.
Publish_TwoLaps(t) ==
    /\ Goto(t, "publish", "give")
    /\ lap' = [lap EXCEPT ![at[t].pos] = IF t \in Receivers THEN @ ELSE @ + 1]
    /\ index' = IF t \in Receivers THEN [index EXCEPT !["recv"] = at[t]] ELSE index
    /\ UNCHANGED <<closed, data, ftx, waiters, asleep, at, item, left, received>>

Publish(t) ==
    /\ Goto(t, "publish", "give")
    /\ lap' = [lap EXCEPT ![at[t].pos] = @ + 1]
    /\ UNCHANGED <<closed, index, data, ftx, waiters, asleep, at, item, left, received>>

-----------------------------------------------------------------------------
(* chan_send_buf and chan_recv_buf around them *)

\* Take a credit and try again.  (The compare-and-exchange loop ends here with
\* the credit count it found, or at AddWaiter with none.)
TakeCredit(t) ==
    /\ ftx[Side(t)] > 0
    /\ Goto(t, "credit", "try")
    /\ ftx' = [ftx EXCEPT ![Side(t)] = @ - 1]
    /\ UNCHANGED <<closed, ring, waiters, asleep, at, item, left, received>>

NoCredit(t) ==
    /\ ftx[Side(t)] = 0
    /\ Goto(t, "credit", "addwaiter")
    /\ UNCHANGED <<closed, ring, ftx, waiters, asleep, at, item, left, received>>

AddWaiter(t) ==
    /\ Goto(t, "addwaiter", "wait")
    /\ waiters' = [waiters EXCEPT ![Side(t)] = @ + 1]
    /\ UNCHANGED <<closed, ring, ftx, asleep, at, item, left, received>>

Wait(t) ==
    /\ Goto(t, "wait", "subwaiter")
    /\ asleep' = IF ftx[Side(t)] = 0 THEN asleep \cup {t} ELSE asleep
    /\ UNCHANGED <<closed, ring, ftx, waiters, at, item, left, received>>

SubWaiter(t) ==
    /\ Goto(t, "subwaiter", "credit")
    /\ waiters' = [waiters EXCEPT ![Side(t)] = @ - 1]
    /\ UNCHANGED <<closed, ring, ftx, asleep, at, item, left, received>>

GiveCredit(t) ==
    /\ Goto(t, "give", "anyone")
    /\ ftx' = [ftx EXCEPT ![Other(t)] = @ + 1]
    /\ UNCHANGED <<closed, ring, waiters, asleep, at, item, left, received>>

\* Mutant: wakes only when more than one waits.
AnyWaiters_Alone(t) ==
    /\ Goto(t, "anyone", IF waiters[Other(t)] > 1 THEN "wake" ELSE "return")
    /\ UNCHANGED <<closed, ring, ftx, waiters, asleep, at, item, left, received>>

AnyWaiters(t) ==
    /\ Goto(t, "anyone", IF waiters[Other(t)] > 0 THEN "wake" ELSE "return")
    /\ UNCHANGED <<closed, ring, ftx, waiters, asleep, at, item, left, received>>

Wake(t) ==
    /\ Goto(t, "wake", "return")
    /\ LET sleepers == {u \in asleep : Side(u) = Other(t)}
       IN  IF sleepers = {} THEN UNCHANGED asleep
           ELSE \E u \in sleepers : asleep' = asleep \ {u}
    /\ UNCHANGED <<closed, ring, ftx, waiters, at, item, left, received>>

Return(t) ==
    /\ Goto(t, "return", "idle")
    /\ left' = [left EXCEPT ![t] = @ - 1]
    /\ received' = IF t \in Receivers
                   THEN [received EXCEPT ![item[t]] = @ + 1] ELSE received
    /\ UNCHANGED <<closed, ring, ftx, waiters, asleep, at, item>>

-----------------------------------------------------------------------------
(* chan_close *)

CloseFlag(c) ==
    /\ Goto(c, "idle", "wake_recv")
    /\ closed' = TRUE
    /\ UNCHANGED <<ring, ftx, waiters, asleep, at, item, left, received>>

CloseWake(c, s, from, to) ==
    /\ Goto(c, from, to)
    /\ asleep' = {u \in asleep : Side(u) # s}
    /\ UNCHANGED <<closed, ring, ftx, waiters, at, item, left, received>>

Close(c) ==
    \/ CloseFlag(c)
    \/ CloseWake(c, "recv", "wake_recv", "wake_send")
    \/ CloseWake(c, "send", "wake_send", "done")

-----------------------------------------------------------------------------
Step(t) ==
    \/ Call(t) \/ CheckClosed(t) \/ LoadIndex(t) \/ LoadLap(t) \/ Claim(t) \/ ClaimFails(t)
    \/ MoveData(t) \/ Publish(t) \/ TakeCredit(t) \/ NoCredit(t) \/ AddWaiter(t)
    \/ Wait(t) \/ SubWaiter(t) \/ GiveCredit(t) \/ AnyWaiters(t) \/ Wake(t)
    \/ Return(t)

Next == (\E t \in AllThreads : Step(t)) \/ (\E c \in Closers : Close(c))

Spec == Init /\ [][Next]_vars

\* The scheduler runs every thread, and a weak compare-and-exchange does not
\* fail for ever when the values agree.
Fairness == \A t \in AllThreads : WF_vars(Step(t)) /\ SF_vars(Claim(t))
FairSpec == Spec /\ Fairness

-----------------------------------------------------------------------------
TypeOK ==
    /\ index \in [Sides -> [pos : 0 .. Cap - 1, lap : Nat]]
    /\ lap \in [0 .. Cap - 1 -> Nat]
    /\ data \in [0 .. Cap - 1 -> Msgs \cup {Null}]
    /\ ftx \in [Sides -> Nat] /\ waiters \in [Sides -> Nat]
    /\ asleep \in SUBSET AllThreads
    /\ at \in [AllThreads -> [pos : 0 .. Cap - 1, lap : Nat]]
    /\ item \in [AllThreads -> Msgs \cup {Null}]

InSlot(t) == pc[t] \in {"move", "publish"}

\* A claimed slot is its thread's alone until its lap is bumped: no sender
\* overwrites a slot that is still being read, no receiver reads one that is
\* still being written.
SlotIsExclusive ==
    \A t, u \in AllThreads :
        t # u /\ InSlot(t) /\ InSlot(u) => at[t].pos # at[u].pos

\* Nothing is lost or duplicated in the ring: a message is received at most
\* once, and one that was sent is in the ring or with its receiver until then.
ReceivedOnce ==
    \A m \in Msgs :
        Cardinality({i \in 0 .. Cap - 1 : data[i] = m /\ lap[i] % 2 = 1
                        /\ ~\E t \in Receivers :
                              pc[t] = "publish" /\ at[t].pos = i})
          + Cardinality({t \in Receivers : item[t] = m /\ pc[t] # "idle"})
          + received[m]
        <= 1

\* No sleeper is left behind with a credit: if a credit is there, its giver has
\* still to look for waiters, or a thread of the sleeper's side has been woken
\* and is about to take it.
CreditIsSeen ==
    \A s \in Sides : ftx[s] > 0 /\ (\E t \in asleep : Side(t) = s) =>
        \/ \E u \in AllThreads : pc[u] \in {"anyone", "wake"} /\ Side(u) # s
        \/ \E u \in AllThreads \ asleep :
              Side(u) = s /\ pc[u] \in {"subwaiter", "credit"}

Complete ==
    /\ \A m \in Msgs : received[m] = 1
    /\ \A t \in AllThreads : left[t] = 0

\* What test_chan asserts after it has joined all threads: every message was
\* received exactly once (and so every thread ends).
AllReceived == <>Complete
=============================================================================
