------------------------------- MODULE MCSLock -------------------------------
(***************************************************************************)
(* The MCS queue lock of mcslock/mcslock.c.                                *)
(*                                                                         *)
(* Every thread brings a node of its own; a node is named by its thread.   *)
(* The lock word points at the last node in line.  One action is one       *)
(* atomic access to shared memory, so every interleaving of acquire and    *)
(* release is a behaviour.  place is a history variable: it numbers the    *)
(* threads in the order of their atomic exchange on the lock word.         *)
(***************************************************************************)
EXTENDS Naturals

CONSTANTS
    Threads,    \* the threads that use the lock, each with one mcsnode
    Null        \* the null pointer

ASSUME NullAssumption == Null \notin Threads

\* enum { MCS_PROCEED = 0, MCS_WAIT = 1 }
MCS_PROCEED == 0
MCS_WAIT    == 1

VARIABLES
    lock,       \* the lock word: the last node in line, or Null
    next,       \* node->next
    wait,       \* node->wait
    prev,       \* local of mcslock_acquire: the node found in the lock word
    succ,       \* local of mcslock_release: the node to signal
    pc,         \* where each thread is
    place       \* history: place in line, 0 when not in line

vars == <<lock, next, wait, prev, succ, pc, place>>

\* Between two accesses of acquire:  swap, setwait, link, spin.
\* Holding the lock:  cs.  Between two accesses of release:
\* cas, waitnext, signal.
Acquiring == {"setwait", "link", "spin"}
Holding   == {"cs", "cas", "waitnext", "signal"}
Places    == {"idle", "swap"} \cup Acquiring \cup Holding

\* mcslock_init.  The nodes are uninitialised: any wait value is possible.
Init ==
    /\ lock  = Null
    /\ next  = [t \in Threads |-> Null]
    /\ wait  \in [Threads -> {MCS_PROCEED, MCS_WAIT}]
    /\ prev  = [t \in Threads |-> Null]
    /\ succ  = [t \in Threads |-> Null]
    /\ pc    = [t \in Threads |-> "idle"]
    /\ place = [t \in Threads |-> 0]

Goto(t, from, to) == pc[t] = from /\ pc' = [pc EXCEPT ![t] = to]

MoveUp(pl) == [u \in Threads |-> IF pl[u] = 0 THEN 0 ELSE pl[u] - 1]

-----------------------------------------------------------------------------
(* mcslock_acquire *)

\* The caller may pass any uninitialised node: only next is set here.
AcquireInit(t) ==
    /\ Goto(t, "idle", "swap")
    /\ next' = [next EXCEPT ![t] = Null]
    /\ \E w \in {MCS_PROCEED, MCS_WAIT} : wait' = [wait EXCEPT ![t] = w]
    /\ UNCHANGED <<lock, prev, succ, place>>

\* A0: exchange the lock word; a null predecessor means the lock was free.
AcquireSwap(t) ==
    /\ Goto(t, "swap", IF lock = Null THEN "cs" ELSE "setwait")
    /\ prev'  = [prev EXCEPT ![t] = lock]
    /\ lock'  = t
    /\ place' = [place EXCEPT ![t] = IF lock = Null THEN 1 ELSE place[lock] + 1]
    /\ UNCHANGED <<next, wait, succ>>

\* Mutant: the node keeps the wait value it was found with.
AcquireSetWait_Skipped(t) ==
    /\ Goto(t, "setwait", "link")
    /\ UNCHANGED <<lock, next, wait, prev, succ, place>>

\* Mutant: the flag is incremented instead of set.
AcquireSetWait_Counted(t) ==
    /\ Goto(t, "setwait", "link")
    /\ wait' = [wait EXCEPT ![t] = @ + MCS_WAIT]
    /\ UNCHANGED <<lock, next, prev, succ, place>>

AcquireSetWait(t) ==
    /\ Goto(t, "setwait", "link")
    /\ wait' = [wait EXCEPT ![t] = MCS_WAIT]
    /\ UNCHANGED <<lock, next, prev, succ, place>>

\* B0: publish our node in the predecessor's next field.
AcquireLink(t) ==
    /\ Goto(t, "link", "spin")
    /\ next' = [next EXCEPT ![prev[t]] = t]
    /\ UNCHANGED <<lock, wait, prev, succ, place>>

\* C0: wait_until_equal_u8 leaves its loop.
AcquireSpin(t) ==
    /\ wait[t] = MCS_PROCEED
    /\ Goto(t, "spin", "cs")
    /\ UNCHANGED <<lock, next, wait, prev, succ, place>>

-----------------------------------------------------------------------------
(* mcslock_release *)

\* B1: a known successor is signalled, otherwise the lock word is tried.
ReleaseRead(t) ==
    /\ Goto(t, "cs", IF next[t] = Null THEN "cas" ELSE "signal")
    /\ succ' = [succ EXCEPT ![t] = next[t]]
    /\ UNCHANGED <<lock, next, wait, prev, place>>

\* Mutant: a store instead of the compare-and-exchange.
ReleaseCAS_Store(t) ==
    /\ Goto(t, "cas", "idle")
    /\ lock'  = Null
    /\ place' = MoveUp(place)
    /\ UNCHANGED <<next, wait, prev, succ>>

\* A1: the strong compare-and-exchange of the lock word from our node to Null.
ReleaseCAS(t) ==
    /\ Goto(t, "cas", IF lock = t THEN "idle" ELSE "waitnext")
    /\ lock'  = IF lock = t THEN Null ELSE lock
    /\ place' = IF lock = t THEN MoveUp(place) ELSE place
    /\ UNCHANGED <<next, wait, prev, succ>>

\* B2: the loop that waits for the successor to link itself.
ReleaseWaitNext(t) ==
    /\ next[t] # Null
    /\ Goto(t, "waitnext", "signal")
    /\ succ' = [succ EXCEPT ![t] = next[t]]
    /\ UNCHANGED <<lock, next, wait, prev, place>>

\* C1: hand the lock to the successor.
ReleaseSignal(t) ==
    /\ Goto(t, "signal", "idle")
    /\ wait'  = [wait EXCEPT ![succ[t]] = MCS_PROCEED]
    /\ place' = MoveUp(place)
    /\ UNCHANGED <<lock, next, prev, succ>>

-----------------------------------------------------------------------------
Acquire(t) ==
    AcquireSwap(t) \/ AcquireSetWait(t) \/ AcquireLink(t) \/ AcquireSpin(t)

Release(t) ==
    ReleaseRead(t) \/ ReleaseCAS(t) \/ ReleaseWaitNext(t) \/ ReleaseSignal(t)

Next == \E t \in Threads : AcquireInit(t) \/ Acquire(t) \/ Release(t)

Spec == Init /\ [][Next]_vars

\* A thread need not ask for the lock, but once inside acquire or release, or
\* inside its critical section, the scheduler keeps running it.
Fairness == \A t \in Threads : WF_vars(Acquire(t) \/ Release(t))
FairSpec == Spec /\ Fairness

-----------------------------------------------------------------------------
TypeOK ==
    /\ lock  \in Threads \cup {Null}
    /\ next  \in [Threads -> Threads \cup {Null}]
    /\ wait  \in [Threads -> {MCS_PROCEED, MCS_WAIT}]
    /\ prev  \in [Threads -> Threads \cup {Null}]
    /\ succ  \in [Threads -> Threads \cup {Null}]
    /\ pc    \in [Threads -> Places]
    /\ place \in [Threads -> Nat]

\* Mutual exclusion: at most one thread is between the return of
\* mcslock_acquire and the hand-over in mcslock_release.
MutualExclusion ==
    \A t, u \in Threads : pc[t] \in Holding /\ pc[u] \in Holding => t = u

\* First come, first served: the holder is the thread that, among those still
\* in line, exchanged the lock word first (A0), although the links between
\* nodes are published later and in any order.
FirstInLineHolds == \A t \in Threads : pc[t] \in Holding => place[t] = 1

\* No late link: when acquire writes prev->next (B0), the predecessor has not
\* yet left mcslock_release, so its node (which may be on a dead stack frame
\* afterwards, or reused by the next acquire) is still the one it queued with.
NoLateLink ==
    \A t \in Threads : pc[t] \in {"setwait", "link"} =>
        place[prev[t]] > 0 /\ next[prev[t]] = Null

\* The line is served in order: one thread is inside, and it is the first.
ServedInLine == MutualExclusion /\ FirstInLineHolds

Abstract == INSTANCE FifoLock

\* The lock implements the abstract first-come first-served lock.
ImplementsFifoLock == Abstract!Spec

\* Every acquire returns, if critical sections end.
EveryAcquireReturns ==
    \A t \in Threads : pc[t] = "swap" ~> pc[t] = "cs"
=============================================================================
