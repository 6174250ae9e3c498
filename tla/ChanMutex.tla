------------------------------ MODULE ChanMutex ------------------------------
(***************************************************************************)
(* The futex mutex of channel/channel.c, one action per atomic access or   *)
(* futex call.  The futex itself is the kernel's: FUTEX_WAIT compares and  *)
(* goes to sleep in one step, FUTEX_WAKE takes one sleeper off the queue,  *)
(* and a sleeper may also return for no reason (a signal).                 *)
(***************************************************************************)
EXTENDS Naturals

CONSTANTS Threads, None

ASSUME NoneAssumption == None \notin Threads

UNLOCKED         == 0
LOCKED_NO_WAITER == 1
LOCKED           == 2

VARIABLES
    val,        \* mu->val
    asleep,     \* threads sleeping in futex_wait on val
    pc

vars == <<val, asleep, pc>>

Trying == {"mark", "wait", "retry"}    \* inside the loop of mutex_lock
Places == {"idle", "lock", "locked", "store", "wake"} \cup Trying

Init ==                                \* mutex_init
    /\ val = UNLOCKED
    /\ asleep = {}
    /\ pc = [t \in Threads |-> "idle"]

Goto(t, from, to) ==
    /\ t \notin asleep
    /\ pc[t] = from
    /\ pc' = [pc EXCEPT ![t] = to]

\* cas(ptr, expect, new): the value found decides, the swap happens if it is
\* the expected one.
Cas(expect, new) == val' = IF val = expect THEN new ELSE val

-----------------------------------------------------------------------------
(* mutex_lock *)

LockCall(t) == Goto(t, "idle", "lock") /\ UNCHANGED <<val, asleep>>

\* The loop of mutex_lock tests the value just found: LOCKED waits at once,
\* LOCKED_NO_WAITER is first marked LOCKED.
EnterLoop(found) == IF found = LOCKED THEN "wait" ELSE "mark"

LockFast(t) ==
    /\ Goto(t, "lock", IF val = UNLOCKED THEN "locked" ELSE EnterLoop(val))
    /\ Cas(UNLOCKED, LOCKED_NO_WAITER)
    /\ UNCHANGED asleep

\* Mutant: marks with an increment instead of a compare-and-exchange.
LockMark_Increment(t) ==
    /\ Goto(t, "mark", IF val # UNLOCKED THEN "wait" ELSE "retry")
    /\ val' = IF val = UNLOCKED THEN val ELSE val + 1
    /\ UNCHANGED asleep

LockMark(t) ==
    /\ Goto(t, "mark", IF val # UNLOCKED THEN "wait" ELSE "retry")
    /\ Cas(LOCKED_NO_WAITER, LOCKED)
    /\ UNCHANGED asleep

\* futex_wait(&mu->val, LOCKED): sleeps only if the value is still LOCKED.
LockWait(t) ==
    /\ Goto(t, "wait", "retry")
    /\ asleep' = IF val = LOCKED THEN asleep \cup {t} ELSE asleep
    /\ UNCHANGED val

\* Mutant: after a sleep the mutex is taken as if nobody else slept.
LockRetry_NoWaiter(t) ==
    /\ Goto(t, "retry", IF val = UNLOCKED THEN "locked" ELSE EnterLoop(val))
    /\ Cas(UNLOCKED, LOCKED_NO_WAITER)
    /\ UNCHANGED asleep

\* Mutant: a wake-up is taken for ownership.
LockRetry_Woken(t) ==
    /\ Goto(t, "retry", "locked")
    /\ val' = LOCKED
    /\ UNCHANGED asleep

LockRetry(t) ==
    /\ Goto(t, "retry", IF val = UNLOCKED THEN "locked" ELSE EnterLoop(val))
    /\ Cas(UNLOCKED, LOCKED)
    /\ UNCHANGED asleep

-----------------------------------------------------------------------------
(* mutex_unlock *)

UnlockSub(t) ==
    /\ Goto(t, "locked", IF val = LOCKED_NO_WAITER THEN "idle" ELSE "store")
    /\ val' = val - 1
    /\ UNCHANGED asleep

UnlockStore(t) ==
    /\ Goto(t, "store", "wake")
    /\ val' = UNLOCKED
    /\ UNCHANGED asleep

\* futex_wake(&mu->val, 1)
UnlockWake(t) ==
    /\ Goto(t, "wake", "idle")
    /\ IF asleep = {} THEN UNCHANGED asleep
                      ELSE \E u \in asleep : asleep' = asleep \ {u}
    /\ UNCHANGED val

\* futex_wait returns without a wake-up.
SpuriousWake(t) ==
    /\ t \in asleep
    /\ asleep' = asleep \ {t}
    /\ UNCHANGED <<val, pc>>

-----------------------------------------------------------------------------
Step(t) ==
    \/ LockFast(t) \/ LockMark(t) \/ LockWait(t) \/ LockRetry(t)
    \/ UnlockSub(t) \/ UnlockStore(t) \/ UnlockWake(t)

Next == \E t \in Threads : LockCall(t) \/ Step(t) \/ SpuriousWake(t)

Spec == Init /\ [][Next]_vars

\* A running thread keeps running; spurious wake-ups are never owed.
Fairness == \A t \in Threads : WF_vars(Step(t))
FairSpec == Spec /\ Fairness

-----------------------------------------------------------------------------
TypeOK ==
    /\ val \in {UNLOCKED, LOCKED_NO_WAITER, LOCKED}
    /\ asleep \in SUBSET Threads
    /\ pc \in [Threads -> Places]

Owns(t) == pc[t] \in {"locked", "store"}

\* The mutex has one owner, and its word says so: it is UNLOCKED exactly when
\* nobody owns it, although mutex_unlock passes through two stores.
WordMatchesOwner ==
    /\ \A t, u \in Threads : Owns(t) /\ Owns(u) => t = u
    /\ val = UNLOCKED <=> ~\E t \in Threads : Owns(t)

\* No lost wake-up: while someone sleeps on the futex, the word says LOCKED (so
\* the unlock will wake), or a wake-up is on its way, or an awake thread is
\* still inside the loop and will leave the word LOCKED.
SleeperIsCovered ==
    asleep # {} =>
        \/ val = LOCKED
        \/ \E t \in Threads : pc[t] \in {"store", "wake"}
        \/ \E t \in Threads \ asleep : pc[t] \in Trying

\* The mutex implements the abstract one: the lock is taken by the successful
\* compare-and-exchange and given up when the word becomes UNLOCKED.
ownerBar == IF \E t \in Threads : Owns(t)
            THEN CHOOSE t \in Threads : Owns(t) ELSE None

Abstract == INSTANCE Mutex WITH owner <- ownerBar

ImplementsMutex == Abstract!Spec

\* While somebody wants the mutex, somebody gets it: no sleeper is forgotten
\* when the last owner leaves.
SomeoneGetsIn ==
    (\E t \in Threads : pc[t] \in {"lock"} \cup Trying) ~>
        (\E t \in Threads : pc[t] = "locked")
=============================================================================
