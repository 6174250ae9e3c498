--------------------------------- MODULE QSBR ---------------------------------
(***************************************************************************)
(* Quiescent-state based reclamation, qsbr/main.c: qsbr_register,          *)
(* qsbr_checkpoint, qsbr_barrier, qsbr_sync and qsbr_unregister, with the  *)
(* stress test that drives them: one writer that removes, destroys and     *)
(* inserts objects again, and readers that look objects up.                *)
(*                                                                         *)
(* One action per access to shared memory.  The barrier at the start of    *)
(* qsbr_stress lets no thread work before all have registered, the one at  *)
(* the end lets none unregister before all have stopped.                   *)
(***************************************************************************)
EXTENDS Naturals, TLAPS

CONSTANTS
    Writer, Readers,
    Objects,            \* the N_DATA objects
    MaxEpoch            \* bound: the highest global epoch

ASSUME WriterAssumption == Writer \notin Readers
ASSUME EpochAssumption == MaxEpoch \in Nat

AllThreads == Readers \cup {Writer}

VARIABLES
    global_epoch, local_epoch,
    list,           \* registered threads
    visible, valid, \* obj->visible, and obj->ptr # NULL
    stop,           \* set by the signal handler
    pc,
    seen,           \* the epoch a thread has loaded in qsbr_checkpoint
    obj,            \* the object a thread works on
    target, todo    \* the writer's target_epoch, the list entries to visit

vars == <<global_epoch, local_epoch, list, visible, valid, stop, pc, seen, obj, target, todo>>
data == <<visible, valid>>

Init ==
    /\ global_epoch = 1
    /\ local_epoch = [t \in AllThreads |-> 0]
    /\ list = {}
    /\ visible = [o \in Objects |-> FALSE]
    /\ valid = [o \in Objects |-> FALSE]
    /\ stop = FALSE
    /\ pc = [t \in AllThreads |-> "start"]
    /\ seen = [t \in AllThreads |-> 0]
    /\ obj \in [AllThreads -> Objects]
    /\ target = 0
    /\ todo = {}

Goto(t, from, to) == pc[t] = from /\ pc' = [pc EXCEPT ![t] = to]

-----------------------------------------------------------------------------
(* qsbr_stress *)

Register(t) ==
    /\ Goto(t, "start", "barrier")
    /\ list' = list \cup {t}
    /\ local_epoch' = [local_epoch EXCEPT ![t] = 0]
    /\ UNCHANGED <<global_epoch, data, stop, seen, obj, target, todo>>

\* Bound: the writer starts no new round at the last epoch.
RoundsLeft(t) == t = Writer => stop \/ global_epoch < MaxEpoch

\* The first barrier, and the test of stop at the head of the loop; n moves on
\* to some object.
Loop(t) ==
    /\ pc[t] \in {"barrier", "loop"}
    /\ RoundsLeft(t)
    /\ \A u \in AllThreads : pc[u] # "start"
    /\ pc' = [pc EXCEPT ![t] = IF stop THEN "stopped"
                               ELSE IF t = Writer THEN "write" ELSE "lookup"]
    /\ \E o \in Objects : obj' = [obj EXCEPT ![t] = o]
    /\ UNCHANGED <<global_epoch, local_epoch, list, data, stop, seen, target, todo>>

Alarm ==
    /\ ~stop
    /\ stop' = TRUE
    /\ UNCHANGED <<global_epoch, local_epoch, list, data, pc, seen, obj, target, todo>>

\* The second barrier, then qsbr_unregister.
Unregister(t) ==
    /\ \A u \in AllThreads : pc[u] \in {"stopped", "done"}
    /\ Goto(t, "stopped", "done")
    /\ list' = list \ {t}
    /\ UNCHANGED <<global_epoch, local_epoch, data, stop, seen, obj, target, todo>>

-----------------------------------------------------------------------------
(* A reader: access_obj, then qsbr_checkpoint *)

Lookup(r) ==
    /\ Goto(r, "lookup", IF visible[obj[r]] THEN "deref" ELSE "quiescent")
    /\ UNCHANGED <<global_epoch, local_epoch, list, data, stop, seen, obj, target, todo>>

Deref(r) ==
    /\ Goto(r, "deref", "quiescent")
    /\ UNCHANGED <<global_epoch, local_epoch, list, data, stop, seen, obj, target, todo>>

\* qsbr_checkpoint, for a reader and, inside qsbr_sync, for the writer.
CheckpointLoad(t) ==
    /\ Goto(t, "quiescent", "observe")
    /\ seen' = [seen EXCEPT ![t] = global_epoch]
    /\ UNCHANGED <<global_epoch, local_epoch, list, data, stop, obj, target, todo>>

\* Mutant: a reader does not publish the epoch it has seen.
CheckpointStore_WriterOnly(t) ==
    /\ Goto(t, "observe", IF t = Writer THEN "sync" ELSE "loop")
    /\ local_epoch' = IF t = Writer THEN [local_epoch EXCEPT ![t] = seen[t]] ELSE local_epoch
    /\ todo' = IF t = Writer THEN list ELSE todo
    /\ UNCHANGED <<global_epoch, list, data, stop, seen, obj, target>>

CheckpointStore(t) ==
    /\ Goto(t, "observe", IF t = Writer THEN "sync" ELSE "loop")
    /\ local_epoch' = [local_epoch EXCEPT ![t] = seen[t]]
    /\ todo' = IF t = Writer THEN list ELSE todo
    /\ UNCHANGED <<global_epoch, list, data, stop, seen, obj, target>>

-----------------------------------------------------------------------------
(* The writer: qsbr_writer *)

Remove ==
    /\ visible[obj[Writer]]
    /\ Goto(Writer, "write", "advance")
    /\ visible' = [visible EXCEPT ![obj[Writer]] = FALSE]
    /\ UNCHANGED <<global_epoch, local_epoch, list, valid, stop, seen, obj, target, todo>>

\* insert_obj: the pointer first, then visible.
InsertPtr ==
    /\ ~visible[obj[Writer]]
    /\ Goto(Writer, "write", "publish")
    /\ valid' = [valid EXCEPT ![obj[Writer]] = TRUE]
    /\ UNCHANGED <<global_epoch, local_epoch, list, visible, stop, seen, obj, target, todo>>

InsertVisible ==
    /\ Goto(Writer, "publish", "loop")
    /\ visible' = [visible EXCEPT ![obj[Writer]] = TRUE]
    /\ UNCHANGED <<global_epoch, local_epoch, list, valid, stop, seen, obj, target, todo>>

\* Mutant: the epoch goes down.
Barrier_Sub ==
    /\ Goto(Writer, "advance", "quiescent")
    /\ global_epoch' = global_epoch - 1
    /\ target' = global_epoch - 1
    /\ UNCHANGED <<local_epoch, list, data, stop, seen, obj, todo>>

\* Mutant: returns the epoch before the increment.
Barrier_OldEpoch ==
    /\ Goto(Writer, "advance", "quiescent")
    /\ global_epoch' = global_epoch + 1
    /\ target' = global_epoch
    /\ UNCHANGED <<local_epoch, list, data, stop, seen, obj, todo>>

\* qsbr_barrier.
Barrier ==
    /\ Goto(Writer, "advance", "quiescent")
    /\ global_epoch' = global_epoch + 1
    /\ target' = global_epoch + 1
    /\ UNCHANGED <<local_epoch, list, data, stop, seen, obj, todo>>

\* qsbr_sync visits the registered threads one after the other.
SyncVisit(t) ==
    /\ t \in todo
    /\ Goto(Writer, "sync", IF local_epoch[t] < target THEN "retry" ELSE "sync")
    /\ todo' = todo \ {t}
    /\ UNCHANGED <<global_epoch, local_epoch, list, data, stop, seen, obj, target>>

\* Mutant: does not look at stop between two calls of qsbr_sync.
SyncRetry_Forever ==
    /\ Goto(Writer, "retry", "quiescent")
    /\ UNCHANGED <<global_epoch, local_epoch, list, data, stop, seen, obj, target, todo>>

\* Give up when the test is over, else call qsbr_sync again.
SyncRetry ==
    /\ Goto(Writer, "retry", IF stop THEN "loop" ELSE "quiescent")
    /\ UNCHANGED <<global_epoch, local_epoch, list, data, stop, seen, obj, target, todo>>

\* qsbr_sync returned true: destroy_obj.
Destroy ==
    /\ todo = {}
    /\ Goto(Writer, "sync", "loop")
    /\ valid' = [valid EXCEPT ![obj[Writer]] = FALSE]
    /\ UNCHANGED <<global_epoch, local_epoch, list, visible, stop, seen, obj, target, todo>>

-----------------------------------------------------------------------------
Thread(t) ==
    Register(t) \/ Loop(t) \/ Unregister(t) \/ CheckpointLoad(t) \/ CheckpointStore(t)

Reader(r) == Thread(r) \/ Lookup(r) \/ Deref(r)

WriterStep ==
    \/ Thread(Writer) \/ Remove \/ InsertPtr \/ InsertVisible \/ Barrier
    \/ (\E t \in AllThreads : SyncVisit(t)) \/ SyncRetry \/ Destroy

Next == (\E r \in Readers : Reader(r)) \/ WriterStep \/ Alarm

Spec == Init /\ [][Next]_vars

\* The scheduler runs every thread.
Fairness == WF_vars(WriterStep) /\ \A r \in Readers : WF_vars(Reader(r))
FairSpec == Spec /\ Fairness

-----------------------------------------------------------------------------
TypeOK ==
    /\ global_epoch \in Nat
    /\ local_epoch \in [AllThreads -> Nat]
    /\ list \in SUBSET AllThreads
    /\ visible \in [Objects -> BOOLEAN] /\ valid \in [Objects -> BOOLEAN]
    /\ stop \in BOOLEAN
    /\ pc \in [AllThreads -> {"start", "barrier", "loop", "stopped", "done", "write", "lookup",
                           "deref", "quiescent", "observe", "advance", "publish", "sync",
                           "retry"}]
    /\ seen \in [AllThreads -> Nat]
    /\ obj \in [AllThreads -> Objects]
    /\ target \in Nat
    /\ todo \in SUBSET AllThreads

\* "It is safe to reclaim the said objects when qsbr_sync returns true": a
\* reader about to read through the pointer of an object it found visible (the
\* abort of access_obj) never finds it destroyed.
DerefIsValid == \A r \in Readers : pc[r] = "deref" => valid[obj[r]]

\* A grace period ends: the writer comes out of qsbr_sync, or the test stops.
SyncReturns == (pc[Writer] = "sync") ~> (pc[Writer] = "loop")

\* After the alarm every thread leaves its loop, unregisters and ends: no
\* thread waits at the last barrier for one that waits in qsbr_sync.
AllStop == stop ~> (\A t \in AllThreads : pc[t] = "done")

-----------------------------------------------------------------------------
(* Proof that an object is never destroyed under a reader, for any number of *)
(* readers, objects and epochs.                                              *)
(*                                                                           *)
(* DerefIsValid is not inductive: it does not say why the object of a reader *)
(* survives the writer's grace period.  GracePeriod does: a reader that      *)
(* still uses the object being reclaimed has not observed the target epoch,  *)
(* and the scan of qsbr_sync has it still ahead.                             *)

Reclaiming == pc[Writer] \in {"quiescent", "observe", "sync", "retry"}

\* No thread has observed an epoch that does not exist yet.
EpochsKnown ==
    /\ \A t \in AllThreads : local_epoch[t] <= global_epoch /\ seen[t] <= global_epoch

WorkersRegistered ==
    /\ \A t \in AllThreads : pc[t] \notin {"start", "done"} => t \in list
    /\ pc[Writer] \notin {"lookup", "deref"}
    /\ \A r \in Readers : pc[r] \notin {"write", "advance", "publish", "sync", "retry"}

VisibleIsValid ==
    /\ \A o \in Objects : visible[o] => valid[o]
    /\ pc[Writer] = "publish" => valid[obj[Writer]]
    /\ (Reclaiming \/ pc[Writer] = "advance") => ~visible[obj[Writer]]

GracePeriod ==
    Reclaiming => \A r \in Readers :
        (pc[r] = "deref" /\ obj[r] = obj[Writer]) =>
            /\ local_epoch[r] < target
            /\ pc[Writer] = "sync" => r \in todo

Inv == TypeOK /\ EpochsKnown /\ WorkersRegistered /\ VisibleIsValid /\ DerefIsValid /\ GracePeriod

USE DEF AllThreads

LEMMA InitInv == Init => Inv
<1> SUFFICES ASSUME Init PROVE Inv
  OBVIOUS
<1> USE WriterAssumption DEF Init
<1>1. TypeOK
  BY DEF TypeOK
<1>2. EpochsKnown /\ DerefIsValid /\ GracePeriod
  BY DEF EpochsKnown, DerefIsValid, GracePeriod, Reclaiming
<1>3. WorkersRegistered
  BY DEF WorkersRegistered
<1>4. VisibleIsValid
  BY DEF VisibleIsValid, Reclaiming
<1> QED
  BY <1>1, <1>2, <1>3, <1>4 DEF Inv

LEMMA NextInv == Inv /\ [Next]_vars => Inv'
<1> SUFFICES ASSUME Inv, [Next]_vars PROVE Inv'
  OBVIOUS
<1> USE WriterAssumption
<1> USE DEF Inv, TypeOK, EpochsKnown, WorkersRegistered, VisibleIsValid, DerefIsValid,
            GracePeriod, Reclaiming, Goto, data
<1>1. ASSUME NEW t \in AllThreads, Register(t) PROVE Inv'
  BY <1>1 DEF Register
<1>2. ASSUME NEW t \in AllThreads, Loop(t) PROVE Inv'
  BY <1>2 DEF Loop
<1>3. ASSUME NEW t \in AllThreads, Unregister(t) PROVE Inv'
  BY <1>3 DEF Unregister
<1>4. ASSUME NEW t \in AllThreads, CheckpointLoad(t) PROVE Inv'
  BY <1>4 DEF CheckpointLoad
<1>5. ASSUME NEW t \in AllThreads, CheckpointStore(t) PROVE Inv'
  BY <1>5 DEF CheckpointStore
<1>6. ASSUME NEW r \in Readers, Lookup(r) PROVE Inv'
  BY <1>6 DEF Lookup
<1>7. ASSUME NEW r \in Readers, Deref(r) PROVE Inv'
  BY <1>7 DEF Deref
<1>8. CASE Remove
  BY <1>8 DEF Remove
<1>9. CASE InsertPtr
  BY <1>9 DEF InsertPtr
<1>10. CASE InsertVisible
  BY <1>10 DEF InsertVisible
<1>11. CASE Barrier
  BY <1>11 DEF Barrier
<1>12. ASSUME NEW t \in AllThreads, SyncVisit(t) PROVE Inv'
  BY <1>12 DEF SyncVisit
<1>13. CASE SyncRetry
  BY <1>13 DEF SyncRetry
<1>14. CASE Destroy
  BY <1>14 DEF Destroy
<1>15. CASE Alarm
  BY <1>15 DEF Alarm
<1>16. CASE UNCHANGED vars
  BY <1>16 DEF vars
<1> QED
  BY <1>1, <1>2, <1>3, <1>4, <1>5, <1>6, <1>7, <1>8, <1>9, <1>10, <1>11, <1>12, <1>13,
     <1>14, <1>15, <1>16 DEF Next, Reader, WriterStep, Thread

\* The strengthened invariant holds in every reachable state of qsbr/main.c.
THEOREM Invariance == Spec => []Inv
  BY InitInv, NextInv, PTL DEF Spec

\* "It is safe to reclaim the said objects when qsbr_sync returns true on a
\* given number": access_obj never reads through a destroyed object's pointer.
THEOREM DerefIsValidHolds == Spec => []DerefIsValid
<1>1. Inv => DerefIsValid
  BY DEF Inv
<1> QED
  BY <1>1, Invariance, PTL
=============================================================================
