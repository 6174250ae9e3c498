-------------------------------- MODULE RefCnt --------------------------------
(***************************************************************************)
(* Reference counting, refcnt/main.c: refcnt_strdup, refcnt_ref and        *)
(* refcnt_unref on one counted string, driven as in its main: the creator  *)
(* hands a counted reference to every thread and drops its own, a thread   *)
(* duplicates and drops its reference a number of times and then drops the *)
(* one it was given.                                                       *)
(*                                                                         *)
(* A reference is a token: "main", the one given to a thread, the thread's *)
(* duplicate.  refs is the set of references that exist; the code keeps    *)
(* only their number.                                                      *)
(***************************************************************************)
EXTENDS Naturals, FiniteSets

CONSTANTS
    Threads,
    Iterations      \* N_ITERATIONS

ASSUME ThreadsAssumption == IsFiniteSet(Threads)
ASSUME IterationsAssumption == Iterations \in Nat

Main   == [kind |-> "main"]
Own(t) == [kind |-> "own", thread |-> t]
Dup(t) == [kind |-> "dup", thread |-> t]
Refs   == {Main} \cup {Own(t) : t \in Threads} \cup {Dup(t) : t \in Threads}

VARIABLES
    refcount,
    freed,      \* the memory was given back
    refs,       \* history: the references that exist
    freeing,    \* who is between the last fetch_sub and free()
    mpc, pc,    \* control of main and of each thread
    iter        \* iterations a thread has left

vars == <<refcount, freed, refs, freeing, mpc, pc, iter>>

\* refcnt_strdup (refcnt_malloc).
Init ==
    /\ refcount = 1
    /\ freed = FALSE
    /\ refs = {Main}
    /\ freeing = {}
    /\ mpc = "spawn"
    /\ pc = [t \in Threads |-> "none"]
    /\ iter = [t \in Threads |-> Iterations]

\* refcnt_ref through an existing reference, making reference r.
Ref(r) ==
    /\ refcount' = refcount + 1
    /\ refs' = refs \cup {r}
    /\ UNCHANGED <<freed, freeing>>

\* Mutant: tests the counter again instead of the value subtracted from.
Unref_Reload(r) ==
    /\ refcount' = refcount - 1
    /\ refs' = refs \ {r}
    /\ freeing' = IF refcount <= 2 THEN freeing \cup {r} ELSE freeing
    /\ UNCHANGED freed

\* refcnt_unref of r: whoever subtracts from 1 has to free.
Unref(r) ==
    /\ refcount' = refcount - 1
    /\ refs' = refs \ {r}
    /\ freeing' = IF refcount = 1 THEN freeing \cup {r} ELSE freeing
    /\ UNCHANGED freed

Free(r) ==
    /\ r \in freeing
    /\ freed' = TRUE
    /\ freeing' = freeing \ {r}
    /\ UNCHANGED <<refcount, refs, mpc, pc, iter>>

-----------------------------------------------------------------------------
(* main *)

\* Mutant: the thread is given the reference of main.
Spawn_NoRef(t) ==
    /\ mpc = "spawn" /\ pc[t] = "none"
    /\ refs' = refs \cup {Own(t)}
    /\ pc' = [pc EXCEPT ![t] = "loop"]
    /\ UNCHANGED <<refcount, freed, freeing, mpc, iter>>

Spawn(t) ==
    /\ mpc = "spawn" /\ pc[t] = "none"
    /\ Ref(Own(t))
    /\ pc' = [pc EXCEPT ![t] = "loop"]
    /\ UNCHANGED <<mpc, iter>>

\* Mutant: main keeps its reference.
MainUnref_Missing ==
    /\ mpc = "spawn"
    /\ \A t \in Threads : pc[t] # "none"
    /\ mpc' = "done"
    /\ UNCHANGED <<refcount, freed, refs, freeing, pc, iter>>

MainUnref ==
    /\ mpc = "spawn"
    /\ \A t \in Threads : pc[t] # "none"
    /\ Unref(Main)
    /\ mpc' = "done"
    /\ UNCHANGED <<pc, iter>>

-----------------------------------------------------------------------------
(* test_thread *)

Goto(t, from, to) == pc[t] = from /\ pc' = [pc EXCEPT ![t] = to]

\* Mutant: one iteration too many.
Duplicate_OneMore(t) ==
    /\ Goto(t, "loop", "use")
    /\ Ref(Dup(t))
    /\ iter' = [iter EXCEPT ![t] = @ - 1]
    /\ UNCHANGED mpc

Duplicate(t) ==
    /\ iter[t] > 0
    /\ Goto(t, "loop", "use")
    /\ Ref(Dup(t))
    /\ iter' = [iter EXCEPT ![t] = @ - 1]
    /\ UNCHANGED mpc

\* The string is printed.
Use(t) ==
    /\ Goto(t, "use", "drop")
    /\ UNCHANGED <<refcount, freed, refs, freeing, mpc, iter>>

DropDup(t) ==
    /\ Goto(t, "drop", "loop")
    /\ Unref(Dup(t))
    /\ UNCHANGED <<mpc, iter>>

DropOwn(t) ==
    /\ iter[t] = 0
    /\ Goto(t, "loop", "done")
    /\ Unref(Own(t))
    /\ UNCHANGED <<mpc, iter>>

-----------------------------------------------------------------------------
Next ==
    \/ MainUnref
    \/ \E t \in Threads : Spawn(t) \/ Duplicate(t) \/ Use(t) \/ DropDup(t) \/ DropOwn(t)
    \/ \E r \in Refs : Free(r)

Spec == Init /\ [][Next]_vars
Fairness == WF_vars(Next)
FairSpec == Spec /\ Fairness

-----------------------------------------------------------------------------
TypeOK ==
    /\ refcount \in Nat
    /\ freed \in BOOLEAN
    /\ refs \in SUBSET Refs /\ freeing \in SUBSET Refs
    /\ mpc \in {"spawn", "done"}
    /\ pc \in [Threads -> {"none", "loop", "use", "drop", "done"}]
    /\ iter \in [Threads -> 0 .. Iterations]

\* A reference keeps the string: while one exists (a thread may use the string
\* or duplicate the reference), it is not freed and nobody is about to free it.
NoUseAfterFree == refs # {} => ~freed /\ freeing = {}

\* Exactly one unref sees the count go to zero.
FreedOnce == Cardinality(freeing) <= 1 /\ (freed => freeing = {})

\* The string outlives its references and is given back once.
FreedByTheLast == NoUseAfterFree /\ FreedOnce

\* "Whichever thread finishes last will free the string".
FreedInTheEnd == <>freed
=============================================================================
