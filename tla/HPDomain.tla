------------------------------ MODULE HPDomain ------------------------------
(***************************************************************************)
(* hp_list/list2.c: a domain of hazard pointers over one shared pointer.    *)
(* Readers load and drop it, writers swap it and free what they took out,   *)
(* at once or in a later cleanup.                                           *)
(*                                                                          *)
(* dom->pointers only grows, at its head: hps is the sequence of its nodes, *)
(* the oldest first, and a walk goes from the last index down.  Which of    *)
(* the equal values list_remove clears is not the caller's to choose: a     *)
(* reader may clear the node that another reader has filled.  Addresses are *)
(* allocated again once they are free.                                      *)
(***************************************************************************)
EXTENDS Integers, Sequences, FiniteSets

CONSTANTS
    Readers, Writers,
    Addresses,          \* of the config objects
    Loads, Swaps,       \* bounds: loads of all readers together, swaps of each writer
    r_limit             \* deferred objects that a writer tolerates

nullptr == 0            \* addresses are positive numbers

VARIABLES
    shared, allocated,  \* shared_config, and the objects that are allocated
    hps,                \* dom->pointers
    pc, val, slot, at,  \* a thread's control, the pointer at hand, its node, its walk
    retired, r_count,   \* wconfig of each writer
    todo,               \* what is left of the loop in cleanup
    loads, iter         \* loads so far, and the iterations of each writer

vars == <<shared, allocated, hps, pc, val, slot, at, retired, r_count, todo, loads, iter>>
AllThreads == Readers \cup Writers

TypeOK ==
    /\ shared \in allocated /\ allocated \subseteq Addresses
    /\ \A i \in DOMAIN hps : hps[i] \in Addresses \cup {nullptr}
    /\ \A t \in AllThreads : val[t] \in Addresses \cup {nullptr} /\ at[t] \in 0 .. Len(hps)
    /\ \A w \in Writers : retired[w] \subseteq allocated /\ todo[w] \subseteq retired[w]

Init ==
    /\ shared \in Addresses /\ \A a \in Addresses : shared <= a
    /\ allocated = {shared} /\ hps = <<>>
    /\ pc = [t \in AllThreads |-> "start"]
    /\ val = [t \in AllThreads |-> nullptr] /\ slot = [t \in AllThreads |-> 0]
    /\ at = [t \in AllThreads |-> 0]
    /\ retired = [w \in Writers |-> {}] /\ r_count = [w \in Writers |-> 0]
    /\ todo = [w \in Writers |-> {}] /\ iter = [w \in Writers |-> 0] /\ loads = 0

Goto(t, from, to) == pc[t] = from /\ pc' = [pc EXCEPT ![t] = to]
Walk(t, i) == at' = [at EXCEPT ![t] = i]
mine == <<retired, r_count, todo>>

-----------------------------------------------------------------------------
(* load.                                                                    *)

Load(r) ==
    /\ \/ pc[r] = "start" /\ loads < Loads /\ loads' = loads + 1
       \/ pc[r] = "again" /\ UNCHANGED loads
    /\ pc' = [pc EXCEPT ![r] = "head"]
    /\ val' = [val EXCEPT ![r] = shared]
    /\ UNCHANGED <<shared, allocated, hps, slot, at, mine, iter>>

\* The head of the list is loaded: for an insertion, a removal or a search.
LoadHead(t) ==
    /\ pc[t] \in {"head", "undo_head", "drop_head", "scan_head", "clean_head"}
    /\ pc' = [pc EXCEPT ![t] = CASE pc[t] = "head" -> "insert"
                                 [] pc[t] = "undo_head" -> "undo_walk"
                                 [] pc[t] = "drop_head" -> "drop"
                                 [] pc[t] = "scan_head" -> "scan"
                                 [] pc[t] = "clean_head" -> "clean"]
    /\ Walk(t, Len(hps))
    /\ UNCHANGED <<shared, allocated, hps, val, slot, mine, loads, iter>>

\* list_insert_or_append: the first empty node, or a new one at the head.
Insert(r) ==
    /\ \/ /\ at[r] = 0 /\ Goto(r, "insert", "validate")
          /\ hps' = Append(hps, val[r]) /\ slot' = [slot EXCEPT ![r] = Len(hps) + 1]
          /\ UNCHANGED at
       \/ /\ at[r] > 0 /\ hps[at[r]] = nullptr /\ Goto(r, "insert", "validate")
          /\ hps' = [hps EXCEPT ![at[r]] = val[r]] /\ slot' = [slot EXCEPT ![r] = at[r]]
          /\ Walk(r, 0)
       \/ /\ at[r] > 0 /\ hps[at[r]] # nullptr /\ Goto(r, "insert", "insert")
          /\ Walk(r, at[r] - 1) /\ UNCHANGED <<hps, slot>>
    /\ UNCHANGED <<shared, allocated, val, mine, loads, iter>>

\* Mutant: the shared pointer is not read again after the hazard pointer is set.
Validate_Missing(r) ==
    /\ Goto(r, "validate", "use")
    /\ UNCHANGED <<shared, allocated, hps, val, slot, at, mine, loads, iter>>

Validate(r) ==
    /\ Goto(r, "validate", IF shared = val[r] THEN "use" ELSE "undo")
    /\ UNCHANGED <<shared, allocated, hps, val, slot, at, mine, loads, iter>>

\* The pointer was replaced meanwhile: clear the node, or, if somebody else has cleared
\* it, another one with the same value.
Undo(r) ==
    /\ pc[r] = "undo"
    /\ IF hps[slot[r]] = val[r]
         THEN hps' = [hps EXCEPT ![slot[r]] = nullptr] /\ Goto(r, "undo", "again") /\ slot' = [slot EXCEPT ![r] = 0]
         ELSE Goto(r, "undo", "undo_head") /\ UNCHANGED <<hps, slot>>
    /\ UNCHANGED <<shared, allocated, val, at, mine, loads, iter>>

-----------------------------------------------------------------------------
(* drop, and the second half of an undo: list_remove.                       *)

Use(r) ==
    /\ Goto(r, "use", "drop_head")
    /\ UNCHANGED <<shared, allocated, hps, val, slot, at, mine, loads, iter>>

\* A drop that finds nothing is __builtin_unreachable.
Remove(r) ==
    /\ pc[r] \in {"undo_walk", "drop"} /\ (pc[r] = "drop" => at[r] > 0)
    /\ IF at[r] = 0 \/ hps[at[r]] = val[r]
         THEN /\ hps' = IF at[r] = 0 THEN hps ELSE [hps EXCEPT ![at[r]] = nullptr]
              /\ pc' = [pc EXCEPT ![r] = IF pc[r] = "drop" THEN "start" ELSE "again"]
              /\ Walk(r, 0) /\ val' = [val EXCEPT ![r] = nullptr] /\ slot' = [slot EXCEPT ![r] = 0]
         ELSE Walk(r, at[r] - 1) /\ UNCHANGED <<hps, pc, val, slot>>
    /\ UNCHANGED <<shared, allocated, mine, loads, iter>>

-----------------------------------------------------------------------------
(* writer_thread: swap with DEFER_DEALLOC and cleanup.                      *)

Swap(w, new) ==
    /\ iter[w] < Swaps /\ new \in Addresses \ allocated
    /\ Goto(w, "start", "scan_head")
    /\ allocated' = allocated \cup {new}
    /\ shared' = new /\ val' = [val EXCEPT ![w] = shared]
    /\ UNCHANGED <<hps, slot, at, mine, loads, iter>>

\* list_contains, called from cleanup_ptr ("scan") and from cleanup ("clean").
Contains(w) ==
    /\ pc[w] \in {"scan", "clean"} /\ at[w] > 0 /\ hps[at[w]] # val[w]
    /\ Walk(w, at[w] - 1)
    /\ UNCHANGED <<shared, allocated, hps, pc, val, slot, mine, loads, iter>>

NotContained(w) ==
    /\ pc[w] \in {"scan", "clean"} /\ at[w] = 0
    /\ pc' = [pc EXCEPT ![w] = IF pc[w] = "scan" THEN "free" ELSE "clean_free"]
    /\ UNCHANGED <<shared, allocated, hps, val, slot, at, mine, loads, iter>>

\* The deallocator; in cleanup the object leaves the retired ones first.
Free(w) ==
    /\ pc[w] \in {"free", "clean_free"}
    /\ allocated' = allocated \ {val[w]}
    /\ retired' = [retired EXCEPT ![w] = @ \ {val[w]}]
    /\ pc' = [pc EXCEPT ![w] = IF pc[w] = "free" THEN "swapped" ELSE "cleanup"]
    /\ UNCHANGED <<shared, hps, val, slot, at, r_count, todo, loads, iter>>

Defer(w) ==
    /\ at[w] > 0 /\ hps[at[w]] = val[w] /\ Goto(w, "scan", "swapped")
    /\ retired' = [retired EXCEPT ![w] = @ \cup {val[w]}]
    /\ r_count' = [r_count EXCEPT ![w] = @ + 1] /\ Walk(w, 0)
    /\ UNCHANGED <<shared, allocated, hps, val, slot, todo, loads, iter>>

\* The last cleanup is without DEFER_DEALLOC.
Last(w) == iter[w] = Swaps

Swapped(w) ==
    /\ Goto(w, "swapped", IF r_count[w] > r_limit THEN "cleanup" ELSE "start")
    /\ todo' = [todo EXCEPT ![w] = IF r_count[w] > r_limit THEN retired[w] ELSE {}]
    /\ iter' = IF r_count[w] > r_limit THEN iter ELSE [iter EXCEPT ![w] = @ + 1]
    /\ UNCHANGED <<shared, allocated, hps, val, slot, at, retired, r_count, loads>>

LastCleanup(w) ==
    /\ Last(w) /\ Goto(w, "start", "cleanup")
    /\ todo' = [todo EXCEPT ![w] = retired[w]]
    /\ UNCHANGED <<shared, allocated, hps, val, slot, at, retired, r_count, loads, iter>>

Cleanup(w, a) ==
    /\ a \in todo[w] /\ Goto(w, "cleanup", "clean_head")
    /\ todo' = [todo EXCEPT ![w] = @ \ {a}] /\ val' = [val EXCEPT ![w] = a]
    /\ UNCHANGED <<shared, allocated, hps, slot, at, retired, r_count, loads, iter>>

\* Still in use: leave it, or look again, in the last cleanup.
Contained(w) ==
    /\ at[w] > 0 /\ hps[at[w]] = val[w]
    /\ Goto(w, "clean", IF Last(w) THEN "clean_head" ELSE "cleanup") /\ Walk(w, 0)
    /\ UNCHANGED <<shared, allocated, hps, val, slot, mine, loads, iter>>

CleanupEnds(w) ==
    /\ todo[w] = {} /\ Goto(w, "cleanup", IF Last(w) THEN "done" ELSE "start")
    /\ r_count' = [r_count EXCEPT ![w] = IF Last(w) THEN @ ELSE Cardinality(retired[w])]
    /\ iter' = IF Last(w) THEN iter ELSE [iter EXCEPT ![w] = @ + 1]
    /\ UNCHANGED <<shared, allocated, hps, val, slot, at, retired, todo, loads>>

Reader(r) ==
    Load(r) \/ LoadHead(r) \/ Insert(r) \/ Validate(r) \/ Undo(r) \/ Use(r) \/ Remove(r)
Writer(w) ==
    \/ \E new \in Addresses : Swap(w, new)
    \/ LoadHead(w) \/ Contains(w) \/ NotContained(w) \/ Free(w) \/ Defer(w) \/ Swapped(w)
    \/ LastCleanup(w) \/ (\E a \in Addresses : Cleanup(w, a)) \/ Contained(w) \/ CleanupEnds(w)

Next == (\E r \in Readers : Reader(r)) \/ (\E w \in Writers : Writer(w))

Fairness == (\A r \in Readers : WF_vars(Reader(r))) /\ (\A w \in Writers : WF_vars(Writer(w)))

Spec == Init /\ [][Next]_vars /\ Fairness

-----------------------------------------------------------------------------
\* An object is freed once, and not while a reader uses it, although readers clear each
\* other's nodes and addresses come back; a writer that is done has freed all it took out.
ConfigsAreSafe ==
    /\ \A w \in Writers : pc[w] \in {"free", "clean_free"} =>
           /\ val[w] \in allocated \ {shared}
           /\ \A r \in Readers : pc[r] \in {"use", "drop_head"} => val[r] # val[w]
    /\ (\A w \in Writers : pc[w] = "done") => allocated = {shared}

\* The pointer of a drop is in the list until the drop has found one: what the code
\* declares unreachable is not reached.
DropFindsPointer == \A r \in Readers : ~(pc[r] = "drop" /\ at[r] = 0)

\* Every reader gets and drops its pointers, and every writer ends, after a last cleanup
\* that waits for readers.
DomainIsLeft ==
    /\ \A r \in Readers : <>[](pc[r] = "start")
    /\ \A w \in Writers : <>(pc[w] = "done")
=============================================================================
