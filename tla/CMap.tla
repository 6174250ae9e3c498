-------------------------------- MODULE CMap --------------------------------
(***************************************************************************)
(* cmap/cmap.c, rcu.c and the conditions of locks.h: a hash map with one    *)
(* writer, whose array is replaced by a larger one under readers.  Driven   *)
(* as in test-cmap.c: readers look for values, one updater inserts and      *)
(* removes others.                                                          *)
(*                                                                          *)
(* The i-th array and the struct rcu that leads to it are both called i.    *)
(* The array i + 1 is published behind a fence while readers still use i;   *)
(* who drops the last reference to i moves the nodes over and opens the     *)
(* fence.  cond_wait is a wait until the fence is open.                     *)
(*                                                                          *)
(* rcu_acquire loads the pointer and counts itself in two steps.  A reader  *)
(* that comes too late, and counts itself in a struct rcu whose last        *)
(* reference is gone, accesses memory that is being freed; the model does   *)
(* not follow it any further (pc "late").                                   *)
(*                                                                          *)
(* The updater's own references to the current struct rcu are left out:     *)
(* cmap->impl->p counts as one already, and only the updater drops that.    *)
(***************************************************************************)
EXTENDS Integers, Sequences, FiniteSets

CONSTANTS
    Readers, Updater,
    InitialSize,        \* MAP_INITIAL_SIZE, a power of two
    LoadFactor,         \* how many times max the count may be, 2 in the code
    Initial,            \* values that initiate_values has inserted
    Hashes,             \* what hash_int returns
    Inserts, Searches   \* how often the updater and all readers go round

NULL    == 0
Nodes   == 1..Initial + Inserts
AllThreads == Readers \cup {Updater}

VARIABLES
    impl,               \* cmap->impl->p
    arr, count, fence,  \* of each struct cmap_impl
    counter, cb, freed, \* of each struct rcu: references, cb_list, whether it was freed
    next, hash,         \* of each node
    pc, ref, key, node, \* a thread: control, its struct rcu, the search, where it stands
    cursor_next,        \* a thread: next of where it stands, as it was when it got there
    bucket,             \* a thread: the index in cmap_expand_callback
    made, searches,     \* insertions and searches so far
    members,            \* history: nodes inserted and not removed
    missed              \* history: a search that did not find its value

impls  == <<arr, count, fence>>
rcu    == <<impl, counter, cb, freed>>
nodes  == <<next, hash>>
locals == <<ref, key, node, cursor_next, bucket>>
driver == <<made, searches>>
vars   == <<impls, rcu, nodes, pc, locals, driver, members, missed>>

max(i) == Len(arr[i]) - 1
Entry(h, size) == 1 + (h % size)
First(i, h) == arr[i][Entry(h, Len(arr[i]))]
Open(i) == ~fence[i]                                    \* cond_is_locked, cond_wait
cond_unlock(i) == fence' = [fence EXCEPT ![i] = FALSE]
rcu_postpone(i) == cb' = cb \cup {i}
Goto(t, to) == pc' = [pc EXCEPT ![t] = to]

\* cmap_insert__: nodes become the first of their entry.
Linked(i, c) == [arr EXCEPT ![i][Entry(hash'[c], Len(arr[i]))] = c]

\* The nodes that a walk from n meets.
Chain(n) ==
    LET walk[c \in Nodes \cup {NULL}] == IF c = NULL THEN <<>> ELSE <<c>> \o walk[next[c]]
    IN  walk[n]

Init ==
    /\ impl = 1 /\ counter = <<1>> /\ cb = {} /\ freed = {}
    /\ hash \in [1..Initial -> Hashes]
    /\ LET In(e) == {n \in 1..Initial : Entry(hash[n], InitialSize) = e}
           Largest(S) == IF S = {} THEN NULL ELSE CHOOSE n \in S : \A m \in S : m <= n
       IN  /\ arr = <<[e \in 1..InitialSize |-> Largest(In(e))]>>
           /\ next = [n \in 1..Initial |->
                         Largest({m \in In(Entry(hash[n], InitialSize)) : m < n})]
    /\ count = <<Initial>> /\ fence = <<FALSE>>
    /\ pc = [t \in AllThreads |-> IF t = Updater THEN "insert" ELSE "start"]
    /\ ref = [t \in AllThreads |-> NULL] /\ node = [t \in AllThreads |-> NULL]
    /\ cursor_next = [t \in AllThreads |-> NULL]
    /\ key = [t \in AllThreads |-> NULL] /\ bucket = [t \in AllThreads |-> 0]
    /\ made = 0 /\ searches = 0 /\ members = 1..Initial /\ missed = FALSE

-----------------------------------------------------------------------------
(* A reader: can_compose_value, or cmap_size and cmap_utilization.          *)

\* The value to look for: one of values, or NULL for one that is not there, or for main's
\* look at the count, which does not care about the fence.
Acquire(t, v) ==
    /\ pc[t] = "start" /\ searches < Searches
    /\ searches' = searches + 1
    /\ key' = [key EXCEPT ![t] = v] /\ ref' = [ref EXCEPT ![t] = impl]
    /\ Goto(t, "count")
    /\ UNCHANGED <<impls, rcu, nodes, node, cursor_next, bucket, made, members, missed>>

Count(t) ==
    /\ pc[t] = "count"
    /\ IF counter[ref[t]] = 0
         THEN Goto(t, "late") /\ UNCHANGED counter
         ELSE /\ counter' = [counter EXCEPT ![ref[t]] = @ + 1]
              /\ Goto(t, "find") \/ (key[t] = NULL /\ Goto(t, "release"))
    /\ UNCHANGED <<impls, impl, cb, freed, nodes, locals, driver, members, missed>>

\* Mutant: a search does not wait until the nodes have been moved.
cmap_find_NoFence(t, h) ==
    /\ pc[t] = "find"
    /\ key[t] # NULL => h = hash[key[t]]
    /\ node' = [node EXCEPT ![t] = First(ref[t], h)]
    /\ Goto(t, IF node'[t] = NULL THEN "walk" ELSE "fetch")
    /\ UNCHANGED <<impls, rcu, nodes, ref, key, cursor_next, bucket, driver, members, missed>>

cmap_find(t, h) ==
    /\ pc[t] = "find" /\ Open(ref[t])
    /\ key[t] # NULL => h = hash[key[t]]
    /\ node' = [node EXCEPT ![t] = First(ref[t], h)]
    /\ Goto(t, IF node'[t] = NULL THEN "walk" ELSE "fetch")
    /\ UNCHANGED <<impls, rcu, nodes, ref, key, cursor_next, bucket, driver, members, missed>>

Fetch(t) ==
    /\ pc[t] = "fetch" /\ Goto(t, "walk")
    /\ cursor_next' = [cursor_next EXCEPT ![t] = next[node[t]]]
    /\ UNCHANGED <<impls, rcu, nodes, ref, key, node, bucket, driver, members, missed>>

\* One turn of MAP_FOREACH_WITH_HASH: compare the node, or go on to the next, which may have
\* been removed since the cursor was told of it.
cmap_next(t) ==
    /\ pc[t] = "walk"
    /\ IF node[t] \in {key[t], NULL}
         THEN /\ Goto(t, "release")
              /\ missed' = (missed \/ node[t] # key[t])
              /\ node' = [node EXCEPT ![t] = NULL]
              /\ cursor_next' = [cursor_next EXCEPT ![t] = NULL]
         ELSE /\ node' = [node EXCEPT ![t] = cursor_next[t]]
              /\ cursor_next' = [cursor_next EXCEPT
                                   ![t] = IF @ = NULL THEN NULL ELSE next[@]]
              /\ UNCHANGED <<pc, missed>>
    /\ UNCHANGED <<impls, rcu, nodes, ref, key, bucket, driver, members>>

-----------------------------------------------------------------------------
(* Dropping a reference, and what the last one brings about.                *)

\* Mutant: rcu_set frees what it has replaced without looking at the counter.
Release_Set(t) ==
    /\ pc[t] \in {"release", "drop"}
    /\ counter' = [counter EXCEPT ![ref[t]] = @ - 1]
    /\ key' = [key EXCEPT ![t] = NULL]
    /\ IF counter[ref[t]] = 1 \/ pc[t] = "drop"
         THEN Goto(t, "rcu_free") /\ UNCHANGED ref
         ELSE /\ Goto(t, IF t = Updater THEN "remove" ELSE "start")
              /\ ref' = [ref EXCEPT ![t] = NULL]
    /\ UNCHANGED <<impls, impl, cb, freed, nodes, node, cursor_next, bucket, driver, members, missed>>

\* rcu_release, or the end of rcu_set.
Release(t) ==
    /\ pc[t] \in {"release", "drop"}
    /\ counter' = [counter EXCEPT ![ref[t]] = @ - 1]
    /\ key' = [key EXCEPT ![t] = NULL]
    /\ IF counter[ref[t]] = 1
         THEN Goto(t, "rcu_free") /\ UNCHANGED ref
         ELSE /\ Goto(t, IF t = Updater THEN "remove" ELSE "start")
              /\ ref' = [ref EXCEPT ![t] = NULL]
    /\ UNCHANGED <<impls, impl, cb, freed, nodes, node, cursor_next, bucket, driver, members, missed>>

\* rcu_free calls cmap_expand_callback.
rcu_free(t) ==
    /\ pc[t] = "rcu_free" /\ ref[t] \in cb
    /\ cb' = cb \ {ref[t]}
    /\ bucket' = [bucket EXCEPT ![t] = 1] /\ node' = [node EXCEPT ![t] = arr[ref[t]][1]]
    /\ Goto(t, "rehash")
    /\ UNCHANGED <<impls, impl, counter, freed, nodes, ref, key, cursor_next, driver, members, missed>>

\* Mutant: the next node is read after the node was linked into the new array.
Rehash_LateNext(t) ==
    LET new == ref[t] + 1
        c   == node[t]
    IN  /\ pc[t] = "rehash"
        /\ \/ /\ c # NULL /\ UNCHANGED <<hash, pc, bucket>>
              /\ next' = [next EXCEPT ![c] = First(new, hash[c])]
              /\ arr' = Linked(new, c)
              /\ node' = [node EXCEPT ![t] = next'[c]]
           \/ /\ c = NULL /\ bucket[t] <= max(ref[t]) /\ UNCHANGED <<arr, nodes, pc>>
              /\ bucket' = [bucket EXCEPT ![t] = @ + 1]
              /\ node' = [node EXCEPT ![t] = arr[ref[t]][bucket[t] + 1]]
           \/ /\ c = NULL /\ bucket[t] > max(ref[t]) /\ UNCHANGED <<arr, nodes, node>>
              /\ bucket' = [bucket EXCEPT ![t] = 0] /\ Goto(t, "unlock")
        /\ UNCHANGED <<count, fence, rcu, ref, key, cursor_next, driver, members, missed>>

Rehash(t) ==
    LET new == ref[t] + 1
        c   == node[t]
    IN  /\ pc[t] = "rehash"
        /\ \/ /\ c # NULL /\ UNCHANGED <<hash, pc, bucket>>
              /\ next' = [next EXCEPT ![c] = First(new, hash[c])]
              /\ arr' = Linked(new, c)
              /\ node' = [node EXCEPT ![t] = next[c]]
           \/ /\ c = NULL /\ bucket[t] <= max(ref[t]) /\ UNCHANGED <<arr, nodes, pc>>
              /\ bucket' = [bucket EXCEPT ![t] = @ + 1]
              /\ node' = [node EXCEPT ![t] = arr[ref[t]][bucket[t] + 1]]
           \/ /\ c = NULL /\ bucket[t] > max(ref[t]) /\ UNCHANGED <<arr, nodes, node>>
              /\ bucket' = [bucket EXCEPT ![t] = 0] /\ Goto(t, "unlock")
        /\ UNCHANGED <<count, fence, rcu, ref, key, cursor_next, driver, members, missed>>

\* Mutant: the fence of the old array is opened, not that of the new one.
Unlock_Old(t) ==
    /\ pc[t] = "unlock" /\ Goto(t, "free")
    /\ cond_unlock(ref[t])
    /\ UNCHANGED <<arr, count, rcu, nodes, locals, driver, members, missed>>

\* The fence is removed, ...
Unlock(t) ==
    /\ pc[t] = "unlock" /\ Goto(t, "free")
    /\ cond_unlock(ref[t] + 1)
    /\ UNCHANGED <<arr, count, rcu, nodes, locals, driver, members, missed>>

\* ... and the array and its struct rcu are freed.
Free(t) ==
    /\ pc[t] = "free" /\ Goto(t, IF t = Updater THEN "remove" ELSE "start")
    /\ freed' = freed \cup {ref[t]}
    /\ ref' = [ref EXCEPT ![t] = NULL]
    /\ UNCHANGED <<impls, impl, counter, cb, nodes, key, node, cursor_next, bucket, driver, members,
                   missed>>

-----------------------------------------------------------------------------
(* The updater.                                                             *)

cmap_insert(h) ==
    LET n == Initial + made + 1 IN
    /\ pc[Updater] = "insert" /\ made < Inserts
    /\ made' = made + 1
    /\ hash' = Append(hash, h) /\ next' = Append(next, First(impl, h))
    /\ arr' = Linked(impl, n)
    /\ count' = [count EXCEPT ![impl] = @ + 1]
    /\ members' = members \cup {n}
    /\ Goto(Updater, IF count'[impl] > max(impl) * LoadFactor THEN "expand" ELSE "remove")
    /\ UNCHANGED <<fence, rcu, locals, searches, missed>>

\* cmap_expand up to rcu_postpone: one expansion at a time.
cmap_expand ==
    /\ pc[Updater] = "expand" /\ Open(impl)
    /\ arr' = Append(arr, [e \in 1..2 * Len(arr[impl]) |-> NULL])
    /\ count' = Append(count, count[impl]) /\ fence' = Append(fence, TRUE)
    /\ rcu_postpone(impl)
    /\ Goto(Updater, "set")
    /\ UNCHANGED <<impl, counter, freed, nodes, locals, driver, members, missed>>

\* rcu_set: the new pointer is stored, and the reference to the old one dropped.
rcu_set ==
    /\ pc[Updater] = "set" /\ Goto(Updater, "drop")
    /\ impl' = impl + 1 /\ counter' = Append(counter, 1)
    /\ ref' = [ref EXCEPT ![Updater] = impl]
    /\ UNCHANGED <<impls, cb, freed, nodes, key, node, cursor_next, bucket, driver, members, missed>>

\* The first node of an entry that is not one of values is removed, if there is one.
\* Nobody but the updater changes an array whose fence is open.
cmap_remove(h) ==
    LET chain == Chain(First(impl, h))
        mine  == {i \in DOMAIN chain : chain[i] > Initial}
    IN  /\ pc[Updater] = "remove" /\ Open(impl)
        /\ Goto(Updater, "insert")
        /\ \/ mine = {} /\ UNCHANGED <<arr, count, next, members>>
           \/ \E i \in mine :
                 LET n == chain[i] IN
                 /\ \A j \in mine : i <= j
                 /\ members' = members \ {n}
                 /\ count' = [count EXCEPT ![impl] = @ - 1]
                 /\ IF i = 1
                      THEN /\ arr' = [arr EXCEPT ![impl][Entry(h, Len(arr[impl]))] = next[n]]
                           /\ UNCHANGED next
                      ELSE next' = [next EXCEPT ![chain[i - 1]] = next[n]] /\ UNCHANGED arr
        /\ UNCHANGED <<fence, rcu, hash, locals, driver, missed>>

-----------------------------------------------------------------------------
Dropping(t) == Release(t) \/ rcu_free(t) \/ Rehash(t) \/ Unlock(t) \/ Free(t)
Reader(t) ==
    \/ \E v \in 0..Initial : Acquire(t, v)
    \/ Count(t) \/ (\E h \in Hashes : cmap_find(t, h)) \/ Fetch(t) \/ cmap_next(t) \/ Dropping(t)
Update ==
    \/ \E h \in Hashes : cmap_insert(h) \/ cmap_remove(h)
    \/ cmap_expand \/ rcu_set \/ Dropping(Updater)

Next == (\E t \in Readers : Reader(t)) \/ Update

\* Every thread runs.
Fairness == WF_vars(Update) /\ \A t \in Readers : WF_vars(Reader(t))
Spec     == Init /\ [][Next]_vars /\ Fairness

-----------------------------------------------------------------------------
TypeOK ==
    /\ impl \in 1..Len(arr) /\ Len(counter) \in {Len(arr) - 1, Len(arr)}
    /\ Len(count) = Len(arr) /\ fence \in Seq(BOOLEAN)
    /\ \A i \in DOMAIN arr : arr[i] \in Seq(Nodes \cup {NULL})
    /\ \A t \in AllThreads :
          ref[t] \in 0..Len(arr) /\ {node[t], cursor_next[t]} \subseteq Nodes \cup {NULL}
    /\ cb \cup freed \subseteq DOMAIN arr

\* AllThreads that have a reference.
Holders(i) ==
    {t \in AllThreads : ref[t] = i /\ pc[t] \in {"find", "fetch", "walk", "release", "drop"}}

\* The counter is the number of references, and as long as there is one the array is
\* neither freed nor taken apart by an expansion.
HoldersAreSafe ==
    \A i \in DOMAIN counter :
        /\ counter[i] = Cardinality(Holders(i)) + (IF i = impl THEN 1 ELSE 0)
        /\ counter[i] > 0 => /\ i \notin freed
                             /\ \A t \in AllThreads : ref[t] = i => pc[t] \notin
                                    {"rcu_free", "rehash", "unlock", "free"}

\* What read_cmap checks: a value that was inserted before the readers started is found,
\* whatever is inserted, removed or moved to another array meanwhile.
PresentIsFound == ~missed

\* In an array that is open each node is in its entry, once, and the count is exact:
\* the last reader of the array before has moved everything.
ArrayIsComplete ==
    Open(impl) =>
        /\ count[impl] = Cardinality(members)
        /\ \A e \in DOMAIN arr[impl] :
              LET chain == Chain(arr[impl][e])
              IN  /\ {chain[j] : j \in DOMAIN chain} =
                         {n \in members : Entry(hash[n], Len(arr[impl])) = e}
                  /\ Cardinality({chain[j] : j \in DOMAIN chain}) = Len(chain)

\* Readers that are not late come to the end of their searches, the updater comes to the
\* end of its loop, and then only the last array is left.
MapIsLeft ==
    <>[](/\ \A t \in Readers : pc[t] \in {"start", "late"}
         /\ pc[Updater] = "insert" /\ freed = 1..impl - 1)
=============================================================================
