------------------------------- MODULE HashMap -------------------------------
(***************************************************************************)
(* hashmap/hashmap.c, one bucket of it (keys of different buckets never     *)
(* meet), and the list of free_later.c on which removed nodes wait.         *)
(*                                                                          *)
(* Nodes are not marked: a node is unlinked or replaced by one              *)
(* compare-and-exchange of the pointer that leads to it.  A failed          *)
(* compare-and-exchange stores what it found into the variable that held    *)
(* the expected value: kv and match here, the global empty in list_add.     *)
(* Nothing is freed while threads run (free_later_stage never stages the    *)
(* first buffer), so nodes are not used again.                              *)
(***************************************************************************)
EXTENDS Integers, FiniteSets

CONSTANTS
    Threads,        \* threads that use the map
    Calls,          \* bound: calls of all threads together
    Keys,           \* keys of this bucket, from 1 on
    Initial,        \* how many of them are in the bucket, in their order
    Null

Nodes == 1 .. Initial + Calls          \* the first ones are those of the initial keys

VARIABLES
    bucket, next, key, length,      \* the bucket's list and the size of the map
    made,                           \* nodes created so far
    l_head, l_next, empty,          \* free_later's buffer and the global empty
    pc, op, k, head, prev, kv, new, des,    \* the call of each thread; kv is match in hashmap_del
    calls,
    present, absent, raced, removals        \* history, see below

map    == <<bucket, next, key, length, made>>
later  == <<l_head, l_next, empty>>
locals == <<head, prev, kv, new, des>>
call   == <<op, k, calls>>
history == <<present, absent, raced, removals>>
vars   == <<map, later, pc, locals, call, history>>

\* present[x]: the node that a put of x made last, Null after a deletion.
\* absent: threads whose key was absent at some moment of their call.
\* raced: an exchange succeeded on a node that was not in the list any more, or
\* installed a next pointer that had changed since it was read.
\* removals[n]: how often hashmap_del returned true for node n.

NodeOrNull == Nodes \cup {Null}

TypeOK ==
    /\ bucket \in NodeOrNull /\ next \in [Nodes -> NodeOrNull]
    /\ key \in [Nodes -> Keys \cup {Null}] /\ made \in 0 .. Cardinality(Nodes)
    /\ l_head \in NodeOrNull /\ l_next \in [Nodes -> NodeOrNull] /\ empty \in NodeOrNull
    /\ \A x \in {head, prev, kv, new, des} : x \in [Threads -> NodeOrNull]
    /\ removals \in [Nodes -> Nat]

Init ==
    /\ bucket = IF Initial = 0 THEN Null ELSE 1
    /\ next = [n \in Nodes |-> IF n < Initial THEN n + 1 ELSE Null]
    /\ key = [n \in Nodes |-> IF n <= Initial THEN n ELSE Null]
    /\ length = Initial /\ made = Initial
    /\ l_head = Null /\ l_next = [n \in Nodes |-> Null] /\ empty = Null
    /\ pc = [t \in Threads |-> "idle"] /\ op = [t \in Threads |-> "get"]
    /\ k = [t \in Threads |-> Null] /\ calls = 0
    /\ head = [t \in Threads |-> Null] /\ prev = [t \in Threads |-> Null]
    /\ kv = [t \in Threads |-> Null] /\ new = [t \in Threads |-> Null]
    /\ des = [t \in Threads |-> Null]
    /\ present = [x \in Keys |-> IF x <= Initial THEN x ELSE Null]
    /\ absent = {} /\ raced = FALSE /\ removals = [n \in Nodes |-> 0]

Goto(t, to) == pc' = [pc EXCEPT ![t] = to]

\* What is reached from a node by next pointers, the node included.
From(n, succ) ==
    LET step[i \in 0 .. Cardinality(Nodes)] ==
            IF i = 0 THEN {n} \ {Null}
            ELSE LET before == step[i - 1] IN before \cup ({succ[m] : m \in before} \ {Null})
    IN  step[Cardinality(Nodes)]
Linked == From(bucket, next)

Return(t) ==
    /\ Goto(t, "idle") /\ k' = [k EXCEPT ![t] = Null] /\ op' = [op EXCEPT ![t] = "get"]
    /\ head' = [head EXCEPT ![t] = Null] /\ prev' = [prev EXCEPT ![t] = Null]
    /\ kv' = [kv EXCEPT ![t] = Null] /\ new' = [new EXCEPT ![t] = Null]
    /\ des' = [des EXCEPT ![t] = Null]

Call(t, o, x) ==
    /\ pc[t] = "idle" /\ calls < Calls
    /\ Goto(t, "head") /\ calls' = calls + 1
    /\ op' = [op EXCEPT ![t] = o] /\ k' = [k EXCEPT ![t] = x]
    /\ absent' = IF present[x] = Null THEN absent \cup {t} ELSE absent \ {t}
    /\ UNCHANGED <<map, later, locals, present, raced, removals>>

-----------------------------------------------------------------------------
(* The walk, in hashmap_get, hashmap_put and hashmap_del.                   *)

\* With an empty bucket hashmap_put leaves kv as it is, whatever a failed exchange has
\* stored there.
LoadHead(t) ==
    /\ pc[t] = "head"
    /\ head' = [head EXCEPT ![t] = bucket] /\ prev' = [prev EXCEPT ![t] = Null]
    /\ kv' = [kv EXCEPT ![t] = IF op[t] = "put" /\ bucket = Null THEN @ ELSE bucket]
    /\ Goto(t, IF bucket = Null THEN "found" ELSE "walk")
    /\ UNCHANGED <<map, later, new, des, call, history>>

Walk(t) ==
    LET n == kv[t] IN
    /\ pc[t] = "walk"
    /\ IF key[n] = k[t]
         THEN Goto(t, "found") /\ UNCHANGED <<prev, kv>>
         ELSE /\ prev' = [prev EXCEPT ![t] = n] /\ kv' = [kv EXCEPT ![t] = next[n]]
              /\ Goto(t, IF next[n] = Null THEN "found" ELSE "walk")
    /\ UNCHANGED <<map, later, head, new, des, call, history>>

\* hashmap_get, and hashmap_del when nothing matches.
NoMatch(t) ==
    /\ pc[t] = "found" /\ (op[t] = "get" \/ (op[t] = "del" /\ kv[t] = Null))
    /\ Return(t)
    /\ UNCHANGED <<map, later, calls, history>>

-----------------------------------------------------------------------------
(* hashmap_put.                                                             *)

\* Mutant: the new node is linked only when it is made, not again after a failure.
Prepare_Once(t) ==
    LET n == IF new[t] = Null THEN made + 1 ELSE new[t] IN
    /\ pc[t] = "found" /\ op[t] = "put"
    /\ made' = IF new[t] = Null THEN made + 1 ELSE made
    /\ new' = [new EXCEPT ![t] = n]
    /\ key' = [key EXCEPT ![n] = k[t]]
    /\ next' = IF new[t] # Null THEN next
               ELSE [next EXCEPT ![n] = IF kv[t] # Null THEN next[kv[t]] ELSE head[t]]
    /\ Goto(t, IF kv[t] # Null THEN "replace" ELSE "prepend")
    /\ UNCHANGED <<bucket, length, later, head, prev, kv, des, call, history>>

\* The new node is made once and linked to the rest of the list.
Prepare(t) ==
    LET n == IF new[t] = Null THEN made + 1 ELSE new[t] IN
    /\ pc[t] = "found" /\ op[t] = "put"
    /\ made' = IF new[t] = Null THEN made + 1 ELSE made
    /\ new' = [new EXCEPT ![t] = n]
    /\ key' = [key EXCEPT ![n] = k[t]]
    /\ next' = [next EXCEPT ![n] = IF kv[t] # Null THEN next[kv[t]] ELSE head[t]]
    /\ Goto(t, IF kv[t] # Null THEN "replace" ELSE "prepend")
    /\ UNCHANGED <<bucket, length, later, head, prev, kv, des, call, history>>

\* The pointer that leads to kv, and the exchange of it.
Link(t) == IF prev[t] = Null THEN bucket ELSE next[prev[t]]

Exchange(t, n) ==
    IF prev[t] = Null THEN bucket' = n /\ UNCHANGED next
    ELSE next' = [next EXCEPT ![prev[t]] = n] /\ UNCHANGED bucket

\* Whether the exchange of t is about to act on what is gone.
Stale(t, n) == (prev[t] # Null /\ prev[t] \notin Linked) \/ next[kv[t]] # n

Now(x, n) ==
    /\ present' = [present EXCEPT ![x] = n]
    /\ absent' = IF n = Null THEN absent \cup {t \in Threads : k[t] = x} ELSE absent

Replace(t) ==
    /\ pc[t] = "replace"
    /\ IF Link(t) = kv[t]
         THEN /\ Exchange(t, new[t]) /\ Now(k[t], new[t])
              /\ raced' = (raced \/ Stale(t, next[new[t]]))
              /\ Goto(t, "later") /\ UNCHANGED kv
         ELSE /\ kv' = [kv EXCEPT ![t] = Link(t)]
              /\ Goto(t, "head") /\ UNCHANGED <<bucket, next, present, absent, raced>>
    /\ UNCHANGED <<key, length, made, later, head, prev, new, des, call, removals>>

\* Mutant: a store instead of the compare-and-exchange.
Prepend_Store(t) ==
    /\ pc[t] = "prepend"
    /\ bucket' = new[t] /\ Now(k[t], new[t]) /\ Goto(t, "count")
    /\ UNCHANGED <<next, key, length, made, later, locals, call, raced, removals>>

Prepend(t) ==
    /\ pc[t] = "prepend"
    /\ IF bucket = head[t]
         THEN bucket' = new[t] /\ Now(k[t], new[t]) /\ Goto(t, "count")
         ELSE Goto(t, "head") /\ UNCHANGED <<bucket, present, absent>>
    /\ UNCHANGED <<next, key, length, made, later, locals, call, raced, removals>>

-----------------------------------------------------------------------------
(* hashmap_del.                                                             *)

\* match->next is read before the exchange that stores it.
LoadNext(t) ==
    /\ pc[t] = "found" /\ op[t] = "del" /\ kv[t] # Null
    /\ des' = [des EXCEPT ![t] = next[kv[t]]]
    /\ Goto(t, "delete")
    /\ UNCHANGED <<map, later, head, prev, kv, new, call, history>>

Delete(t) ==
    /\ pc[t] = "delete"
    /\ IF Link(t) = kv[t]
         THEN /\ Exchange(t, des[t]) /\ Now(k[t], Null)
              /\ raced' = (raced \/ Stale(t, des[t]))
              /\ removals' = [removals EXCEPT ![kv[t]] = @ + 1]
              /\ Goto(t, "count")
         ELSE Goto(t, "head") /\ UNCHANGED <<bucket, next, present, absent, raced, removals>>
    /\ UNCHANGED <<key, length, made, later, locals, call>>

\* The length is changed after the list.
Count(t) ==
    /\ pc[t] = "count"
    /\ length' = IF op[t] = "put" THEN length + 1 ELSE length - 1
    /\ IF op[t] = "put" THEN Return(t)
                        ELSE Goto(t, "later") /\ UNCHANGED <<op, k, locals>>
    /\ UNCHANGED <<bucket, next, key, made, later, calls, history>>

-----------------------------------------------------------------------------
(* destroy_node_later: list_add of free_later.c.  Key, value and node are   *)
(* registered one after the other; one of them stands for the three.        *)

AddLoad(t) ==
    /\ pc[t] = "later"
    /\ des' = [des EXCEPT ![t] = l_head]
    /\ l_next' = [l_next EXCEPT ![kv[t]] = IF l_head = empty THEN Null ELSE l_head]
    /\ Goto(t, IF l_head = empty THEN "add_first" ELSE "add")
    /\ UNCHANGED <<map, l_head, empty, head, prev, kv, new, call, history>>

\* Mutant: the head of the buffer is stored without looking at it again.
Add_Store(t) ==
    /\ pc[t] \in {"add_first", "add"}
    /\ l_head' = kv[t] /\ Return(t)
    /\ UNCHANGED <<map, l_next, empty, calls, history>>

\* The exchange that expects empty stores the head it finds into it when it fails.
Add(t) ==
    /\ pc[t] \in {"add_first", "add"}
    /\ IF l_head = (IF pc[t] = "add" THEN des[t] ELSE empty)
         THEN l_head' = kv[t] /\ Return(t) /\ UNCHANGED empty
         ELSE /\ empty' = IF pc[t] = "add_first" THEN l_head ELSE empty
              /\ Goto(t, "later") /\ UNCHANGED <<l_head, op, k, locals>>
    /\ UNCHANGED <<map, l_next, calls, history>>

Next ==
    \E t \in Threads :
        \/ \E o \in {"get", "put", "del"}, x \in Keys : Call(t, o, x)
        \/ LoadHead(t) \/ Walk(t) \/ NoMatch(t)
        \/ Prepare(t) \/ Replace(t) \/ Prepend(t)
        \/ LoadNext(t) \/ Delete(t) \/ Count(t)
        \/ AddLoad(t) \/ Add(t)

Spec == Init /\ [][Next]_vars

-----------------------------------------------------------------------------
\* The comment on hashmap_del: "This operation is guaranteed to return true just once, if
\* multiple threads are attempting to delete the same key" (hashmap.h:53-54).
DeletedOnce == \A n \in Nodes : removals[n] <= 1

\* As long as no two threads change neighbouring nodes at once, the bucket holds exactly
\* the nodes of the last put of each key, each once, length agrees with it but for the calls
\* that are about to change it, and a call that finds no match has seen its key absent.
MapIsExact ==
    LET pending(o) == Cardinality({t \in Threads : pc[t] = "count" /\ op[t] = o})
    IN  ~raced =>
          /\ Linked = {present[x] : x \in Keys} \ {Null}
          /\ length = Cardinality(Linked) - pending("put") + pending("del")
          /\ \A t \in Threads : pc[t] = "found" /\ kv[t] = Null => t \in absent
          /\ DeletedOnce

\* Until a failed exchange has overwritten empty, every node that was removed and whose
\* call is over is in the buffer of free_later.
RemovedAreBuffered ==
    LET underway == {kv[t] : t \in {u \in Threads : pc[u] \in {"count", "later", "add_first", "add"}}}
        unused   == {new[t] : t \in Threads}
    IN  empty = Null /\ ~raced =>
          \A n \in 1 .. made : n \in Linked \cup underway \cup unused \cup From(l_head, l_next)
=============================================================================
