------------------------------ MODULE RCUQueue ------------------------------
(***************************************************************************)
(* The lock-free queue of rcu_queue/rcu_queue.c and the reclamation of its  *)
(* nodes: qsbr_queue_push, qsbr_queue_pop, qsbr_free and qsbr_quiescent,    *)
(* driven by the loop of worker: some pushes, some pops, a quiescent state. *)
(*                                                                          *)
(* One action per access to shared memory.  A node is named by the push it  *)
(* is allocated for and is not allocated again; a freed one keeps its       *)
(* contents.  to_free1 and to_free2 are lists of entries, here sequences    *)
(* from their first entry: a list never changes behind its first entry, and *)
(* so comparing the first entries compares the lists.                       *)
(***************************************************************************)
EXTENDS Naturals, Sequences, FiniteSets

CONSTANTS
    Workers,
    Tries,          \* n_tries: pushes and pops of each worker
    Spurious,       \* may a weak compare-and-exchange fail without reason?
    Null

Start == <<Null, 0>>                    \* init_node of qsbr_queue_init
Nodes == {Start} \cup (Workers \X (1 .. Tries))

VARIABLES
    epoch, n_remaining, to_free1, to_free2,     \* qsbr_global
    head, tail, next,                           \* the queue
    pc, n_enqueue, n_dequeue, local_epoch,   \* a worker
    node, at, nxt,          \* a push: its node, tail, next; a pop: head, next
    ep, todo,               \* qsbr_free and qsbr_quiescent: epoch, list loaded
    batch,                  \* what qsbr_quiescent returns
    freed,                  \* history: how often each node was freed
    order, pops             \* histories: nodes as they were linked; pops done

global == <<epoch, n_remaining, to_free1, to_free2>>
queue  == <<head, tail, next, order, pops>>
counts == <<n_enqueue, n_dequeue, local_epoch>>
ops    == <<node, at, nxt>>
qsbr   == <<ep, todo, batch>>
vars   == <<global, queue, pc, counts, ops, qsbr, freed>>

Init ==
    /\ epoch = 0 /\ n_remaining = 0 /\ to_free1 = << >> /\ to_free2 = << >>
    /\ head = Start /\ tail = Start /\ next = [n \in Nodes |-> Null]
    /\ pc = [w \in Workers |-> "push"]
    /\ n_enqueue = [w \in Workers |-> 0] /\ n_dequeue = [w \in Workers |-> 0]
    /\ local_epoch = [w \in Workers |-> 0]
    /\ node = [w \in Workers |-> Null] /\ at = [w \in Workers |-> Null]
    /\ nxt = [w \in Workers |-> Null]
    /\ ep = [w \in Workers |-> 0] /\ todo = [w \in Workers |-> << >>]
    /\ batch = [w \in Workers |-> << >>]
    /\ freed = [n \in Nodes |-> 0]
    /\ order = <<Start>> /\ pops = 0

Goto(w, from, to) == pc[w] = from /\ pc' = [pc EXCEPT ![w] = to]

-----------------------------------------------------------------------------
(* qsbr_queue_push *)

\* Allocate a node and load tail.
PushLoad(w) ==
    /\ n_enqueue[w] < Tries
    /\ Goto(w, "push", "link")
    /\ node' = [node EXCEPT ![w] = <<w, n_enqueue[w] + 1>>]
    /\ at' = [at EXCEPT ![w] = tail]
    /\ UNCHANGED <<global, queue, counts, nxt, qsbr, freed>>

\* tail->next from NULL to the node, or what is there.
PushLink(w) ==
    /\ Goto(w, "link", "swing")
    /\ next[at[w]] = Null
    /\ next' = [next EXCEPT ![at[w]] = node[w]]
    /\ order' = Append(order, node[w])
    /\ UNCHANGED <<global, head, tail, pops, counts, ops, qsbr, freed>>

PushLinkFails(w) ==
    /\ Goto(w, "link", "help")
    /\ next[at[w]] # Null \/ Spurious
    /\ nxt' = [nxt EXCEPT ![w] = next[at[w]]]
    /\ UNCHANGED <<global, queue, counts, node, at, qsbr, freed>>

\* Help tail forward, or load it.
PushHelp(w) ==
    /\ Goto(w, "help", "link")
    /\ IF tail = at[w] THEN tail' = nxt[w] /\ UNCHANGED at
                       ELSE at' = [at EXCEPT ![w] = tail] /\ UNCHANGED tail
    /\ UNCHANGED <<global, head, next, order, pops, counts, node, nxt, qsbr, freed>>

PushSwing(w) ==
    /\ Goto(w, "swing", "push")
    /\ tail' = IF tail = at[w] THEN node[w] ELSE tail
    /\ n_enqueue' = [n_enqueue EXCEPT ![w] = @ + 1]
    /\ UNCHANGED <<global, head, next, order, pops, n_dequeue, local_epoch, ops, qsbr,
                   freed>>

-----------------------------------------------------------------------------
(* qsbr_queue_pop *)

\* On to the pops.
ToPop(w) ==
    /\ Goto(w, "push", "pop")
    /\ UNCHANGED <<global, queue, counts, ops, qsbr, freed>>

PopLoad(w) ==
    /\ n_dequeue[w] < Tries
    /\ Goto(w, "pop", "popnext")
    /\ at' = [at EXCEPT ![w] = head]
    /\ UNCHANGED <<global, queue, counts, node, nxt, qsbr, freed>>

PopNext(w) ==
    /\ Goto(w, "popnext", IF next[at[w]] = Null THEN "pop" ELSE "take")
    /\ nxt' = [nxt EXCEPT ![w] = next[at[w]]]
    /\ UNCHANGED <<global, queue, counts, node, at, qsbr, freed>>

\* Mutant: a store instead of the compare-and-exchange.
PopTake_Store(w) ==
    /\ Goto(w, "take", "value")
    /\ head' = nxt[w]
    /\ pops' = pops + 1
    /\ UNCHANGED <<global, tail, next, order, counts, ops, qsbr, freed>>

PopTake(w) ==
    /\ head = at[w]
    /\ Goto(w, "take", "value")
    /\ head' = nxt[w]
    /\ pops' = pops + 1
    /\ UNCHANGED <<global, tail, next, order, counts, ops, qsbr, freed>>

PopRetry(w) ==
    /\ head # at[w]
    /\ Goto(w, "take", "popnext")
    /\ at' = [at EXCEPT ![w] = head]
    /\ UNCHANGED <<global, queue, counts, node, nxt, qsbr, freed>>

\* Read next->value; the old head is released to qsbr_free.
PopValue(w) ==
    /\ Goto(w, "value", "free1")
    /\ n_dequeue' = [n_dequeue EXCEPT ![w] = @ + 1]
    /\ UNCHANGED <<global, queue, n_enqueue, local_epoch, ops, qsbr, freed>>

-----------------------------------------------------------------------------
(* qsbr_free *)

\* The first entry of an empty to_free1 starts an epoch.
FreeFirst(w) ==
    /\ Goto(w, "free1", IF to_free1 = << >> THEN "start" ELSE "free2")
    /\ to_free1' = IF to_free1 = << >> THEN <<at[w]>> ELSE to_free1
    /\ UNCHANGED <<epoch, n_remaining, to_free2, queue, counts, ops, qsbr, freed>>

StartLoad(w) ==
    /\ Goto(w, "start", "remaining")
    /\ ep' = [ep EXCEPT ![w] = epoch]
    /\ UNCHANGED <<global, queue, counts, ops, todo, batch, freed>>

\* Mutant: the worker that starts the epoch is expected, too.
StartRemaining_All(w) ==
    /\ Goto(w, "remaining", "advance")
    /\ n_remaining' = Cardinality(Workers)
    /\ UNCHANGED <<epoch, to_free1, to_free2, queue, counts, ops, qsbr, freed>>

StartRemaining(w) ==
    /\ Goto(w, "remaining", "advance")
    /\ n_remaining' = Cardinality(Workers) - 1
    /\ UNCHANGED <<epoch, to_free1, to_free2, queue, counts, ops, qsbr, freed>>

StartEpoch(w) ==
    /\ Goto(w, "advance", "pop")
    /\ epoch' = ep[w] + 1
    /\ local_epoch' = [local_epoch EXCEPT ![w] = ep[w] + 1]
    /\ UNCHANGED <<n_remaining, to_free1, to_free2, queue, n_enqueue, n_dequeue, ops,
                   qsbr, freed>>

\* Any other entry goes in front of to_free2.
FreeLoad(w) ==
    /\ Goto(w, "free2", "free2cas")
    /\ todo' = [todo EXCEPT ![w] = to_free2]
    /\ UNCHANGED <<global, queue, counts, ops, ep, batch, freed>>

FreePush(w) ==
    /\ Goto(w, "free2cas", IF to_free2 = todo[w] THEN "pop" ELSE "free2cas")
    /\ to_free2' = IF to_free2 = todo[w] THEN <<at[w]>> \o todo[w] ELSE to_free2
    /\ todo' = [todo EXCEPT ![w] = IF to_free2 = @ THEN << >> ELSE to_free2]
    /\ UNCHANGED <<epoch, n_remaining, to_free1, queue, counts, ops, ep, batch, freed>>

-----------------------------------------------------------------------------
(* qsbr_quiescent, and the loop of worker *)

ToQuiescent(w) ==
    /\ Goto(w, "pop", "quiescent")
    /\ UNCHANGED <<global, queue, counts, ops, qsbr, freed>>

\* Mutant: a worker reports more than once in an epoch.
QuiescentLoad_NoTest(w) ==
    /\ Goto(w, "quiescent", "sub")
    /\ ep' = [ep EXCEPT ![w] = epoch]
    /\ UNCHANGED <<global, queue, counts, ops, todo, batch, freed>>

QuiescentLoad(w) ==
    /\ Goto(w, "quiescent", IF epoch = local_epoch[w] THEN "loop" ELSE "sub")
    /\ ep' = [ep EXCEPT ![w] = epoch]
    /\ UNCHANGED <<global, queue, counts, ops, todo, batch, freed>>

\* Who brings n_remaining to zero ends the epoch.
QuiescentSub(w) ==
    /\ Goto(w, "sub", IF n_remaining = 1 THEN "load1" ELSE "observe")
    /\ n_remaining' = n_remaining - 1
    /\ UNCHANGED <<epoch, to_free1, to_free2, queue, counts, ops, qsbr, freed>>

EndLoad1(w) ==
    /\ Goto(w, "load1", "load2")
    /\ batch' = [batch EXCEPT ![w] = to_free1]
    /\ UNCHANGED <<global, queue, counts, ops, ep, todo, freed>>

EndLoad2(w) ==
    /\ Goto(w, "load2", IF to_free2 = << >> THEN "clear1" ELSE "move")
    /\ todo' = [todo EXCEPT ![w] = to_free2]
    /\ UNCHANGED <<global, queue, counts, ops, ep, batch, freed>>

\* Nothing is waiting: no new epoch.
EndClear(w) ==
    /\ Goto(w, "clear1", "observe")
    /\ to_free1' = << >>
    /\ UNCHANGED <<epoch, n_remaining, to_free2, queue, counts, ops, qsbr, freed>>

\* Mutant: to_free2 is read and not emptied.
EndMove_Copied(w) ==
    /\ Goto(w, "move", "store1")
    /\ todo' = [todo EXCEPT ![w] = to_free2]
    /\ UNCHANGED <<global, queue, counts, ops, ep, batch, freed>>

\* to_free2 moves to to_free1, for another epoch.
EndMove(w) ==
    /\ Goto(w, "move", IF to_free2 = todo[w] THEN "store1" ELSE "move")
    /\ to_free2' = IF to_free2 = todo[w] THEN << >> ELSE to_free2
    /\ todo' = [todo EXCEPT ![w] = to_free2]
    /\ UNCHANGED <<epoch, n_remaining, to_free1, queue, counts, ops, ep, batch, freed>>

EndStore1(w) ==
    /\ Goto(w, "store1", "again")
    /\ to_free1' = todo[w]
    /\ todo' = [todo EXCEPT ![w] = << >>]
    /\ UNCHANGED <<epoch, n_remaining, to_free2, queue, counts, ops, ep, batch, freed>>

EndRemaining(w) ==
    /\ Goto(w, "again", "newepoch")
    /\ n_remaining' = Cardinality(Workers) - 1
    /\ UNCHANGED <<epoch, to_free1, to_free2, queue, counts, ops, qsbr, freed>>

EndEpoch(w) ==
    /\ Goto(w, "newepoch", "observe")
    /\ epoch' = ep[w] + 1
    /\ ep' = [ep EXCEPT ![w] = @ + 1]
    /\ UNCHANGED <<n_remaining, to_free1, to_free2, queue, counts, ops, todo, batch, freed>>

\* The epoch is noted, and free_qsbr_nodes frees the list.
Observe(w) ==
    /\ Goto(w, "observe", "loop")
    /\ local_epoch' = [local_epoch EXCEPT ![w] = ep[w]]
    /\ freed' = [n \in Nodes |->
                    freed[n] + Cardinality({k \in 1 .. Len(batch[w]) : batch[w][k] = n})]
    /\ batch' = [batch EXCEPT ![w] = << >>]
    /\ UNCHANGED <<global, queue, n_enqueue, n_dequeue, ops, ep, todo>>

Loop(w) ==
    /\ Goto(w, "loop", IF n_enqueue[w] < Tries \/ n_dequeue[w] < Tries THEN "push" ELSE "done")
    /\ UNCHANGED <<global, queue, counts, ops, qsbr, freed>>

-----------------------------------------------------------------------------
Push(w) == PushLoad(w) \/ PushLink(w) \/ PushLinkFails(w) \/ PushHelp(w) \/ PushSwing(w)

Pop(w) == PopLoad(w) \/ PopNext(w) \/ PopTake(w) \/ PopRetry(w) \/ PopValue(w)

Free(w) ==
    \/ FreeFirst(w) \/ StartLoad(w) \/ StartRemaining(w) \/ StartEpoch(w)
    \/ FreeLoad(w) \/ FreePush(w)

Quiescent(w) ==
    \/ QuiescentLoad(w) \/ QuiescentSub(w) \/ EndLoad1(w) \/ EndLoad2(w) \/ EndClear(w)
    \/ EndMove(w) \/ EndStore1(w) \/ EndRemaining(w) \/ EndEpoch(w) \/ Observe(w)

Worker(w) == Push(w) \/ ToPop(w) \/ Pop(w) \/ Free(w) \/ ToQuiescent(w) \/ Quiescent(w) \/ Loop(w)

Next == \E w \in Workers : Worker(w)

Spec == Init /\ [][Next]_vars

-----------------------------------------------------------------------------
TypeOK ==
    /\ epoch \in Nat /\ n_remaining \in 0 .. Cardinality(Workers) - 1
    /\ to_free1 \in Seq(Nodes) /\ to_free2 \in Seq(Nodes)
    /\ head \in Nodes /\ tail \in Nodes /\ next \in [Nodes -> Nodes \cup {Null}]
    /\ n_enqueue \in [Workers -> 0 .. Tries] /\ n_dequeue \in [Workers -> 0 .. Tries]
    /\ local_epoch \in [Workers -> Nat]
    /\ freed \in [Nodes -> Nat]

\* A pop works on nodes that exist: neither the head it holds, nor the node
\* behind it, nor an entry it is putting on a list is freed before it is done;
\* and no node is freed twice.
PopIsSafe ==
    /\ freed[head] = 0
    /\ \A w \in Workers :
         /\ pc[w] \in {"popnext", "take", "free1", "free2", "free2cas"} => freed[at[w]] = 0
         /\ pc[w] \in {"take", "value"} => freed[nxt[w]] = 0
    /\ \A n \in Nodes : freed[n] <= 1

\* The assertions of qsbr_quiescent, and what they guard: somebody is still
\* expected when a worker reports, there is something to free when the last one
\* has, and an entry waits in one list only.
EpochsAreSound ==
    /\ \A w \in Workers :
         /\ pc[w] = "sub" => n_remaining >= 1
         /\ pc[w] = "load2" => batch[w] # << >>
         /\ pc[w] = "store1" => todo[w] # << >>
    /\ \A j \in DOMAIN to_free1, k \in DOMAIN to_free2 : to_free1[j] # to_free2[k]

\* First in, first out: the pops take the nodes as they were linked, and head
\* never passes the last of them although it may pass tail.
PoppedInOrder == pops < Len(order) /\ head = order[pops + 1]

\* A push, too, works on a node that exists.  The lists hold "Entries that can
\* be freed at current epoch + 1" (struct qsbr_global), but a node is put there
\* when head has passed it, and tail may still point to it.
PushIsSafe == \A w \in Workers : pc[w] = "link" => freed[at[w]] = 0
=============================================================================
