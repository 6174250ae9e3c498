--------------------------------- MODULE SPMC ---------------------------------
(***************************************************************************)
(* The lock-free single-producer multiple-consumer queue of spmc/spmc.c: a *)
(* circular list of ring buffers, each twice the size of the one before.   *)
(* The producer writes into curr_enqueue, inserts a new buffer when that   *)
(* is full and the next one is being read; consumers read curr_dequeue and *)
(* move it on when its buffer is used up.                                  *)
(*                                                                         *)
(* One action per access to shared memory.  Buffers are named in the order *)
(* of their allocation.                                                    *)
(***************************************************************************)
EXTENDS Naturals, FiniteSets, Sequences

CONSTANTS
    Consumers,
    Items,          \* the producer enqueues 1 .. Items
    InitialPower,   \* initial_cap of spmc_new
    MaxNodes        \* bound: buffers that can be allocated

Nodes  == 0 .. MaxNodes - 1
Cap(n) == 2 ^ (InitialPower + n)

VARIABLES
    curr_enqueue, curr_dequeue,
    nodes,                  \* buffers allocated so far
    front, back, next, buf, \* the fields of each buffer
    ppc, item, pnode, pidx, pnext,  \* the producer
    pc, node, idx, to, slot,        \* the consumers
    observed                \* history: what each consumer received, in order

shared == <<curr_enqueue, curr_dequeue, nodes, front, back, next, buf>>
prod   == <<ppc, item, pnode, pidx, pnext>>
cons   == <<pc, node, idx, to, slot, observed>>
vars   == <<shared, prod, cons>>

\* spmc_new.
Init ==
    /\ curr_enqueue = 0 /\ curr_dequeue = 0
    /\ nodes = 1
    /\ front = [n \in Nodes |-> 0] /\ back = [n \in Nodes |-> 0]
    /\ next = [n \in Nodes |-> 0]
    /\ buf = [n \in Nodes |-> [i \in 0 .. Cap(n) - 1 |-> 0]]
    /\ ppc = "idle" /\ item = 1
    /\ pnode = 0 /\ pidx = 0 /\ pnext = 0
    /\ pc = [c \in Consumers |-> "idle"]
    /\ node = [c \in Consumers |-> 0] /\ idx = [c \in Consumers |-> 0]
    /\ to = [c \in Consumers |-> 0] /\ slot = [c \in Consumers |-> 0]
    /\ observed = [c \in Consumers |-> << >>]

IndexOf(i, n) == i % Cap(n)

-----------------------------------------------------------------------------
(* spmc_enqueue *)

PGoto(from, where) == ppc = from /\ ppc' = where

EnqueueCall ==
    /\ item <= Items
    /\ PGoto("idle", "back")
    /\ pnode' = curr_enqueue
    /\ UNCHANGED <<shared, item, pidx, pnext, cons>>

LoadBack ==
    /\ PGoto("back", "writable")
    /\ pidx' = back[pnode]
    /\ UNCHANGED <<shared, item, pnode, pnext, cons>>

\* Mutant: one slot too many.
CheckWritable_OffByOne ==
    /\ PGoto("writable", IF pidx - front[pnode] <= Cap(pnode) THEN "write" ELSE "full")
    /\ pnext' = next[pnode]
    /\ UNCHANGED <<shared, item, pnode, pidx, cons>>

\* IS_WRITABLE, and node->next when it is not.
CheckWritable ==
    /\ PGoto("writable", IF pidx - front[pnode] < Cap(pnode) THEN "write" ELSE "full")
    /\ pnext' = next[pnode]
    /\ UNCHANGED <<shared, item, pnode, pidx, cons>>

\* Move to the next buffer, unless it is the one being read.
MoveOn ==
    /\ pnext # curr_dequeue
    /\ PGoto("full", "back")
    /\ pnode' = pnext
    /\ UNCHANGED <<shared, item, pidx, pnext, cons>>

\* Mutant: the full buffer is not linked to the new one.
Insert_NoLink ==
    /\ pnext = curr_dequeue
    /\ nodes < MaxNodes
    /\ PGoto("full", "write")
    /\ nodes' = nodes + 1
    /\ next' = [next EXCEPT ![nodes] = pnext]
    /\ pidx' = 0
    /\ pnode' = nodes
    /\ UNCHANGED <<curr_enqueue, curr_dequeue, front, back, buf, item, pnext, cons>>

\* Otherwise insert a new one.
Insert ==
    /\ pnext = curr_dequeue
    /\ nodes < MaxNodes
    /\ PGoto("full", "write")
    /\ nodes' = nodes + 1
    /\ next' = [next EXCEPT ![nodes] = pnext, ![pnode] = nodes]
    /\ pidx' = 0
    /\ pnode' = nodes
    /\ UNCHANGED <<curr_enqueue, curr_dequeue, front, back, buf, item, pnext, cons>>

WriteSlot ==
    /\ PGoto("write", "setcurr")
    /\ buf' = [buf EXCEPT ![pnode][IndexOf(pidx, pnode)] = item]
    /\ UNCHANGED <<curr_enqueue, curr_dequeue, nodes, front, back, next, item, pnode, pidx,
                   pnext, cons>>

SetCurrEnqueue ==
    /\ PGoto("setcurr", "publish")
    /\ curr_enqueue' = pnode
    /\ UNCHANGED <<curr_dequeue, nodes, front, back, next, buf, item, pnode, pidx, pnext, cons>>

PublishBack ==
    /\ PGoto("publish", "idle")
    /\ back' = [back EXCEPT ![pnode] = @ + 1]
    /\ item' = item + 1
    /\ UNCHANGED <<curr_enqueue, curr_dequeue, nodes, front, next, buf, pnode, pidx, pnext, cons>>

-----------------------------------------------------------------------------
(* spmc_dequeue *)

CGoto(c, from, where) == pc[c] = from /\ pc' = [pc EXCEPT ![c] = where]

DequeueCall(c) ==
    /\ CGoto(c, "idle", "front")
    /\ node' = [node EXCEPT ![c] = curr_dequeue]
    /\ UNCHANGED <<shared, prod, idx, to, slot, observed>>

LoadFront(c) ==
    /\ CGoto(c, "front", "readable")
    /\ idx' = [idx EXCEPT ![c] = front[node[c]]]
    /\ UNCHANGED <<shared, prod, node, to, slot, observed>>

CheckReadable(c) ==
    /\ CGoto(c, "readable", IF back[node[c]] # idx[c] THEN "read" ELSE "empty")
    /\ UNCHANGED <<shared, prod, node, idx, to, slot, observed>>

\* The buffer is empty: is the producer somewhere else?
CheckEnqueue(c) ==
    /\ CGoto(c, "empty", IF node[c] # curr_enqueue THEN "next" ELSE "front")
    /\ UNCHANGED <<shared, prod, node, idx, to, slot, observed>>

LoadNext(c) ==
    /\ CGoto(c, "next", "move")
    /\ to' = [to EXCEPT ![c] = next[node[c]]]
    /\ UNCHANGED <<shared, prod, node, idx, slot, observed>>

\* The strong compare-and-exchange: a failure loads the current buffer.
MoveDequeue(c) ==
    /\ CGoto(c, "move", "front")
    /\ curr_dequeue' = IF curr_dequeue = node[c] THEN to[c] ELSE curr_dequeue
    /\ node' = [node EXCEPT ![c] = curr_dequeue]
    /\ UNCHANGED <<curr_enqueue, nodes, front, back, next, buf, prod, idx, to, slot, observed>>

ReadSlot(c) ==
    /\ CGoto(c, "read", "take")
    /\ slot' = [slot EXCEPT ![c] = buf[node[c]][IndexOf(idx[c], node[c])]]
    /\ UNCHANGED <<shared, prod, node, idx, to, observed>>

\* Mutant: a store instead of the compare-and-exchange.
Take_Store(c) ==
    /\ CGoto(c, "take", "idle")
    /\ front' = [front EXCEPT ![node[c]] = idx[c] + 1]
    /\ observed' = [observed EXCEPT ![c] = Append(@, slot[c])]
    /\ UNCHANGED <<curr_enqueue, curr_dequeue, nodes, back, next, buf, prod, node, idx, to, slot>>

Take(c) ==
    /\ front[node[c]] = idx[c]
    /\ CGoto(c, "take", "idle")
    /\ front' = [front EXCEPT ![node[c]] = @ + 1]
    /\ observed' = [observed EXCEPT ![c] = Append(@, slot[c])]
    /\ UNCHANGED <<curr_enqueue, curr_dequeue, nodes, back, next, buf, prod, node, idx, to, slot>>

\* The weak compare-and-exchange fails, for a reason or for none.
TakeFails(c) ==
    /\ CGoto(c, "take", "front")
    /\ UNCHANGED <<shared, prod, node, idx, to, slot, observed>>

-----------------------------------------------------------------------------
Producer ==
    \/ EnqueueCall \/ LoadBack \/ CheckWritable \/ MoveOn \/ Insert \/ WriteSlot
    \/ SetCurrEnqueue \/ PublishBack
Consumer(c) ==
    \/ DequeueCall(c) \/ LoadFront(c) \/ CheckReadable(c) \/ CheckEnqueue(c) \/ LoadNext(c)
    \/ MoveDequeue(c) \/ ReadSlot(c) \/ Take(c) \/ TakeFails(c)

Next == Producer \/ \E c \in Consumers : Consumer(c)

Spec == Init /\ [][Next]_vars

-----------------------------------------------------------------------------
TypeOK ==
    /\ curr_enqueue \in Nodes /\ curr_dequeue \in Nodes
    /\ nodes \in 1 .. MaxNodes
    /\ front \in [Nodes -> Nat] /\ back \in [Nodes -> Nat] /\ next \in [Nodes -> Nodes]
    /\ \A n \in Nodes : buf[n] \in [0 .. Cap(n) - 1 -> 0 .. Items]
    /\ slot \in [Consumers -> 0 .. Items]

Times(v) ==
    Cardinality({p \in Consumers \X (1 .. Items) :
                    p[2] <= Len(observed[p[1]]) /\ observed[p[1]][p[2]] = v})

Unread(n) == {i \in 0 .. Items : front[n] <= i /\ i < back[n]}

InBuffers(v) ==
    Cardinality({p \in (0 .. nodes - 1) \X (0 .. Items) :
                    p[2] \in Unread(p[1]) /\ buf[p[1]][IndexOf(p[2], p[1])] = v})

\* Nothing is lost, overwritten before it is read, or "Consumed twice!": every
\* item enqueued so far is either unread in exactly one slot of one buffer, or
\* was received by exactly one consumer.
ItemsConserved ==
    \A v \in 1 .. Items : Times(v) + InBuffers(v) = IF v < item THEN 1 ELSE 0

\* A consumer about to take a slot whose turn it still is holds its value: the
\* producer has not reused the slot since it was read.
ReadIsCurrent ==
    \A c \in Consumers : pc[c] = "take" /\ front[node[c]] = idx[c] =>
        slot[c] = buf[node[c]][IndexOf(idx[c], node[c])] /\ idx[c] < back[node[c]]

\* The buffers stay one circle: from every one, next leads to all the others.
OneCircle ==
    LET step[k \in 0 .. MaxNodes] == IF k = 0 THEN 0 ELSE next[step[k - 1]]
    IN  {step[k] : k \in 0 .. nodes - 1} = 0 .. nodes - 1 /\ step[nodes] = 0

\* What the test reports as "bad order!": every consumer sees the items in the
\* order in which they were enqueued.
InOrder ==
    \A c \in Consumers : \A i, j \in 1 .. Len(observed[c]) :
        i < j => observed[c][i] < observed[c][j]
=============================================================================
