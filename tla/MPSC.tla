--------------------------------- MODULE MPSC ---------------------------------
(***************************************************************************)
(* The unbounded lock-free multiple-producer single-consumer queue of      *)
(* mpsc/mpsc.c: queue_push, queue_has_front, queue_front and queue_pop,    *)
(* driven as in stress_test (with a queue_front before every queue_pop).   *)
(*                                                                         *)
(* A node is named by the value it carries; it is never used again after   *)
(* it was freed.                                                           *)
(***************************************************************************)
EXTENDS Naturals, Sequences, FiniteSets

CONSTANTS
    Producers,
    Total,      \* THREAD_COUNT: values 1 .. Total are pushed
    Null

Values == 1 .. Total

VARIABLES
    head, tail, next,   \* the queue; next is a field of each node
    freed,              \* nodes given to free()
    producer_count,     \* the next value to push, shared by the producers
    ppc, new, prev,     \* a producer: its node and the tail it replaced
    pc, popped, data,   \* the consumer; data: what queue_front copied
    pushed, consumed    \* histories: values in the order of the exchanges of
                        \* tail, and in the order in which they were popped

vars == <<head, tail, next, freed, producer_count, ppc, new, prev, pc, popped, data,
          pushed, consumed>>
prod == <<producer_count, ppc, new, prev, pushed>>
cons == <<pc, popped, data, consumed>>

\* queue_create.
Init ==
    /\ head = Null /\ tail = Null
    /\ next = [v \in Values |-> Null]
    /\ freed = {}
    /\ producer_count = 1
    /\ ppc = [p \in Producers |-> "idle"]
    /\ new = [p \in Producers |-> Null] /\ prev = [p \in Producers |-> Null]
    /\ pc = "idle" /\ popped = Null /\ data = Null
    /\ pushed = << >> /\ consumed = << >>

-----------------------------------------------------------------------------
(* test_producer and queue_push *)

PGoto(p, from, to) == ppc[p] = from /\ ppc' = [ppc EXCEPT ![p] = to]

NextValue(p) ==
    /\ producer_count <= Total
    /\ PGoto(p, "idle", "exchange")
    /\ new' = [new EXCEPT ![p] = producer_count]
    /\ producer_count' = producer_count + 1
    /\ UNCHANGED <<head, tail, next, freed, prev, pushed, cons>>

ExchangeTail(p) ==
    /\ PGoto(p, "exchange", "link")
    /\ prev' = [prev EXCEPT ![p] = tail]
    /\ tail' = new[p]
    /\ pushed' = Append(pushed, new[p])
    /\ UNCHANGED <<head, next, freed, producer_count, new, cons>>

\* Mutant: every new node becomes the head.
LinkNode_AlwaysHead(p) ==
    /\ PGoto(p, "link", "idle")
    /\ head' = new[p]
    /\ next' = IF prev[p] = Null THEN next ELSE [next EXCEPT ![prev[p]] = new[p]]
    /\ UNCHANGED <<tail, freed, producer_count, new, prev, pushed, cons>>

\* Behind the old tail, or as the head of an empty queue.
LinkNode(p) ==
    /\ PGoto(p, "link", "idle")
    /\ \/ prev[p] # Null /\ next' = [next EXCEPT ![prev[p]] = new[p]] /\ UNCHANGED head
       \/ prev[p] = Null /\ head' = new[p] /\ UNCHANGED next
    /\ UNCHANGED <<tail, freed, producer_count, new, prev, pushed, cons>>

-----------------------------------------------------------------------------
(* test_consumer with queue_has_front and queue_front, and queue_pop *)

CGoto(from, to) == pc = from /\ pc' = to

HasFront ==
    /\ Len(consumed) < Total
    /\ CGoto("idle", IF head = Null THEN "idle" ELSE "front")
    /\ UNCHANGED <<head, tail, next, freed, prod, popped, data, consumed>>

Front ==
    /\ CGoto("front", "pop")
    /\ data' = head
    /\ UNCHANGED <<head, tail, next, freed, prod, popped, consumed>>

\* Mutant: pops the newest node.
PopHead_Tail ==
    /\ CGoto("pop", "cas_tail")
    /\ popped' = tail
    /\ UNCHANGED <<head, tail, next, freed, prod, data, consumed>>

PopHead ==
    /\ CGoto("pop", "cas_tail")
    /\ popped' = head
    /\ UNCHANGED <<head, tail, next, freed, prod, data, consumed>>

\* Mutant: tail keeps the node that is popped.
CasTail_Keep ==
    /\ CGoto("cas_tail", IF tail = popped THEN "cas_head" ELSE "next")
    /\ UNCHANGED <<head, tail, next, freed, prod, popped, data, consumed>>

\* The only node: take it out of tail, then out of head; a push in between has
\* already put its node into head.
CasTail ==
    /\ CGoto("cas_tail", IF tail = popped THEN "cas_head" ELSE "next")
    /\ tail' = IF tail = popped THEN Null ELSE tail
    /\ UNCHANGED <<head, next, freed, prod, popped, data, consumed>>

\* Mutant: a store instead of the compare-and-exchange.
CasHead_Store ==
    /\ CGoto("cas_head", "free")
    /\ head' = Null
    /\ UNCHANGED <<tail, next, freed, prod, popped, data, consumed>>

CasHead ==
    /\ CGoto("cas_head", "free")
    /\ head' = IF head = popped THEN Null ELSE head
    /\ UNCHANGED <<tail, next, freed, prod, popped, data, consumed>>

\* Spin until the push behind popped has linked its node.
NextHead ==
    /\ CGoto("next", "free")
    /\ next[popped] # Null
    /\ head' = next[popped]
    /\ UNCHANGED <<tail, next, freed, prod, popped, data, consumed>>

FreePopped ==
    /\ CGoto("free", "idle")
    /\ freed' = freed \cup {popped}
    /\ consumed' = Append(consumed, data)
    /\ UNCHANGED <<head, tail, next, prod, popped, data>>

-----------------------------------------------------------------------------
Producer(p) == NextValue(p) \/ ExchangeTail(p) \/ LinkNode(p)
Consumer == HasFront \/ Front \/ PopHead \/ CasTail \/ CasHead \/ NextHead \/ FreePopped

Next == (\E p \in Producers : Producer(p)) \/ Consumer

Spec == Init /\ [][Next]_vars

\* The scheduler runs every thread.
Fairness == WF_vars(Consumer) /\ \A p \in Producers : WF_vars(Producer(p))
FairSpec == Spec /\ Fairness

-----------------------------------------------------------------------------
TypeOK ==
    /\ head \in Values \cup {Null} /\ tail \in Values \cup {Null}
    /\ next \in [Values -> Values \cup {Null}]
    /\ freed \in SUBSET Values
    /\ popped \in Values \cup {Null} /\ data \in Values \cup {Null}

\* First in, first out: values come out in the order in which their pushes
\* exchanged tail, without loss or duplicate.
Fifo ==
    /\ Len(consumed) <= Len(pushed)
    /\ \A k \in 1 .. Len(consumed) : consumed[k] = pushed[k]

\* Neither head, tail nor a push that has still to link refers to a freed node.
NoUseAfterFree ==
    /\ head \notin freed /\ tail \notin freed
    /\ \A p \in Producers : ppc[p] = "link" => prev[p] \notin freed
    /\ pc \in {"cas_tail", "cas_head", "next", "free"} => popped \notin freed

\* queue_pop takes out the node that queue_front has read, and the final assert
\* of stress_test: when everything is consumed, the queue is empty again.
EmptyAtTheEnd ==
    /\ pc = "free" => popped = data
    /\ Len(consumed) = Total => head = Null /\ tail = Null

AllPopped == Len(consumed) = Total

\* Every value is consumed: the consumer does not spin for ever on a node that
\* nobody links.
AllConsumed == <>AllPopped
=============================================================================
