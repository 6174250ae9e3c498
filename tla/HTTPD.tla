------------------------------- MODULE HTTPD -------------------------------
(***************************************************************************)
(* httpd/httpd.c: greeter threads accept connections and put them into a    *)
(* queue, worker threads take one, answer a request, and close it or put it *)
(* back.  The queue is a list with a dummy node, a lock for each end and a  *)
(* condition variable that is signalled under tail_lock and waited for      *)
(* under head_lock.                                                         *)
(*                                                                          *)
(* A step that holds a lock is one action up to the next access to memory   *)
(* that the other lock guards: head->next is written under tail_lock and    *)
(* read under head_lock.  A descriptor that was closed is given out again   *)
(* by accept.  A request is reduced to its protocol version, and an answer  *)
(* to its status.  q->size only feeds the receive timeout, and a receive    *)
(* may time out at any moment.                                              *)
(***************************************************************************)
EXTENDS Naturals, FiniteSets

CONSTANTS
    Greeters, Workers,
    FDs,            \* descriptors that accept may return
    MaxNodes,       \* bound: calls of enqueue
    Null

VARIABLES
    head, tail, next, fd_of,    \* the queue: q->head, q->tail, node->next, node->fd
    head_lock, tail_lock,       \* the thread that holds it, or Null
    allocated, freed,           \* nodes 0..allocated exist, 0 is the first dummy
    open,                       \* descriptors in use
    pc, connfd, node,           \* per thread: control, connfd, the node it links or frees
    version, status,            \* per worker: request->protocol_version, status
    asked,                      \* history: the version that the present request names
    missed                      \* history: a signal came between a test and its wait

queue == <<head, tail, next, fd_of, head_lock, tail_lock, allocated, freed>>
http  == <<version, status, asked>>
vars  == <<queue, open, pc, connfd, node, http, missed>>

Threads == Greeters \cup Workers
Nodes   == 0..MaxNodes
Statuses == {200, 400, 404, 408, 500}

TypeOK ==
    /\ head \in Nodes /\ tail \in Nodes /\ next \in [Nodes -> Nodes \cup {Null}]
    /\ fd_of \in [Nodes -> FDs \cup {Null}]
    /\ head_lock \in Workers \cup {Null} /\ tail_lock \in Threads \cup {Null}
    /\ allocated \in Nodes /\ freed \subseteq Nodes /\ open \subseteq FDs
    /\ pc \in [Threads -> {"accept", "enqueue", "signal", "dequeue", "wait", "asleep",
                           "free", "recv", "send"}]
    /\ connfd \in [Threads -> FDs \cup {Null}] /\ node \in [Threads -> Nodes \cup {Null}]
    /\ version \in [Workers -> 0..1] /\ status \in [Workers -> Statuses \cup {Null}]
    /\ asked \in [Workers -> 0..1 \cup {Null}] /\ missed \in BOOLEAN

\* queue_init, and main has started the threads.  A worker's request is malloc'ed and
\* its protocol_version is whatever is there.
Init ==
    /\ head = 0 /\ tail = 0 /\ next = [n \in Nodes |-> Null]
    /\ fd_of = [n \in Nodes |-> Null]
    /\ head_lock = Null /\ tail_lock = Null
    /\ allocated = 0 /\ freed = {} /\ open = {}
    /\ pc = [p \in Threads |-> IF p \in Greeters THEN "accept" ELSE "dequeue"]
    /\ connfd = [p \in Threads |-> Null] /\ node = [p \in Threads |-> Null]
    /\ version \in [Workers -> 0..1] /\ status = [w \in Workers |-> Null]
    /\ asked = [w \in Workers |-> Null] /\ missed = FALSE

Goto(p, l) == pc' = [pc EXCEPT ![p] = l]
Resume(p)  == IF p \in Greeters THEN "accept" ELSE "dequeue"

-----------------------------------------------------------------------------
\* greeter_routine: accept.
Accept(g, fd) ==
    /\ pc[g] = "accept" /\ fd \notin open
    /\ open' = open \cup {fd} /\ connfd' = [connfd EXCEPT ![g] = fd]
    /\ Goto(g, "enqueue")
    /\ UNCHANGED <<queue, node, http, missed>>

\* enqueue: a new node, tail_lock, q->tail->next = node.
Link(p) ==
    /\ pc[p] = "enqueue" /\ tail_lock = Null /\ allocated < MaxNodes
    /\ tail_lock' = p
    /\ allocated' = allocated + 1
    /\ fd_of' = [fd_of EXCEPT ![allocated + 1] = connfd[p]]
    /\ next' = [next EXCEPT ![tail] = allocated + 1]
    /\ node' = [node EXCEPT ![p] = allocated + 1]
    /\ Goto(p, "signal")
    /\ UNCHANGED <<head, tail, head_lock, freed, open, connfd, http, missed>>

\* Mutant: no signal if there was a connection in the queue already.
Signal_IfEmpty(p) ==
    LET sleepers == {w \in Workers : pc[w] = "asleep" /\ tail = head} IN
    /\ pc[p] = "signal"
    /\ tail' = node[p] /\ tail_lock' = Null
    /\ node' = [node EXCEPT ![p] = Null] /\ connfd' = [connfd EXCEPT ![p] = Null]
    /\ \/ \E w \in sleepers : pc' = [pc EXCEPT ![p] = Resume(p), ![w] = "dequeue"]
       \/ sleepers = {} /\ Goto(p, Resume(p))
    /\ missed' = (missed \/ (sleepers = {} /\ \E w \in Workers : pc[w] = "wait"))
    /\ UNCHANGED <<head, next, fd_of, head_lock, allocated, freed, open, http>>

\* q->tail = node, pthread_cond_signal, unlock: one sleeper wakes up, if there is one.
Signal(p) ==
    LET sleepers == {w \in Workers : pc[w] = "asleep"} IN
    /\ pc[p] = "signal"
    /\ tail' = node[p] /\ tail_lock' = Null
    /\ node' = [node EXCEPT ![p] = Null] /\ connfd' = [connfd EXCEPT ![p] = Null]
    /\ \/ \E w \in sleepers : pc' = [pc EXCEPT ![p] = Resume(p), ![w] = "dequeue"]
       \/ sleepers = {} /\ Goto(p, Resume(p))
    /\ missed' = (missed \/ (sleepers = {} /\ \E w \in Workers : pc[w] = "wait"))
    /\ UNCHANGED <<head, next, fd_of, head_lock, allocated, freed, open, http>>

\* Mutant: the node with the connection is freed instead of the old dummy.
Dequeue_FreeFirst(w) ==
    LET first == next[head] IN
    /\ pc[w] = "dequeue" /\ head_lock = Null
    /\ \/ /\ first = Null
          /\ head_lock' = w /\ Goto(w, "wait")
          /\ UNCHANGED <<head, connfd, node>>
       \/ /\ first # Null
          /\ connfd' = [connfd EXCEPT ![w] = fd_of[first]]
          /\ node' = [node EXCEPT ![w] = first] /\ head' = first
          /\ Goto(w, "free")
          /\ UNCHANGED head_lock
    /\ UNCHANGED <<tail, next, fd_of, tail_lock, allocated, freed, open, http, missed>>

\* dequeue: head_lock, and the test of the loop.  With an element in the queue the
\* rest needs nothing but head_lock; without one the thread is about to wait.
Dequeue(w) ==
    LET first == next[head] IN
    /\ pc[w] = "dequeue" /\ head_lock = Null
    /\ \/ /\ first = Null
          /\ head_lock' = w /\ Goto(w, "wait")
          /\ UNCHANGED <<head, connfd, node>>
       \/ /\ first # Null
          /\ connfd' = [connfd EXCEPT ![w] = fd_of[first]]
          /\ node' = [node EXCEPT ![w] = head] /\ head' = first
          /\ Goto(w, "free")
          /\ UNCHANGED head_lock
    /\ UNCHANGED <<tail, next, fd_of, tail_lock, allocated, freed, open, http, missed>>

\* pthread_cond_wait: gives head_lock back and sleeps in one step.
CondWait(w) ==
    /\ pc[w] = "wait"
    /\ head_lock' = Null /\ Goto(w, "asleep")
    /\ UNCHANGED <<head, tail, next, fd_of, tail_lock, allocated, freed, open, connfd, node,
                   http, missed>>

Spurious(w) ==
    /\ pc[w] = "asleep" /\ Goto(w, "dequeue")
    /\ UNCHANGED <<queue, open, connfd, node, http, missed>>

\* free(old_head), after the lock is released.
FreeOld(w) ==
    /\ pc[w] = "free"
    /\ freed' = freed \cup {node[w]} /\ node' = [node EXCEPT ![w] = Null]
    /\ Goto(w, "recv")
    /\ UNCHANGED <<head, tail, next, fd_of, head_lock, tail_lock, allocated, open, connfd,
                   http, missed>>

Close(w) ==
    /\ open' = open \ {connfd[w]} /\ connfd' = [connfd EXCEPT ![w] = Null]
    /\ Goto(w, "dequeue")

\* parse_request of a request that names version v: the method, the path and the
\* version are looked at in this order, and only the last one is stored.
parse_request(v, old) ==
    {[status |-> 200, version |-> v], [status |-> 400, version |-> old],
     [status |-> 404, version |-> old]}

\* worker_routine, receiving: the client has closed, a timeout or an error (the request
\* keeps what the one before has left in it), or a message to parse.
Recv(w) ==
    /\ pc[w] = "recv"
    /\ \/ Close(w) /\ UNCHANGED http
       \/ /\ \E v \in 0..1 : \E r \in parse_request(v, version[w]) \cup
                 {[status |-> s, version |-> version[w]] : s \in {408, 500}} :
               /\ status' = [status EXCEPT ![w] = r.status]
               /\ version' = [version EXCEPT ![w] = r.version]
               /\ asked' = [asked EXCEPT ![w] = IF r.status < 408 THEN v ELSE Null]
          /\ Goto(w, "send") /\ UNCHANGED <<open, connfd>>
    /\ UNCHANGED <<queue, node, missed>>

\* Mutant: a connection that was closed is put back, too.
Send_NoElse(w) ==
    /\ pc[w] = "send"
    /\ status' = [status EXCEPT ![w] = Null]
    /\ open' = IF version[w] = 0 \/ status[w] # 200 THEN open \ {connfd[w]} ELSE open
    /\ Goto(w, "enqueue")
    /\ UNCHANGED <<queue, connfd, node, version, asked, missed>>

\* Mutant: the status is not looked at.
Send_VersionOnly(w) ==
    /\ pc[w] = "send"
    /\ status' = [status EXCEPT ![w] = Null]
    /\ IF version[w] = 0
         THEN Close(w) /\ asked' = [asked EXCEPT ![w] = Null]
         ELSE Goto(w, "enqueue") /\ UNCHANGED <<open, connfd, asked>>
    /\ UNCHANGED <<queue, node, version, missed>>

\* The answer.  After HTTP/1.0 or an error the connection is closed, otherwise it goes
\* back into the queue.
Send(w) ==
    /\ pc[w] = "send"
    /\ status' = [status EXCEPT ![w] = Null]
    /\ IF version[w] = 0 \/ status[w] # 200
         THEN Close(w) /\ asked' = [asked EXCEPT ![w] = Null]
         ELSE Goto(w, "enqueue") /\ UNCHANGED <<open, connfd, asked>>
    /\ UNCHANGED <<queue, node, version, missed>>

Next ==
    \/ \E g \in Greeters, fd \in FDs : Accept(g, fd)
    \/ \E p \in Threads : Link(p) \/ Signal(p)
    \/ \E w \in Workers : \/ Dequeue(w) \/ CondWait(w) \/ Spurious(w)
                          \/ FreeOld(w) \/ Recv(w) \/ Send(w)

Spec == Init /\ [][Next]_vars

-----------------------------------------------------------------------------
\* The nodes from the dummy on: those in every set that holds it and follows next.
Closed(S) == \A n \in S : next[n] # Null => next[n] \in S
Reachable == {n \in Nodes : \A S \in SUBSET Nodes : head \in S /\ Closed(S) => n \in S}

Queued == Reachable \ {head}

Holding == {p \in Threads : connfd[p] # Null /\ pc[p] # "signal"}

\* Every open connection is in one place: once in the queue or with one thread.
\* Nobody holds a descriptor that was closed, which accept may have given to
\* another client meanwhile; no connection is lost between the two locks.
OneOwner ==
    /\ \A fd \in open : Cardinality({n \in Queued : fd_of[n] = fd})
                        + Cardinality({p \in Holding : connfd[p] = fd}) = 1
    /\ \A n \in Queued : fd_of[n] \in open
    /\ \A p \in Holding : connfd[p] \in open

\* enqueue and dequeue run at the same time on a queue of one node: the node behind
\* tail that is written next, and all that head leads to, are never freed ones.
QueueIsSafe ==
    /\ Reachable \cap freed = {}
    /\ tail_lock = Null => tail \notin freed /\ next[tail] = Null
    /\ \A v, w \in Workers : v # w /\ node[v] # Null => node[v] # node[w]

\* A connection is in the queue, its signal has been given, and no worker is on its
\* way to the queue.
Unattended ==
    /\ Queued # {}
    /\ \A p \in Threads : pc[p] \notin {"signal", "dequeue"}

\* The signal of enqueue is given without head_lock, so it may come after a worker
\* has found the queue empty and before it sleeps, and is lost.  With two workers or
\* more that never leaves a connection behind for good: the other one is awake (a
\* sleeper would have taken the signal) and looks at the queue before it sleeps.
NoConnectionStalls == Unattended => \E w \in Workers : pc[w] # "asleep"

\* That is the only way a wake-up gets lost.
LostOnlyBeforeWait == Unattended /\ (\E w \in Workers : pc[w] = "asleep") => missed

\* A worker keeps one http_request_t for all its requests, and one that cannot be
\* parsed leaves the version of an earlier client in it: a connection is kept alive
\* only after a good request that asked for HTTP/1.1 itself.
KeptAliveIfAsked == \A w \in Workers : pc[w] \in {"enqueue", "signal"} => asked[w] = 1
=============================================================================
