------------------------------ MODULE WorkSteal ------------------------------
(***************************************************************************)
(* The scheduler of work-steal/work-steal.c: every thread takes work from  *)
(* its own deque and steals when that is empty; a print_task decrements    *)
(* the join count of done_work, and the one that brings it to zero runs    *)
(* done_task, which frees done_work and sets the flag done.                *)
(*                                                                         *)
(* take and steal are atomic here (module WSDeque has them in detail): the *)
(* owner gets the newest item of its deque, a thief the oldest.  A steal   *)
(* that returns ABORT changes nothing and is repeated: a stuttering step.  *)
(***************************************************************************)
EXTENDS Naturals, Sequences, FiniteSets

CONSTANTS
    NThreads,       \* N_THREADS
    NPrints         \* nprints: items pushed for each thread

Thieves == 0 .. NThreads - 1
Tasks   == Thieves \X (1 .. NPrints)
NoWork    == <<>>

VARIABLES
    queue,          \* thread_queues, from top to bottom
    join_count,     \* of done_work
    done, freed,    \* the flag; done_work was freed
    pc, i,          \* control of a thread and its loop variable
    work,           \* the item a thread is running
    ran             \* history: how often each task was run

vars == <<queue, join_count, done, freed, pc, i, work, ran>>

Init ==
    /\ queue = [k \in Thieves |-> [j \in 1 .. NPrints |-> <<k, j>>]]
    /\ join_count = NThreads * NPrints
    /\ done = FALSE /\ freed = 0
    /\ pc = [k \in Thieves |-> "take"]
    /\ i = [k \in Thieves |-> 0]
    /\ work = [k \in Thieves |-> NoWork]
    /\ ran = [w \in Tasks |-> 0]

Goto(k, from, to) == pc[k] = from /\ pc' = [pc EXCEPT ![k] = to]

\* take on the own deque, else start looking at the others.
Take(k) ==
    LET q == queue[k] IN
    /\ \/ /\ q # << >>
          /\ Goto(k, "take", "print")
          /\ work' = [work EXCEPT ![k] = q[Len(q)]]
          /\ queue' = [queue EXCEPT ![k] = SubSeq(q, 1, Len(q) - 1)]
          /\ UNCHANGED i
       \/ /\ q = << >>
          /\ Goto(k, "take", "steal")
          /\ i' = [i EXCEPT ![k] = 0]
          /\ UNCHANGED <<work, queue>>
    /\ UNCHANGED <<join_count, done, freed, ran>>

\* The loop over the other threads' deques, in order.
Steal(k) ==
    /\ i[k] < NThreads
    /\ \/ /\ i[k] # k /\ queue[i[k]] # << >>
          /\ Goto(k, "steal", "print")
          /\ work' = [work EXCEPT ![k] = Head(queue[i[k]])]
          /\ queue' = [queue EXCEPT ![i[k]] = Tail(@)]
          /\ UNCHANGED i
       \/ /\ i[k] = k \/ queue[i[k]] = << >>
          /\ Goto(k, "steal", "steal")
          /\ i' = [i EXCEPT ![k] = @ + 1]
          /\ UNCHANGED <<work, queue>>
    /\ UNCHANGED <<join_count, done, freed, ran>>

\* Mutant: leaves as soon as nothing is found.
CheckDone_NoFlag(k) ==
    /\ i[k] = NThreads
    /\ Goto(k, "steal", "exit")
    /\ UNCHANGED <<queue, join_count, done, freed, i, work, ran>>

\* Nothing found anywhere: leave if done, else look again.
CheckDone(k) ==
    /\ i[k] = NThreads
    /\ Goto(k, "steal", IF done THEN "exit" ELSE "take")
    /\ UNCHANGED <<queue, join_count, done, freed, i, work, ran>>

\* print_task up to join_work.
PrintTask(k) ==
    /\ Goto(k, "print", "join")
    /\ ran' = [ran EXCEPT ![work[k]] = @ + 1]
    /\ UNCHANGED <<queue, join_count, done, freed, i, work>>

\* Mutant: tests the count after the subtraction for one.
JoinWork_Early(k) ==
    /\ Goto(k, "join", IF join_count - 1 = 1 THEN "donetask" ELSE "take")
    /\ join_count' = join_count - 1
    /\ work' = [work EXCEPT ![k] = NoWork]
    /\ UNCHANGED <<queue, done, freed, i, ran>>

\* join_work: whoever finds 1 continues with done_work.
JoinWork(k) ==
    /\ Goto(k, "join", IF join_count = 1 THEN "donetask" ELSE "take")
    /\ join_count' = join_count - 1
    /\ work' = [work EXCEPT ![k] = NoWork]
    /\ UNCHANGED <<queue, done, freed, i, ran>>

\* done_task: free(w), then the flag.
DoneFree(k) ==
    /\ Goto(k, "donetask", "setdone")
    /\ freed' = freed + 1
    /\ UNCHANGED <<queue, join_count, done, i, work, ran>>

DoneSet(k) ==
    /\ Goto(k, "setdone", "take")
    /\ done' = TRUE
    /\ UNCHANGED <<queue, join_count, freed, i, work, ran>>

Step(k) ==
    \/ Take(k) \/ Steal(k) \/ CheckDone(k) \/ PrintTask(k) \/ JoinWork(k)
    \/ DoneFree(k) \/ DoneSet(k)

Next == \E k \in Thieves : Step(k)

Spec == Init /\ [][Next]_vars

\* The scheduler runs every thread.
Fairness == \A k \in Thieves : WF_vars(Step(k))
FairSpec == Spec /\ Fairness

-----------------------------------------------------------------------------
TypeOK ==
    /\ queue \in [Thieves -> Seq(Tasks)]
    /\ join_count \in 0 .. NThreads * NPrints
    /\ done \in BOOLEAN /\ freed \in Nat
    /\ i \in [Thieves -> 0 .. NThreads]
    /\ work \in [Thieves -> Tasks \cup {NoWork}]
    /\ ran \in [Tasks -> Nat]

\* done_work is run once, after every print_task has run, and is not touched
\* (by join_work) after it was freed.
DoneIsLast ==
    (freed > 0 \/ done) =>
        /\ freed = 1
        /\ \A w \in Tasks : ran[w] = 1
        /\ \A k \in Thieves : pc[k] \notin {"print", "join", "donetask"}

\* No thread leaves while there is work: it leaves only when every task is run.
LeaveWhenAllRan ==
    \A k \in Thieves : pc[k] = "exit" => \A w \in Tasks : ran[w] = 1

\* pthread_join of every thread returns.
AllExit == <>(\A k \in Thieves : pc[k] = "exit")
=============================================================================
