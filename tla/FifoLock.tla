------------------------------ MODULE FifoLock ------------------------------
(***************************************************************************)
(* What a queue lock promises: threads stand in one line, in the order in  *)
(* which they arrived, and only the thread at place 1 owns the lock.       *)
(*                                                                         *)
(* place[t] is 0 when t is not in line and otherwise its place, the owner  *)
(* being at place 1.  mcslock/mcslock.c is shown to implement this in      *)
(* module MCSLock.                                                         *)
(***************************************************************************)
EXTENDS Naturals

CONSTANT Threads

VARIABLE place

Init == place = [t \in Threads |-> 0]

\* Nobody is in line: the newcomer owns the lock at once.
ArriveFirst(t) ==
    /\ \A u \in Threads : place[u] = 0
    /\ place' = [place EXCEPT ![t] = 1]

\* The newcomer stands behind u, the last one in line.
ArriveBehind(t, u) ==
    /\ place[t] = 0
    /\ place[u] > 0
    /\ \A v \in Threads : place[v] <= place[u]
    /\ place' = [place EXCEPT ![t] = place[u] + 1]

\* The owner leaves and everybody moves up by one place.
MoveUp(pl) == [u \in Threads |-> IF pl[u] = 0 THEN 0 ELSE pl[u] - 1]

Leave(t) ==
    /\ place[t] = 1
    /\ place' = MoveUp(place)

Next ==
    \E t \in Threads :
        \/ ArriveFirst(t)
        \/ \E u \in Threads : ArriveBehind(t, u)
        \/ Leave(t)

Spec == Init /\ [][Next]_place
=============================================================================
