------------------------------- MODULE WSDeque -------------------------------
(***************************************************************************)
(* The work-stealing deque of work-steal/work-steal.c: push and take by    *)
(* the owner at the bottom, steal by other threads at the top, and the     *)
(* array that doubles when it is full (old arrays are never freed).        *)
(*                                                                         *)
(* One action per access to memory that another thread writes.  top and    *)
(* bottom are size_t: arithmetic is modulo Wrap.  As in main, the owner    *)
(* pushes before it takes for the first time; after that pushes and takes  *)
(* come in any order.                                                      *)
(***************************************************************************)
EXTENDS Naturals, FiniteSets

CONSTANTS
    Thieves,
    Items,      \* the owner pushes 1 .. Items
    Size,       \* size_hint of init
    MaxArrays,  \* bound: arrays that are allocated
    MaxSteals,  \* bound: calls of steal per thief
    Wrap,       \* 2^64 in the code; larger than any index here
    EMPTY       \* the pointer that is returned when there is no item

Garbage == 0        \* what an uninitialised slot holds

Arrays == 0 .. MaxArrays - 1
SizeOf(a) == Size * 2 ^ a

VARIABLES
    top, bottom, array,
    buffer,             \* the slots of each array
    pc, item, b, t, x,  \* the owner; item is the next one to push
    tpc, tt, ta, tx,    \* the thieves: top, array, and the item read
    steals,
    taken               \* history: how often each item was obtained

vars  == <<top, bottom, array, buffer, pc, item, b, t, x, tpc, tt, ta, tx, steals, taken>>
owner == <<pc, item, b, t, x>>
thief == <<tpc, tt, ta, tx, steals>>

Init ==
    /\ top = 0 /\ bottom = 0 /\ array = 0
    /\ buffer = [a \in Arrays |-> [i \in 0 .. SizeOf(a) - 1 |-> Garbage]]
    /\ pc = "idle" /\ item = 1 /\ b = 0 /\ t = 0 /\ x = EMPTY
    /\ tpc = [h \in Thieves |-> "idle"]
    /\ tt = [h \in Thieves |-> 0]
    /\ ta = [h \in Thieves |-> 0]
    /\ tx = [h \in Thieves |-> EMPTY]
    /\ steals = [h \in Thieves |-> 0]
    /\ taken = [v \in Garbage .. Items |-> 0]

Slot(a, i) == buffer[a][i % SizeOf(a)]
Goto(from, to) == pc = from /\ pc' = to
Obtain(v) == taken' = [taken EXCEPT ![v] = @ + 1]

\* The threads start after the first push.
Started == item > 1

-----------------------------------------------------------------------------
(* push, with resize *)

PushLoad ==
    /\ item <= Items
    /\ Goto("idle", "pushcheck")
    /\ b' = bottom
    /\ t' = top
    /\ UNCHANGED <<top, bottom, array, buffer, item, x, thief, taken>>

\* Mutant: the copy leaves out the oldest element.
PushCheck_SkipTop ==
    /\ Goto("pushcheck", "pushwrite")
    /\ IF (b + Wrap - t) % Wrap > SizeOf(array) - 1
       THEN /\ array + 1 \in Arrays
            /\ array' = array + 1
            /\ buffer' = [buffer EXCEPT ![array + 1] =
                  [i \in 0 .. SizeOf(array + 1) - 1 |->
                     IF \E k \in top + 1 .. b - 1 : k % SizeOf(array + 1) = i
                     THEN Slot(array, CHOOSE k \in top + 1 .. b - 1 : k % SizeOf(array + 1) = i)
                     ELSE Garbage]]
       ELSE UNCHANGED <<array, buffer>>
    /\ UNCHANGED <<top, bottom, item, b, t, x, thief, taken>>

\* A full array is copied, from the top as it is now, into one twice as large.
PushCheck ==
    /\ Goto("pushcheck", "pushwrite")
    /\ IF (b + Wrap - t) % Wrap > SizeOf(array) - 1
       THEN /\ array + 1 \in Arrays
            /\ array' = array + 1
            /\ buffer' = [buffer EXCEPT ![array + 1] =
                  [i \in 0 .. SizeOf(array + 1) - 1 |->
                     IF \E k \in top .. b - 1 : k % SizeOf(array + 1) = i
                     THEN Slot(array, CHOOSE k \in top .. b - 1 : k % SizeOf(array + 1) = i)
                     ELSE Garbage]]
       ELSE UNCHANGED <<array, buffer>>
    /\ UNCHANGED <<top, bottom, item, b, t, x, thief, taken>>

PushWrite ==
    /\ Goto("pushwrite", "pushbottom")
    /\ buffer' = [buffer EXCEPT ![array][b % SizeOf(array)] = item]
    /\ UNCHANGED <<top, bottom, array, item, b, t, x, thief, taken>>

PushBottom ==
    /\ Goto("pushbottom", "idle")
    /\ bottom' = b + 1
    /\ item' = item + 1
    /\ UNCHANGED <<top, array, buffer, b, t, x, thief, taken>>

-----------------------------------------------------------------------------
(* take *)

TakeBottom ==
    /\ Started
    /\ Goto("idle", "taketop")
    /\ b' = (bottom + Wrap - 1) % Wrap
    /\ bottom' = b'
    /\ UNCHANGED <<top, array, buffer, item, t, x, thief, taken>>

\* Load top: more than one element, the last one, or none.
TakeTop ==
    /\ t' = top
    /\ \/ /\ top < b
          /\ Goto("taketop", "idle")
          /\ x' = Slot(array, b)
          /\ Obtain(x')
       \/ /\ top = b
          /\ Goto("taketop", "takecas")
          /\ x' = Slot(array, b)
          /\ UNCHANGED taken
       \/ /\ top > b
          /\ Goto("taketop", "restore")
          /\ x' = EMPTY
          /\ UNCHANGED taken
    /\ UNCHANGED <<top, bottom, array, buffer, item, b, thief>>

\* Mutant: takes the last element without a race.
TakeCas_NoRace ==
    /\ Goto("takecas", "restore")
    /\ top' = t + 1 /\ Obtain(x)
    /\ UNCHANGED <<bottom, array, buffer, item, b, t, x, thief>>

\* The last element: race with the thieves.
TakeCas ==
    /\ Goto("takecas", "restore")
    /\ \/ top = t /\ top' = t + 1 /\ Obtain(x) /\ UNCHANGED x
       \/ top # t /\ x' = EMPTY /\ UNCHANGED <<top, taken>>
    /\ UNCHANGED <<bottom, array, buffer, item, b, t, thief>>

\* Mutant: bottom stays below top.
TakeRestore_Missing ==
    /\ Goto("restore", "idle")
    /\ UNCHANGED <<top, bottom, array, buffer, item, b, t, x, thief, taken>>

TakeRestore ==
    /\ Goto("restore", "idle")
    /\ bottom' = (b + 1) % Wrap
    /\ UNCHANGED <<top, array, buffer, item, b, t, x, thief, taken>>

-----------------------------------------------------------------------------
(* steal *)

TGoto(h, from, to) == tpc[h] = from /\ tpc' = [tpc EXCEPT ![h] = to]

StealTop(h) ==
    /\ Started
    /\ steals[h] < MaxSteals
    /\ TGoto(h, "idle", "bottom")
    /\ steals' = [steals EXCEPT ![h] = @ + 1]
    /\ tt' = [tt EXCEPT ![h] = top]
    /\ UNCHANGED <<top, bottom, array, buffer, owner, ta, tx, taken>>

StealBottom(h) ==
    /\ TGoto(h, "bottom", IF tt[h] < bottom THEN "array" ELSE "idle")
    /\ UNCHANGED <<top, bottom, array, buffer, owner, tt, ta, tx, steals, taken>>

StealArray(h) ==
    /\ TGoto(h, "array", "read")
    /\ ta' = [ta EXCEPT ![h] = array]
    /\ UNCHANGED <<top, bottom, array, buffer, owner, tt, tx, steals, taken>>

StealRead(h) ==
    /\ TGoto(h, "read", "cas")
    /\ tx' = [tx EXCEPT ![h] = Slot(ta[h], tt[h])]
    /\ UNCHANGED <<top, bottom, array, buffer, owner, tt, ta, steals, taken>>

\* ABORT when another thread was faster.
StealCas(h) ==
    /\ TGoto(h, "cas", "idle")
    /\ \/ top = tt[h] /\ top' = top + 1 /\ Obtain(tx[h])
       \/ top # tt[h] /\ UNCHANGED <<top, taken>>
    /\ UNCHANGED <<bottom, array, buffer, owner, tt, ta, tx, steals>>

-----------------------------------------------------------------------------
Owner ==
    \/ PushLoad \/ PushCheck \/ PushWrite \/ PushBottom
    \/ TakeBottom \/ TakeTop \/ TakeCas \/ TakeRestore
Thief(h) == StealTop(h) \/ StealBottom(h) \/ StealArray(h) \/ StealRead(h) \/ StealCas(h)

Next == Owner \/ \E h \in Thieves : Thief(h)

Spec == Init /\ [][Next]_vars

-----------------------------------------------------------------------------
TypeOK ==
    /\ top \in Nat /\ bottom \in 0 .. Wrap - 1 /\ array \in Arrays
    /\ \A a \in Arrays : buffer[a] \in [0 .. SizeOf(a) - 1 -> Garbage .. Items]
    /\ x \in (Garbage .. Items) \cup {EMPTY}
    /\ tx \in [Thieves -> (Garbage .. Items) \cup {EMPTY}]
    /\ taken \in [Garbage .. Items -> Nat]

\* No item is obtained twice, by the owner and a thief or by two thieves, and
\* nobody obtains a slot that was never written (through an old array, or
\* through an index that wrapped around).
ObtainedOnce == taken[Garbage] = 0 /\ \A v \in 1 .. Items : taken[v] <= 1

\* No item is lost, in a resize, in a failed race for the last element or in a
\* steal from an array that was replaced: between the owner's operations the
\* items pushed and not yet obtained are those between top and bottom.
NothingLost ==
    pc = "idle" =>
        {v \in 1 .. item - 1 : taken[v] = 0} = {Slot(array, i) : i \in top .. bottom - 1}

\* A thief whose compare-and-exchange would succeed has read the oldest item,
\* even if the owner has resized the array since.
StealSeesTop ==
    \A h \in Thieves : tpc[h] = "cas" /\ top = tt[h] => tx[h] = Slot(array, top)
=============================================================================
