------------------------------- MODULE HPList -------------------------------
(***************************************************************************)
(* hp_list/main.c: an ordered list whose nodes are protected by hazard      *)
(* pointers.  A node is deleted by marking its next pointer, and unlinked   *)
(* by whoever comes by; who unlinks it retires it, and frees it when no     *)
(* hazard pointer holds it.                                                 *)
(*                                                                          *)
(* A pointer with its mark bit is a record [ptr, mark].  List stands for    *)
(* list->head, which always points to the node HeadNode.  One action is one     *)
(* access to shared memory; clearing a thread's own hazard pointers is one, *)
(* too, since nothing is used after it.  Freed nodes are not allocated      *)
(* again: what is asked is whether a freed one is ever used.                *)
(***************************************************************************)
EXTENDS Integers, Sequences, FiniteSets

CONSTANTS
    Threads,    \* 1 .. n, as tid() numbers them
    Calls,      \* bound: list_insert and list_delete, of all threads
    Initial,    \* the keys in the list when the threads start
    Keys        \* keys, from 1 on

List == -1
HeadNode == 0
TailNode == 1
First == [k \in Initial |-> 1 + k]          \* the node of an initial key
New(i) == 1 + Cardinality(Keys) + i         \* what the i-th call allocates
Nodes  == 0 .. New(Calls)
Infinity == Cardinality(Keys) + 1           \* UINTPTR_MAX

HP_NEXT == 0
HP_CURR == 1
HP_PREV == 2
max_hps == 3

Ptr(p)    == [ptr |-> p, mark |-> FALSE]
Marked(p) == [ptr |-> p, mark |-> TRUE]

VARIABLES
    next, key, freed,       \* nodes; next[List] is list->head
    hp, rl,                 \* hazard pointers and retired nodes of each thread
    pc, op, k, calls,       \* control, the call and its argument
    node, prev, curr, nxt,  \* its locals; nxt is next of __list_find
    iret, at,               \* list_hp_retire: the object, and how many pointers were seen
    keys, lost, slipped     \* history (see below)

list    == <<next, key, freed>>
locals  == <<node, prev, curr, nxt>>
scan    == <<iret, at>>
call    == <<op, k, calls>>
history == <<keys, lost, slipped>>
vars    == <<list, hp, rl, pc, call, locals, scan, history>>

\* keys: what should be in the list; lost: keys whose insertion had no effect;
\* slipped: nodes that were freed while a hazard pointer held them.

TypeOK ==
    /\ next \in [Nodes \cup {List} -> [ptr : Nodes, mark : BOOLEAN]]
    /\ key \in [Nodes -> 0 .. Infinity] /\ freed \subseteq Nodes
    /\ hp \in [Threads -> [0 .. max_hps - 1 -> Nodes \cup {List}]]
    /\ \A t \in Threads : rl[t] \in Seq(Nodes) /\ iret[t] \in 1 .. Len(rl[t]) + 1
    /\ \A t \in Threads : curr[t].ptr \in Nodes /\ prev[t] \in Nodes \cup {List}
    /\ keys \subseteq Keys /\ lost \subseteq Keys

\* list_new, and the initial keys were inserted.  List is "no pointer" in hp.
Init ==
    LET chain(x) == {y \in Initial : y > x}
        after(x) == IF chain(x) = {} THEN TailNode
                    ELSE First[CHOOSE y \in chain(x) : \A z \in chain(x) : y <= z]
    IN  /\ next = [n \in Nodes \cup {List} |->
                     Ptr(IF n = List THEN HeadNode
                         ELSE IF n = HeadNode THEN after(0)
                         ELSE IF n - 1 \in Initial THEN after(n - 1) ELSE HeadNode)]
        /\ key = [n \in Nodes |-> IF n = TailNode THEN Infinity
                                  ELSE IF n - 1 \in Initial THEN n - 1 ELSE 0]
        /\ freed = {}
        /\ hp = [t \in Threads |-> [i \in 0 .. max_hps - 1 |-> List]]
        /\ rl = [t \in Threads |-> <<>>]
        /\ pc = [t \in Threads |-> "idle"] /\ op = [t \in Threads |-> "insert"]
        /\ k = [t \in Threads |-> 0] /\ calls = 0
        /\ node = [t \in Threads |-> HeadNode] /\ prev = [t \in Threads |-> List]
        /\ curr = [t \in Threads |-> Ptr(HeadNode)] /\ nxt = [t \in Threads |-> Ptr(HeadNode)]
        /\ iret = [t \in Threads |-> 1] /\ at = [t \in Threads |-> 0]
        /\ keys = Initial /\ lost = {} /\ slipped = {}

Goto(t, from, to) == pc[t] = from /\ pc' = [pc EXCEPT ![t] = to]

\* What a call leaves in its frame is not used again.
Return(t) ==
    /\ prev' = [prev EXCEPT ![t] = List] /\ curr' = [curr EXCEPT ![t] = Ptr(HeadNode)]
    /\ nxt' = [nxt EXCEPT ![t] = Ptr(HeadNode)] /\ node' = [node EXCEPT ![t] = HeadNode]
    /\ k' = [k EXCEPT ![t] = 0]

list_hp_clear(t) == hp' = [hp EXCEPT ![t] = [i \in 0 .. max_hps - 1 |-> List]]

-----------------------------------------------------------------------------
(* list_insert and list_delete are called.                                  *)

Call(t, o, x) ==
    /\ Goto(t, "idle", "find") /\ calls < Calls
    /\ op' = [op EXCEPT ![t] = o] /\ k' = [k EXCEPT ![t] = x]
    /\ calls' = calls + 1
    /\ IF o = "insert"
         THEN /\ node' = [node EXCEPT ![t] = New(calls')]
              /\ key' = [key EXCEPT ![New(calls')] = x]
         ELSE UNCHANGED <<node, key>>
    /\ UNCHANGED <<next, freed, hp, rl, prev, curr, nxt, scan, history>>

-----------------------------------------------------------------------------
(* __list_find.                                                             *)

\* try_again: list->head never changes, so the test of it does not fail.
TryAgain(t) ==
    /\ Goto(t, "find", "next")
    /\ prev' = [prev EXCEPT ![t] = List]
    /\ curr' = [curr EXCEPT ![t] = next[List]]
    /\ hp' = [hp EXCEPT ![t][HP_CURR] = next[List].ptr]
    /\ UNCHANGED <<list, rl, call, node, nxt, scan, history>>

LoadNext(t) ==
    /\ Goto(t, "next", "protect")
    /\ nxt' = [nxt EXCEPT ![t] = next[curr[t].ptr]]
    /\ UNCHANGED <<list, hp, rl, call, node, prev, curr, scan, history>>

ProtectNext(t) ==
    /\ Goto(t, "protect", "check")
    /\ hp' = [hp EXCEPT ![t][HP_NEXT] = nxt[t].ptr]
    /\ UNCHANGED <<list, rl, call, locals, scan, history>>

\* Mutant: the next pointer is not read again after it is protected.
CheckNext_Skipped(t) ==
    /\ Goto(t, "check", "prev")
    /\ UNCHANGED <<list, hp, rl, call, locals, scan, history>>

CheckNext(t) ==
    /\ Goto(t, "check", IF next[curr[t].ptr] # nxt[t] THEN "find" ELSE "prev")
    /\ UNCHANGED <<list, hp, rl, call, locals, scan, history>>

CheckPrev(t) ==
    /\ Goto(t, "prev", IF next[prev[t]] # Ptr(curr[t].ptr) THEN "find"
                       ELSE IF nxt[t].mark THEN "unlink" ELSE "compare")
    /\ UNCHANGED <<list, hp, rl, call, locals, scan, history>>

\* The key decides: go on, or return whether it was found.
Compare(t) ==
    LET x == key[curr[t].ptr] IN
    /\ Goto(t, "compare", IF x < k[t] THEN "move"
                          ELSE IF op[t] = "insert" THEN (IF x = k[t] THEN "exists" ELSE "link")
                          ELSE IF x = k[t] THEN "mark" ELSE "absent")
    /\ IF x < k[t]
         THEN /\ prev' = [prev EXCEPT ![t] = curr[t].ptr]
              /\ hp' = [hp EXCEPT ![t][HP_PREV] = curr[t].ptr]
         ELSE UNCHANGED <<prev, hp>>
    /\ UNCHANGED <<list, rl, call, node, curr, nxt, scan, history>>

\* Mutant: who fails to unlink a marked node retires it as well.
Unlink_Again(t) ==
    /\ Goto(t, "unlink", "scan")
    /\ IF next[prev[t]] = Ptr(curr[t].ptr)
         THEN next' = [next EXCEPT ![prev[t]] = Ptr(nxt[t].ptr)]
         ELSE UNCHANGED next
    /\ rl' = [rl EXCEPT ![t] = Append(@, curr[t].ptr)]
    /\ iret' = [iret EXCEPT ![t] = 1] /\ at' = [at EXCEPT ![t] = 0]
    /\ UNCHANGED <<key, freed, hp, call, locals, history>>

\* A marked node is unlinked and retired; on to its successor, whose pointer keeps the
\* mark it was read with.
Unlink(t) ==
    /\ pc[t] = "unlink"
    /\ IF next[prev[t]] = Ptr(curr[t].ptr)
         THEN /\ next' = [next EXCEPT ![prev[t]] = Ptr(nxt[t].ptr)]
              /\ rl' = [rl EXCEPT ![t] = Append(@, curr[t].ptr)]
              /\ iret' = [iret EXCEPT ![t] = 1] /\ at' = [at EXCEPT ![t] = 0]
              /\ Goto(t, "unlink", "scan")
         ELSE Goto(t, "unlink", "find") /\ UNCHANGED <<next, rl, scan>>
    /\ UNCHANGED <<key, freed, hp, call, locals, history>>

MoveCurr(t) ==
    /\ Goto(t, "move", "next")
    /\ curr' = [curr EXCEPT ![t] = nxt[t]]
    /\ hp' = [hp EXCEPT ![t][HP_CURR] = nxt[t].ptr]
    /\ UNCHANGED <<list, rl, call, node, prev, nxt, scan, history>>

-----------------------------------------------------------------------------
(* list_insert.                                                             *)

\* The key is there: the new node, which nobody has seen, is destroyed.
Exists(t) ==
    /\ Goto(t, "exists", "idle")
    /\ freed' = freed \cup {node[t]}
    /\ list_hp_clear(t) /\ Return(t)
    /\ UNCHANGED <<next, key, rl, op, calls, scan, history>>

\* node->next = curr, as it is, then the compare-and-exchange.
Link(t) ==
    /\ pc[t] = "link"
    /\ IF next[prev[t]] = Ptr(curr[t].ptr)
         THEN /\ next' = [next EXCEPT ![prev[t]] = Ptr(node[t]), ![node[t]] = curr[t]]
              /\ keys' = keys \cup {k[t]}
              /\ lost' = IF curr[t].mark THEN lost \cup {k[t]} ELSE lost \ {k[t]}
              /\ Goto(t, "link", "idle")
              /\ list_hp_clear(t) /\ Return(t)
         ELSE /\ Goto(t, "link", "find")
              /\ UNCHANGED <<next, hp, k, locals, keys, lost>>
    /\ UNCHANGED <<key, freed, rl, op, calls, scan, slipped>>

-----------------------------------------------------------------------------
(* list_delete.                                                             *)

Absent(t) ==
    /\ Goto(t, "absent", "idle")
    /\ list_hp_clear(t) /\ Return(t)
    /\ UNCHANGED <<list, rl, op, calls, scan, history>>

\* Mutant: the mark is stored without a comparison.
Mark_Store(t) ==
    /\ Goto(t, "mark", "remove")
    /\ next' = [next EXCEPT ![curr[t].ptr] = Marked(nxt[t].ptr)]
    /\ keys' = keys \ {k[t]} /\ lost' = lost \ {k[t]}
    /\ UNCHANGED <<key, freed, hp, rl, call, locals, scan, slipped>>

\* With a marked curr the compare-and-exchange is at an odd address and finds something
\* else there.
Mark(t) ==
    /\ pc[t] = "mark"
    /\ IF next[curr[t].ptr] = Ptr(nxt[t].ptr) /\ ~curr[t].mark
         THEN /\ next' = [next EXCEPT ![curr[t].ptr] = Marked(nxt[t].ptr)]
              /\ keys' = keys \ {k[t]} /\ lost' = lost \ {k[t]}
              /\ Goto(t, "mark", "remove")
         ELSE Goto(t, "mark", "find") /\ UNCHANGED <<next, keys, lost>>
    /\ UNCHANGED <<key, freed, hp, rl, call, locals, scan, slipped>>

Remove(t) ==
    /\ pc[t] = "remove"
    /\ list_hp_clear(t)
    /\ IF next[prev[t]] = Ptr(curr[t].ptr)
         THEN /\ next' = [next EXCEPT ![prev[t]] = Ptr(nxt[t].ptr)]
              /\ rl' = [rl EXCEPT ![t] = Append(@, curr[t].ptr)]
              /\ iret' = [iret EXCEPT ![t] = 1] /\ at' = [at EXCEPT ![t] = 0]
              /\ Goto(t, "remove", "final")
         ELSE Goto(t, "remove", "idle") /\ UNCHANGED <<next, rl, scan>>
    /\ Return(t)
    /\ UNCHANGED <<key, freed, op, calls, history>>

-----------------------------------------------------------------------------
(* list_hp_retire: the scan of the retired nodes, called from __list_find   *)
(* ("scan") or as the last thing of list_delete ("final").                  *)

\* The next hazard pointer that is read: thread by thread, from the highest index on.
Seen(t) == hp[at[t] \div max_hps + 1][max_hps - 1 - (at[t] % max_hps)]

Scanning(t) == pc[t] \in {"scan", "final"} /\ iret[t] <= Len(rl[t])

ScanLoad(t) ==
    /\ Scanning(t) /\ at[t] < max_hps * Cardinality(Threads)
    /\ IF Seen(t) = rl[t][iret[t]]
         THEN iret' = [iret EXCEPT ![t] = @ + 1] /\ at' = [at EXCEPT ![t] = 0]
         ELSE at' = [at EXCEPT ![t] = @ + 1] /\ UNCHANGED iret
    /\ UNCHANGED <<list, hp, rl, pc, call, locals, history>>

ScanDelete(t) ==
    LET obj == rl[t][iret[t]] IN
    /\ Scanning(t) /\ at[t] = max_hps * Cardinality(Threads)
    /\ rl' = [rl EXCEPT ![t] = SubSeq(@, 1, iret[t] - 1) \o SubSeq(@, iret[t] + 1, Len(@))]
    /\ freed' = freed \cup {obj}
    /\ slipped' = IF \E u \in Threads, i \in 0 .. max_hps - 1 : hp[u][i] = obj
                  THEN slipped \cup {obj} ELSE slipped
    /\ at' = [at EXCEPT ![t] = 0]
    /\ UNCHANGED <<next, key, hp, pc, call, locals, iret, keys, lost>>

ScanEnd(t) ==
    /\ pc[t] \in {"scan", "final"} /\ iret[t] > Len(rl[t])
    /\ pc' = [pc EXCEPT ![t] = IF pc[t] = "scan" THEN "move" ELSE "idle"]
    /\ iret' = [iret EXCEPT ![t] = 1]
    /\ UNCHANGED <<list, hp, rl, call, locals, at, history>>

Next ==
    \E t \in Threads :
        \/ \E o \in {"insert", "delete"}, x \in Keys : Call(t, o, x)
        \/ TryAgain(t) \/ LoadNext(t) \/ ProtectNext(t) \/ CheckNext(t) \/ CheckPrev(t)
        \/ Compare(t) \/ Unlink(t) \/ MoveCurr(t)
        \/ Exists(t) \/ Link(t) \/ Absent(t) \/ Mark(t) \/ Remove(t)
        \/ ScanLoad(t) \/ ScanDelete(t) \/ ScanEnd(t)

Spec == Init /\ [][Next]_vars

-----------------------------------------------------------------------------
\* The nodes from list->head on.
Linked ==
    LET step[n \in 0 .. Cardinality(Nodes)] ==
            IF n = 0 THEN {HeadNode}
            ELSE LET before == step[n - 1]
                 IN  before \cup {next[m].ptr : m \in before \ {TailNode}}
    IN  step[Cardinality(Nodes)]

\* The nodes that the next step of a thread reads or writes.
Used(t) ==
    CASE pc[t] \in {"next", "check", "compare", "mark"} -> {curr[t].ptr}
      [] pc[t] \in {"prev", "unlink", "link", "remove"} -> {prev[t]} \ {List}
      [] OTHER -> {}

\* "Hazard pointers are a mechanism for protecting objects in memory from being deleted
\* by other threads while in use" (main.c:2): no thread uses a node that was freed.
NoUseAfterFree == \A t \in Threads : Used(t) \cap freed = {}

\* A node is used after it was freed only if it was freed in spite of a hazard pointer
\* that held it: list_hp_retire reads HP_PREV, HP_CURR and HP_NEXT in this order while
\* __list_find moves a pointer the other way.
OnlySlippedAreUsed == \A t \in Threads : Used(t) \cap freed \subseteq slipped

\* While no such node was freed, the list is ordered, holds no freed node, and every
\* node that was unlinked is on exactly one retire list, or freed once.
NodesAreAccounted ==
    LET linked == Linked
        listed(n) == {t \in Threads : n \in {rl[t][i] : i \in DOMAIN rl[t]}}
    IN  slipped = {} =>
          /\ TailNode \in linked /\ linked \cap freed = {}
          /\ \A n \in linked \ {TailNode} : key[n] < key[next[n].ptr]
          /\ \A n \in Nodes : n \in freed \/ n \in linked => listed(n) = {}
          /\ \A n \in Nodes : next[n].mark /\ n \notin linked \cup freed =>
                 Cardinality(listed(n)) = 1

\* The unmarked nodes are the keys that were inserted and not deleted, through all races
\* of insertions and deletions of neighbours; only an insertion behind a marked
\* node may be lost: list_insert then links a node that counts as deleted.
ListIsExact ==
    slipped = {} => {key[n] : n \in {m \in Linked \ {HeadNode, TailNode} : ~next[m].mark}} = keys \ lost
=============================================================================
