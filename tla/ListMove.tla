------------------------------ MODULE ListMove ------------------------------
(***************************************************************************)
(* list-move/lockfree.c: moving a key between two sorted lists, where every *)
(* next pointer has versions.                                               *)
(*                                                                          *)
(* A move reads one version of both lists, adds a slot with the new pointer *)
(* to each of three nodes, and commits by linking its record to the chain   *)
(* of records.  The number of a record, its epoch, is stored after that, by *)
(* its thread or by one that comes along; it makes the three slots visible  *)
(* at once.  A record that meets one of its nodes in a later record fails.  *)
(*                                                                          *)
(* The chain of rec_next is a sequence, and a pointer into it an index.  A  *)
(* thread makes fewer than QSBR_PERIOD moves, so that it never passes a     *)
(* quiescent state: what is given to qsbr_free_ptr is collected and stays.  *)
(* read_slot is one step: it reads a list of slots that does not change     *)
(* below the first one, and epochs that are stored once.                    *)
(***************************************************************************)
EXTENDS Integers, Sequences, SequencesExt, FiniteSetsExt

CONSTANTS
    Threads,
    NKeys,          \* value_range, even; the lists begin with every second key
    Moves,          \* bound: the <<key, from>> that each thread may draw, see bench_thread
    Calls,          \* bound: calls of list_move for each thread, below QSBR_PERIOD
    MaxRecs,        \* bound: records of each thread, enough for all retries
    NULL

VARIABLES
    \* struct lf_list_record, struct lf_list_slot
    chain,          \* the records from committed_rec, by rec_next
    rec_epoch,      \* record -> epoch
    nodes,          \* record -> nodes[], of length count
    slot_epoch,     \* record -> epoch of its slots
    slots,          \* node -> its slots from the newest, as <<rec, next>>
    \* struct lf_list_pthread_data
    rec, epoch, new_rec, count,
    retired,        \* the slots and the records given to qsbr_free_ptr
    \* the locals
    pc, key, from, prev_src, cur, next_src, prev_dst, next_dst, it_rec, it_epoch,
    \* history
    misnumbered,    \* an epoch was stored that is not the place of its record in the chain
    twice           \* a slot or record was given to qsbr_free_ptr twice

records == <<chain, rec_epoch, nodes, slot_epoch, slots>>
data    == <<rec, epoch, new_rec, count>>
locals  == <<key, from, prev_src, cur, next_src, prev_dst, next_dst, it_rec, it_epoch>>
freed   == <<retired, twice>>
vars    == <<records, data, pc, locals, freed, misnumbered>>

INDIRECT_EPOCH == 0
INACTIVE_EPOCH == 1
STARTING_EPOCH == 2

\* A key is its node; INT_MIN is below all keys and INT_MAX above.  Nothing is read
\* from the node behind the last key.
Keys    == 0..NKeys - 1
head(i) == -1 - i
tail(i) == NKeys + i
Nodes   == Keys \cup {head(0), head(1)}
val(n)  == IF n < 0 THEN -1 ELSE IF n >= NKeys THEN NKeys ELSE n

Starting == <<NULL, 0>>
Recs     == {Starting} \cup (Threads \X (1..MaxRecs))

\* list_global_init: the even keys are in one list, the odd ones in the other.
initial(n) ==
    CASE n < 0 -> -1 - n
      [] n >= 0 /\ n + 2 < NKeys -> n + 2
      [] OTHER -> tail(n % 2)

Init ==
    /\ chain = <<Starting>>
    /\ rec_epoch = [r \in Recs |-> IF r = Starting THEN STARTING_EPOCH ELSE INACTIVE_EPOCH]
    /\ nodes = [r \in Recs |-> <<>>]
    /\ slot_epoch = [r \in Recs |-> IF r = Starting THEN STARTING_EPOCH ELSE INDIRECT_EPOCH]
    /\ slots = [n \in Nodes |-> <<<<Starting, initial(n)>>>>]
    /\ rec = [t \in Threads |-> 1] /\ epoch = [t \in Threads |-> STARTING_EPOCH]
    /\ new_rec = [t \in Threads |-> 1] /\ count = [t \in Threads |-> 0]
    /\ retired = {} /\ misnumbered = FALSE /\ twice = FALSE
    /\ pc = [t \in Threads |-> "idle"]
    /\ key = [t \in Threads |-> 0] /\ from = [t \in Threads |-> 0]
    /\ LET none == [t \in Threads |-> head(0)]
       IN  /\ prev_src = none /\ cur = none /\ next_src = none
           /\ prev_dst = none /\ next_dst = none
    /\ it_rec = [t \in Threads |-> 1] /\ it_epoch = [t \in Threads |-> 0]

Goto(t, l) == pc' = [pc EXCEPT ![t] = l]
New(t)     == <<t, new_rec[t]>>

read_slot_epoch(s) ==
    IF slot_epoch[s[1]] = INDIRECT_EPOCH THEN rec_epoch[s[1]] ELSE slot_epoch[s[1]]

\* Mutant: the newest committed slot is taken, whatever its epoch.
read_slot_Latest(n, t) ==
    LET s == slots[n]
    IN  s[Min({i \in DOMAIN s : read_slot_epoch(s[i]) >= STARTING_EPOCH})]

\* The newest slot that is committed and not later than the epoch of the thread.
read_slot(n, t) ==
    LET s == slots[n]
    IN  s[Min({i \in DOMAIN s : read_slot_epoch(s[i]) \in STARTING_EPOCH..epoch[t]})]

lf_list_get_next(n, t) == read_slot(n, t)[2]

\* Mutant: the slots are freed from the new one on.
free_slots_later_Own(r, n) ==
    LET s    == slots[n]
        mine == Min({i \in DOMAIN s : s[i][1] = r})
    IN  {<<s[i][1], n>> : i \in mine..mine}

\* The old slots of a node that a commit gives to qsbr_free_ptr: those below its own,
\* up to the first one that was committed.
free_slots_later(r, n) ==
    LET s    == slots[n]
        mine == Min({i \in DOMAIN s : s[i][1] = r})
        old  == Min({i \in mine + 1..Len(s) : read_slot_epoch(s[i]) >= STARTING_EPOCH})
    IN  {<<s[i][1], n>> : i \in mine + 1..old}

qsbr_free_ptr(ptrs) ==
    /\ retired' = retired \cup ptrs
    /\ twice' = (twice \/ retired \cap ptrs # {})
\* A record as it is given to qsbr_free_ptr: no node is behind it.
Record(r) == <<r, tail(1)>>

-----------------------------------------------------------------------------
\* lf_list_write_cs_enter, and the start of lf_list_set_read_epoch.
Call(t, m) ==
    /\ pc[t] = "idle" /\ count[t] < Calls /\ Goto(t, "read_epoch")
    /\ key' = [key EXCEPT ![t] = m[1]] /\ from' = [from EXCEPT ![t] = m[2]]
    /\ it_rec' = [it_rec EXCEPT ![t] = rec[t]]
    /\ it_epoch' = [it_epoch EXCEPT ![t] = rec_epoch[chain[rec[t]]]]
    /\ UNCHANGED <<records, data, prev_src, cur, next_src, prev_dst, next_dst, freed,
                   misnumbered>>

\* To the record behind it_rec; if it has no number yet, it gets one in the next step.
Advance(t, number) ==
    /\ it_rec[t] < Len(chain)
    /\ it_rec' = [it_rec EXCEPT ![t] = @ + 1]
    /\ it_epoch' = [it_epoch EXCEPT ![t] = @ + 1]
    /\ IF rec_epoch[chain[it_rec'[t]]] = INACTIVE_EPOCH THEN Goto(t, number) ELSE UNCHANGED pc
    /\ UNCHANGED <<records, data, key, from, prev_src, cur, next_src, prev_dst, next_dst,
                   freed, misnumbered>>

\* Mutant: a record without a number is left without one.
lf_list_set_read_epoch_Lazy(t) ==
    /\ pc[t] = "read_epoch"
    /\ \/ Advance(t, "read_epoch")
       \/ /\ it_rec[t] = Len(chain) /\ Goto(t, "src")
          /\ rec' = [rec EXCEPT ![t] = it_rec[t]]
          /\ epoch' = [epoch EXCEPT ![t] = it_epoch[t]]
          /\ prev_src' = [prev_src EXCEPT ![t] = head(from[t])]
          /\ UNCHANGED <<records, new_rec, count, key, from, cur, next_src, prev_dst, next_dst,
                         it_rec, it_epoch, freed, misnumbered>>

lf_list_set_read_epoch(t) ==
    /\ pc[t] = "read_epoch"
    /\ \/ Advance(t, "number")
       \/ /\ it_rec[t] = Len(chain) /\ Goto(t, "src")
          /\ rec' = [rec EXCEPT ![t] = it_rec[t]]
          /\ epoch' = [epoch EXCEPT ![t] = it_epoch[t]]
          /\ prev_src' = [prev_src EXCEPT ![t] = head(from[t])]
          /\ UNCHANGED <<records, new_rec, count, key, from, cur, next_src, prev_dst, next_dst,
                         it_rec, it_epoch, freed, misnumbered>>

\* next->epoch = epoch, or it_rec->epoch = epoch.
Number(t, at, then) ==
    /\ pc[t] = at /\ Goto(t, then)
    /\ rec_epoch' = [rec_epoch EXCEPT ![chain[it_rec[t]]] = it_epoch[t]]
    /\ misnumbered' = (misnumbered \/ it_epoch[t] # it_rec[t] + 1)
    /\ UNCHANGED <<chain, nodes, slot_epoch, slots, data, locals, freed>>

\* lf_list_write_cs_exit with nothing to commit: the record is freed at once.
Leave(t) == Goto(t, "idle") /\ count' = [count EXCEPT ![t] = @ + 1]

SearchSrc(t) ==
    /\ pc[t] = "src"
    /\ LET c == lf_list_get_next(prev_src[t], t)
       IN  /\ cur' = [cur EXCEPT ![t] = c]
           /\ \/ /\ val(c) < key[t] /\ prev_src' = [prev_src EXCEPT ![t] = c]
                 /\ UNCHANGED <<pc, count>>
              \/ val(c) = key[t] /\ Goto(t, "next_src") /\ UNCHANGED <<count, prev_src>>
              \/ val(c) > key[t] /\ Leave(t) /\ UNCHANGED prev_src
    /\ UNCHANGED <<records, rec, epoch, new_rec, key, from, next_src, prev_dst, next_dst,
                   it_rec, it_epoch, freed, misnumbered>>

NextSrc(t) ==
    /\ pc[t] = "next_src" /\ Goto(t, "dst")
    /\ next_src' = [next_src EXCEPT ![t] = lf_list_get_next(cur[t], t)]
    /\ prev_dst' = [prev_dst EXCEPT ![t] = head(1 - from[t])]
    /\ UNCHANGED <<records, data, key, from, prev_src, cur, next_dst, it_rec, it_epoch, freed,
                   misnumbered>>

SearchDst(t) ==
    /\ pc[t] = "dst"
    /\ LET n == lf_list_get_next(prev_dst[t], t)
       IN  /\ next_dst' = [next_dst EXCEPT ![t] = n]
           /\ \/ /\ val(n) < key[t] /\ prev_dst' = [prev_dst EXCEPT ![t] = n]
                 /\ UNCHANGED <<pc, count>>
              \/ val(n) = key[t] /\ Leave(t) /\ UNCHANGED prev_dst
              \/ val(n) > key[t] /\ Goto(t, "add") /\ UNCHANGED <<count, prev_dst>>
    /\ UNCHANGED <<records, rec, epoch, new_rec, key, from, prev_src, cur, next_src, it_rec,
                   it_epoch, freed, misnumbered>>

\* The three slots of a move, in order; the last one leads to lf_list_write_cs_exit.
add_slot(t) ==
    LET r == New(t)
        i == Len(nodes[r]) + 1
        n == <<prev_src[t], prev_dst[t], cur[t]>>[i]
        m == <<next_src[t], cur[t], next_dst[t]>>[i]
    IN  /\ pc[t] = "add"
        /\ nodes' = [nodes EXCEPT ![r] = Append(@, n)]
        /\ slots' = [slots EXCEPT ![n] = <<<<r, m>>>> \o @]
        /\ IF i < 3 THEN UNCHANGED <<pc, it_rec, it_epoch>>
           ELSE /\ Goto(t, "exit")
                /\ it_rec' = [it_rec EXCEPT ![t] = rec[t]]
                /\ it_epoch' = [it_epoch EXCEPT ![t] = epoch[t] + 1]
        /\ UNCHANGED <<chain, rec_epoch, slot_epoch, data, key, from, prev_src, cur, next_src,
                       prev_dst, next_dst, freed, misnumbered>>

\* Mutant: a commit compares only the node before the moved one.
Conflict_First(r, q) == nodes[r][1] = nodes[q][1]

Conflict(r, q) == ToSet(nodes[r]) \cap ToSet(nodes[q]) # {}

\* The loop of lf_list_write_cs_exit: past a record without common nodes; or the record
\* is given up and list_move begins again with a new one; or it is linked.
lf_list_write_cs_exit(t) ==
    /\ pc[t] = "exit"
    /\ \/ /\ it_rec[t] < Len(chain) /\ ~Conflict(New(t), chain[it_rec[t] + 1])
          /\ Advance(t, "number_exit")
       \/ /\ it_rec[t] < Len(chain) /\ Conflict(New(t), chain[it_rec[t] + 1])
          /\ Goto(t, "read_epoch")
          /\ slot_epoch' = [slot_epoch EXCEPT ![New(t)] = INACTIVE_EPOCH]
          /\ qsbr_free_ptr({Record(New(t))})
          /\ new_rec' = [new_rec EXCEPT ![t] = @ + 1]
          /\ it_rec' = [it_rec EXCEPT ![t] = rec[t]]
          /\ it_epoch' = [it_epoch EXCEPT ![t] = rec_epoch[chain[rec[t]]]]
          /\ UNCHANGED <<chain, rec_epoch, nodes, slots, rec, epoch, count, key, from, prev_src,
                         cur, next_src, prev_dst, next_dst, misnumbered>>
       \/ /\ it_rec[t] = Len(chain) /\ Goto(t, "commit")
          /\ chain' = Append(chain, New(t))
          /\ UNCHANGED <<rec_epoch, nodes, slot_epoch, slots, data, locals, freed, misnumbered>>

\* Linked: the number, for those who have not helped.
Commit(t) ==
    /\ pc[t] = "commit" /\ Goto(t, "slots")
    /\ rec_epoch' = [rec_epoch EXCEPT ![New(t)] = it_epoch[t]]
    /\ misnumbered' = (misnumbered \/ it_epoch[t] # it_rec[t] + 2)
    /\ UNCHANGED <<chain, nodes, slot_epoch, slots, data, locals, freed>>

\* The epoch goes into the slots, and what they replace is retired with the record before.
CommitSlots(t) ==
    LET r == New(t)
    IN  /\ pc[t] = "slots" /\ Leave(t)
        /\ slot_epoch' = [slot_epoch EXCEPT ![r] = it_epoch[t]]
        /\ qsbr_free_ptr(UNION {free_slots_later(r, n) : n \in ToSet(nodes[r])}
                         \cup {Record(chain[it_rec[t]])})
        /\ rec' = [rec EXCEPT ![t] = it_rec[t] + 1]
        /\ epoch' = [epoch EXCEPT ![t] = it_epoch[t]]
        /\ new_rec' = [new_rec EXCEPT ![t] = @ + 1]
        /\ UNCHANGED <<chain, rec_epoch, nodes, slots, locals, misnumbered>>

list_move(t) ==
    \/ \E m \in Moves[t] : Call(t, m)
    \/ lf_list_set_read_epoch(t) \/ Number(t, "number", "read_epoch")
    \/ SearchSrc(t) \/ NextSrc(t) \/ SearchDst(t) \/ add_slot(t)
    \/ lf_list_write_cs_exit(t) \/ Number(t, "number_exit", "exit")
    \/ Commit(t) \/ CommitSlots(t)

Next == \E t \in Threads : list_move(t)

Spec == Init /\ [][Next]_vars

-----------------------------------------------------------------------------
TypeOK ==
    /\ chain \in Seq(Recs) /\ rec_epoch \in [Recs -> Nat] /\ slot_epoch \in [Recs -> Nat]
    /\ \A r \in Recs : Len(nodes[r]) <= 3
    /\ rec \in [Threads -> 1..Len(chain)] /\ it_rec \in [Threads -> 1..Len(chain)]
    /\ new_rec \in [Threads -> 1..MaxRecs + 1] /\ count \in [Threads -> 0..Calls]
    /\ \A t \in Threads : {prev_src[t], prev_dst[t]} \subseteq Nodes

\* The next pointer of a node in the version that ends with record number v, by the order
\* of the chain alone.
Version(v, n) ==
    LET s    == slots[n]
        at   == Max({i \in 1..v : i = 1 \/ n \in ToSet(nodes[chain[i]])})
    IN  s[Min({i \in DOMAIN s : s[i][1] = chain[at]})][2]

Searching == {"src", "next_src", "dst", "add", "exit"}

\* As long as numbers follow the chain, a thread reads in every node what the records up
\* to its own have made of it, whatever is added and committed meanwhile.
SnapshotIsExact ==
    ~misnumbered =>
        \A t \in Threads : pc[t] \in Searching =>
            \A n \in Nodes : lf_list_get_next(n, t) = Version(rec[t], n)

\* The keys of S, in order, between the head and the end of list i.
ListIs(i, S) ==
    \A n \in S \cup {head(i)} :
        Version(Len(chain), n) = Min({m \in S : m > n} \cup {tail(i)})

\* As long as numbers follow the chain, every key is in one of the lists, at its place.
EveryKeyIsListed == ~misnumbered => \E S \in SUBSET Keys : ListIs(0, S) /\ ListIs(1, Keys \ S)

\* Nothing is retired twice, and nothing of the last version.
RetiredAreOld ==
    ~misnumbered =>
        /\ ~twice /\ Record(chain[Len(chain)]) \notin retired
        /\ \A n \in Nodes :
              <<chain[Max({i \in DOMAIN chain : i = 1 \/ n \in ToSet(nodes[chain[i]])})], n>>
                  \notin retired

\* A node never follows itself: the assertion of read_slot.
NeverItsOwnNext == \A n \in Nodes : \A i \in DOMAIN slots[n] : slots[n][i][2] # n
=============================================================================
