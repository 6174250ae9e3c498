------------------------------ MODULE ThreadRCU ------------------------------
(***************************************************************************)
(* Read-copy update for threads, thread-rcu/rcu.h: rcu_init, rcu_read_lock, *)
(* rcu_read_unlock and synchronize_rcu, driven as in thread-rcu/main.c: one *)
(* updater replaces an object a number of times and frees the old one after *)
(* a grace period, each reader looks at it once.                            *)
(*                                                                          *)
(* A thread's node is named by the thread.  __next_rcu_nesting holds two    *)
(* bits and the pointer to the next node; the owner of a node changes the   *)
(* bits by loading the word and storing it back later, which also stores    *)
(* the pointer it has loaded.  list is the sequence of nodes that can be    *)
(* reached from rcu_data.head, so that storing an old null pointer cuts off *)
(* what has been linked behind the node since.                              *)
(***************************************************************************)
EXTENDS Naturals, Sequences

CONSTANTS
    Readers,
    Updates,        \* N_UPDATE_RUN
    StartTogether   \* do the threads wait at the barrier of main.c?  (the
                    \* readers of rcu-list/test.c do not)

VARIABLES
    list, nesting,          \* the nodes, and the bits set in each
    rcu_nesting_idx,
    dut, freed,             \* the object pointed to, and the freed ones
    prev_count, gp_idx,
    pc, last, idx, tmp, old,\* a reader; last: no next pointer in the loaded word
    upc, i, oldp, at, gp,   \* the updater; at: its place in the list
    late                    \* history: the index moved between load and store

shared == <<list, nesting, rcu_nesting_idx>>
test   == <<dut, freed, prev_count, gp_idx>>
reader == <<pc, last, idx, tmp, old, late>>
upd    == <<upc, i, oldp, at, gp>>
vars   == <<shared, test, reader, upd>>

Bit(n) == n % 2

Init ==
    /\ list = << >>
    /\ nesting = [r \in Readers |-> {}]
    /\ rcu_nesting_idx = 0
    /\ dut = 0 /\ freed = {} /\ prev_count = 0 /\ gp_idx = 0
    /\ pc = [r \in Readers |-> "init"]
    /\ last = [r \in Readers |-> TRUE]
    /\ idx = [r \in Readers |-> 0] /\ tmp = [r \in Readers |-> 0]
    /\ old = [r \in Readers |-> 0]
    /\ late = [r \in Readers |-> FALSE]
    /\ upc = "assign" /\ i = 1 /\ oldp = 0 /\ at = 1 /\ gp = 0

Goto(r, from, to) == pc[r] = from /\ pc' = [pc EXCEPT ![r] = to]
UGoto(from, to) == upc = from /\ upc' = to

Locked == upc \in {"scan1", "scan2"}    \* rcu_data.lock, by the updater

\* thread_barrier
Started == StartTogether => \A r \in Readers : pc[r] # "init"

-----------------------------------------------------------------------------
(* The readers *)

\* rcu_init (__rcu_node_add): the new node goes behind the last one.
RcuInit(r) ==
    /\ ~Locked
    /\ Goto(r, "init", "lock")
    /\ list' = Append(list, r)
    /\ UNCHANGED <<nesting, rcu_nesting_idx, test, last, idx, tmp, old, late, upd>>

IsLast(r) == ~\E k \in 1 .. Len(list) - 1 : list[k] = r

\* rcu_read_lock (rcu_set_nesting): load the word,
LockLoadWord(r) ==
    /\ Started
    /\ Goto(r, "lock", "index")
    /\ last' = [last EXCEPT ![r] = IsLast(r)]
    /\ UNCHANGED <<shared, test, idx, tmp, old, late, upd>>

\* the global index,
LockLoadIndex(r) ==
    /\ Goto(r, "index", "set")
    /\ idx' = [idx EXCEPT ![r] = rcu_nesting_idx]
    /\ UNCHANGED <<shared, test, last, tmp, old, late, upd>>

\* A store to the word of r: the nodes linked behind it since the load are lost.
StoreWord(r, bits) ==
    /\ nesting' = [nesting EXCEPT ![r] = bits]
    /\ list' = IF last[r] /\ \E k \in 1 .. Len(list) : list[k] = r
               THEN SubSeq(list, 1, CHOOSE k \in 1 .. Len(list) : list[k] = r)
               ELSE list

\* and store the word with the bit of that index.
LockStore(r) ==
    /\ Goto(r, "set", "deref")
    /\ StoreWord(r, nesting[r] \cup {Bit(idx[r])})
    /\ late' = [late EXCEPT ![r] = rcu_nesting_idx # idx[r]]
    /\ UNCHANGED <<rcu_nesting_idx, test, last, idx, tmp, old, upd>>

\* rcu_dereference
Deref(r) ==
    /\ Goto(r, "deref", "use")
    /\ tmp' = [tmp EXCEPT ![r] = dut]
    /\ UNCHANGED <<shared, test, last, idx, old, late, upd>>

\* reader_func compares the count it finds with the largest seen so far (an
\* object's count is its number).
Use(r) ==
    /\ Goto(r, "use", IF prev_count < tmp[r] THEN "cas"
                      ELSE IF tmp[r] < prev_count THEN "abort" ELSE "gp")
    /\ old' = [old EXCEPT ![r] = prev_count]
    /\ UNCHANGED <<shared, test, last, idx, tmp, late, upd>>

\* Mutant: the count is added instead of stored.
Raise_Add(r) ==
    /\ Goto(r, "cas", "gp")
    /\ prev_count' = prev_count + tmp[r]
    /\ UNCHANGED <<shared, dut, freed, gp_idx, last, idx, tmp, old, late, upd>>

Raise(r) ==
    /\ Goto(r, "cas", "gp")
    /\ prev_count' = IF prev_count = old[r] THEN tmp[r] ELSE prev_count
    /\ UNCHANGED <<shared, dut, freed, gp_idx, last, idx, tmp, old, late, upd>>

\* The record of the grace period, which has to be within bounds.
CountGp(r) ==
    /\ Goto(r, "gp", IF gp_idx > Updates THEN "abort" ELSE "unlock")
    /\ UNCHANGED <<shared, test, last, idx, tmp, old, late, upd>>

\* rcu_read_unlock: load the word, store it without the bits.
UnlockLoad(r) ==
    /\ Goto(r, "unlock", "unset")
    /\ last' = [last EXCEPT ![r] = IsLast(r)]
    /\ UNCHANGED <<shared, test, idx, tmp, old, late, upd>>

\* Mutant: only the bit of the current index is cleared.
UnlockStore_OneBit(r) ==
    /\ Goto(r, "unset", "done")
    /\ StoreWord(r, nesting[r] \ {Bit(rcu_nesting_idx)})
    /\ UNCHANGED <<rcu_nesting_idx, test, last, idx, tmp, old, late, upd>>

UnlockStore(r) ==
    /\ Goto(r, "unset", "done")
    /\ StoreWord(r, {})
    /\ UNCHANGED <<rcu_nesting_idx, test, last, idx, tmp, old, late, upd>>

-----------------------------------------------------------------------------
(* updater_func and synchronize_rcu *)

\* rcu_assign_pointer to a new object.
Assign ==
    /\ Started /\ i <= Updates
    /\ UGoto("assign", "sync")
    /\ oldp' = dut /\ dut' = i
    /\ UNCHANGED <<shared, freed, prev_count, gp_idx, reader, i, at, gp>>

\* spin_lock, and to the head of the list.
SyncLock ==
    /\ UGoto("sync", "scan1")
    /\ at' = 1
    /\ UNCHANGED <<shared, test, reader, i, oldp, gp>>

\* Past the next node, once its bit is clear (the spin is a wait).
Scan1 ==
    /\ upc = "scan1" /\ at <= Len(list)
    /\ Bit(rcu_nesting_idx) \notin nesting[list[at]]
    /\ at' = at + 1
    /\ UNCHANGED <<shared, test, reader, upc, i, oldp, gp>>

\* The next grace period; back to the head of the list.
Flip ==
    /\ at > Len(list)
    /\ UGoto("scan1", "scan2")
    /\ gp' = rcu_nesting_idx
    /\ rcu_nesting_idx' = rcu_nesting_idx + 1
    /\ at' = 1
    /\ UNCHANGED <<list, nesting, test, reader, i, oldp>>

\* Mutant: no second check after the index was increased.
Scan2_Skipped ==
    /\ upc = "scan2" /\ at <= Len(list)
    /\ at' = at + 1
    /\ UNCHANGED <<shared, test, reader, upc, i, oldp, gp>>

\* The same for the bit of the index before.
Scan2 ==
    /\ upc = "scan2" /\ at <= Len(list)
    /\ Bit(gp) \notin nesting[list[at]]
    /\ at' = at + 1
    /\ UNCHANGED <<shared, test, reader, upc, i, oldp, gp>>

SyncUnlock ==
    /\ at > Len(list)
    /\ UGoto("scan2", "count")
    /\ UNCHANGED <<shared, test, reader, i, oldp, at, gp>>

\* The updater counts the grace period and frees the old object.
CountAndFree ==
    /\ UGoto("count", "assign")
    /\ gp_idx' = gp_idx + 1
    /\ freed' = freed \cup {oldp}
    /\ i' = i + 1
    /\ UNCHANGED <<shared, dut, prev_count, reader, oldp, at, gp>>

-----------------------------------------------------------------------------
Running == \A r \in Readers : pc[r] # "abort"

Reader(r) ==
    /\ Running
    /\ \/ RcuInit(r) \/ LockLoadWord(r) \/ LockLoadIndex(r) \/ LockStore(r) \/ Deref(r)
       \/ Use(r) \/ Raise(r) \/ CountGp(r) \/ UnlockLoad(r) \/ UnlockStore(r)

Updater ==
    /\ Running
    /\ Assign \/ SyncLock \/ Scan1 \/ Flip \/ Scan2 \/ SyncUnlock \/ CountAndFree

Next == Updater \/ \E r \in Readers : Reader(r)

Spec == Init /\ [][Next]_vars

\* The scheduler runs every thread.
Fairness == WF_vars(Updater) /\ \A r \in Readers : WF_vars(Reader(r))
FairSpec == Spec /\ Fairness

-----------------------------------------------------------------------------
TypeOK ==
    /\ list \in Seq(Readers)
    /\ nesting \in [Readers -> SUBSET {0, 1}]
    /\ rcu_nesting_idx \in Nat /\ gp \in Nat
    /\ dut \in 0 .. Updates /\ freed \in SUBSET (0 .. Updates)
    /\ prev_count \in 0 .. Updates /\ gp_idx \in 0 .. Updates
    /\ pc \in [Readers -> {"init", "lock", "index", "set", "deref", "use", "cas", "gp",
                           "unlock", "unset", "done", "abort"}]
    /\ last \in [Readers -> BOOLEAN] /\ late \in [Readers -> BOOLEAN]
    /\ idx \in [Readers -> Nat] /\ tmp \in [Readers -> 0 .. Updates]
    /\ old \in [Readers -> 0 .. Updates]
    /\ upc \in {"assign", "sync", "scan1", "scan2", "count"}
    /\ i \in 1 .. Updates + 1 /\ oldp \in 0 .. Updates /\ at \in Nat

Uses(r) == pc[r] \in {"use", "cas"}

\* A reader between rcu_read_lock and rcu_read_unlock never finds its object
\* freed: what synchronize_rcu's second scan is there for ("To stay away from
\* it, we check again after increasing the global index variable").
ReaderIsSafe == \A r \in Readers : Uses(r) => tmp[r] \notin freed

\* The part of it that the two scans do give: a reader whose bit was stored
\* while the index was still the one it had loaded is waited for.
PromptReaderIsSafe == \A r \in Readers : Uses(r) /\ ~late[r] => tmp[r] \notin freed

\* Every thread that has called rcu_init can be found by synchronize_rcu.
RegisteredIsListed ==
    \A r \in Readers : pc[r] # "init" => \E k \in 1 .. Len(list) : list[k] = r

\* All the updates come to an end, unless a reader aborts the test.
UpdatesEnd == <>(i > Updates \/ ~Running)
=============================================================================
