----------------------------- MODULE Broadcast -----------------------------
(***************************************************************************)
(* broadcast/broadcast.c and pool.c: publishers write messages into a ring  *)
(* of slots and roll the oldest off when it is full; every subscriber reads *)
(* all messages with an index of its own and counts those it has missed.    *)
(*                                                                          *)
(* A slot holds a reference [tag, val]: the index of the message and its    *)
(* element.  Elements come from a pool, a list whose links are stored in    *)
(* the free elements themselves: mem[e] is a message or the reference to    *)
(* the next free element, in the same bytes.  A 16-byte reference is read   *)
(* and exchanged in one step.                                               *)
(***************************************************************************)
EXTENDS Integers, FiniteSets

CONSTANTS
    Publishers, Subscribers,
    Messages,       \* Messages[p]: how many messages p publishes
    Depth,          \* slots, a power of 2
    Spare           \* pool elements besides those (ESTIMATED_PUBLISHERS)

VARIABLES
    head_idx, tail_idx, slots,
    pool_head, tag_next, mem,
    pc, count,                      \* publishers: control, messages published
    elt, cur, next, h, t, drop,     \* publishers: locals; drop is the element to release
    spc, idx, ref, msg,             \* subscribers: control, locals
    published, got                  \* history: message at index i; what a subscriber got

ring == <<head_idx, tail_idx, slots>>
pool == <<pool_head, tag_next, mem>>
locals == <<elt, cur, next, h, t, drop>>
subs == <<spc, idx, ref, msg>>
vars == <<ring, pool, pc, count, locals, subs, published, got>>

Elts     == 1..Depth + Spare
Ref(g, v) == [tag |-> g, val |-> v]
NullRef  == Ref(0, 0)
Msg(p, n) == [tag |-> n, val |-> p]
Indices  == DOMAIN published
Slot(i)  == i % Depth
IsMsg(m) == m.val \in Publishers

TypeOK ==
    /\ head_idx \in 1..tail_idx /\ tail_idx <= Cardinality(Indices) + 1
    /\ pool_head.val \in Elts \cup {0} /\ \A s \in DOMAIN slots : slots[s].val \in Elts \cup {0}
    /\ \A p \in Publishers : elt[p] \in Elts \cup {0} /\ drop[p] \in Elts \cup {0}
    /\ \A p \in Publishers : count[p] \in 0..Messages[p]

\* broadcast_mem_init, pool_mem_init: released from the last to the first.
Init ==
    LET n == Depth + Spare IN
    /\ head_idx = 1 /\ tail_idx = 1 /\ slots = [s \in 0..Depth - 1 |-> NullRef]
    /\ pool_head = Ref(n, 1) /\ tag_next = n
    /\ mem = [e \in Elts |-> IF e = n THEN NullRef ELSE Ref(n - e, e + 1)]
    /\ pc = [p \in Publishers |-> "pub"] /\ count = [p \in Publishers |-> 0]
    /\ elt = [p \in Publishers |-> 0] /\ drop = [p \in Publishers |-> 0]
    /\ cur = [p \in Publishers |-> NullRef] /\ next = [p \in Publishers |-> NullRef]
    /\ h = [p \in Publishers |-> 0] /\ t = [p \in Publishers |-> 0]
    /\ spc = [s \in Subscribers |-> "begin"] /\ idx = [s \in Subscribers |-> 0]
    /\ ref = [s \in Subscribers |-> NullRef] /\ msg = [s \in Subscribers |-> NullRef]
    /\ published = <<>> /\ got = [s \in Subscribers |-> {}]

Goto(p, l) == pc' = [pc EXCEPT ![p] = l]

-----------------------------------------------------------------------------
(* pool_acquire: the first element, and the reference found in it.          *)

AcquireHead(p) ==
    /\ pc[p] = "pub" /\ count[p] < Messages[p]
    /\ cur' = [cur EXCEPT ![p] = pool_head]
    /\ Goto(p, IF pool_head = NullRef THEN "failed" ELSE "next")
    /\ UNCHANGED <<ring, pool, count, elt, next, h, t, drop, subs, published, got>>

AcquireNext(p) ==
    /\ pc[p] = "next"
    /\ next' = [next EXCEPT ![p] = mem[cur[p].val]]
    /\ Goto(p, "pop")
    /\ UNCHANGED <<ring, pool, count, elt, cur, h, t, drop, subs, published, got>>

\* Mutant: the tag is not compared.
AcquirePop_NoTag(p) ==
    /\ pc[p] = "pop"
    /\ IF pool_head.val = cur[p].val
         THEN /\ pool_head' = next[p] /\ elt' = [elt EXCEPT ![p] = cur[p].val]
              /\ Goto(p, "fill")
         ELSE Goto(p, "pub") /\ UNCHANGED <<pool_head, elt>>
    /\ cur' = [cur EXCEPT ![p] = NullRef] /\ next' = [next EXCEPT ![p] = NullRef]
    /\ UNCHANGED <<ring, tag_next, mem, count, h, t, drop, subs, published, got>>

AcquirePop(p) ==
    /\ pc[p] = "pop"
    /\ IF pool_head = cur[p]
         THEN /\ pool_head' = next[p] /\ elt' = [elt EXCEPT ![p] = cur[p].val]
              /\ Goto(p, "fill")
         ELSE Goto(p, "pub") /\ UNCHANGED <<pool_head, elt>>
    /\ cur' = [cur EXCEPT ![p] = NullRef] /\ next' = [next EXCEPT ![p] = NullRef]
    /\ UNCHANGED <<ring, tag_next, mem, count, h, t, drop, subs, published, got>>

-----------------------------------------------------------------------------
(* broadcast_pub.                                                           *)

Fill(p) ==
    /\ pc[p] = "fill"
    /\ mem' = [mem EXCEPT ![elt[p]] = Msg(p, count[p] + 1)]
    /\ Goto(p, "loop")
    /\ UNCHANGED <<ring, pool_head, tag_next, count, locals, subs, published, got>>

LoadHead(p) ==
    /\ pc[p] = "loop"
    /\ h' = [h EXCEPT ![p] = head_idx] /\ Goto(p, "tail")
    /\ UNCHANGED <<ring, pool, count, elt, cur, next, t, drop, subs, published, got>>

LoadTail(p) ==
    /\ pc[p] = "tail"
    /\ t' = [t EXCEPT ![p] = tail_idx] /\ Goto(p, "slot")
    /\ UNCHANGED <<ring, pool, count, elt, cur, next, h, drop, subs, published, got>>

\* The slot at tail tells what to do: advance a stale tail_idx, start again, roll off
\* the head, or append.
LoadSlot(p) ==
    LET s == slots[Slot(t[p])] IN
    /\ pc[p] = "slot"
    /\ cur' = [cur EXCEPT ![p] = s]
    /\ Goto(p, IF s.tag = t[p] THEN "advance" ELSE IF s.tag > t[p] THEN "loop"
               ELSE IF h[p] <= s.tag THEN "drop" ELSE "append")
    /\ UNCHANGED <<ring, pool, count, elt, next, h, t, drop, subs, published, got>>

\* Mutant: a tail that lags behind is left there.
AdvanceTail_Left(p) ==
    /\ pc[p] \in {"advance", "last"}
    /\ IF pc[p] = "advance" THEN Goto(p, "loop") /\ UNCHANGED <<count, elt>>
       ELSE /\ Goto(p, "pub") /\ count' = [count EXCEPT ![p] = @ + 1]
            /\ elt' = [elt EXCEPT ![p] = 0]
    /\ cur' = [cur EXCEPT ![p] = NullRef]
    /\ h' = [h EXCEPT ![p] = 0] /\ t' = [t EXCEPT ![p] = 0]
    /\ UNCHANGED <<ring, pool, next, drop, subs, published, got>>

AdvanceTail(p) ==
    /\ pc[p] \in {"advance", "last"}
    /\ tail_idx' = IF tail_idx = t[p] THEN t[p] + 1 ELSE tail_idx
    /\ IF pc[p] = "advance" THEN Goto(p, "loop") /\ UNCHANGED <<count, elt>>
       ELSE /\ Goto(p, "pub") /\ count' = [count EXCEPT ![p] = @ + 1]
            /\ elt' = [elt EXCEPT ![p] = 0]
    /\ cur' = [cur EXCEPT ![p] = NullRef]
    /\ h' = [h EXCEPT ![p] = 0] /\ t' = [t EXCEPT ![p] = 0]
    /\ UNCHANGED <<head_idx, slots, pool, next, drop, subs, published, got>>

Append(p) ==
    /\ pc[p] = "append"
    /\ IF slots[Slot(t[p])] = cur[p]
         THEN /\ slots' = [slots EXCEPT ![Slot(t[p])] = Ref(t[p], elt[p])]
              /\ published' = [i \in Indices \cup {t[p]} |->
                                 IF i = t[p] THEN Msg(p, count[p] + 1) ELSE published[i]]
              /\ Goto(p, "last")
         ELSE Goto(p, "loop") /\ UNCHANGED <<slots, published>>
    /\ UNCHANGED <<head_idx, tail_idx, pool, count, locals, subs, got>>

\* try_drop_head: the head's slot, then the exchange of head_idx.
DropLoad(p) ==
    /\ pc[p] = "drop"
    /\ cur' = [cur EXCEPT ![p] = slots[Slot(h[p])]] /\ Goto(p, "roll")
    /\ UNCHANGED <<ring, pool, count, elt, next, h, t, drop, subs, published, got>>

\* Mutant: a store instead of the compare-and-exchange.
DropHead_Store(p) ==
    /\ pc[p] = "roll"
    /\ head_idx' = h[p] + 1 /\ drop' = [drop EXCEPT ![p] = cur[p].val]
    /\ tag_next' = tag_next + 1
    /\ next' = [next EXCEPT ![p] = Ref(tag_next + 1, cur[p].val)]
    /\ Goto(p, "link")
    /\ cur' = [cur EXCEPT ![p] = NullRef]
    /\ UNCHANGED <<tail_idx, slots, pool_head, mem, count, elt, h, t, subs, published, got>>

DropHead(p) ==
    /\ pc[p] = "roll"
    /\ IF head_idx = h[p]
         THEN /\ head_idx' = h[p] + 1 /\ drop' = [drop EXCEPT ![p] = cur[p].val]
              /\ tag_next' = tag_next + 1
              /\ next' = [next EXCEPT ![p] = Ref(tag_next + 1, cur[p].val)]
              /\ Goto(p, "link")
         ELSE Goto(p, "loop") /\ UNCHANGED <<head_idx, drop, tag_next, next>>
    /\ cur' = [cur EXCEPT ![p] = NullRef]
    /\ UNCHANGED <<tail_idx, slots, pool_head, mem, count, elt, h, t, subs, published, got>>

\* pool_release: the element points to the first one, and becomes the first.
ReleaseLoad(p) ==
    /\ pc[p] = "link"
    /\ cur' = [cur EXCEPT ![p] = pool_head]
    /\ mem' = [mem EXCEPT ![drop[p]] = pool_head]
    /\ Goto(p, "push")
    /\ UNCHANGED <<ring, pool_head, tag_next, count, elt, next, h, t, drop, subs, published, got>>

ReleasePush(p) ==
    /\ pc[p] = "push"
    /\ IF pool_head = cur[p]
         THEN /\ pool_head' = next[p] /\ Goto(p, "loop")
              /\ drop' = [drop EXCEPT ![p] = 0] /\ next' = [next EXCEPT ![p] = NullRef]
         ELSE Goto(p, "link") /\ UNCHANGED <<pool_head, drop, next>>
    /\ cur' = [cur EXCEPT ![p] = NullRef]
    /\ UNCHANGED <<ring, tag_next, mem, count, elt, h, t, subs, published, got>>

-----------------------------------------------------------------------------
(* Subscribers.                                                             *)

SubBegin(s) ==
    /\ spc[s] = "begin"
    /\ idx' = [idx EXCEPT ![s] = head_idx] /\ spc' = [spc EXCEPT ![s] = "next"]
    /\ UNCHANGED <<ring, pool, pc, count, locals, ref, msg, published, got>>

\* broadcast_sub_next; nothing new returns false, and the test calls again.
SubNext(s) ==
    /\ spc[s] = "next" /\ idx[s] # tail_idx
    /\ spc' = [spc EXCEPT ![s] = "ref"]
    /\ UNCHANGED <<ring, pool, pc, count, locals, idx, ref, msg, published, got>>

\* The reference; one with another tag means that the message was dropped.
SubRef(s) ==
    LET r == slots[Slot(idx[s])] IN
    /\ spc[s] = "ref"
    /\ IF r.tag = idx[s]
         THEN spc' = [spc EXCEPT ![s] = "copy"] /\ ref' = [ref EXCEPT ![s] = r] /\ UNCHANGED idx
         ELSE spc' = [spc EXCEPT ![s] = "next"] /\ idx' = [idx EXCEPT ![s] = @ + 1]
              /\ UNCHANGED ref
    /\ UNCHANGED <<ring, pool, pc, count, locals, msg, published, got>>

\* The message.  In a free element the size is part of the link, an offset greater
\* than any message (or 0 in the last one): try again.
SubCopy(s) ==
    LET m == mem[ref[s].val] IN
    /\ spc[s] = "copy"
    /\ IF IsMsg(m) \/ m = NullRef
         THEN spc' = [spc EXCEPT ![s] = "check"] /\ msg' = [msg EXCEPT ![s] = m] /\ UNCHANGED ref
         ELSE spc' = [spc EXCEPT ![s] = "next"] /\ ref' = [ref EXCEPT ![s] = NullRef]
              /\ UNCHANGED msg
    /\ UNCHANGED <<ring, pool, pc, count, locals, idx, published, got>>

\* "Data hanged while reading? Drop it": the reference again.
SubCheck(s) ==
    /\ spc[s] = "check"
    /\ got' = IF slots[Slot(idx[s])] = ref[s]
              THEN [got EXCEPT ![s] = @ \cup {[at |-> idx[s], m |-> msg[s], kept |-> idx[s] >= head_idx]}]
              ELSE got
    /\ idx' = [idx EXCEPT ![s] = @ + 1] /\ spc' = [spc EXCEPT ![s] = "next"]
    /\ ref' = [ref EXCEPT ![s] = NullRef] /\ msg' = [msg EXCEPT ![s] = NullRef]
    /\ UNCHANGED <<ring, pool, pc, count, locals, published>>

Pub(p) ==
    \/ AcquireHead(p) \/ AcquireNext(p) \/ AcquirePop(p) \/ Fill(p)
    \/ LoadHead(p) \/ LoadTail(p) \/ LoadSlot(p) \/ AdvanceTail(p) \/ Append(p)
    \/ DropLoad(p) \/ DropHead(p) \/ ReleaseLoad(p) \/ ReleasePush(p)
Sub(s) == SubBegin(s) \/ SubNext(s) \/ SubRef(s) \/ SubCopy(s) \/ SubCheck(s)

Next == (\E p \in Publishers : Pub(p)) \/ (\E s \in Subscribers : Sub(s))

Fairness == \A p \in Publishers : WF_vars(Pub(p))

Spec == Init /\ [][Next]_vars

-----------------------------------------------------------------------------
\* The free list, from its first element.
Free ==
    LET reach[n \in 0..Depth + Spare] ==
            IF n = 0 THEN {pool_head.val} \cap Elts
            ELSE reach[n - 1] \cup ({mem[e].val : e \in reach[n - 1]} \cap Elts)
    IN  reach[Depth + Spare]

Live == {i \in Indices : i >= head_idx}

\* Elements are neither lost nor shared, through all exchanges of pool head and head_idx:
\* each is free, held by one publisher, being released by one, or in one live slot.
ElementsAreExclusive ==
    LET places(e) == <<e \in Free,
                       {p \in Publishers : elt[p] = e /\ pc[p] # "last"},
                       {p \in Publishers : drop[p] = e},
                       {i \in Live : slots[Slot(i)] = Ref(i, e)}>>
    IN  \A e \in Elts :
          (IF places(e)[1] THEN 1 ELSE 0) + Cardinality(places(e)[2])
              + Cardinality(places(e)[3]) + Cardinality(places(e)[4]) = 1

\* The live messages are the latest ones, at most Depth of them, each in its slot with its
\* element untouched; tail_idx is at most one behind.
RingKeepsLatest ==
    /\ Indices = 1..Cardinality(Indices)
    /\ Cardinality(Live) <= Depth /\ Cardinality(Indices) - tail_idx \in {-1, 0}
    /\ \A i \in Live : slots[Slot(i)].tag = i /\ mem[slots[Slot(i)].val] = published[i]

\* broadcast_pub does not fail ("assert(success)" in the test) as long as there are two
\* spare elements for each publisher, one that it fills and one that it releases.
PubSucceeds == \A p \in Publishers : pc[p] # "failed"

\* What a subscriber gets for an index that is still in the ring when it checks the
\* reference is the message published there.
KeptIsExact ==
    \A s \in Subscribers : \A g \in got[s] : g.kept => published[g.at] = g.m

\* "Data hanged while reading? Drop it" (broadcast.c:175): what a subscriber gets for an
\* index is the message published there.
GotIsPublished ==
    \A s \in Subscribers : \A g \in got[s] : published[g.at] = g.m

\* Lock-free: with all publishers running, all of them finish.
AllPublished == <>(\A p \in Publishers : count[p] = Messages[p])
=============================================================================
