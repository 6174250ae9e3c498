------------------------------ MODULE ShmRing ------------------------------
(***************************************************************************)
(* ringbuf-shm/ringbuffer.c: a ring of bytes for messages of any length,    *)
(* one producer and one consumer, in one process (test_threaded) or in two  *)
(* that share memory (test_shared).                                         *)
(*                                                                          *)
(* A message is an element header and its padded payload, in one piece; if  *)
(* it does not fit before the end of the buffer, a gap element fills the    *)
(* rest.  Positions are bytes, of which a header has Hdr (8 in the code).   *)
(* mem maps the aligned positions to what was stored there: a header        *)
(* [size, gap], or the counter that the test writes all over the payload.   *)
(* Writing a message and reading one are one action each: PrivateRegions    *)
(* says that they never touch the same bytes.                               *)
(*                                                                          *)
(* With shared memory the process that creates the object initialises it    *)
(* and the other one uses it at once; creator is that process, or "main".   *)
(***************************************************************************)
EXTENDS Integers, FiniteSets

CONSTANTS
    Body,       \* the size of the buffer, a power of 2
    Hdr,        \* sizeof(ringbuf_element_t), also the alignment
    Lengths,    \* lengths of messages, padded, as the producer draws them
    Iterations, \* messages; more than the buffer can hold
    WordMod     \* 2^64

VARIABLES
    size, mask, head, tail, mem, rsvd, gapd,    \* ringbuf_t
    creator, opened,    \* who creates the memory; who has mapped it
    ppc, sent, at, len, \* producer: control, cnt, ptr - buf - Hdr, written
    cpc, received, from, toread,    \* consumer: control, cnt, ptr - buf - Hdr, toread
    early               \* history: a head was masked before the mask was there

ring == <<size, mask, head, tail, mem, rsvd, gapd>>
prod == <<ppc, sent, at, len>>
cons == <<cpc, received, from, toread>>
vars == <<ring, creator, opened, prod, cons, early>>

Positions    == {i * Hdr : i \in 0..(Body \div Hdr) - 1}
PAD(n)       == ((n + Hdr - 1) \div Hdr) * Hdr
And(x, m)    == IF m = 0 THEN 0 ELSE x % Body       \* x & mask: the mask is 0 or Body - 1
Header(n, g) == [size |-> n, gap |-> g]
Word(c)      == [size |-> c, gap |-> 2]             \* a word of the payload

TypeOK ==
    /\ size \in {0, Body} /\ mask \in {0, Body - 1}
    /\ {head, tail} \subseteq Positions
    /\ rsvd \in 0..Body /\ gapd \in {0} \cup Positions
    /\ opened \subseteq {"producer", "consumer"}
    /\ ppc \in {"open", "init", "size", "mask", "request", "write", "advance", "done"}
    /\ cpc \in {"open", "init", "size", "mask", "request", "read", "advance", "done", "assert"}
    /\ sent \in 0..Iterations /\ received \in 0..Iterations

\* New memory is zero.  test_threaded: main has called ringbuf_new.
Init ==
    /\ creator \in {"main", "producer", "consumer"} /\ opened = {}
    /\ IF creator = "main" THEN size = Body /\ mask = Body - 1 ELSE size = 0 /\ mask = 0
    /\ head = 0 /\ tail = 0 /\ rsvd = 0 /\ gapd = 0
    /\ mem = [i \in Positions |-> Header(0, 0)]
    /\ ppc = (IF creator = "main" THEN "request" ELSE "open") /\ cpc = ppc
    /\ sent = 0 /\ at = 0 /\ len = 0 /\ received = 0 /\ from = 0 /\ toread = 0
    /\ early = FALSE

-----------------------------------------------------------------------------
(* ringbuf_shm_init.  The creator opens first; it then runs ringbuf_init.   *)

Control(me, l) ==
    IF me = "producer" THEN ppc' = l /\ UNCHANGED cpc ELSE cpc' = l /\ UNCHANGED ppc

At(me, l) == IF me = "producer" THEN ppc = l ELSE cpc = l

ShmOpen(me) ==
    /\ At(me, "open") /\ (me # creator => creator \in opened)
    /\ opened' = opened \cup {me}
    /\ Control(me, IF me = creator THEN "init" ELSE "request")
    /\ UNCHANGED <<ring, creator, sent, at, len, received, from, toread, early>>

InitHeadTail(me) ==
    /\ At(me, "init") /\ Control(me, "size")
    /\ head' = 0 /\ tail' = 0
    /\ UNCHANGED <<size, mask, mem, rsvd, gapd, creator, opened, sent, at, len, received,
                   from, toread, early>>

InitSize(me) ==
    /\ At(me, "size") /\ Control(me, "mask")
    /\ size' = Body
    /\ UNCHANGED <<mask, head, tail, mem, rsvd, gapd, creator, opened, sent, at, len,
                   received, from, toread, early>>

InitMask(me) ==
    /\ At(me, "mask") /\ Control(me, "request")
    /\ mask' = size - 1
    /\ UNCHANGED <<size, head, tail, mem, rsvd, gapd, creator, opened, sent, at, len,
                   received, from, toread, early>>

-----------------------------------------------------------------------------
(* The producer.                                                            *)

\* Writable bytes from head on, across the end.  size - 1 wraps when size is 0.
Space ==
    IF head > tail THEN And(tail - head + size, mask) - 1
    ELSE IF head < tail THEN tail - head - 1
    ELSE (size - 1) % WordMod

\* Mutant: the element header needs no room.
Request_NoHeader(n) ==
    LET end  == (head + Space) % WordMod
        len1 == size - head
        len2 == And(end, mask)
        none == [room |-> 0, gap |-> 0]
    IN  IF end > size
          THEN IF len1 >= PAD(n) THEN [room |-> len1, gap |-> 0]
               ELSE IF len2 >= PAD(n) THEN [room |-> len2, gap |-> len1]
               ELSE none
          ELSE IF Space >= PAD(n) THEN [room |-> Space, gap |-> 0] ELSE none

\* ringbuf_write_request_max: where a message of n bytes may go, and how much room
\* there is: at head, or at 0 behind a gap.  "room" is 0 if it does not fit.
Request(n) ==
    LET padded == 2 * Hdr + PAD(n)
        end    == (head + Space) % WordMod
        len1   == size - head
        len2   == And(end, mask)
        none   == [room |-> 0, gap |-> 0]
    IN  IF end > size
          THEN IF len1 >= padded THEN [room |-> len1, gap |-> 0]
               ELSE IF len2 >= padded THEN [room |-> len2, gap |-> len1]
               ELSE none
          ELSE IF Space >= padded THEN [room |-> Space, gap |-> 0] ELSE none

WriteRequest(n) ==
    /\ ppc = "request" /\ sent < Iterations
    /\ rsvd' = Request(n).room /\ gapd' = Request(n).gap
    /\ at' = IF Request(n).gap > 0 THEN 0 ELSE head
    /\ len' = n
    /\ ppc' = IF Request(n).room > 0 THEN "write" ELSE "request"
    /\ UNCHANGED <<size, mask, head, tail, mem, creator, opened, sent, cons, early>>

\* producer_main fills the payload, ringbuf_write_advance writes the headers.
Write ==
    /\ ppc = "write"
    /\ mem' = [i \in Positions |->
                 IF i = at THEN Header(len, 0)
                 ELSE IF i > at /\ i < at + Hdr + len THEN Word(sent)
                 ELSE IF gapd > 0 /\ i = head THEN Header(gapd - Hdr, 1)
                 ELSE mem[i]]
    /\ ppc' = "advance"
    /\ UNCHANGED <<size, mask, head, tail, rsvd, gapd, creator, opened, sent, at, len, cons,
                   early>>

\* Mutant: head is not moved over the gap.
WriteAdvance_NoGap ==
    /\ ppc = "advance"
    /\ head' = And(head + Hdr + PAD(len), mask)
    /\ early' = (early \/ mask = 0)
    /\ sent' = sent + 1 /\ at' = 0 /\ len' = 0
    /\ ppc' = IF sent + 1 = Iterations THEN "done" ELSE "request"
    /\ UNCHANGED <<size, mask, tail, mem, rsvd, gapd, creator, opened, cons>>

\* _ringbuf_write_advance_raw.
WriteAdvance ==
    /\ ppc = "advance"
    /\ head' = And(head + gapd + Hdr + PAD(len), mask)
    /\ early' = (early \/ mask = 0)
    /\ sent' = sent + 1 /\ at' = 0 /\ len' = 0
    /\ ppc' = IF sent + 1 = Iterations THEN "done" ELSE "request"
    /\ UNCHANGED <<size, mask, tail, mem, rsvd, gapd, creator, opened, cons>>

-----------------------------------------------------------------------------
(* The consumer.                                                            *)

\* Mutant: nothing is read when head is behind tail.
Available_NoWrap == IF head > tail THEN head - tail ELSE 0

Available == IF head > tail THEN head - tail ELSE And(head - tail + size, mask)

\* ringbuf_read_request: nothing, the element at tail, or the one behind a gap, for
\* which tail goes to the beginning.
ReadRequest ==
    LET gap   == tail + Available > size /\ mem[tail].gap = 1
        start == IF gap THEN And(tail + (size - tail), mask) ELSE tail
    IN  /\ cpc = "request" /\ received < Iterations /\ Available > 0
        /\ tail' = start
        /\ from' = (IF gap THEN 0 ELSE tail) /\ toread' = mem[from'].size
        /\ cpc' = "read"
        /\ UNCHANGED <<size, mask, head, mem, rsvd, gapd, creator, opened, prod, received,
                       early>>

\* consumer_main compares every word of the payload with its own counter.
Read ==
    /\ cpc = "read"
    /\ cpc' = IF \A i \in Positions : i > from /\ i < from + Hdr + toread => mem[i] = Word(received)
              THEN "advance" ELSE "assert"
    /\ UNCHANGED <<ring, creator, opened, prod, received, from, toread, early>>

\* ringbuf_read_advance, which reads the size again.
ReadAdvance ==
    /\ cpc = "advance"
    /\ tail' = And(tail + Hdr + PAD(mem[tail].size), mask)
    /\ received' = received + 1 /\ from' = 0 /\ toread' = 0
    /\ cpc' = IF received + 1 = Iterations THEN "done" ELSE "request"
    /\ UNCHANGED <<size, mask, head, mem, rsvd, gapd, creator, opened, prod, early>>

Producer == (\E n \in Lengths : WriteRequest(n)) \/ Write \/ WriteAdvance
Consumer == ReadRequest \/ Read \/ ReadAdvance
Setup(me) == ShmOpen(me) \/ InitHeadTail(me) \/ InitSize(me) \/ InitMask(me)

Next == Producer \/ Consumer \/ \E me \in {"producer", "consumer"} : Setup(me)

\* Both loops poll.  The producer draws a new length each time; it draws the shortest
\* again and again.
Shortest == CHOOSE n \in Lengths : \A m \in Lengths : n <= m
Fairness ==
    /\ WF_vars(Write \/ WriteAdvance) /\ WF_vars(Consumer)
    /\ WF_vars(Setup("producer")) /\ WF_vars(Setup("consumer"))
    /\ SF_vars(WriteRequest(Shortest) /\ Request(Shortest).room > 0)

Spec == Init /\ [][Next]_vars

-----------------------------------------------------------------------------
\* Bytes from a to b (excluded), across the end of the buffer.
Region(a, n) == {(a + i) % Body : i \in 0..n - 1}

\* What the producer is going to write (gap and message), and what the consumer is
\* reading (the message and all that is published behind it).
Writing == IF ppc \in {"write", "advance"} THEN Region(head, gapd + Hdr + PAD(len)) ELSE {}
Reading == Region(tail, (head - tail) % Body)

\* The message goes into free memory in one piece, without touching anything that is
\* published and not consumed, and leaves head apart from tail, so that a full ring is
\* not taken for an empty one; "maximum >= written", "written <= rsvd" (assertions).
PrivateRegions ==
    ~early /\ size > 0 /\ mask > 0 =>
        /\ Writing \cap Reading = {}
        /\ ppc \in {"write", "advance"} =>
             /\ at + Hdr + PAD(len) <= Body /\ len <= rsvd
             /\ (head + gapd + Hdr + PAD(len)) % Body # tail

\* Messages arrive whole and in order: the assertion of consumer_main.  With shared
\* memory this takes that the creator has set the mask when the producer first uses it.
MessagesInOrder ==
    ~early => /\ cpc # "assert"
              /\ received <= sent
              /\ sent = received /\ ppc = "request" /\ cpc = "request" /\ size > 0 => head = tail

\* The mask is missing only if the consumer is the process that creates the memory.
EarlyOnlyInRace == early => creator = "consumer"

\* All messages arrive, however the processes start.
AllConsumed == <>(cpc = "done" \/ early)
=============================================================================
