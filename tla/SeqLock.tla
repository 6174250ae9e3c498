------------------------------- MODULE SeqLock -------------------------------
(***************************************************************************)
(* The sequence lock of seqlock/seqlock.c: seqlock_read and seqlock_write  *)
(* by any number of readers and writers, word by word as atomic_memcpy     *)
(* does it.  sync is a uint32_t in the code; here it counts modulo SeqMod. *)
(*                                                                         *)
(* seen and since are history variables of a reader's current attempt: the *)
(* record when it loaded sync, and the number of increments of sync since. *)
(***************************************************************************)
EXTENDS Naturals

CONSTANTS
    Readers,    \* threads that call seqlock_read
    Writers,    \* threads that call seqlock_write
    Values,     \* what one word of the record may hold
    NWords,     \* number of words atomic_memcpy copies one by one
    SeqMod      \* the modulus of seqlock_t, 2^32 in the code

ASSUME NWordsAssumption == NWords \in Nat \ {0}
ASSUME SeqModAssumption == SeqMod \in Nat /\ SeqMod > 3 /\ SeqMod % 2 = 0

Words   == 1 .. NWords
Records == [Words -> Values]

VARIABLES
    sync,       \* the sequence number, odd while a writer is inside
    data,       \* the shared record
    rpc, prv, rat, buf,     \* readers: control, prv, next word, dst
    wpc, old, wat, src,     \* writers: control, l/cur, next word, src
    seen, since             \* history of a reader's attempt

rvars == <<rpc, prv, rat, buf, seen>>
wvars == <<wpc, old, wat, src>>
vars  == <<sync, data, rpc, prv, rat, buf, wpc, old, wat, src, seen, since>>

WriterInside(n) == n % 2 = 1    \* n & SEQLOCK_WRITER

\* Mutant: a counter that does not wrap around.
Plus1_NoWrap(n) == n + 1

\* seqlock_t arithmetic wraps around.
Plus1(n) == IF n + 1 = SeqMod THEN 0 ELSE n + 1

Reading == {r \in Readers : rpc[r] \in {"copy", "check"}}

\* History: every increment of sync is one more since each reader's load of it.
CountIncrement ==
    since' = [r \in Readers |-> IF r \in Reading THEN since[r] + 1 ELSE 0]

\* Bound: no attempt to read is overtaken by SeqMod/2 writes (2^31 in the
\* code); an attempt that slept through that many could be fooled.
NotLapped == \A r \in Reading : since[r] + 2 < SeqMod

Init ==
    /\ sync = 0                               \* seqlock_init
    /\ data \in Records
    /\ rpc = [r \in Readers |-> "idle"]
    /\ prv = [r \in Readers |-> 0]
    /\ rat = [r \in Readers |-> 1]
    /\ buf = [r \in Readers |-> data]
    /\ wpc = [w \in Writers |-> "idle"]
    /\ old = [w \in Writers |-> 0]
    /\ wat = [w \in Writers |-> 1]
    /\ src = [w \in Writers |-> data]
    /\ seen = [r \in Readers |-> data]
    /\ since = [r \in Readers |-> 0]

RGoto(r, from, to) == rpc[r] = from /\ rpc' = [rpc EXCEPT ![r] = to]
WGoto(w, from, to) == wpc[w] = from /\ wpc' = [wpc EXCEPT ![w] = to]

-----------------------------------------------------------------------------
(* seqlock_read *)

ReadCall(r) ==
    /\ RGoto(r, "idle", "acquire")
    /\ UNCHANGED <<sync, data, prv, rat, buf, wvars, seen, since>>

\* seqlock_acquire_rd: the load that ends wait_for_no_writer.
AcquireRd(r) ==
    /\ ~WriterInside(sync)
    /\ RGoto(r, "acquire", "copy")
    /\ prv'   = [prv EXCEPT ![r] = sync]
    /\ rat'   = [rat EXCEPT ![r] = 1]
    /\ seen'  = [seen EXCEPT ![r] = data]
    /\ since' = [since EXCEPT ![r] = 0]
    /\ UNCHANGED <<sync, data, buf, wvars>>

\* atomic_memcpy, one word.
CopyOut(r) ==
    /\ RGoto(r, "copy", IF rat[r] = NWords THEN "check" ELSE "copy")
    /\ buf' = [buf EXCEPT ![r] = [@ EXCEPT ![rat[r]] = data[rat[r]]]]
    /\ rat' = [rat EXCEPT ![r] = @ + 1]
    /\ UNCHANGED <<sync, data, prv, wvars, seen, since>>

\* Mutant: only tests that no writer is inside now.
ReleaseRd_Parity(r) ==
    /\ RGoto(r, "check", IF WriterInside(sync) THEN "acquire" ELSE "done")
    /\ UNCHANGED <<sync, data, prv, rat, buf, wvars, seen, since>>

\* Mutant: copies again without a new sequence number.
ReleaseRd_NoReload(r) ==
    /\ RGoto(r, "check", IF sync = prv[r] THEN "done" ELSE "copy")
    /\ rat' = [rat EXCEPT ![r] = 1]
    /\ UNCHANGED <<sync, data, prv, buf, wvars, seen, since>>

\* seqlock_release_rd: keep the copy if sync is unchanged, else start again.
ReleaseRd(r) ==
    /\ RGoto(r, "check", IF sync = prv[r] THEN "done" ELSE "acquire")
    /\ UNCHANGED <<sync, data, prv, rat, buf, wvars, seen, since>>

ReadReturn(r) ==
    /\ RGoto(r, "done", "idle")
    /\ UNCHANGED <<sync, data, prv, rat, buf, wvars, seen, since>>

-----------------------------------------------------------------------------
(* seqlock_write *)

WriteCall(w) ==
    /\ WGoto(w, "idle", "load")
    /\ \E rec \in Records : src' = [src EXCEPT ![w] = rec]
    /\ UNCHANGED <<sync, data, rvars, old, wat, since>>

\* seqlock_acquire_wr: wait_for_no_writer, then try to set the writer flag.
AcquireWrLoad(w) ==
    /\ ~WriterInside(sync)
    /\ WGoto(w, "load", "cas")
    /\ old' = [old EXCEPT ![w] = sync]
    /\ UNCHANGED <<sync, data, rvars, wat, src, since>>

\* Mutant: a store instead of the compare-and-exchange.
AcquireWrCas_Store(w) ==
    /\ NotLapped
    /\ WGoto(w, "cas", "copy")
    /\ wat' = [wat EXCEPT ![w] = 1]
    /\ sync' = Plus1(old[w])
    /\ CountIncrement
    /\ UNCHANGED <<data, rvars, old, src>>

AcquireWrCas(w) ==
    /\ sync = old[w]
    /\ NotLapped
    /\ WGoto(w, "cas", "copy")
    /\ wat' = [wat EXCEPT ![w] = 1]
    /\ sync' = Plus1(old[w])
    /\ CountIncrement
    /\ UNCHANGED <<data, rvars, old, src>>

\* Mutant: tries again with the old sequence number.
AcquireWrRetry_NoReload(w) ==
    /\ WGoto(w, "cas", "cas")
    /\ UNCHANGED <<sync, data, rvars, old, wat, src, since>>

\* A weak compare-and-exchange may also fail when the values agree.
AcquireWrRetry(w) ==
    /\ WGoto(w, "cas", "load")
    /\ UNCHANGED <<sync, data, rvars, old, wat, src, since>>

\* atomic_memcpy, one word.
CopyIn(w) ==
    /\ WGoto(w, "copy", IF wat[w] = NWords THEN "relload" ELSE "copy")
    /\ data' = [data EXCEPT ![wat[w]] = src[w][wat[w]]]
    /\ wat'  = [wat EXCEPT ![w] = @ + 1]
    /\ UNCHANGED <<sync, rvars, old, src, since>>

\* seqlock_release_wr: an even sync is refused ("invalid write release").
ReleaseWrLoad(w) ==
    /\ WGoto(w, "relload", IF WriterInside(sync) THEN "relstore" ELSE "idle")
    /\ old' = [old EXCEPT ![w] = sync]
    /\ UNCHANGED <<sync, data, rvars, wat, src, since>>

ReleaseWrStore(w) ==
    /\ WGoto(w, "relstore", "idle")
    /\ sync' = Plus1(old[w])
    /\ CountIncrement
    /\ UNCHANGED <<data, rvars, old, wat, src>>

-----------------------------------------------------------------------------
ReadStep(r) == AcquireRd(r) \/ CopyOut(r) \/ ReleaseRd(r) \/ ReadReturn(r)

\* A successful or a failed compare-and-exchange, then the rest of the write.
WriteStep(w) ==
    \/ AcquireWrLoad(w) \/ AcquireWrCas(w) \/ AcquireWrRetry(w)
    \/ CopyIn(w) \/ ReleaseWrLoad(w) \/ ReleaseWrStore(w)

Next ==
    \/ \E r \in Readers : ReadCall(r) \/ ReadStep(r)
    \/ \E w \in Writers : WriteCall(w) \/ WriteStep(w)

Spec == Init /\ [][Next]_vars

\* Threads inside seqlock_read and seqlock_write keep running; the weak
\* compare-and-exchange does not fail for ever when the values agree.
Fairness ==
    /\ \A r \in Readers : WF_vars(ReadStep(r))
    /\ \A w \in Writers : WF_vars(WriteStep(w)) /\ SF_vars(AcquireWrCas(w))
FairSpec == Spec /\ Fairness

-----------------------------------------------------------------------------
TypeOK ==
    /\ sync  \in 0 .. SeqMod - 1
    /\ data  \in Records
    /\ rpc   \in [Readers -> {"idle", "acquire", "copy", "check", "done"}]
    /\ prv   \in [Readers -> 0 .. SeqMod - 1]
    /\ rat   \in [Readers -> 1 .. NWords + 1]
    /\ buf   \in [Readers -> Records]
    /\ wpc   \in [Writers -> {"idle", "load", "cas", "copy", "relload", "relstore"}]
    /\ old   \in [Writers -> 0 .. SeqMod - 1]
    /\ wat   \in [Writers -> 1 .. NWords + 1]
    /\ src   \in [Writers -> Records]
    /\ seen  \in [Readers -> Records]
    /\ since \in [Readers -> 0 .. SeqMod - 1]

\* No torn read: what seqlock_read returns is the whole record as it was when
\* the reader loaded sync, although it was copied word by word while writers
\* ran, and although sync wraps around.
ReadIsSnapshot == \A r \in Readers : rpc[r] = "done" => buf[r] = seen[r]

Inside(w) == wpc[w] \in {"copy", "relload", "relstore"}

\* Writers exclude each other: one at a time between the flag being set and
\* cleared, so seqlock_release_wr is never refused.
OneWriterInside ==
    \A v, w \in Writers :
        /\ Inside(v) => WriterInside(sync)
        /\ Inside(v) /\ Inside(w) => v = w

\* A read cannot be starved by anything but writers: once they stay away,
\* every seqlock_read returns.
ReadsEndWhenWritersStop ==
    \A r \in Readers :
        <>[](\A w \in Writers : wpc[w] = "idle") =>
            (rpc[r] = "acquire" ~> rpc[r] = "done")

\* Every seqlock_write that found no writer either gets in or is overtaken by
\* another one that does: the writers as a whole never stop.
SomeWriterGetsIn ==
    (\E w \in Writers : wpc[w] = "cas") ~> (\E w \in Writers : wpc[w] = "copy")
=============================================================================
