------------------------------- MODULE LFTimer -------------------------------
(***************************************************************************)
(* lf-timer/lf_timer.c: timers whose expirations are kept in an array, with *)
(* the earliest one in a cache that saves scans, and a free list.           *)
(*                                                                          *)
(* A loop around a compare-and-exchange that changes nothing when it fails  *)
(* (update_earliest, update_expiration, expire_one_timer, tick_set, the     *)
(* maximum of hi_watermark) is one step; the loops of the free list, which  *)
(* read several words first, are not.  The scan reads two entries ahead of  *)
(* the pair it works on.                                                    *)
(***************************************************************************)
EXTENDS Integers, Sequences, FiniteSets

CONSTANTS
    Threads,        \* threads that use the timers
    MAXTIMERS,
    MaxTick,        \* bound: ticks and expiration times
    Calls           \* bound: calls of all threads together

INVALID == MaxTick + 1          \* LF_TIMER_TICK_INVALID, larger than every tick
Timers == 0 .. MAXTIMERS - 1
Sentinels == MAXTIMERS .. MAXTIMERS + 3
Nil == -1

VARIABLES
    earliest, current, hi_watermark, expirations,
    cb, arg,        \* of a timer: whether it has a callback; its successor in the free list
    freelist,       \* [head, count]
    pc, idx, exp,   \* of a thread: control, the timer and the time of its call,
    old, nxt,       \*   the free list as it was read, and the successor of its head,
    now, top, got, done, min,   \* lf_timer_expire: got is what the scan has read so far
    calls,
    owned, orphans  \* history: allocated timers; threads that expired a timer which was then
                    \*   freed, or which another thread has taken and not yet filled

cache  == <<earliest, current, hi_watermark, expirations>>
timers == <<cb, arg, freelist>>
call   == <<idx, exp, old, nxt>>
scan   == <<now, top, got, done, min>>
history == <<owned, orphans>>
vars   == <<cache, timers, pc, call, scan, calls, history>>

TypeOK ==
    /\ earliest \in 0 .. INVALID /\ current \in 0 .. MaxTick /\ hi_watermark \in 0 .. MAXTIMERS
    /\ expirations \in [Timers \cup Sentinels -> 0 .. INVALID]
    /\ cb \in [Timers -> BOOLEAN] /\ arg \in [Timers -> Timers \cup {Nil}]
    /\ freelist \in [head : Timers \cup {Nil}, count : Nat]
    /\ \A t \in Threads : Len(got[t]) <= MAXTIMERS + 4 /\ done[t] <= Len(got[t])

\* init_timers, and timer 0 was allocated.
Init ==
    /\ earliest = INVALID /\ current = 0 /\ hi_watermark = 1
    /\ expirations = [i \in Timers \cup Sentinels |-> IF i = 0 THEN INVALID ELSE 0]
    /\ cb = [i \in Timers |-> i = 0]
    /\ arg = [i \in Timers |-> IF i = 0 \/ i = MAXTIMERS - 1 THEN Nil ELSE i + 1]
    /\ freelist = [head |-> IF MAXTIMERS > 1 THEN 1 ELSE Nil, count |-> 1]
    /\ pc = [t \in Threads |-> "idle"] /\ calls = 0
    /\ idx = [t \in Threads |-> Nil] /\ exp = [t \in Threads |-> INVALID]
    /\ old = [t \in Threads |-> [head |-> Nil, count |-> 0]] /\ nxt = [t \in Threads |-> Nil]
    /\ now = [t \in Threads |-> 0] /\ top = [t \in Threads |-> 0]
    /\ got = [t \in Threads |-> <<>>] /\ done = [t \in Threads |-> 0]
    /\ min = [t \in Threads |-> INVALID]
    /\ owned = {0} /\ orphans = {}

Goto(t, from, to) == pc[t] = from /\ pc' = [pc EXCEPT ![t] = to]
Least(a, b) == IF a <= b THEN a ELSE b

Begin(t, to) == Goto(t, "idle", to) /\ calls < Calls /\ calls' = calls + 1

\* Local variables that are not used again.
Clear(t) ==
    /\ idx' = [idx EXCEPT ![t] = Nil] /\ exp' = [exp EXCEPT ![t] = INVALID]
    /\ old' = [old EXCEPT ![t] = [head |-> Nil, count |-> 0]] /\ nxt' = [nxt EXCEPT ![t] = Nil]

-----------------------------------------------------------------------------
(* lf_timer_tick_set; lf_timer_set, lf_timer_reset and lf_timer_cancel.     *)

TickSet(t, tck) ==
    /\ Begin(t, "idle")
    /\ current' = IF tck <= current THEN current ELSE tck
    /\ UNCHANGED <<earliest, hi_watermark, expirations, timers, call, scan, history>>

\* update_expiration: active says whether the timer has to be active before.
UpdateExpiration(t, i, e, active) ==
    LET ok == /\ i < hi_watermark
              /\ active <=> expirations[i] # INVALID
    IN  /\ i \in owned
        /\ Begin(t, IF ok /\ e # INVALID THEN "update" ELSE "idle")
        /\ expirations' = IF ok THEN [expirations EXCEPT ![i] = e] ELSE expirations
        /\ exp' = IF ok /\ e # INVALID THEN [exp EXCEPT ![t] = e] ELSE exp
        /\ idx' = IF ok /\ e # INVALID THEN [idx EXCEPT ![t] = i] ELSE idx
        /\ UNCHANGED <<earliest, current, hi_watermark, timers, old, nxt, scan, history>>

UpdateEarliest(t) ==
    /\ Goto(t, "update", "idle")
    /\ earliest' = Least(earliest, exp[t])
    /\ Clear(t)
    /\ UNCHANGED <<current, hi_watermark, expirations, timers, scan, calls, history>>

-----------------------------------------------------------------------------
(* lf_timer_expire.                                                         *)

LoadNow(t) ==
    /\ Begin(t, "earliest") /\ now' = [now EXCEPT ![t] = current]
    /\ UNCHANGED <<cache, timers, call, top, got, done, min, history>>

LoadEarliest(t) ==
    /\ Goto(t, "earliest", IF earliest <= now[t] THEN "reset" ELSE "idle")
    /\ UNCHANGED <<cache, timers, call, scan, calls, history>>

ResetEarliest(t) ==
    /\ Goto(t, "reset", "top") /\ earliest' = INVALID
    /\ UNCHANGED <<current, hi_watermark, expirations, timers, call, scan, calls, history>>

LoadTop(t) ==
    /\ Goto(t, "top", "scan") /\ top' = [top EXCEPT ![t] = hi_watermark]
    /\ UNCHANGED <<cache, timers, call, now, got, done, min, calls, history>>

\* The pairs are read one pair ahead of the one that is worked on.
Ahead(t) == done[t] - (done[t] % 2) + 4

ScanLoad(t) ==
    /\ Goto(t, "scan", "scan") /\ Len(got[t]) < Ahead(t)
    /\ got' = [got EXCEPT ![t] = Append(@, expirations[Len(@)])]
    /\ UNCHANGED <<cache, timers, call, now, top, done, min, calls, history>>

\* A thread has taken timer i from the free list and not yet made its entry inactive.
Unfilled(i) == \E u \in Threads : pc[u] = "fill" /\ old[u].head = i

\* The next entry: not due, or the end of the array, or expire_one_timer, which looks
\* at the expiration again.
ScanOne(t) ==
    LET i == done[t]
        w == got[t][i + 1]
        due == w <= now[t]
    IN  /\ pc[t] = "scan" /\ Len(got[t]) = Ahead(t)
        /\ \/ /\ ~due /\ done' = [done EXCEPT ![t] = i + 1]
              /\ min' = [min EXCEPT ![t] = Least(@, w)]
              /\ UNCHANGED <<expirations, pc, idx, orphans>>
           \/ /\ due /\ i >= top[t] /\ Goto(t, "scan", "finish")
              /\ UNCHANGED <<expirations, done, min, idx, orphans>>
           \/ /\ due /\ i < top[t] /\ done' = [done EXCEPT ![t] = i + 1]
              /\ IF expirations[i] <= now[t]
                   THEN /\ expirations' = [expirations EXCEPT ![i] = INVALID]
                        /\ idx' = [idx EXCEPT ![t] = i] /\ Goto(t, "scan", "callback")
                        /\ orphans' = orphans \cup {v \in {t} : Unfilled(i)}
                   ELSE UNCHANGED <<expirations, pc, idx, orphans>>
              /\ UNCHANGED min
        /\ UNCHANGED <<earliest, current, hi_watermark, timers, exp, old, nxt, now, top, got,
                       calls, owned>>

Callback(t) ==
    /\ Goto(t, "callback", "scan")
    /\ idx' = [idx EXCEPT ![t] = Nil] /\ orphans' = orphans \ {t}
    /\ UNCHANGED <<cache, timers, exp, old, nxt, scan, calls, owned>>

\* Mutant: the minimum of the scan is stored, whatever was set meanwhile.
Finish_Store(t) ==
    /\ Goto(t, "finish", "idle")
    /\ earliest' = min[t]
    /\ now' = [now EXCEPT ![t] = 0] /\ top' = [top EXCEPT ![t] = 0]
    /\ got' = [got EXCEPT ![t] = <<>>] /\ done' = [done EXCEPT ![t] = 0]
    /\ min' = [min EXCEPT ![t] = INVALID]
    /\ UNCHANGED <<current, hi_watermark, expirations, timers, call, calls, history>>

Finish(t) ==
    /\ Goto(t, "finish", "idle")
    /\ earliest' = Least(earliest, min[t])
    /\ now' = [now EXCEPT ![t] = 0] /\ top' = [top EXCEPT ![t] = 0]
    /\ got' = [got EXCEPT ![t] = <<>>] /\ done' = [done EXCEPT ![t] = 0]
    /\ min' = [min EXCEPT ![t] = INVALID]
    /\ UNCHANGED <<current, hi_watermark, expirations, timers, call, calls, history>>

-----------------------------------------------------------------------------
(* lf_timer_alloc.                                                          *)

AllocCount(t) ==
    /\ Begin(t, "alloc") /\ old' = [old EXCEPT ![t].count = freelist.count]
    /\ UNCHANGED <<cache, timers, idx, exp, nxt, scan, history>>

AllocHead(t) ==
    /\ Goto(t, "alloc", IF freelist.head = Nil THEN "idle" ELSE "arg")
    /\ IF freelist.head = Nil THEN Clear(t)
       ELSE old' = [old EXCEPT ![t].head = freelist.head] /\ UNCHANGED <<idx, exp, nxt>>
    /\ UNCHANGED <<cache, timers, scan, calls, history>>

AllocArg(t) ==
    /\ Goto(t, "arg", "pop") /\ nxt' = [nxt EXCEPT ![t] = arg[old[t].head]]
    /\ UNCHANGED <<cache, timers, idx, exp, old, scan, calls, history>>

\* Mutant: the exchange compares the head and not the count.
AllocPop_NoCount(t) ==
    /\ IF freelist.head = old[t].head
         THEN /\ freelist' = [head |-> nxt[t], count |-> old[t].count + 1]
              /\ Goto(t, "pop", "fill") /\ UNCHANGED old
         ELSE /\ old' = [old EXCEPT ![t] = [head |-> Nil, count |-> freelist.count]]
              /\ Goto(t, "pop", "alloc") /\ UNCHANGED freelist
    /\ UNCHANGED <<cache, cb, arg, idx, exp, nxt, scan, calls, history>>

AllocPop(t) ==
    /\ IF freelist = old[t]
         THEN /\ freelist' = [head |-> nxt[t], count |-> old[t].count + 1]
              /\ Goto(t, "pop", "fill") /\ UNCHANGED old
         ELSE /\ old' = [old EXCEPT ![t] = [head |-> Nil, count |-> freelist.count]]
              /\ Goto(t, "pop", "alloc") /\ UNCHANGED freelist
    /\ UNCHANGED <<cache, cb, arg, idx, exp, nxt, scan, calls, history>>

\* The entry is made inactive before the callback and the argument are stored.
AllocFill(t) ==
    LET i == old[t].head IN
    /\ Goto(t, "fill", "watermark")
    /\ expirations' = [expirations EXCEPT ![i] = INVALID]
    /\ cb' = [cb EXCEPT ![i] = TRUE] /\ arg' = [arg EXCEPT ![i] = Nil]
    /\ UNCHANGED <<earliest, current, hi_watermark, freelist, call, scan, calls, history>>

AllocWatermark(t) ==
    /\ Goto(t, "watermark", "idle")
    /\ hi_watermark' = IF old[t].head + 1 <= hi_watermark THEN hi_watermark ELSE old[t].head + 1
    /\ owned' = owned \cup {old[t].head} /\ Clear(t)
    /\ UNCHANGED <<earliest, current, expirations, timers, scan, calls, orphans>>

-----------------------------------------------------------------------------
(* lf_timer_free, of a timer that no other call is at work on.              *)

Free(t, i) ==
    LET active == expirations[i] # INVALID IN
    /\ i \in owned /\ \A u \in Threads : pc[u] = "update" => idx[u] # i
    /\ Begin(t, IF i >= hi_watermark \/ active THEN "idle" ELSE "push_head")
    /\ idx' = IF i >= hi_watermark \/ active THEN idx ELSE [idx EXCEPT ![t] = i]
    /\ owned' = IF i >= hi_watermark \/ active THEN owned ELSE owned \ {i}
    /\ UNCHANGED <<cache, timers, exp, old, nxt, scan, orphans>>

\* The free list is copied word by word.
PushHead(t) ==
    /\ Goto(t, "push_head", "push_count") /\ old' = [old EXCEPT ![t].head = freelist.head]
    /\ UNCHANGED <<cache, timers, idx, exp, nxt, scan, calls, history>>

PushCount(t) ==
    /\ Goto(t, "push_count", "push")
    /\ old' = [old EXCEPT ![t].count = freelist.count]
    /\ cb' = [cb EXCEPT ![idx[t]] = FALSE] /\ arg' = [arg EXCEPT ![idx[t]] = old[t].head]
    /\ orphans' = orphans \cup {u \in Threads : pc[u] = "callback" /\ idx[u] = idx[t]}
    /\ UNCHANGED <<cache, freelist, idx, exp, nxt, scan, calls, owned>>

Push(t) ==
    /\ IF freelist = old[t]
         THEN /\ freelist' = [head |-> idx[t], count |-> old[t].count + 1]
              /\ Goto(t, "push", "idle") /\ Clear(t)
         ELSE Goto(t, "push", "push_head") /\ UNCHANGED <<freelist, call>>
    /\ UNCHANGED <<cache, cb, arg, scan, calls, history>>

Next ==
    \E t \in Threads :
        \/ \E tck \in 1 .. MaxTick : TickSet(t, tck)
        \/ \E i \in Timers, e \in 1 .. MaxTick, active \in BOOLEAN : UpdateExpiration(t, i, e, active)
        \/ \E i \in Timers : UpdateExpiration(t, i, INVALID, TRUE) \/ Free(t, i)
        \/ UpdateEarliest(t)
        \/ LoadNow(t) \/ LoadEarliest(t) \/ ResetEarliest(t) \/ LoadTop(t)
        \/ ScanLoad(t) \/ ScanOne(t) \/ Callback(t) \/ Finish(t)
        \/ AllocCount(t) \/ AllocHead(t) \/ AllocArg(t) \/ AllocPop(t) \/ AllocFill(t)
        \/ AllocWatermark(t)
        \/ PushHead(t) \/ PushCount(t) \/ Push(t)

Spec == Init /\ [][Next]_vars

-----------------------------------------------------------------------------
\* An allocated timer that is active is never forgotten: earliest is not later than it, or
\* will be, by the thread that set it or by a scan that has it before it or in its minimum.
NoTimerForgotten ==
    LET scanned(t, i) ==
            \/ pc[t] = "top"
            \/ /\ pc[t] \in {"scan", "callback"} /\ i < top[t]
               /\ \/ Len(got[t]) <= i
                  \/ done[t] <= i /\ got[t][i + 1] <= expirations[i]
            \/ pc[t] \in {"scan", "callback", "finish"} /\ min[t] <= expirations[i]
    IN  \A i \in owned : expirations[i] # INVALID =>
            \/ earliest <= expirations[i]
            \/ \E t \in Threads : pc[t] = "update" /\ exp[t] <= expirations[i]
            \/ \E t \in Threads : scanned(t, i)

\* The timers in the free list: what is in every set that has its head and goes on with arg.
Follows(S) == freelist.head \in S \cup {Nil} /\ \A i \in S : arg[i] \in S \cup {Nil}
FreeTimers == {i \in Timers : \A S \in SUBSET Timers : Follows(S) => i \in S}

\* Who has taken timer i from the free list, or is about to put it back.
Hands(i) == {t \in Threads : \/ pc[t] \in {"fill", "watermark"} /\ old[t].head = i
                             \/ pc[t] \in {"push_head", "push_count", "push"} /\ idx[t] = i}

\* A timer is in the free list, allocated, or on its way from one to the other, and never
\* in two hands; a timer that expires is allocated and has its callback, unless it was freed
\* meanwhile, or another thread raised the watermark over it before it was filled.
TimersAreAccounted ==
    /\ \A i \in Timers :
          IF i \in FreeTimers \cup owned
          THEN Hands(i) = {} /\ ~(i \in FreeTimers /\ i \in owned)
          ELSE \E t \in Threads : Hands(i) = {t}
    /\ \A t \in Threads \ orphans : pc[t] = "callback" => cb[idx[t]]
=============================================================================
