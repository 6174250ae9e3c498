--------------------------- MODULE LFTimer_proofs ---------------------------
(***************************************************************************)
(* The timers of lf-timer/lf_timer.c for any number of threads, timers,     *)
(* ticks and calls.                                                         *)
(*                                                                          *)
(* A thread covers a timer that is earlier than the cache if it has set it, *)
(* or if its scan has the entry still to read, has read what the entry      *)
(* holds and not passed it, or has it in its minimum (CoverInv).  A scan    *)
(* loads hi_watermark after it has reset the cache, and an allocated timer  *)
(* is below the watermark (FreshInv).                                       *)
(*                                                                          *)
(* The free list is a list whose timers nobody holds or owns (ListInv,      *)
(* Accounted).  What it reaches is defined as a least set, so a pop and a   *)
(* push change it by one timer (ReachPop, ReachPush).  A count that only    *)
(* grows makes an exchange succeed only with the successor that was read.   *)
(* Entries that were never filled are beyond the watermark, behind all      *)
(* others, or in the hands of the thread that fills them (FreshInv).        *)
(*                                                                          *)
(* TimerAssumption says what is known of the constants; Buffers_proofs      *)
(* discharges it for the timers that are model-checked.                     *)
(***************************************************************************)
EXTENDS LFTimer, FiniteSetTheorems, SequenceTheorems, WellFoundedInduction, TLAPS

\* There is a timer; the bounds are numbers.
TimerAssumption == MAXTIMERS \in Nat \ {0} /\ MaxTick \in Nat /\ Calls \in Nat

-----------------------------------------------------------------------------
(* The invariant *)

TimerPcs == {"idle", "update", "earliest", "reset", "top", "scan", "callback", "finish", "alloc",
             "arg", "pop", "fill", "watermark", "push_head", "push_count", "push"}

Ticks == 0 .. INVALID
Links == Timers \cup {Nil}

TimerShared ==
    /\ earliest \in Ticks /\ current \in 0 .. MaxTick /\ hi_watermark \in 0 .. MAXTIMERS
    /\ expirations \in [Timers \cup Sentinels -> Ticks]
    /\ cb \in [Timers -> BOOLEAN] /\ arg \in [Timers -> Links]
    /\ freelist \in [head : Links, count : Nat]
    /\ owned \in SUBSET Timers /\ orphans \in SUBSET Threads

TimerCall ==
    /\ pc \in [Threads -> TimerPcs] /\ idx \in [Threads -> Links] /\ exp \in [Threads -> Ticks]
    /\ old \in [Threads -> [head : Links, count : Nat]] /\ nxt \in [Threads -> Links]

TimerScan ==
    /\ now \in [Threads -> 0 .. MaxTick] /\ top \in [Threads -> 0 .. MAXTIMERS]
    /\ got \in [Threads -> Seq(Ticks)] /\ done \in [Threads -> Nat]
    /\ min \in [Threads -> Ticks]

TimerLocals == TimerCall /\ TimerScan

\* Where a thread has a timer in its hands.
HasTimer ==
    \A t \in Threads :
        /\ pc[t] \in {"arg", "pop", "fill", "watermark"} => old[t].head # Nil
        /\ pc[t] \in {"callback", "push_head", "push_count", "push"} => idx[t] # Nil

TimerTypes == TimerShared /\ TimerLocals /\ HasTimer

\* What a scan has read: one pair ahead, from the start, and not beyond the sentinels, which
\* are 0 and end it.
ScanBounds ==
    /\ \A i \in Sentinels : expirations[i] = 0
    /\ \A t \in Threads :
          /\ pc[t] \notin {"scan", "callback", "finish"} => got[t] = <<>> /\ done[t] = 0
          /\ done[t] <= Len(got[t]) /\ Len(got[t]) <= Ahead(t) /\ done[t] <= MAXTIMERS
          /\ top[t] <= hi_watermark
          /\ Len(got[t]) > MAXTIMERS => got[t][MAXTIMERS + 1] = 0

\* Where a set leads that holds h and goes on with ar.
Leads(S, h, ar) == h \in S \cup {Nil} /\ \A i \in S : ar[i] \in S \cup {Nil}
Reach(h, ar) == {i \in Timers : \A S \in SUBSET Timers : Leads(S, h, ar) => i \in S}

Holds(t, i) == \/ pc[t] \in {"fill", "watermark"} /\ old[t].head = i
               \/ pc[t] \in {"push_head", "push_count", "push"} /\ idx[t] = i

\* The free list is a list: nothing in it is reached twice.  A thread that will find it
\* unchanged has the right successor for its exchange.
ListInv ==
    /\ \A i, j \in FreeTimers : arg[i] = arg[j] /\ arg[i] # Nil => i = j
    /\ \A i \in FreeTimers : arg[i] # Nil => arg[i] # freelist.head
    /\ \A t \in Threads :
          /\ pc[t] \in {"alloc", "arg", "pop", "push"} => old[t].count <= freelist.count
          /\ pc[t] = "pop" /\ old[t] = freelist => nxt[t] = arg[old[t].head]
          /\ pc[t] = "push" => arg[idx[t]] = old[t].head

Accounted ==
    /\ \A i \in FreeTimers : i \notin owned
    /\ \A t \in Threads, i \in Timers : Holds(t, i) => i \notin FreeTimers /\ i \notin owned
    /\ \A t, u \in Threads, i \in Timers : Holds(t, i) /\ Holds(u, i) => t = u
    /\ \A i \in Timers : i \in FreeTimers \/ i \in owned \/ \E t \in Threads : Holds(t, i)

\* Timers that were never taken are beyond the watermark, in their first order behind all
\* others; the rest of the free list is inactive.
Fresh(i) == i \in FreeTimers /\ expirations[i] # INVALID

FreshInv ==
    /\ \A i \in Timers : Fresh(i) =>
          /\ i >= hi_watermark /\ arg[i] \in {i + 1, Nil} /\ (arg[i] # Nil => Fresh(arg[i]))
          /\ \A t \in Threads : pc[t] \in {"fill", "watermark"} => old[t].head < i
    /\ \A i \in FreeTimers : expirations[i] = INVALID => i < hi_watermark
    /\ \A t \in Threads :
          /\ pc[t] \in {"push_head", "push_count", "push"} =>
                expirations[idx[t]] = INVALID /\ idx[t] < hi_watermark
          /\ pc[t] = "watermark" => expirations[old[t].head] = INVALID /\ cb[old[t].head]
    /\ \A i \in owned : i < hi_watermark /\ cb[i]

CallbackIsThere == \A t \in Threads \ orphans : pc[t] = "callback" => cb[idx[t]]

\* Who sees to an active timer.  A scan that has read its entry does so only as long as the
\* entry is what was read: whoever changes it brings earliest up to date.
Covers(t, i) ==
    \/ pc[t] = "update" /\ exp[t] <= expirations[i]
    \/ pc[t] = "top"
    \/ /\ pc[t] \in {"scan", "callback"} /\ i < top[t]
       /\ Len(got[t]) <= i \/ (done[t] <= i /\ got[t][i + 1] = expirations[i])
    \/ pc[t] \in {"scan", "callback", "finish"} /\ min[t] <= expirations[i]

CoverInv ==
    \A i \in owned : expirations[i] # INVALID =>
        earliest <= expirations[i] \/ \E t \in Threads : Covers(t, i)

TimerInv == /\ TimerTypes /\ ScanBounds /\ ListInv /\ Accounted /\ FreshInv /\ CallbackIsThere
            /\ CoverInv

\* A step of thread t.
TimerStep(t) ==
    \/ \E tck \in 1 .. MaxTick : TickSet(t, tck)
    \/ \E i \in Timers, e \in 1 .. INVALID, active \in BOOLEAN : UpdateExpiration(t, i, e, active)
    \/ \E i \in Timers : Free(t, i)
    \/ UpdateEarliest(t)
    \/ LoadNow(t) \/ LoadEarliest(t) \/ ResetEarliest(t) \/ LoadTop(t)
    \/ ScanLoad(t) \/ ScanOne(t) \/ Callback(t) \/ Finish(t)
    \/ AllocCount(t) \/ AllocHead(t) \/ AllocArg(t) \/ AllocPop(t) \/ AllocFill(t)
    \/ AllocWatermark(t)
    \/ PushHead(t) \/ PushCount(t) \/ Push(t)

\* A thread writes its own local variables.
OthersKeep(t) ==
    \A u \in Threads \ {t} :
        /\ pc'[u] = pc[u] /\ idx'[u] = idx[u] /\ exp'[u] = exp[u] /\ old'[u] = old[u]
        /\ nxt'[u] = nxt[u] /\ now'[u] = now[u] /\ top'[u] = top[u] /\ got'[u] = got[u]
        /\ done'[u] = done[u] /\ min'[u] = min[u]

-----------------------------------------------------------------------------
(* The constants *)

LEMMA NatMin ==
  ASSUME NEW S, S \subseteq Nat, S # {}
  PROVE  \E m \in S : \A j \in S : m <= j
<1> DEFINE Less == {s \in Nat \X Nat : s[1] < s[2]}
<1>1. IsWellFoundedOn(Less, Nat)
  BY NatLessThanWellFounded DEF OpToRel
<1>2. PICK m \in S : \A j \in S : ~(<<j, m>> \in Less)
  BY <1>1, WFMin
<1>3. ASSUME NEW j \in S PROVE m <= j
  <2>1. m \in Nat /\ j \in Nat /\ ~(<<j, m>> \in Less)
    BY <1>2
  <2>2. <<j, m>> \in Nat \X Nat /\ <<j, m>>[1] = j /\ <<j, m>>[2] = m
    BY <2>1
  <2>3. ~(j < m)
    BY <2>1, <2>2
  <2> QED BY <2>1, <2>3
<1> QED BY <1>2, <1>3

LEMMA TimerConstants ==
  ASSUME TimerAssumption
  PROVE  MAXTIMERS \in Nat \ {0} /\ MaxTick \in Nat /\ Calls \in Nat
  BY DEF TimerAssumption

-----------------------------------------------------------------------------
(* Lemmas *)

LEMMA TimerRanges ==
  ASSUME TimerAssumption
  PROVE  /\ INVALID \in Nat /\ INVALID \in 0 .. INVALID /\ MaxTick < INVALID /\ Nil \notin Timers /\ Nil = -1
         /\ Timers \subseteq Nat /\ Timers \subseteq 0 .. MAXTIMERS /\ Timers \cap Sentinels = {}
         /\ \A i \in Timers : i < MAXTIMERS /\ i + 1 \in 0 .. MAXTIMERS /\ i \in Timers \cup Sentinels
         /\ \A i \in Nat : i < MAXTIMERS => i \in Timers
         /\ \A i \in Nat : i < MAXTIMERS + 4 => i \in Timers \cup Sentinels
  BY TimerConstants DEF INVALID, Timers, Sentinels, Nil

LEMMA TimerNext ==
  ASSUME TimerAssumption
  PROVE  Next => \E t \in Threads : TimerStep(t)
  <1> SUFFICES ASSUME Next PROVE \E t \in Threads : TimerStep(t)
    OBVIOUS
  <1>1. 1 .. MaxTick \subseteq 1 .. INVALID /\ INVALID \in 1 .. INVALID
    BY TimerConstants DEF INVALID
  <1> QED BY <1>1 DEF Next, TimerStep

LEMMA TimerOthers ==
  ASSUME TimerAssumption, TimerTypes, NEW t \in Threads, TimerStep(t)
  PROVE  OthersKeep(t)
  <1> USE DEF TimerTypes, TimerLocals, TimerCall, TimerScan, OthersKeep, Goto, Begin, Clear, cache, timers, call, scan, history
  <1>1. CASE \E tck \in 1 .. MaxTick : TickSet(t, tck)
    BY <1>1 DEF TickSet
  <1>2. CASE \E i \in Timers, e \in 1 .. INVALID, active \in BOOLEAN : UpdateExpiration(t, i, e, active)
    BY <1>2 DEF UpdateExpiration
  <1>3. CASE \E i \in Timers : Free(t, i)
    BY <1>3 DEF Free
  <1>4. CASE UpdateEarliest(t)
    BY <1>4 DEF UpdateEarliest
  <1>5. CASE LoadNow(t) \/ LoadEarliest(t) \/ ResetEarliest(t) \/ LoadTop(t)
    BY <1>5 DEF LoadNow, LoadEarliest, ResetEarliest, LoadTop
  <1>6. CASE ScanLoad(t)
    BY <1>6 DEF ScanLoad
  <1>7. CASE ScanOne(t)
    BY <1>7 DEF ScanOne
  <1>8. CASE Callback(t) \/ Finish(t)
    BY <1>8 DEF Callback, Finish
  <1>9. CASE AllocCount(t) \/ AllocHead(t) \/ AllocArg(t)
    BY <1>9 DEF AllocCount, AllocHead, AllocArg
  <1>10. CASE AllocPop(t)
    BY <1>10 DEF AllocPop
  <1>11. CASE AllocFill(t) \/ AllocWatermark(t)
    BY <1>11 DEF AllocFill, AllocWatermark
  <1>12. CASE PushHead(t) \/ PushCount(t)
    BY <1>12 DEF PushHead, PushCount
  <1>13. CASE Push(t)
    BY <1>13 DEF Push
  <1> QED BY <1>1, <1>2, <1>3, <1>4, <1>5, <1>6, <1>7, <1>8, <1>9, <1>10, <1>11, <1>12, <1>13
             DEF TimerStep

LEMMA TimerSharedStep ==
  ASSUME TimerAssumption, TimerTypes, ScanBounds, NEW t \in Threads, TimerStep(t)
  PROVE  TimerShared'
  <1>0. /\ TimerShared /\ TimerCall /\ TimerScan /\ HasTimer
        /\ INVALID \in Ticks
        /\ Nil \in Links /\ Timers \subseteq Links
        /\ \A i \in Links : i # Nil => i \in Timers
        /\ \A i \in 1 .. INVALID : i \in Ticks
        /\ \A i, j \in Ticks : Least(i, j) \in Ticks
        /\ \A i \in Timers : i + 1 \in 0 .. MAXTIMERS /\ i \in Timers \cup Sentinels
    BY TimerRanges, TimerConstants, EmptySeq DEF TimerTypes, TimerLocals, Ticks, Links, Least
  <1> USE <1>0 DEF TimerShared, Goto, Begin, Clear, cache, timers, call, scan, history
  <1>1. CASE \E tck \in 1 .. MaxTick : TickSet(t, tck)
    BY <1>1 DEF TickSet
  <1>2. CASE \E i \in Timers, e \in 1 .. INVALID, active \in BOOLEAN : UpdateExpiration(t, i, e, active)
    BY <1>2 DEF UpdateExpiration
  <1>3. CASE \E i \in Timers : Free(t, i)
    BY <1>3 DEF Free
  <1>4. CASE UpdateEarliest(t)
    BY <1>4 DEF UpdateEarliest, TimerCall
  <1>5. CASE LoadNow(t) \/ LoadEarliest(t) \/ ResetEarliest(t) \/ LoadTop(t)
    BY <1>5 DEF LoadNow, LoadEarliest, ResetEarliest, LoadTop
  <1>6. CASE ScanLoad(t)
    BY <1>6 DEF ScanLoad
  <1>7. CASE ScanOne(t)
    <2>1. done[t] \in Nat /\ done[t] + 1 \in 1 .. Len(got[t]) /\ top[t] \in 0 .. MAXTIMERS
      <3>1. Len(got[t]) = done[t] - (done[t] % 2) + 4 /\ done[t] \in Nat
        BY <1>7 DEF ScanOne, Ahead, TimerScan
      <3>2. done[t] % 2 \in 0 .. 1
        BY <3>1
      <3> QED BY <3>1, <3>2 DEF TimerScan
    <2>2. got[t][done[t] + 1] \in Ticks
      BY <2>1, ElementOfSeq DEF TimerScan
    <2>3. Least(min[t], got[t][done[t] + 1]) \in Ticks
      BY <2>2 DEF TimerScan
    <2>4. done[t] < top[t] => done[t] \in Timers
      BY <2>1, TimerRanges, TimerConstants
    <2> QED BY <1>7, <2>1, <2>3, <2>4 DEF ScanOne, TimerShared
  <1>8. CASE Callback(t) \/ Finish(t)
    BY <1>8 DEF Callback, Finish, TimerScan
  <1>9. CASE AllocCount(t)
    BY <1>9 DEF AllocCount
  <1>10. CASE AllocHead(t)
    BY <1>10 DEF AllocHead
  <1>11. CASE AllocArg(t)
    BY <1>11 DEF AllocArg
  <1>12. CASE AllocPop(t)
    BY <1>12 DEF AllocPop, TimerCall
  <1>13. CASE AllocFill(t)
    <2>1. old[t].head \in Timers
      BY <1>13 DEF AllocFill, TimerCall, HasTimer
    <2> QED BY <1>13, <2>1 DEF AllocFill
  <1>14. CASE AllocWatermark(t)
    <2>1. old[t].head \in Timers
      BY <1>14 DEF AllocWatermark, TimerCall, HasTimer
    <2> QED BY <1>14, <2>1 DEF AllocWatermark
  <1>15. CASE PushHead(t)
    BY <1>15 DEF PushHead
  <1>16. CASE PushCount(t)
    <2>1. idx[t] \in Timers /\ old[t].head \in Links
      BY <1>16 DEF PushCount, TimerCall, HasTimer
    <2> QED BY <1>16, <2>1 DEF PushCount
  <1>17. CASE Push(t)
    <2>1. idx[t] \in Timers
      BY <1>17 DEF Push, TimerCall, HasTimer
    <2> QED BY <1>17, <2>1 DEF Push, TimerCall
  <1> QED BY <1>1, <1>2, <1>3, <1>4, <1>5, <1>6, <1>7, <1>8, <1>9, <1>10, <1>11, <1>12, <1>13, <1>14,
             <1>15, <1>16, <1>17 DEF TimerStep

LEMMA TimerCallStep ==
  ASSUME TimerAssumption, TimerTypes, ScanBounds, NEW t \in Threads, TimerStep(t)
  PROVE  TimerCall'
  <1>0. /\ TimerCall /\ TimerShared /\ HasTimer
        /\ INVALID \in Ticks
        /\ Nil \in Links /\ Timers \subseteq Links
        /\ \A i \in Links : i # Nil => i \in Timers
        /\ \A i \in 1 .. INVALID : i \in Ticks
    BY TimerRanges, TimerConstants, EmptySeq DEF TimerTypes, TimerLocals, Ticks, Links
  <1> USE <1>0 DEF TimerCall, TimerPcs, Goto, Begin, Clear, cache, timers, call, scan, history
  <1>1. CASE \E tck \in 1 .. MaxTick : TickSet(t, tck)
    BY <1>1 DEF TickSet
  <1>2. CASE \E i \in Timers, e \in 1 .. INVALID, active \in BOOLEAN : UpdateExpiration(t, i, e, active)
    BY <1>2 DEF UpdateExpiration
  <1>3. CASE \E i \in Timers : Free(t, i)
    BY <1>3 DEF Free
  <1>4. CASE UpdateEarliest(t)
    BY <1>4 DEF UpdateEarliest
  <1>5. CASE LoadNow(t) \/ LoadEarliest(t) \/ ResetEarliest(t) \/ LoadTop(t)
    BY <1>5 DEF LoadNow, LoadEarliest, ResetEarliest, LoadTop
  <1>6. CASE ScanLoad(t)
    BY <1>6 DEF ScanLoad
  <1>7. CASE ScanOne(t)
    <2>1. done[t] < top[t] => done[t] \in Links
      BY TimerRanges, TimerConstants DEF TimerTypes, TimerLocals, TimerScan, Links
    <2> QED BY <1>7, <2>1 DEF ScanOne
  <1>8. CASE Callback(t) \/ Finish(t)
    <2>1. CASE Callback(t)
      BY <2>1 DEF Callback
    <2>2. CASE Finish(t)
      BY <2>2 DEF Finish
    <2> QED BY <1>8, <2>1, <2>2
  <1>9. CASE AllocCount(t)
    BY <1>9 DEF AllocCount, TimerShared
  <1>10. CASE AllocHead(t)
    <2>1. pc' \in [Threads -> TimerPcs]
      BY <1>10 DEF AllocHead
    <2>2. idx' \in [Threads -> Links] /\ nxt' \in [Threads -> Links]
      BY <1>10 DEF AllocHead
    <2>3. exp' \in [Threads -> Ticks] /\ old' \in [Threads -> [head : Links, count : Nat]]
      BY <1>10 DEF AllocHead, TimerShared
    <2> QED BY <2>1, <2>2, <2>3
  <1>11. CASE AllocArg(t)
    BY <1>11 DEF AllocArg, TimerShared, HasTimer
  <1>12. CASE AllocPop(t)
    <2>1. pc' \in [Threads -> TimerPcs] /\ UNCHANGED <<idx, exp, nxt>>
      BY <1>12 DEF AllocPop
    <2>2. freelist.count \in Nat
      BY DEF TimerShared
    <2>3. old' \in [Threads -> [head : Links, count : Nat]]
      BY <1>12, <2>2 DEF AllocPop
    <2> QED BY <2>1, <2>3
  <1>13. CASE AllocFill(t)
    BY <1>13 DEF AllocFill
  <1>14. CASE AllocWatermark(t)
    BY <1>14 DEF AllocWatermark
  <1>15. CASE PushHead(t)
    BY <1>15 DEF PushHead, TimerShared
  <1>16. CASE PushCount(t)
    BY <1>16 DEF PushCount, TimerShared
  <1>17. CASE Push(t)
    <2>1. pc' \in [Threads -> TimerPcs]
      BY <1>17 DEF Push
    <2>2. idx' \in [Threads -> Links] /\ nxt' \in [Threads -> Links]
      BY <1>17 DEF Push
    <2>3. exp' \in [Threads -> Ticks]
      BY <1>17 DEF Push
    <2>4. old' \in [Threads -> [head : Links, count : Nat]]
      <3>1. UNCHANGED old \/ old' = [old EXCEPT ![t] = [head |-> Nil, count |-> 0]]
        BY <1>17 DEF Push
      <3> QED BY <3>1
    <2> QED BY <2>1, <2>2, <2>3, <2>4
  <1> QED BY <1>1, <1>2, <1>3, <1>4, <1>5, <1>6, <1>7, <1>8, <1>9, <1>10, <1>11, <1>12, <1>13, <1>14,
             <1>15, <1>16, <1>17 DEF TimerStep

LEMMA TimerScanStep ==
  ASSUME TimerAssumption, TimerTypes, ScanBounds, NEW t \in Threads, TimerStep(t)
  PROVE  TimerScan'
  <1>0. /\ TimerScan /\ TimerShared
        /\ INVALID \in Ticks
        /\ \A i, j \in Ticks : Least(i, j) \in Ticks
        /\ <<>> \in Seq(Ticks) /\ 0 \in 0 .. MaxTick /\ 0 \in 0 .. MAXTIMERS
    BY TimerRanges, TimerConstants, EmptySeq DEF TimerTypes, TimerLocals, Ticks, Links, Least
  <1> USE <1>0 DEF TimerScan, Goto, Begin, Clear, cache, timers, call, scan, history
  <1>1. CASE \E tck \in 1 .. MaxTick : TickSet(t, tck)
    BY <1>1 DEF TickSet
  <1>2. CASE \E i \in Timers, e \in 1 .. INVALID, active \in BOOLEAN : UpdateExpiration(t, i, e, active)
    BY <1>2 DEF UpdateExpiration
  <1>3. CASE \E i \in Timers : Free(t, i)
    BY <1>3 DEF Free
  <1>4. CASE UpdateEarliest(t)
    BY <1>4 DEF UpdateEarliest
  <1>5. CASE LoadNow(t) \/ LoadEarliest(t) \/ ResetEarliest(t) \/ LoadTop(t)
    BY <1>5 DEF LoadNow, LoadEarliest, ResetEarliest, LoadTop, TimerShared
  <1>6. CASE ScanLoad(t)
    <2>1. Len(got[t]) \in Nat /\ Len(got[t]) < MAXTIMERS + 4
      <3>1. /\ Len(got[t]) \in Nat /\ done[t] \in Nat /\ Len(got[t]) < done[t] - (done[t] % 2) + 4
            /\ done[t] <= MAXTIMERS
        BY <1>6, LenProperties DEF ScanLoad, ScanBounds, Ahead, TimerScan
      <3>2. done[t] % 2 \in Nat
        BY <3>1
      <3> HIDE <1>0, <1>6
      <3> QED BY <3>1, <3>2, TimerConstants
    <2>2. expirations[Len(got[t])] \in Ticks
      BY <2>1, TimerRanges DEF TimerShared
    <2>3. Append(got[t], expirations[Len(got[t])]) \in Seq(Ticks)
      BY <2>2, AppendProperties DEF TimerScan
    <2> QED BY <1>6, <2>3 DEF ScanLoad, TimerScan
  <1>7. CASE ScanOne(t)
    <2>1. done[t] \in Nat /\ done[t] + 1 \in 1 .. Len(got[t]) /\ top[t] \in 0 .. MAXTIMERS
      <3>1. Len(got[t]) = done[t] - (done[t] % 2) + 4 /\ done[t] \in Nat
        BY <1>7 DEF ScanOne, Ahead, TimerScan
      <3>2. done[t] % 2 \in 0 .. 1
        BY <3>1
      <3> QED BY <3>1, <3>2 DEF TimerScan
    <2>2. got[t][done[t] + 1] \in Ticks
      BY <2>1, ElementOfSeq DEF TimerScan
    <2>3. Least(min[t], got[t][done[t] + 1]) \in Ticks
      BY <2>2 DEF TimerScan
    <2>4. done[t] < top[t] => done[t] \in Timers
      BY <2>1, TimerRanges, TimerConstants
    <2>5. done' \in [Threads -> Nat]
      <3>1. UNCHANGED done \/ done' = [done EXCEPT ![t] = done[t] + 1]
        BY <1>7 DEF ScanOne
      <3>2. done[t] + 1 \in Nat /\ done \in [Threads -> Nat]
        BY <2>1
      <3> HIDE <1>0
      <3> QED BY <3>1, <3>2
    <2>6. min' \in [Threads -> Ticks]
      <3>1. UNCHANGED min \/ min' = [min EXCEPT ![t] = Least(min[t], got[t][done[t] + 1])]
        BY <1>7 DEF ScanOne
      <3> QED BY <2>3, <3>1
    <2> QED BY <1>7, <2>5, <2>6 DEF ScanOne
  <1>8. CASE Callback(t) \/ Finish(t)
    <2>1. CASE Callback(t)
      BY <2>1 DEF Callback
    <2>2. CASE Finish(t)
      BY <2>2 DEF Finish, TimerShared
    <2> QED BY <1>8, <2>1, <2>2
  <1>9. CASE AllocCount(t)
    BY <1>9 DEF AllocCount
  <1>10. CASE AllocHead(t)
    BY <1>10 DEF AllocHead
  <1>11. CASE AllocArg(t)
    BY <1>11 DEF AllocArg
  <1>12. CASE AllocPop(t)
    BY <1>12 DEF AllocPop
  <1>13. CASE AllocFill(t)
    BY <1>13 DEF AllocFill
  <1>14. CASE AllocWatermark(t)
    BY <1>14 DEF AllocWatermark
  <1>15. CASE PushHead(t)
    BY <1>15 DEF PushHead
  <1>16. CASE PushCount(t)
    BY <1>16 DEF PushCount
  <1>17. CASE Push(t)
    BY <1>17 DEF Push
  <1> QED BY <1>1, <1>2, <1>3, <1>4, <1>5, <1>6, <1>7, <1>8, <1>9, <1>10, <1>11, <1>12, <1>13, <1>14,
             <1>15, <1>16, <1>17 DEF TimerStep

LEMMA HasTimerStep ==
  ASSUME TimerAssumption, TimerTypes, ScanBounds, NEW t \in Threads, TimerStep(t)
  PROVE  HasTimer'
  <1>0. /\ TimerCall /\ HasTimer /\ Nil \notin Timers /\ OthersKeep(t)
    BY TimerRanges, TimerOthers DEF TimerTypes, TimerLocals
  <1> USE <1>0 DEF TimerCall, OthersKeep, HasTimer, Goto, Begin, Clear, cache, timers, call, scan, history
  <1>1. CASE \E tck \in 1 .. MaxTick : TickSet(t, tck)
    BY <1>1 DEF TickSet
  <1>2. CASE \E i \in Timers, e \in 1 .. INVALID, active \in BOOLEAN : UpdateExpiration(t, i, e, active)
    BY <1>2 DEF UpdateExpiration
  <1>3. CASE \E i \in Timers : Free(t, i)
    BY <1>3 DEF Free
  <1>4. CASE UpdateEarliest(t)
    BY <1>4 DEF UpdateEarliest
  <1>5. CASE LoadNow(t) \/ LoadEarliest(t) \/ ResetEarliest(t) \/ LoadTop(t)
    BY <1>5 DEF LoadNow, LoadEarliest, ResetEarliest, LoadTop
  <1>6. CASE ScanLoad(t)
    BY <1>6 DEF ScanLoad
  <1>7. CASE ScanOne(t)
    <2>1. done[t] \in Nat /\ Nil = -1
      BY TimerRanges DEF TimerTypes, TimerLocals, TimerScan
    <2> QED BY <1>7, <2>1 DEF ScanOne
  <1>8. CASE Callback(t) \/ Finish(t)
    BY <1>8 DEF Callback, Finish
  <1>9. CASE AllocCount(t)
    BY <1>9 DEF AllocCount
  <1>10. CASE AllocHead(t)
    BY <1>10 DEF AllocHead
  <1>11. CASE AllocArg(t)
    BY <1>11 DEF AllocArg
  <1>12. CASE AllocPop(t)
    BY <1>12 DEF AllocPop
  <1>13. CASE AllocFill(t)
    BY <1>13 DEF AllocFill
  <1>14. CASE AllocWatermark(t)
    BY <1>14 DEF AllocWatermark
  <1>15. CASE PushHead(t)
    BY <1>15 DEF PushHead
  <1>16. CASE PushCount(t)
    BY <1>16 DEF PushCount
  <1>17. CASE Push(t)
    <2>1. pc'[t] = "idle" \/ (pc[t] = "push" /\ UNCHANGED idx /\ pc'[t] = "push_head")
      BY <1>17 DEF Push
    <2> QED BY <2>1
  <1> QED BY <1>1, <1>2, <1>3, <1>4, <1>5, <1>6, <1>7, <1>8, <1>9, <1>10, <1>11, <1>12, <1>13, <1>14,
             <1>15, <1>16, <1>17 DEF TimerStep

\* What keeps the bounds of the scans: one thread reads on, or ends.
LEMMA ScanKeeps ==
  ASSUME TimerAssumption, TimerTypes, ScanBounds, NEW t \in Threads, OthersKeep(t),
         hi_watermark' \in Nat, hi_watermark <= hi_watermark',
         \A i \in Sentinels : expirations'[i] = expirations[i],
         /\ pc'[t] \notin {"scan", "callback", "finish"} => got'[t] = <<>> /\ done'[t] = 0
         /\ done'[t] <= Len(got'[t]) /\ Len(got'[t]) <= Ahead(t)' /\ done'[t] <= MAXTIMERS
         /\ top'[t] <= hi_watermark'
         /\ Len(got'[t]) > MAXTIMERS => got'[t][MAXTIMERS + 1] = 0
  PROVE  ScanBounds'
  <1>1. ASSUME NEW u \in Threads
        PROVE  /\ pc'[u] \notin {"scan", "callback", "finish"} => got'[u] = <<>> /\ done'[u] = 0
               /\ done'[u] <= Len(got'[u]) /\ Len(got'[u]) <= Ahead(u)' /\ done'[u] <= MAXTIMERS
               /\ top'[u] <= hi_watermark'
               /\ Len(got'[u]) > MAXTIMERS => got'[u][MAXTIMERS + 1] = 0
    <2>1. CASE u # t
      <3>1. top[u] \in Int /\ hi_watermark \in Int /\ top'[u] = top[u]
        BY <2>1, TimerConstants DEF TimerTypes, TimerShared, TimerLocals, TimerCall, TimerScan, OthersKeep
      <3> QED BY <2>1, <3>1 DEF OthersKeep, ScanBounds, Ahead
    <2> QED BY <2>1
  <1> QED BY <1>1 DEF ScanBounds

LEMMA AheadGrows ==
  \A d \in Nat : /\ d - (d % 2) + 4 \in Nat /\ d + 2 < d - (d % 2) + 4
                 /\ d - (d % 2) + 4 <= d + 1 - ((d + 1) % 2) + 4
  <1>1. \A d \in Nat : d % 2 \in 0 .. 1 /\ (d + 1) % 2 = 1 - (d % 2)
    OBVIOUS
  <1> QED BY <1>1

LEMMA ScanStep ==
  ASSUME TimerAssumption, TimerTypes, ScanBounds, NEW t \in Threads, TimerStep(t)
  PROVE  ScanBounds'
  <1>0. /\ OthersKeep(t)
        /\ \A i \in Timers : i \notin Sentinels
        /\ done[t] \in Nat /\ top[t] \in Nat /\ hi_watermark \in Nat /\ Len(got[t]) \in Nat
        /\ pc[t] \notin {"scan", "callback", "finish"} => got[t] = <<>> /\ done[t] = 0
        /\ done[t] <= Len(got[t]) /\ Len(got[t]) <= Ahead(t) /\ done[t] <= MAXTIMERS
        /\ top[t] <= hi_watermark
        /\ Len(got[t]) > MAXTIMERS => got[t][MAXTIMERS + 1] = 0
        /\ Len(<<>>) = 0 /\ MAXTIMERS \in Nat
    <2>1. OthersKeep(t) /\ (\A i \in Timers : i \notin Sentinels) /\ MAXTIMERS \in Nat
      BY TimerOthers, TimerRanges, TimerConstants
    <2>2. /\ done[t] \in Nat /\ top[t] \in 0 .. MAXTIMERS /\ hi_watermark \in 0 .. MAXTIMERS
          /\ got[t] \in Seq(Ticks)
      BY DEF TimerTypes, TimerShared, TimerLocals, TimerScan
    <2>3. top[t] \in Nat /\ hi_watermark \in Nat /\ Len(got[t]) \in Nat /\ Len(<<>>) = 0
      BY <2>1, <2>2, LenProperties
    <2> QED BY <2>1, <2>2, <2>3 DEF ScanBounds
  <1> USE DEF Goto, Begin, Clear, cache, timers, call, scan, history
  <1>1. CASE /\ UNCHANGED <<got, done, top, hi_watermark>> /\ \A i \in Sentinels : expirations'[i] = expirations[i]
             /\ pc'[t] \in {"scan", "callback", "finish"} => pc[t] \in {"scan", "callback", "finish"}
             /\ pc[t] \in {"scan", "callback", "finish"} => pc'[t] \in {"scan", "callback", "finish"}
    <2>1. Ahead(t)' = Ahead(t)
      BY <1>1 DEF Ahead
    <2> QED BY <1>0, <1>1, <2>1, ScanKeeps
  <1>2. CASE \E tck \in 1 .. MaxTick : TickSet(t, tck)
    BY <1>0, <1>1, <1>2 DEF TickSet, TimerTypes, TimerShared, TimerLocals, TimerCall, TimerScan
  <1>3. CASE \E i \in Timers, e \in 1 .. INVALID, active \in BOOLEAN : UpdateExpiration(t, i, e, active)
    BY <1>0, <1>1, <1>3 DEF UpdateExpiration, TimerTypes, TimerShared, TimerLocals, TimerCall, TimerScan
  <1>4. CASE \E i \in Timers : Free(t, i)
    BY <1>0, <1>1, <1>4 DEF Free, TimerTypes, TimerShared, TimerLocals, TimerCall, TimerScan
  <1>5. CASE UpdateEarliest(t) \/ LoadNow(t) \/ LoadEarliest(t) \/ ResetEarliest(t)
    BY <1>0, <1>1, <1>5 DEF UpdateEarliest, LoadNow, LoadEarliest, ResetEarliest, TimerTypes, TimerShared, TimerLocals, TimerCall, TimerScan
  <1>6. CASE LoadTop(t)
    <2>1. /\ UNCHANGED <<got, done, hi_watermark, expirations>> /\ top'[t] = hi_watermark
          /\ pc[t] = "top" /\ pc'[t] = "scan"
      BY <1>6 DEF LoadTop, TimerTypes, TimerLocals, TimerCall, TimerScan
    <2>2. Ahead(t)' = Ahead(t)
      BY <2>1 DEF Ahead
    <2> QED BY <1>0, <2>1, <2>2, ScanKeeps
  <1>7. CASE ScanLoad(t)
    <2>1. /\ Len(got[t]) < Ahead(t) /\ got' = [got EXCEPT ![t] = Append(@, expirations[Len(@)])]
          /\ UNCHANGED <<expirations, hi_watermark, done, top, pc>> /\ pc[t] = "scan"
      BY <1>7 DEF ScanLoad, TimerTypes, TimerShared, TimerLocals, TimerCall, TimerScan
    <2>2. PICK e : e = expirations[Len(got[t])]
      OBVIOUS
    <2>3. got'[t] = Append(got[t], e)
      BY <2>1, <2>2 DEF TimerTypes, TimerShared, TimerLocals, TimerCall, TimerScan
    <2>4. /\ Len(got'[t]) = Len(got[t]) + 1 /\ got'[t][Len(got[t]) + 1] = e
          /\ \A j \in 1 .. Len(got[t]) : got'[t][j] = got[t][j]
      BY <2>3, AppendProperties DEF TimerTypes, TimerShared, TimerLocals, TimerCall, TimerScan
    <2>5. Len(got'[t]) > MAXTIMERS => got'[t][MAXTIMERS + 1] = 0
      <3>1. CASE Len(got[t]) > MAXTIMERS
        <4>1. MAXTIMERS + 1 \in 1 .. Len(got[t])
          BY <1>0, <3>1
        <4> QED BY <1>0, <2>4, <3>1, <4>1
      <3>2. CASE Len(got[t]) = MAXTIMERS
        <4>1. MAXTIMERS \in Sentinels
          BY <1>0 DEF Sentinels
        <4> QED BY <2>2, <2>4, <3>2, <4>1 DEF ScanBounds
      <3> QED BY <1>0, <2>4, <3>1, <3>2
    <2>6. Ahead(t)' = Ahead(t) /\ Ahead(t) \in Nat
      BY <1>0, <2>1, AheadGrows DEF Ahead
    <2>7. done'[t] <= Len(got'[t]) /\ Len(got'[t]) <= Ahead(t)'
      BY <1>0, <2>1, <2>4, <2>6
    <2>8. hi_watermark' \in Nat /\ hi_watermark <= hi_watermark'
      BY <1>0, <2>1
    <2>9. /\ pc'[t] \in {"scan", "callback", "finish"} /\ done'[t] <= MAXTIMERS /\ top'[t] <= hi_watermark'
          /\ \A i \in Sentinels : expirations'[i] = expirations[i]
      BY <1>0, <2>1
    <2> QED BY <1>0, <2>5, <2>7, <2>8, <2>9, ScanKeeps
  <1>8. CASE ScanOne(t)
    <2>1. /\ Len(got[t]) = Ahead(t) /\ UNCHANGED <<hi_watermark, top, got>>
          /\ pc'[t] \in {"scan", "callback", "finish"}
          /\ done'[t] \in {done[t], done[t] + 1}
      BY <1>8 DEF ScanOne, TimerTypes, TimerShared, TimerLocals, TimerCall, TimerScan
    <2>2. done'[t] = done[t] + 1 => done[t] < MAXTIMERS
      <3> SUFFICES ASSUME done[t] = MAXTIMERS, done'[t] = done[t] + 1 PROVE FALSE
        BY <1>0
      <3>0. Ahead(t) > MAXTIMERS
        BY <1>0, AheadGrows DEF Ahead
      <3>1. got[t][done[t] + 1] = 0 /\ now[t] \in Nat /\ top[t] <= MAXTIMERS
        BY <1>0, <2>1, <3>0, TimerConstants DEF TimerTypes, TimerLocals, TimerScan
      <3>2. done' # done
        BY <1>0
      <3> QED BY <1>0, <1>8, <3>1, <3>2 DEF ScanOne
    <2>3. \A i \in Sentinels : expirations'[i] = expirations[i]
      <3>1. \/ UNCHANGED expirations
            \/ done[t] < top[t] /\ expirations' = [expirations EXCEPT ![done[t]] = INVALID]
        BY <1>8 DEF ScanOne
      <3>2. done[t] < top[t] => done[t] \notin Sentinels
        BY <1>0 DEF Sentinels, TimerTypes, TimerShared, TimerLocals, TimerCall, TimerScan
      <3> QED BY <3>1, <3>2 DEF TimerTypes, TimerShared, TimerLocals, TimerCall, TimerScan
    <2>4. Ahead(t) <= Ahead(t)' /\ Ahead(t) \in Nat /\ Ahead(t)' \in Nat /\ done[t] + 1 <= Ahead(t)
      <3> DEFINE Beyond(d) == d - (d % 2) + 4
      <3>1. /\ Beyond(done[t]) \in Nat /\ done[t] + 2 < Beyond(done[t])
            /\ Beyond(done[t]) <= Beyond(done[t] + 1) /\ Beyond(done[t] + 1) \in Nat
        <4>1. done[t] \in Nat /\ done[t] + 1 \in Nat
          BY <1>0
        <4>2. \A d \in Nat : Beyond(d) \in Nat /\ d + 2 < Beyond(d) /\ Beyond(d) <= Beyond(d + 1)
          BY AheadGrows
        <4> HIDE DEF Beyond
        <4> QED BY <4>1, <4>2
      <3>2. Ahead(t) = Beyond(done[t]) /\ Ahead(t)' = Beyond(done'[t])
        BY DEF Ahead
      <3> HIDE DEF Beyond
      <3> QED BY <1>0, <2>1, <3>1, <3>2
    <2> QED BY <1>0, <2>1, <2>2, <2>3, <2>4, ScanKeeps
  <1>9. CASE Callback(t)
    BY <1>0, <1>1, <1>9 DEF Callback, TimerTypes, TimerShared, TimerLocals, TimerCall, TimerScan
  <1>10. CASE Finish(t)
    <2>1. /\ UNCHANGED <<hi_watermark, expirations>> /\ got'[t] = <<>> /\ done'[t] = 0 /\ top'[t] = 0
          /\ pc'[t] = "idle"
      BY <1>10 DEF Finish, TimerTypes, TimerLocals, TimerCall, TimerScan
    <2>2. Ahead(t)' \in Nat
      BY <2>1, AheadGrows DEF Ahead
    <2> QED BY <1>0, <2>1, <2>2, ScanKeeps
  <1>11. CASE AllocCount(t) \/ AllocHead(t) \/ AllocArg(t)
    BY <1>0, <1>1, <1>11 DEF AllocCount, AllocHead, AllocArg, TimerTypes, TimerShared, TimerLocals, TimerCall, TimerScan
  <1>12. CASE AllocPop(t)
    BY <1>0, <1>1, <1>12 DEF AllocPop, TimerTypes, TimerShared, TimerLocals, TimerCall, TimerScan
  <1>13. CASE AllocFill(t)
    <2>1. old[t].head \in Timers
      BY <1>13 DEF AllocFill, TimerTypes, TimerLocals, TimerCall, TimerScan, HasTimer, Links
    <2> QED BY <1>0, <1>1, <1>13, <2>1 DEF AllocFill, TimerTypes, TimerShared, TimerLocals, TimerCall, TimerScan
  <1>14. CASE AllocWatermark(t)
    <2>1. old[t].head \in Nat /\ UNCHANGED <<expirations, got, done, top>> /\ pc[t] = "watermark" /\ pc'[t] = "idle"
      BY <1>14, TimerRanges DEF AllocWatermark, TimerTypes, TimerShared, TimerLocals, TimerCall, TimerScan, HasTimer, Links
    <2>2. hi_watermark' \in Nat /\ hi_watermark <= hi_watermark'
      <3>1. hi_watermark' = IF old[t].head + 1 <= hi_watermark THEN hi_watermark ELSE old[t].head + 1
        BY <1>14 DEF AllocWatermark
      <3> QED BY <1>0, <2>1, <3>1
    <2>3. top'[t] <= hi_watermark' /\ Ahead(t)' = Ahead(t)
      BY <1>0, <2>1, <2>2 DEF Ahead
    <2> QED BY <1>0, <2>1, <2>2, <2>3, ScanKeeps
  <1>15. CASE PushHead(t) \/ PushCount(t)
    BY <1>0, <1>1, <1>15 DEF PushHead, PushCount, TimerTypes, TimerShared, TimerLocals, TimerCall, TimerScan
  <1>16. CASE Push(t)
    BY <1>0, <1>1, <1>16 DEF Push, TimerTypes, TimerShared, TimerLocals, TimerCall, TimerScan
  <1> QED BY <1>2, <1>3, <1>4, <1>5, <1>6, <1>7, <1>8, <1>9, <1>10, <1>11, <1>12, <1>13, <1>14, <1>15,
             <1>16 DEF TimerStep

-----------------------------------------------------------------------------
(* The free list as a set *)

LEMMA FreeIsReach ==
  /\ FreeTimers = Reach(freelist.head, arg) /\ FreeTimers' = Reach(freelist'.head, arg')
  /\ FreeTimers \subseteq Timers /\ FreeTimers' \subseteq Timers
  BY DEF FreeTimers, Reach, Follows, Leads

LEMMA ReachLeads ==
  ASSUME TimerAssumption, NEW h \in Links, NEW ar \in [Timers -> Links]
  PROVE  Leads(Reach(h, ar), h, ar)
  <1>1. ASSUME h # Nil PROVE h \in Reach(h, ar)
    <2>1. h \in Timers
      BY <1>1 DEF Links
    <2> QED BY <1>1, <2>1 DEF Reach, Leads
  <1>2. ASSUME NEW i \in Reach(h, ar), ar[i] # Nil PROVE ar[i] \in Reach(h, ar)
    <2>1. i \in Timers /\ ar[i] \in Timers
      BY <1>2 DEF Reach, Links
    <2>2. ASSUME NEW S \in SUBSET Timers, Leads(S, h, ar) PROVE ar[i] \in S
      <3>1. i \in S
        BY <1>2, <2>2 DEF Reach
      <3> QED BY <1>2, <2>2, <3>1 DEF Leads
    <2> QED BY <2>1, <2>2 DEF Reach
  <1> QED BY <1>1, <1>2 DEF Leads

LEMMA ReachLeast ==
  ASSUME NEW h, NEW ar, NEW S \in SUBSET Timers, Leads(S, h, ar)
  PROVE  Reach(h, ar) \subseteq S
  BY DEF Reach

\* Links outside the list do not matter.
LEMMA ReachSame ==
  ASSUME TimerAssumption, NEW h \in Links, NEW ar \in [Timers -> Links], NEW new \in [Timers -> Links],
         \A i \in Reach(h, ar) : new[i] = ar[i]
  PROVE  Reach(h, new) = Reach(h, ar)
  <1> DEFINE R == Reach(h, ar)
  <1>1. Leads(R, h, ar) /\ R \subseteq Timers
    BY ReachLeads DEF Reach
  <1>2. Reach(h, new) \subseteq R
    <2>1. Leads(R, h, new)
      BY <1>1 DEF Leads
    <2> QED BY <1>1, <2>1, ReachLeast
  <1>3. ASSUME NEW i \in R, NEW S \in SUBSET Timers, Leads(S, h, new) PROVE i \in S
    <2>1. Leads(S \cap R, h, ar) /\ S \cap R \in SUBSET Timers
      BY <1>1, <1>3 DEF Leads
    <2> QED BY <2>1, <1>3, ReachLeast
  <1>4. R \subseteq Reach(h, new)
    BY <1>1, <1>3 DEF Reach
  <1> QED BY <1>2, <1>4

\* The exchange of lf_timer_alloc.
LEMMA ReachPop ==
  ASSUME TimerAssumption, NEW h \in Timers, NEW ar \in [Timers -> Links], \A i \in Reach(h, ar) : ar[i] # h
  PROVE  Reach(ar[h], ar) = Reach(h, ar) \ {h}
  <1> DEFINE R == Reach(h, ar)
  <1>0. h \in Links /\ ar[h] \in Links /\ h # Nil /\ Nil \notin Timers
    BY TimerRanges DEF Links
  <1>1. Leads(R, h, ar) /\ R \subseteq Timers /\ h \in R
    BY <1>0, ReachLeads DEF Reach, Leads
  <1>2. Reach(ar[h], ar) \subseteq R \ {h}
    <2>1. Leads(R \ {h}, ar[h], ar)
      BY <1>0, <1>1 DEF Leads
    <2> QED BY <1>1, <2>1, ReachLeast
  <1>3. ASSUME NEW i \in R \ {h}, NEW S \in SUBSET Timers, Leads(S, ar[h], ar) PROVE i \in S
    <2>1. Leads(S \cup {h}, h, ar) /\ S \cup {h} \in SUBSET Timers
      BY <1>0, <1>3 DEF Leads
    <2> QED BY <2>1, <1>3, ReachLeast
  <1>4. R \ {h} \subseteq Reach(ar[h], ar)
    BY <1>1, <1>3 DEF Reach
  <1> QED BY <1>2, <1>4

\* The exchange of lf_timer_free.
LEMMA ReachPush ==
  ASSUME TimerAssumption, NEW i \in Timers, NEW ar \in [Timers -> Links]
  PROVE  Reach(i, ar) = Reach(ar[i], ar) \cup {i}
  <1> DEFINE R == Reach(ar[i], ar)
  <1>0. i \in Links /\ ar[i] \in Links /\ i # Nil /\ Nil \notin Timers
    BY TimerRanges DEF Links
  <1>1. Leads(R, ar[i], ar) /\ R \subseteq Timers
    BY <1>0, ReachLeads DEF Reach
  <1>2. Reach(i, ar) \subseteq R \cup {i}
    <2>1. Leads(R \cup {i}, i, ar) /\ R \cup {i} \in SUBSET Timers
      BY <1>0, <1>1 DEF Leads
    <2> QED BY <2>1, ReachLeast
  <1>3. ASSUME NEW S \in SUBSET Timers, Leads(S, i, ar) PROVE R \cup {i} \subseteq S
    <2>1. i \in S /\ Leads(S, ar[i], ar)
      BY <1>0, <1>3 DEF Leads
    <2> QED BY <2>1, ReachLeast
  <1>4. R \cup {i} \subseteq Reach(i, ar)
    BY <1>1, <1>3 DEF Reach
  <1> QED BY <1>2, <1>4

\* init_timers links all timers, and the first one was allocated.
LEMMA ReachInit ==
  ASSUME TimerAssumption, NEW h \in Links, NEW ar \in [Timers -> Links],
         h = IF MAXTIMERS > 1 THEN 1 ELSE Nil,
         \A i \in Timers : ar[i] = IF i = 0 \/ i = MAXTIMERS - 1 THEN Nil ELSE i + 1
  PROVE  Reach(h, ar) = Timers \ {0}
  <1>1. Reach(h, ar) \subseteq Timers \ {0}
    <2>1. Leads(Timers \ {0}, h, ar)
      BY TimerConstants DEF Leads, Timers, Nil
    <2> QED BY <2>1, ReachLeast
  <1>2. ASSUME NEW S \in SUBSET Timers, Leads(S, h, ar) PROVE Timers \ {0} \subseteq S
    <2> DEFINE Gap == (Timers \ {0}) \ S
    <2> SUFFICES ASSUME Gap # {} PROVE FALSE
      OBVIOUS
    <2>1. Gap \subseteq Nat
      BY TimerRanges
    <2>2. PICK m \in Gap : \A j \in Gap : m <= j
      <3> HIDE DEF Gap
      <3> QED BY <2>1, NatMin
    <2>3. m \in Nat \ {0} /\ m < MAXTIMERS /\ MAXTIMERS \in Nat
      BY <2>1, TimerRanges, TimerConstants
    <2>4. CASE m = 1
      BY <1>2, <2>3, <2>4, TimerRanges DEF Leads
    <2>5. CASE m # 1
      <3>1. m - 1 \in Timers \ {0} /\ m - 1 \notin Gap
        BY <2>2, <2>3, <2>5, TimerRanges
      <3>2. m - 1 \in S /\ ar[m - 1] = m
        BY <2>3, <3>1
      <3> QED BY <1>2, <2>2, <2>3, <3>2, TimerRanges DEF Leads
    <2> QED BY <2>4, <2>5
  <1>3. Timers \ {0} \subseteq Reach(h, ar)
    BY <1>2 DEF Reach
  <1> QED BY <1>1, <1>3

-----------------------------------------------------------------------------
(* The free list and the hands *)

LEMMA HeadIsFree ==
  ASSUME TimerAssumption, TimerShared
  PROVE  /\ freelist.head # Nil => freelist.head \in FreeTimers
         /\ \A i \in FreeTimers : arg[i] # Nil => arg[i] \in FreeTimers
         /\ freelist.head \in Links /\ freelist.count \in Nat
         /\ freelist = [head |-> freelist.head, count |-> freelist.count]
  <1>1. freelist.head \in Links /\ arg \in [Timers -> Links]
    BY DEF TimerShared
  <1>2. Leads(FreeTimers, freelist.head, arg)
    BY <1>1, FreeIsReach, ReachLeads
  <1> QED BY <1>1, <1>2 DEF Leads, TimerShared

LEMMA OldIsTimer ==
  ASSUME TimerAssumption, TimerTypes, NEW t \in Threads
  PROVE  /\ old[t] = [head |-> old[t].head, count |-> old[t].count] /\ old[t].count \in Nat
         /\ old[t].head \in Links /\ idx[t] \in Links /\ nxt[t] \in Links
         /\ pc[t] \in {"arg", "pop", "fill", "watermark"} => old[t].head \in Timers
         /\ pc[t] \in {"callback", "push_head", "push_count", "push"} => idx[t] \in Timers
  BY DEF TimerTypes, TimerLocals, TimerCall, HasTimer, Links

\* A step that moves no timer.
LEMMA ListFrame ==
  ASSUME TimerAssumption, TimerTypes, TimerShared', NEW t \in Threads, OthersKeep(t), ListInv, Accounted,
         UNCHANGED <<freelist, owned>>, \A i \in FreeTimers : arg'[i] = arg[i],
         \A u \in Threads \ {t} : pc[u] = "push" => arg'[idx[u]] = arg[idx[u]],
         \A i \in Timers : Holds(t, i)' <=> Holds(t, i),
         /\ pc'[t] \in {"alloc", "arg", "pop", "push"} => old'[t].count <= freelist.count
         /\ pc'[t] = "pop" /\ old'[t] = freelist => nxt'[t] = arg'[old'[t].head]
         /\ pc'[t] = "push" => arg'[idx'[t]] = old'[t].head
  PROVE  ListInv' /\ Accounted' /\ FreeTimers' = FreeTimers
  <1>1. FreeTimers' = FreeTimers
    <2>1. freelist.head \in Links /\ arg \in [Timers -> Links] /\ arg' \in [Timers -> Links]
      BY DEF TimerTypes, TimerShared
    <2> QED BY <2>1, FreeIsReach, ReachSame
  <1>2. ASSUME NEW u \in Threads \ {t}
        PROVE  /\ pc'[u] \in {"alloc", "arg", "pop", "push"} => old'[u].count <= freelist.count
               /\ pc'[u] = "pop" /\ old'[u] = freelist => nxt'[u] = arg'[old'[u].head]
               /\ pc'[u] = "push" => arg'[idx'[u]] = old'[u].head
    <2>1. pc[u] = "pop" /\ old[u] = freelist => freelist.head \in FreeTimers
      BY OldIsTimer, HeadIsFree, TimerRanges DEF TimerTypes
    <2> QED BY <2>1 DEF ListInv, OthersKeep
  <1>3. ListInv'
    <2>1. \A i, j \in FreeTimers' : arg'[i] = arg'[j] /\ arg'[i] # Nil => i = j
      BY <1>1 DEF ListInv
    <2>2. \A i \in FreeTimers' : arg'[i] # Nil => arg'[i] # freelist'.head
      BY <1>1 DEF ListInv
    <2>3. \A u \in Threads :
            /\ pc'[u] \in {"alloc", "arg", "pop", "push"} => old'[u].count <= freelist'.count
            /\ pc'[u] = "pop" /\ old'[u] = freelist' => nxt'[u] = arg'[old'[u].head]
            /\ pc'[u] = "push" => arg'[idx'[u]] = old'[u].head
      BY <1>2
    <2> QED BY <2>1, <2>2, <2>3 DEF ListInv
  <1>4. \A u \in Threads, i \in Timers : Holds(u, i)' <=> Holds(u, i)
    BY DEF OthersKeep, Holds
  <1>5. Accounted'
    BY <1>1, <1>4 DEF Accounted
  <1> QED BY <1>1, <1>3, <1>5

LEMMA ListPop ==
  ASSUME TimerAssumption, TimerTypes, ListInv, Accounted, NEW t \in Threads, OthersKeep(t), AllocPop(t), freelist = old[t]
  PROVE  /\ ListInv' /\ Accounted' /\ old[t].head \in FreeTimers /\ FreeTimers' = FreeTimers \ {old[t].head}
         /\ UNCHANGED <<arg, owned, cb, expirations, hi_watermark, orphans, old>> /\ pc[t] = "pop" /\ pc'[t] = "fill"
  <1> DEFINE h == old[t].head
  <1>1. /\ freelist' = [head |-> nxt[t], count |-> old[t].count + 1] /\ pc[t] = "pop" /\ pc'[t] = "fill"
        /\ UNCHANGED <<arg, owned, old, idx, nxt, cb, expirations, hi_watermark, orphans>>
    BY DEF AllocPop, Goto, cache, timers, history, scan, TimerTypes, TimerLocals, TimerCall
  <1>2. /\ h \in Timers /\ h \in FreeTimers /\ arg \in [Timers -> Links] /\ nxt[t] = arg[h] /\ freelist.head = h
        /\ arg[h] \in Links /\ freelist'.head = arg[h] /\ freelist'.count = freelist.count + 1 /\ freelist.count \in Nat
    BY <1>1, OldIsTimer, HeadIsFree, TimerRanges DEF TimerTypes, TimerShared, ListInv
  <1>3. FreeTimers' = FreeTimers \ {h}
    <2>1. FreeTimers = Reach(h, arg) /\ FreeTimers' = Reach(arg[h], arg)
      BY <1>1, <1>2, FreeIsReach
    <2>2. \A i \in Reach(h, arg) : arg[i] # h
      BY <1>2, <2>1, TimerRanges DEF ListInv
    <2> QED BY <1>2, <2>1, <2>2, ReachPop
  <1>4. ListInv'
    <2>1. \A i, j \in FreeTimers' : arg'[i] = arg'[j] /\ arg'[i] # Nil => i = j
      BY <1>1, <1>3 DEF ListInv
    <2>2. \A i \in FreeTimers' : arg'[i] # Nil => arg'[i] # freelist'.head
      BY <1>1, <1>2, <1>3 DEF ListInv
    <2>3. ASSUME NEW u \in Threads
          PROVE  /\ pc'[u] \in {"alloc", "arg", "pop", "push"} => old'[u].count <= freelist'.count
                 /\ pc'[u] = "pop" /\ old'[u] = freelist' => nxt'[u] = arg'[old'[u].head]
                 /\ pc'[u] = "push" => arg'[idx'[u]] = old'[u].head
      <3>1. CASE u = t
        BY <1>1, <3>1
      <3>2. CASE u # t
        <4>1. /\ pc'[u] = pc[u] /\ old'[u] = old[u] /\ idx'[u] = idx[u] /\ old[u].count \in Nat
              /\ pc[u] \in {"alloc", "arg", "pop", "push"} => old[u].count <= freelist.count
              /\ pc[u] = "push" => arg[idx[u]] = old[u].head
          BY <3>2, OldIsTimer DEF OthersKeep, ListInv
        <4>2. pc[u] \in {"alloc", "arg", "pop", "push"} => old[u].count < freelist'.count
          BY <1>2, <4>1
        <4>3. pc[u] = "pop" => old[u] # freelist'
          BY <1>2, <4>1, <4>2
        <4> QED BY <1>1, <1>2, <4>1, <4>2, <4>3
      <3> QED BY <3>1, <3>2
    <2> QED BY <2>1, <2>2, <2>3 DEF ListInv
  <1>5. /\ \A u \in Threads \ {t}, i \in Timers : Holds(u, i)' <=> Holds(u, i)
        /\ \A i \in Timers : ~Holds(t, i) /\ (Holds(t, i)' <=> i = h)
    BY <1>1 DEF OthersKeep, Holds
  <1>6. Accounted'
    BY <1>1, <1>2, <1>3, <1>5 DEF Accounted
  <1> QED BY <1>1, <1>2, <1>3, <1>4, <1>6

LEMMA ListPush ==
  ASSUME TimerAssumption, TimerTypes, ListInv, Accounted, NEW t \in Threads, OthersKeep(t), Push(t), freelist = old[t]
  PROVE  /\ ListInv' /\ Accounted' /\ FreeTimers' = FreeTimers \cup {idx[t]}
         /\ UNCHANGED <<arg, owned, cb, expirations, hi_watermark, orphans>> /\ pc[t] = "push" /\ pc'[t] = "idle"
  <1> DEFINE i0 == idx[t]
  <1>1. /\ freelist' = [head |-> i0, count |-> old[t].count + 1] /\ pc[t] = "push" /\ pc'[t] = "idle"
        /\ UNCHANGED <<arg, owned, cb, expirations, hi_watermark, orphans>>
    BY DEF Push, Goto, cache, timers, history, scan, TimerTypes, TimerLocals, TimerCall
  <1>2. /\ i0 \in Timers /\ i0 \notin FreeTimers /\ arg \in [Timers -> Links] /\ arg[i0] = freelist.head
        /\ freelist'.head = i0 /\ freelist'.count = freelist.count + 1 /\ freelist.count \in Nat
    BY <1>1, OldIsTimer, HeadIsFree DEF TimerTypes, TimerShared, ListInv, Accounted, Holds
  <1>3. FreeTimers' = FreeTimers \cup {i0}
    <2>1. FreeTimers = Reach(arg[i0], arg) /\ FreeTimers' = Reach(i0, arg)
      BY <1>1, <1>2, FreeIsReach
    <2> QED BY <1>2, <2>1, ReachPush
  <1>4. ListInv'
    <2>0. \A j \in FreeTimers : arg[j] # Nil => arg[j] \in FreeTimers
      BY HeadIsFree DEF TimerTypes
    <2>1. \A i, j \in FreeTimers' : arg'[i] = arg'[j] /\ arg'[i] # Nil => i = j
      BY <1>1, <1>2, <1>3 DEF ListInv
    <2>2. \A i \in FreeTimers' : arg'[i] # Nil => arg'[i] # freelist'.head
      <3>1. arg[i0] # Nil => arg[i0] \in FreeTimers
        BY <1>2, HeadIsFree DEF TimerTypes
      <3> QED BY <1>1, <1>2, <1>3, <2>0, <3>1
    <2>3. ASSUME NEW u \in Threads
          PROVE  /\ pc'[u] \in {"alloc", "arg", "pop", "push"} => old'[u].count <= freelist'.count
                 /\ pc'[u] = "pop" /\ old'[u] = freelist' => nxt'[u] = arg'[old'[u].head]
                 /\ pc'[u] = "push" => arg'[idx'[u]] = old'[u].head
      <3>1. CASE u = t
        BY <1>1, <3>1
      <3>2. CASE u # t
        <4>1. /\ pc'[u] = pc[u] /\ old'[u] = old[u] /\ idx'[u] = idx[u] /\ old[u].count \in Nat
              /\ pc[u] \in {"alloc", "arg", "pop", "push"} => old[u].count <= freelist.count
              /\ pc[u] = "push" => arg[idx[u]] = old[u].head
          BY <3>2, OldIsTimer DEF OthersKeep, ListInv
        <4>2. pc[u] \in {"alloc", "arg", "pop", "push"} => old[u].count < freelist'.count
          BY <1>2, <4>1
        <4>3. pc[u] = "pop" => old[u] # freelist'
          BY <1>2, <4>1, <4>2
        <4> QED BY <1>1, <1>2, <4>1, <4>2, <4>3
      <3> QED BY <3>1, <3>2
    <2> QED BY <2>1, <2>2, <2>3 DEF ListInv
  <1>5. /\ \A u \in Threads \ {t}, i \in Timers : Holds(u, i)' <=> Holds(u, i)
        /\ \A i \in Timers : ~Holds(t, i)' /\ (Holds(t, i) <=> i = i0)
    BY <1>1 DEF OthersKeep, Holds
  <1>6. Accounted'
    BY <1>1, <1>2, <1>3, <1>5 DEF Accounted
  <1> QED BY <1>1, <1>2, <1>3, <1>4, <1>6

\* lf_timer_alloc returns, and lf_timer_free begins.
LEMMA ListOwn ==
  ASSUME TimerAssumption, TimerTypes, ListInv, Accounted, NEW t \in Threads, OthersKeep(t),
         UNCHANGED <<freelist, arg>>, pc'[t] \notin {"alloc", "arg", "pop", "push"},
         NEW i0 \in Timers, FreeTimers' = FreeTimers,
         \/ /\ owned' = owned \cup {i0} /\ \A i \in Timers : ~Holds(t, i)' /\ (Holds(t, i) <=> i = i0)
         \/ /\ owned' = owned \ {i0} /\ i0 \in owned
            /\ \A i \in Timers : ~Holds(t, i) /\ (Holds(t, i)' <=> i = i0)
  PROVE  ListInv' /\ Accounted'
  <1>1. ListInv'
    BY DEF ListInv, OthersKeep
  <1>2. \A u \in Threads \ {t}, i \in Timers : Holds(u, i)' <=> Holds(u, i)
    BY DEF OthersKeep, Holds
  <1>3. Accounted'
    BY <1>2 DEF Accounted
  <1> QED BY <1>1, <1>3

-----------------------------------------------------------------------------
(* What the entries of free timers are *)

FreshThread(t) ==
    /\ pc[t] \in {"fill", "watermark"} => \A i \in Timers : Fresh(i) => old[t].head < i
    /\ pc[t] \in {"push_head", "push_count", "push"} =>
          expirations[idx[t]] = INVALID /\ idx[t] < hi_watermark
    /\ pc[t] = "watermark" => expirations[old[t].head] = INVALID /\ cb[old[t].head]

LEMMA FreshFrame ==
  ASSUME TimerAssumption, TimerTypes, Accounted, FreshInv, NEW t \in Threads, OthersKeep(t),
         UNCHANGED <<owned, hi_watermark>>, FreeTimers' = FreeTimers,
         \A i \in FreeTimers : arg'[i] = arg[i] /\ expirations'[i] = expirations[i],
         \A i \in Timers : expirations[i] = INVALID /\ i \notin owned => expirations'[i] = INVALID,
         \A i \in Timers : cb[i] /\ ~Holds(t, i) => cb'[i],
         FreshThread(t)'
  PROVE  FreshInv'
  <1>1. \A i \in Timers : Fresh(i)' <=> Fresh(i)
    BY DEF Fresh
  <1>2. \A i \in FreeTimers : arg[i] # Nil => arg[i] \in FreeTimers
    BY HeadIsFree DEF TimerTypes
  <1>3. ASSUME NEW u \in Threads PROVE FreshThread(u)'
    <2>1. CASE u = t
      BY <2>1
    <2>2. CASE u # t
      <3>1. /\ pc'[u] = pc[u] /\ old'[u] = old[u] /\ idx'[u] = idx[u]
            /\ pc[u] \in {"fill", "watermark"} => old[u].head \in Timers /\ Holds(u, old[u].head)
            /\ pc[u] \in {"push_head", "push_count", "push"} => idx[u] \in Timers /\ Holds(u, idx[u])
        BY <2>2, OldIsTimer DEF OthersKeep, Holds
      <3>2. pc[u] \in {"fill", "watermark"} => old[u].head \notin owned /\ ~Holds(t, old[u].head)
        BY <2>2, <3>1 DEF Accounted
      <3>3. pc[u] \in {"push_head", "push_count", "push"} => idx[u] \notin owned
        BY <2>2, <3>1 DEF Accounted
      <3>4. pc'[u] \in {"fill", "watermark"} => \A i \in Timers : Fresh(i)' => old'[u].head < i
        BY <1>1, <3>1 DEF FreshInv
      <3>5. pc'[u] \in {"push_head", "push_count", "push"} =>
              expirations'[idx'[u]] = INVALID /\ idx'[u] < hi_watermark'
        BY <3>1, <3>3 DEF FreshInv
      <3>6. pc'[u] = "watermark" => expirations'[old'[u].head] = INVALID /\ cb'[old'[u].head]
        BY <3>1, <3>2 DEF FreshInv
      <3> QED BY <3>4, <3>5, <3>6 DEF FreshThread
    <2> QED BY <2>1, <2>2
  <1>4. ASSUME NEW i \in Timers, Fresh(i)'
        PROVE  i >= hi_watermark' /\ arg'[i] \in {i + 1, Nil} /\ (arg[i] # Nil => Fresh(arg[i]))'
    <2>1. Fresh(i) /\ i \in FreeTimers /\ arg'[i] = arg[i]
      BY <1>1, <1>4 DEF Fresh
    <2>2. arg[i] # Nil => Fresh(arg[i]) /\ arg[i] \in FreeTimers
      BY <2>1 DEF FreshInv, Fresh
    <2>3. PICK n : n = arg[i]
      OBVIOUS
    <2>4. n # Nil => Fresh(n)'
      BY <1>1, <2>2, <2>3, FreeIsReach
    <2>5. (arg[i] # Nil => Fresh(arg[i]))'
      BY <2>1, <2>3, <2>4 DEF Fresh
    <2> QED BY <2>1, <2>5 DEF FreshInv
  <1>5. \A i \in owned' : i < hi_watermark' /\ cb'[i]
    BY DEF FreshInv, Accounted, TimerTypes, TimerShared
  <1>6. \A i \in FreeTimers' : expirations'[i] = INVALID => i < hi_watermark'
    BY DEF FreshInv
  <1> QED BY <1>3, <1>4, <1>5, <1>6 DEF FreshInv, FreshThread

\* lf_timer_alloc takes timers in their first order.
LEMMA FreshPop ==
  ASSUME TimerAssumption, TimerTypes, Accounted, ListInv, FreshInv, NEW t \in Threads, OthersKeep(t), AllocPop(t),
         freelist = old[t]
  PROVE  FreshInv'
  <1> DEFINE h == old[t].head
  <1>1. /\ h \in FreeTimers /\ FreeTimers' = FreeTimers \ {h} /\ pc[t] = "pop" /\ pc'[t] = "fill"
        /\ UNCHANGED <<arg, owned, cb, expirations, hi_watermark, old>>
    BY ListPop
  <1>2. \A i \in Timers : Fresh(i)' <=> Fresh(i) /\ i # h
    BY <1>1 DEF Fresh
  <1>3. ASSUME NEW i \in Timers, Fresh(i), i # h PROVE h < i
    <2>0. h \in Timers /\ h \in Nat /\ i \in Nat /\ hi_watermark \in Int /\ arg \in [Timers -> Links]
      <3>1. h \in Timers
        BY <1>1, FreeIsReach
      <3>2. hi_watermark \in 0 .. MAXTIMERS /\ arg \in [Timers -> Links]
        BY DEF TimerTypes, TimerShared
      <3> HIDE DEF h
      <3> QED BY <3>1, <3>2, TimerRanges
    <2>1. CASE ~Fresh(h)
      BY <1>1, <1>3, <2>0, <2>1 DEF FreshInv, Fresh
    <2>2. CASE Fresh(h)
      <3> DEFINE S == {j \in Timers : Fresh(j) /\ j >= h}
      <3>1. ASSUME NEW j \in S, arg[j] # Nil PROVE arg[j] \in S
        <4>1. j \in Nat /\ arg[j] = j + 1 /\ Fresh(arg[j]) /\ j >= h
          BY <3>1, TimerRanges DEF FreshInv
        <4>2. arg[j] \in Timers
          BY <3>1, <2>0 DEF Links
        <4> QED BY <2>0, <4>1, <4>2
      <3>2. Leads(S, h, arg)
        BY <2>0, <2>2, <3>1 DEF Leads
      <3>3. freelist.head = h
        OBVIOUS
      <3>4. FreeTimers \subseteq S
        BY <3>2, <3>3, ReachLeast, FreeIsReach
      <3>5. i \in S
        BY <1>3, <3>4 DEF Fresh
      <3> QED BY <1>3, <2>0, <3>5
    <2> QED BY <2>1, <2>2
  <1>4. ASSUME NEW i \in Timers, Fresh(i)'
        PROVE  i >= hi_watermark' /\ arg'[i] \in {i + 1, Nil} /\ (arg[i] # Nil => Fresh(arg[i]))'
    <2>1. Fresh(i) /\ i # h /\ i \in FreeTimers /\ arg'[i] = arg[i]
      BY <1>1, <1>2, <1>4 DEF Fresh
    <2>2. /\ i >= hi_watermark /\ arg[i] \in {i + 1, Nil}
          /\ arg[i] # Nil => Fresh(arg[i]) /\ arg[i] # h
      BY <1>1, <2>1 DEF FreshInv, ListInv
    <2>3. (arg[i] # Nil => Fresh(arg[i]))'
      BY <1>1, <2>1, <2>2 DEF Fresh
    <2> QED BY <1>1, <2>1, <2>2, <2>3
  <1>5. ASSUME NEW u \in Threads PROVE FreshThread(u)'
    <2>1. CASE u = t
      BY <1>1, <1>2, <1>3, <2>1 DEF FreshThread
    <2>2. CASE u # t
      BY <1>1, <1>2, <2>2 DEF FreshThread, FreshInv, OthersKeep
    <2> QED BY <2>1, <2>2
  <1> QED BY <1>1, <1>4, <1>5 DEF FreshInv, FreshThread

LEMMA FreshPush ==
  ASSUME TimerAssumption, TimerTypes, Accounted, ListInv, FreshInv, NEW t \in Threads, OthersKeep(t), Push(t),
         freelist = old[t]
  PROVE  FreshInv'
  <1>1. /\ FreeTimers' = FreeTimers \cup {idx[t]} /\ pc[t] = "push" /\ pc'[t] = "idle"
        /\ UNCHANGED <<arg, owned, cb, expirations, hi_watermark>>
        /\ expirations[idx[t]] = INVALID /\ idx[t] < hi_watermark
    BY ListPush DEF FreshInv
  <1>2. \A i : Fresh(i)' <=> Fresh(i)
    BY <1>1 DEF Fresh
  <1>3. ASSUME NEW i \in Timers, Fresh(i)'
        PROVE  i >= hi_watermark' /\ arg'[i] \in {i + 1, Nil} /\ (arg[i] # Nil => Fresh(arg[i]))'
    <2>1. i >= hi_watermark /\ arg[i] \in {i + 1, Nil} /\ (arg[i] # Nil => Fresh(arg[i]))
      BY <1>2, <1>3 DEF FreshInv
    <2>2. (arg[i] # Nil => Fresh(arg[i]))'
      BY <1>1, <2>1 DEF Fresh
    <2> QED BY <1>1, <2>1, <2>2
  <1>4. ASSUME NEW u \in Threads PROVE FreshThread(u)'
    <2>1. CASE u = t
      BY <1>1, <2>1 DEF FreshThread
    <2>2. CASE u # t
      BY <1>1, <1>2, <2>2 DEF FreshThread, FreshInv, OthersKeep
    <2> QED BY <2>1, <2>2
  <1> QED BY <1>1, <1>3, <1>4 DEF FreshInv, FreshThread

\* An entry below the watermark that is active belongs to an allocated timer, unless it is
\* being allocated.
LEMMA ActiveIsOwned ==
  ASSUME TimerAssumption, TimerTypes, Accounted, FreshInv, NEW i \in Timers, i < hi_watermark, expirations[i] # INVALID,
         ~Unfilled(i)
  PROVE  i \in owned /\ cb[i]
  <1>1. i \notin FreeTimers
    <2>1. i \in Int /\ hi_watermark \in Int
      BY TimerRanges, TimerConstants DEF TimerTypes, TimerShared
    <2> QED BY <2>1 DEF FreshInv, Fresh
  <1>2. \A t \in Threads : ~Holds(t, i)
    BY DEF Holds, FreshInv, Unfilled
  <1> QED BY <1>1, <1>2 DEF Accounted, FreshInv

-----------------------------------------------------------------------------
(* The steps *)

ListPcs == {"alloc", "arg", "pop", "fill", "watermark", "push_head", "push_count", "push"}
ListsOK == ListInv /\ Accounted /\ FreshInv

\* A step that leaves the free list and its timers alone.
LEMMA ListsQuiet ==
  ASSUME TimerAssumption, TimerTypes, TimerShared', ListsOK, NEW t \in Threads, OthersKeep(t),
         UNCHANGED <<arg, freelist, owned, hi_watermark, cb>>,
         pc[t] \notin ListPcs, pc'[t] \notin ListPcs,
         \A i \in FreeTimers : expirations'[i] = expirations[i],
         \A i \in Timers : expirations[i] = INVALID /\ i \notin owned => expirations'[i] = INVALID
  PROVE  ListsOK'
  <1>1. \A i \in Timers : ~Holds(t, i)' /\ ~Holds(t, i)
    BY DEF Holds, ListPcs
  <1>2. ListInv' /\ Accounted' /\ FreeTimers' = FreeTimers
    BY <1>1, ListFrame DEF ListsOK, ListPcs
  <1>3. FreshThread(t)'
    BY DEF FreshThread, ListPcs
  <1>4. FreshInv'
    BY <1>2, <1>3, FreshFrame DEF ListsOK
  <1> QED BY <1>2, <1>4 DEF ListsOK

LEMMA ListsStep ==
  ASSUME TimerAssumption, TimerTypes, ScanBounds, ListsOK, NEW t \in Threads, TimerStep(t)
  PROVE  ListsOK'
  <1>0. /\ OthersKeep(t) /\ TimerShared' /\ ListInv /\ Accounted /\ FreshInv /\ TimerShared
        /\ TimerCall /\ TimerScan /\ HasTimer
    BY TimerOthers, TimerSharedStep DEF TimerTypes, TimerLocals, ListsOK
  <1>q. /\ old[t] = [head |-> old[t].head, count |-> old[t].count] /\ old[t].count \in Nat
        /\ old[t].head \in Links /\ idx[t] \in Links /\ nxt[t] \in Links
        /\ pc[t] \in {"arg", "pop", "fill", "watermark"} => old[t].head \in Timers
        /\ pc[t] \in {"callback", "push_head", "push_count", "push"} => idx[t] \in Timers
    BY OldIsTimer
  <1>f. FreeTimers \subseteq Timers
    BY FreeIsReach
  <1> USE DEF Goto, Begin, Clear, cache, timers, call, scan, history
  <1>1. CASE \E tck \in 1 .. MaxTick : TickSet(t, tck)
    BY <1>0, <1>1, ListsQuiet DEF TickSet, TimerCall, ListPcs
  <1>2. CASE \E i \in Timers, e \in 1 .. INVALID, active \in BOOLEAN : UpdateExpiration(t, i, e, active)
    <2>1. PICK i \in Timers, e \in 1 .. INVALID, active \in BOOLEAN : UpdateExpiration(t, i, e, active)
      BY <1>2
    <2>2. i \in owned /\ (UNCHANGED expirations \/ expirations' = [expirations EXCEPT ![i] = e])
      BY <2>1 DEF UpdateExpiration
    <2>3. \A j \in Timers : j \notin owned => expirations'[j] = expirations[j]
      BY <1>0, <2>2 DEF TimerShared
    <2>4. \A j \in FreeTimers : expirations'[j] = expirations[j]
      BY <1>0, <1>f, <2>3 DEF Accounted
    <2>5. UNCHANGED <<arg, freelist, owned, hi_watermark, cb>> /\ pc[t] \notin ListPcs /\ pc'[t] \notin ListPcs
      BY <1>0, <2>1 DEF UpdateExpiration, TimerCall, ListPcs
    <2> QED BY <1>0, <2>3, <2>4, <2>5, ListsQuiet
  <1>3. CASE \E i \in Timers : Free(t, i)
    <2>1. PICK i \in Timers : Free(t, i)
      BY <1>3
    <2>2. UNCHANGED <<arg, freelist, hi_watermark, cb, expirations>> /\ i \in owned /\ pc[t] = "idle"
      BY <2>1 DEF Free
    <2>3. CASE i >= hi_watermark \/ expirations[i] # INVALID
      BY <1>0, <2>1, <2>2, <2>3, ListsQuiet DEF Free, TimerCall, ListPcs
    <2>4. CASE ~(i >= hi_watermark \/ expirations[i] # INVALID)
      <3>1. owned' = owned \ {i} /\ pc'[t] = "push_head" /\ idx'[t] = i
        BY <1>0, <2>1, <2>4 DEF Free, TimerCall
      <3>2. FreeTimers' = FreeTimers
        BY <2>2, FreeIsReach
      <3>3. \A j \in Timers : ~Holds(t, j) /\ (Holds(t, j)' <=> j = i)
        BY <2>2, <3>1 DEF Holds
      <3>4. ListInv' /\ Accounted'
        BY <1>0, <2>2, <3>1, <3>2, <3>3, ListOwn
      <3>5. \A j : Fresh(j)' <=> Fresh(j)
        BY <2>2, <3>2 DEF Fresh
      <3>6. ASSUME NEW j \in Timers, Fresh(j)'
            PROVE  j >= hi_watermark' /\ arg'[j] \in {j + 1, Nil} /\ (arg[j] # Nil => Fresh(arg[j]))'
        <4>1. j >= hi_watermark /\ arg[j] \in {j + 1, Nil} /\ (arg[j] # Nil => Fresh(arg[j]))
          BY <1>0, <3>5, <3>6 DEF FreshInv
        <4>2. (arg[j] # Nil => Fresh(arg[j]))'
          BY <2>2, <3>2, <4>1 DEF Fresh
        <4> QED BY <2>2, <4>1, <4>2
      <3>7. ASSUME NEW u \in Threads PROVE FreshThread(u)'
        <4>1. CASE u = t
          <5>1. i < hi_watermark
            BY <1>0, <2>2 DEF FreshInv
          <5> QED BY <2>2, <2>4, <3>1, <4>1, <5>1 DEF FreshThread
        <4>2. CASE u # t
          BY <1>0, <2>2, <3>5, <4>2 DEF FreshThread, FreshInv, OthersKeep
        <4> QED BY <4>1, <4>2
      <3>8. FreshInv'
        BY <1>0, <2>2, <3>1, <3>2, <3>6, <3>7 DEF FreshInv, FreshThread
      <3> QED BY <3>4, <3>8 DEF ListsOK
    <2> QED BY <2>3, <2>4
  <1>4. CASE UpdateEarliest(t) \/ LoadNow(t) \/ LoadEarliest(t) \/ ResetEarliest(t) \/ LoadTop(t)
    BY <1>0, <1>4, ListsQuiet DEF UpdateEarliest, LoadNow, LoadEarliest, ResetEarliest, LoadTop, TimerCall, ListPcs
  <1>5. CASE ScanLoad(t) \/ Callback(t) \/ Finish(t)
    BY <1>0, <1>5, ListsQuiet DEF ScanLoad, Callback, Finish, TimerCall, ListPcs
  <1>6. CASE ScanOne(t)
    <2>1. /\ UNCHANGED <<arg, freelist, owned, hi_watermark, cb>> /\ pc[t] \notin ListPcs /\ pc'[t] \notin ListPcs
      BY <1>0, <1>6 DEF ScanOne, TimerCall, ListPcs
    <2>2. UNCHANGED expirations \/ /\ expirations' = [expirations EXCEPT ![done[t]] = INVALID]
                                   /\ done[t] < top[t] /\ expirations[done[t]] <= now[t]
      BY <1>6 DEF ScanOne
    <2>3. \A i \in FreeTimers : expirations'[i] = expirations[i]
      <3> SUFFICES ASSUME NEW i \in FreeTimers, expirations'[i] # expirations[i] PROVE FALSE
        OBVIOUS
      <3>1. i = done[t] /\ i < top[t] /\ expirations[i] <= now[t] /\ i \in Timers
        BY <1>0, <1>f, <2>2 DEF TimerShared
      <3>2. expirations[i] # INVALID
        <4>1. now[t] \in 0 .. MaxTick /\ expirations[i] \in Ticks
          BY <1>0, <3>1, TimerRanges DEF TimerScan, TimerShared
        <4> QED BY <3>1, <4>1, TimerRanges, TimerConstants DEF Ticks
      <3>3. i \in Nat /\ top[t] \in Int /\ hi_watermark \in Int /\ top[t] <= hi_watermark
        BY <1>0, <3>1, TimerRanges, TimerConstants DEF TimerScan, TimerShared, ScanBounds
      <3>4. i >= hi_watermark
        BY <1>0, <3>1, <3>2 DEF FreshInv, Fresh
      <3> QED BY <3>1, <3>3, <3>4
    <2>4. \A i \in Timers : expirations[i] = INVALID => expirations'[i] = INVALID
      BY <1>0, <2>2, TimerRanges DEF TimerShared
    <2> QED BY <1>0, <2>1, <2>3, <2>4, ListsQuiet
  <1> HIDE <1>1, <1>2, <1>3, <1>4, <1>5, <1>6
  <1>7. CASE AllocCount(t) \/ AllocHead(t) \/ AllocArg(t) \/ PushHead(t) \/ (AllocPop(t) /\ freelist # old[t]) \/ (Push(t) /\ freelist # old[t])
    <2>1. UNCHANGED <<arg, freelist, owned, hi_watermark, cb, expirations>>
      BY <1>7 DEF AllocCount, AllocHead, AllocArg, PushHead, AllocPop, Push
    <2>2. \A i \in Timers : Holds(t, i)' <=> Holds(t, i)
      <3>1. CASE AllocCount(t) \/ AllocHead(t) \/ AllocArg(t) \/ (AllocPop(t) /\ freelist # old[t])
        BY <1>0, <3>1 DEF AllocCount, AllocHead, AllocArg, AllocPop, TimerCall, Holds
      <3>2. CASE PushHead(t) \/ (Push(t) /\ freelist # old[t])
        BY <1>0, <3>2 DEF PushHead, Push, TimerCall, Holds
      <3> QED BY <1>7, <3>1, <3>2
    <2>3. freelist.count \in Nat /\ freelist.head \in Links
      BY <1>0 DEF TimerShared
    <2>4. /\ pc'[t] \in {"alloc", "arg", "pop", "push"} => old'[t].count <= freelist.count
          /\ pc'[t] = "pop" /\ old'[t] = freelist => nxt'[t] = arg'[old'[t].head]
          /\ pc'[t] = "push" => arg'[idx'[t]] = old'[t].head
      <3>1. CASE AllocCount(t)
        BY <1>0, <2>3, <3>1 DEF AllocCount, TimerCall
      <3>2. CASE AllocHead(t)
        <4>1. pc[t] = "alloc" /\ old[t].count <= freelist.count
          BY <1>0, <3>2 DEF AllocHead, ListInv
        <4>2. pc'[t] \in {"idle", "arg"} /\ (pc'[t] = "arg" => old'[t].count = old[t].count)
          BY <1>0, <3>2 DEF AllocHead, TimerCall
        <4> QED BY <4>1, <4>2
      <3>3. CASE AllocArg(t)
        BY <1>0, <3>3 DEF AllocArg, TimerCall, ListInv
      <3>4. CASE PushHead(t)
        BY <1>0, <3>4 DEF PushHead, TimerCall
      <3>5. CASE AllocPop(t) /\ freelist # old[t]
        BY <1>0, <2>3, <3>5 DEF AllocPop, TimerCall
      <3>6. CASE Push(t) /\ freelist # old[t]
        BY <1>0, <3>6 DEF Push, TimerCall
      <3> QED BY <1>7, <3>1, <3>2, <3>3, <3>4, <3>5, <3>6
    <2>5. ListInv' /\ Accounted' /\ FreeTimers' = FreeTimers
      BY <1>0, <2>1, <2>2, <2>4, ListFrame
    <2>6. FreshThread(t)'
      <3>1. CASE pc'[t] \notin {"push_head", "push_count", "push"}
        <4>1. pc'[t] \notin {"fill", "watermark"}
          BY <1>0, <1>7 DEF AllocCount, AllocHead, AllocArg, PushHead, AllocPop, Push, TimerCall
        <4> QED BY <3>1, <4>1 DEF FreshThread
      <3>2. CASE pc'[t] \in {"push_head", "push_count", "push"}
        <4>1. pc[t] \in {"push_head", "push"} /\ idx'[t] = idx[t] /\ pc'[t] \notin {"fill", "watermark"}
          BY <1>0, <1>7, <3>2 DEF AllocCount, AllocHead, AllocArg, PushHead, AllocPop, Push, TimerCall
        <4> QED BY <1>0, <2>1, <4>1 DEF FreshThread, FreshInv
      <3> QED BY <3>1, <3>2
    <2>7. FreshInv'
      BY <1>0, <2>1, <2>5, <2>6, FreshFrame
    <2> QED BY <2>5, <2>7 DEF ListsOK
  <1>8. CASE AllocPop(t) /\ freelist = old[t]
    BY <1>0, <1>8, ListPop, FreshPop DEF ListsOK
  <1>9. CASE Push(t) /\ freelist = old[t]
    BY <1>0, <1>9, ListPush, FreshPush DEF ListsOK
  <1>10. CASE AllocFill(t) \/ PushCount(t)
    <2>1. PICK h \in Timers : h = IF pc[t] = "fill" THEN old[t].head ELSE idx[t]
      BY <1>q, <1>10 DEF AllocFill, PushCount
    <2>2. /\ UNCHANGED <<freelist, owned, hi_watermark>>
          /\ \A i \in Timers \ {h} : arg'[i] = arg[i] /\ cb'[i] = cb[i]
          /\ \A i \in Timers : expirations'[i] = expirations[i] \/ (i = h /\ expirations'[i] = INVALID)
          /\ \A i \in Timers : Holds(t, i)' <=> Holds(t, i)
          /\ Holds(t, h)
      <3>1. CASE AllocFill(t)
        BY <1>0, <2>1, <3>1, TimerRanges DEF AllocFill, TimerShared, TimerCall, Holds
      <3>2. CASE PushCount(t)
        BY <1>0, <2>1, <3>2 DEF PushCount, TimerShared, TimerCall, Holds
      <3> QED BY <1>10, <3>1, <3>2
    <2>3. /\ h \notin FreeTimers /\ h \notin owned
          /\ \A u \in Threads \ {t} : pc[u] = "push" => idx[u] # h /\ idx[u] \in Timers
      <3>1. h \notin FreeTimers /\ h \notin owned
        BY <1>0, <2>1, <2>2 DEF Accounted
      <3>2. ASSUME NEW u \in Threads \ {t}, pc[u] = "push" PROVE idx[u] # h /\ idx[u] \in Timers
        <4>1. idx[u] \in Timers /\ Holds(u, idx[u])
          BY <1>0, <3>2, OldIsTimer DEF Holds
        <4>2. ~(Holds(u, h) /\ Holds(t, h))
          BY <1>0, <2>1, <3>2 DEF Accounted
        <4> QED BY <2>2, <4>1, <4>2
      <3> QED BY <3>1, <3>2
    <2>4. \A i \in FreeTimers : i \in Timers /\ i # h /\ arg'[i] = arg[i] /\ expirations'[i] = expirations[i]
      BY <1>f, <2>2, <2>3
    <2>5. /\ pc'[t] \in {"alloc", "arg", "pop", "push"} => old'[t].count <= freelist.count
          /\ pc'[t] = "pop" /\ old'[t] = freelist => nxt'[t] = arg'[old'[t].head]
          /\ pc'[t] = "push" => arg'[idx'[t]] = old'[t].head
      <3>1. CASE AllocFill(t)
        BY <1>0, <3>1 DEF AllocFill, TimerCall
      <3>2. CASE PushCount(t)
        <4>1. freelist.count \in Nat /\ idx[t] \in Timers
          BY <1>0, <1>q, <3>2 DEF PushCount, TimerShared
        <4> QED BY <1>0, <3>2, <4>1 DEF PushCount, TimerCall, TimerShared
      <3> QED BY <1>10, <3>1, <3>2
    <2>6. ListInv' /\ Accounted' /\ FreeTimers' = FreeTimers
      BY <1>0, <2>2, <2>3, <2>4, <2>5, ListFrame
    <2>7. FreshThread(t)'
      <3>1. CASE AllocFill(t)
        <4>1. /\ pc[t] = "fill" /\ pc'[t] = "watermark" /\ UNCHANGED old /\ h = old[t].head
              /\ expirations'[h] = INVALID /\ cb'[h]
          BY <1>0, <2>1, <3>1, TimerRanges DEF AllocFill, TimerCall, TimerShared
        <4>2. \A i \in Timers : Fresh(i)' => Fresh(i)
          BY <2>4, <2>6 DEF Fresh
        <4> QED BY <1>0, <4>1, <4>2 DEF FreshThread, FreshInv
      <3>2. CASE PushCount(t)
        BY <1>0, <3>2 DEF PushCount, TimerCall, FreshThread, FreshInv
      <3> QED BY <1>10, <3>1, <3>2
    <2>8. FreshInv'
      BY <1>0, <2>2, <2>4, <2>6, <2>7, FreshFrame
    <2> QED BY <2>6, <2>8 DEF ListsOK
  <1>11. CASE AllocWatermark(t)
    <2> DEFINE h == old[t].head
    <2>1. /\ h \in Timers /\ pc[t] = "watermark" /\ pc'[t] = "idle" /\ UNCHANGED <<arg, freelist, cb, expirations>>
          /\ owned' = owned \cup {h}
          /\ hi_watermark' = IF h + 1 <= hi_watermark THEN hi_watermark ELSE h + 1
      BY <1>0, <1>q, <1>11 DEF AllocWatermark, TimerCall
    <2>2. FreeTimers' = FreeTimers
      BY <2>1, FreeIsReach
    <2>3. \A i \in Timers : ~Holds(t, i)' /\ (Holds(t, i) <=> i = h)
      BY <2>1 DEF Holds
    <2>4. ListInv' /\ Accounted'
      BY <1>0, <2>1, <2>2, <2>3, ListOwn
    <2>5. \A j : Fresh(j)' <=> Fresh(j)
      BY <2>1, <2>2 DEF Fresh
    <2>6. hi_watermark \in Int /\ h \in Nat /\ hi_watermark <= hi_watermark' /\ h < hi_watermark'
      <3>1. hi_watermark \in 0 .. MAXTIMERS
        BY <1>0 DEF TimerShared
      <3>2. h \in Nat
        BY <2>1, TimerRanges
      <3>3. hi_watermark \in Int
        BY <3>1, TimerConstants
      <3>4. hi_watermark' = IF h + 1 <= hi_watermark THEN hi_watermark ELSE h + 1
        BY <2>1
      <3> HIDE DEF h
      <3> QED BY <3>2, <3>3, <3>4
    <2>7. ASSUME NEW j \in Timers, Fresh(j)'
          PROVE  j >= hi_watermark' /\ arg'[j] \in {j + 1, Nil} /\ (arg[j] # Nil => Fresh(arg[j]))'
      <3>1. j >= hi_watermark /\ h < j /\ arg[j] \in {j + 1, Nil} /\ (arg[j] # Nil => Fresh(arg[j]))
        BY <1>0, <2>1, <2>5, <2>7 DEF FreshInv
      <3>2. (arg[j] # Nil => Fresh(arg[j]))'
        BY <2>1, <2>2, <3>1 DEF Fresh
      <3>3. j >= hi_watermark'
        BY <2>1, <2>6, <3>1, TimerRanges
      <3> QED BY <2>1, <3>1, <3>2, <3>3
    <2>8. ASSUME NEW u \in Threads PROVE FreshThread(u)'
      <3>1. CASE u = t
        BY <2>1, <3>1 DEF FreshThread
      <3>2. CASE u # t
        <4>1. /\ pc'[u] = pc[u] /\ old'[u] = old[u] /\ idx'[u] = idx[u]
              /\ pc[u] \in {"fill", "watermark"} => \A i \in Timers : Fresh(i) => old[u].head < i
              /\ pc[u] \in {"push_head", "push_count", "push"} =>
                    expirations[idx[u]] = INVALID /\ idx[u] < hi_watermark /\ idx[u] \in Nat
              /\ pc[u] = "watermark" => expirations[old[u].head] = INVALID /\ cb[old[u].head]
          BY <1>0, <3>2, OldIsTimer, TimerRanges DEF FreshInv, OthersKeep
        <4>2. pc[u] \in {"push_head", "push_count", "push"} => idx[u] < hi_watermark'
          BY <2>1, <2>6, <4>1
        <4> QED BY <2>1, <2>5, <4>1, <4>2 DEF FreshThread
      <3> QED BY <3>1, <3>2
    <2>9. \A i \in owned' : i < hi_watermark' /\ cb'[i]
      <3>1. \A i \in owned : i \in Nat /\ i < hi_watermark /\ cb[i]
        BY <1>0, TimerRanges DEF FreshInv, TimerShared
      <3>2. cb[h]
        BY <1>0, <2>1 DEF FreshInv
      <3> QED BY <2>1, <2>6, <3>1, <3>2
    <2>10. \A i \in FreeTimers' : expirations'[i] = INVALID => i < hi_watermark'
      <3>1. \A i \in FreeTimers : i \in Nat
        BY <1>f, TimerRanges
      <3> QED BY <1>0, <2>1, <2>2, <2>6, <3>1 DEF FreshInv
    <2>11. FreshInv'
      BY <2>7, <2>8, <2>9, <2>10 DEF FreshInv, FreshThread
    <2> QED BY <2>4, <2>11 DEF ListsOK
  <1> QED BY <1>1, <1>2, <1>3, <1>4, <1>5, <1>6, <1>7, <1>8, <1>9, <1>10, <1>11 DEF TimerStep

\* Who finds a timer due has its callback, or is an orphan.
LEMMA CallbackStep ==
  ASSUME TimerAssumption, TimerTypes, ScanBounds, ListsOK, CallbackIsThere, NEW t \in Threads, TimerStep(t)
  PROVE  CallbackIsThere'
  <1>0. /\ OthersKeep(t) /\ Accounted /\ FreshInv /\ TimerShared /\ TimerCall /\ TimerScan /\ HasTimer
    BY TimerOthers DEF TimerTypes, TimerLocals, ListsOK
  <1> USE DEF Goto, Begin, Clear, cache, timers, call, scan, history
  <1>1. CASE /\ UNCHANGED <<cb, orphans>>
             /\ pc'[t] # "callback"
    BY <1>0, <1>1 DEF CallbackIsThere, OthersKeep
  <1>2. CASE Callback(t)
    BY <1>0, <1>2 DEF Callback, CallbackIsThere, OthersKeep, TimerCall
  <1>3. CASE AllocFill(t)
    <2>1. UNCHANGED orphans /\ pc'[t] # "callback" /\ \A i \in Timers : cb[i] => cb'[i]
      BY <1>0, <1>3 DEF AllocFill, TimerCall, TimerShared
    <2>2. \A u \in Threads : pc[u] = "callback" => idx[u] \in Timers
      BY OldIsTimer
    <2> QED BY <1>0, <2>1, <2>2 DEF CallbackIsThere, OthersKeep
  <1>4. CASE PushCount(t)
    <2>1. /\ pc'[t] # "callback" /\ \A i \in Timers : i # idx[t] => cb'[i] = cb[i]
          /\ orphans' = orphans \cup {u \in Threads : pc[u] = "callback" /\ idx[u] = idx[t]}
      BY <1>0, <1>4 DEF PushCount, TimerCall, TimerShared
    <2>2. \A u \in Threads : pc[u] = "callback" => idx[u] \in Timers
      BY OldIsTimer
    <2> QED BY <1>0, <2>1, <2>2 DEF CallbackIsThere, OthersKeep
  <1>5. CASE ScanOne(t) /\ ~(UNCHANGED <<cb, orphans>> /\ pc'[t] # "callback")
    <2>1. /\ UNCHANGED cb /\ done[t] < top[t] /\ expirations[done[t]] <= now[t] /\ idx'[t] = done[t]
          /\ orphans' = orphans \cup {v \in {t} : Unfilled(done[t])}
      BY <1>0, <1>5 DEF ScanOne, TimerCall
    <2>2. done[t] \in Timers /\ done[t] < hi_watermark
      <3>1. done[t] \in Nat /\ top[t] \in 0 .. MAXTIMERS /\ hi_watermark \in 0 .. MAXTIMERS /\ top[t] <= hi_watermark
        BY <1>0 DEF TimerScan, TimerShared, ScanBounds
      <3>2. done[t] < hi_watermark /\ done[t] < MAXTIMERS
        BY <2>1, <3>1, TimerConstants
      <3> QED BY <3>1, <3>2, TimerRanges
    <2>3. expirations[done[t]] # INVALID
      <3>1. now[t] \in 0 .. MaxTick /\ expirations[done[t]] \in Ticks
        BY <1>0, <2>2, TimerRanges DEF TimerScan, TimerShared
      <3> QED BY <2>1, <3>1, TimerRanges, TimerConstants DEF Ticks
    <2>4. t \notin orphans' => cb[done[t]]
      BY <1>0, <2>1, <2>2, <2>3, ActiveIsOwned
    <2> QED BY <1>0, <2>1, <2>4 DEF CallbackIsThere, OthersKeep
  <1>6. ASSUME \/ \E tck \in 1 .. MaxTick : TickSet(t, tck)
               \/ \E i \in Timers, e \in 1 .. INVALID, active \in BOOLEAN : UpdateExpiration(t, i, e, active)
               \/ \E i \in Timers : Free(t, i)
               \/ UpdateEarliest(t)
               \/ LoadNow(t) \/ LoadEarliest(t) \/ ResetEarliest(t) \/ LoadTop(t)
        PROVE  UNCHANGED <<cb, orphans>> /\ pc'[t] # "callback"
    BY <1>0, <1>6 DEF TickSet, UpdateExpiration, Free, UpdateEarliest, LoadNow, LoadEarliest, ResetEarliest,
                      LoadTop, TimerCall
  <1>7. ASSUME \/ ScanLoad(t) \/ Finish(t)
               \/ AllocCount(t) \/ AllocHead(t) \/ AllocArg(t) \/ AllocPop(t)
               \/ AllocWatermark(t) \/ PushHead(t) \/ Push(t)
        PROVE  UNCHANGED <<cb, orphans>> /\ pc'[t] # "callback"
    BY <1>0, <1>7 DEF ScanLoad, Finish, AllocCount, AllocHead, AllocArg, AllocPop, AllocWatermark, PushHead, Push, TimerCall
  <1> QED BY <1>1, <1>2, <1>3, <1>4, <1>5, <1>6, <1>7 DEF TimerStep

-----------------------------------------------------------------------------
(* Nobody forgets a timer *)

\* A step that leaves the entry alone: it is enough to look at earliest and at t.
LEMMA CoverKeep ==
  ASSUME CoverInv, NEW t \in Threads, OthersKeep(t), NEW i \in owned,
         expirations'[i] = expirations[i], expirations[i] # INVALID,
         earliest <= expirations[i] \/ Covers(t, i) => earliest' <= expirations[i] \/ Covers(t, i)'
  PROVE  earliest' <= expirations'[i] \/ \E u \in Threads : Covers(u, i)'
  <1>1. CASE earliest <= expirations[i] \/ Covers(t, i)
    BY <1>1
  <1>2. CASE \E u \in Threads \ {t} : Covers(u, i)
    BY <1>2 DEF Covers, OthersKeep
  <1> QED BY <1>1, <1>2 DEF CoverInv

\* A thread that is at none of these covers nothing.
CoverPcs == {"update", "top", "scan", "callback", "finish"}

LEMMA CoverQuiet ==
  ASSUME CoverInv, NEW t \in Threads, OthersKeep(t), UNCHANGED earliest, pc[t] \notin CoverPcs,
         NEW i \in owned, expirations'[i] = expirations[i], expirations[i] # INVALID
  PROVE  earliest' <= expirations'[i] \/ \E u \in Threads : Covers(u, i)'
  <1>1. ~Covers(t, i)
    BY DEF Covers, CoverPcs
  <1> QED BY <1>1, CoverKeep

LEMMA CoverScanLoad ==
  ASSUME TimerAssumption, TimerTypes, ScanBounds, NEW t \in Threads, ScanLoad(t), NEW i \in Timers, Covers(t, i)
  PROVE  Covers(t, i)'
  <1>1. /\ pc[t] = "scan" /\ pc'[t] = "scan" /\ UNCHANGED <<done, top, min, expirations>>
        /\ got'[t] = Append(got[t], expirations[Len(got[t])])
    BY DEF ScanLoad, Goto, cache, TimerTypes, TimerLocals, TimerCall, TimerScan
  <1>2. got[t] \in Seq(Ticks) /\ done[t] \in Nat /\ i \in Nat /\ Len(got[t]) \in Nat /\ done[t] <= Len(got[t])
    BY TimerRanges DEF TimerTypes, TimerLocals, TimerScan, ScanBounds
  <1>3. /\ Len(got'[t]) = Len(got[t]) + 1 /\ got'[t][Len(got[t]) + 1] = expirations[Len(got[t])]
        /\ \A k \in 1 .. Len(got[t]) : got'[t][k] = got[t][k]
    BY <1>1, <1>2
  <1>4. CASE i < top[t] /\ Len(got[t]) <= i
    <2>1. CASE Len(got[t]) = i
      BY <1>1, <1>2, <1>3, <1>4, <2>1 DEF Covers
    <2>2. CASE Len(got[t]) # i
      <3>1. Len(got'[t]) <= i
        BY <1>2, <1>3, <1>4, <2>2
      <3> QED BY <1>1, <1>4, <3>1 DEF Covers
    <2> QED BY <2>1, <2>2
  <1>5. CASE i < top[t] /\ ~(Len(got[t]) <= i) /\ done[t] <= i /\ got[t][i + 1] = expirations[i]
    <2>1. i + 1 \in 1 .. Len(got[t])
      BY <1>2, <1>5
    <2>2. got'[t][i + 1] = expirations[i]
      BY <1>3, <1>5, <2>1
    <2> QED BY <1>1, <1>5, <2>2 DEF Covers
  <1>6. CASE min[t] <= expirations[i]
    BY <1>1, <1>6 DEF Covers
  <1> QED BY <1>1, <1>4, <1>5, <1>6 DEF Covers

LEMMA CoverScanOne ==
  ASSUME TimerAssumption, TimerTypes, ScanBounds, NEW t \in Threads, ScanOne(t), NEW i \in Timers, Covers(t, i),
         expirations'[i] = expirations[i], expirations[i] # INVALID
  PROVE  Covers(t, i)'
  <1>1. /\ pc[t] = "scan" /\ pc'[t] \in {"scan", "callback", "finish"} /\ UNCHANGED <<top, got>>
        /\ Len(got[t]) = Ahead(t)
    BY DEF ScanOne, Goto, TimerTypes, TimerLocals, TimerCall
  <1>2. /\ got[t] \in Seq(Ticks) /\ done[t] \in Nat /\ i \in Nat /\ now[t] \in 0 .. MaxTick /\ min[t] \in Ticks
        /\ top[t] \in 0 .. MAXTIMERS /\ expirations[i] \in Ticks
    BY TimerRanges DEF TimerTypes, TimerLocals, TimerScan, TimerShared
  <1>3. done[t] < Len(got[t]) /\ Len(got[t]) \in Nat
    BY <1>1, <1>2 DEF Ahead
  <1> DEFINE w == got[t][done[t] + 1]
  <1>4. w \in Nat /\ min[t] \in Nat /\ expirations[i] \in Nat /\ top[t] \in Nat /\ now[t] \in Nat
    <2>1. done[t] + 1 \in 1 .. Len(got[t])
      BY <1>2, <1>3
    <2>2. w \in Ticks
      BY <1>2, <2>1
    <2>3. Ticks \subseteq Nat /\ 0 .. MAXTIMERS \subseteq Nat /\ 0 .. MaxTick \subseteq Nat
      BY TimerConstants, TimerRanges DEF Ticks
    <2> QED BY <1>2, <2>2, <2>3
  <1>5. CASE min[t] <= expirations[i]
    <2>1. min'[t] <= expirations[i]
      <3>1. min'[t] = min[t] \/ min'[t] = Least(min[t], w)
        BY <1>2 DEF ScanOne, TimerTypes, TimerLocals, TimerScan
      <3> HIDE DEF w
      <3> QED BY <1>4, <1>5, <3>1 DEF Least
    <2> QED BY <1>1, <2>1 DEF Covers
  <1>6. CASE i < top[t] /\ (Len(got[t]) <= i \/ (done[t] <= i /\ got[t][i + 1] = expirations[i]))
    <2>1. done[t] <= i /\ done[t] < top[t]
      BY <1>2, <1>3, <1>4, <1>6
    <2>2. pc'[t] \in {"scan", "callback"} /\ done'[t] = done[t] + 1
      BY <1>2, <1>4, <2>1 DEF ScanOne, Goto, TimerTypes, TimerLocals, TimerCall, TimerScan
    <2>3. CASE done[t] = i
      <3>1. w = expirations[i]
        BY <1>3, <1>6, <2>3, <1>2
      <3>2. CASE w <= now[t]
        <4>1. expirations' = [expirations EXCEPT ![i] = INVALID]
          BY <1>2, <1>4, <2>1, <2>3, <3>1, <3>2 DEF ScanOne
        <4>2. expirations'[i] = INVALID
          BY <4>1, TimerRanges DEF TimerTypes, TimerShared
        <4> QED BY <4>2
      <3>3. CASE ~(w <= now[t])
        <4>1. min'[t] = Least(min[t], w)
          BY <3>3 DEF ScanOne, TimerTypes, TimerLocals, TimerScan
        <4>2. min'[t] <= expirations[i]
          <5> HIDE DEF w
          <5> QED BY <1>4, <3>1, <4>1 DEF Least
        <4> QED BY <2>2, <4>2 DEF Covers
      <3> QED BY <3>2, <3>3
    <2>4. CASE done[t] # i
      <3>1. done'[t] <= i
        BY <1>2, <2>1, <2>2, <2>4
      <3> QED BY <1>1, <1>6, <2>2, <3>1 DEF Covers
    <2> QED BY <2>3, <2>4
  <1> QED BY <1>1, <1>5, <1>6 DEF Covers

LEMMA CoverStep ==
  ASSUME TimerAssumption, TimerTypes, ScanBounds, ListsOK, CoverInv, NEW t \in Threads, TimerStep(t)
  PROVE  CoverInv'
  <1>0. /\ OthersKeep(t) /\ TimerShared' /\ Accounted /\ FreshInv /\ TimerShared
        /\ TimerCall /\ TimerScan /\ HasTimer /\ owned \subseteq Timers
    BY TimerOthers, TimerSharedStep DEF TimerTypes, TimerLocals, ListsOK, TimerShared
  <1> USE DEF Goto, Begin, Clear, cache, timers, call, scan, history
  <1> SUFFICES ASSUME NEW i \in owned', expirations'[i] # INVALID
               PROVE  earliest' <= expirations'[i] \/ \E u \in Threads : Covers(u, i)'
    BY DEF CoverInv
  <1>a. earliest \in Nat /\ earliest' \in Nat /\ expirations'[i] \in Nat /\ i \in Timers
    <2>1. i \in Timers /\ earliest \in Ticks /\ earliest' \in Ticks
      BY <1>0 DEF TimerShared
    <2>2. expirations'[i] \in Ticks
      BY <1>0, <2>1, TimerRanges DEF TimerShared
    <2> QED BY <2>1, <2>2, TimerRanges DEF Ticks
  <1>1. CASE \E tck \in 1 .. MaxTick : TickSet(t, tck)
    BY <1>0, <1>1, CoverQuiet DEF TickSet, CoverPcs
  <1>2. CASE \E j \in Timers, e \in 1 .. INVALID, active \in BOOLEAN : UpdateExpiration(t, j, e, active)
    <2>1. PICK j \in Timers, e \in 1 .. INVALID, active \in BOOLEAN : UpdateExpiration(t, j, e, active)
      BY <1>2
    <2>2. CASE expirations'[i] = expirations[i]
      BY <1>0, <2>1, <2>2, CoverQuiet DEF UpdateExpiration, CoverPcs
    <2>3. CASE expirations'[i] # expirations[i]
      <3>1. i = j /\ expirations'[i] = e /\ e # INVALID
        BY <1>0, <1>a, <2>1, <2>3, TimerRanges DEF UpdateExpiration, TimerShared
      <3>2. pc'[t] = "update" /\ exp'[t] = e
        BY <1>0, <2>1, <2>3, <3>1 DEF UpdateExpiration, TimerCall
      <3>3. e <= expirations'[i]
        BY <1>a, <3>1
      <3> QED BY <3>2, <3>3 DEF Covers
    <2> QED BY <2>2, <2>3
  <1>3. CASE \E j \in Timers : Free(t, j)
    BY <1>0, <1>3, CoverQuiet DEF Free, CoverPcs
  <1>4. CASE UpdateEarliest(t)
    <2>1. UNCHANGED <<expirations, owned>> /\ pc[t] = "update" /\ earliest' = Least(earliest, exp[t])
      BY <1>4 DEF UpdateEarliest
    <2>2. exp[t] \in Nat
      BY <1>0, TimerRanges DEF TimerCall, Ticks
    <2>3. earliest <= expirations[i] \/ exp[t] <= expirations[i] => earliest' <= expirations[i]
      BY <1>a, <2>1, <2>2 DEF Least
    <2>4. Covers(t, i) => exp[t] <= expirations[i]
      BY <2>1 DEF Covers
    <2> QED BY <1>0, <2>1, <2>3, <2>4, CoverKeep
  <1>5. CASE LoadNow(t) \/ LoadEarliest(t)
    BY <1>0, <1>5, CoverQuiet DEF LoadNow, LoadEarliest, CoverPcs
  <1>6. CASE ResetEarliest(t)
    BY <1>0, <1>6 DEF ResetEarliest, Covers, TimerCall
  <1>7. CASE LoadTop(t)
    <2>1. /\ UNCHANGED <<earliest, expirations, owned, got>> /\ pc[t] = "top" /\ pc'[t] = "scan"
          /\ top'[t] = hi_watermark
      BY <1>0, <1>7 DEF LoadTop, TimerCall, TimerScan
    <2>2. i < hi_watermark
      BY <1>0, <2>1 DEF FreshInv
    <2>3. got'[t] = <<>> /\ Len(got'[t]) <= i
      BY <1>a, <2>1, TimerRanges DEF ScanBounds
    <2>4. Covers(t, i)'
      BY <2>1, <2>2, <2>3 DEF Covers
    <2> QED BY <2>4
  <1>8. CASE ScanLoad(t)
    <2>1. UNCHANGED <<earliest, expirations, owned>>
      BY <1>8 DEF ScanLoad
    <2> QED BY <1>0, <1>8, <1>a, <2>1, CoverScanLoad, CoverKeep
  <1>9. CASE ScanOne(t)
    <2>1. UNCHANGED <<earliest, owned>> /\ (UNCHANGED expirations \/ expirations' = [expirations EXCEPT ![done[t]] = INVALID])
      BY <1>9 DEF ScanOne
    <2>2. expirations'[i] = expirations[i]
      BY <1>0, <1>a, <2>1, TimerRanges DEF TimerShared
    <2> QED BY <1>0, <1>9, <1>a, <2>1, <2>2, CoverScanOne, CoverKeep
  <1>10. CASE Callback(t)
    <2>1. /\ UNCHANGED <<earliest, expirations, owned, got, done, top, min>>
          /\ pc[t] = "callback" /\ pc'[t] = "scan"
      BY <1>0, <1>10 DEF Callback, TimerCall
    <2>2. Covers(t, i) => Covers(t, i)'
      BY <2>1 DEF Covers
    <2> QED BY <1>0, <2>1, <2>2, CoverKeep
  <1>11. CASE Finish(t)
    <2>1. UNCHANGED <<expirations, owned>> /\ pc[t] = "finish" /\ earliest' = Least(earliest, min[t])
      BY <1>11 DEF Finish
    <2>2. min[t] \in Nat
      BY <1>0, TimerRanges DEF TimerScan, Ticks
    <2>3. earliest <= expirations[i] \/ min[t] <= expirations[i] => earliest' <= expirations[i]
      BY <1>a, <2>1, <2>2 DEF Least
    <2>4. Covers(t, i) => min[t] <= expirations[i]
      BY <2>1 DEF Covers
    <2> QED BY <1>0, <2>1, <2>3, <2>4, CoverKeep
  <1>12. CASE AllocCount(t) \/ AllocHead(t) \/ AllocArg(t) \/ AllocPop(t) \/ PushHead(t) \/ PushCount(t) \/ Push(t)
    <2>1. UNCHANGED <<earliest, expirations, owned>> /\ pc[t] \notin CoverPcs
      BY <1>12 DEF AllocCount, AllocHead, AllocArg, AllocPop, PushHead, PushCount, Push, CoverPcs
    <2> QED BY <1>0, <2>1, CoverQuiet
  <1>13. CASE AllocFill(t)
    <2>1. /\ UNCHANGED <<earliest, owned>> /\ pc[t] \notin CoverPcs
          /\ expirations' = [expirations EXCEPT ![old[t].head] = INVALID]
      BY <1>13 DEF AllocFill, CoverPcs
    <2>2. expirations'[i] = expirations[i]
      BY <1>0, <1>a, <2>1, TimerRanges DEF TimerShared
    <2> QED BY <1>0, <2>1, <2>2, CoverQuiet
  <1>14. CASE AllocWatermark(t)
    <2>1. /\ UNCHANGED <<earliest, expirations>> /\ pc[t] = "watermark" /\ owned' = owned \cup {old[t].head}
      BY <1>14 DEF AllocWatermark
    <2>2. expirations[old[t].head] = INVALID
      BY <1>0, <2>1 DEF FreshInv
    <2>3. i \in owned /\ pc[t] \notin CoverPcs
      BY <2>1, <2>2 DEF CoverPcs
    <2> QED BY <1>0, <2>1, <2>3, CoverQuiet
  <1> QED BY <1>1, <1>2, <1>3, <1>4, <1>5, <1>6, <1>7, <1>8, <1>9, <1>10, <1>11, <1>12, <1>13, <1>14 DEF TimerStep

-----------------------------------------------------------------------------

LEMMA TimerInitially ==
  ASSUME TimerAssumption
  PROVE  Init => TimerInv
  <1> SUFFICES ASSUME Init PROVE TimerInv
    OBVIOUS
  <1> USE DEF Init
  <1>1. /\ INVALID \in Nat /\ MaxTick < INVALID /\ MAXTIMERS \in Nat /\ 0 < MAXTIMERS /\ 0 \in Timers
        /\ 0 \in Ticks /\ INVALID \in Ticks /\ INVALID # 0 /\ Nil \in Links /\ Nil \notin Timers
        /\ MAXTIMERS > 1 => 1 \in Timers
        /\ \A i \in Timers : i \in Nat /\ (i # MAXTIMERS - 1 => i + 1 \in Timers)
        /\ \A i \in Sentinels : i # 0 /\ i \notin Timers
        /\ 0 \in 0 .. MaxTick /\ 0 \in 0 .. MAXTIMERS /\ 1 \in 0 .. MAXTIMERS
    BY TimerConstants DEF INVALID, Ticks, Timers, Sentinels, Links, Nil
  <1>2. /\ arg \in [Timers -> Links] /\ freelist \in [head : Links, count : Nat] /\ freelist.head \in Links
        /\ freelist.head = IF MAXTIMERS > 1 THEN 1 ELSE Nil
    BY <1>1 DEF Links
  <1>3. FreeTimers = Timers \ {0}
    BY <1>1, <1>2, ReachInit, FreeIsReach
  <1>4. TimerTypes
    <2>1. expirations \in [Timers \cup Sentinels -> Ticks] /\ cb \in [Timers -> BOOLEAN]
      BY <1>1
    <2>2. TimerShared
      BY <1>1, <1>2, <2>1 DEF TimerShared
    <2>3. TimerCall
      BY <1>1 DEF TimerCall, TimerPcs
    <2>4. TimerScan /\ HasTimer
      BY <1>1 DEF TimerScan, HasTimer
    <2> QED BY <2>2, <2>3, <2>4 DEF TimerTypes, TimerLocals
  <1>5. ScanBounds
    <2>1. \A i \in Sentinels : expirations[i] = 0
      BY <1>1
    <2>2. \A t \in Threads : Len(got[t]) = 0 /\ done[t] = 0 /\ Ahead(t) = 4
      BY DEF Ahead
    <2> QED BY <1>1, <2>1, <2>2 DEF ScanBounds
  <1>6. ListInv /\ Accounted
    <2>1. \A i \in FreeTimers : arg[i] # Nil => arg[i] = i + 1 /\ i \in Nat /\ i # 0
      BY <1>1, <1>3
    <2>2. \A i \in FreeTimers : arg[i] # Nil => arg[i] # freelist.head
      BY <1>1, <1>2, <1>3, <2>1
    <2>3. \A t \in Threads : pc[t] = "idle"
      OBVIOUS
    <2>4. \A t \in Threads, i \in Timers : ~Holds(t, i)
      BY <2>3 DEF Holds
    <2>5. ListInv
      <3>1. \A i, j \in FreeTimers : arg[i] = arg[j] /\ arg[i] # Nil => i = j
        <4>1. ASSUME NEW i \in FreeTimers, NEW j \in FreeTimers, arg[i] = arg[j], arg[i] # Nil
              PROVE  i = j
          <5>1. arg[i] = i + 1 /\ arg[j] = j + 1 /\ i \in Nat /\ j \in Nat
            BY <2>1, <4>1
          <5>2. i + 1 = j + 1
            BY <4>1, <5>1
          <5> QED BY <5>1, <5>2
        <4> QED BY <4>1
      <3> QED BY <2>2, <2>3, <3>1 DEF ListInv
    <2>6. Accounted
      BY <1>3, <2>4 DEF Accounted
    <2> QED BY <2>5, <2>6
  <1>7. FreshInv
    <2>1. \A i \in Timers : Fresh(i) <=> i # 0
      BY <1>1, <1>3 DEF Fresh
    <2>2. ASSUME NEW i \in Timers, Fresh(i)
          PROVE  i >= hi_watermark /\ arg[i] \in {i + 1, Nil} /\ (arg[i] # Nil => Fresh(arg[i]))
      <3>1. i \in Nat /\ i # 0 /\ arg[i] \in {i + 1, Nil} /\ (arg[i] # Nil => arg[i] = i + 1 /\ i + 1 \in Timers)
        BY <1>1, <2>1, <2>2
      <3>2. arg[i] # Nil => Fresh(arg[i])
        BY <2>1, <3>1
      <3> QED BY <3>1, <3>2
    <2>3. \A i \in FreeTimers : expirations[i] # INVALID
      BY <1>1, <1>3
    <2>4. \A i \in owned : i < hi_watermark /\ cb[i]
      <3>1. cb[0] /\ hi_watermark = 1 /\ owned = {0}
        BY <1>1
      <3> QED BY <3>1
    <2>5. \A t \in Threads : pc[t] = "idle"
      OBVIOUS
    <2> QED BY <2>2, <2>3, <2>4, <2>5 DEF FreshInv
  <1>8. CallbackIsThere /\ CoverInv
    BY <1>1 DEF CallbackIsThere, CoverInv
  <1> QED BY <1>4, <1>5, <1>6, <1>7, <1>8 DEF TimerInv

LEMMA TimerMoves ==
  ASSUME TimerAssumption
  PROVE  TimerInv /\ [Next]_vars => TimerInv'
  <1> SUFFICES ASSUME TimerInv, [Next]_vars PROVE TimerInv'
    OBVIOUS
  <1>0. TimerTypes /\ ScanBounds /\ ListsOK /\ CallbackIsThere /\ CoverInv
    BY DEF TimerInv, ListsOK
  <1>1. CASE Next
    <2>1. PICK t \in Threads : TimerStep(t)
      BY <1>1, TimerNext
    <2>2. TimerTypes'
      BY <1>0, <2>1, TimerSharedStep, TimerCallStep, TimerScanStep, HasTimerStep DEF TimerTypes, TimerLocals
    <2>3. ScanBounds' /\ ListsOK' /\ CallbackIsThere' /\ CoverInv'
      BY <1>0, <2>1, ScanStep, ListsStep, CallbackStep, CoverStep
    <2> QED BY <2>2, <2>3 DEF TimerInv, ListsOK
  <1>2. CASE UNCHANGED vars
    <2> USE <1>2 DEF vars, cache, timers, call, scan, history
    <2>1. TimerTypes' /\ ScanBounds'
      BY <1>0 DEF TimerTypes, TimerLocals, TimerShared, TimerCall, TimerScan, HasTimer, ScanBounds, Ahead
    <2>2. FreeTimers' = FreeTimers
      BY FreeIsReach
    <2>3. ListInv' /\ Accounted'
      BY <1>0, <2>2 DEF ListsOK, ListInv, Accounted, Holds
    <2>4. FreshInv'
      BY <1>0, <2>2 DEF ListsOK, FreshInv, Fresh
    <2>5. CallbackIsThere' /\ CoverInv'
      BY <1>0 DEF CallbackIsThere, CoverInv, Covers
    <2> QED BY <2>1, <2>3, <2>4, <2>5 DEF TimerInv
  <1> QED BY <1>1, <1>2

LEMMA TimerGives ==
  ASSUME TimerAssumption
  PROVE  TimerInv => NoTimerForgotten /\ TimersAreAccounted
  <1> SUFFICES ASSUME TimerInv PROVE NoTimerForgotten /\ TimersAreAccounted
    OBVIOUS
  <1>0. TimerTypes /\ Accounted /\ CallbackIsThere /\ CoverInv
    BY DEF TimerInv
  <1>1. NoTimerForgotten
    <2> SUFFICES ASSUME NEW i \in owned, expirations[i] # INVALID
                 PROVE  \/ earliest <= expirations[i]
                        \/ \E t \in Threads : pc[t] = "update" /\ exp[t] <= expirations[i]
                        \/ \E t \in Threads :
                              \/ pc[t] = "top"
                              \/ /\ pc[t] \in {"scan", "callback"} /\ i < top[t]
                                 /\ \/ Len(got[t]) <= i
                                    \/ done[t] <= i /\ got[t][i + 1] <= expirations[i]
                              \/ pc[t] \in {"scan", "callback", "finish"} /\ min[t] <= expirations[i]
      BY DEF NoTimerForgotten
    <2>1. expirations[i] <= expirations[i]
      <3>1. i \in Timers
        BY <1>0 DEF TimerTypes, TimerShared
      <3>2. expirations[i] \in Nat
        BY <1>0, <3>1, TimerRanges DEF TimerTypes, TimerShared, Ticks
      <3> QED BY <3>2
    <2>2. CASE \E t \in Threads : Covers(t, i)
      BY <2>1, <2>2 DEF Covers
    <2> QED BY <1>0, <2>2 DEF CoverInv
  <1>2. \A t \in Threads, i \in Timers : t \in Hands(i) <=> Holds(t, i)
    BY DEF Hands, Holds
  <1>3. ASSUME NEW i \in Timers, i \in FreeTimers \cup owned
        PROVE  Hands(i) = {} /\ ~(i \in FreeTimers /\ i \in owned)
    <2>1. Hands(i) \subseteq Threads
      BY DEF Hands
    <2> QED BY <1>0, <1>2, <1>3, <2>1 DEF Accounted
  <1>4. ASSUME NEW i \in Timers, i \notin FreeTimers \cup owned
        PROVE  \E t \in Threads : Hands(i) = {t}
    <2>1. PICK t \in Threads : Holds(t, i)
      BY <1>0, <1>4 DEF Accounted
    <2>2. \A u \in Threads : Holds(u, i) => u = t
      BY <1>0, <2>1 DEF Accounted
    <2>3. Hands(i) \subseteq Threads
      BY DEF Hands
    <2> QED BY <1>2, <2>1, <2>2, <2>3
  <1> QED BY <1>0, <1>1, <1>3, <1>4 DEF TimersAreAccounted, CallbackIsThere

\* NoTimerForgotten, TimersAreAccounted: for any number of threads, timers, ticks and calls, a
\* timer that lf_timer_set made active is not later than the cached earliest one, or a thread
\* in lf_timer_set or lf_timer_expire is on its way to see to that; lf_timer_alloc never hands
\* out a timer twice; and who expires a timer finds its callback, unless the timer was freed
\* or taken meanwhile.
THEOREM TimersAreSafe == TimerAssumption /\ Spec => [](NoTimerForgotten /\ TimersAreAccounted)
<1>1. ASSUME TimerAssumption, Init PROVE TimerInv
  BY <1>1, TimerInitially
<1>2. ASSUME TimerAssumption, TimerInv, [Next]_vars PROVE TimerInv'
  BY <1>2, TimerMoves
<1>3. ASSUME TimerAssumption, TimerInv PROVE NoTimerForgotten /\ TimersAreAccounted
  BY <1>3, TimerGives
<1>4. TimerAssumption => []TimerAssumption
  OBVIOUS
<1> QED BY <1>1, <1>2, <1>3, <1>4, PTL DEF Spec
=============================================================================
