--------------------------- MODULE Channel_proofs ---------------------------
(***************************************************************************)
(* The futex mutex and the unbuffered channel of channel/channel.c, the     *)
(* message bus of mbus/ and the event loop of redirect/ for all values of   *)
(* their constants, and the buffered channels of the run from what          *)
(* ChanBuf_proofs proves of every ring.                                     *)
(*                                                                          *)
(* channel: any number of threads on each side, any batches and any number  *)
(* of chan_close calls.  The two mutexes leave at most one thread of each   *)
(* side in an exchange, so while the channel is open the futex of a side    *)
(* tells exactly how far the thread that waits on it has come and whether   *)
(* it has been served.  That is the inductive invariant; a close ends it,   *)
(* because chan_close stores CHAN_CLOSED over whatever the futexes hold.    *)
(*                                                                          *)
(* mbus: between the comparison and the copy of a compare-and-exchange only *)
(* references can be dropped, so a thread that is inside a callback counts  *)
(* in the slot whose client it calls.                                       *)
(*                                                                          *)
(* redirect: a watcher is in the list as long as it is active; what         *)
(* EV_FOREACH visits (all but the last node) only loses watchers, except    *)
(* for the one that is put in front.                                        *)
(***************************************************************************)
EXTENDS Channel_MC, Integers, SequenceTheorems, FiniteSetTheorems, TLAPS

-----------------------------------------------------------------------------
(* What holds whether or not the channel is closed *)

Locals == {"idle", "lock", "offer", "copy", "clear", "sub", "wake", "add", "wait",
           "recheck", "checkclosed", "unlock"}

InCall(p)    == u_pc[p] # "idle"
HasMtx(p)    == u_pc[p] \notin {"idle", "lock"}
MtxOf(p)     == IF p \in Senders THEN send_mtx ELSE recv_mtx

UnbufTypes ==
    /\ U!TypeOK
    /\ u_pc \in [U!AllThreads \cup Closers ->
                  Locals \cup {"close_recv", "close_send", "wake_recv", "wake_send", "done"}]
    /\ u_left \in [U!AllThreads -> Nat]
    /\ \A p \in Senders : u_left[p] <= PerSender

\* At most one thread of a side is past mutex_lock.
Exclusive == \A p \in U!AllThreads : u_pc[p] \in Locals /\ (HasMtx(p) => MtxOf(p) = p)

CallsInTurn ==
    /\ \A p \in U!AllThreads : InCall(p) => u_left[p] > 0
    /\ \A p \in Senders : InCall(p) => cell[p] \in U!Msgs
    /\ \A p \in U!AllThreads : u_pc[p] = "copy" => ptr[p] # None

SleepersRecheck == \A p \in u_asleep : u_pc[p] = "recheck"

OpenClosers == ~u_closed => \A c \in Closers : u_pc[c] = "idle"

-----------------------------------------------------------------------------
(* The exchange of an open channel *)

\* p waits and no peer has lowered its futex for it.
Unserved(p) ==
    /\ U!InExchange(p)
    /\ u_ftx[U!Side(p)] = IF u_pc[p] = "add" THEN U!CHAN_NOT_READY ELSE U!CHAN_WAITING

FutexCounts ==
    /\ \A s \in {"send", "recv"} :
          (\A p \in U!AllThreads : U!InExchange(p) => U!Side(p) # s) => u_ftx[s] = U!CHAN_NOT_READY
    /\ \A p \in U!AllThreads :
          /\ u_pc[p] = "add" => u_ftx[U!Side(p)] \in {U!CHAN_READY, U!CHAN_NOT_READY}
          /\ u_pc[p] \in {"wait", "recheck"} => u_ftx[U!Side(p)] \in {U!CHAN_NOT_READY, U!CHAN_WAITING}

\* datap is the cell of a thread that has not been served, and the thread that
\* found it there serves that one.
DatapIsUnserved == datap # None => Unserved(datap)

TakerHasPeer ==
    \A u \in U!AllThreads :
        /\ u_pc[u] \in {"copy", "clear"} =>
              ptr[u] = datap /\ datap # None /\ U!Side(datap) = U!Other(u)
        /\ u_pc[u] = "sub" =>
              /\ datap = None /\ ptr[u] # None
              /\ U!Side(ptr[u]) = U!Other(u) /\ Unserved(ptr[u])

UnservedIsOffered ==
    \A p \in U!AllThreads : Unserved(p) =>
        datap = p \/ \E u \in U!AllThreads : u_pc[u] = "sub" /\ ptr[u] = p

SleeperIsServed ==
    \A p \in u_asleep : u_ftx[U!Side(p)] # U!CHAN_WAITING =>
        \E u \in U!AllThreads : u_pc[u] = "wake" /\ U!Side(u) = U!Other(p)

Exchange ==
    FutexCounts /\ DatapIsUnserved /\ TakerHasPeer /\ UnservedIsOffered /\ SleeperIsServed

-----------------------------------------------------------------------------
(* The messages of an open channel *)

\* The message of p's call has been copied.
Copied(p) ==
    \/ u_pc[p] \in {"clear", "sub", "wake", "checkclosed", "unlock"}
    \/ U!InExchange(p) /\ ~Unserved(p)
    \/ U!InExchange(p) /\ \E u \in U!AllThreads : u_pc[u] \in {"clear", "sub"} /\ ptr[u] = p

Current(p) == PerSender - u_left[p] + 1

Passed(p, k) == k < Current(p) \/ (k = Current(p) /\ Copied(p))

Messages ==
    /\ \A p \in Senders : InCall(p) => cell[p] = <<p, Current(p)>>
    /\ \A p \in Receivers : Copied(p) => cell[p] \in U!Msgs
    /\ \A p \in Senders : \A k \in 1 .. PerSender :
          delivered[<<p, k>>] = IF Passed(p, k) THEN 1 ELSE 0
    /\ \A p \in Senders : \A k \in 1 .. PerSender : <<p, k>> \in sent => k < Current(p)
    /\ u_received \subseteq U!Msgs

UnbufInv ==
    /\ UnbufTypes /\ Exclusive /\ CallsInTurn /\ SleepersRecheck /\ OpenClosers /\ U!MutexIsReturned
    /\ ~u_closed => Exchange /\ Messages

-----------------------------------------------------------------------------
(* Lemmas *)

LEMMA Sides ==
  ASSUME NEW p \in U!AllThreads
  PROVE  /\ U!Side(p) \in {"send", "recv"} /\ U!Other(p) \in {"send", "recv"}
         /\ U!Side(p) # U!Other(p)
         /\ p \in Senders <=> U!Side(p) = "send"
         /\ p \in Receivers <=> U!Side(p) = "recv"
         /\ p \notin Closers /\ p # None
  BY UnbufAssumption DEF U!Side, U!Other, U!AllThreads

\* The mutex of a side has one owner.
LEMMA OnePerSide ==
  ASSUME Exclusive, NEW p \in U!AllThreads, NEW u \in U!AllThreads,
         HasMtx(p), HasMtx(u), U!Side(p) = U!Side(u)
  PROVE  p = u
  BY DEF Exclusive, MtxOf, U!Side

LEMMA UnbufInit == U!Init => UnbufInv
  <1> SUFFICES ASSUME U!Init PROVE UnbufInv
    OBVIOUS
  <1> USE UnbufAssumption DEF U!Init, U!SendMtx!Init, U!RecvMtx!Init, U!AllThreads
  <1>1. UnbufTypes
    <2>1. u_ftx \in [{"send", "recv"} -> Int] /\ delivered \in [U!Msgs -> Nat]
      BY DEF U!CHAN_NOT_READY
    <2>2. U!TypeOK
      BY <2>1 DEF U!TypeOK
    <2>3. /\ u_pc \in [U!AllThreads \cup Closers -> Locals]
          /\ u_left \in [U!AllThreads -> Nat]
          /\ \A p \in Senders : u_left[p] <= PerSender
      BY DEF Locals
    <2> QED BY <2>2, <2>3 DEF UnbufTypes
  <1>2. Exclusive /\ CallsInTurn /\ SleepersRecheck /\ OpenClosers
    BY DEF Exclusive, HasMtx, CallsInTurn, InCall, SleepersRecheck, OpenClosers, Locals
  <1>3. U!MutexIsReturned
    BY DEF U!MutexIsReturned
  <1>4. Exchange
    BY DEF Exchange, FutexCounts, DatapIsUnserved, TakerHasPeer, UnservedIsOffered,
           SleeperIsServed, Unserved, U!InExchange, U!CHAN_NOT_READY
  <1>5. Messages
    <2>1. \A p \in Senders : Current(p) = 1
      BY DEF Current
    <2>2. \A p \in U!AllThreads : ~Copied(p)
      BY DEF Copied, U!InExchange
    <2>3. \A p \in Senders : \A k \in 1 .. PerSender : delivered[<<p, k>>] = 0 /\ ~Passed(p, k)
      BY <2>1, <2>2 DEF Passed, U!Msgs
    <2> QED BY <2>2, <2>3 DEF Messages, InCall
  <1> QED BY <1>1, <1>2, <1>3, <1>4, <1>5 DEF UnbufInv

-----------------------------------------------------------------------------
(* What every step preserves, open or closed *)

UnbufBase == UnbufTypes /\ Exclusive /\ CallsInTurn /\ SleepersRecheck /\ OpenClosers /\ U!MutexIsReturned

LEMMA UnbufBaseStep ==
  ASSUME UnbufInv, [U!Next]_unbuf PROVE UnbufBase'
  <1> USE UnbufAssumption DEF UnbufInv, UnbufBase, UnbufTypes, U!TypeOK, Exclusive, HasMtx,
     MtxOf, CallsInTurn,
          InCall, SleepersRecheck, OpenClosers, U!MutexIsReturned, U!AllThreads, Locals, U!Goto,
          U!mtxs, U!history
  <1>1. ASSUME NEW p \in U!AllThreads, U!Call(p) PROVE UnbufBase'
    <2> USE <1>1 DEF U!Call
    <2>1. UnbufTypes'
      BY DEF U!Msgs
    <2>2. Exclusive' /\ SleepersRecheck' /\ OpenClosers' /\ U!MutexIsReturned'
      OBVIOUS
    <2>3. CallsInTurn'
      BY DEF U!Msgs
    <2> QED BY <2>1, <2>2, <2>3
  <1>2. ASSUME NEW p \in U!AllThreads, U!Lock(p) PROVE UnbufBase'
    BY <1>2 DEF U!Lock, U!LockMtx, U!SendMtx!Lock, U!RecvMtx!Lock
  <1>3. ASSUME NEW p \in U!AllThreads, U!Offer(p) PROVE UnbufBase'
    BY <1>3 DEF U!Offer
  <1>4. ASSUME NEW p \in U!AllThreads, U!Copy(p) PROVE UnbufBase'
    <2> USE <1>4 DEF U!Copy
    <2>1. UnbufTypes'
      OBVIOUS
    <2>2. Exclusive' /\ SleepersRecheck' /\ OpenClosers' /\ U!MutexIsReturned'
      OBVIOUS
    <2>3. CallsInTurn'
      OBVIOUS
    <2> QED BY <2>1, <2>2, <2>3
  <1>5. ASSUME NEW p \in U!AllThreads, U!Clear(p) PROVE UnbufBase'
    BY <1>5 DEF U!Clear
  <1>6. ASSUME NEW p \in U!AllThreads, U!Sub(p) PROVE UnbufBase'
    BY <1>6 DEF U!Sub, U!Other
  <1>7. ASSUME NEW p \in U!AllThreads, U!Wake(p) PROVE UnbufBase'
    BY <1>7 DEF U!Wake
  <1>8. ASSUME NEW p \in U!AllThreads, U!Add(p) PROVE UnbufBase'
    BY <1>8 DEF U!Add, U!Side
  <1>9. ASSUME NEW p \in U!AllThreads, U!Wait(p) PROVE UnbufBase'
    BY <1>9 DEF U!Wait
  <1>10. ASSUME NEW p \in U!AllThreads, U!Recheck(p) PROVE UnbufBase'
    BY <1>10 DEF U!Recheck
  <1>11. ASSUME NEW p \in U!AllThreads, U!CheckClosed(p) PROVE UnbufBase'
    BY <1>11 DEF U!CheckClosed
  <1>12. ASSUME NEW p \in U!AllThreads, U!Return(p) PROVE UnbufBase'
    BY <1>12 DEF U!Return, U!UnlockMtx, U!SendMtx!Unlock, U!RecvMtx!Unlock
  <1>13. ASSUME NEW p \in U!AllThreads, U!SpuriousWake(p) PROVE UnbufBase'
    BY <1>13 DEF U!SpuriousWake
  <1>14. ASSUME NEW c \in Closers, U!Close(c) PROVE UnbufBase'
    <2>1. CASE U!CloseFlag(c)
      BY <2>1 DEF U!CloseFlag
    <2>2. ASSUME NEW s \in {"send", "recv"}, NEW src, NEW dst, src # "idle",
                 dst \in {"close_send", "wake_recv"}, U!CloseFutex(c, s, src, dst)
          PROVE  UnbufBase'
      BY <2>2 DEF U!CloseFutex, U!CHAN_CLOSED
    <2>3. ASSUME NEW s \in {"send", "recv"}, NEW src, NEW dst, src # "idle",
                 dst \in {"wake_send", "done"}, U!CloseWake(c, s, src, dst)
          PROVE  UnbufBase'
      BY <2>3 DEF U!CloseWake
    <2> QED BY <1>14, <2>1, <2>2, <2>3 DEF U!Close
  <1>15. CASE UNCHANGED unbuf
    BY <1>15 DEF unbuf
  <1> QED
    BY <1>1, <1>2, <1>3, <1>4, <1>5, <1>6, <1>7, <1>8, <1>9, <1>10, <1>11, <1>12, <1>13,
       <1>14, <1>15 DEF U!Next, U!Step

-----------------------------------------------------------------------------
(* The exchange of an open channel *)

LEMMA ExchangeStep ==
  ASSUME UnbufInv, UnbufBase', [U!Next]_unbuf, ~u_closed' PROVE Exchange'
  <1>1. ~u_closed /\ Exchange /\ UnbufBase
    BY DEF UnbufInv, UnbufBase, U!Next, U!Step, unbuf, U!Call, U!Lock, U!Offer, U!Copy, U!Clear,
       U!Sub, U!Wake, U!Add, U!Wait,
       U!Recheck, U!CheckClosed, U!Return, U!SpuriousWake, U!Close, U!CloseFlag, U!CloseFutex,
          U!CloseWake
  <1>2. \A p, u \in U!AllThreads : HasMtx(p) /\ HasMtx(u) /\ U!Side(p) = U!Side(u) => p = u
    BY <1>1, OnePerSide DEF UnbufBase
  <1>3. \A p \in U!AllThreads :
           /\ U!Side(p) \in {"send", "recv"} /\ U!Other(p) \in {"send", "recv"}
           /\ U!Side(p) # U!Other(p) /\ p \notin Closers /\ p # None
    BY Sides
  <1>4. \A p, u \in U!AllThreads : U!Side(p) # U!Side(u) <=> U!Side(p) = U!Other(u)
    BY DEF U!Side, U!Other
  <1> USE <1>1, <1>2, <1>3, <1>4 DEF UnbufBase, UnbufTypes, U!TypeOK, HasMtx, SleepersRecheck,
          U!InExchange, Unserved, Exchange, U!Goto, U!mtxs, U!history,
          U!CHAN_READY, U!CHAN_NOT_READY, U!CHAN_WAITING, FutexCounts,
          DatapIsUnserved, TakerHasPeer, UnservedIsOffered, SleeperIsServed
  <1>5. ASSUME NEW p \in U!AllThreads, U!Call(p) PROVE Exchange'
    BY <1>5 DEF U!Call
  <1>6. ASSUME NEW p \in U!AllThreads, U!Lock(p) PROVE Exchange'
    BY <1>6 DEF U!Lock
  <1>7. ASSUME NEW p \in U!AllThreads, U!Offer(p) PROVE Exchange'
    BY <1>7 DEF U!Offer
  <1>8. ASSUME NEW p \in U!AllThreads, U!Copy(p) PROVE Exchange'
    BY <1>8 DEF U!Copy
  <1>9. ASSUME NEW p \in U!AllThreads, U!Clear(p) PROVE Exchange'
    BY <1>9 DEF U!Clear
  <1>10. ASSUME NEW p \in U!AllThreads, U!Sub(p) PROVE Exchange'
    BY <1>10 DEF U!Sub
  <1>11. ASSUME NEW p \in U!AllThreads, U!Wake(p) PROVE Exchange'
    BY <1>11 DEF U!Wake
  <1>12. ASSUME NEW p \in U!AllThreads, U!Add(p) PROVE Exchange'
    BY <1>12 DEF U!Add
  <1>13. ASSUME NEW p \in U!AllThreads, U!Wait(p) PROVE Exchange'
    BY <1>13 DEF U!Wait
  <1>14. ASSUME NEW p \in U!AllThreads, U!Recheck(p) PROVE Exchange'
    BY <1>14 DEF U!Recheck
  <1>15. ASSUME NEW p \in U!AllThreads, U!CheckClosed(p) PROVE Exchange'
    BY <1>15 DEF U!CheckClosed
  <1>16. ASSUME NEW p \in U!AllThreads, U!Return(p) PROVE Exchange'
    BY <1>16 DEF U!Return
  <1>17. ASSUME NEW p \in U!AllThreads, U!SpuriousWake(p) PROVE Exchange'
    BY <1>17 DEF U!SpuriousWake
  <1>18. ASSUME NEW c \in Closers, U!Close(c) PROVE FALSE
    BY <1>18 DEF U!Close, U!CloseFlag, U!CloseFutex, U!CloseWake, OpenClosers
  <1>19. CASE UNCHANGED unbuf
    BY <1>19 DEF unbuf
  <1> QED
    BY <1>5, <1>6, <1>7, <1>8, <1>9, <1>10, <1>11, <1>12, <1>13, <1>14, <1>15, <1>16, <1>17,
       <1>18, <1>19 DEF U!Next, U!Step

-----------------------------------------------------------------------------
(* The messages of an open channel *)

LEMMA MessagesStep ==
  ASSUME UnbufInv, UnbufBase', Exchange', [U!Next]_unbuf, ~u_closed' PROVE Messages'
  <1>1. ~u_closed /\ Exchange /\ Messages /\ UnbufBase
    BY DEF UnbufInv, UnbufBase, U!Next, U!Step, unbuf, U!Call, U!Lock, U!Offer, U!Copy, U!Clear,
       U!Sub, U!Wake, U!Add, U!Wait,
       U!Recheck, U!CheckClosed, U!Return, U!SpuriousWake, U!Close, U!CloseFlag, U!CloseFutex,
          U!CloseWake
  <1>2. \A p, u \in U!AllThreads : HasMtx(p) /\ HasMtx(u) /\ U!Side(p) = U!Side(u) => p = u
    BY <1>1, OnePerSide DEF UnbufBase
  <1>3. \A p \in U!AllThreads :
           /\ U!Side(p) \in {"send", "recv"} /\ U!Other(p) \in {"send", "recv"}
           /\ U!Side(p) # U!Other(p) /\ p \notin Closers /\ p # None
    BY Sides
  <1>4. \A p, u \in U!AllThreads : U!Side(p) # U!Side(u) <=> U!Side(p) = U!Other(u)
    BY DEF U!Side, U!Other
  <1>5. \A p \in Senders : p \in U!AllThreads /\ p \notin Receivers /\ u_left[p] \in Nat
    BY <1>1, UnbufAssumption DEF U!AllThreads, UnbufBase, UnbufTypes
  <1>6. \A p \in Receivers : p \in U!AllThreads
    BY DEF U!AllThreads
  \* A step that copies nothing and keeps the calls keeps the messages.
  <1>7. ASSUME UNCHANGED <<cell, u_left, delivered, sent, u_received>>,
               \A p \in U!AllThreads : InCall(p)' <=> InCall(p),
               \A p \in U!AllThreads : Copied(p)' <=> Copied(p)
        PROVE  Messages'
    BY <1>1, <1>5, <1>6, <1>7 DEF Messages, Passed, Current
  <1> USE <1>1, <1>2, <1>3, <1>4 DEF UnbufBase, UnbufTypes, U!TypeOK, HasMtx, InCall, Copied,
     U!InExchange,
          Unserved, Exchange, U!Goto, U!mtxs, U!history, U!CHAN_READY, U!CHAN_NOT_READY, U!CHAN_WAITING,
          FutexCounts, TakerHasPeer
  <1>8. ASSUME NEW p \in U!AllThreads, U!Call(p) PROVE Messages'
    <2>1. u_left' = u_left /\ UNCHANGED <<delivered, sent, u_received>>
      BY <1>8 DEF U!Call
    <2>2. \A u \in U!AllThreads : Copied(u)' <=> Copied(u)
      BY <1>8 DEF U!Call
    <2>3. \A u \in U!AllThreads : ~InCall(u)' \/ u = p \/ InCall(u)
      BY <1>8 DEF U!Call
    <2>4. /\ \A u \in U!AllThreads \ {p} : cell'[u] = cell[u]
          /\ p \in Senders => cell'[p] = <<p, Current(p)>>
          /\ ~Copied(p)
      BY <1>8 DEF U!Call, Current
    <2>5. \A u \in Senders : Current(u)' = Current(u)
      BY <2>1 DEF Current
    <2>6. \A u \in Senders, k \in 1 .. PerSender : Passed(u, k)' <=> Passed(u, k)
      BY <1>5, <2>2, <2>5 DEF Passed
    <2>7. \A u \in Senders : InCall(u)' => cell'[u] = <<u, Current(u)'>>
      BY <1>5, <2>3, <2>4, <2>5 DEF Messages
    <2>8. \A u \in Receivers : Copied(u)' => cell'[u] \in U!Msgs
      BY <1>6, <2>2, <2>4 DEF Messages
    <2> QED BY <2>1, <2>5, <2>6, <2>7, <2>8 DEF Messages
  <1>9. ASSUME NEW p \in U!AllThreads, U!Lock(p) PROVE Messages'
    BY <1>7, <1>9 DEF U!Lock
  <1>10. ASSUME NEW p \in U!AllThreads, U!Offer(p) PROVE Messages'
    BY <1>7, <1>10 DEF U!Offer
  <1>11. ASSUME NEW p \in U!AllThreads, U!Copy(p) PROVE Messages'
    <2> DEFINE src == IF p \in Senders THEN p ELSE ptr[p]
               dst   == IF p \in Senders THEN ptr[p] ELSE p
    <2>1. src \in Senders /\ dst \in Receivers
      BY <1>11, Sides DEF U!Copy
    <2>2. ~Copied(src) /\ ~Copied(dst) /\ InCall(src)
      BY <1>11 DEF U!Copy, DatapIsUnserved
    <2>3. \A u \in U!AllThreads : Copied(u)' <=> Copied(u) \/ u \in {src, dst}
      BY <1>11 DEF U!Copy, DatapIsUnserved
    <2>4. \A u \in U!AllThreads : InCall(u)' <=> InCall(u)
      BY <1>11 DEF U!Copy
    <2>5. cell[src] = <<src, Current(src)>> /\ Current(src) \in 1 .. PerSender
      BY <1>5, <2>1, <2>2, UnbufAssumption DEF Messages, Current, CallsInTurn
    <2>6. cell[src] \in U!Msgs
      BY <2>1, <2>5 DEF U!Msgs
    <2>7. /\ cell' = [cell EXCEPT ![dst] = cell[src]]
          /\ delivered' = [delivered EXCEPT ![cell[src]] = @ + 1]
          /\ UNCHANGED <<u_left, sent, u_received>>
      BY <1>11, <2>1, <2>6 DEF U!Copy
    <2>8. \A u \in Senders : Current(u)' = Current(u)
      BY <2>7 DEF Current
    <2>9. ASSUME NEW u \in Senders, NEW k \in 1 .. PerSender
          PROVE  delivered'[<<u, k>>] = IF Passed(u, k)' THEN 1 ELSE 0
      <3>1. <<u, k>> \in U!Msgs
        BY DEF U!Msgs
      <3>2. CASE u = src /\ k = Current(src)
        BY <1>5, <2>1, <2>2, <2>3, <2>5, <2>6, <2>7, <2>8, <3>1, <3>2 DEF Messages, Passed
      <3>3. CASE ~(u = src /\ k = Current(src))
        <4>1. delivered'[<<u, k>>] = delivered[<<u, k>>]
          BY <2>5, <2>7, <3>1, <3>3
        <4>2. Passed(u, k)' <=> Passed(u, k)
          BY <1>5, <2>1, <2>3, <2>8, <3>3 DEF Passed
        <4> QED BY <4>1, <4>2 DEF Messages
      <3> QED BY <3>2, <3>3
    <2>10. \A u \in Senders : InCall(u)' => cell'[u] = <<u, Current(u)'>>
      BY <1>5, <2>1, <2>4, <2>7, <2>8 DEF Messages
    <2>11. \A u \in Receivers : Copied(u)' => cell'[u] \in U!Msgs
      BY <1>5, <1>6, <2>1, <2>3, <2>6, <2>7 DEF Messages
    <2> QED BY <2>7, <2>8, <2>9, <2>10, <2>11 DEF Messages
  <1>12. ASSUME NEW p \in U!AllThreads, U!Clear(p) PROVE Messages'
    BY <1>7, <1>12 DEF U!Clear
  <1>13. ASSUME NEW p \in U!AllThreads, U!Sub(p) PROVE Messages'
    BY <1>7, <1>13 DEF U!Sub
  <1>14. ASSUME NEW p \in U!AllThreads, U!Wake(p) PROVE Messages'
    BY <1>7, <1>14 DEF U!Wake
  <1>15. ASSUME NEW p \in U!AllThreads, U!Add(p) PROVE Messages'
    BY <1>7, <1>15 DEF U!Add
  <1>16. ASSUME NEW p \in U!AllThreads, U!Wait(p) PROVE Messages'
    BY <1>7, <1>16 DEF U!Wait
  <1>17. ASSUME NEW p \in U!AllThreads, U!Recheck(p) PROVE Messages'
    BY <1>7, <1>17 DEF U!Recheck
  <1>18. ASSUME NEW p \in U!AllThreads, U!CheckClosed(p) PROVE Messages'
    BY <1>7, <1>18 DEF U!CheckClosed
  <1>19. ASSUME NEW p \in U!AllThreads, U!Return(p) PROVE Messages'
    <2>1. Copied(p) /\ InCall(p) /\ ~InCall(p)' /\ u_left[p] > 0
      BY <1>19 DEF U!Return, CallsInTurn
    <2>2. \A u \in U!AllThreads \ {p} : (Copied(u)' <=> Copied(u)) /\ (InCall(u)' <=> InCall(u))
      BY <1>19 DEF U!Return
    <2>3. ~Copied(p)'
      BY <1>19 DEF U!Return
    <2>4. /\ u_left' = [u_left EXCEPT ![p] = @ - 1]
          /\ UNCHANGED <<cell, delivered>>
          /\ sent' = IF p \in Senders THEN sent \cup {cell[p]} ELSE sent
          /\ u_received' = IF p \in Receivers THEN u_received \cup {cell[p]} ELSE u_received
      BY <1>19 DEF U!Return
    <2>5. \A u \in Senders : Current(u)' = IF u = p THEN Current(p) + 1 ELSE Current(u)
      BY <1>5, <2>4, UnbufAssumption DEF Current
    <2>6. \A u \in Senders : Current(u) \in Int
      BY <1>5, UnbufAssumption DEF Current
    <2>7. \A u \in Senders, k \in 1 .. PerSender : Passed(u, k)' <=> Passed(u, k)
      BY <1>5, <2>1, <2>2, <2>3, <2>5, <2>6 DEF Passed
    <2>8. \A u \in Senders, k \in 1 .. PerSender : <<u, k>> \in sent' => k < Current(u)'
      BY <1>5, <2>1, <2>4, <2>5, <2>6 DEF Messages
    <2>9. u_received' \subseteq U!Msgs
      BY <2>1, <2>4 DEF Messages
    <2> QED BY <1>5, <1>6, <2>1, <2>2, <2>3, <2>4, <2>5, <2>7, <2>8, <2>9 DEF Messages
  <1>20. ASSUME NEW p \in U!AllThreads, U!SpuriousWake(p) PROVE Messages'
    BY <1>7, <1>20 DEF U!SpuriousWake
  <1>21. ASSUME NEW c \in Closers, U!Close(c) PROVE FALSE
    BY <1>21 DEF U!Close, U!CloseFlag, U!CloseFutex, U!CloseWake, OpenClosers
  <1>22. CASE UNCHANGED unbuf
    BY <1>7, <1>22 DEF unbuf
  <1> QED
    BY <1>8, <1>9, <1>10, <1>11, <1>12, <1>13, <1>14, <1>15, <1>16, <1>17, <1>18, <1>19, <1>20,
       <1>21, <1>22 DEF U!Next, U!Step

-----------------------------------------------------------------------------
LEMMA UnbufNext == UnbufInv /\ [U!Next]_unbuf => UnbufInv'
  <1> SUFFICES ASSUME UnbufInv, [U!Next]_unbuf PROVE UnbufInv'
    OBVIOUS
  <1>1. UnbufBase'
    BY UnbufBaseStep
  <1>2. ~u_closed' => Exchange'
    BY <1>1, ExchangeStep
  <1>3. ~u_closed' => Messages'
    BY <1>1, <1>2, MessagesStep
  <1> QED BY <1>1, <1>2, <1>3 DEF UnbufInv, UnbufBase

LEMMA UnbufAlways == ChannelSpec => [](program = "unbuf" => UnbufInv)
  <1>1. ChannelInit => UnbufInv
    BY UnbufInit DEF ChannelInit
  <1>2. ASSUME program = "unbuf" => UnbufInv,
               [ChannelNext]_<<program, vars, unbuf, buf, shm, loop, cast, bus>>
        PROVE  (program = "unbuf" => UnbufInv)'
    <2>1. program' = program /\ (program = "unbuf" => [U!Next]_unbuf)
      BY <1>2 DEF ChannelNext
    <2> QED BY <1>2, <2>1, UnbufNext
  <1> QED BY <1>1, <1>2, PTL DEF ChannelSpec

\* Rendezvous: while the unbuffered channel is open, chan_send_unbuf and chan_recv_unbuf
\* follow the pointer they read from datap only into the frame of a peer that is still in
\* its call; every message of a send that returned is in exactly one receiver, and every
\* receive that returned has a message; a thread asleep on a futex whose exchange is over
\* has a wake-up coming; and a call that ends before the close gives its mutex back.
THEOREM ExchangeIsExact == ChannelSpec => []Rendezvous
  <1> SUFFICES UnbufInv => U!PeerStillWaiting /\ U!Rendezvous /\ U!NoLostWakeup /\ U!MutexIsReturned
    BY UnbufAlways, PTL DEF Rendezvous
  <1> SUFFICES ASSUME UnbufInv
               PROVE  U!PeerStillWaiting /\ U!Rendezvous /\ U!NoLostWakeup /\ U!MutexIsReturned
    OBVIOUS
  <1>1. U!PeerStillWaiting
    BY DEF UnbufInv, Exchange, TakerHasPeer, DatapIsUnserved, Unserved, U!PeerStillWaiting
  <1>2. U!Rendezvous
    <2> SUFFICES ASSUME ~u_closed PROVE U!Rendezvous
      BY DEF U!Rendezvous
    <2>1. ASSUME NEW p \in Senders, NEW k \in 1 .. PerSender
          PROVE  /\ delivered[<<p, k>>] \in {0, 1}
                 /\ <<p, k>> \in sent => delivered[<<p, k>>] = 1
      BY DEF UnbufInv, Messages, Passed
    <2>2. sent \subseteq U!Msgs
      BY DEF UnbufInv, UnbufTypes, U!TypeOK
    <2>3. \A m \in U!Msgs : \E p \in Senders, k \in 1 .. PerSender : m = <<p, k>>
      BY DEF U!Msgs
    <2>4. \A m \in U!Msgs : delivered[m] <= 1 /\ (m \in sent => delivered[m] = 1)
      BY <2>1, <2>3
    <2> QED BY <2>2, <2>4 DEF U!Rendezvous, UnbufInv, Messages
  <1>3. U!NoLostWakeup
    BY DEF UnbufInv, Exchange, SleeperIsServed, U!NoLostWakeup
  <1> QED BY <1>1, <1>2, <1>3 DEF UnbufInv

\* While the channel is open its futexes stay between CHAN_READY and CHAN_WAITING, the
\* values that the waiting threads compare them with.
THEOREM FutexesAreSmall ==
  ChannelSpec => [](program = "unbuf" /\ ~u_closed => \A s \in {"send", "recv"} : u_ftx[s] \in 0 .. 2)
  <1>1. UnbufInv /\ ~u_closed => \A s \in {"send", "recv"} : u_ftx[s] \in 0 .. 2
    BY DEF UnbufInv, Exchange, FutexCounts, U!InExchange, U!CHAN_READY, U!CHAN_NOT_READY,
       U!CHAN_WAITING
  <1> QED BY <1>1, UnbufAlways, PTL

-----------------------------------------------------------------------------
(* The message bus *)

BusPcs == {"idle", "load", "compare", "copy", "callback", "decrement"}
Ops == {"register", "send", "unregister"}
AnyClient == [registered : BOOLEAN, refcnt : Int, callback : Threads \cup {None}]

BusTypes ==
    /\ clients \in [M!Ids -> AnyClient] /\ lock \in [M!Ids -> Threads \cup {None}]
    /\ bus_pc \in [Threads -> BusPcs] /\ op \in [Threads -> Ops] /\ id \in [Threads -> M!Ids]
    /\ local \in [Threads -> AnyClient] /\ broadcast \in [Threads -> BOOLEAN]
    /\ lost \in [M!Ids -> Nat]

\* What a thread knows of the slot that its call is about.
LocalIsKnown ==
    \A p \in Threads :
        /\ bus_pc[p] = "idle" => local[p] = M!NullClient
        /\ bus_pc[p] = "load" => op[p] # "register"
        /\ bus_pc[p] \in {"callback", "decrement"} => op[p] = "send"
        /\ bus_pc[p] = "compare" /\ op[p] = "register" => local[p] = M!NullClient
        /\ bus_pc[p] \in {"compare", "copy"} /\ op[p] = "send" => local[p].registered
        /\ bus_pc[p] = "copy" /\ op[p] # "send" => local[p].refcnt = 0

\* Between the comparison and the copy only references can be dropped.
CopyIsCurrent ==
    \A p \in Threads : bus_pc[p] = "copy" =>
        /\ lock[id[p]] = p
        /\ clients[id[p]].registered = local[p].registered
        /\ clients[id[p]].callback = local[p].callback
        /\ clients[id[p]].refcnt <= local[p].refcnt

BusInv == /\ BusTypes /\ LocalIsKnown /\ CopyIsCurrent
          /\ M!CallbackIsRegistered
          /\ \A k \in M!Ids : clients[k].refcnt = Cardinality(M!Inside(k)) + lost[k]

-----------------------------------------------------------------------------
(* Lemmas *)

LEMMA BusCardinality == \A T : M!Cardinality(T) = Cardinality(T)
  BY DEF M!Cardinality, Cardinality, M!IsFiniteSet, IsFiniteSet

LEMMA NullClientType == M!NullClient \in AnyClient
  BY DEF M!NullClient, AnyClient

LEMMA InsideIsFinite ==
  \A k : IsFiniteSet(M!Inside(k)) /\ Cardinality(M!Inside(k)) \in Nat
  <1>1. \A k : M!Inside(k) \in SUBSET Threads
    BY DEF M!Inside
  <1> QED BY <1>1, BusAssumption, FS_Subset, FS_CardinalityType

LEMMA BusInit == M!Init => BusInv
  <1> SUFFICES ASSUME M!Init PROVE BusInv
    OBVIOUS
  <1> USE DEF M!Init
  <1>1. 0 \in M!Ids
    BY BusAssumption DEF M!Ids
  <1>2. BusTypes
    BY <1>1, NullClientType DEF BusTypes, BusPcs, Ops
  <1>3. \A k \in M!Ids : M!Inside(k) = {} /\ Cardinality(M!Inside(k)) = 0
    BY FS_EmptySet DEF M!Inside
  <1> QED BY <1>1, <1>2, <1>3 DEF BusInv, LocalIsKnown, CopyIsCurrent, M!CallbackIsRegistered,
             M!NullClient

\* A step that changes no slot and lets nobody in or out of a callback.
LEMMA BusQuiet ==
  ASSUME BusInv, NEW p \in Threads, BusTypes', UNCHANGED <<clients, lost>>,
         \A q \in Threads \ {p} : /\ bus_pc'[q] = bus_pc[q] /\ op'[q] = op[q]
                                  /\ id'[q] = id[q] /\ local'[q] = local[q],
         \A k \in M!Ids : k # id'[p] \/ bus_pc'[p] # "copy" => lock'[k] = lock[k],
         bus_pc'[p] = "copy" => lock[id'[p]] = None /\ lock'[id'[p]] = p /\ clients[id'[p]] = local'[p],
         /\ bus_pc'[p] = "idle" => local'[p] = M!NullClient
         /\ bus_pc'[p] = "load" => op'[p] # "register"
         /\ bus_pc'[p] \in {"callback", "decrement"} => op'[p] = "send"
         /\ bus_pc'[p] = "compare" /\ op'[p] = "register" => local'[p] = M!NullClient
         /\ bus_pc'[p] \in {"compare", "copy"} /\ op'[p] = "send" => local'[p].registered
         /\ bus_pc'[p] = "copy" /\ op'[p] # "send" => local'[p].refcnt = 0,
         \/ bus_pc[p] \notin {"callback", "decrement"} /\ bus_pc'[p] \notin {"callback", "decrement"}
         \/ /\ bus_pc[p] \in {"callback", "decrement"} /\ bus_pc'[p] \in {"callback", "decrement"}
            /\ id'[p] = id[p] /\ local'[p] = local[p]
  PROVE  BusInv'
  <1>1. \A k \in M!Ids : M!Inside(k)' = M!Inside(k)
    BY DEF M!Inside
  <1>2. LocalIsKnown'
    BY DEF BusInv, LocalIsKnown
  <1>3. CopyIsCurrent'
    <2> SUFFICES ASSUME NEW q \in Threads, bus_pc'[q] = "copy"
                 PROVE  /\ lock'[id'[q]] = q
                        /\ clients'[id'[q]].registered = local'[q].registered
                        /\ clients'[id'[q]].callback = local'[q].callback
                        /\ clients'[id'[q]].refcnt <= local'[q].refcnt
      BY DEF CopyIsCurrent
    <2>1. CASE q = p
      BY <2>1 DEF BusTypes, AnyClient
    <2>2. CASE q # p
      <3>1. /\ lock[id[q]] = q /\ id'[q] = id[q] /\ id[q] \in M!Ids /\ q # None
            /\ clients[id[q]].registered = local[q].registered
            /\ clients[id[q]].callback = local[q].callback
            /\ clients[id[q]].refcnt <= local[q].refcnt
            /\ local'[q] = local[q]
        BY <2>2, NoneAssumption DEF BusInv, CopyIsCurrent, BusTypes
      <3>2. lock'[id[q]] = lock[id[q]]
        BY <3>1
      <3> QED BY <3>1, <3>2
    <2> QED BY <2>1, <2>2
  <1>4. M!CallbackIsRegistered'
    <2> SUFFICES ASSUME NEW k \in M!Ids, NEW q \in M!Inside(k)'
                 PROVE  clients'[k].registered /\ clients'[k].callback = local'[q].callback
      BY DEF M!CallbackIsRegistered
    <2>1. q \in M!Inside(k) /\ q \in Threads
      BY <1>1 DEF M!Inside
    <2>2. local'[q] = local[q]
      BY <2>1 DEF M!Inside
    <2> QED BY <2>1, <2>2 DEF BusInv, M!CallbackIsRegistered
  <1>5. \A k \in M!Ids : clients'[k].refcnt = Cardinality(M!Inside(k)') + lost'[k]
    BY <1>1 DEF BusInv
  <1> QED BY <1>2, <1>3, <1>4, <1>5 DEF BusInv

\* A call returns, or a broadcast goes on to the next slot.
LEMMA Returned ==
  ASSUME BusTypes, NEW p \in Threads, M!Return(p) \/ (op[p] = "send" /\ M!SendReturns(p))
  PROVE  /\ bus_pc'[p] \in {"idle", "load"} /\ local'[p] = M!NullClient /\ op'[p] = "send"
         /\ bus_pc' \in [Threads -> BusPcs] /\ op' \in [Threads -> Ops]
         /\ id' \in [Threads -> M!Ids] /\ local' \in [Threads -> AnyClient]
         /\ broadcast' \in [Threads -> BOOLEAN]
         /\ \A q \in Threads \ {p} : /\ bus_pc'[q] = bus_pc[q] /\ op'[q] = op[q]
                                     /\ id'[q] = id[q] /\ local'[q] = local[q]
         /\ M!Return(p) => bus_pc'[p] = "idle"
  <1> USE NullClientType, BusAssumption DEF M!Goto, BusTypes, BusPcs, Ops
  <1>1. 0 \in M!Ids
    BY DEF M!Ids
  <1>2. CASE M!Return(p)
    BY <1>1, <1>2 DEF M!Return
  <1>3. CASE ~M!Return(p) /\ op[p] = "send" /\ M!SendReturns(p)
    <2>1. /\ bus_pc' = [bus_pc EXCEPT ![p] = "load"] /\ id[p] + 1 \in M!Ids
          /\ id' = [id EXCEPT ![p] = @ + 1] /\ local' = [local EXCEPT ![p] = M!NullClient]
          /\ UNCHANGED <<op, broadcast, calls>>
      BY <1>3 DEF M!SendReturns
    <2> QED BY <1>3, <2>1
  <1> QED BY <1>2, <1>3

\* bus_register, bus_send and bus_unregister up to the copy.
LEMMA BusEnter ==
  ASSUME BusInv, NEW p \in Threads,
         \/ \E o \in Ops, k \in 0 .. n_clients, all \in BOOLEAN : M!Call(p, o, k, all)
         \/ M!Load(p) \/ M!Compare(p) \/ M!Callback(p)
  PROVE  BusInv'
  <1> USE NullClientType, BusAssumption DEF M!Goto, M!frame
  <1>0. /\ clients \in [M!Ids -> AnyClient] /\ lock \in [M!Ids -> Threads \cup {None}]
        /\ bus_pc \in [Threads -> BusPcs] /\ op \in [Threads -> Ops] /\ id \in [Threads -> M!Ids]
        /\ local \in [Threads -> AnyClient] /\ broadcast \in [Threads -> BOOLEAN]
        /\ lost \in [M!Ids -> Nat] /\ 0 \in M!Ids
    BY DEF BusInv, BusTypes, M!Ids
  <1>1. ASSUME NEW o \in Ops, NEW k \in 0 .. n_clients, NEW all \in BOOLEAN, M!Call(p, o, k, all)
        PROVE  BusInv'
    <2>1. BusTypes' /\ UNCHANGED <<clients, lost, lock, local>>
      BY <1>0, <1>1 DEF M!Call, BusTypes, BusPcs
    <2>2. bus_pc[p] = "idle" /\ local[p] = M!NullClient
      BY <1>1 DEF M!Call, BusInv, LocalIsKnown
    <2>3. \/ bus_pc'[p] = "idle"
          \/ bus_pc'[p] = "compare" /\ op'[p] = "register"
          \/ bus_pc'[p] = "load" /\ op'[p] # "register"
      BY <1>0, <1>1, <2>2 DEF M!Call
    <2>4. \A q \in Threads \ {p} : bus_pc'[q] = bus_pc[q] /\ op'[q] = op[q] /\ id'[q] = id[q]
      BY <1>0, <1>1 DEF M!Call
    <2> QED BY <2>1, <2>2, <2>3, <2>4, BusQuiet
  <1>2. ASSUME M!Return(p) \/ (op[p] = "send" /\ M!SendReturns(p)), UNCHANGED <<clients, lock, lost>>,
               bus_pc[p] \in {"load", "compare"}
        PROVE  BusInv'
    <2>1. /\ BusTypes' /\ bus_pc'[p] \in {"idle", "load"} /\ local'[p] = M!NullClient
          /\ op'[p] = "send"
          /\ \A q \in Threads \ {p} : /\ bus_pc'[q] = bus_pc[q] /\ op'[q] = op[q]
                                      /\ id'[q] = id[q] /\ local'[q] = local[q]
      BY <1>0, <1>2, Returned DEF BusTypes
    <2> QED BY <1>2, <2>1, BusQuiet
  <1>3. CASE M!Load(p)
    <2>1. CASE clients[id[p]].registered
      <3>1. /\ local' = [local EXCEPT ![p] = clients[id[p]]]
            /\ bus_pc' = [bus_pc EXCEPT ![p] = "compare"]
            /\ UNCHANGED <<op, id, broadcast, calls, clients, lock, lost>> /\ bus_pc[p] = "load"
        BY <1>3, <2>1 DEF M!Load
      <3>2. BusTypes'
        BY <1>0, <3>1 DEF BusTypes, BusPcs
      <3>3. op[p] # "register"
        BY <3>1 DEF BusInv, LocalIsKnown
      <3> QED BY <1>0, <2>1, <3>1, <3>2, <3>3, BusQuiet
    <2>2. CASE ~clients[id[p]].registered
      BY <1>2, <1>3, <2>2 DEF M!Load
    <2> QED BY <2>1, <2>2
  <1>4. CASE M!Compare(p)
    <2> DEFINE expected == IF op[p] = "unregister" THEN [local[p] EXCEPT !.refcnt = 0] ELSE local[p]
    <2>1. /\ bus_pc[p] = "compare" /\ lock[id[p]] = None /\ UNCHANGED <<clients, lost>>
          /\ expected \in AnyClient
      BY <1>0, <1>4 DEF M!Compare, AnyClient
    <2>2. CASE clients[id[p]] = expected
      <3>1. /\ lock' = [lock EXCEPT ![id[p]] = p] /\ local' = [local EXCEPT ![p] = expected]
            /\ bus_pc' = [bus_pc EXCEPT ![p] = "copy"]
            /\ UNCHANGED <<op, id, broadcast, calls>>
        BY <1>4, <2>2 DEF M!Compare
      <3>2. BusTypes'
        BY <1>0, <2>1, <3>1 DEF BusTypes, BusPcs
      <3>3. op[p] = "send" => expected = local[p] /\ local[p].registered
        BY <2>1 DEF BusInv, LocalIsKnown
      <3>4. op[p] # "send" => expected.refcnt = 0
        <4>1. op[p] = "register" => expected = M!NullClient
          BY <2>1 DEF BusInv, LocalIsKnown
        <4>2. op[p] = "unregister" => expected.refcnt = 0
          BY <1>0 DEF AnyClient
        <4> QED BY <1>0, <4>1, <4>2 DEF Ops, M!NullClient
      <3> HIDE DEF expected
      <3>5. /\ bus_pc'[p] = "copy" /\ local'[p] = expected /\ lock'[id'[p]] = p
            /\ \A k \in M!Ids \ {id'[p]} : lock'[k] = lock[k]
            /\ \A q \in Threads \ {p} : bus_pc'[q] = bus_pc[q] /\ local'[q] = local[q]
        BY <1>0, <3>1
      <3> QED BY <1>0, <2>1, <2>2, <3>1, <3>2, <3>3, <3>4, <3>5, BusQuiet
    <2>3. CASE clients[id[p]] # expected /\ op[p] # "register" /\ clients[id[p]].registered
      <3>1. /\ local' = [local EXCEPT ![p] = clients[id[p]]]
            /\ UNCHANGED <<op, id, broadcast, calls, lock, bus_pc>>
        BY <1>4, <2>3 DEF M!Compare
      <3>2. BusTypes'
        BY <1>0, <2>1, <3>1 DEF BusTypes, BusPcs
      <3> QED BY <1>0, <2>1, <2>3, <3>1, <3>2, BusQuiet
    <2>4. CASE clients[id[p]] # expected /\ ~(op[p] # "register" /\ clients[id[p]].registered)
      <3>1. M!Return(p) \/ (op[p] = "send" /\ M!SendReturns(p))
        BY <1>4, <2>4 DEF M!Compare
      <3>2. UNCHANGED lock
        BY <1>4, <2>4 DEF M!Compare
      <3> QED BY <1>2, <2>1, <3>1, <3>2
    <2> QED BY <2>2, <2>3, <2>4
  <1>5. CASE M!Callback(p)
    <2>1. /\ bus_pc[p] = "callback" /\ bus_pc' = [bus_pc EXCEPT ![p] = "decrement"]
          /\ UNCHANGED <<clients, lock, local, op, id, broadcast, calls, lost>>
      BY <1>5 DEF M!Callback
    <2>2. BusTypes'
      BY <1>0, <2>1 DEF BusTypes, BusPcs
    <2> QED BY <1>0, <2>1, <2>2, BusQuiet DEF BusInv, LocalIsKnown
  <1> QED BY <1>1, <1>3, <1>4, <1>5

\* The copy of bus_send, and the decrement after its callback.
LEMMA BusCopy ==
  ASSUME BusInv, NEW p \in Threads, M!Copy(p) PROVE BusInv'
  <1> USE NullClientType, BusAssumption DEF M!Goto, M!frame
  <1>0. /\ clients \in [M!Ids -> AnyClient] /\ lock \in [M!Ids -> Threads \cup {None}]
        /\ bus_pc \in [Threads -> BusPcs] /\ op \in [Threads -> Ops] /\ id \in [Threads -> M!Ids]
        /\ local \in [Threads -> AnyClient] /\ broadcast \in [Threads -> BOOLEAN]
        /\ lost \in [M!Ids -> Nat] /\ 0 \in M!Ids
    BY DEF BusInv, BusTypes, M!Ids
  <1>k. PICK k \in M!Ids : k = id[p]
    BY <1>0
  <1> DEFINE new == CASE op[p] = "register" -> [registered |-> TRUE, refcnt |-> 0, callback |-> p]
                     [] op[p] = "send" -> [local[p] EXCEPT !.refcnt = @ + 1]
                     [] OTHER -> M!NullClient
             more == IF op[p] = "send" THEN local[p].refcnt - clients[k].refcnt ELSE 0
             n == Cardinality(M!Inside(k))
  <1>1. /\ bus_pc[p] = "copy" /\ lock' = [lock EXCEPT ![k] = None]
        /\ clients' = [clients EXCEPT ![k] = new]
        /\ lost' = [lost EXCEPT ![k] = @ + more]
    BY <1>0, <1>k DEF M!Copy, Ops
  <1>2. /\ k \in M!Ids /\ lock[k] = p /\ clients[k] \in AnyClient /\ local[p] \in AnyClient
        /\ clients[k].registered = local[p].registered
        /\ clients[k].callback = local[p].callback
        /\ clients[k].refcnt <= local[p].refcnt
        /\ clients[k].refcnt = n + lost[k] /\ n \in Nat
    BY <1>0, <1>k, <1>1, InsideIsFinite DEF BusInv, CopyIsCurrent
  <1>3. op[p] # "send" => n = 0 /\ lost[k] = 0 /\ clients[k].refcnt = 0 /\ M!Inside(k) = {}
    <2>1. op[p] # "send" => local[p].refcnt = 0
      BY <1>1 DEF BusInv, LocalIsKnown
    <2>2. op[p] # "send" => n = 0 /\ lost[k] = 0
      BY <1>0, <1>2, <2>1
    <2>3. n = 0 => M!Inside(k) = {}
      BY InsideIsFinite, FS_EmptySet
    <2> QED BY <1>2, <2>2, <2>3
  <1>4. /\ new \in AnyClient /\ more \in Nat
        /\ op[p] = "send" => new.registered /\ new.callback = local[p].callback
        /\ new.refcnt = IF op[p] = "send" THEN local[p].refcnt + 1 ELSE 0
    <2>1. op[p] = "send" => local[p].registered
      BY <1>1 DEF BusInv, LocalIsKnown
    <2> QED BY <1>0, <1>2, <2>1 DEF AnyClient, M!NullClient, Ops
  <1> HIDE DEF new, more
  <1>5. /\ bus_pc'[p] = (IF op[p] = "send" THEN "callback" ELSE "idle")
        /\ bus_pc' \in [Threads -> BusPcs] /\ op'[p] = "send"
        /\ op' \in [Threads -> Ops] /\ id' \in [Threads -> M!Ids]
        /\ local' \in [Threads -> AnyClient] /\ broadcast' \in [Threads -> BOOLEAN]
        /\ op[p] = "send" => id'[p] = k /\ local'[p] = local[p]
        /\ op[p] # "send" => local'[p] = M!NullClient
    <2>1. CASE op[p] = "send"
      BY <1>0, <1>k, <2>1 DEF M!Copy, BusPcs, Ops
    <2>2. CASE op[p] # "send"
      <3>1. M!Return(p)
        BY <2>2 DEF M!Copy
      <3> QED BY <2>2, <3>1, Returned DEF BusInv
    <2> QED BY <2>1, <2>2
  <1>6. \A q \in Threads \ {p} : /\ bus_pc'[q] = bus_pc[q] /\ op'[q] = op[q]
                                 /\ id'[q] = id[q] /\ local'[q] = local[q]
    BY <1>0 DEF M!Copy, M!Return
  <1>7. /\ clients'[k] = new /\ lost'[k] = lost[k] + more
        /\ clients' \in [M!Ids -> AnyClient] /\ lost' \in [M!Ids -> Nat]
        /\ lock' \in [M!Ids -> Threads \cup {None}]
        /\ \A j \in M!Ids \ {k} : clients'[j] = clients[j] /\ lost'[j] = lost[j] /\ lock'[j] = lock[j]
    BY <1>0, <1>1, <1>2, <1>4
  <1>8. BusTypes'
    BY <1>5, <1>7 DEF BusTypes
  <1>9. LocalIsKnown'
    BY <1>0, <1>5, <1>6 DEF BusInv, LocalIsKnown, Ops
  <1>10. CopyIsCurrent'
    <2> SUFFICES ASSUME NEW q \in Threads, bus_pc'[q] = "copy"
                 PROVE  /\ lock'[id'[q]] = q
                        /\ clients'[id'[q]].registered = local'[q].registered
                        /\ clients'[id'[q]].callback = local'[q].callback
                        /\ clients'[id'[q]].refcnt <= local'[q].refcnt
      BY DEF CopyIsCurrent
    <2>1. q # p /\ id'[q] = id[q] /\ id[q] \in M!Ids /\ bus_pc[q] = "copy" /\ local'[q] = local[q]
      BY <1>0, <1>5, <1>6
    <2>2. /\ lock[id[q]] = q /\ clients[id[q]].registered = local[q].registered
          /\ clients[id[q]].callback = local[q].callback
          /\ clients[id[q]].refcnt <= local[q].refcnt
      BY <2>1 DEF BusInv, CopyIsCurrent
    <2>3. id[q] # k
      BY <1>2, <2>1, <2>2
    <2> QED BY <1>7, <2>1, <2>2, <2>3
  <1>11. /\ \A j \in M!Ids \ {k} : M!Inside(j)' = M!Inside(j)
         /\ M!Inside(k)' = (IF op[p] = "send" THEN M!Inside(k) \cup {p} ELSE M!Inside(k))
         /\ p \notin M!Inside(k)
    <2>1. \A j \in M!Ids, q \in Threads \ {p} : q \in M!Inside(j)' <=> q \in M!Inside(j)
      BY <1>6 DEF M!Inside
    <2>2. \A j \in M!Ids : p \notin M!Inside(j) /\ (p \in M!Inside(j)' <=> j = k /\ op[p] = "send")
      BY <1>1, <1>5 DEF M!Inside
    <2>3. \A j \in M!Ids : M!Inside(j) \subseteq Threads /\ M!Inside(j)' \subseteq Threads
      BY DEF M!Inside
    <2> QED BY <2>1, <2>2, <2>3
  <1>12. M!CallbackIsRegistered'
    <2> SUFFICES ASSUME NEW j \in M!Ids, NEW q \in M!Inside(j)'
                 PROVE  clients'[j].registered /\ clients'[j].callback = local'[q].callback
      BY DEF M!CallbackIsRegistered
    <2>1. CASE q = p
      <3>1. j = k /\ op[p] = "send"
        BY <1>1, <1>5, <1>11, <2>1 DEF M!Inside
      <3> QED BY <1>4, <1>5, <1>7, <2>1, <3>1
    <2>2. CASE q # p
      <3>1. q \in M!Inside(j) /\ q \in Threads
        BY <1>11, <2>2 DEF M!Inside
      <3>2. local'[q] = local[q]
        BY <1>6, <2>2, <3>1
      <3>3. clients[j].registered /\ clients[j].callback = local[q].callback
        BY <3>1 DEF BusInv, M!CallbackIsRegistered
      <3>4. j = k => op[p] = "send"
        BY <1>3, <3>1
      <3> QED BY <1>2, <1>4, <1>7, <3>2, <3>3, <3>4
    <2> QED BY <2>1, <2>2
  <1>13. \A j \in M!Ids : clients'[j].refcnt = Cardinality(M!Inside(j)') + lost'[j]
    <2>1. Cardinality(M!Inside(k)') = IF op[p] = "send" THEN n + 1 ELSE n
      BY <1>11, InsideIsFinite, FS_AddElement
    <2>2. clients'[k].refcnt = Cardinality(M!Inside(k)') + lost'[k]
      <3>1. CASE op[p] = "send"
        <4>1. /\ new.refcnt = local[p].refcnt + 1 /\ more = local[p].refcnt - clients[k].refcnt
              /\ local[p].refcnt \in Int /\ clients[k].refcnt \in Int /\ lost[k] \in Nat
          BY <1>0, <1>2, <1>4, <3>1 DEF more, AnyClient
        <4> HIDE DEF n
        <4> QED BY <1>2, <1>7, <2>1, <3>1, <4>1
      <3>2. CASE op[p] # "send"
        <4>1. new.refcnt = 0 /\ more = 0
          BY <1>4, <3>2 DEF more
        <4> QED BY <1>3, <1>7, <2>1, <3>2, <4>1
      <3> QED BY <3>1, <3>2
    <2>3. ASSUME NEW j \in M!Ids, j # k
          PROVE  clients'[j].refcnt = Cardinality(M!Inside(j)') + lost'[j]
      <3>1. clients'[j] = clients[j] /\ M!Inside(j)' = M!Inside(j) /\ lost'[j] = lost[j]
        BY <1>7, <1>11, <2>3
      <3>2. clients[j].refcnt = Cardinality(M!Inside(j)) + lost[j]
        BY DEF BusInv
      <3> QED BY <3>1, <3>2
    <2> QED BY <2>2, <2>3
  <1> QED BY <1>8, <1>9, <1>10, <1>12, <1>13 DEF BusInv

LEMMA BusDecrement ==
  ASSUME BusInv, NEW p \in Threads, M!Decrement(p) PROVE BusInv'
  <1> USE NullClientType, BusAssumption DEF M!Goto, M!frame
  <1>0. /\ clients \in [M!Ids -> AnyClient] /\ lock \in [M!Ids -> Threads \cup {None}]
        /\ bus_pc \in [Threads -> BusPcs] /\ op \in [Threads -> Ops] /\ id \in [Threads -> M!Ids]
        /\ local \in [Threads -> AnyClient] /\ broadcast \in [Threads -> BOOLEAN]
        /\ lost \in [M!Ids -> Nat] /\ 0 \in M!Ids
    BY DEF BusInv, BusTypes, M!Ids
  <1>k. PICK k \in M!Ids : k = id[p]
    BY <1>0
  <1> DEFINE new == [clients[k] EXCEPT !.refcnt = @ - 1]
  <1>1. /\ bus_pc[p] = "decrement" /\ clients' = [clients EXCEPT ![k] = new]
        /\ UNCHANGED <<lock, lost>> /\ M!SendReturns(p) /\ op[p] = "send"
    BY <1>0, <1>k DEF M!Decrement, BusInv, LocalIsKnown
  <1>2. /\ k \in M!Ids /\ clients[k] \in AnyClient /\ new \in AnyClient
        /\ new.registered = clients[k].registered /\ new.callback = clients[k].callback
        /\ new.refcnt = clients[k].refcnt - 1 /\ clients[k].refcnt \in Int
    <2>1. clients[k] \in AnyClient
      BY <1>0
    <2> QED BY <2>1 DEF AnyClient
  <1> HIDE DEF new
  <1>3. /\ bus_pc'[p] \in {"idle", "load"} /\ local'[p] = M!NullClient /\ op'[p] = "send"
        /\ bus_pc' \in [Threads -> BusPcs]
        /\ op' \in [Threads -> Ops] /\ id' \in [Threads -> M!Ids]
        /\ local' \in [Threads -> AnyClient] /\ broadcast' \in [Threads -> BOOLEAN]
        /\ \A q \in Threads \ {p} : /\ bus_pc'[q] = bus_pc[q] /\ op'[q] = op[q]
                                    /\ id'[q] = id[q] /\ local'[q] = local[q]
    BY <1>1, Returned DEF BusInv
  <1>4. /\ clients' \in [M!Ids -> AnyClient] /\ clients'[k] = new
        /\ \A j \in M!Ids \ {k} : clients'[j] = clients[j]
        /\ \A j \in M!Ids : /\ clients'[j].registered = clients[j].registered
                            /\ clients'[j].callback = clients[j].callback
                            /\ clients'[j].refcnt <= clients[j].refcnt
    <2>1. /\ clients' \in [M!Ids -> AnyClient] /\ clients'[k] = new
          /\ \A j \in M!Ids \ {k} : clients'[j] = clients[j]
      BY <1>0, <1>1, <1>2
    <2>2. \A j \in M!Ids : clients[j].refcnt \in Int
      BY <1>0 DEF AnyClient
    <2> QED BY <1>2, <2>1, <2>2
  <1>5. BusTypes'
    BY <1>0, <1>1, <1>3, <1>4 DEF BusTypes
  <1>6. LocalIsKnown'
    BY <1>3 DEF BusInv, LocalIsKnown
  <1>7. CopyIsCurrent'
    <2> SUFFICES ASSUME NEW q \in Threads, bus_pc'[q] = "copy"
                 PROVE  /\ lock'[id'[q]] = q
                        /\ clients'[id'[q]].registered = local'[q].registered
                        /\ clients'[id'[q]].callback = local'[q].callback
                        /\ clients'[id'[q]].refcnt <= local'[q].refcnt
      BY DEF CopyIsCurrent
    <2>1. q # p /\ id'[q] = id[q] /\ id[q] \in M!Ids /\ bus_pc[q] = "copy" /\ local'[q] = local[q]
      BY <1>0, <1>3
    <2>2. /\ lock[id[q]] = q /\ clients[id[q]].registered = local[q].registered
          /\ clients[id[q]].callback = local[q].callback
          /\ clients[id[q]].refcnt <= local[q].refcnt
      BY <2>1 DEF BusInv, CopyIsCurrent
    <2>3. /\ clients[id[q]].refcnt \in Int /\ clients'[id[q]].refcnt \in Int
          /\ local[q].refcnt \in Int
      BY <1>0, <1>4, <2>1 DEF AnyClient
    <2> QED BY <1>1, <1>4, <2>1, <2>2, <2>3
  <1>8. /\ \A j \in M!Ids \ {k} : M!Inside(j)' = M!Inside(j)
        /\ M!Inside(k)' = M!Inside(k) \ {p} /\ p \in M!Inside(k)
    <2>1. \A j \in M!Ids, q \in Threads \ {p} : q \in M!Inside(j)' <=> q \in M!Inside(j)
      BY <1>3 DEF M!Inside
    <2>2. \A j \in M!Ids : p \notin M!Inside(j)' /\ (p \in M!Inside(j) <=> j = k)
      BY <1>k, <1>1, <1>3 DEF M!Inside
    <2>3. \A j \in M!Ids : M!Inside(j) \subseteq Threads /\ M!Inside(j)' \subseteq Threads
      BY DEF M!Inside
    <2> QED BY <2>1, <2>2, <2>3
  <1>9. M!CallbackIsRegistered'
    <2> SUFFICES ASSUME NEW j \in M!Ids, NEW q \in M!Inside(j)'
                 PROVE  clients'[j].registered /\ clients'[j].callback = local'[q].callback
      BY DEF M!CallbackIsRegistered
    <2>1. q \in M!Inside(j) /\ q \in Threads
      BY <1>8 DEF M!Inside
    <2>2. q # p
      BY <1>1, <1>8, <2>1 DEF M!Inside
    <2> QED BY <1>3, <1>4, <2>1, <2>2 DEF BusInv, M!CallbackIsRegistered
  <1>10. \A j \in M!Ids : clients'[j].refcnt = Cardinality(M!Inside(j)') + lost'[j]
    <2>1. Cardinality(M!Inside(k)') = Cardinality(M!Inside(k)) - 1 /\ Cardinality(M!Inside(k)) \in Nat
      BY <1>8, InsideIsFinite, FS_RemoveElement
    <2>2. clients[k].refcnt = Cardinality(M!Inside(k)) + lost[k] /\ lost[k] \in Nat
      BY <1>0, <1>2 DEF BusInv
    <2>3. clients'[k].refcnt = Cardinality(M!Inside(k)') + lost'[k]
      BY <1>1, <1>2, <1>4, <2>1, <2>2
    <2>4. ASSUME NEW j \in M!Ids, j # k
          PROVE  clients'[j].refcnt = Cardinality(M!Inside(j)') + lost'[j]
      <3>1. clients'[j] = clients[j] /\ M!Inside(j)' = M!Inside(j) /\ lost'[j] = lost[j]
        BY <1>1, <1>4, <1>8, <2>4
      <3>2. clients[j].refcnt = Cardinality(M!Inside(j)) + lost[j]
        BY DEF BusInv
      <3> QED BY <3>1, <3>2
    <2> QED BY <2>3, <2>4
  <1> QED BY <1>5, <1>6, <1>7, <1>9, <1>10 DEF BusInv

LEMMA BusNext == BusInv /\ [M!Next]_bus => BusInv'
  <1> SUFFICES ASSUME BusInv, [M!Next]_bus PROVE BusInv'
    OBVIOUS
  <1>1. CASE M!Next
    <2>1. PICK p \in Threads :
            \/ \E o \in Ops, k \in 0 .. n_clients, all \in BOOLEAN : M!Call(p, o, k, all)
            \/ M!Step(p)
      BY <1>1 DEF M!Next, Ops
    <2> QED BY <2>1, BusEnter, BusCopy, BusDecrement DEF M!Step
  <1>2. CASE UNCHANGED bus
    <2>1. \A k : M!Inside(k)' = M!Inside(k)
      BY <1>2 DEF bus, M!Inside
    <2> QED BY <1>2, <2>1 DEF bus, BusInv, BusTypes, LocalIsKnown, CopyIsCurrent,
       M!CallbackIsRegistered
  <1> QED BY <1>1, <1>2

LEMMA BusAlways == ChannelSpec => [](program = "bus" => BusInv)
  <1>1. ChannelInit => BusInv
    BY BusInit DEF ChannelInit
  <1>2. ASSUME program = "bus" => BusInv,
               [ChannelNext]_<<program, vars, unbuf, buf, shm, loop, cast, bus>>
        PROVE  (program = "bus" => BusInv)'
    <2>1. program' = program /\ (program = "bus" => [M!Next]_bus)
      BY <1>2 DEF ChannelNext
    <2> QED BY <1>2, <2>1, BusNext
  <1> QED BY <1>1, <1>2, PTL DEF ChannelSpec

\* CallbacksAreCounted: for any number of slots, calls and threads, whoever is inside a
\* callback of the message bus is in the callback of the client registered in the slot,
\* and the reference count is the number of those inside and the decrements that fell
\* between the comparison and the copy of a compare-and-exchange.
THEOREM NobodyIsCalledUnregistered == ChannelSpec => []CallbacksAreCounted
  <1>1. (program = "bus" => BusInv) => CallbacksAreCounted
    BY BusCardinality DEF CallbacksAreCounted, BusInv, M!RefcntIsExact
  <1> QED BY <1>1, BusAlways, PTL

-----------------------------------------------------------------------------
(* The event loop *)

Events == [w : E!W, is : SUBSET {"IN", "HUP", "ERR"}]

LoopTypes ==
    /\ watchers \in Seq(E!W) /\ active \in [E!W -> {-1, 0, 1}] /\ fd \subseteq E!W
    /\ interest \subseteq E!W /\ armed \subseteq Timers /\ expired \subseteq Timers
    /\ timeout \in [Timers -> Int] /\ period \in [Timers -> Int]
    /\ ee \in Seq(Events) /\ event \in Events
    /\ e_pc = "timer" => event.w \in Timers
    /\ e_pc = "failed" => watchers = << >>
    /\ e_pc # "failed" => epoll

InList(w) == \E k \in 1 .. Len(watchers) : watchers[k] = w

\* What EV_FOREACH visits.
Seen(w) == \E k \in 1 .. Len(watchers) - 1 : watchers[k] = w

ListAgrees ==
    /\ \A j, k \in 1 .. Len(watchers) : watchers[j] = watchers[k] => j = k
    /\ \A w \in E!W : InList(w) <=> active[w] # 0

KernelAgrees ==
    /\ interest = {w \in E!W : active[w] = 1}
    /\ \A w \in E!W : active[w] # 0 => w \in fd
    /\ \A w \in Timers : active[w] # -1
    /\ expired \subseteq fd /\ armed \subseteq interest
    /\ e_pc # "setup" => "stdin" \in fd

\* Once the loop runs, a timer that is visited and not over is armed, or has expired and
\* waits to be served if it is a one-shot timer; and a visited file is served.
StartedInTime ==
    /\ e_pc # "setup" => \A w \in Timers :
          Seen(w) /\ timeout[w] > 0 =>
             w \in armed \/ (period[w] = 0 /\ w \in expired)
    /\ Seen("stdin") /\ active["stdin"] = -1 => workaround /\ e_pc # "wait"

LoopInv == LoopTypes /\ (epoll => ListAgrees /\ KernelAgrees) /\ StartedInTime

-----------------------------------------------------------------------------
LEMMA Concat ==
  ASSUME NEW T, NEW a \in Seq(T), NEW b \in Seq(T)
  PROVE  /\ a \o b \in Seq(T) /\ Len(a \o b) = Len(a) + Len(b)
         /\ \A k \in 1 .. Len(a) : (a \o b)[k] = a[k]
         /\ \A k \in Len(a) + 1 .. Len(a) + Len(b) : (a \o b)[k] = b[k - Len(a)]
  OBVIOUS

\* A sequence without its p-th element.
LEMMA Removal ==
  ASSUME NEW T, NEW s \in Seq(T), NEW p \in 1 .. Len(s)
  PROVE  LET r == SubSeq(s, 1, p - 1) \o SubSeq(s, p + 1, Len(s))
         IN  /\ r \in Seq(T) /\ Len(r) = Len(s) - 1
             /\ \A k \in 1 .. Len(s) - 1 : r[k] = IF k < p THEN s[k] ELSE s[k + 1]
  <1>1. PICK a \in Seq(T) : /\ a = SubSeq(s, 1, p - 1) /\ Len(a) = p - 1
                            /\ \A k \in 1 .. p - 1 : a[k] = s[k]
    <2> DEFINE x == SubSeq(s, 1, p - 1)
    <2>1. x \in Seq(T) /\ Len(x) = p - 1 /\ \A k \in 1 .. p - 1 : x[k] = s[k]
      OBVIOUS
    <2> HIDE DEF x
    <2> QED BY <2>1 DEF x
  <1>2. PICK b \in Seq(T) : /\ b = SubSeq(s, p + 1, Len(s)) /\ Len(b) = Len(s) - p
                            /\ \A k \in 1 .. Len(s) - p : b[k] = s[k + p]
    <2> DEFINE x == SubSeq(s, p + 1, Len(s))
    <2>1. x \in Seq(T) /\ Len(x) = Len(s) - p /\ \A k \in 1 .. Len(s) - p : x[k] = s[k + p]
      OBVIOUS
    <2> HIDE DEF x
    <2> QED BY <2>1 DEF x
  <1>3. PICK r : r = a \o b
    OBVIOUS
  <1>4. /\ r \in Seq(T) /\ Len(r) = Len(s) - 1
        /\ \A k \in 1 .. p - 1 : r[k] = a[k]
        /\ \A k \in p .. Len(s) - 1 : r[k] = b[k - (p - 1)]
    <2> HIDE <1>1, <1>2
    <2>1. Len(a) = p - 1 /\ Len(b) = Len(s) - p
      BY <1>1, <1>2
    <2> QED BY <1>3, <2>1, Concat
  <1>5. \A k \in p .. Len(s) - 1 : r[k] = s[k + 1]
    <2> SUFFICES ASSUME NEW k \in p .. Len(s) - 1 PROVE r[k] = s[k + 1]
      OBVIOUS
    <2>1. k - (p - 1) \in 1 .. Len(s) - p /\ (k - (p - 1)) + p = k + 1
      OBVIOUS
    <2>2. b[k - (p - 1)] = s[(k - (p - 1)) + p]
      BY <1>2, <2>1
    <2> QED BY <1>4, <2>1, <2>2
  <1>6. \A k \in 1 .. Len(s) - 1 : r[k] = IF k < p THEN s[k] ELSE s[k + 1]
    <2> SUFFICES ASSUME NEW k \in 1 .. Len(s) - 1
                 PROVE  r[k] = IF k < p THEN s[k] ELSE s[k + 1]
      OBVIOUS
    <2>1. k \in 1 .. p - 1 \/ k \in p .. Len(s) - 1
      OBVIOUS
    <2> QED BY <1>1, <1>4, <1>5, <2>1
  <1> QED BY <1>1, <1>2, <1>3, <1>4, <1>6


LEMMA Watchers == "stdin" \in E!W /\ Timers \subseteq E!W /\ E!W = Timers \cup {"stdin"}
  BY DEF E!W

LEMMA ListedAndVisited ==
  ASSUME watchers \in Seq(E!W)
  PROVE  /\ \A w : w \in E!Listed <=> InList(w)
         /\ \A w : w \in E!Visited <=> Seen(w)
         /\ \A w : Seen(w) => InList(w) /\ w \in E!W
  <1>1. \A w : w \in E!Listed <=> InList(w)
    BY DEF E!Listed, E!ToSet, InList
  <1>2. \A w : Seen(w) => InList(w) /\ w \in E!W
    BY DEF Seen, InList
  <1>3. \A w : w \in E!Visited <=> Seen(w)
    <2>1. CASE watchers = << >>
      <3>1. E!Front(watchers) = << >> /\ Len(watchers) = 0
        BY <2>1 DEF E!Front
      <3> QED BY <3>1 DEF E!Visited, E!ToSet, Seen
    <2>2. CASE watchers # << >>
      <3>1. /\ Len(E!Front(watchers)) = Len(watchers) - 1
            /\ E!Front(watchers) \in Seq(E!W)
            /\ \A k \in 1 .. Len(watchers) - 1 : E!Front(watchers)[k] = watchers[k]
        <4>1. PICK n \in Nat : n = Len(watchers) - 1
          BY <2>2, EmptySeq
        <4>2. n <= Len(watchers) /\ E!Front(watchers) = SubSeq(watchers, 1, n)
          BY <4>1 DEF E!Front
        <4> DEFINE x == SubSeq(watchers, 1, n)
        <4>3. x \in Seq(E!W) /\ Len(x) = n /\ \A k \in 1 .. n : x[k] = watchers[k]
          BY <4>2
        <4> HIDE DEF x
        <4> QED BY <4>1, <4>2, <4>3 DEF x
      <3>2. DOMAIN E!Front(watchers) = 1 .. Len(watchers) - 1
        BY <3>1
      <3> QED BY <3>1, <3>2 DEF E!Visited, E!ToSet, Seen
    <2> QED BY <2>1, <2>2
  <1> QED BY <1>1, <1>2, <1>3

LEMMA LoopInit == E!Init => LoopInv
  <1> SUFFICES ASSUME E!Init PROVE LoopInv
    OBVIOUS
  <1> USE Watchers DEF E!Init
  <1>1. Len(watchers) = 0 /\ watchers \in Seq(E!W) /\ ee \in Seq(Events)
    OBVIOUS
  <1>2. LoopTypes
    BY <1>1 DEF LoopTypes, Events, E!NoEvent
  <1>3. ListAgrees /\ KernelAgrees
    BY <1>1 DEF ListAgrees, KernelAgrees, InList
  <1>4. StartedInTime
    BY <1>1 DEF StartedInTime, Seen
  <1> QED BY <1>2, <1>3, <1>4 DEF LoopInv

\* EV_INSERT of a watcher that is not in the list.
LEMMA Inserted ==
  ASSUME LoopTypes, ListAgrees, NEW w \in E!W, active[w] = 0, NEW v \in {-1, 1},
         watchers' = <<w>> \o watchers, active' = [active EXCEPT ![w] = v]
  PROVE  /\ watchers' \in Seq(E!W) /\ active' \in [E!W -> {-1, 0, 1}]
         /\ active'[w] = v /\ \A x \in E!W \ {w} : active'[x] = active[x]
         /\ ListAgrees'
         /\ \A x : Seen(x)' => x = w \/ Seen(x)
  <1>1. watchers \in Seq(E!W) /\ Len(watchers) \in Nat
    BY DEF LoopTypes
  <1>2. /\ watchers' \in Seq(E!W) /\ Len(watchers') = Len(watchers) + 1 /\ watchers'[1] = w
        /\ \A k \in 1 .. Len(watchers) : watchers'[k + 1] = watchers[k]
    BY <1>1
  <1>3. \A k \in 2 .. Len(watchers') : k - 1 \in 1 .. Len(watchers) /\ watchers'[k] = watchers[k - 1]
    BY <1>1, <1>2
  <1>4. /\ active' \in [E!W -> {-1, 0, 1}] /\ active'[w] = v
        /\ \A x \in E!W \ {w} : active'[x] = active[x]
    BY DEF LoopTypes
  <1>5. ~InList(w)
    BY DEF ListAgrees
  <1>6. \A j, k \in 1 .. Len(watchers') : watchers'[j] = watchers'[k] => j = k
    <2> SUFFICES ASSUME NEW j \in 1 .. Len(watchers'), NEW k \in 1 .. Len(watchers'),
                        watchers'[j] = watchers'[k]
                 PROVE  j = k
      OBVIOUS
    <2>1. j = 1 \/ j \in 2 .. Len(watchers')
      BY <1>1, <1>2
    <2>2. k = 1 \/ k \in 2 .. Len(watchers')
      BY <1>1, <1>2
    <2>3. ASSUME NEW m \in 2 .. Len(watchers') PROVE watchers'[m] # w
      BY <1>3, <1>5 DEF InList
    <2>4. CASE j \in 2 .. Len(watchers') /\ k \in 2 .. Len(watchers')
      <3>1. j - 1 = k - 1
        BY <1>3, <2>4 DEF ListAgrees
      <3> QED BY <2>4, <3>1
    <2> QED BY <1>2, <2>1, <2>2, <2>3, <2>4
  <1>7. ASSUME NEW x \in E!W PROVE InList(x)' <=> x = w \/ InList(x)
    <2>1. InList(x) => InList(x)'
      BY <1>1, <1>2 DEF InList
    <2>2. 1 \in 1 .. Len(watchers')
      BY <1>1, <1>2
    <2>3. x = w => InList(x)'
      BY <1>2, <2>2 DEF InList
    <2>4. ASSUME NEW k \in 1 .. Len(watchers'), watchers'[k] = x PROVE x = w \/ InList(x)
      <3>1. k = 1 \/ k \in 2 .. Len(watchers')
        BY <1>1, <1>2
      <3> QED BY <1>2, <1>3, <2>4, <3>1 DEF InList
    <2> QED BY <2>1, <2>3, <2>4 DEF InList
  <1>8. ListAgrees'
    BY <1>4, <1>6, <1>7 DEF ListAgrees
  <1>9. ASSUME NEW x, Seen(x)' PROVE x = w \/ Seen(x)
    <2>1. PICK k \in 1 .. Len(watchers') - 1 : watchers'[k] = x
      BY <1>9 DEF Seen
    <2>2. k = 1 \/ (k \in 2 .. Len(watchers') /\ k - 1 \in 1 .. Len(watchers) - 1)
      BY <1>1, <1>2
    <2> QED BY <1>2, <1>3, <2>1, <2>2 DEF Seen
  <1> QED BY <1>2, <1>4, <1>8, <1>9

\* EV_REMOVE.
LEMMA Removed ==
  ASSUME LoopTypes, ListAgrees, NEW w \in E!W, active[w] # 0,
         watchers' = E!Without(w), active' = [active EXCEPT ![w] = 0]
  PROVE  /\ watchers' \in Seq(E!W) /\ active' \in [E!W -> {-1, 0, 1}]
         /\ active'[w] = 0 /\ \A x \in E!W \ {w} : active'[x] = active[x]
         /\ ListAgrees'
         /\ \A x : Seen(x)' => x # w /\ Seen(x)
  <1> DEFINE p == CHOOSE j \in 1 .. Len(watchers) : watchers[j] = w
  <1>1. watchers \in Seq(E!W) /\ Len(watchers) \in Nat
    BY DEF LoopTypes
  <1>2. p \in 1 .. Len(watchers) /\ watchers[p] = w
    BY DEF ListAgrees, InList
  <1>3. watchers' = SubSeq(watchers, 1, p - 1) \o SubSeq(watchers, p + 1, Len(watchers))
    BY DEF E!Without
  <1> HIDE DEF p
  <1>4. /\ watchers' \in Seq(E!W) /\ Len(watchers') = Len(watchers) - 1
        /\ \A k \in 1 .. Len(watchers) - 1 : watchers'[k] = IF k < p THEN watchers[k] ELSE watchers[k + 1]
    <2>1. PICK r : r = SubSeq(watchers, 1, p - 1) \o SubSeq(watchers, p + 1, Len(watchers))
      OBVIOUS
    <2>2. /\ r \in Seq(E!W) /\ Len(r) = Len(watchers) - 1
          /\ \A k \in 1 .. Len(watchers) - 1 : r[k] = IF k < p THEN watchers[k] ELSE watchers[k + 1]
      BY <1>1, <1>2, <2>1, Removal
    <2>3. watchers' = r
      BY <1>3, <2>1
    <2> QED BY <2>2, <2>3
  <1>5. /\ active' \in [E!W -> {-1, 0, 1}] /\ active'[w] = 0
        /\ \A x \in E!W \ {w} : active'[x] = active[x]
    BY DEF LoopTypes
  <1>6. \A j, k \in 1 .. Len(watchers') : watchers'[j] = watchers'[k] => j = k
    <2> SUFFICES ASSUME NEW j \in 1 .. Len(watchers'), NEW k \in 1 .. Len(watchers'),
                        watchers'[j] = watchers'[k]
                 PROVE  j = k
      OBVIOUS
    <2> DEFINE a == IF j < p THEN j ELSE j + 1
               b == IF k < p THEN k ELSE k + 1
    <2>1. a \in 1 .. Len(watchers) /\ b \in 1 .. Len(watchers) /\ watchers[a] = watchers[b]
      BY <1>1, <1>2, <1>4
    <2>2. a = b
      BY <2>1 DEF ListAgrees
    <2> QED BY <1>1, <1>2, <1>4, <2>2
  <1>7. ASSUME NEW x, NEW k \in 1 .. Len(watchers'), watchers'[k] = x
        PROVE  /\ x # w /\ InList(x)
               /\ k <= Len(watchers') - 1 => Seen(x)
    <2> DEFINE a == IF k < p THEN k ELSE k + 1
    <2>1. a \in 1 .. Len(watchers) /\ a # p /\ watchers[a] = x
      BY <1>1, <1>2, <1>4, <1>7
    <2>2. k <= Len(watchers') - 1 => a \in 1 .. Len(watchers) - 1
      BY <1>1, <1>2, <1>4
    <2>3. x # w
      BY <1>2, <2>1 DEF ListAgrees
    <2> HIDE DEF a
    <2> QED BY <2>1, <2>2, <2>3 DEF InList, Seen
  <1>8. ASSUME NEW x, InList(x), x # w PROVE InList(x)'
    <2>1. PICK k \in 1 .. Len(watchers) : watchers[k] = x
      BY <1>8 DEF InList
    <2> DEFINE a == IF k < p THEN k ELSE k - 1
    <2>2. k # p
      BY <1>2, <1>8, <2>1
    <2>3. a \in 1 .. Len(watchers') /\ watchers'[a] = x
      BY <1>1, <1>2, <1>4, <2>1, <2>2
    <2> QED BY <2>3 DEF InList
  <1>9. ASSUME NEW x \in E!W PROVE InList(x)' <=> x # w /\ InList(x)
    BY <1>7, <1>8 DEF InList
  <1>10. ListAgrees'
    BY <1>5, <1>6, <1>9 DEF ListAgrees
  <1>11. ASSUME NEW x, Seen(x)' PROVE x # w /\ Seen(x)
    <2>1. PICK k \in 1 .. Len(watchers') - 1 : watchers'[k] = x
      BY <1>11 DEF Seen
    <2>2. k \in 1 .. Len(watchers') /\ k <= Len(watchers') - 1
      BY <1>1, <1>4
    <2> QED BY <1>7, <2>1, <2>2
  <1> QED BY <1>4, <1>5, <1>10, <1>11

\* A step that leaves the list, the watchers and epoll's set alone.
LEMMA LoopQuiet ==
  ASSUME LoopInv, UNCHANGED <<watchers, active, fd, interest, epoll, period>>,
         timeout' \in [Timers -> Int], \A w \in Timers : timeout'[w] > 0 => timeout[w] > 0,
         armed' \subseteq armed, expired' \subseteq expired \cup armed,
         ee' \in Seq(Events), event' \in Events, e_pc' = "timer" => event'.w \in Timers,
         e_pc' = "failed" <=> e_pc = "failed",
         e_pc' # "setup" => e_pc # "setup",
         \A w \in Timers : w \in armed => w \in armed' \/ (period[w] = 0 /\ w \in expired'),
         \A w \in Timers : Seen(w) /\ timeout'[w] > 0 /\ w \in expired /\ period[w] = 0 => w \in expired',
         Seen("stdin") /\ active["stdin"] = -1 => workaround' /\ e_pc' # "wait"
  PROVE  LoopInv'
  <1>1. \A w : (Seen(w)' <=> Seen(w)) /\ (InList(w)' <=> InList(w))
    BY DEF Seen, InList
  <1>2. LoopTypes'
    BY DEF LoopInv, LoopTypes
  <1>3. ASSUME epoll' PROVE ListAgrees' /\ KernelAgrees'
    <2>1. ListAgrees'
      BY <1>1, <1>3 DEF LoopInv, ListAgrees
    <2>2. KernelAgrees'
      BY <1>3 DEF LoopInv, KernelAgrees
    <2> QED BY <2>1, <2>2
  <1>4. StartedInTime'
    BY <1>1 DEF LoopInv, StartedInTime
  <1> QED BY <1>2, <1>3, <1>4 DEF LoopInv

\* _ev_watcher_start of a watcher whose descriptor is open now.
LEMMA LoopStart ==
  ASSUME LoopInv, epoll, e_pc # "failed", NEW w \in E!W, active[w] = 0, E!Start(w),
         fd' = fd \cup {w}, UNCHANGED <<epoll, expired>>,
         timeout' \in [Timers -> Int], period' \in [Timers -> Int],
         \A x \in Timers \ {w} : timeout'[x] = timeout[x] /\ period'[x] = period[x],
         armed' \in {armed, armed \cup {w}}, armed' \subseteq Timers,
         ee' \in Seq(Events), event' \in Events, e_pc' # "timer", e_pc' # "failed", e_pc' # "wait",
         e_pc' # "setup" => e_pc # "setup" /\ (w \in Timers => w \in armed')
  PROVE  LoopInv'
  <1> DEFINE v == IF w = "stdin" /\ is_file THEN -1 ELSE 1
  <1>0. LoopTypes /\ ListAgrees /\ KernelAgrees
    BY DEF LoopInv
  <1>1. /\ active' = [active EXCEPT ![w] = v] /\ watchers' = <<w>> \o watchers /\ v \in {-1, 1}
        /\ interest' = IF v = -1 THEN interest ELSE interest \cup {w}
        /\ workaround' = (workaround \/ v = -1) /\ (v = -1 => w = "stdin")
    BY DEF E!Start
  <1> HIDE DEF v
  <1>2. /\ watchers' \in Seq(E!W) /\ active' \in [E!W -> {-1, 0, 1}]
        /\ active'[w] = v /\ \A x \in E!W \ {w} : active'[x] = active[x]
        /\ ListAgrees'
        /\ \A x : Seen(x)' => x = w \/ Seen(x)
    BY <1>0, <1>1, Inserted
  <1>3. LoopTypes'
    BY <1>0, <1>1, <1>2 DEF LoopTypes
  <1>4. KernelAgrees'
    <2>1. interest' = {x \in E!W : active'[x] = 1}
      BY <1>0, <1>1, <1>2 DEF KernelAgrees
    <2>2. \A x \in E!W : active'[x] # 0 => x \in fd'
      BY <1>0, <1>2 DEF KernelAgrees
    <2>3. \A x \in Timers : active'[x] # -1
      BY <1>0, <1>1, <1>2, Watchers, LoopAssumption DEF KernelAgrees
    <2>4. w \in armed' => w \in interest'
      <3>1. w \notin interest /\ w \notin armed
        BY <1>0 DEF KernelAgrees
      <3> QED BY <1>1, <3>1, LoopAssumption
    <2> QED BY <1>0, <1>1, <2>1, <2>2, <2>3, <2>4 DEF KernelAgrees
  <1>5. StartedInTime'
    <2>1. ASSUME e_pc' # "setup", NEW x \in Timers, Seen(x)', timeout'[x] > 0
          PROVE  x \in armed' \/ (period'[x] = 0 /\ x \in expired')
      <3>1. CASE x = w
        BY <2>1, <3>1
      <3>2. CASE x # w
        BY <1>2, <2>1, <3>2 DEF LoopInv, StartedInTime
      <3> QED BY <3>1, <3>2
    <2>2. ASSUME Seen("stdin")', active'["stdin"] = -1 PROVE workaround'
      <3>1. CASE w = "stdin"
        BY <1>1, <1>2, <2>2, <3>1
      <3>2. CASE w # "stdin"
        BY <1>1, <1>2, <2>2, <3>2, Watchers DEF LoopInv, StartedInTime
      <3> QED BY <3>1, <3>2
    <2> QED BY <2>1, <2>2 DEF StartedInTime
  <1> QED BY <1>2, <1>3, <1>4, <1>5 DEF LoopInv

\* _ev_watcher_stop of an active watcher, or the end of a file.
LEMMA LoopStop ==
  ASSUME LoopInv, epoll, e_pc \notin {"setup", "failed"}, NEW w \in E!W, active[w] # 0,
         active' = [active EXCEPT ![w] = 0], watchers' = E!Without(w), interest' = interest \ {w},
         fd' \in {fd, fd \ {w}}, UNCHANGED <<epoll, workaround, period>>,
         armed' = armed \ {w}, expired' \subseteq expired,
         fd' # fd => w \notin expired' /\ w \in Timers,
         \A x \in Timers \ {w} : x \in expired => x \in expired',
         timeout' \in [Timers -> Int], \A x \in Timers \ {w} : timeout'[x] = timeout[x],
         ee' \in Seq(Events), event' \in Events, e_pc' = "timer" => event'.w \in Timers,
         e_pc' \notin {"setup", "failed", "wait"}
  PROVE  LoopInv'
  <1>0. LoopTypes /\ ListAgrees /\ KernelAgrees
    BY DEF LoopInv
  <1>1. /\ watchers' \in Seq(E!W) /\ active' \in [E!W -> {-1, 0, 1}]
        /\ active'[w] = 0 /\ \A x \in E!W \ {w} : active'[x] = active[x]
        /\ ListAgrees'
        /\ \A x : Seen(x)' => x # w /\ Seen(x)
    BY <1>0, Removed
  <1>2. LoopTypes'
    BY <1>0, <1>1 DEF LoopTypes
  <1>3. KernelAgrees'
    <2>1. interest' = {x \in E!W : active'[x] = 1}
      BY <1>0, <1>1 DEF KernelAgrees
    <2>2. \A x \in E!W : active'[x] # 0 => x \in fd'
      BY <1>0, <1>1 DEF KernelAgrees
    <2>3. \A x \in Timers : active'[x] # -1
      BY <1>0, <1>1, Watchers DEF KernelAgrees
    <2>4. "stdin" \in fd'
      BY <1>0, LoopAssumption DEF KernelAgrees
    <2>5. expired' \subseteq fd' /\ armed' \subseteq interest'
      BY <1>0 DEF KernelAgrees
    <2> QED BY <2>1, <2>2, <2>3, <2>4, <2>5 DEF KernelAgrees
  <1>4. StartedInTime'
    <2>1. ASSUME NEW x \in Timers, Seen(x)', timeout'[x] > 0
          PROVE  x \in armed' \/ (period'[x] = 0 /\ x \in expired')
      BY <1>1, <2>1 DEF LoopInv, StartedInTime
    <2>2. ASSUME Seen("stdin")', active'["stdin"] = -1 PROVE workaround'
      BY <1>1, <2>2, Watchers DEF LoopInv, StartedInTime
    <2> QED BY <2>1, <2>2 DEF StartedInTime
  <1> QED BY <1>1, <1>2, <1>3, <1>4 DEF LoopInv

\* What epoll_wait reports is a batch of events.
LEMMA BatchOfEvents ==
  ASSUME LoopTypes, E!EpollWait
  PROVE  ee' \in Seq(Events)
  <1>1. PICK ready : ready = {w \in interest : E!Reported(w) # {}}
    OBVIOUS
  <1>2. PICK order \in E!SetToSeqs(ready) :
          ee' = [k \in DOMAIN order |-> [w |-> order[k], is |-> E!Reported(order[k])]]
    BY <1>1 DEF E!EpollWait
  <1>3. IsFiniteSet(ready) /\ ready \subseteq E!W
    <2>1. IsFiniteSet(E!W)
      BY LoopAssumption, FS_Singleton, FS_Union DEF E!W
    <2>2. ready \subseteq E!W
      BY <1>1 DEF LoopTypes
    <2> QED BY <2>1, <2>2, FS_Subset
  <1>4. PICK n \in Nat : n = E!Cardinality(ready)
    <2>1. E!Cardinality(ready) = Cardinality(ready)
      BY DEF E!Cardinality, Cardinality, E!IsFiniteSet, IsFiniteSet
    <2> QED BY <1>3, <2>1, FS_CardinalityType
  <1>5. order \in [1 .. n -> ready]
    BY <1>2, <1>4 DEF E!SetToSeqs
  <1>6. \A w : E!Reported(w) \in SUBSET {"IN", "HUP", "ERR"}
    BY DEF E!Reported
  <1>7. \A k \in 1 .. n : [w |-> order[k], is |-> E!Reported(order[k])] \in Events
    BY <1>3, <1>5, <1>6 DEF Events
  <1> QED BY <1>2, <1>5, <1>7

\* Setting the watchers up.
LEMMA LoopSetup ==
  ASSUME LoopInv, \/ E!IoInit
                  \/ \E w \in Timers, u, p \in 0 .. 1 : E!TimerInit(w, u, p)
  PROVE  LoopInv'
  <1>0. LoopTypes /\ e_pc = "setup" /\ epoll /\ KernelAgrees
    BY DEF LoopInv, LoopTypes, E!IoInit, E!TimerInit
  <1>1. CASE E!IoInit
    <2>1. active["stdin"] = 0 /\ "stdin" \in E!W
      BY <1>0, <1>1, Watchers DEF KernelAgrees, E!IoInit
    <2>2. /\ E!Start("stdin") /\ fd' = fd \cup {"stdin"} /\ "stdin" \notin Timers
          /\ UNCHANGED <<epoll, expired, armed, timeout, period, ee, event, e_pc>>
      BY <1>1, LoopAssumption DEF E!IoInit, E!loop
    <2> QED BY <1>0, <2>1, <2>2, LoopStart DEF LoopTypes
  <1>2. CASE \E w \in Timers, u, p \in 0 .. 1 : E!TimerInit(w, u, p)
    <2>1. PICK w \in Timers, u \in 0 .. 1, p \in 0 .. 1 : E!TimerInit(w, u, p)
      BY <1>2
    <2>2. active[w] = 0 /\ w \in E!W
      BY <1>0, <2>1, Watchers DEF KernelAgrees, E!TimerInit
    <2>3. /\ E!Start(w) /\ fd' = fd \cup {w}
          /\ UNCHANGED <<epoll, expired, armed, ee, event, e_pc>>
          /\ timeout' = [timeout EXCEPT ![w] = u] /\ period' = [period EXCEPT ![w] = p]
      BY <2>1 DEF E!TimerInit, E!loop
    <2>4. /\ timeout' \in [Timers -> Int] /\ period' \in [Timers -> Int]
          /\ \A x \in Timers \ {w} : timeout'[x] = timeout[x] /\ period'[x] = period[x]
      BY <1>0, <2>3 DEF LoopTypes
    <2> QED BY <1>0, <2>2, <2>3, <2>4, LoopStart DEF LoopTypes
  <1> QED BY <1>1, <1>2

\* ev_run arms the timers that it visits.
LEMMA LoopRun ==
  ASSUME LoopInv, E!Run
  PROVE  LoopInv'
  <1> USE DEF E!Run, E!ev, E!input, E!flags
  <1>0. LoopTypes /\ e_pc = "setup" /\ epoll /\ KernelAgrees /\ ListAgrees
    BY DEF LoopInv, LoopTypes
  <1>1. /\ UNCHANGED <<epoll, watchers, workaround, active, fd, timeout, period, interest,
                       expired, ee, event>>
        /\ e_pc' = "loop" /\ armed' = {w \in Timers : w \in E!Visited /\ timeout[w] > 0}
    BY <1>0 DEF E!Visited
  <1>2. \A w : (Seen(w)' <=> Seen(w)) /\ (InList(w)' <=> InList(w))
    BY <1>1 DEF Seen, InList
  <1>3. \A w \in Timers : w \in armed' <=> Seen(w) /\ timeout[w] > 0
    BY <1>0, <1>1, ListedAndVisited DEF LoopTypes
  <1>4. LoopTypes'
    BY <1>0, <1>1 DEF LoopTypes
  <1>5. ListAgrees'
    BY <1>0, <1>1, <1>2 DEF ListAgrees
  <1>6. KernelAgrees'
    <2>1. armed' \subseteq interest
      <3> SUFFICES ASSUME NEW w \in Timers, w \in armed' PROVE w \in interest
        BY <1>1
      <3>1. InList(w) /\ w \in E!W
        BY <1>0, <1>3, ListedAndVisited DEF LoopTypes
      <3>2. active[w] = 1
        BY <1>0, <3>1 DEF ListAgrees, KernelAgrees, LoopTypes
      <3> QED BY <1>0, <3>1, <3>2 DEF KernelAgrees
    <2> QED BY <1>0, <1>1, <2>1 DEF KernelAgrees
  <1>7. StartedInTime'
    BY <1>1, <1>2, <1>3 DEF LoopInv, StartedInTime
  <1> QED BY <1>4, <1>5, <1>6, <1>7 DEF LoopInv

\* A turn of the loop up to epoll_wait, and the actions of the kernel and of the writer.
LEMMA LoopTurn ==
  ASSUME LoopInv,
         \/ E!ServeFile \/ E!EnterWait \/ E!Return \/ E!EpollWait \/ E!EpollError \/ E!EndEvents
         \/ (\E w \in Timers : E!Expire(w)) \/ E!WritePipe \/ E!ClosePipe
  PROVE  LoopInv'
  <1> USE DEF E!ctx, E!ev, E!kernel, E!input, E!flags, E!loop
  <1>0. /\ LoopTypes /\ StartedInTime /\ (epoll => ListAgrees /\ KernelAgrees)
        /\ timeout \in [Timers -> Int] /\ ee \in Seq(Events) /\ event \in Events
        /\ (e_pc # "failed" => epoll) /\ (e_pc = "timer" => event.w \in Timers)
    BY DEF LoopInv, LoopTypes
  <1>1. CASE E!ServeFile
    <2> USE <1>1 DEF E!ServeFile
    <2>0. e_pc = "loop" /\ "stdin" \in E!W /\ "stdin" \notin Timers /\ epoll
      BY <1>0, Watchers, LoopAssumption
    <2>1. CASE E!has_data
      <3>1. UNCHANGED <<epoll, watchers, workaround, active, fd, timeout, period, interest, armed,
                        expired, ee, event, e_pc>>
        BY <2>1
      <3> QED BY <1>0, <2>0, <3>1, LoopQuiet DEF StartedInTime
    <2>2. CASE ~E!has_data
      <3>1. /\ active["stdin"] # 0 /\ active' = [active EXCEPT !["stdin"] = 0]
            /\ watchers' = E!Without("stdin")
            /\ UNCHANGED <<epoll, workaround, fd, timeout, period, interest, armed, expired, ee,
                           event, e_pc>>
        BY <2>2
      <3>2. interest = interest \ {"stdin"} /\ armed = armed \ {"stdin"}
        BY <1>0, <2>0 DEF KernelAgrees, LoopTypes
      <3> QED BY <1>0, <2>0, <3>1, <3>2, LoopStop
    <2> QED BY <2>1, <2>2
  <1>2. CASE E!EnterWait
    <2> USE <1>2 DEF E!EnterWait
    <2>1. /\ e_pc = "loop" /\ e_pc' = "wait"
          /\ ~(workaround /\ "stdin" \in E!Visited /\ active["stdin"] = -1)
          /\ UNCHANGED <<epoll, watchers, active, fd, timeout, period, interest, armed,
                         expired, ee, event>>
      OBVIOUS
    <2>2. ~(Seen("stdin") /\ active["stdin"] = -1)
      BY <1>0, <2>1, ListedAndVisited DEF StartedInTime, LoopTypes
    <2> QED BY <1>0, <2>1, <2>2, LoopQuiet
  <1>3. CASE E!Return \/ E!EndEvents
    <2>1. /\ e_pc \in {"loop", "events"} /\ e_pc' \in {"returned", "loop"}
          /\ UNCHANGED <<epoll, watchers, workaround, active, fd, timeout, period, interest, armed,
                         expired, ee, event>>
      BY <1>3 DEF E!Return, E!EndEvents
    <2> QED BY <1>0, <2>1, LoopQuiet DEF StartedInTime
  <1>4. CASE E!EpollWait \/ E!EpollError
    <2>1. /\ e_pc = "wait" /\ e_pc' = "events"
          /\ UNCHANGED <<epoll, watchers, workaround, active, fd, timeout, period, interest, armed,
                         expired, event>>
      BY <1>4 DEF E!EpollWait, E!EpollError
    <2>2. ASSUME E!EpollError PROVE ee' \in Seq(Events)
      <3>1. [w |-> "stdin", is |-> {"ERR"}] \in Events
        BY Watchers DEF Events
      <3> QED BY <2>2, <3>1 DEF E!EpollError
    <2> QED BY <1>0, <1>4, <2>1, <2>2, BatchOfEvents, LoopQuiet DEF StartedInTime
  <1>5. CASE \E w \in Timers : E!Expire(w)
    <2>1. PICK w \in Timers : E!Expire(w)
      BY <1>5
    <2> USE <2>1 DEF E!Expire
    <2>2. /\ UNCHANGED <<epoll, watchers, workaround, active, fd, timeout, period, interest,
                         ee, event, e_pc>>
          /\ w \in armed /\ expired' = expired \cup {w}
          /\ armed' = IF period[w] = 0 THEN armed \ {w} ELSE armed
      OBVIOUS
    <2> QED BY <1>0, <2>2, LoopQuiet DEF StartedInTime
  <1>6. CASE E!WritePipe \/ E!ClosePipe
    <2>1. UNCHANGED <<epoll, watchers, workaround, active, fd, timeout, period, interest, armed,
                      expired, ee, event, e_pc>>
      BY <1>6 DEF E!WritePipe, E!ClosePipe
    <2> QED BY <1>0, <2>1, LoopQuiet DEF StartedInTime
  <1> QED BY <1>1, <1>2, <1>3, <1>4, <1>5, <1>6

\* epoll_wait fails and ev_exit ends the loop.
LEMMA LoopFails ==
  ASSUME LoopInv, E!WaitFails
  PROVE  LoopInv'
  <1> USE DEF E!WaitFails, E!input, E!flags
  <1>0. LoopTypes
    BY DEF LoopInv
  <1>1. /\ watchers' = << >> /\ interest' = {} /\ epoll' = FALSE /\ e_pc' = "failed"
        /\ fd' \subseteq fd /\ armed' \subseteq armed /\ expired' \subseteq expired
        /\ UNCHANGED <<timeout, period, ee, event>>
    OBVIOUS
  <1>2. active' \in [E!W -> {-1, 0, 1}]
    BY <1>0 DEF LoopTypes
  <1>3. watchers' \in Seq(E!W) /\ Len(watchers') = 0
    BY <1>1
  <1>4. LoopTypes'
    BY <1>0, <1>1, <1>2, <1>3 DEF LoopTypes
  <1>5. \A w : ~Seen(w)'
    BY <1>3 DEF Seen
  <1> QED BY <1>1, <1>4, <1>5 DEF LoopInv, StartedInTime

\* ev_timer_stop in the middle of a batch; the descriptor of an active timer is closed.
LEMMA TimerStops ==
  ASSUME LoopInv, epoll, e_pc \notin {"setup", "failed"}, NEW w \in Timers,
     NEW X \in SUBSET expired,
         E!StopTimer(w, X), UNCHANGED <<epoll, workaround, period>>,
         \A x \in Timers \ {w} : x \in expired => x \in X,
         timeout' \in [Timers -> Int], \A x \in Timers \ {w} : timeout'[x] = timeout[x],
         timeout'[w] > 0 => timeout[w] > 0,
         ee' \in Seq(Events), event' \in Events, e_pc' = "timer" => event'.w \in Timers,
         e_pc' \notin {"setup", "failed", "wait"}
  PROVE  LoopInv'
  <1>0. /\ LoopTypes /\ KernelAgrees /\ ListAgrees /\ StartedInTime /\ w \in E!W
        /\ active[w] \in {-1, 0, 1}
    BY Watchers DEF LoopInv, LoopTypes
  <1>1. CASE active[w] > 0
    <2>1. /\ active[w] # 0 /\ active' = [active EXCEPT ![w] = 0] /\ watchers' = E!Without(w)
          /\ interest' = interest \ {w} /\ fd' = fd \ {w} /\ armed' = armed \ {w}
          /\ expired' = X \ {w}
      BY <1>1 DEF E!StopTimer, E!Stop
    <2>2. \A x \in Timers \ {w} : x \in expired => x \in expired'
      BY <2>1
    <2> QED BY <1>0, <2>1, <2>2, LoopStop
  <1>2. CASE ~(active[w] > 0)
    <2>1. /\ UNCHANGED <<active, watchers, interest, fd, armed>> /\ expired' = X
      BY <1>2 DEF E!StopTimer, E!Stop
    <2>2. active[w] = 0
      BY <1>0, <1>2 DEF KernelAgrees
    <2>3. ~Seen(w)
      BY <1>0, <2>2, ListedAndVisited DEF ListAgrees, LoopTypes
    <2>4. \A x \in Timers : Seen(x) /\ timeout'[x] > 0 /\ x \in expired /\ period[x] = 0
            => x \in expired'
      BY <2>1, <2>3
    <2>5. \A x \in Timers : timeout'[x] > 0 => timeout[x] > 0
      OBVIOUS
    <2> QED BY <1>0, <2>1, <2>4, <2>5, LoopQuiet DEF StartedInTime
  <1> QED BY <1>1, <1>2

LEMMA LoopEvent ==
  ASSUME LoopInv, E!NextEvent
  PROVE  LoopInv'
  <1> USE DEF E!NextEvent, E!input, E!flags
  <1>0. /\ LoopTypes /\ StartedInTime /\ epoll /\ ListAgrees /\ KernelAgrees
        /\ timeout \in [Timers -> Int] /\ e_pc = "events"
    BY DEF LoopInv, LoopTypes
  <1>1. PICK e \in Events : e = Head(ee)
    BY <1>0 DEF LoopTypes
  <1>2. /\ ee' \in Seq(Events) /\ e.w \in E!W /\ e.is \in SUBSET {"IN", "HUP", "ERR"}
        /\ UNCHANGED <<epoll, workaround, period>>
    <2>1. ee' = Tail(ee) /\ ee # << >> /\ ee \in Seq(Events)
      BY <1>0 DEF LoopTypes
    <2>2. ee' \in Seq(Events)
      BY <2>1
    <2> QED BY <1>1, <2>2 DEF Events
  <1>3. CASE e.w = "stdin"
    <2>1. /\ UNCHANGED <<fd, timeout, armed, expired>> /\ event' = e /\ e_pc' = "stdin"
          /\ E!Stop("stdin") \/ UNCHANGED <<active, watchers, interest>>
      BY <1>1, <1>3
    <2>2. CASE active["stdin"] > 0 /\ E!Stop("stdin")
      <3>1. /\ active["stdin"] # 0 /\ active' = [active EXCEPT !["stdin"] = 0]
            /\ watchers' = E!Without("stdin") /\ interest' = interest \ {"stdin"}
        BY <2>2 DEF E!Stop
      <3>2. armed = armed \ {"stdin"} /\ "stdin" \in E!W
        BY <1>0, Watchers, LoopAssumption DEF LoopTypes
      <3> QED BY <1>0, <1>2, <2>1, <3>1, <3>2, LoopStop
    <2>3. CASE UNCHANGED <<active, watchers, interest>>
      BY <1>0, <1>2, <2>1, <2>3, LoopQuiet DEF StartedInTime
    <2> QED BY <2>1, <2>2, <2>3 DEF E!Stop
  <1>4. CASE e.w # "stdin"
    <2>1. PICK w \in Timers : w = e.w
      BY <1>2, <1>4, Watchers
    <2> DEFINE readable == w \in fd /\ w \in expired
               rest     == IF period[w] = 0 THEN 0 ELSE timeout[w]
    <2>2. /\ timeout' = [timeout EXCEPT ![w] = rest] /\ e_pc' = "timer"
          /\ event' = [w |-> w, is |-> IF readable THEN {"IN"} ELSE {"ERR"}]
          /\ IF ~readable \/ rest = 0
               THEN E!StopTimer(w, expired \ {w})
               ELSE /\ expired' = expired \ {w}
                    /\ UNCHANGED <<active, watchers, interest, fd, armed>>
      BY <1>1, <1>4, <2>1
    <2>3. /\ event' \in Events /\ event'.w = w
      BY <2>1, <2>2, Watchers DEF Events
    <2>4. /\ timeout' \in [Timers -> Int] /\ \A x \in Timers \ {w} : timeout'[x] = timeout[x]
          /\ timeout'[w] = rest /\ (timeout'[w] > 0 => timeout[w] > 0)
      BY <1>0, <2>2
    <2>5. CASE ~readable \/ rest = 0
      <3>1. E!StopTimer(w, expired \ {w})
        BY <2>2, <2>5
      <3>2. \A x \in Timers \ {w} : x \in expired => x \in expired \ {w}
        OBVIOUS
      <3>3. expired \ {w} \in SUBSET expired
        OBVIOUS
      <3> HIDE DEF readable, rest
      <3> QED BY <1>0, <1>2, <2>2, <2>3, <2>4, <3>1, <3>2, <3>3, TimerStops
    <2>6. CASE readable /\ rest # 0
      <3>1. expired' = expired \ {w} /\ UNCHANGED <<active, watchers, interest, fd, armed>>
        BY <2>2, <2>6
      <3>2. period[w] # 0
        BY <2>6
      <3>3. \A x \in Timers : Seen(x) /\ timeout'[x] > 0 /\ x \in expired /\ period[x] = 0
              => x \in expired'
        BY <3>1, <3>2
      <3>4. \A x \in Timers : timeout'[x] > 0 => timeout[x] > 0
        BY <2>4
      <3> HIDE DEF readable, rest
      <3> QED BY <1>0, <1>2, <2>2, <2>3, <2>4, <3>1, <3>3, <3>4, LoopQuiet DEF StartedInTime
    <2> HIDE DEF readable, rest
    <2> QED BY <2>5, <2>6
  <1> QED BY <1>3, <1>4

\* The callbacks: they start and stop watchers in the middle of a batch.
LEMMA LoopCallback ==
  ASSUME LoopInv, E!ProcessStdin \/ E!TimerCallback
  PROVE  LoopInv'
  <1> USE DEF E!ctx, E!ev, E!kernel, E!input, E!flags
  <1>0. /\ LoopTypes /\ StartedInTime /\ epoll /\ ListAgrees /\ KernelAgrees
        /\ timeout \in [Timers -> Int] /\ period \in [Timers -> Int] /\ ee \in Seq(Events)
        /\ e_pc \in {"stdin", "timer"} /\ e_pc' = "events" /\ UNCHANGED ee
    BY DEF LoopInv, LoopTypes, E!ProcessStdin, E!TimerCallback
  <1>1. event' \in Events
    BY Watchers DEF E!ProcessStdin, E!TimerCallback, E!NoEvent, Events
  <1>2. CASE E!ProcessStdin
    <2>1. /\ UNCHANGED <<epoll, fd, timeout, period, armed, expired>>
          /\ \/ UNCHANGED <<active, workaround, interest, watchers>>
             \/ E!ev_io_start("stdin")
      BY <1>2 DEF E!ProcessStdin
    <2>2. CASE UNCHANGED <<active, workaround, interest, watchers>>
      BY <1>0, <1>1, <2>1, <2>2, LoopQuiet DEF StartedInTime
    <2>3. CASE E!ev_io_start("stdin") /\ "stdin" \in fd
      <3>1. active["stdin"] = 0 /\ E!Start("stdin") /\ fd' = fd \cup {"stdin"} /\ "stdin" \in E!W
        BY <2>1, <2>3, Watchers DEF E!ev_io_start
      <3>2. "stdin" \notin Timers /\ armed \subseteq Timers
        BY <1>0, LoopAssumption DEF LoopTypes
      <3> QED BY <1>0, <1>1, <2>1, <3>1, <3>2, LoopStart
    <2> QED BY <1>0, <2>1, <2>2, <2>3 DEF KernelAgrees
  <1>3. CASE E!TimerCallback
    <2> USE <1>3 DEF E!TimerCallback
    <2>1. CASE UNCHANGED <<E!ctx, E!ev, E!kernel, budget>>
      <3>1. UNCHANGED <<epoll, watchers, workaround, active, fd, timeout, period, interest, armed,
                        expired>>
        BY <2>1
      <3> QED BY <1>0, <1>1, <3>1, LoopQuiet DEF StartedInTime
    <2>2. CASE /\ \E w \in Timers : active[w] > 0 /\ E!StopTimer(w, expired)
               /\ UNCHANGED <<running, epoll, workaround, timeout, period>>
      <3>1. PICK w \in Timers : active[w] > 0 /\ E!StopTimer(w, expired)
        BY <2>2
      <3>2. UNCHANGED <<epoll, workaround, timeout, period>>
        BY <2>2
      <3> QED BY <1>0, <1>1, <3>1, <3>2, TimerStops
    <2>3. CASE /\ event.w \notin fd
               /\ fd' = fd \cup {event.w} /\ E!Start(event.w)
               /\ timeout' = [timeout EXCEPT ![event.w] = 1]
               /\ armed' = armed \cup {event.w}
               /\ UNCHANGED <<running, epoll, period, expired>>
      <3>1. PICK w \in Timers : w = event.w
        BY <1>0 DEF LoopTypes
      <3>2. w \in E!W /\ active[w] = 0
        BY <1>0, <2>3, <3>1, Watchers DEF KernelAgrees
      <3>3. /\ E!Start(w) /\ fd' = fd \cup {w} /\ armed' = armed \cup {w}
            /\ UNCHANGED <<epoll, period, expired>>
            /\ timeout' = [timeout EXCEPT ![w] = 1]
        BY <2>3, <3>1
      <3>4. /\ timeout' \in [Timers -> Int] /\ \A x \in Timers \ {w} : timeout'[x] = timeout[x]
        BY <1>0, <3>3
      <3>5. armed' \subseteq Timers
        BY <1>0, <3>3 DEF LoopTypes
      <3> QED BY <1>0, <1>1, <3>2, <3>3, <3>4, <3>5, LoopStart
    <2> QED BY <2>1, <2>2, <2>3
  <1> QED BY <1>2, <1>3

LEMMA LoopNext == LoopInv /\ [E!Next]_loop => LoopInv'
  <1> SUFFICES ASSUME LoopInv, [E!Next]_loop PROVE LoopInv'
    OBVIOUS
  <1>1. CASE E!Next
    BY <1>1, LoopSetup, LoopRun, LoopTurn, LoopFails, LoopEvent, LoopCallback DEF E!Next, E!Step
  <1>2. CASE UNCHANGED loop
    <2>1. /\ UNCHANGED <<epoll, watchers, workaround, active, fd, timeout, period, interest, armed,
                         expired, ee, event, e_pc>>
      BY <1>2 DEF loop
    <2>2. \A w : (Seen(w)' <=> Seen(w)) /\ (InList(w)' <=> InList(w))
      BY <2>1 DEF Seen, InList
    <2> QED BY <2>1, <2>2 DEF LoopInv, LoopTypes, ListAgrees, KernelAgrees, StartedInTime
  <1> QED BY <1>1, <1>2

LEMMA LoopAlways == ChannelSpec => [](program = "loop" => LoopInv)
  <1>1. ChannelInit => LoopInv
    BY LoopInit DEF ChannelInit
  <1>2. ASSUME program = "loop" => LoopInv,
               [ChannelNext]_<<program, vars, unbuf, buf, shm, loop, cast, bus>>
        PROVE  (program = "loop" => LoopInv)'
    <2>1. program' = program /\ (program = "loop" => [E!Next]_loop)
      BY <1>2 DEF ChannelNext
    <2> QED BY <1>2, <2>1, LoopNext
  <1> QED BY <1>1, <1>2, PTL DEF ChannelSpec

\* WatchersAgree: for any timers and any order of starts, stops, callbacks and batches of
\* events, a watcher is in the application's list, once, as long as it is active, epoll
\* has those with a descriptor that it accepts, and whatever is active or has expired has
\* an open descriptor.
THEOREM ListAndKernelAgree == ChannelSpec => []WatchersAgree
  <1>1. (program = "loop" => LoopInv) => WatchersAgree
    <2> SUFFICES ASSUME LoopInv, epoll PROVE E!WatchersAgree
      BY DEF WatchersAgree, E!WatchersAgree
    <2>1. LoopTypes /\ ListAgrees /\ KernelAgrees
      BY DEF LoopInv
    <2>2. E!IsInjective(watchers)
      BY <2>1 DEF E!IsInjective, LoopTypes, ListAgrees
    <2>3. \A w : w \in E!Listed <=> w \in E!W /\ active[w] # 0
      <3>1. \A w : InList(w) => w \in E!W
        BY <2>1 DEF LoopTypes, InList
      <3> QED BY <2>1, <3>1, ListedAndVisited DEF LoopTypes, ListAgrees
    <2> QED BY <2>1, <2>2, <2>3 DEF E!WatchersAgree, KernelAgrees
  <1> QED BY <1>1, LoopAlways, PTL

\* OnlyOldestIsMissed: whenever ev_run is about to wait for events, every watcher but the
\* oldest one has had its start: a visited timer whose time is not over is armed or has
\* expired, and a visited input file is not left to epoll.
THEOREM AllButOldestAreStarted == ChannelSpec => []OnlyOldestIsMissed
  <1>1. (program = "loop" => LoopInv) => OnlyOldestIsMissed
    <2> SUFFICES ASSUME LoopInv, e_pc = "wait", NEW w \in E!Visited
                 PROVE  /\ active[w] # -1
                        /\ w \in Timers /\ timeout[w] > 0 => w \in armed \cup expired
      BY DEF OnlyOldestIsMissed, E!OnlyOldestIsMissed
    <2>1. LoopTypes /\ KernelAgrees /\ StartedInTime
      BY DEF LoopInv, LoopTypes
    <2>2. Seen(w) /\ w \in E!W
      BY <2>1, ListedAndVisited DEF LoopTypes
    <2>3. w = "stdin" => active[w] # -1
      BY <2>1, <2>2 DEF StartedInTime
    <2>4. w \in Timers => active[w] # -1
      BY <2>1 DEF KernelAgrees
    <2> QED BY <2>1, <2>2, <2>3, <2>4, Watchers DEF StartedInTime
  <1> QED BY <1>1, LoopAlways, PTL

-----------------------------------------------------------------------------
(* The buffered channels: what ChanBuf_proofs proves of every ring, for each of these *)

P21 == INSTANCE ChanBuf_proofs WITH
       Senders <- {"s1", "s2"}, Receivers <- {"r1"},
       PerSender <- 1, PerReceiver <- 2, Cap <- 1, Closers <- {"c"}, Null <- None,
       asleep <- b_asleep, pc <- b_pc
P12 == INSTANCE ChanBuf_proofs WITH
       Senders <- {"s1"}, Receivers <- {"r1", "r2"},
       PerSender <- 2, PerReceiver <- 1, Cap <- 1, Closers <- {"c"}, Null <- None,
       asleep <- b_asleep, pc <- b_pc
P11 == INSTANCE ChanBuf_proofs WITH
       Senders <- {"s1"}, Receivers <- {"r1"},
       PerSender <- 3, PerReceiver <- 3, Cap <- 2, Closers <- {}, Null <- None,
       asleep <- b_asleep, pc <- b_pc

LEMMA FewThreads == \A x, y : IsFiniteSet({x}) /\ IsFiniteSet({x, y})
  <1> SUFFICES ASSUME NEW x, NEW y PROVE IsFiniteSet({x}) /\ IsFiniteSet({x, y})
    OBVIOUS
  <1>1. IsFiniteSet({x}) /\ IsFiniteSet({y})
    BY FS_Singleton
  <1>2. IsFiniteSet({x} \cup {y}) /\ {x, y} = {x} \cup {y}
    BY <1>1, FS_Union
  <1> QED BY <1>1, <1>2

LEMMA Buf21Assumption == P21!BufAssumption
  <1>1. P21!IsFiniteSet({"s1", "s2"}) /\ P21!IsFiniteSet({"r1"})
    <2>1. \A T : IsFiniteSet(T) => P21!IsFiniteSet(T)
      BY DEF P21!IsFiniteSet, IsFiniteSet
    <2> QED BY <2>1, FewThreads
  <1>2. None \notin P21!Msgs
    <2>1. {"s1", "s2"} \X (1 .. 1) \subseteq {"s1", "s2"} \X (1 .. 3)
      OBVIOUS
    <2> QED BY <2>1, MessageAssumption DEF P21!Msgs
  <1> QED BY <1>1, <1>2 DEF P21!BufAssumption, P21!AllThreads

LEMMA Buf21Init == B21!Init => P21!BufInv
  <1>1. B21!Init => P21!Init
    BY DEF P21!Init, B21!Init, P21!Sides, B21!Sides, P21!AllThreads, B21!AllThreads,
       P21!Side, B21!Side, P21!Msgs, B21!Msgs
  <1> QED BY <1>1, Buf21Assumption, P21!BufInit

LEMMA Buf21Step == P21!BufInv /\ [B21!Next]_buf => P21!BufInv'
  <1>1. [B21!Next]_buf => [P21!Next]_P21!vars
    BY DEF B21!AllThreads, B21!Side, B21!Other, B21!Goto, B21!Advance, B21!Call,
           B21!CheckClosed, B21!LoadIndex, B21!LoadLap, B21!Claim, B21!ClaimFails,
           B21!MoveData, B21!Publish, B21!TakeCredit, B21!NoCredit, B21!AddWaiter, B21!Wait,
           B21!SubWaiter, B21!GiveCredit, B21!AnyWaiters, B21!Wake, B21!Return, B21!Step,
           B21!CloseFlag, B21!CloseWake, B21!Close, B21!Next, B21!vars, B21!ring,
           P21!AllThreads, P21!Side, P21!Other, P21!Goto, P21!Advance, P21!Call,
           P21!CheckClosed, P21!LoadIndex, P21!LoadLap, P21!Claim, P21!ClaimFails,
           P21!MoveData, P21!Publish, P21!TakeCredit, P21!NoCredit, P21!AddWaiter, P21!Wait,
           P21!SubWaiter, P21!GiveCredit, P21!AnyWaiters, P21!Wake, P21!Return, P21!Step,
           P21!CloseFlag, P21!CloseWake, P21!Close, P21!Next, P21!vars, P21!ring, buf
  <1> QED BY <1>1, Buf21Assumption, P21!BufStep

LEMMA Buf21Gives ==
  P21!BufInv => B21!SlotIsExclusive /\ B21!ReceivedOnce /\ B21!CreditIsSeen
  <1>1. P21!BufInv => P21!SlotIsExclusive /\ P21!ReceivedOnce /\ P21!CreditIsSeen
    BY Buf21Assumption, P21!BufGives
  <1>2. \A T : P21!Cardinality(T) = B21!Cardinality(T)
    BY DEF P21!Cardinality, B21!Cardinality, P21!IsFiniteSet, B21!IsFiniteSet
  <1>3. P21!SlotIsExclusive => B21!SlotIsExclusive
    BY DEF P21!SlotIsExclusive, B21!SlotIsExclusive, P21!InSlot, B21!InSlot,
       P21!AllThreads, B21!AllThreads
  <1>4. P21!ReceivedOnce => B21!ReceivedOnce
    BY <1>2 DEF P21!ReceivedOnce, B21!ReceivedOnce, P21!Msgs, B21!Msgs
  <1>5. P21!CreditIsSeen => B21!CreditIsSeen
    BY DEF P21!CreditIsSeen, B21!CreditIsSeen, P21!Sides, B21!Sides, P21!Side, B21!Side,
       P21!AllThreads, B21!AllThreads
  <1> QED BY <1>1, <1>3, <1>4, <1>5

LEMMA Buf12Assumption == P12!BufAssumption
  <1>1. P12!IsFiniteSet({"s1"}) /\ P12!IsFiniteSet({"r1", "r2"})
    <2>1. \A T : IsFiniteSet(T) => P12!IsFiniteSet(T)
      BY DEF P12!IsFiniteSet, IsFiniteSet
    <2> QED BY <2>1, FewThreads
  <1>2. None \notin P12!Msgs
    <2>1. {"s1"} \X (1 .. 2) \subseteq {"s1", "s2"} \X (1 .. 3)
      OBVIOUS
    <2> QED BY <2>1, MessageAssumption DEF P12!Msgs
  <1> QED BY <1>1, <1>2 DEF P12!BufAssumption, P12!AllThreads

LEMMA Buf12Init == B12!Init => P12!BufInv
  <1>1. B12!Init => P12!Init
    BY DEF P12!Init, B12!Init, P12!Sides, B12!Sides, P12!AllThreads, B12!AllThreads,
       P12!Side, B12!Side, P12!Msgs, B12!Msgs
  <1> QED BY <1>1, Buf12Assumption, P12!BufInit

LEMMA Buf12Step == P12!BufInv /\ [B12!Next]_buf => P12!BufInv'
  <1>1. [B12!Next]_buf => [P12!Next]_P12!vars
    BY DEF B12!AllThreads, B12!Side, B12!Other, B12!Goto, B12!Advance, B12!Call,
           B12!CheckClosed, B12!LoadIndex, B12!LoadLap, B12!Claim, B12!ClaimFails,
           B12!MoveData, B12!Publish, B12!TakeCredit, B12!NoCredit, B12!AddWaiter, B12!Wait,
           B12!SubWaiter, B12!GiveCredit, B12!AnyWaiters, B12!Wake, B12!Return, B12!Step,
           B12!CloseFlag, B12!CloseWake, B12!Close, B12!Next, B12!vars, B12!ring,
           P12!AllThreads, P12!Side, P12!Other, P12!Goto, P12!Advance, P12!Call,
           P12!CheckClosed, P12!LoadIndex, P12!LoadLap, P12!Claim, P12!ClaimFails,
           P12!MoveData, P12!Publish, P12!TakeCredit, P12!NoCredit, P12!AddWaiter, P12!Wait,
           P12!SubWaiter, P12!GiveCredit, P12!AnyWaiters, P12!Wake, P12!Return, P12!Step,
           P12!CloseFlag, P12!CloseWake, P12!Close, P12!Next, P12!vars, P12!ring, buf
  <1> QED BY <1>1, Buf12Assumption, P12!BufStep

LEMMA Buf12Gives ==
  P12!BufInv => B12!SlotIsExclusive /\ B12!ReceivedOnce /\ B12!CreditIsSeen
  <1>1. P12!BufInv => P12!SlotIsExclusive /\ P12!ReceivedOnce /\ P12!CreditIsSeen
    BY Buf12Assumption, P12!BufGives
  <1>2. \A T : P12!Cardinality(T) = B12!Cardinality(T)
    BY DEF P12!Cardinality, B12!Cardinality, P12!IsFiniteSet, B12!IsFiniteSet
  <1>3. P12!SlotIsExclusive => B12!SlotIsExclusive
    BY DEF P12!SlotIsExclusive, B12!SlotIsExclusive, P12!InSlot, B12!InSlot,
       P12!AllThreads, B12!AllThreads
  <1>4. P12!ReceivedOnce => B12!ReceivedOnce
    BY <1>2 DEF P12!ReceivedOnce, B12!ReceivedOnce, P12!Msgs, B12!Msgs
  <1>5. P12!CreditIsSeen => B12!CreditIsSeen
    BY DEF P12!CreditIsSeen, B12!CreditIsSeen, P12!Sides, B12!Sides, P12!Side, B12!Side,
       P12!AllThreads, B12!AllThreads
  <1> QED BY <1>1, <1>3, <1>4, <1>5

LEMMA Buf11Assumption == P11!BufAssumption
  <1>1. P11!IsFiniteSet({"s1"}) /\ P11!IsFiniteSet({"r1"})
    <2>1. \A T : IsFiniteSet(T) => P11!IsFiniteSet(T)
      BY DEF P11!IsFiniteSet, IsFiniteSet
    <2> QED BY <2>1, FewThreads
  <1>2. None \notin P11!Msgs
    <2>1. {"s1"} \X (1 .. 3) \subseteq {"s1", "s2"} \X (1 .. 3)
      OBVIOUS
    <2> QED BY <2>1, MessageAssumption DEF P11!Msgs
  <1> QED BY <1>1, <1>2 DEF P11!BufAssumption, P11!AllThreads

LEMMA Buf11Init == B11!Init => P11!BufInv
  <1>1. B11!Init => P11!Init
    BY DEF P11!Init, B11!Init, P11!Sides, B11!Sides, P11!AllThreads, B11!AllThreads,
       P11!Side, B11!Side, P11!Msgs, B11!Msgs
  <1> QED BY <1>1, Buf11Assumption, P11!BufInit

LEMMA Buf11Step == P11!BufInv /\ [B11!Next]_buf => P11!BufInv'
  <1>1. [B11!Next]_buf => [P11!Next]_P11!vars
    BY DEF B11!AllThreads, B11!Side, B11!Other, B11!Goto, B11!Advance, B11!Call,
           B11!CheckClosed, B11!LoadIndex, B11!LoadLap, B11!Claim, B11!ClaimFails,
           B11!MoveData, B11!Publish, B11!TakeCredit, B11!NoCredit, B11!AddWaiter, B11!Wait,
           B11!SubWaiter, B11!GiveCredit, B11!AnyWaiters, B11!Wake, B11!Return, B11!Step,
           B11!CloseFlag, B11!CloseWake, B11!Close, B11!Next, B11!vars, B11!ring,
           P11!AllThreads, P11!Side, P11!Other, P11!Goto, P11!Advance, P11!Call,
           P11!CheckClosed, P11!LoadIndex, P11!LoadLap, P11!Claim, P11!ClaimFails,
           P11!MoveData, P11!Publish, P11!TakeCredit, P11!NoCredit, P11!AddWaiter, P11!Wait,
           P11!SubWaiter, P11!GiveCredit, P11!AnyWaiters, P11!Wake, P11!Return, P11!Step,
           P11!CloseFlag, P11!CloseWake, P11!Close, P11!Next, P11!vars, P11!ring, buf
  <1> QED BY <1>1, Buf11Assumption, P11!BufStep

LEMMA Buf11Gives ==
  P11!BufInv => B11!SlotIsExclusive /\ B11!ReceivedOnce /\ B11!CreditIsSeen
  <1>1. P11!BufInv => P11!SlotIsExclusive /\ P11!ReceivedOnce /\ P11!CreditIsSeen
    BY Buf11Assumption, P11!BufGives
  <1>2. \A T : P11!Cardinality(T) = B11!Cardinality(T)
    BY DEF P11!Cardinality, B11!Cardinality, P11!IsFiniteSet, B11!IsFiniteSet
  <1>3. P11!SlotIsExclusive => B11!SlotIsExclusive
    BY DEF P11!SlotIsExclusive, B11!SlotIsExclusive, P11!InSlot, B11!InSlot,
       P11!AllThreads, B11!AllThreads
  <1>4. P11!ReceivedOnce => B11!ReceivedOnce
    BY <1>2 DEF P11!ReceivedOnce, B11!ReceivedOnce, P11!Msgs, B11!Msgs
  <1>5. P11!CreditIsSeen => B11!CreditIsSeen
    BY DEF P11!CreditIsSeen, B11!CreditIsSeen, P11!Sides, B11!Sides, P11!Side, B11!Side,
       P11!AllThreads, B11!AllThreads
  <1> QED BY <1>1, <1>3, <1>4, <1>5

LEMMA BufAlways ==
  ChannelSpec => []( /\ program = "buf21" => P21!BufInv
                     /\ program = "buf12" => P12!BufInv
                     /\ program = "buf11" => P11!BufInv )
  <1> DEFINE AllInv == /\ program = "buf21" => P21!BufInv
                       /\ program = "buf12" => P12!BufInv
                       /\ program = "buf11" => P11!BufInv
  <1>1. ChannelInit => AllInv
    BY Buf21Init, Buf12Init, Buf11Init DEF ChannelInit
  <1>2. ASSUME AllInv, [ChannelNext]_<<program, vars, unbuf, buf, shm, loop, cast, bus>>
        PROVE  AllInv'
    <2>1. /\ program' = program
          /\ program = "buf21" => [B21!Next]_buf
          /\ program = "buf12" => [B12!Next]_buf
          /\ program = "buf11" => [B11!Next]_buf
      BY <1>2 DEF ChannelNext
    <2> QED BY <1>2, <2>1, Buf21Step, Buf12Step, Buf11Step
  <1> QED BY <1>1, <1>2, PTL DEF ChannelSpec

\* RingIsExact: on every channel of the run, at any time before or after a chan_close, a slot
\* that chan_trysend_buf or chan_tryrecv_buf claimed is that thread's alone, no message is in
\* two places or received twice, and nobody sleeps in chan_send_buf or chan_recv_buf beside a
\* credit.
THEOREM SlotsAreExclusive == ChannelSpec => []RingIsExact
  <1>1. /\ program = "buf21" => P21!BufInv
        /\ program = "buf12" => P12!BufInv
        /\ program = "buf11" => P11!BufInv
        => RingIsExact
    BY Buf21Gives, Buf12Gives, Buf11Gives DEF RingIsExact
  <1> QED BY <1>1, BufAlways, PTL

-----------------------------------------------------------------------------
(* The futex mutex *)

MutexInv ==
    /\ TypeOK
    /\ WordMatchesOwner
    /\ \A p \in asleep : pc[p] = "retry"
    /\ SleeperIsCovered

LEMMA MutexInit == Init => MutexInv
  BY DEF Init, MutexInv, TypeOK, WordMatchesOwner, SleeperIsCovered, Owns, Places,
     Trying, UNLOCKED, LOCKED_NO_WAITER, LOCKED

LEMMA MutexStep == MutexInv /\ [Next]_vars => MutexInv'
  <1> SUFFICES ASSUME MutexInv, [Next]_vars PROVE MutexInv'
    OBVIOUS
  <1> USE DEF MutexInv, TypeOK, WordMatchesOwner, SleeperIsCovered, Owns, Places,
          Trying, UNLOCKED, LOCKED_NO_WAITER, LOCKED, Goto, Cas, EnterLoop
  <1>1. ASSUME NEW p \in Threads, LockCall(p) PROVE MutexInv'
    BY <1>1 DEF LockCall
  <1>2. ASSUME NEW p \in Threads, LockFast(p) PROVE MutexInv'
    BY <1>2 DEF LockFast
  <1>3. ASSUME NEW p \in Threads, LockMark(p) PROVE MutexInv'
    BY <1>3 DEF LockMark
  <1>4. ASSUME NEW p \in Threads, LockWait(p) PROVE MutexInv'
    BY <1>4 DEF LockWait
  <1>5. ASSUME NEW p \in Threads, LockRetry(p) PROVE MutexInv'
    BY <1>5 DEF LockRetry
  <1>6. ASSUME NEW p \in Threads, UnlockSub(p) PROVE MutexInv'
    BY <1>6 DEF UnlockSub
  <1>7. ASSUME NEW p \in Threads, UnlockStore(p) PROVE MutexInv'
    BY <1>7 DEF UnlockStore
  <1>8. ASSUME NEW p \in Threads, UnlockWake(p) PROVE MutexInv'
    BY <1>8 DEF UnlockWake
  <1>9. ASSUME NEW p \in Threads, SpuriousWake(p) PROVE MutexInv'
    BY <1>9 DEF SpuriousWake
  <1>10. CASE UNCHANGED vars
    BY <1>10 DEF vars
  <1> QED
    BY <1>1, <1>2, <1>3, <1>4, <1>5, <1>6, <1>7, <1>8, <1>9, <1>10
       DEF Next, Step

\* The word of the mutex always agrees with its one owner, and every sleeper
\* on its futex is covered by a wake-up to come.
THEOREM MutexInvariance == Spec => [](TypeOK /\ WordMatchesOwner /\ SleeperIsCovered)
  <1>1. Spec => []MutexInv
    BY MutexInit, MutexStep, PTL DEF Spec
  <1>2. MutexInv => TypeOK /\ WordMatchesOwner /\ SleeperIsCovered
    BY DEF MutexInv
  <1> QED BY <1>1, <1>2, PTL

-----------------------------------------------------------------------------
LEMMA MutexOwnerBar ==
  ASSUME MutexInv
  PROVE  /\ \A p \in Threads : Owns(p) => ownerBar = p
         /\ val = UNLOCKED => ownerBar = None
  BY DEF MutexInv, WordMatchesOwner, ownerBar

LEMMA MutexStepRefinement == MutexInv /\ MutexInv' /\ [Next]_vars => [Abstract!Next]_ownerBar
  <1> SUFFICES ASSUME MutexInv, MutexInv', [Next]_vars
               PROVE  Abstract!Next \/ ownerBar' = ownerBar
    OBVIOUS
  <1>1. /\ \A p \in Threads : Owns(p) => ownerBar = p
        /\ val = UNLOCKED => ownerBar = None
    BY MutexOwnerBar
  <1>2. /\ \A p \in Threads : Owns(p)' => ownerBar' = p
        /\ val' = UNLOCKED => ownerBar' = None
    BY DEF MutexInv, WordMatchesOwner, ownerBar
  <1>3. ASSUME NEW p \in Threads, ~Owns(p), Owns(p)', val = UNLOCKED
        PROVE  Abstract!Next
    BY <1>1, <1>2, <1>3 DEF Abstract!Next, Abstract!Lock
  <1>4. ASSUME NEW p \in Threads, Owns(p), val' = UNLOCKED
        PROVE  Abstract!Next
    BY <1>1, <1>2, <1>4 DEF Abstract!Next, Abstract!Unlock
  <1>5. ASSUME \A p \in Threads : Owns(p)' <=> Owns(p)
        PROVE  ownerBar' = ownerBar
    BY <1>5 DEF ownerBar
  <1> USE DEF MutexInv, TypeOK, WordMatchesOwner, Owns, Places, Trying, UNLOCKED,
          LOCKED_NO_WAITER, LOCKED, Goto, Cas, EnterLoop
  <1>6. ASSUME NEW p \in Threads, LockFast(p) \/ LockRetry(p)
        PROVE  Abstract!Next \/ ownerBar' = ownerBar
    <2>1. CASE val = UNLOCKED
      BY <1>3, <1>6, <2>1 DEF LockFast, LockRetry
    <2>2. CASE val # UNLOCKED
      BY <1>5, <1>6, <2>2 DEF LockFast, LockRetry
    <2> QED BY <2>1, <2>2
  <1>7. ASSUME NEW p \in Threads, UnlockSub(p)
        PROVE  Abstract!Next \/ ownerBar' = ownerBar
    <2>1. CASE val = LOCKED_NO_WAITER
      BY <1>4, <1>7, <2>1 DEF UnlockSub
    <2>2. CASE val # LOCKED_NO_WAITER
      BY <1>5, <1>7, <2>2 DEF UnlockSub
    <2> QED BY <2>1, <2>2
  <1>8. ASSUME NEW p \in Threads, UnlockStore(p) PROVE Abstract!Next
    BY <1>4, <1>8 DEF UnlockStore
  <1>9. ASSUME NEW p \in Threads,
               \/ LockCall(p) \/ LockMark(p) \/ LockWait(p) \/ UnlockWake(p)
               \/ SpuriousWake(p)
        PROVE  ownerBar' = ownerBar
    BY <1>5, <1>9 DEF LockCall, LockMark, LockWait, UnlockWake, SpuriousWake
  <1>10. CASE UNCHANGED vars
    BY <1>5, <1>10 DEF vars
  <1> QED BY <1>6, <1>7, <1>8, <1>9, <1>10 DEF Next, Step

\* The futex mutex implements the abstract mutex the channel relies on.
THEOREM MutexRefinement == Spec => ImplementsMutex
  <1>1. Init => Abstract!Init
    BY DEF Init, Abstract!Init, ownerBar, Owns
  <1>2. Spec => []MutexInv
    BY MutexInit, MutexStep, PTL DEF Spec
  <1> QED
    BY <1>1, <1>2, MutexStepRefinement, PTL DEF Spec, ImplementsMutex, Abstract!Spec
=============================================================================
