--------------------------- MODULE ChanBuf_proofs ---------------------------
(***************************************************************************)
(* The ring of the buffered channel of channel/channel.c for any number of  *)
(* senders, receivers and chan_close calls, any batches and any capacity.   *)
(*                                                                          *)
(* The lap at which a side will claim a slot next follows from its index    *)
(* alone.  The laps of the two sides and the lap of the slot are never      *)
(* further apart than one round, so the slot waits for the one side, for    *)
(* the other, or is in the hands of the one thread that claimed it          *)
(* (SlotsInTurn); a stale index is behind the slot's lap.  From that, a     *)
(* message is in one place (OnePlace).  For the credits one has to count:   *)
(* while somebody sleeps there are never more credits for his side than     *)
(* threads that will look for waiters or can take one (CreditsCovered).     *)
(*                                                                          *)
(* BufAssumption says what is known of the constants; Channel_proofs        *)
(* discharges it for the channels that are model-checked.                   *)
(***************************************************************************)
EXTENDS ChanBuf, Integers, FiniteSetTheorems, TLAPS

\* Different threads on the two sides, a ring with a slot, and no message that looks like
\* an empty slot.
BufAssumption ==
    /\ IsFiniteSet(Senders) /\ IsFiniteSet(Receivers) /\ Senders \cap Receivers = {}
    /\ Closers \cap AllThreads = {}
    /\ Cap \in Nat \ {0} /\ PerSender \in Nat /\ PerReceiver \in Nat /\ Null \notin Msgs

-----------------------------------------------------------------------------
(* The slots *)

Slots  == 0 .. Cap - 1
Before == {"try", "load", "lap", "claim", "credit", "addwaiter", "wait", "subwaiter"}
After  == {"give", "anyone", "wake", "return"}

BufTypes ==
    /\ TypeOK
    /\ pc \in [AllThreads \cup Closers -> {"idle", "move", "publish", "wake_recv", "wake_send", "done"} \cup Before \cup After]
    /\ \A t \in AllThreads : pc[t] \in {"idle", "move", "publish"} \cup Before \cup After
    /\ left \in [AllThreads -> Nat] /\ received \in [Msgs -> Nat]

\* The lap at which a side with index ix will claim slot k next.
Due(ix, k) == IF ix.pos <= k THEN ix.lap ELSE ix.lap + 2

InSlotAt(t, k) == InSlot(t) /\ at[t].pos = k

\* A slot is empty or full and waits for the one side or the other, or is in the hands of a
\* thread that claimed it.
SlotsInTurn ==
    /\ index["send"].lap % 2 = 0
    /\ \A k \in Slots : \/ Due(index["recv"], k) = Due(index["send"], k) + 1 /\ lap[k] \in {Due(index["send"], k), Due(index["send"], k) - 1}
                        \/ Due(index["recv"], k) = Due(index["send"], k) - 1 /\ lap[k] \in {Due(index["send"], k) - 1, Due(index["send"], k) - 2}
    /\ \A t \in Senders : InSlot(t) =>
           lap[at[t].pos] = Due(index["send"], at[t].pos) - 2 /\ lap[at[t].pos] = Due(index["recv"], at[t].pos) - 1
    /\ \A t \in Receivers : InSlot(t) =>
           lap[at[t].pos] = Due(index["recv"], at[t].pos) - 2 /\ lap[at[t].pos] = Due(index["send"], at[t].pos) - 1
    /\ \A t \in AllThreads : pc[t] = "claim" => at[t].lap <= lap[at[t].pos]

-----------------------------------------------------------------------------
(* The messages *)

\* What a sender sends now, and what it has sent.
Current(t) == <<t, PerSender - left[t] + 1>>
Sent(m) == \/ m[2] <= PerSender - left[m[1]]
           \/ m[2] <= PerSender - left[m[1]] + 1 /\ pc[m[1]] \in After

InRing(m, k) == data[k] = m /\ lap[k] % 2 = 1 /\ \A t \in Receivers : pc[t] = "publish" => at[t].pos # k
HasItem(m, t) == item[t] = m /\ pc[t] # "idle"

CallsInTurn ==
    /\ \A t \in AllThreads : pc[t] # "idle" => left[t] > 0
    /\ \A t \in Senders : /\ left[t] <= PerSender
                          /\ pc[t] # "idle" => item[t] = Current(t)
                          /\ pc[t] = "publish" => data[at[t].pos] = item[t]
    /\ \A t \in Receivers : pc[t] \in Before \cup {"move"} => item[t] = Null

\* A message is in one place, and only after it was sent.
OnePlace ==
    \A m \in Msgs :
        /\ \A j, k \in Slots : InRing(m, j) /\ InRing(m, k) => j = k
        /\ \A t, u \in Receivers : HasItem(m, t) /\ HasItem(m, u) => t = u
        /\ \A k \in Slots, t \in Receivers : ~(InRing(m, k) /\ HasItem(m, t))
        /\ \A k \in Slots : InRing(m, k) => received[m] = 0 /\ Sent(m)
        /\ \A t \in Receivers : HasItem(m, t) => received[m] = 0 /\ Sent(m)
        /\ received[m] \in {0, 1} /\ (received[m] = 1 => Sent(m))

-----------------------------------------------------------------------------
(* The credits *)

Waiting(s) == {t \in AllThreads : Side(t) = s /\ pc[t] \in {"wait", "subwaiter"}}

\* Who has given side s a credit and will look for waiters, or can take one.
Covers(s) == {t \in AllThreads : \/ Side(t) # s /\ pc[t] \in {"anyone", "wake"}
                                 \/ Side(t) = s /\ pc[t] \in {"subwaiter", "credit"} /\ t \notin asleep}

CreditsCovered ==
    /\ \A t \in asleep : pc[t] = "subwaiter"
    /\ \A s \in Sides : waiters[s] = Cardinality(Waiting(s))
    /\ \A s \in Sides : (\E t \in asleep : Side(t) = s) => ftx[s] <= Cardinality(Covers(s))

BufInv == BufTypes /\ SlotsInTurn /\ SlotIsExclusive /\ CallsInTurn /\ OnePlace /\ CreditsCovered

LEMMA BufSets ==
  ASSUME BufAssumption
  PROVE  /\ \A t \in Senders : t \in AllThreads /\ t \notin Receivers /\ Side(t) = "send" /\ Other(t) = "recv"
         /\ \A t \in Receivers : t \in AllThreads /\ t \notin Senders /\ Side(t) = "recv" /\ Other(t) = "send"
         /\ \A t \in AllThreads : t \in Senders \/ t \in Receivers
         /\ \A t \in AllThreads : Side(t) \in Sides /\ Other(t) \in Sides /\ Side(t) # Other(t)
         /\ \A t \in AllThreads, s \in Sides : Side(t) # s <=> Other(t) = s
         /\ \A c \in Closers : c \notin AllThreads
         /\ IsFiniteSet(AllThreads) /\ Cap \in Nat /\ Cap > 0 /\ 0 \in Slots /\ Null \notin Msgs
         /\ \A k \in Slots : k \in Nat
         /\ \A m \in Msgs : m[1] \in Senders /\ m[2] \in 1 .. PerSender /\ m = <<m[1], m[2]>>
<1>1. IsFiniteSet(AllThreads)
  BY FS_Union DEF BufAssumption, AllThreads
<1>2. \A m \in Msgs : m[1] \in Senders /\ m[2] \in 1 .. PerSender /\ m = <<m[1], m[2]>>
  BY DEF Msgs
<1> QED BY <1>1, <1>2 DEF BufAssumption, AllThreads, Side, Other, Sides, Slots

\* The places of the threads after a step of t.
LEMMA BufGoto ==
  ASSUME BufAssumption, BufTypes, NEW t \in AllThreads, NEW a, NEW b, Goto(t, a, b)
  PROVE  /\ t \notin asleep /\ pc[t] = a /\ pc'[t] = b
         /\ \A u \in AllThreads : u # t => pc'[u] = pc[u]
         /\ \A u \in Closers : pc'[u] = pc[u]
         /\ b \in {"idle", "move", "publish"} \cup Before \cup After =>
              /\ pc' \in [AllThreads \cup Closers -> {"idle", "move", "publish", "wake_recv", "wake_send", "done"} \cup Before \cup After]
              /\ \A u \in AllThreads : pc'[u] \in {"idle", "move", "publish"} \cup Before \cup After
<1>1. \A u \in Closers : u # t
  BY BufSets
<1> QED BY <1>1 DEF Goto, BufTypes

LEMMA AdvanceDue ==
  ASSUME BufAssumption, BufTypes, NEW s \in Sides, index' = [index EXCEPT ![s] = Advance(index[s])]
  PROVE  /\ index'[s] \in [pos : Slots, lap : Nat]
         /\ index'[s].lap = index[s].lap \/ index'[s].lap = index[s].lap + 2
         /\ Due(index[s], index[s].pos) = index[s].lap /\ Due(index'[s], index[s].pos) = index[s].lap + 2
         /\ \A k \in Slots : k # index[s].pos => Due(index'[s], k) = Due(index[s], k)
         /\ \A r \in Sides, k \in Slots : r # s => Due(index'[r], k) = Due(index[r], k)
<1>0. /\ index[s] \in [pos : Slots, lap : Nat] /\ index'[s] = Advance(index[s])
      /\ \A r \in Sides : r # s => index'[r] = index[r]
  BY DEF BufTypes, TypeOK, Slots
<1>1. Cap \in Nat /\ Cap > 0 /\ index[s].pos \in Nat /\ index[s].lap \in Nat /\ index[s].pos <= Cap - 1
  BY <1>0, BufSets DEF Slots
<1>2. CASE index[s].pos + 1 = Cap
  <2>1. index'[s] = [pos |-> 0, lap |-> index[s].lap + 2]
    BY <1>0, <1>2 DEF Advance
  <2> QED BY <1>0, <1>1, <1>2, <2>1 DEF Due, Slots
<1>3. CASE index[s].pos + 1 # Cap
  <2>1. index'[s] = [pos |-> index[s].pos + 1, lap |-> index[s].lap]
    BY <1>0, <1>3 DEF Advance
  <2>2. index'[s].pos = index[s].pos + 1 /\ index'[s].lap = index[s].lap
    BY <2>1
  <2>3. index'[s] \in [pos : Slots, lap : Nat]
    BY <1>1, <1>3, <2>1 DEF Slots
  <2>4. \A k \in Slots : k \in Nat
    BY DEF Slots
  <2> QED BY <1>0, <1>1, <2>2, <2>3, <2>4 DEF Due
<1> QED BY <1>2, <1>3

LEMMA DueTyped ==
  ASSUME BufAssumption, BufTypes
  PROVE  \A s \in Sides, k \in Slots : Due(index[s], k) \in Nat /\ lap[k] \in Nat
<1> SUFFICES ASSUME NEW s \in Sides, NEW k \in Slots PROVE Due(index[s], k) \in Nat /\ lap[k] \in Nat
  OBVIOUS
<1>1. index[s] \in [pos : Slots, lap : Nat] /\ lap[k] \in Nat
  BY DEF BufTypes, TypeOK, Slots
<1> QED BY <1>1 DEF Due

\* Without a claim and a publication the slots stay as they are.
LEMMA SlotsKept ==
  ASSUME BufAssumption, BufTypes, SlotsInTurn, SlotIsExclusive, UNCHANGED <<index, lap>>,
         \A u \in AllThreads : InSlot(u)' => InSlot(u) /\ at'[u] = at[u],
         \A u \in AllThreads : pc'[u] = "claim" => at'[u].lap <= lap[at'[u].pos]
  PROVE  SlotsInTurn' /\ SlotIsExclusive'
<1>1. \A s \in Sides, k \in Slots : Due(index'[s], k) = Due(index[s], k)
  BY DEF Due
<1>2. \A u \in AllThreads : at[u].pos \in Slots
  BY DEF BufTypes, TypeOK, Slots
<1>3. \A u \in AllThreads : InSlot(u)' => at'[u].pos = at[u].pos
  OBVIOUS
<1>4. SlotIsExclusive'
  BY <1>3 DEF SlotIsExclusive
<1>5. \A t \in Senders : InSlot(t)' => lap[at'[t].pos] = Due(index'["send"], at'[t].pos) - 2 /\ lap[at'[t].pos] = Due(index'["recv"], at'[t].pos) - 1
  BY <1>1, <1>2, BufSets DEF SlotsInTurn, Sides
<1>6. \A t \in Receivers : InSlot(t)' => lap[at'[t].pos] = Due(index'["recv"], at'[t].pos) - 2 /\ lap[at'[t].pos] = Due(index'["send"], at'[t].pos) - 1
  BY <1>1, <1>2, BufSets DEF SlotsInTurn, Sides
<1> QED BY <1>1, <1>4, <1>5, <1>6 DEF SlotsInTurn, Sides

LEMMA SlotClaimed ==
  ASSUME BufAssumption, BufTypes, SlotsInTurn, SlotIsExclusive, NEW t \in AllThreads, Claim(t)
  PROVE  SlotsInTurn' /\ SlotIsExclusive'
<1> DEFINE k0 == at[t].pos
           s0 == Side(t)
<1>1. /\ index[s0] = at[t] /\ pc[t] = "claim" /\ pc'[t] = "move" /\ UNCHANGED <<lap, at>>
      /\ index' = [index EXCEPT ![s0] = Advance(index[s0])]
      /\ \A u \in AllThreads : u # t => pc'[u] = pc[u]
  BY BufGoto DEF Claim
<1>2. s0 \in Sides /\ k0 \in Slots /\ at[t].lap <= lap[k0]
  BY <1>1, BufSets DEF SlotsInTurn, BufTypes, TypeOK, Slots
<1>3. /\ index'[s0] \in [pos : Slots, lap : Nat]
      /\ index'[s0].lap = index[s0].lap \/ index'[s0].lap = index[s0].lap + 2
      /\ Due(index[s0], k0) = at[t].lap /\ Due(index'[s0], k0) = at[t].lap + 2
      /\ \A k \in Slots : k # k0 => Due(index'[s0], k) = Due(index[s0], k)
      /\ \A r \in Sides, k \in Slots : r # s0 => Due(index'[r], k) = Due(index[r], k)
  <2> HIDE DEF s0
  <2>1. index[s0] = at[t] /\ index[s0].pos = k0 /\ index[s0].lap = at[t].lap
    BY <1>1
  <2>2. index' = [index EXCEPT ![s0] = Advance(index[s0])]
    BY <1>1
  <2>3. /\ index'[s0] \in [pos : Slots, lap : Nat]
        /\ index'[s0].lap = index[s0].lap \/ index'[s0].lap = index[s0].lap + 2
        /\ Due(index[s0], index[s0].pos) = index[s0].lap /\ Due(index'[s0], index[s0].pos) = index[s0].lap + 2
        /\ \A k \in Slots : k # index[s0].pos => Due(index'[s0], k) = Due(index[s0], k)
        /\ \A r \in Sides, k \in Slots : r # s0 => Due(index'[r], k) = Due(index[r], k)
    BY <1>2, <2>2, AdvanceDue
  <2> QED BY <2>1, <2>3
<1>4. /\ \A s \in Sides, k \in Slots : Due(index[s], k) \in Nat /\ lap[k] \in Nat
      /\ at[t].lap \in Nat /\ \A u \in AllThreads : at[u].pos \in Slots
  BY DueTyped DEF BufTypes, TypeOK, Slots
<1>5. \/ s0 = "send" /\ lap[k0] = Due(index["send"], k0) /\ Due(index["recv"], k0) = lap[k0] + 1
      \/ s0 = "recv" /\ lap[k0] = Due(index["recv"], k0) /\ Due(index["send"], k0) = lap[k0] + 1
  <2>1. "send" \in Sides /\ "recv" \in Sides /\ (s0 = "send" \/ s0 = "recv")
    BY <1>2 DEF Sides
  <2>2. \/ Due(index["recv"], k0) = Due(index["send"], k0) + 1 /\ (lap[k0] = Due(index["send"], k0) \/ lap[k0] = Due(index["send"], k0) - 1)
        \/ Due(index["recv"], k0) = Due(index["send"], k0) - 1 /\ (lap[k0] = Due(index["send"], k0) - 1 \/ lap[k0] = Due(index["send"], k0) - 2)
    BY <1>2 DEF SlotsInTurn
  <2>3. Due(index[s0], k0) <= lap[k0] /\ lap[k0] \in Nat /\ Due(index["recv"], k0) \in Nat /\ Due(index["send"], k0) \in Nat
    BY <1>2, <1>3, <1>4, <2>1
  <2>4. CASE s0 = "send"
    BY <2>2, <2>3, <2>4
  <2>5. CASE s0 = "recv"
    BY <2>2, <2>3, <2>5
  <2> QED BY <2>1, <2>4, <2>5
<1>6. \A u \in AllThreads : InSlot(u) => at[u].pos # k0
  <2> SUFFICES ASSUME NEW u \in AllThreads, InSlot(u), at[u].pos = k0 PROVE FALSE
    OBVIOUS
  <2>1. \/ lap[k0] = Due(index["send"], k0) - 2 /\ lap[k0] = Due(index["recv"], k0) - 1
        \/ lap[k0] = Due(index["recv"], k0) - 2 /\ lap[k0] = Due(index["send"], k0) - 1
    BY BufSets DEF SlotsInTurn
  <2> QED BY <1>2, <1>4, <1>5, <2>1 DEF Sides
<1>7. \A u \in AllThreads : (InSlot(u)' <=> u = t \/ InSlot(u)) /\ at'[u] = at[u]
  BY <1>1 DEF InSlot
<1>8. SlotIsExclusive'
  BY <1>6, <1>7 DEF SlotIsExclusive
<1>9. index'["send"].lap % 2 = 0
  <2>1. index["send"].lap % 2 = 0 /\ index["send"].lap \in Nat
    BY DEF SlotsInTurn, BufTypes, TypeOK, Sides
  <2>2. index'["send"].lap = index["send"].lap \/ index'["send"].lap = index["send"].lap + 2
    <3>1. CASE s0 = "send"
      BY <1>3, <3>1
    <3>2. CASE s0 # "send"
      BY <1>1, <3>2 DEF BufTypes, TypeOK, Sides
    <3> QED BY <3>1, <3>2
  <2> QED BY <2>1, <2>2
<1>10. ASSUME NEW k \in Slots
       PROVE  \/ Due(index'["recv"], k) = Due(index'["send"], k) + 1 /\ lap[k] \in {Due(index'["send"], k), Due(index'["send"], k) - 1}
              \/ Due(index'["recv"], k) = Due(index'["send"], k) - 1 /\ lap[k] \in {Due(index'["send"], k) - 1, Due(index'["send"], k) - 2}
  <2>1. CASE k = k0
    BY <1>2, <1>3, <1>4, <1>5, <2>1 DEF Sides
  <2>2. CASE k # k0
    BY <1>2, <1>3, <2>2 DEF Sides, SlotsInTurn
  <2> QED BY <2>1, <2>2
<1>11. ASSUME NEW u \in AllThreads, InSlot(u)'
       PROVE  IF u \in Senders THEN lap[at[u].pos] = Due(index'["send"], at[u].pos) - 2 /\ lap[at[u].pos] = Due(index'["recv"], at[u].pos) - 1
                               ELSE lap[at[u].pos] = Due(index'["recv"], at[u].pos) - 2 /\ lap[at[u].pos] = Due(index'["send"], at[u].pos) - 1
  <2>1. CASE u = t
    BY <1>2, <1>3, <1>4, <1>5, <2>1, BufSets DEF Sides
  <2>2. CASE u # t
    <3>1. InSlot(u) /\ at[u].pos # k0 /\ at[u].pos \in Slots
      BY <1>4, <1>6, <1>7, <1>11, <2>2
    <3>2. Due(index'["send"], at[u].pos) = Due(index["send"], at[u].pos) /\ Due(index'["recv"], at[u].pos) = Due(index["recv"], at[u].pos)
      BY <1>2, <1>3, <3>1 DEF Sides
    <3> QED BY <3>1, <3>2, BufSets DEF SlotsInTurn
  <2> QED BY <2>1, <2>2
<1>12. /\ \A u \in Senders : InSlot(u)' => lap[at[u].pos] = Due(index'["send"], at[u].pos) - 2 /\ lap[at[u].pos] = Due(index'["recv"], at[u].pos) - 1
       /\ \A u \in Receivers : InSlot(u)' => lap[at[u].pos] = Due(index'["recv"], at[u].pos) - 2 /\ lap[at[u].pos] = Due(index'["send"], at[u].pos) - 1
  BY <1>11, BufSets
<1>13. \A u \in AllThreads : pc'[u] = "claim" => at[u].lap <= lap[at[u].pos]
  BY <1>1 DEF SlotsInTurn
<1> QED BY <1>1, <1>8, <1>9, <1>10, <1>12, <1>13 DEF SlotsInTurn

LEMMA SlotPublished ==
  ASSUME BufAssumption, BufTypes, SlotsInTurn, SlotIsExclusive, NEW t \in AllThreads, Publish(t)
  PROVE  SlotsInTurn' /\ SlotIsExclusive' /\ lap'[at[t].pos] = lap[at[t].pos] + 1
         /\ (t \in Senders => lap[at[t].pos] % 2 = 0) /\ (t \in Receivers => lap[at[t].pos] % 2 = 1)
<1> DEFINE k0 == at[t].pos
<1>1. /\ pc[t] = "publish" /\ pc'[t] = "give" /\ UNCHANGED <<index, at>>
      /\ lap' = [lap EXCEPT ![k0] = @ + 1]
      /\ \A u \in AllThreads : u # t => pc'[u] = pc[u]
  BY BufGoto DEF Publish
<1>2. /\ \A s \in Sides, k \in Slots : Due(index[s], k) \in Nat /\ lap[k] \in Nat /\ Due(index'[s], k) = Due(index[s], k)
      /\ \A u \in AllThreads : at[u].pos \in Slots /\ at[u].lap \in Nat
  BY <1>1, DueTyped DEF BufTypes, TypeOK, Slots, Due
<1>3. lap'[k0] = lap[k0] + 1 /\ \A k \in Slots : k # k0 => lap'[k] = lap[k]
  BY <1>1, <1>2 DEF BufTypes, TypeOK, Slots
<1>4. \/ t \in Senders /\ lap[k0] = Due(index["send"], k0) - 2 /\ lap[k0] = Due(index["recv"], k0) - 1
      \/ t \in Receivers /\ lap[k0] = Due(index["recv"], k0) - 2 /\ lap[k0] = Due(index["send"], k0) - 1
  BY <1>1, BufSets DEF SlotsInTurn, InSlot
<1>5. \A u \in AllThreads : InSlot(u)' => u # t /\ InSlot(u) /\ at[u].pos # k0
  BY <1>1 DEF InSlot, SlotIsExclusive
<1>6. SlotIsExclusive'
  BY <1>1, <1>5 DEF SlotIsExclusive
<1>7. ASSUME NEW k \in Slots
      PROVE  \/ Due(index["recv"], k) = Due(index["send"], k) + 1 /\ lap'[k] \in {Due(index["send"], k), Due(index["send"], k) - 1}
             \/ Due(index["recv"], k) = Due(index["send"], k) - 1 /\ lap'[k] \in {Due(index["send"], k) - 1, Due(index["send"], k) - 2}
  <2>1. CASE k = k0
    BY <1>2, <1>3, <1>4, <2>1 DEF Sides
  <2>2. CASE k # k0
    BY <1>2, <1>3, <2>2 DEF Sides, SlotsInTurn
  <2> QED BY <2>1, <2>2
<1>8. /\ \A u \in Senders : InSlot(u)' => lap'[at[u].pos] = Due(index["send"], at[u].pos) - 2 /\ lap'[at[u].pos] = Due(index["recv"], at[u].pos) - 1
      /\ \A u \in Receivers : InSlot(u)' => lap'[at[u].pos] = Due(index["recv"], at[u].pos) - 2 /\ lap'[at[u].pos] = Due(index["send"], at[u].pos) - 1
  BY <1>2, <1>3, <1>5, BufSets DEF SlotsInTurn
<1>9. \A u \in AllThreads : pc'[u] = "claim" => at[u].lap <= lap'[at[u].pos]
  <2> SUFFICES ASSUME NEW u \in AllThreads, pc'[u] = "claim" PROVE at[u].lap <= lap'[at[u].pos]
    OBVIOUS
  <2>1. at[u].lap <= lap[at[u].pos]
    BY <1>1 DEF SlotsInTurn
  <2>2. lap[at[u].pos] <= lap'[at[u].pos] /\ lap[at[u].pos] \in Nat /\ lap'[at[u].pos] \in Nat /\ at[u].lap \in Nat
    <3>1. at[u].pos \in Slots /\ at[u].lap \in Nat /\ lap[at[u].pos] \in Nat
      BY <1>2 DEF Sides
    <3> QED BY <1>3, <3>1
  <2> QED BY <2>1, <2>2
<1>10. SlotsInTurn'
  BY <1>1, <1>2, <1>7, <1>8, <1>9 DEF SlotsInTurn, Sides
<1>11. (t \in Senders => lap[k0] % 2 = 0) /\ (t \in Receivers => lap[k0] % 2 = 1)
  <2>1. index["send"].lap % 2 = 0 /\ index["send"].lap \in Nat
    BY DEF SlotsInTurn, BufTypes, TypeOK, Sides
  <2>2. Due(index["send"], k0) % 2 = 0 /\ Due(index["send"], k0) \in Nat
    BY <1>2, <2>1 DEF Due, Sides
  <2> QED BY <1>2, <1>4, <2>2, BufSets
<1> QED BY <1>3, <1>6, <1>10, <1>11

-----------------------------------------------------------------------------
LEMMA PlacesKept ==
  ASSUME OnePlace, UNCHANGED <<lap, data, received>>,
         \A u \in Receivers : pc[u] = "publish" => pc'[u] = "publish" /\ at'[u] = at[u],
         \A m \in Msgs, u \in Receivers : HasItem(m, u)' => HasItem(m, u),
         \A m \in Msgs : Sent(m) => Sent(m)'
  PROVE  OnePlace'
<1>1. \A m \in Msgs, k \in Slots : InRing(m, k)' => InRing(m, k)
  BY DEF InRing
<1> HIDE DEF InRing, HasItem, Sent
<1> SUFFICES ASSUME NEW m \in Msgs
             PROVE  /\ \A j, k \in Slots : InRing(m, j)' /\ InRing(m, k)' => j = k
                    /\ \A t, u \in Receivers : HasItem(m, t)' /\ HasItem(m, u)' => t = u
                    /\ \A k \in Slots, t \in Receivers : ~(InRing(m, k)' /\ HasItem(m, t)')
                    /\ \A k \in Slots : InRing(m, k)' => received'[m] = 0 /\ Sent(m)'
                    /\ \A t \in Receivers : HasItem(m, t)' => received'[m] = 0 /\ Sent(m)'
                    /\ received'[m] \in {0, 1} /\ (received'[m] = 1 => Sent(m)')
  BY DEF OnePlace
<1> QED BY <1>1 DEF OnePlace

\* The steps that touch neither a message nor a slot.
LEMMA MessagesKept ==
  ASSUME BufAssumption, BufTypes, CallsInTurn, OnePlace, UNCHANGED <<lap, data, received, item, left>>,
         NEW t \in AllThreads, \A u \in AllThreads : u # t => pc'[u] = pc[u] /\ at'[u] = at[u],
         pc[t] \in Before \cup After, pc'[t] \in Before \cup After \cup {"move"},
         pc[t] \in Before <=> pc'[t] \in Before \cup {"move"}
  PROVE  CallsInTurn' /\ OnePlace'
<1> USE DEF Before, After
<1>1. \A u \in AllThreads : /\ pc'[u] # "idle" => pc[u] # "idle"
                            /\ pc[u] = "publish" <=> pc'[u] = "publish"
                            /\ pc[u] = "publish" => at'[u] = at[u]
                            /\ pc'[u] \in Before \cup {"move"} => pc[u] \in Before \cup {"move"}
                            /\ pc[u] \in After => pc'[u] \in After
  OBVIOUS
<1>2. CallsInTurn'
  BY <1>1, BufSets DEF CallsInTurn, Current
<1>3. \A m \in Msgs, u \in Receivers : HasItem(m, u)' => HasItem(m, u)
  BY <1>1, BufSets DEF HasItem
<1>4. \A m \in Msgs : Sent(m) => Sent(m)'
  BY <1>1, BufSets DEF Sent
<1>5. \A u \in Receivers : pc[u] = "publish" => pc'[u] = "publish" /\ at'[u] = at[u]
  BY <1>1, BufSets
<1> QED BY <1>2, <1>3, <1>4, <1>5, PlacesKept

LEMMA CallBegins ==
  ASSUME BufAssumption, BufTypes, CallsInTurn, OnePlace, NEW t \in AllThreads, Call(t)
  PROVE  CallsInTurn' /\ OnePlace'
<1>1. /\ pc[t] = "idle" /\ pc'[t] = "try" /\ left[t] > 0 /\ UNCHANGED <<lap, data, received, left, at>>
      /\ \A u \in AllThreads : u # t => pc'[u] = pc[u]
  BY BufGoto DEF Call, ring
<1>2. /\ item'[t] = IF t \in Senders THEN Current(t) ELSE Null
      /\ \A u \in AllThreads : u # t => item'[u] = item[u]
  BY DEF Call, Current, BufTypes, TypeOK
<1>3. CallsInTurn'
  BY <1>1, <1>2, BufSets DEF CallsInTurn, Current, Before
<1>4. \A m \in Msgs, u \in Receivers : HasItem(m, u)' => HasItem(m, u)
  BY <1>1, <1>2, BufSets DEF HasItem
<1>5. \A m \in Msgs : Sent(m) => Sent(m)'
  BY <1>1, BufSets DEF Sent, After
<1>6. \A u \in Receivers : pc[u] = "publish" => pc'[u] = "publish" /\ at'[u] = at[u]
  BY <1>1, BufSets
<1> QED BY <1>1, <1>3, <1>4, <1>5, <1>6, PlacesKept

LEMMA CallEnds ==
  ASSUME BufAssumption, BufTypes, CallsInTurn, OnePlace, NEW t \in AllThreads, CheckClosed(t)
  PROVE  CallsInTurn' /\ OnePlace'
<1>1. /\ pc[t] = "try" /\ pc'[t] = IF closed THEN "idle" ELSE "load"
      /\ UNCHANGED <<lap, data, received, item, at>>
      /\ \A u \in AllThreads : u # t => pc'[u] = pc[u]
  BY BufGoto DEF CheckClosed, ring
<1>2. /\ left'[t] = IF closed THEN 0 ELSE left[t]
      /\ \A u \in AllThreads : u # t => left'[u] = left[u]
  BY DEF CheckClosed, BufTypes
<1>3. \A u \in AllThreads : left[u] \in Nat
  BY DEF BufTypes
<1>4. PerSender \in Nat
  BY DEF BufAssumption
<1>5. CallsInTurn'
  BY <1>1, <1>2, <1>4, BufSets DEF CallsInTurn, Current, Before
<1>6. \A m \in Msgs, u \in Receivers : HasItem(m, u)' => HasItem(m, u)
  BY <1>1, <1>2, BufSets DEF HasItem
<1>7. ASSUME NEW m \in Msgs, Sent(m) PROVE Sent(m)'
  <2>1. m[1] \in AllThreads /\ m[2] \in 1 .. PerSender
    BY BufSets
  <2>2. CASE m[1] = t
    BY <1>1, <1>2, <1>4, <1>7, <2>1, <2>2 DEF Sent, After
  <2>3. CASE m[1] # t
    BY <1>1, <1>2, <1>7, <2>1, <2>3 DEF Sent
  <2> QED BY <2>2, <2>3
<1>8. \A u \in Receivers : pc[u] = "publish" => pc'[u] = "publish" /\ at'[u] = at[u]
  BY <1>1, BufSets
<1> QED BY <1>1, <1>5, <1>6, <1>7, <1>8, PlacesKept

LEMMA SlotParity ==
  ASSUME BufAssumption, BufTypes, SlotsInTurn, NEW t \in AllThreads, InSlot(t)
  PROVE  /\ at[t].pos \in Slots /\ lap[at[t].pos] \in Nat
         /\ (t \in Senders => lap[at[t].pos] % 2 = 0) /\ (t \in Receivers => lap[at[t].pos] % 2 = 1)
<1> DEFINE k0 == at[t].pos
<1>1. at[t].pos \in Slots
  BY DEF BufTypes, TypeOK, Slots
<1>2. \A s \in Sides : Due(index[s], k0) \in Nat /\ lap[k0] \in Nat
  BY <1>1, DueTyped
<1>3. \/ t \in Senders /\ lap[k0] = Due(index["send"], k0) - 2
      \/ t \in Receivers /\ lap[k0] = Due(index["send"], k0) - 1
  BY BufSets DEF SlotsInTurn
<1>4. index["send"].lap % 2 = 0 /\ index["send"].lap \in Nat
  BY DEF SlotsInTurn, BufTypes, TypeOK, Sides
<1>5. Due(index["send"], k0) % 2 = 0 /\ Due(index["send"], k0) \in Nat /\ lap[k0] \in Nat
  BY <1>2, <1>4 DEF Due, Sides
<1> QED BY <1>1, <1>3, <1>5, BufSets

LEMMA MessageMoved ==
  ASSUME BufAssumption, BufTypes, SlotsInTurn, SlotIsExclusive, CallsInTurn, OnePlace, NEW t \in AllThreads, MoveData(t)
  PROVE  CallsInTurn' /\ OnePlace'
<1> DEFINE k0 == at[t].pos
<1>1. /\ pc[t] = "move" /\ pc'[t] = "publish" /\ UNCHANGED <<lap, received, left, at>>
      /\ \A u \in AllThreads : u # t => pc'[u] = pc[u]
  BY BufGoto DEF MoveData
<1>2. /\ k0 \in Slots /\ (t \in Senders => lap[k0] % 2 = 0) /\ (t \in Receivers => lap[k0] % 2 = 1)
      /\ \A u \in AllThreads : u # t /\ InSlot(u) => at[u].pos # k0
  BY <1>1, SlotParity DEF InSlot, SlotIsExclusive
<1>3. \A m \in Msgs : Sent(m) => Sent(m)'
  BY <1>1, BufSets DEF Sent, After
<1>4. CASE t \in Senders
  <2>1. /\ UNCHANGED item /\ data'[k0] = item[t]
        /\ \A k \in Slots : k # k0 => data'[k] = data[k]
    BY <1>2, <1>4, BufSets DEF MoveData, BufTypes, TypeOK, Slots
  <2>2. CallsInTurn'
    <3>1. ASSUME NEW u \in Senders, pc'[u] = "publish" PROVE data'[at[u].pos] = item[u]
      <4>1. CASE u = t
        BY <2>1, <4>1
      <4>2. CASE u # t
        <5>1. u \in AllThreads /\ pc[u] = "publish" /\ InSlot(u) /\ at[u].pos \in Slots
          BY <1>1, <3>1, <4>2, BufSets DEF InSlot, BufTypes, TypeOK, Slots
        <5> QED BY <1>2, <2>1, <4>2, <5>1 DEF CallsInTurn
      <4> QED BY <4>1, <4>2
    <3> QED BY <1>1, <1>4, <2>1, <3>1, BufSets DEF CallsInTurn, Current, Before
  <2>3. \A m \in Msgs, k \in Slots : InRing(m, k)' => InRing(m, k)
    BY <1>1, <1>2, <1>4, <2>1, BufSets DEF InRing
  <2>4. \A m \in Msgs, u \in Receivers : HasItem(m, u)' => HasItem(m, u)
    BY <1>1, <1>4, <2>1, BufSets DEF HasItem
  <2> HIDE DEF InRing, HasItem, Sent
  <2>5. ASSUME NEW m \in Msgs
        PROVE  /\ \A j, k \in Slots : InRing(m, j)' /\ InRing(m, k)' => j = k
               /\ \A v, u \in Receivers : HasItem(m, v)' /\ HasItem(m, u)' => v = u
               /\ \A k \in Slots, v \in Receivers : ~(InRing(m, k)' /\ HasItem(m, v)')
               /\ \A k \in Slots : InRing(m, k)' => received'[m] = 0 /\ Sent(m)'
               /\ \A v \in Receivers : HasItem(m, v)' => received'[m] = 0 /\ Sent(m)'
               /\ received'[m] \in {0, 1} /\ (received'[m] = 1 => Sent(m)')
    BY <1>1, <1>3, <2>3, <2>4 DEF OnePlace
  <2> QED BY <2>2, <2>5 DEF OnePlace
<1>5. CASE t \in Receivers
  <2>1. /\ UNCHANGED data /\ item'[t] = data[k0]
        /\ \A u \in AllThreads : u # t => item'[u] = item[u]
    BY <1>5, BufSets DEF MoveData, BufTypes, TypeOK
  <2>2. CallsInTurn'
    BY <1>1, <1>5, <2>1, BufSets DEF CallsInTurn, Current, Before
  <2>3. InRing(data[k0], k0)
    BY <1>1, <1>2, <1>5, BufSets DEF InRing, InSlot
  <2>4. \A m, k : InRing(m, k)' => InRing(m, k) /\ k # k0
    BY <1>1, <1>5, <2>1, BufSets DEF InRing
  <2>5. \A m \in Msgs, u \in Receivers : HasItem(m, u)' => HasItem(m, u) \/ (u = t /\ m = data[k0])
    BY <1>1, <2>1, BufSets DEF HasItem
  <2> HIDE DEF InRing, HasItem, Sent
  <2>6. ASSUME NEW m \in Msgs
        PROVE  /\ \A j, k \in Slots : InRing(m, j)' /\ InRing(m, k)' => j = k
               /\ \A v, u \in Receivers : HasItem(m, v)' /\ HasItem(m, u)' => v = u
               /\ \A k \in Slots, v \in Receivers : ~(InRing(m, k)' /\ HasItem(m, v)')
               /\ \A k \in Slots : InRing(m, k)' => received'[m] = 0 /\ Sent(m)'
               /\ \A v \in Receivers : HasItem(m, v)' => received'[m] = 0 /\ Sent(m)'
               /\ received'[m] \in {0, 1} /\ (received'[m] = 1 => Sent(m)')
    <3>1. CASE m = data[k0]
      <4>1. InRing(m, k0) /\ k0 \in Slots
        BY <1>2, <2>3, <3>1
      <4>2. \A k \in Slots : ~InRing(m, k)'
        BY <2>4, <4>1 DEF OnePlace
      <4>3. \A u \in Receivers : HasItem(m, u)' => u = t
        BY <2>5, <4>1 DEF OnePlace
      <4> QED BY <1>1, <1>3, <4>1, <4>2, <4>3 DEF OnePlace
    <3>2. CASE m # data[k0]
      BY <1>1, <1>3, <2>4, <2>5, <3>2 DEF OnePlace
    <3> QED BY <3>1, <3>2
  <2> QED BY <2>2, <2>6 DEF OnePlace
<1> QED BY <1>4, <1>5, BufSets

LEMMA MessagePublished ==
  ASSUME BufAssumption, BufTypes, SlotsInTurn, SlotIsExclusive, CallsInTurn, OnePlace, NEW t \in AllThreads, Publish(t)
  PROVE  CallsInTurn' /\ OnePlace'
<1>0. PICK k0 \in Slots : k0 = at[t].pos
  BY DEF BufTypes, TypeOK, Slots
<1>1. /\ pc[t] = "publish" /\ pc'[t] = "give" /\ UNCHANGED <<data, received, left, at, item>>
      /\ \A u \in AllThreads : u # t => pc'[u] = pc[u]
  BY BufGoto DEF Publish
<1>2. /\ k0 \in Slots /\ lap[k0] \in Nat /\ (t \in Senders => lap[k0] % 2 = 0) /\ (t \in Receivers => lap[k0] % 2 = 1)
      /\ \A u \in AllThreads : u # t /\ InSlot(u) => at[u].pos # k0
  BY <1>0, <1>1, SlotParity DEF InSlot, SlotIsExclusive
<1>3. lap'[k0] = lap[k0] + 1 /\ \A k \in Slots : k # k0 => lap'[k] = lap[k]
  BY <1>0, <1>1, <1>2 DEF Publish, BufTypes, TypeOK, Slots
<1>4. \A m \in Msgs : Sent(m) => Sent(m)'
  BY <1>1, BufSets DEF Sent, After
<1>5. CallsInTurn'
  BY <1>1, BufSets DEF CallsInTurn, Current, Before
<1>6. \A m \in Msgs, u \in Receivers : HasItem(m, u)' => HasItem(m, u)
  BY <1>1, BufSets DEF HasItem
<1>7. \A m \in Msgs, k \in Slots : k # k0 /\ InRing(m, k)' => InRing(m, k)
  BY <1>0, <1>1, <1>3, BufSets DEF InRing
<1>8. CASE t \in Senders
  <2>0. PICK m0 : m0 = Current(t)
    OBVIOUS
  <2>1. left[t] \in 1 .. PerSender /\ PerSender \in Nat /\ data[k0] = m0
    BY <1>0, <1>1, <1>8, <2>0, BufSets DEF CallsInTurn, BufTypes, BufAssumption
  <2>2. m0 \in Msgs /\ m0[1] = t /\ m0[2] = PerSender - left[t] + 1
    BY <1>8, <2>0, <2>1 DEF Msgs, Current
  <2>3. ~Sent(m0) /\ Sent(m0)'
    BY <1>1, <2>1, <2>2 DEF Sent, After
  <2>4. \A m \in Msgs : InRing(m, k0)' => m = m0
    BY <1>1, <2>1 DEF InRing
  <2> HIDE DEF InRing, HasItem, Sent
  <2>5. ASSUME NEW m \in Msgs
        PROVE  /\ \A j, k \in Slots : InRing(m, j)' /\ InRing(m, k)' => j = k
               /\ \A v, u \in Receivers : HasItem(m, v)' /\ HasItem(m, u)' => v = u
               /\ \A k \in Slots, v \in Receivers : ~(InRing(m, k)' /\ HasItem(m, v)')
               /\ \A k \in Slots : InRing(m, k)' => received'[m] = 0 /\ Sent(m)'
               /\ \A v \in Receivers : HasItem(m, v)' => received'[m] = 0 /\ Sent(m)'
               /\ received'[m] \in {0, 1} /\ (received'[m] = 1 => Sent(m)')
    <3>1. CASE m = m0
      <4>1. received[m] = 0 /\ (\A k \in Slots : ~InRing(m, k)) /\ \A u \in Receivers : ~HasItem(m, u)
        BY <2>3, <3>1 DEF OnePlace
      <4> QED BY <1>1, <1>6, <1>7, <2>3, <3>1, <4>1
    <3>2. CASE m # m0
      <4>1. \A k \in Slots : InRing(m, k)' => InRing(m, k)
        BY <1>7, <2>4, <3>2
      <4> QED BY <1>1, <1>4, <1>6, <4>1 DEF OnePlace
    <3> QED BY <3>1, <3>2
  <2> QED BY <1>5, <2>5 DEF OnePlace
<1>9. CASE t \in Receivers
  <2>1. lap'[k0] % 2 = 0
    BY <1>2, <1>3, <1>9
  <2>2. \A m \in Msgs, k \in Slots : InRing(m, k)' => InRing(m, k)
    <3>1. \A m \in Msgs : ~InRing(m, k0)'
      BY <2>1 DEF InRing
    <3> QED BY <1>7, <3>1
  <2> HIDE DEF InRing, HasItem, Sent
  <2>3. ASSUME NEW m \in Msgs
        PROVE  /\ \A j, k \in Slots : InRing(m, j)' /\ InRing(m, k)' => j = k
               /\ \A v, u \in Receivers : HasItem(m, v)' /\ HasItem(m, u)' => v = u
               /\ \A k \in Slots, v \in Receivers : ~(InRing(m, k)' /\ HasItem(m, v)')
               /\ \A k \in Slots : InRing(m, k)' => received'[m] = 0 /\ Sent(m)'
               /\ \A v \in Receivers : HasItem(m, v)' => received'[m] = 0 /\ Sent(m)'
               /\ received'[m] \in {0, 1} /\ (received'[m] = 1 => Sent(m)')
    BY <1>1, <1>4, <1>6, <2>2 DEF OnePlace
  <2> QED BY <1>5, <2>3 DEF OnePlace
<1> QED BY <1>8, <1>9, BufSets

LEMMA CallReturns ==
  ASSUME BufAssumption, BufTypes, CallsInTurn, OnePlace, NEW t \in AllThreads, Return(t)
  PROVE  CallsInTurn' /\ OnePlace' /\ left' \in [AllThreads -> Nat] /\ received' \in [Msgs -> Nat]
<1>1. /\ pc[t] = "return" /\ pc'[t] = "idle" /\ UNCHANGED <<lap, data, at, item>>
      /\ \A u \in AllThreads : u # t => pc'[u] = pc[u]
  BY BufGoto DEF Return, ring
<1>2. /\ left'[t] = left[t] - 1 /\ left[t] \in Nat /\ left[t] > 0 /\ left' \in [AllThreads -> Nat]
      /\ \A u \in AllThreads : u # t => left'[u] = left[u]
  BY <1>1 DEF Return, BufTypes, CallsInTurn
<1>3. PerSender \in Nat /\ \A u \in AllThreads : left[u] \in Nat
  BY DEF BufAssumption, BufTypes
<1>4. CallsInTurn'
  <2>1. \A u \in Senders : left'[u] <= PerSender
    BY <1>2, <1>3, BufSets DEF CallsInTurn
  <2>2. \A u \in AllThreads : pc'[u] # "idle" => u # t /\ pc[u] = pc'[u] /\ left'[u] = left[u]
    BY <1>1, <1>2
  <2> QED BY <1>1, <2>1, <2>2, BufSets DEF CallsInTurn, Current, Before
<1>5. ASSUME NEW m \in Msgs, Sent(m) PROVE Sent(m)'
  <2>1. m[1] \in AllThreads /\ m[2] \in 1 .. PerSender
    BY BufSets
  <2>2. CASE m[1] = t
    BY <1>1, <1>2, <1>3, <1>5, <2>1, <2>2 DEF Sent
  <2>3. CASE m[1] # t
    BY <1>1, <1>2, <1>5, <2>1, <2>3 DEF Sent
  <2> QED BY <2>2, <2>3
<1>6. \A m \in Msgs, u \in Receivers : HasItem(m, u)' => HasItem(m, u) /\ u # t
  BY <1>1, BufSets DEF HasItem
<1>7. \A u \in Receivers : pc[u] = "publish" <=> pc'[u] = "publish"
  BY <1>1, BufSets
<1>8. \A m \in Msgs, k \in Slots : InRing(m, k)' => InRing(m, k)
  BY <1>1, <1>7 DEF InRing
<1>9. received' \in [Msgs -> Nat] /\ \A m \in Msgs : received'[m] = IF t \in Receivers /\ m = item[t] THEN received[m] + 1 ELSE received[m]
  <2>1. received \in [Msgs -> Nat] /\ received' = IF t \in Receivers THEN [received EXCEPT ![item[t]] = @ + 1] ELSE received
    BY DEF Return, BufTypes
  <2>2. CASE t \in Receivers /\ item[t] \in Msgs
    <3>1. received[item[t]] + 1 \in Nat /\ received' = [received EXCEPT ![item[t]] = received[item[t]] + 1]
      BY <2>1, <2>2
    <3>2. received' \in [Msgs -> Nat]
      BY <2>1, <3>1
    <3>3. \A m \in Msgs : received'[m] = IF m = item[t] THEN received[m] + 1 ELSE received[m]
      BY <2>1, <3>1
    <3> QED BY <2>2, <3>2, <3>3
  <2>3. CASE ~(t \in Receivers /\ item[t] \in Msgs)
    <3>1. \A m \in Msgs : ~(t \in Receivers /\ m = item[t])
      BY <2>3
    <3>2. received' \in [Msgs -> Nat] /\ \A m \in Msgs : received'[m] = received[m]
      BY <2>1, <2>3
    <3> QED BY <3>1, <3>2
  <2> QED BY <2>2, <2>3
<1>10. \A m \in Msgs : t \in Receivers /\ m = item[t] => HasItem(m, t)
  BY <1>1 DEF HasItem
<1> HIDE DEF InRing, HasItem, Sent
<1>11. ASSUME NEW m \in Msgs
       PROVE  /\ \A j, k \in Slots : InRing(m, j)' /\ InRing(m, k)' => j = k
              /\ \A v, u \in Receivers : HasItem(m, v)' /\ HasItem(m, u)' => v = u
              /\ \A k \in Slots, v \in Receivers : ~(InRing(m, k)' /\ HasItem(m, v)')
              /\ \A k \in Slots : InRing(m, k)' => received'[m] = 0 /\ Sent(m)'
              /\ \A v \in Receivers : HasItem(m, v)' => received'[m] = 0 /\ Sent(m)'
              /\ received'[m] \in {0, 1} /\ (received'[m] = 1 => Sent(m)')
  <2>1. CASE t \in Receivers /\ m = item[t]
    <3>1. /\ received[m] = 0 /\ Sent(m) /\ (\A k \in Slots : ~InRing(m, k))
          /\ \A u \in Receivers : HasItem(m, u) => u = t
      BY <1>10, <2>1 DEF OnePlace
    <3>2. received'[m] = 1
      BY <1>9, <2>1, <3>1
    <3> QED BY <1>5, <1>6, <1>8, <3>1, <3>2
  <2>2. CASE ~(t \in Receivers /\ m = item[t])
    <3>1. received'[m] = received[m]
      BY <1>9, <2>2
    <3> QED BY <1>5, <1>6, <1>8, <3>1 DEF OnePlace
  <2> QED BY <2>1, <2>2
<1> QED BY <1>2, <1>4, <1>9, <1>11 DEF OnePlace

-----------------------------------------------------------------------------
LEMMA CountLess ==
  ASSUME NEW A, NEW B, IsFiniteSet(B), A \subseteq B
  PROVE  IsFiniteSet(A) /\ Cardinality(A) \in Nat /\ Cardinality(B) \in Nat /\ Cardinality(A) <= Cardinality(B)
BY FS_Subset, FS_CardinalityType

\* B is A without x.
LEMMA CountWithout ==
  ASSUME NEW A, NEW B, NEW x, IsFiniteSet(A), \A y : y \in B <=> y \in A /\ y # x
  PROVE  IsFiniteSet(B) /\ Cardinality(B) = (IF x \in A THEN Cardinality(A) - 1 ELSE Cardinality(A)) /\ Cardinality(A) \in Nat
<1>1. B = A \ {x}
  OBVIOUS
<1> QED BY <1>1, FS_RemoveElement, FS_CardinalityType

\* B is A with x.
LEMMA CountWith ==
  ASSUME NEW A, NEW B, NEW x, IsFiniteSet(A), \A y : y \in B <=> y \in A \/ y = x
  PROVE  IsFiniteSet(B) /\ Cardinality(B) = (IF x \in A THEN Cardinality(A) ELSE Cardinality(A) + 1) /\ Cardinality(A) \in Nat
<1>1. B = A \cup {x}
  OBVIOUS
<1> QED BY <1>1, FS_AddElement, FS_CardinalityType

LEMMA BufFinite ==
  ASSUME BufAssumption, NEW s
  PROVE  IsFiniteSet(Waiting(s)) /\ IsFiniteSet(Covers(s)) /\ Cardinality(Waiting(s)) \in Nat /\ Cardinality(Covers(s)) \in Nat
<1>1. Waiting(s) \subseteq AllThreads /\ Covers(s) \subseteq AllThreads /\ IsFiniteSet(AllThreads)
  BY BufSets DEF Waiting, Covers
<1> QED BY <1>1, FS_Subset, FS_CardinalityType

\* Steps that are about the slots: a thread may come to look for a credit.
LEMMA CreditsKept ==
  ASSUME BufAssumption, BufTypes, CreditsCovered, UNCHANGED <<ftx, waiters, asleep>>,
         NEW t \in AllThreads, t \notin asleep, \A u \in AllThreads : u # t => pc'[u] = pc[u],
         pc[t] \notin {"wait", "subwaiter", "credit", "anyone", "wake"},
         pc'[t] \notin {"wait", "subwaiter", "anyone", "wake"}
  PROVE  CreditsCovered'
<1>0. asleep \subseteq AllThreads /\ \A s \in Sides : ftx[s] \in Nat
  BY DEF BufTypes, TypeOK
<1>1. \A s \in Sides : Waiting(s)' = Waiting(s)
  BY DEF Waiting
<1>2. \A u \in asleep : pc'[u] = "subwaiter"
  BY <1>0 DEF CreditsCovered
<1>3. ASSUME NEW s \in Sides, \E u \in asleep : Side(u) = s PROVE ftx[s] <= Cardinality(Covers(s)')
  <2>1. Covers(s) \subseteq Covers(s)' /\ Covers(s)' \subseteq AllThreads
    BY DEF Covers
  <2>2. IsFiniteSet(Covers(s)')
    BY <2>1, BufSets, FS_Subset
  <2>3. Cardinality(Covers(s)) <= Cardinality(Covers(s)') /\ Cardinality(Covers(s)) \in Nat /\ Cardinality(Covers(s)') \in Nat
    BY <2>1, <2>2, CountLess
  <2> QED BY <1>0, <1>3, <2>3 DEF CreditsCovered
<1> QED BY <1>1, <1>2, <1>3 DEF CreditsCovered

LEMMA CreditTaken ==
  ASSUME BufAssumption, BufTypes, CreditsCovered, NEW t \in AllThreads, TakeCredit(t) \/ NoCredit(t)
  PROVE  CreditsCovered' /\ ftx' \in [Sides -> Nat]
<1> DEFINE s0 == Side(t)
<1>0. /\ s0 \in Sides /\ asleep \subseteq AllThreads /\ ftx \in [Sides -> Nat]
  BY BufSets DEF BufTypes, TypeOK
<1>1. /\ pc[t] = "credit" /\ t \notin asleep /\ pc'[t] \in {"try", "addwaiter"} /\ UNCHANGED <<waiters, asleep>>
      /\ \A u \in AllThreads : u # t => pc'[u] = pc[u]
  <2>1. CASE TakeCredit(t)
    BY <2>1, BufGoto DEF TakeCredit
  <2>2. CASE NoCredit(t)
    BY <2>2, BufGoto DEF NoCredit
  <2> QED BY <2>1, <2>2
<1>2. /\ ftx'[s0] = ftx[s0] - 1 \/ ftx'[s0] = 0
      /\ \A s \in Sides : s # s0 => ftx'[s] = ftx[s]
  BY <1>0 DEF TakeCredit, NoCredit
<1>2b. ftx' \in [Sides -> Nat]
  BY <1>0 DEF TakeCredit, NoCredit
<1>3. \A s \in Sides : Waiting(s)' = Waiting(s)
  BY <1>1 DEF Waiting
<1>4. \A u \in asleep : pc'[u] = "subwaiter"
  BY <1>0, <1>1 DEF CreditsCovered
<1>5. \A s \in Sides : \A y : y \in Covers(s)' <=> y \in Covers(s) /\ (s = s0 => y # t)
  BY <1>1 DEF Covers
<1>6. ASSUME NEW s \in Sides, \E u \in asleep : Side(u) = s PROVE ftx'[s] <= Cardinality(Covers(s)')
  <2>0. ftx[s] <= Cardinality(Covers(s)) /\ ftx[s] \in Nat /\ ftx'[s] \in Nat
    BY <1>0, <1>2b, <1>6 DEF CreditsCovered
  <2>1. CASE s = s0
    <3>1. \A y : y \in Covers(s)' <=> y \in Covers(s) /\ y # t
      BY <1>5, <2>1
    <3>2. t \in Covers(s)
      BY <1>1, <2>1 DEF Covers
    <3>3. /\ Cardinality(Covers(s)') = Cardinality(Covers(s)) - 1 /\ Cardinality(Covers(s)) \in Nat
          /\ IsFiniteSet(Covers(s)')
      BY <3>1, <3>2, BufFinite, CountWithout
    <3>4. Cardinality(Covers(s)') \in Nat
      BY <3>3, FS_CardinalityType
    <3> QED BY <1>2, <2>0, <2>1, <3>3, <3>4
  <2>2. CASE s # s0
    <3>1. Covers(s)' = Covers(s)
      BY <1>5, <2>2
    <3> QED BY <1>2, <2>0, <2>2, <3>1
  <2> QED BY <2>1, <2>2
<1> QED BY <1>1, <1>2b, <1>3, <1>4, <1>6 DEF CreditsCovered

LEMMA WaiterCounted ==
  ASSUME BufAssumption, BufTypes, CreditsCovered, NEW t \in AllThreads, AddWaiter(t) \/ SubWaiter(t)
  PROVE  CreditsCovered' /\ waiters' \in [Sides -> Nat]
<1> DEFINE s0 == Side(t)
<1>0. /\ s0 \in Sides /\ asleep \subseteq AllThreads /\ waiters \in [Sides -> Nat]
  BY BufSets DEF BufTypes, TypeOK
<1>1. /\ t \notin asleep /\ UNCHANGED <<ftx, asleep>>
      /\ \A u \in AllThreads : u # t => pc'[u] = pc[u]
      /\ \/ pc[t] = "addwaiter" /\ pc'[t] = "wait" /\ waiters' = [waiters EXCEPT ![s0] = @ + 1]
         \/ pc[t] = "subwaiter" /\ pc'[t] = "credit" /\ waiters' = [waiters EXCEPT ![s0] = @ - 1]
  <2>1. CASE AddWaiter(t)
    BY <2>1, BufGoto DEF AddWaiter
  <2>2. CASE SubWaiter(t)
    BY <2>2, BufGoto DEF SubWaiter
  <2> QED BY <2>1, <2>2
<1>2. \A s \in Sides : Covers(s)' = Covers(s)
  BY <1>1 DEF Covers
<1>3. \A u \in asleep : pc'[u] = "subwaiter"
  BY <1>0, <1>1 DEF CreditsCovered
<1>4. ASSUME NEW s \in Sides PROVE waiters'[s] = Cardinality(Waiting(s)') /\ waiters'[s] \in Nat
  <2>0. waiters[s] = Cardinality(Waiting(s)) /\ Cardinality(Waiting(s)) \in Nat /\ IsFiniteSet(Waiting(s))
    BY BufFinite DEF CreditsCovered
  <2>1. CASE s # s0
    <3>1. Waiting(s)' = Waiting(s) /\ waiters'[s] = waiters[s]
      BY <1>0, <1>1, <2>1 DEF Waiting
    <3> QED BY <2>0, <3>1
  <2>2. CASE s = s0 /\ pc[t] = "addwaiter"
    <3>1. \A y : y \in Waiting(s)' <=> y \in Waiting(s) \/ y = t
      BY <1>1, <2>2 DEF Waiting
    <3>2. t \notin Waiting(s) /\ waiters'[s] = waiters[s] + 1
      BY <1>0, <1>1, <2>2 DEF Waiting
    <3> QED BY <2>0, <3>1, <3>2, CountWith
  <2>3. CASE s = s0 /\ pc[t] = "subwaiter"
    <3>1. \A y : y \in Waiting(s)' <=> y \in Waiting(s) /\ y # t
      BY <1>1, <2>3 DEF Waiting
    <3>2. t \in Waiting(s) /\ waiters'[s] = waiters[s] - 1
      BY <1>0, <1>1, <2>3 DEF Waiting
    <3>3. IsFiniteSet(Waiting(s)') /\ Cardinality(Waiting(s)') = Cardinality(Waiting(s)) - 1
      BY <2>0, <3>1, <3>2, CountWithout
    <3>4. Cardinality(Waiting(s)') \in Nat
      BY <3>3, FS_CardinalityType
    <3> QED BY <2>0, <3>2, <3>3, <3>4
  <2> QED BY <1>1, <2>1, <2>2, <2>3
<1>5. waiters' \in [Sides -> Nat]
  BY <1>0, <1>1, <1>4
<1> QED BY <1>1, <1>2, <1>3, <1>4, <1>5 DEF CreditsCovered

LEMMA WaiterSleeps ==
  ASSUME BufAssumption, BufTypes, CreditsCovered, NEW t \in AllThreads, Wait(t)
  PROVE  CreditsCovered' /\ asleep' \subseteq AllThreads
<1> DEFINE s0 == Side(t)
<1>0. /\ s0 \in Sides /\ asleep \subseteq AllThreads /\ ftx \in [Sides -> Nat]
  BY BufSets DEF BufTypes, TypeOK
<1>1. /\ t \notin asleep /\ UNCHANGED <<ftx, waiters>> /\ pc[t] = "wait" /\ pc'[t] = "subwaiter"
      /\ \A u \in AllThreads : u # t => pc'[u] = pc[u]
      /\ asleep' = IF ftx[s0] = 0 THEN asleep \cup {t} ELSE asleep
  BY BufGoto DEF Wait
<1>2. \A s \in Sides : Waiting(s)' = Waiting(s)
  BY <1>1 DEF Waiting
<1>3. asleep' \subseteq AllThreads /\ \A u \in asleep' : pc'[u] = "subwaiter"
  BY <1>0, <1>1 DEF CreditsCovered
<1>4. \A s \in Sides : Covers(s) \subseteq Covers(s)' /\ Covers(s)' \subseteq AllThreads
  BY <1>1 DEF Covers
<1>5. ASSUME NEW s \in Sides, \E u \in asleep' : Side(u) = s PROVE ftx[s] <= Cardinality(Covers(s)')
  <2>1. IsFiniteSet(Covers(s)')
    BY <1>4, BufSets, FS_Subset
  <2>2. Cardinality(Covers(s)) <= Cardinality(Covers(s)') /\ Cardinality(Covers(s)) \in Nat /\ Cardinality(Covers(s)') \in Nat
    BY <1>4, <2>1, CountLess
  <2>3. CASE ftx[s] = 0
    BY <2>2, <2>3
  <2>4. CASE ftx[s] # 0
    <3>1. \E u \in asleep : Side(u) = s
      BY <1>1, <1>5, <2>4
    <3> QED BY <1>0, <2>2, <3>1 DEF CreditsCovered
  <2> QED BY <2>3, <2>4
<1> QED BY <1>1, <1>2, <1>3, <1>5 DEF CreditsCovered

LEMMA CreditGiven ==
  ASSUME BufAssumption, BufTypes, CreditsCovered, NEW t \in AllThreads, GiveCredit(t)
  PROVE  CreditsCovered' /\ ftx' \in [Sides -> Nat]
<1> DEFINE s1 == Other(t)
<1>0. /\ s1 \in Sides /\ asleep \subseteq AllThreads /\ ftx \in [Sides -> Nat] /\ Side(t) # s1
  BY BufSets DEF BufTypes, TypeOK
<1>1. /\ t \notin asleep /\ UNCHANGED <<asleep, waiters>> /\ pc[t] = "give" /\ pc'[t] = "anyone"
      /\ \A u \in AllThreads : u # t => pc'[u] = pc[u]
      /\ ftx' = [ftx EXCEPT ![s1] = @ + 1]
  BY BufGoto DEF GiveCredit
<1>2. \A s \in Sides : Waiting(s)' = Waiting(s)
  BY <1>1 DEF Waiting
<1>3. \A u \in asleep : pc'[u] = "subwaiter"
  BY <1>0, <1>1 DEF CreditsCovered
<1>4. \A s \in Sides : \A y : y \in Covers(s)' <=> y \in Covers(s) \/ (y = t /\ s = s1)
  BY <1>1, BufSets DEF Covers
<1>5. ASSUME NEW s \in Sides, \E u \in asleep : Side(u) = s PROVE ftx'[s] <= Cardinality(Covers(s)')
  <2>0. ftx[s] <= Cardinality(Covers(s)) /\ ftx[s] \in Nat
    BY <1>0, <1>5 DEF CreditsCovered
  <2>1. CASE s = s1
    <3>1. \A y : y \in Covers(s)' <=> y \in Covers(s) \/ y = t
      BY <1>4, <2>1
    <3>2. t \notin Covers(s) /\ ftx'[s] = ftx[s] + 1
      BY <1>0, <1>1, <2>1 DEF Covers
    <3>3. Cardinality(Covers(s)') = Cardinality(Covers(s)) + 1 /\ Cardinality(Covers(s)) \in Nat
      BY <3>1, <3>2, BufFinite, CountWith
    <3> QED BY <2>0, <3>2, <3>3
  <2>2. CASE s # s1
    <3>1. Covers(s)' = Covers(s) /\ ftx'[s] = ftx[s]
      BY <1>0, <1>1, <1>4, <2>2
    <3> QED BY <2>0, <3>1
  <2> QED BY <2>1, <2>2
<1>6. ftx' \in [Sides -> Nat]
  BY <1>0, <1>1
<1> QED BY <1>1, <1>2, <1>3, <1>5, <1>6 DEF CreditsCovered

LEMMA WaitersSought ==
  ASSUME BufAssumption, BufTypes, CreditsCovered, NEW t \in AllThreads, AnyWaiters(t) \/ Wake(t)
  PROVE  CreditsCovered' /\ asleep' \subseteq AllThreads
<1> DEFINE s1 == Other(t)
<1>0. /\ s1 \in Sides /\ asleep \subseteq AllThreads /\ ftx \in [Sides -> Nat] /\ Side(t) # s1
      /\ \A s \in Sides : s # s1 => Side(t) = s
  BY BufSets DEF BufTypes, TypeOK
<1>1. /\ t \notin asleep /\ UNCHANGED <<ftx, waiters>> /\ pc[t] \in {"anyone", "wake"} /\ pc'[t] \in {"wake", "return"}
      /\ \A u \in AllThreads : u # t => pc'[u] = pc[u]
      /\ asleep' \subseteq asleep
  <2>1. CASE AnyWaiters(t)
    BY <2>1, BufGoto DEF AnyWaiters
  <2>2. CASE Wake(t)
    BY <2>2, BufGoto DEF Wake
  <2> QED BY <2>1, <2>2
<1>2. \A s \in Sides : Waiting(s)' = Waiting(s)
  BY <1>1 DEF Waiting
<1>3. asleep' \subseteq AllThreads /\ \A u \in asleep' : pc'[u] = "subwaiter"
  BY <1>0, <1>1 DEF CreditsCovered
<1>4. ASSUME NEW s \in Sides, \E u \in asleep' : Side(u) = s PROVE ftx[s] <= Cardinality(Covers(s)')
  <2>0. ftx[s] <= Cardinality(Covers(s)) /\ ftx[s] \in Nat
    BY <1>0, <1>1, <1>4 DEF CreditsCovered
  <2>1. IsFiniteSet(Covers(s)')
    <3>1. Covers(s)' \subseteq AllThreads
      BY DEF Covers
    <3> QED BY <3>1, BufSets, FS_Subset
  <2>2. CASE Covers(s) \subseteq Covers(s)'
    <3>1. Cardinality(Covers(s)) <= Cardinality(Covers(s)') /\ Cardinality(Covers(s)) \in Nat /\ Cardinality(Covers(s)') \in Nat
      BY <2>1, <2>2, CountLess
    <3> QED BY <2>0, <3>1
  <2>3. CASE s # s1
    <3>1. Covers(s) \subseteq Covers(s)'
      BY <1>0, <1>1, <2>3 DEF Covers
    <3> QED BY <2>2, <3>1
  <2>4. CASE s = s1 /\ AnyWaiters(t)
    <3>1. PICK u \in asleep : Side(u) = s
      BY <1>1, <1>4
    <3>2. u \in Waiting(s)
      BY <1>0, <3>1 DEF Waiting, CreditsCovered
    <3>3. Cardinality(Waiting(s)) # 0
      BY <3>2, BufFinite, FS_EmptySet
    <3>4. waiters[s] > 0
      BY <3>3, BufFinite DEF CreditsCovered
    <3>5. pc'[t] = "wake" /\ UNCHANGED asleep
      BY <2>4, <3>4, BufGoto DEF AnyWaiters
    <3>6. Covers(s) \subseteq Covers(s)'
      BY <1>1, <3>5 DEF Covers
    <3> QED BY <2>2, <3>6
  <2>5. CASE s = s1 /\ Wake(t)
    <3>1. pc[t] = "wake" /\ pc'[t] = "return"
      BY <2>5, BufGoto DEF Wake
    <3>2. PICK u \in asleep : Side(u) = s1 /\ asleep' = asleep \ {u}
      <4>1. \E u \in asleep : Side(u) = s1
        BY <1>1, <1>4, <2>5
      <4> QED BY <2>5, <4>1 DEF Wake
    <3>3. u \in AllThreads /\ pc[u] = "subwaiter" /\ pc'[u] = "subwaiter" /\ u # t
      BY <1>0, <1>1, <3>2 DEF CreditsCovered
    <3> DEFINE X == Covers(s) \ {t}
    <3>4. \A y : y \in X <=> y \in Covers(s) /\ y # t
      OBVIOUS
    <3>5. \A y : y \in Covers(s)' <=> y \in X \/ y = u
      BY <1>0, <1>1, <2>5, <3>1, <3>2, <3>3 DEF Covers
    <3>6. t \in Covers(s) /\ u \notin X
      BY <1>0, <2>5, <3>1, <3>2 DEF Covers
    <3> HIDE DEF X
    <3>7. IsFiniteSet(X) /\ Cardinality(X) = Cardinality(Covers(s)) - 1 /\ Cardinality(Covers(s)) \in Nat
      BY <3>4, <3>6, BufFinite, CountWithout
    <3>8. Cardinality(Covers(s)') = Cardinality(X) + 1
      BY <3>5, <3>6, <3>7, CountWith
    <3> QED BY <2>0, <3>7, <3>8
  <2> QED BY <2>3, <2>4, <2>5
<1> QED BY <1>1, <1>2, <1>3, <1>4 DEF CreditsCovered

-----------------------------------------------------------------------------
LEMMA BufInit == ASSUME BufAssumption, Init PROVE BufInv
<1> USE DEF Init
<1>0. /\ PerSender \in Nat /\ PerReceiver \in Nat /\ Cap \in Nat /\ Cap > 0
      /\ \A t \in AllThreads : pc[t] = "idle"
  BY BufSets DEF BufAssumption
<1>1. BufTypes
  <2>1. index \in [Sides -> [pos : Slots, lap : Nat]] /\ \A t \in AllThreads : Side(t) \in Sides
    BY BufSets DEF Sides
  <2>2. TypeOK
    BY <1>0, <2>1 DEF TypeOK, Slots
  <2>3. left \in [AllThreads -> Nat] /\ received \in [Msgs -> Nat]
    BY <1>0
  <2> QED BY <1>0, <2>2, <2>3 DEF BufTypes
<1>2. SlotsInTurn
  <2>1. index["send"] = [pos |-> 0, lap |-> 0] /\ index["recv"] = [pos |-> 0, lap |-> 1]
    BY DEF Sides
  <2>2. \A k \in Slots : Due(index["send"], k) = 0 /\ Due(index["recv"], k) = 1 /\ lap[k] = 0
    BY <2>1 DEF Due, Slots
  <2>3. \A t \in AllThreads : ~InSlot(t)
    BY <1>0 DEF InSlot
  <2>4. index["send"].lap = 0 /\ 0 % 2 = 0
    BY <2>1
  <2> HIDE DEF Init
  <2>5. \A k \in Slots : \/ Due(index["recv"], k) = Due(index["send"], k) + 1 /\ lap[k] \in {Due(index["send"], k), Due(index["send"], k) - 1}
                         \/ Due(index["recv"], k) = Due(index["send"], k) - 1 /\ lap[k] \in {Due(index["send"], k) - 1, Due(index["send"], k) - 2}
    BY <2>2
  <2> QED BY <1>0, <2>3, <2>4, <2>5, BufSets DEF SlotsInTurn
<1>3. SlotIsExclusive
  BY <1>0 DEF SlotIsExclusive, InSlot
<1>4. CallsInTurn
  BY <1>0, BufSets DEF CallsInTurn, Before
<1>5. OnePlace
  <2>1. \A k \in Slots : lap[k] % 2 # 1
    BY DEF Slots
  <2>2. (\A m \in Msgs, k \in Slots : ~InRing(m, k)) /\ \A m \in Msgs, t \in Receivers : ~HasItem(m, t)
    BY <1>0, <2>1, BufSets DEF InRing, HasItem
  <2>3. \A m \in Msgs : received[m] = 0
    OBVIOUS
  <2> QED BY <2>2, <2>3 DEF OnePlace
<1>6. CreditsCovered
  <2>1. \A s \in Sides : Waiting(s) = {} /\ waiters[s] = 0
    BY <1>0 DEF Waiting
  <2> QED BY <2>1, FS_EmptySet DEF CreditsCovered
<1> QED BY <1>1, <1>2, <1>3, <1>4, <1>5, <1>6 DEF BufInv

\* The steps of a call of chan_send_buf or chan_recv_buf.
LEMMA BufThread == ASSUME BufAssumption, BufInv, NEW t \in AllThreads, Step(t) PROVE BufInv'
<1>0. BufTypes /\ SlotsInTurn /\ SlotIsExclusive /\ CallsInTurn /\ OnePlace /\ CreditsCovered
  BY DEF BufInv
<1>0b. Side(t) \in Sides /\ (t \in Senders \/ t \in Receivers)
  BY BufSets
<1>1. CASE Call(t)
  <2>1. /\ pc[t] = "idle" /\ pc'[t] = "try" /\ t \notin asleep /\ UNCHANGED <<index, lap, at, ftx, waiters, asleep, data, left, received>>
        /\ \A u \in AllThreads : u # t => pc'[u] = pc[u]
    BY <1>0, <1>1, BufGoto DEF Call, ring
  <2>2. SlotsInTurn' /\ SlotIsExclusive'
    <3>1. \A u \in AllThreads : InSlot(u)' => InSlot(u) /\ at'[u] = at[u]
      BY <2>1 DEF InSlot
    <3>2. \A u \in AllThreads : pc'[u] = "claim" => at'[u].lap <= lap[at'[u].pos]
      BY <1>0, <2>1 DEF SlotsInTurn
    <3> QED BY <1>0, <2>1, <3>1, <3>2, SlotsKept
  <2>3. CreditsCovered'
    BY <1>0, <2>1, CreditsKept
  <2>4. BufTypes'
    <3>1. item' \in [AllThreads -> Msgs \cup {Null}]
      <4>1. CASE t \in Senders
        <5>1. left[t] \in 1 .. PerSender /\ PerSender \in Nat
          BY <1>0, <1>1, <4>1 DEF Call, CallsInTurn, BufTypes, BufAssumption
        <5>2. <<t, PerSender - left[t] + 1>> \in Msgs
          BY <4>1, <5>1 DEF Msgs
        <5> QED BY <1>0, <1>1, <5>2 DEF Call, BufTypes, TypeOK
      <4>2. CASE t \notin Senders
        BY <1>0, <1>1, <4>2 DEF Call, BufTypes, TypeOK
      <4> QED BY <4>1, <4>2
    <3> QED BY <1>0, <1>1, <2>1, <3>1, BufGoto DEF BufTypes, TypeOK, Call, Before
  <2> QED BY <1>0, <1>1, <2>2, <2>3, <2>4, CallBegins DEF BufInv
<1>2. CASE CheckClosed(t)
  <2>1. /\ pc[t] = "try" /\ pc'[t] \in {"idle", "load"} /\ t \notin asleep
        /\ UNCHANGED <<index, lap, at, ftx, waiters, asleep, data, received, item>>
        /\ \A u \in AllThreads : u # t => pc'[u] = pc[u]
    BY <1>0, <1>2, BufGoto DEF CheckClosed, ring
  <2>2. SlotsInTurn' /\ SlotIsExclusive'
    <3>1. \A u \in AllThreads : InSlot(u)' => InSlot(u) /\ at'[u] = at[u]
      BY <2>1 DEF InSlot
    <3>2. \A u \in AllThreads : pc'[u] = "claim" => at'[u].lap <= lap[at'[u].pos]
      BY <1>0, <2>1 DEF SlotsInTurn
    <3> QED BY <1>0, <2>1, <3>1, <3>2, SlotsKept
  <2>3. CreditsCovered'
    BY <1>0, <2>1, CreditsKept
  <2>4. BufTypes'
    <3>1. left' \in [AllThreads -> Nat]
      BY <1>0, <1>2 DEF CheckClosed, BufTypes
    <3> QED BY <1>0, <1>2, <2>1, <3>1, BufGoto DEF BufTypes, TypeOK, CheckClosed, Before
  <2> QED BY <1>0, <1>2, <2>2, <2>3, <2>4, CallEnds DEF BufInv
<1>3. CASE LoadIndex(t) \/ LoadLap(t) \/ ClaimFails(t)
  <2>1. /\ \/ pc[t] = "load" /\ pc'[t] = "lap" /\ at' = [at EXCEPT ![t] = index[Side(t)]]
           \/ pc[t] = "lap" /\ pc'[t] = "claim" /\ lap[at[t].pos] = at[t].lap /\ UNCHANGED at
           \/ pc[t] = "lap" /\ pc'[t] = "credit" /\ UNCHANGED at
           \/ pc[t] = "claim" /\ pc'[t] = "load" /\ UNCHANGED at
        /\ t \notin asleep /\ UNCHANGED <<index, lap, ftx, waiters, asleep, data, received, item, left>>
        /\ \A u \in AllThreads : u # t => pc'[u] = pc[u]
    <3>1. CASE LoadIndex(t)
      BY <1>0, <3>1, BufGoto DEF LoadIndex, ring
    <3>2. CASE LoadLap(t)
      BY <1>0, <3>2, BufGoto DEF LoadLap, ring
    <3>3. CASE ClaimFails(t)
      BY <1>0, <3>3, BufGoto DEF ClaimFails, ring
    <3> QED BY <1>3, <3>1, <3>2, <3>3
  <2>2. \A u \in AllThreads : u # t => at'[u] = at[u]
    BY <1>0, <2>1 DEF BufTypes, TypeOK
  <2>3. SlotsInTurn' /\ SlotIsExclusive'
    <3>1. \A u \in AllThreads : InSlot(u)' => InSlot(u) /\ at'[u] = at[u]
      BY <2>1, <2>2 DEF InSlot
    <3>2. \A u \in AllThreads : pc'[u] = "claim" => at'[u].lap <= lap[at'[u].pos]
      <4>1. ASSUME pc'[t] = "claim" PROVE at'[t].lap <= lap[at'[t].pos]
        <5>1. lap[at[t].pos] = at[t].lap /\ at' = at /\ at[t].lap \in Nat
          BY <1>0, <2>1, <4>1 DEF BufTypes, TypeOK
        <5> QED BY <5>1
      <4> QED BY <1>0, <2>1, <2>2, <4>1 DEF SlotsInTurn
    <3> QED BY <1>0, <2>1, <3>1, <3>2, SlotsKept
  <2>4. CreditsCovered'
    <3>1. pc[t] \notin {"wait", "subwaiter", "credit", "anyone", "wake"} /\ pc'[t] \notin {"wait", "subwaiter", "anyone", "wake"}
      BY <2>1
    <3> QED BY <1>0, <2>1, <3>1, CreditsKept
  <2>5. CallsInTurn' /\ OnePlace'
    <3>1. pc[t] \in Before /\ pc'[t] \in Before
      BY <2>1 DEF Before
    <3> QED BY <1>0, <2>1, <2>2, <3>1, MessagesKept
  <2>6. BufTypes'
    <3>1. at' \in [AllThreads -> [pos : 0 .. Cap - 1, lap : Nat]]
      BY <1>0, <1>0b, <2>1 DEF BufTypes, TypeOK
    <3>2. /\ pc' \in [AllThreads \cup Closers -> {"idle", "move", "publish", "wake_recv", "wake_send", "done"} \cup Before \cup After]
          /\ \A u \in AllThreads : pc'[u] \in {"idle", "move", "publish"} \cup Before \cup After
      <4>1. CASE LoadIndex(t)
        BY <1>0, <4>1, BufGoto DEF LoadIndex, Before
      <4>2. CASE LoadLap(t)
        BY <1>0, <4>2, BufGoto DEF LoadLap, Before
      <4>3. CASE ClaimFails(t)
        BY <1>0, <4>3, BufGoto DEF ClaimFails, Before
      <4> QED BY <1>3, <4>1, <4>2, <4>3
    <3> QED BY <1>0, <2>1, <3>1, <3>2 DEF BufTypes, TypeOK
  <2> QED BY <2>3, <2>4, <2>5, <2>6 DEF BufInv
<1>4. CASE Claim(t)
  <2>1. /\ pc[t] = "claim" /\ pc'[t] = "move" /\ t \notin asleep /\ UNCHANGED <<lap, at, ftx, waiters, asleep, data, received, item, left>>
        /\ \A u \in AllThreads : u # t => pc'[u] = pc[u]
    BY <1>0, <1>4, BufGoto DEF Claim
  <2>2. CallsInTurn' /\ OnePlace'
    <3>1. pc[t] \in Before /\ pc[t] \notin After
      BY <2>1 DEF Before, After
    <3> QED BY <1>0, <2>1, <3>1, MessagesKept
  <2>3. BufTypes'
    <3>1. index[Side(t)] = at[t] /\ index' = [index EXCEPT ![Side(t)] = Advance(index[Side(t)])]
      BY <1>4 DEF Claim
    <3>2. index'[Side(t)] \in [pos : Slots, lap : Nat]
      BY <1>0, <1>0b, <3>1, AdvanceDue
    <3>3. index' \in [Sides -> [pos : 0 .. Cap - 1, lap : Nat]]
      BY <1>0, <1>0b, <3>1, <3>2 DEF BufTypes, TypeOK, Slots
    <3> QED BY <1>0, <1>4, <2>1, <3>3, BufGoto DEF BufTypes, TypeOK, Claim
  <2> QED BY <1>0, <1>4, <2>1, <2>2, <2>3, SlotClaimed, CreditsKept DEF BufInv
<1>5. CASE MoveData(t)
  <2>1. /\ pc[t] = "move" /\ pc'[t] = "publish" /\ t \notin asleep /\ UNCHANGED <<index, lap, at, ftx, waiters, asleep, received, left>>
        /\ \A u \in AllThreads : u # t => pc'[u] = pc[u]
    BY <1>0, <1>5, BufGoto DEF MoveData
  <2>2. SlotsInTurn' /\ SlotIsExclusive'
    <3>1. \A u \in AllThreads : InSlot(u)' => InSlot(u) /\ at'[u] = at[u]
      BY <2>1 DEF InSlot
    <3>2. \A u \in AllThreads : pc'[u] = "claim" => at'[u].lap <= lap[at'[u].pos]
      BY <1>0, <2>1 DEF SlotsInTurn
    <3> QED BY <1>0, <2>1, <3>1, <3>2, SlotsKept
  <2>3. BufTypes'
    <3>1. data' \in [0 .. Cap - 1 -> Msgs \cup {Null}] /\ item' \in [AllThreads -> Msgs \cup {Null}]
      <4>1. at[t].pos \in 0 .. Cap - 1 /\ item[t] \in Msgs \cup {Null} /\ data[at[t].pos] \in Msgs \cup {Null}
        BY <1>0 DEF BufTypes, TypeOK
      <4> QED BY <1>0, <1>5, <4>1 DEF MoveData, BufTypes, TypeOK
    <3> QED BY <1>0, <1>5, <2>1, <3>1, BufGoto DEF BufTypes, TypeOK, MoveData
  <2> QED BY <1>0, <1>5, <2>1, <2>2, <2>3, MessageMoved, CreditsKept DEF BufInv
<1>6. CASE Publish(t)
  <2>1. /\ pc[t] = "publish" /\ pc'[t] = "give" /\ t \notin asleep /\ UNCHANGED <<index, at, ftx, waiters, asleep, received, left, data, item>>
        /\ \A u \in AllThreads : u # t => pc'[u] = pc[u]
    BY <1>0, <1>6, BufGoto DEF Publish
  <2>2. BufTypes'
    <3>1. lap' \in [0 .. Cap - 1 -> Nat]
      BY <1>0, <1>6 DEF Publish, BufTypes, TypeOK
    <3> QED BY <1>0, <1>6, <2>1, <3>1, BufGoto DEF BufTypes, TypeOK, Publish, After
  <2> QED BY <1>0, <1>6, <2>1, <2>2, SlotPublished, MessagePublished, CreditsKept DEF BufInv
<1>7. CASE Return(t)
  <2>1. /\ pc[t] = "return" /\ pc'[t] = "idle" /\ t \notin asleep /\ UNCHANGED <<index, lap, at, ftx, waiters, asleep, data, item>>
        /\ \A u \in AllThreads : u # t => pc'[u] = pc[u]
    BY <1>0, <1>7, BufGoto DEF Return, ring
  <2>2. SlotsInTurn' /\ SlotIsExclusive'
    <3>1. \A u \in AllThreads : InSlot(u)' => InSlot(u) /\ at'[u] = at[u]
      BY <2>1 DEF InSlot
    <3>2. \A u \in AllThreads : pc'[u] = "claim" => at'[u].lap <= lap[at'[u].pos]
      BY <1>0, <2>1 DEF SlotsInTurn
    <3> QED BY <1>0, <2>1, <3>1, <3>2, SlotsKept
  <2>3. CallsInTurn' /\ OnePlace' /\ left' \in [AllThreads -> Nat] /\ received' \in [Msgs -> Nat]
    BY <1>0, <1>7, CallReturns
  <2>4. BufTypes'
    BY <1>0, <1>7, <2>1, <2>3, BufGoto DEF BufTypes, TypeOK, Return
  <2> QED BY <1>0, <1>7, <2>1, <2>2, <2>3, <2>4, CreditsKept DEF BufInv
<1>8. CASE TakeCredit(t) \/ NoCredit(t) \/ AddWaiter(t) \/ Wait(t) \/ SubWaiter(t) \/ GiveCredit(t) \/ AnyWaiters(t) \/ Wake(t)
  <2>1. UNCHANGED <<index, lap, at, data, item, left, received>>
    BY <1>8 DEF TakeCredit, NoCredit, AddWaiter, Wait, SubWaiter, GiveCredit, AnyWaiters, Wake, ring
  <2>2. PICK a, b : /\ Goto(t, a, b) /\ (a \in Before <=> b \in Before) /\ a \in Before \cup After /\ b \in Before \cup After
                    /\ b # "claim" /\ a \notin {"move", "publish"} /\ b \notin {"move", "publish"}
    <3> USE DEF Before, After
    <3>1. CASE TakeCredit(t) \/ NoCredit(t)
      BY <3>1 DEF TakeCredit, NoCredit
    <3>2. CASE AddWaiter(t) \/ Wait(t) \/ SubWaiter(t)
      BY <3>2 DEF AddWaiter, Wait, SubWaiter
    <3>3. CASE GiveCredit(t) \/ AnyWaiters(t) \/ Wake(t)
      BY <3>3 DEF GiveCredit, AnyWaiters, Wake
    <3> QED BY <1>8, <3>1, <3>2, <3>3
  <2>3. /\ pc[t] = a /\ pc'[t] = b /\ (\A u \in AllThreads : u # t => pc'[u] = pc[u])
        /\ pc' \in [AllThreads \cup Closers -> {"idle", "move", "publish", "wake_recv", "wake_send", "done"} \cup Before \cup After]
        /\ \A u \in AllThreads : pc'[u] \in {"idle", "move", "publish"} \cup Before \cup After
    BY <1>0, <2>2, BufGoto
  <2>4. SlotsInTurn' /\ SlotIsExclusive'
    <3>1. \A u \in AllThreads : InSlot(u)' => InSlot(u) /\ at'[u] = at[u]
      BY <2>1, <2>2, <2>3 DEF InSlot
    <3>2. \A u \in AllThreads : pc'[u] = "claim" => at'[u].lap <= lap[at'[u].pos]
      BY <1>0, <2>1, <2>2, <2>3 DEF SlotsInTurn
    <3> QED BY <1>0, <2>1, <3>1, <3>2, SlotsKept
  <2>5. CallsInTurn' /\ OnePlace'
    <3>1. Before \cap After = {} /\ "move" \notin After /\ "move" \notin Before
      BY DEF Before, After
    <3> QED BY <1>0, <2>1, <2>2, <2>3, <3>1, MessagesKept
  <2>6. CreditsCovered' /\ ftx' \in [Sides -> Nat] /\ waiters' \in [Sides -> Nat] /\ asleep' \subseteq AllThreads
    <3>0. ftx \in [Sides -> Nat] /\ waiters \in [Sides -> Nat] /\ asleep \subseteq AllThreads
      BY <1>0 DEF BufTypes, TypeOK
    <3>1. CASE TakeCredit(t) \/ NoCredit(t)
      <4>1. UNCHANGED <<waiters, asleep>>
        BY <3>1 DEF TakeCredit, NoCredit
      <4> QED BY <1>0, <3>0, <3>1, <4>1, CreditTaken
    <3>2. CASE AddWaiter(t) \/ SubWaiter(t)
      <4>1. UNCHANGED <<ftx, asleep>>
        BY <3>2 DEF AddWaiter, SubWaiter
      <4> QED BY <1>0, <3>0, <3>2, <4>1, WaiterCounted
    <3>3. CASE Wait(t)
      <4>1. UNCHANGED <<ftx, waiters>>
        BY <3>3 DEF Wait
      <4> QED BY <1>0, <3>0, <3>3, <4>1, WaiterSleeps
    <3>4. CASE GiveCredit(t)
      <4>1. UNCHANGED <<waiters, asleep>>
        BY <3>4 DEF GiveCredit
      <4> QED BY <1>0, <3>0, <3>4, <4>1, CreditGiven
    <3>5. CASE AnyWaiters(t) \/ Wake(t)
      <4>1. UNCHANGED <<ftx, waiters>>
        BY <3>5 DEF AnyWaiters, Wake
      <4> QED BY <1>0, <3>0, <3>5, <4>1, WaitersSought
    <3> QED BY <1>8, <3>1, <3>2, <3>3, <3>4, <3>5
  <2>7. BufTypes'
    BY <1>0, <2>1, <2>3, <2>6 DEF BufTypes, TypeOK
  <2> QED BY <2>4, <2>5, <2>6, <2>7 DEF BufInv
<1> QED BY <1>1, <1>2, <1>3, <1>4, <1>5, <1>6, <1>7, <1>8 DEF Step

\* chan_close touches nothing but the flag and the sleepers.
LEMMA BufCloser == ASSUME BufAssumption, BufInv, NEW c \in Closers, Close(c) PROVE BufInv'
<1>0. BufTypes /\ SlotsInTurn /\ SlotIsExclusive /\ CallsInTurn /\ OnePlace /\ CreditsCovered
  BY DEF BufInv
<1>1. /\ UNCHANGED <<index, lap, at, data, item, left, received, ftx, waiters>>
      /\ asleep' = asleep \/ \E s \in Sides : asleep' = {u \in asleep : Side(u) # s}
  BY DEF Close, CloseFlag, CloseWake, ring, Sides
<1>2. /\ \A u \in AllThreads : pc'[u] = pc[u]
      /\ pc' \in [AllThreads \cup Closers -> {"idle", "move", "publish", "wake_recv", "wake_send", "done"} \cup Before \cup After]
  <2>1. PICK b \in {"wake_recv", "wake_send", "done"} : pc' = [pc EXCEPT ![c] = b]
    BY DEF Close, CloseFlag, CloseWake, Goto
  <2>2. \A u \in AllThreads : u # c
    BY BufSets
  <2> QED BY <1>0, <2>1, <2>2 DEF BufTypes
<1>3. asleep' \subseteq asleep /\ asleep \subseteq AllThreads
  BY <1>0, <1>1 DEF BufTypes, TypeOK
<1>4. BufTypes'
  BY <1>0, <1>1, <1>2, <1>3 DEF BufTypes, TypeOK
<1>5. SlotsInTurn' /\ SlotIsExclusive'
  <2>1. \A u \in AllThreads : InSlot(u)' => InSlot(u) /\ at'[u] = at[u]
    BY <1>1, <1>2 DEF InSlot
  <2>2. \A u \in AllThreads : pc'[u] = "claim" => at'[u].lap <= lap[at'[u].pos]
    BY <1>0, <1>1, <1>2 DEF SlotsInTurn
  <2> QED BY <1>0, <1>1, <2>1, <2>2, SlotsKept
<1>6. CallsInTurn'
  BY <1>0, <1>1, <1>2, BufSets DEF CallsInTurn, Current
<1>7. OnePlace'
  <2>1. \A u \in Receivers : pc[u] = "publish" => pc'[u] = "publish" /\ at'[u] = at[u]
    BY <1>1, <1>2, BufSets
  <2>2. \A m \in Msgs, u \in Receivers : HasItem(m, u)' => HasItem(m, u)
    BY <1>1, <1>2, BufSets DEF HasItem
  <2>3. \A m \in Msgs : Sent(m) => Sent(m)'
    BY <1>1, <1>2, BufSets DEF Sent
  <2> QED BY <1>0, <1>1, <2>1, <2>2, <2>3, PlacesKept
<1>8. CreditsCovered'
  <2>1. \A s \in Sides : Waiting(s)' = Waiting(s)
    BY <1>2 DEF Waiting
  <2>2. \A u \in asleep' : pc'[u] = "subwaiter"
    BY <1>0, <1>2, <1>3 DEF CreditsCovered
  <2>3. ASSUME NEW s \in Sides, \E u \in asleep' : Side(u) = s PROVE ftx[s] <= Cardinality(Covers(s)')
    <3>1. Covers(s) \subseteq Covers(s)' /\ Covers(s)' \subseteq AllThreads
      BY <1>2, <1>3 DEF Covers
    <3>2. IsFiniteSet(Covers(s)')
      BY <3>1, BufSets, FS_Subset
    <3>3. Cardinality(Covers(s)) <= Cardinality(Covers(s)') /\ Cardinality(Covers(s)) \in Nat /\ Cardinality(Covers(s)') \in Nat
      BY <3>1, <3>2, CountLess
    <3>4. ftx[s] <= Cardinality(Covers(s)) /\ ftx[s] \in Nat
      BY <1>0, <1>3, <2>3 DEF CreditsCovered, BufTypes, TypeOK
    <3> QED BY <3>3, <3>4
  <2>4. \A s \in Sides : waiters'[s] = Cardinality(Waiting(s)')
    BY <1>0, <1>1, <2>1 DEF CreditsCovered
  <2>5. \A s \in Sides : (\E u \in asleep' : Side(u) = s) => ftx'[s] <= Cardinality(Covers(s)')
    BY <1>1, <2>3
  <2> QED BY <2>2, <2>4, <2>5 DEF CreditsCovered
<1> QED BY <1>4, <1>5, <1>6, <1>7, <1>8 DEF BufInv

LEMMA BufStep == ASSUME BufAssumption, BufInv, [Next]_vars PROVE BufInv'
<1>1. CASE Next
  BY <1>1, BufThread, BufCloser DEF Next
<1>2. CASE UNCHANGED vars
  <2>1. UNCHANGED <<closed, index, lap, data, ftx, waiters, asleep, pc, at, item, left, received>>
    BY <1>2 DEF vars
  <2>2. BufTypes' /\ SlotsInTurn' /\ SlotIsExclusive' /\ CallsInTurn'
    BY <2>1 DEF BufInv, BufTypes, TypeOK, SlotsInTurn, SlotIsExclusive, CallsInTurn, InSlot, Due, Current
  <2>3. OnePlace'
    BY <2>1 DEF BufInv, OnePlace, InRing, HasItem, Sent
  <2>4. CreditsCovered'
    BY <2>1 DEF BufInv, CreditsCovered, Waiting, Covers
  <2> QED BY <2>2, <2>3, <2>4 DEF BufInv
<1> QED BY <1>1, <1>2

LEMMA AtMostOne ==
  ASSUME NEW A, \A x, y \in A : x = y
  PROVE  Cardinality(A) \in {0, 1} /\ (Cardinality(A) = 1 => \E x : x \in A)
<1>1. CASE A = {}
  BY <1>1, FS_EmptySet
<1>2. CASE A # {}
  <2>1. PICK x : A = {x}
    BY <1>2
  <2> QED BY <2>1, FS_Singleton
<1> QED BY <1>1, <1>2

LEMMA BufGives == ASSUME BufAssumption, BufInv PROVE SlotIsExclusive /\ ReceivedOnce /\ CreditIsSeen
<1>1. SlotIsExclusive
  BY DEF BufInv
<1>2. ReceivedOnce
  <2> SUFFICES ASSUME NEW m \in Msgs
               PROVE  Cardinality({k \in 0 .. Cap - 1 : data[k] = m /\ lap[k] % 2 = 1
                                      /\ ~\E t \in Receivers : pc[t] = "publish" /\ at[t].pos = k})
                        + Cardinality({t \in Receivers : item[t] = m /\ pc[t] # "idle"})
                        + received[m] <= 1
    BY DEF ReceivedOnce
  <2> DEFINE A == {k \in 0 .. Cap - 1 : data[k] = m /\ lap[k] % 2 = 1
                                      /\ ~\E t \in Receivers : pc[t] = "publish" /\ at[t].pos = k}
             B == {t \in Receivers : item[t] = m /\ pc[t] # "idle"}
  <2>1. /\ \A k : k \in A => k \in Slots /\ InRing(m, k)
        /\ \A t : t \in B => t \in Receivers /\ HasItem(m, t)
    BY DEF InRing, HasItem, Slots
  <2> HIDE DEF A, B
  <2>2. /\ \A j, k \in A : j = k
        /\ \A t, u \in B : t = u
        /\ A = {} \/ B = {}
        /\ received[m] \in {0, 1} /\ (received[m] = 1 => A = {} /\ B = {})
    BY <2>1 DEF BufInv, OnePlace
  <2>3. Cardinality(A) \in {0, 1} /\ Cardinality(B) \in {0, 1} /\ (A = {} => Cardinality(A) = 0) /\ (B = {} => Cardinality(B) = 0)
    BY <2>2, AtMostOne, FS_EmptySet
  <2>4. Cardinality(A) + Cardinality(B) + received[m] <= 1
    BY <2>2, <2>3
  <2> QED BY <2>4 DEF A, B
<1>3. CreditIsSeen
  <2> SUFFICES ASSUME NEW s \in Sides, ftx[s] > 0, \E t \in asleep : Side(t) = s
               PROVE  \/ \E u \in AllThreads : pc[u] \in {"anyone", "wake"} /\ Side(u) # s
                      \/ \E u \in AllThreads \ asleep : Side(u) = s /\ pc[u] \in {"subwaiter", "credit"}
    BY DEF CreditIsSeen
  <2>1. ftx[s] <= Cardinality(Covers(s)) /\ ftx[s] \in Nat /\ Cardinality(Covers(s)) \in Nat
    BY BufFinite DEF BufInv, CreditsCovered, BufTypes, TypeOK
  <2>2. Covers(s) # {}
    <3>1. Cardinality(Covers(s)) # 0
      BY <2>1
    <3> QED BY <3>1, FS_EmptySet
  <2> QED BY <2>2 DEF Covers
<1> QED BY <1>1, <1>2, <1>3

\* SlotIsExclusive, ReceivedOnce, CreditIsSeen: for any number of senders, receivers and
\* closers, any batches and any capacity, chan_trysend_buf and chan_tryrecv_buf share a slot
\* with nobody, a message is in at most one place and received at most once, and no thread of
\* chan_send_buf or chan_recv_buf is left asleep beside a credit.
THEOREM RingIsSafe == BufAssumption /\ Spec => [](SlotIsExclusive /\ ReceivedOnce /\ CreditIsSeen)
<1>1. ASSUME BufAssumption, Init PROVE BufInv
  BY <1>1, BufInit
<1>2. ASSUME BufAssumption, BufInv, [Next]_vars PROVE BufInv'
  BY <1>2, BufStep
<1>3. ASSUME BufAssumption, BufInv PROVE SlotIsExclusive /\ ReceivedOnce /\ CreditIsSeen
  BY <1>3, BufGives
<1>4. BufAssumption => []BufAssumption
  OBVIOUS
<1> QED BY <1>1, <1>2, <1>3, <1>4, PTL DEF Spec
=============================================================================
