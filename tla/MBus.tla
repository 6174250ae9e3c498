-------------------------------- MODULE MBus --------------------------------
(***************************************************************************)
(* mbus/mbus.c: clients register a callback in a slot of the bus, others    *)
(* send messages to it by calling the callback, and unregistering a client  *)
(* waits until nobody is inside.                                            *)
(*                                                                          *)
(* A slot is a structure of 24 bytes.  The compiler has no instruction for  *)
(* its compare-and-exchange and calls libatomic, which compares and then    *)
(* copies under a lock; the decrement of refcnt is an instruction that does *)
(* not ask for this lock, and may fall between the two.                     *)
(***************************************************************************)
EXTENDS Integers, FiniteSets

CONSTANTS
    Threads,        \* threads that use the bus
    n_clients,      \* slots 0 .. n_clients - 1
    Calls,          \* bound: calls of all threads together
    NoThread

NullClient == [registered |-> FALSE, refcnt |-> 0, callback |-> NoThread]
Ids == 0 .. n_clients - 1

VARIABLES
    clients,        \* bus->clients
    lock,           \* libatomic's lock of each slot
    pc, op, id, local, broadcast,   \* the call of each thread and its local_client
    calls,          \* calls so far
    lost            \* history: decrements of refcnt that a copy has overwritten

vars == <<clients, lock, pc, op, id, local, broadcast, calls, lost>>
frame == <<op, id, broadcast, calls>>

Client == [registered : BOOLEAN, refcnt : Nat, callback : Threads \cup {NoThread}]

TypeOK ==
    /\ clients \in [Ids -> Client] /\ lock \in [Ids -> Threads \cup {NoThread}]
    /\ pc \in [Threads -> {"idle", "load", "compare", "copy", "callback", "decrement"}]
    /\ local \in [Threads -> Client] /\ id \in [Threads -> Ids]
    /\ lost \in [Ids -> Nat]

\* bus_new.
Init ==
    /\ clients = [i \in Ids |-> NullClient] /\ lock = [i \in Ids |-> NoThread]
    /\ pc = [t \in Threads |-> "idle"] /\ op = [t \in Threads |-> "send"]
    /\ id = [t \in Threads |-> 0] /\ local = [t \in Threads |-> NullClient]
    /\ broadcast = [t \in Threads |-> FALSE] /\ calls = 0
    /\ lost = [i \in Ids |-> 0]

Goto(t, to) == pc' = [pc EXCEPT ![t] = to]

\* The call of t is over; what is left in its frame is not used again.
Return(t) ==
    /\ Goto(t, "idle")
    /\ local' = [local EXCEPT ![t] = NullClient] /\ id' = [id EXCEPT ![t] = 0]
    /\ op' = [op EXCEPT ![t] = "send"] /\ broadcast' = [broadcast EXCEPT ![t] = FALSE]
    /\ UNCHANGED calls

\* bus_send: a broadcast goes on to the next slot.
SendReturns(t) ==
    IF broadcast[t] /\ id[t] + 1 \in Ids
    THEN /\ Goto(t, "load")
         /\ id' = [id EXCEPT ![t] = @ + 1] /\ local' = [local EXCEPT ![t] = NullClient]
         /\ UNCHANGED <<op, broadcast, calls>>
    ELSE Return(t)

\* bus_register, bus_send or bus_unregister of slot i; an id that is too large returns
\* false at once.  bus_register expects an empty slot and loads nothing.
Call(t, o, i, all) ==
    /\ pc[t] = "idle" /\ calls < Calls
    /\ all => o = "send" /\ i = 0
    /\ calls' = calls + 1
    /\ IF i \in Ids
         THEN /\ Goto(t, IF o = "register" THEN "compare" ELSE "load")
              /\ op' = [op EXCEPT ![t] = o] /\ id' = [id EXCEPT ![t] = i]
              /\ broadcast' = [broadcast EXCEPT ![t] = all]
         ELSE UNCHANGED <<pc, op, id, broadcast>>
    /\ UNCHANGED <<clients, lock, local, lost>>

\* __atomic_load of the slot: whether it is registered decides.
Load(t) ==
    LET c == clients[id[t]] IN
    /\ pc[t] = "load" /\ lock[id[t]] = NoThread
    /\ IF c.registered
         THEN local' = [local EXCEPT ![t] = c] /\ Goto(t, "compare") /\ UNCHANGED frame
         ELSE IF op[t] = "send" THEN SendReturns(t) ELSE Return(t)
    /\ UNCHANGED <<clients, lock, lost>>

\* Mutant: bus_unregister expects the reference count that it has read.
Compare_AnyCount(t) ==
    LET c == clients[id[t]]
        expected == local[t]
    IN  /\ pc[t] = "compare" /\ lock[id[t]] = NoThread
        /\ IF c = expected
             THEN /\ lock' = [lock EXCEPT ![id[t]] = t]
                  /\ Goto(t, "copy") /\ UNCHANGED <<local, frame>>
             ELSE /\ IF op[t] # "register" /\ c.registered
                       THEN local' = [local EXCEPT ![t] = c] /\ UNCHANGED <<pc, frame>>
                       ELSE IF op[t] = "send" THEN SendReturns(t) ELSE Return(t)
                  /\ UNCHANGED lock
        /\ UNCHANGED <<clients, lost>>

\* The first half of CAS.  bus_unregister expects a reference count of 0.  When it fails
\* the slot is copied into local_client; bus_register gives up, the others try again
\* while somebody is registered.
Compare(t) ==
    LET c == clients[id[t]]
        expected == IF op[t] = "unregister" THEN [local[t] EXCEPT !.refcnt = 0] ELSE local[t]
    IN  /\ pc[t] = "compare" /\ lock[id[t]] = NoThread
        /\ IF c = expected
             THEN /\ lock' = [lock EXCEPT ![id[t]] = t]
                  /\ local' = [local EXCEPT ![t] = expected]
                  /\ Goto(t, "copy") /\ UNCHANGED frame
             ELSE /\ IF op[t] # "register" /\ c.registered
                       THEN local' = [local EXCEPT ![t] = c] /\ UNCHANGED <<pc, frame>>
                       ELSE IF op[t] = "send" THEN SendReturns(t) ELSE Return(t)
                  /\ UNCHANGED lock
        /\ UNCHANGED <<clients, lost>>

\* The second half: the new client is copied into the slot.
Copy(t) ==
    LET i == id[t] IN
    /\ pc[t] = "copy"
    /\ lock' = [lock EXCEPT ![i] = NoThread]
    /\ \/ /\ op[t] = "register"
          /\ clients' = [clients EXCEPT ![i] = [registered |-> TRUE, refcnt |-> 0, callback |-> t]]
          /\ Return(t) /\ UNCHANGED lost
       \/ /\ op[t] = "send"
          /\ clients' = [clients EXCEPT ![i] = [local[t] EXCEPT !.refcnt = @ + 1]]
          /\ lost' = [lost EXCEPT ![i] = @ + local[t].refcnt - clients[i].refcnt]
          /\ Goto(t, "callback") /\ UNCHANGED <<local, frame>>
       \/ /\ op[t] = "unregister"
          /\ clients' = [clients EXCEPT ![i] = NullClient]
          /\ Return(t) /\ UNCHANGED lost

\* Mutant: the reference is dropped before the callback returns.
Callback_Twice(t) ==
    /\ pc[t] = "callback" /\ Goto(t, "decrement")
    /\ clients' = [clients EXCEPT ![id[t]].refcnt = @ - 1]
    /\ UNCHANGED <<lock, local, frame, lost>>

\* The callback of the client runs, and returns.
Callback(t) ==
    /\ pc[t] = "callback" /\ Goto(t, "decrement")
    /\ UNCHANGED <<clients, lock, local, frame, lost>>

\* __atomic_fetch_sub, whoever holds the lock of the slot.
Decrement(t) ==
    /\ pc[t] = "decrement"
    /\ clients' = [clients EXCEPT ![id[t]].refcnt = @ - 1]
    /\ SendReturns(t)
    /\ UNCHANGED <<lock, lost>>

Step(t) == Load(t) \/ Compare(t) \/ Copy(t) \/ Callback(t) \/ Decrement(t)

Next ==
    \E t \in Threads :
        \/ \E o \in {"register", "send", "unregister"}, i \in 0 .. n_clients, all \in BOOLEAN :
               Call(t, o, i, all)
        \/ Step(t)

Fairness == \A t \in Threads : WF_vars(Step(t))

Spec == Init /\ [][Next]_vars /\ Fairness

-----------------------------------------------------------------------------
\* Who is between the increment of the reference count and its decrement.
Inside(i) == {t \in Threads : pc[t] \in {"callback", "decrement"} /\ id[t] = i}

\* "No additional [calls] can be made to the specified client" (mbus.c:140): whoever is
\* inside a callback is inside the callback of the client that is registered in the slot,
\* through all races of senders, unregistering threads and those who register after them.
CallbackIsRegistered ==
    \A i \in Ids : \A t \in Inside(i) :
        clients[i].registered /\ clients[i].callback = local[t].callback

\* The reference count is the number of threads inside, plus the decrements that fell
\* between the comparison and the copy of another sender.
RefcntIsExact == \A i \in Ids : clients[i].refcnt = Cardinality(Inside(i)) + lost[i]

\* Unless such a decrement was lost, every call returns: nobody waits for ever in
\* bus_unregister for a client that nobody is inside of.
EveryCallReturns ==
    (\A i \in Ids : [](lost[i] = 0)) => \A t \in Threads : []<>(pc[t] = "idle")
=============================================================================
