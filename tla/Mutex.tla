-------------------------------- MODULE Mutex --------------------------------
(***************************************************************************)
(* What a mutex promises: one owner at a time, and only the owner gives it *)
(* up.  ChanMutex shows that the futex mutex of channel/channel.c          *)
(* implements this; ChanUnbuf uses it in this form.                        *)
(***************************************************************************)
CONSTANTS Threads, None

VARIABLE owner

Init == owner = None

Lock(t)   == owner = None /\ owner' = t
Unlock(t) == owner = t /\ owner' = None

Next == \E t \in Threads : Lock(t) \/ Unlock(t)

Spec == Init /\ [][Next]_owner
=============================================================================
