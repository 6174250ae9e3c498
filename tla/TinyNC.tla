------------------------------- MODULE TinyNC -------------------------------
(***************************************************************************)
(* tinync/tinync.c: three stackless coroutines between standard input, a    *)
(* socket and standard output, with a queue of bytes between the one that   *)
(* reads standard input and the one that writes to the socket.              *)
(*                                                                          *)
(* main runs them in turn, each until a cr_wait finds its condition false.  *)
(* The n-th byte that is read or received is called n; 0 is what a static   *)
(* variable holds before.  A system call may say "not now" (EAGAIN and the  *)
(* like) at any time; another error counts as a result, since only 0 is     *)
(* tested: a failing read or recv leaves the byte of the call before in the *)
(* variable, a failing send or write drops its byte.                        *)
(***************************************************************************)
EXTENDS Naturals, Sequences

CONSTANTS
    Size,           \* of byte_queue_t
    Bytes,          \* bound: bytes that come from standard input and from the socket
    MaxErrors       \* bound: failing system calls

VARIABLES
    turn,           \* main: "select", or whose turn it is, or "exit"
    buf, r, w,      \* the queue
    in, in_b,       \* stdin_loop: where it waits, and its b
    out, out_b,     \* socket_write_loop, and the slot that its b points to
    net, net_b,     \* socket_read_loop
    read, received, \* bytes so far
    sent, written,  \* what was passed to send and to write
    errors,         \* failed calls
    overwritten     \* history: a byte was pushed into the slot that b points to

vars == <<turn, buf, r, w, in, in_b, out, out_b, net, net_b, read, received, sent, written,
          errors, overwritten>>

cr_queue_empty == w = r
\* Mutant: the indices are reduced to slots, so that a full queue looks empty.
cr_queue_full_Index == (w % Size) - (r % Size) = Size

cr_queue_full  == w - r = Size
Slot(i) == i % Size
NoSlot  == Size

Init ==
    /\ turn = "select" /\ buf = [i \in 0..Size - 1 |-> 0] /\ r = 0 /\ w = 0
    /\ in = "read" /\ out = "wait" /\ net = "recv"
    /\ in_b = 0 /\ out_b = NoSlot /\ net_b = 0
    /\ read = 0 /\ received = 0 /\ sent = <<>> /\ written = <<>>
    /\ errors = 0 /\ overwritten = FALSE

queue  == <<buf, r, w, overwritten>>
stdin  == <<in, in_b, read>>
writer == <<out, out_b, sent>>
socket == <<net, net_b, received, written>>

\* main's loop.  With an empty queue select waits for something to read, which may be
\* there or a signal; otherwise the coroutines run at once.
Select ==
    /\ turn = "select"
    /\ turn' = IF "finished" \in {in, net} THEN "exit" ELSE "net"
    /\ UNCHANGED <<queue, stdin, writer, socket, errors>>

\* A cr_wait whose condition is false, or a cr_exit: the coroutine returns to main.
Return(co, then) ==
    /\ turn = co /\ turn' = then
    /\ UNCHANGED <<queue, stdin, writer, socket, errors>>

-----------------------------------------------------------------------------
(* socket_read_loop                                                         *)

Recv ==
    /\ turn = "net" /\ net = "recv"
    /\ \/ /\ received < Bytes /\ received' = received + 1 /\ net_b' = received'
          /\ net' = "write" /\ UNCHANGED <<turn, errors>>
       \/ /\ errors < MaxErrors /\ errors' = errors + 1 /\ net' = "write"
          /\ UNCHANGED <<turn, received, net_b>>
       \/ net' = "finished" /\ turn' = "out" /\ UNCHANGED <<received, net_b, errors>>
    /\ UNCHANGED <<queue, stdin, writer, written>>

WriteOut ==
    /\ turn = "net" /\ net = "write" /\ net' = "recv"
    /\ \/ written' = Append(written, net_b) /\ UNCHANGED errors
       \/ errors < MaxErrors /\ errors' = errors + 1 /\ UNCHANGED written
    /\ UNCHANGED <<turn, queue, stdin, writer, net_b, received>>

NetBlocks == net # "finished" /\ Return("net", "out")

-----------------------------------------------------------------------------
(* socket_write_loop                                                        *)

Pop ==
    /\ turn = "out" /\ out = "wait" /\ ~cr_queue_empty
    /\ out_b' = Slot(r) /\ r' = r + 1 /\ out' = "send"
    /\ UNCHANGED <<turn, buf, w, overwritten, stdin, sent, socket, errors>>

Send ==
    /\ turn = "out" /\ out = "send" /\ out' = "wait" /\ out_b' = NoSlot
    /\ \/ sent' = Append(sent, buf[out_b]) /\ UNCHANGED errors
       \/ errors < MaxErrors /\ errors' = errors + 1 /\ UNCHANGED sent
    /\ UNCHANGED <<turn, queue, stdin, socket>>

OutBlocks == (out = "wait" => cr_queue_empty) /\ Return("out", "in")

-----------------------------------------------------------------------------
(* stdin_loop                                                               *)

Read ==
    /\ turn = "in" /\ in = "read"
    /\ \/ /\ read < Bytes /\ read' = read + 1 /\ in_b' = read' /\ in' = "push"
          /\ UNCHANGED errors
       \/ /\ errors < MaxErrors /\ errors' = errors + 1 /\ in' = "push"
          /\ UNCHANGED <<read, in_b>>
       \/ in' = "drain" /\ UNCHANGED <<read, in_b, errors>>
    /\ UNCHANGED <<turn, queue, writer, socket>>

Push ==
    /\ turn = "in" /\ in = "push" /\ ~cr_queue_full /\ in' = "read"
    /\ buf' = [buf EXCEPT ![Slot(w)] = in_b] /\ w' = w + 1
    /\ overwritten' = (overwritten \/ Slot(w) = out_b)
    /\ UNCHANGED <<turn, r, in_b, read, writer, socket, errors>>

\* Mutant: at the end of the input the queue is not awaited.
Drain_AtOnce ==
    /\ turn = "in" /\ in = "drain"
    /\ in' = "finished" /\ turn' = "select"
    /\ UNCHANGED <<queue, in_b, read, writer, socket, errors>>

\* End of input: wait until the queue is empty, and finish.
Drain ==
    /\ turn = "in" /\ in = "drain" /\ cr_queue_empty
    /\ in' = "finished" /\ turn' = "select"
    /\ UNCHANGED <<queue, in_b, read, writer, socket, errors>>

InBlocks ==
    /\ in = "push" => cr_queue_full
    /\ in = "drain" => ~cr_queue_empty
    /\ Return("in", "select")

Next ==
    \/ Select \/ Recv \/ WriteOut \/ NetBlocks
    \/ Pop \/ Send \/ OutBlocks \/ Read \/ Push \/ Drain \/ InBlocks

Spec == Init /\ [][Next]_vars

-----------------------------------------------------------------------------
TypeOK ==
    /\ turn \in {"select", "net", "out", "in", "exit"}
    /\ buf \in [0..Size - 1 -> 0..Bytes] /\ r \in Nat /\ w \in Nat
    /\ in \in {"read", "push", "drain", "finished"} /\ out \in {"wait", "send"}
    /\ net \in {"recv", "write", "finished"} /\ out_b \in 0..Size
    /\ read \in 0..Bytes /\ received \in 0..Bytes /\ errors \in 0..MaxErrors

\* While no call fails, bytes arrive in order on either side, and a byte that waits to be
\* sent is still in its slot.  Only when the queue is full behind it another byte may be
\* there, which is then sent instead.
BytesInOrder ==
    errors = 0 =>
        /\ \A i \in DOMAIN written : written[i] = i
        /\ ~overwritten => \A i \in DOMAIN sent : sent[i] = i
        /\ out = "send" /\ ~cr_queue_full => buf[out_b] = Len(sent) + 1

\* When the program ends after its input, at most the byte that waits to be sent is lost.
AllButOneAreSent ==
    turn = "exit" /\ in = "finished" /\ errors = 0 =>
        Len(sent) = read - (IF out = "send" THEN 1 ELSE 0)
=============================================================================
