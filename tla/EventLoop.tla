----------------------------- MODULE EventLoop -----------------------------
(***************************************************************************)
(* redirect/main.c: a small event loop over epoll with I/O watchers and     *)
(* timers.  An application sets its watchers up and calls ev_run.  main     *)
(* has one watcher, which copies standard input; here there are timers      *)
(* besides, started before or after it, whose callbacks may start or stop   *)
(* a timer.                                                                 *)
(*                                                                          *)
(* The list of watchers is a sequence, the latest first.  EV_FOREACH ends   *)
(* before a node whose next is NULL, so it visits all nodes but the last.   *)
(* Input is a number of reads' worth of data: a file, for which epoll_ctl   *)
(* fails with EPERM, or a pipe that somebody writes to and closes.          *)
(***************************************************************************)
EXTENDS Integers, SequencesExt

CONSTANTS
    Stdin, Timers,      \* the watchers
    Reads,              \* how many reads the input holds
    MaxEvents           \* bound: errors reported for stdin, and actions of callbacks

VARIABLES
    running, epoll, watchers, workaround,   \* ctx; epoll: ctx->fd is open
    active, fd, timeout, period,            \* watchers; fd: w->fd >= 0
    interest, armed, expired,               \* kernel: epoll's set, timers
    is_file, avail, unwritten, closed,      \* standard input
    once, nonblock,                         \* the flags of ev_run
    pc, ee, event,                          \* ev_run: control, pending events, this one
    copied, budget                          \* reads copied; what is left of MaxEvents

ctx    == <<running, epoll, watchers, workaround>>
ev     == <<active, fd, timeout, period>>
kernel == <<interest, armed, expired>>
input  == <<is_file, avail, unwritten, closed>>
flags  == <<once, nonblock>>
loop   == <<pc, ee, event>>
vars   == <<ctx, ev, kernel, input, flags, loop, copied, budget>>

W       == Timers \cup {Stdin}
NoEvent == [w |-> Stdin, is |-> {}]
Listed  == ToSet(watchers)
Visited == ToSet(Front(watchers))       \* what EV_FOREACH visits, of a list that is not empty

TypeOK ==
    /\ \A b \in {running, epoll, workaround, is_file, closed, once, nonblock} : b \in BOOLEAN
    /\ Listed \subseteq W /\ interest \subseteq W /\ armed \subseteq Timers
    /\ expired \subseteq Timers /\ active \in [W -> {-1, 0, 1}] /\ fd \subseteq W
    /\ timeout \in [Timers -> 0..1] /\ period \in [Timers -> 0..1]
    /\ avail \in 0..Reads /\ unwritten \in 0..Reads /\ copied \in 0..Reads
    /\ budget \in 0..MaxEvents
    /\ pc \in {"setup", "loop", "wait", "events", "stdin", "timer", "failed", "returned"}

\* ev_init has been called.
Init ==
    /\ running = FALSE /\ epoll = TRUE /\ watchers = <<>> /\ workaround = FALSE
    /\ active = [w \in W |-> 0] /\ fd = {}
    /\ timeout = [w \in Timers |-> 0] /\ period = [w \in Timers |-> 0]
    /\ interest = {} /\ armed = {} /\ expired = {}
    /\ is_file \in BOOLEAN /\ closed = FALSE
    /\ avail = (IF is_file THEN Reads ELSE 0) /\ unwritten = Reads - avail
    /\ once \in BOOLEAN /\ nonblock \in BOOLEAN
    /\ pc = "setup" /\ ee = <<>> /\ event = NoEvent
    /\ copied = 0 /\ budget = MaxEvents

-----------------------------------------------------------------------------
(* Starting and stopping.                                                   *)

\* _ev_watcher_start of a watcher that is not active, with an open descriptor.
\* epoll_ctl refuses a file: stdin is then served by the loop itself.
Start(w) ==
    /\ active' = [active EXCEPT ![w] = IF w = Stdin /\ is_file THEN -1 ELSE 1]
    /\ workaround' = (workaround \/ (w = Stdin /\ is_file))
    /\ interest' = IF w = Stdin /\ is_file THEN interest ELSE interest \cup {w}
    /\ watchers' = <<w>> \o watchers

\* EV_REMOVE.
Without(w) ==
    LET i == CHOOSE j \in 1 .. Len(watchers) : watchers[j] = w
    IN  SubSeq(watchers, 1, i - 1) \o SubSeq(watchers, i + 1, Len(watchers))

\* Mutant: epoll keeps the descriptor.
Stop_NoCtl(w) ==
    IF active[w] > 0
    THEN /\ active' = [active EXCEPT ![w] = 0] /\ watchers' = Without(w)
         /\ UNCHANGED interest
    ELSE UNCHANGED <<active, watchers, interest>>

\* _ev_watcher_stop, which does nothing to a watcher that is not active.
Stop(w) ==
    IF active[w] > 0
    THEN /\ active' = [active EXCEPT ![w] = 0] /\ watchers' = Without(w)
         /\ interest' = interest \ {w}
    ELSE UNCHANGED <<active, watchers, interest>>

\* ev_timer_stop also closes the descriptor.
StopTimer(w, expire) ==
    /\ Stop(w)
    /\ IF active[w] > 0
         THEN fd' = fd \ {w} /\ armed' = armed \ {w} /\ expired' = expire \ {w}
         ELSE expired' = expire /\ UNCHANGED <<fd, armed>>

\* ev_io_start stops the watcher, which ev_run has done before, and starts it.
ev_io_start(w) == active[w] = 0 /\ Start(w)

\* ev_io_init(STDIN_FILENO, EV_READ), as main does.
IoInit ==
    /\ pc = "setup" /\ Stdin \notin fd
    /\ fd' = fd \cup {Stdin} /\ Start(Stdin)
    /\ UNCHANGED <<running, epoll, timeout, period, armed, expired, input, flags, loop,
                   copied, budget>>

\* ev_timer_init, before the loop runs: the timer is registered and not yet armed.
TimerInit(w, t, p) ==
    /\ pc = "setup" /\ w \notin fd
    /\ fd' = fd \cup {w} /\ Start(w)
    /\ timeout' = [timeout EXCEPT ![w] = t] /\ period' = [period EXCEPT ![w] = p]
    /\ UNCHANGED <<running, epoll, armed, expired, input, flags, loop, copied, budget>>

-----------------------------------------------------------------------------
(* ev_run.                                                                  *)

\* Mutant: the timers are not armed when the loop starts.
Run_Dormant ==
    /\ pc = "setup" /\ Stdin \in fd
    /\ running' = TRUE /\ pc' = "loop"
    /\ UNCHANGED <<epoll, watchers, workaround, ev, kernel, input, flags, ee, event,
                   copied, budget>>

\* "Start all dormant timers": timerfd_settime for those that EV_FOREACH visits.
Run ==
    /\ pc = "setup" /\ Stdin \in fd
    /\ running' = TRUE
    /\ armed' = {w \in Timers \cap Visited : timeout[w] > 0}
    /\ pc' = "loop"
    /\ UNCHANGED <<epoll, watchers, workaround, ev, interest, expired, input, flags, ee,
                   event, copied, budget>>

\* Mutant: select fails for the file.
has_data_Never == FALSE

has_data == avail > 0

\* The workaround: the file's watcher, if EV_FOREACH visits it, is taken off the list
\* when there is nothing left to read, and its callback reads once.
ServeFile ==
    /\ pc = "loop" /\ running /\ watchers # <<>> /\ workaround
    /\ Stdin \in Visited /\ active[Stdin] = -1
    /\ IF ~has_data
         THEN /\ active' = [active EXCEPT ![Stdin] = 0]
              /\ watchers' = Without(Stdin)
              /\ UNCHANGED <<avail, copied>>
         ELSE /\ avail' = avail - 1 /\ copied' = copied + 1
              /\ UNCHANGED <<active, watchers>>
    /\ UNCHANGED <<running, epoll, workaround, fd, timeout, period, kernel, is_file,
                   unwritten, closed, flags, loop, budget>>

\* Nothing for the workaround to do: on to epoll_wait.
EnterWait ==
    /\ pc = "loop" /\ running /\ watchers # <<>>
    /\ ~(workaround /\ Stdin \in Visited /\ active[Stdin] = -1)
    /\ workaround' = FALSE /\ pc' = "wait"
    /\ UNCHANGED <<running, epoll, watchers, ev, kernel, input, flags, ee, event, copied,
                   budget>>

Return ==
    /\ pc = "loop" /\ ~(running /\ watchers # <<>>)
    /\ pc' = "returned"
    /\ UNCHANGED <<ctx, ev, kernel, input, flags, ee, event, copied, budget>>

\* What epoll_wait reports for a watcher.
Reported(w) ==
    IF w = Stdin THEN (IF avail > 0 THEN {"IN"} ELSE {}) \cup (IF closed THEN {"HUP"} ELSE {})
    ELSE IF w \in expired THEN {"IN"} ELSE {}

\* epoll_wait returns: the ready watchers in some order, or none with EV_NONBLOCK.
EpollWait ==
    LET ready == {w \in interest : Reported(w) # {}} IN
    /\ pc = "wait" /\ (ready # {} \/ nonblock)
    /\ \E order \in SetToSeqs(ready) :
         ee' = [i \in DOMAIN order |-> [w |-> order[i], is |-> Reported(order[i])]]
    /\ pc' = "events"
    /\ UNCHANGED <<ctx, ev, kernel, input, flags, event, copied, budget>>

\* An error is reported for stdin ("Spurious problem with the stdin watcher").
EpollError ==
    /\ pc = "wait" /\ Stdin \in interest /\ budget > 0
    /\ ee' = <<[w |-> Stdin, is |-> {"ERR"}]>> /\ pc' = "events"
    /\ budget' = budget - 1
    /\ UNCHANGED <<ctx, ev, kernel, input, flags, event, copied>>

\* epoll_wait fails: ev_exit stops the watchers that EV_FOREACH visits (their list
\* nodes first) and closes everything; ev_run returns -2.
WaitFails ==
    LET stopped == {w \in Visited : active[w] > 0} IN
    /\ pc = "wait" /\ budget > 0
    /\ active' = [w \in W |-> IF w \in stopped THEN 0 ELSE active[w]]
    /\ interest' = {} /\ watchers' = <<>> /\ running' = FALSE /\ epoll' = FALSE
    /\ fd' = fd \ (stopped \cap Timers)
    /\ armed' = armed \ stopped /\ expired' = expired \ stopped
    /\ pc' = "failed" /\ budget' = 0
    /\ UNCHANGED <<workaround, timeout, period, input, flags, ee, event, copied>>

\* The next event of the batch.  stdin: HUP and ERR stop the watcher.  A timer whose
\* descriptor cannot be read is stopped; a one-shot timer is stopped when it has
\* expired.  Then the callback.
NextEvent ==
    LET e == Head(ee)
        w == e.w
    IN  /\ pc = "events" /\ ee # <<>>
        /\ ee' = Tail(ee)
        /\ IF w = Stdin
             THEN /\ IF {"HUP", "ERR"} \cap e.is # {} THEN Stop(w)
                     ELSE UNCHANGED <<active, watchers, interest>>
                  /\ event' = e /\ pc' = "stdin"
                  /\ UNCHANGED <<fd, timeout, armed, expired>>
             ELSE LET readable == w \in fd /\ w \in expired
                      left     == IF period[w] = 0 THEN 0 ELSE timeout[w]
                  IN  /\ timeout' = [timeout EXCEPT ![w] = left]
                      /\ event' = [w |-> w, is |-> IF readable THEN {"IN"} ELSE {"ERR"}]
                      /\ pc' = "timer"
                      /\ IF ~readable \/ left = 0
                           THEN StopTimer(w, expired \ {w})
                           ELSE /\ expired' = expired \ {w}
                                /\ UNCHANGED <<active, watchers, interest, fd, armed>>
        /\ UNCHANGED <<running, epoll, workaround, period, input, flags, copied, budget>>

\* The end of the batch: another turn, or EV_ONCE.
EndEvents ==
    /\ pc = "events" /\ ee = <<>>
    /\ pc' = IF once THEN "returned" ELSE "loop"
    /\ UNCHANGED <<ctx, ev, kernel, input, flags, ee, event, copied, budget>>

\* process_stdin: after an error ev_io_start puts the watcher, which ev_run has
\* stopped, back; then it reads, and waits if there is nothing to read.
ProcessStdin ==
    /\ pc = "stdin" /\ (avail > 0 \/ closed)
    /\ IF event.is = {"ERR"} THEN ev_io_start(Stdin)
       ELSE UNCHANGED <<active, workaround, interest, watchers>>
    /\ IF avail > 0
         THEN /\ avail' = avail - 1
              /\ copied' = copied + (IF event.is = {"HUP"} THEN 0 ELSE 1)
         ELSE UNCHANGED <<avail, copied>>
    /\ pc' = "events" /\ event' = NoEvent
    /\ UNCHANGED <<running, epoll, fd, timeout, period, armed, expired, is_file, unwritten,
                   closed, flags, ee, budget>>

\* A timer's callback: returns, stops a timer, or starts its own again.  ev_timer_set
\* of a stopped timer makes a new descriptor and, the loop being run, arms it.
TimerCallback ==
    /\ pc = "timer"
    /\ \/ UNCHANGED <<ctx, ev, kernel, budget>>
       \/ /\ budget > 0 /\ budget' = budget - 1
          /\ \E w \in Timers : active[w] > 0 /\ StopTimer(w, expired)
          /\ UNCHANGED <<running, epoll, workaround, timeout, period>>
       \/ /\ budget > 0 /\ budget' = budget - 1
          /\ event.w \notin fd
          /\ fd' = fd \cup {event.w} /\ Start(event.w)
          /\ timeout' = [timeout EXCEPT ![event.w] = 1]
          /\ armed' = armed \cup {event.w}
          /\ UNCHANGED <<running, epoll, period, expired>>
    /\ pc' = "events" /\ event' = NoEvent
    /\ UNCHANGED <<input, flags, ee, copied>>

-----------------------------------------------------------------------------
(* The kernel and the writer of the pipe.                                   *)

Expire(w) ==
    /\ w \in armed /\ w \notin expired
    /\ expired' = expired \cup {w}
    /\ armed' = IF period[w] = 0 THEN armed \ {w} ELSE armed
    /\ UNCHANGED <<ctx, ev, interest, input, flags, loop, copied, budget>>

WritePipe ==
    /\ unwritten > 0 /\ ~closed
    /\ unwritten' = unwritten - 1 /\ avail' = avail + 1
    /\ UNCHANGED <<ctx, ev, kernel, is_file, closed, flags, loop, copied, budget>>

ClosePipe ==
    /\ ~is_file /\ unwritten = 0 /\ ~closed
    /\ closed' = TRUE
    /\ UNCHANGED <<ctx, ev, kernel, is_file, avail, unwritten, flags, loop, copied, budget>>

Step ==
    \/ ServeFile \/ EnterWait \/ Return \/ EpollWait \/ NextEvent \/ EndEvents
    \/ ProcessStdin \/ TimerCallback

Next ==
    \/ IoInit \/ Run \/ EpollError \/ WaitFails
    \/ \E w \in Timers, t, p \in 0..1 : TimerInit(w, t, p)
    \/ Step
    \/ (\E w \in Timers : Expire(w)) \/ WritePipe \/ ClosePipe

Fairness == WF_vars(Step)

Spec == Init /\ [][Next]_vars

-----------------------------------------------------------------------------
\* The application's list, the watchers' own state and the kernel agree, through all
\* starts and stops in callbacks and in the middle of a batch of events: a watcher is
\* listed, once, as long as it is active; epoll reports events for those with a
\* descriptor; whatever is active has an open descriptor.
WatchersAgree ==
    epoll => /\ IsInjective(watchers)
             /\ Listed = {w \in W : active[w] # 0}
             /\ interest = {w \in W : active[w] = 1}
             /\ Listed \subseteq fd /\ expired \subseteq fd /\ armed \subseteq interest

\* ev_run waits for events only when every watcher that needs a start has had it,
\* except the oldest one, which EV_FOREACH never visits: a timer in the list
\* whose time is not over is armed or has expired, and a file has been served.
OnlyOldestIsMissed ==
    pc = "wait" => \A w \in Visited :
        /\ active[w] # -1
        /\ w \in Timers /\ timeout[w] > 0 => w \in armed \cup expired

\* With an older watcher in the list, all of a file is copied, and its watcher leaves
\* the list.
FileIsCopied ==
    (running /\ is_file /\ Stdin \in Visited /\ pc = "loop") ~>
        (copied = Reads /\ Stdin \notin Listed)

\* "Handle special case: "prog < file.txt"" (main.c:551): the loop does not go to sleep
\* in epoll_wait on an input file that has not been read.
FileIsServed == pc = "wait" => ~(active[Stdin] = -1 /\ avail > 0)
=============================================================================
