------------------------------- MODULE Preempt -------------------------------
(***************************************************************************)
(* preempt_sched/task_sched.c: tasks with stacks of their own on one        *)
(* processor, switched by schedule() from the handler of SIGALRM or when a  *)
(* task ends.                                                               *)
(*                                                                          *)
(* The signal may come between any two instructions of the task that runs.  *)
(* schedule() runs with all signals blocked: it is one step, together with  *)
(* what the task it resumes does before it unblocks them again.  That       *)
(* preempt_count++ is a load and a store is modelled; a handler that finds  *)
(* preempt_count set returns and changes nothing.                           *)
(***************************************************************************)
EXTENDS Integers, Sequences, FiniteSets

CONSTANTS
    Main,           \* task_main
    Tasks,          \* a sequence: the tasks in the order of task_add
    Sections        \* bound: preempt_disable .. preempt_enable in the callback of a task

All == {Main} \cup {Tasks[i] : i \in DOMAIN Tasks}
Added == All \ {Main}

VARIABLES
    list,           \* the circular list through task_main, starting there
    task_current, task_reap, destroyed,
    preempt_count, reg,     \* the counter, and its copy in a register of each task
    blocked,        \* whether SIGALRM is blocked: in a task that has not yet unblocked it
    pc, todo        \* control, and the sections that a task still has to run

vars == <<list, task_current, task_reap, destroyed, preempt_count, reg, blocked, pc, todo>>
lists == <<list, task_reap, destroyed>>

TypeOK ==
    /\ list \in Seq(All) /\ list[1] = Main /\ task_current \in All
    /\ task_reap \subseteq Added /\ destroyed \subseteq Added
    /\ preempt_count \in 0 .. 1 /\ reg \in [All -> 0 .. 1] /\ blocked \in BOOLEAN
    /\ todo \in [All -> 0 .. Sections]

\* main, up to timer_create: the tasks were added and preemption is disabled.
Init ==
    /\ list = <<Main>> \o Tasks /\ task_current = Main
    /\ task_reap = {} /\ destroyed = {}
    /\ preempt_count = 1 /\ reg = [t \in All |-> 0] /\ blocked = FALSE
    /\ pc = [t \in All |-> IF t = Main THEN "loop" ELSE "new"]
    /\ todo = [t \in All |-> IF t = Main THEN 0 ELSE Sections]

Goto(from, to) ==
    /\ pc[task_current] = from
    /\ pc' = [pc EXCEPT ![task_current] = to]

Position(t) == CHOOSE j \in 1 .. Len(list) : list[j] = t

\* The entry behind that of t.
After(t) == IF Position(t) = Len(list) THEN list[1] ELSE list[Position(t) + 1]

\* list_move to task_reap takes t out of the list.
Without(t) == SubSeq(list, 1, Position(t) - 1) \o SubSeq(list, Position(t) + 1, Len(list))

\* Mutant: a task destroys what there is to reap before it switches, itself included.
schedule_ReapFirst(reap) ==
    LET next_task == After(task_current)
        leaving   == IF reap THEN {task_current} ELSE {}
    IN  /\ task_current' = IF reap THEN task_current ELSE next_task
        /\ list' = IF reap THEN Without(task_current) ELSE list
        /\ task_reap' = {}
        /\ destroyed' = destroyed \cup task_reap \cup leaving
        /\ blocked' = (pc[next_task] = "new")

\* schedule: a task that is to be reaped leaves the list.  A task that was switched away
\* before goes on behind task_switch_to and destroys what there is to reap; a new one
\* starts in task_trampoline, with the signal still blocked.
schedule(reap) ==
    LET next_task == After(task_current)
        leaving   == IF reap THEN {task_current} ELSE {}
        fresh     == pc[next_task] = "new"
        waiting   == task_reap \cup leaving
    IN  /\ task_current' = next_task
        /\ list' = IF reap THEN Without(task_current) ELSE list
        /\ task_reap' = IF fresh THEN waiting ELSE {}
        /\ destroyed' = IF fresh THEN destroyed ELSE destroyed \cup waiting
        /\ blocked' = fresh

\* Mutant: timer_handler does not look at preempt_count.
Tick_Always ==
    /\ ~blocked /\ pc[Main] # "exit"
    /\ schedule(FALSE)
    /\ pc' = IF pc[task_current] = "wait" THEN [pc EXCEPT ![task_current] = "disable"] ELSE pc
    /\ UNCHANGED <<preempt_count, reg, todo>>

\* SIGALRM, handled by timer_handler.  It also ends the sigsuspend of timer_wait, once
\* main runs again.
Tick ==
    /\ ~blocked /\ preempt_count = 0 /\ pc[Main] # "exit"
    /\ schedule(FALSE)
    /\ pc' = IF pc[task_current] = "wait" THEN [pc EXCEPT ![task_current] = "disable"] ELSE pc
    /\ UNCHANGED <<preempt_count, reg, todo>>

-----------------------------------------------------------------------------
(* preempt_disable and preempt_enable, of the task that runs.               *)

Load(from, to) ==
    /\ Goto(from, to)
    /\ reg' = [reg EXCEPT ![task_current] = preempt_count]
    /\ UNCHANGED <<lists, task_current, preempt_count, blocked, todo>>

Store(from, to, by) ==
    /\ Goto(from, to)
    /\ preempt_count' = reg[task_current] + by
    /\ reg' = [reg EXCEPT ![task_current] = 0]
    /\ UNCHANGED <<lists, task_current, blocked, todo>>

preempt_disable == Load("disable", "disabling") \/ Store("disabling", "critical", 1)
preempt_enable  == Load("enable", "enabling") \/ Store("enabling", "work", -1)

-----------------------------------------------------------------------------
(* A task: task_trampoline and the callback.                                *)

Trampoline ==
    /\ Goto("new", "work") /\ blocked' = FALSE
    /\ UNCHANGED <<lists, task_current, preempt_count, reg, todo>>

\* Between its sections a task computes; when all are done the callback returns and
\* schedule() is called with reap_self set.
Work ==
    /\ task_current # Main
    /\ \/ /\ todo[task_current] > 0 /\ Goto("work", "disable")
          /\ todo' = [todo EXCEPT ![task_current] = @ - 1]
          /\ UNCHANGED <<lists, task_current, preempt_count, reg, blocked>>
       \/ /\ todo[task_current] = 0 /\ Goto("work", "ended")
          /\ schedule(TRUE)
          /\ UNCHANGED <<preempt_count, reg, todo>>

Section ==
    /\ task_current # Main /\ Goto("critical", "enable")
    /\ UNCHANGED <<lists, task_current, preempt_count, reg, blocked, todo>>

-----------------------------------------------------------------------------
(* The loop of main, which runs with preemption disabled but for timer_wait.*)

MainTest ==
    /\ task_current = Main /\ pc[Main] \in {"loop", "critical"}
    /\ pc' = [pc EXCEPT ![Main] = "enable"]
    /\ todo' = [todo EXCEPT ![Main] = IF list = <<Main>> /\ task_reap = {} THEN 0 ELSE 1]
    /\ UNCHANGED <<lists, task_current, preempt_count, reg, blocked>>

\* Preemption is enabled again: wait for the timer, or cancel it and return.
MainGoOn ==
    /\ task_current = Main /\ Goto("work", IF todo[Main] = 1 THEN "wait" ELSE "exit")
    /\ UNCHANGED <<lists, task_current, preempt_count, reg, blocked, todo>>

Step == preempt_disable \/ preempt_enable \/ Trampoline \/ Work \/ Section \/ MainTest \/ MainGoOn

Next == Step \/ Tick

\* The timer is periodic, and a time slice is long enough for an instruction.
Fairness == WF_vars(Tick) /\ \A t \in All : SF_vars(task_current = t /\ Step)

Spec == Init /\ [][Next]_vars /\ Fairness

-----------------------------------------------------------------------------
\* Sections between preempt_disable and preempt_enable exclude each other, although the
\* counter is one for all tasks and is loaded and stored in two steps: no task is switched
\* away inside one, and the counter is set exactly while the running task is inside.
SectionsExclude ==
    LET inside == {t \in All : pc[t] \in {"loop", "critical", "enable", "enabling"}}
    IN  inside \subseteq {task_current} /\ preempt_count = Cardinality(inside)

\* A task is in the list until it ends, is then reaped by another one, once, and never
\* runs again.
TasksAreReaped ==
    /\ task_current \notin task_reap \cup destroyed
    /\ task_reap \cap destroyed = {}
    /\ task_reap \cup destroyed = {t \in Added : pc[t] = "ended"}
    /\ Len(list) = Cardinality(All) - Cardinality(task_reap \cup destroyed)
    /\ \A t \in All \ (task_reap \cup destroyed) : \E i \in DOMAIN list : list[i] = t
    /\ pc[Main] = "exit" => destroyed = Added

\* main returns, and all tasks have run to their end by then.
MainReturns == <>(pc[Main] = "exit")
=============================================================================
