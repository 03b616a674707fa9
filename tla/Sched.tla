------------------------------- MODULE Sched -------------------------------
(***************************************************************************)
(* The round-robin scheduler of kernel/sched.c on its single CPU.          *)
(*                                                                         *)
(* Tasks are their ids.  The circular list is the function next; its head, *)
(* task_list_head, is the boot task for ever.  A task that exists is in    *)
(* the list and stays there: nothing unlinks or frees a task.              *)
(*                                                                         *)
(* A system call runs with interrupts off (FMASK clears IF), so between    *)
(* its entry and its return the CPU changes hands only where the code      *)
(* calls the scheduler, or inside pit_sleep_ms, which opens interrupts     *)
(* around hlt.  Everywhere else the timer may preempt.                     *)
(***************************************************************************)
EXTENDS Naturals, FiniteSets

CONSTANTS MaxTasks,    \* bound: the largest task id the model creates
          ScanLimit    \* nodes pick_next looks at before it gives up (1024)

ASSUME SchedAssumption == /\ MaxTasks \in Nat
                          /\ MaxTasks >= 3
                          /\ ScanLimit \in Nat \ {0}

Boot  == 1   \* kernel_main, made a task by sched_init
Idle  == 2   \* the fallback of pick_next
Hello == 3   \* the first user task

Task     == 1..MaxTasks
UserTask == 3..MaxTasks

VARIABLES current,   \* the task on the CPU
          state,     \* task_state_t of every task; "NONE" before its creation
          next,      \* the circular list; 0 before creation
          next_id,   \* id of the next task created
          mode       \* where a task executes: its own code with interrupts on
                     \* ("run"), a system call ("syscall"), or the hlt of
                     \* pit_sleep_ms inside one ("sleep")

schedVars == <<current, state, next, next_id, mode>>

TaskState == {"NONE", "READY", "RUNNING", "BLOCKED", "DEAD"}

Created == {t \in Task : state[t] # "NONE"}

-----------------------------------------------------------------------------
(* Where the search of pick_next stands after k steps away from a task. *)
Walk(from) ==
    LET w[k \in Nat] == IF k = 0 THEN from ELSE next[w[k - 1]] IN w

(* Faulty variant: the search starts at the head of the list. *)
FirstReadyFromHead(st, from, t) ==
    LET w == Walk(Boot) IN
    \E k \in 1..ScanLimit :
        /\ w[k] = t
        /\ st[t] = "READY"
        /\ \A j \in 1..(k - 1) : st[w[j]] # "READY"
        /\ \A j \in 2..k : w[j] # Boot

(* Faulty variant: one node too few is looked at. *)
FirstReadyShort(st, from, t) ==
    LET w == Walk(from) IN
    \E k \in 1..(ScanLimit - 1) :
        /\ w[k] = t
        /\ st[t] = "READY"
        /\ \A j \in 1..(k - 1) : st[w[j]] # "READY"
        /\ \A j \in 2..k : w[j] # from

(* The search reaches t, finds it READY, and neither met an earlier READY  *)
(* task nor came round to its start.                                       *)
FirstReady(st, from, t) ==
    LET w == Walk(from) IN
    \E k \in 1..ScanLimit :
        /\ w[k] = t
        /\ st[t] = "READY"
        /\ \A j \in 1..(k - 1) : st[w[j]] # "READY"
        /\ \A j \in 2..k : w[j] # from

pick_next(st, from) ==
    IF \E t \in Task : FirstReady(st, from, t)
    THEN CHOOSE t \in Task : FirstReady(st, from, t)
    ELSE Idle

(* Faulty variant: the leaving task stays RUNNING. *)
SwitchedKeepsPrev(st, n) ==
    IF n = current THEN st ELSE [st EXCEPT ![n] = "RUNNING"]

(* The task states once the CPU is given to n. *)
Switched(st, n) ==
    IF n = current
    THEN st
    ELSE [st EXCEPT ![current] = IF @ = "RUNNING" THEN "READY" ELSE @,
                    ![n] = "RUNNING"]

(* The caller has already turned the task states into st. *)
do_switch_to(st, n) == /\ current' = n
                       /\ state' = Switched(st, n)

sched_yield(st) == do_switch_to(st, pick_next(st, current))

sched_tick == do_switch_to(state, pick_next(state, current))

task_block == sched_yield([state EXCEPT ![current] = "BLOCKED"])

task_exit == sched_yield([state EXCEPT ![current] = "DEAD"])

(* Faulty variant: wakes whatever state the task is in. *)
task_unblock_any(S) == [t \in Task |-> IF t \in S THEN "READY" ELSE state[t]]

(* Called for each task of S in turn. *)
task_unblock(S) ==
    [t \in Task |-> IF t \in S /\ state[t] = "BLOCKED" THEN "READY" ELSE state[t]]

sched_mark_task_dead(t) == [state EXCEPT ![t] = "DEAD"]

(* Faulty variant: the two links written in the other order. *)
InsertSwapped(t) == next' = [next EXCEPT ![Boot] = t, ![t] = t]

(* A new task goes in right behind the head of the list. *)
Insert(t) == next' = [next EXCEPT ![t] = next[Boot], ![Boot] = t]

task_fork_user == /\ next_id' = next_id + 1
                  /\ state' = [state EXCEPT ![next_id] = "READY"]
                  /\ Insert(next_id)

-----------------------------------------------------------------------------
(* sched_init has made boot and idle, kernel_main has added the first user *)
(* task and opened interrupts.                                             *)
Init == /\ current = Boot
        /\ state = [t \in Task |-> CASE t = Boot -> "RUNNING"
                                     [] t \in {Idle, Hello} -> "READY"
                                     [] OTHER -> "NONE"]
        /\ next = [t \in Task |-> CASE t = Boot -> Hello
                                    [] t = Hello -> Idle
                                    [] t = Idle -> Boot
                                    [] OTHER -> 0]
        /\ next_id = 4
        /\ mode = [t \in Task |-> "run"]

InSyscall == mode[current] = "syscall"

(* IRQ0 arrives while interrupts are on. *)
Tick == /\ ~InSyscall
        /\ sched_tick
        /\ UNCHANGED <<next, next_id, mode>>

SyscallEnter == /\ current \in UserTask
                /\ mode[current] = "run"
                /\ mode' = [mode EXCEPT ![current] = "syscall"]
                /\ UNCHANGED <<current, state, next, next_id>>

SyscallExit == /\ InSyscall
               /\ mode' = [mode EXCEPT ![current] = "run"]
               /\ UNCHANGED <<current, state, next, next_id>>

(* pit_sleep_ms: sti and hlt, and cli once the ticks have passed. *)
SleepBegin == /\ InSyscall
              /\ mode' = [mode EXCEPT ![current] = "sleep"]
              /\ UNCHANGED <<current, state, next, next_id>>

SleepEnd == /\ mode[current] = "sleep"
            /\ mode' = [mode EXCEPT ![current] = "syscall"]
            /\ UNCHANGED <<current, state, next, next_id>>

Yield == /\ InSyscall
         /\ sched_yield(state)
         /\ UNCHANGED <<next, next_id, mode>>

Block == /\ InSyscall
         /\ task_block
         /\ UNCHANGED <<next, next_id, mode>>

Unblock == /\ InSyscall
           /\ \E S \in SUBSET Created : state' = task_unblock(S)
           /\ UNCHANGED <<current, next, next_id, mode>>

Exit == /\ InSyscall
        /\ task_exit
        /\ UNCHANGED <<next, next_id, mode>>

(* kill of another task; any task id may be named. *)
Kill == /\ InSyscall
        /\ \E t \in Created \ {current} : state' = sched_mark_task_dead(t)
        /\ UNCHANGED <<current, next, next_id, mode>>

Fork == /\ InSyscall
        /\ next_id \in Task
        /\ task_fork_user
        /\ UNCHANGED <<current, mode>>

SchedNext == \/ Tick
             \/ SyscallEnter
             \/ SyscallExit
             \/ SleepBegin
             \/ SleepEnd
             \/ Yield
             \/ Block
             \/ Unblock
             \/ Exit
             \/ Kill
             \/ Fork

SchedSpec == Init /\ [][SchedNext]_schedVars

(* IRQ0 stays pending in the PIC while interrupts are off and is delivered *)
(* as soon as they are on: strong fairness.  A system call ends, or calls  *)
(* the scheduler, or halts in its sleep.  Nothing else is owed.            *)
LeaveKernel == SyscallExit \/ Yield \/ Block \/ Exit \/ SleepBegin

FairSchedSpec == /\ SchedSpec
                 /\ SF_schedVars(Tick)
                 /\ WF_schedVars(LeaveKernel)

-----------------------------------------------------------------------------
(* Every variable keeps its type (struct task, sched.c:45-64). *)
SchedTypeOK == /\ current \in Task
               /\ state \in [Task -> TaskState]
               /\ next \in [Task -> 0..MaxTasks]
               /\ next_id \in 4..(MaxTasks + 1)
               /\ mode \in [Task -> {"run", "syscall", "sleep"}]

(* Exactly the task on the CPU is RUNNING: no yield, block, exit or kill   *)
(* leaves the CPU on a task that must not run, or two tasks marked running *)
(* (do_switch_to, sched.c:211-217, on whatever pick_next returns).         *)
OneRunning == \A t \in Task : state[t] = "RUNNING" <=> t = current

(* The circular list is one cycle through every task ever created, the     *)
(* dead included: no insertion loses a task or closes a shorter loop       *)
(* (sched.c:424-432, 558-566).                                             *)
RingIsCycle ==
    LET w == Walk(Boot)
        n == Cardinality(Created)
    IN /\ {w[k] : k \in 0..(n - 1)} = Created
       /\ w[n] = Boot

(* "We go round the circle; idle only if no READY task was found"          *)
(* (pick_next, sched.c:195-205): while a READY task waits, the CPU goes to *)
(* a READY task.  It holds as long as the list has at most ScanLimit + 1   *)
(* tasks, and tasks are never taken out of it.                             *)
ReadyIsFound ==
    (\E t \in Task \ {current} : state[t] = "READY")
        => state[pick_next(state, current)] = "READY"

(* A task that died is never scheduled or woken again (signal.c:38); idle, *)
(* which pick_next hands out whatever its state, is the exception          *)
(* (sched.c:204).                                                          *)
DeadStaysDead ==
    [][\A t \in Task \ {Idle} : state[t] = "DEAD" => state'[t] = "DEAD"]_schedVars

(* Round robin starves nobody: no task stays READY for ever, it gets the   *)
(* CPU or is killed, whatever the others do (sched_tick, sched.c:272-277). *)
NoStarvation == \A t \in Task : []<>(state[t] # "READY")
=============================================================================
