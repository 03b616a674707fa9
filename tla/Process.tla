------------------------------ MODULE Process ------------------------------
(***************************************************************************)
(* Processes on top of the scheduler: the table of kernel/process.c and    *)
(* the system calls of kernel/sys_impl.c and kernel/signal.c that work on  *)
(* it: fork, clone, exit, wait4 and kill.  A process is a slot of the      *)
(* table; its pid is a number of its own, different from the ids of its    *)
(* tasks.  A task points at its slot, and nothing clears the pointer when  *)
(* the slot is freed and used again.                                       *)
(*                                                                         *)
(* Address spaces are in Context; a fork that runs out of memory shows     *)
(* here as the error it returns.                                           *)
(***************************************************************************)
EXTENDS Sched, FiniteSetsExt

CONSTANTS MaxProc,   \* slots of the table (32); two or more
          MaxPid,    \* bound: the largest pid the model gives out
          Named,     \* bound: the pids that a wait4 names
          Killable   \* bound: the task ids that a kill names

ASSUME ProcessAssumption == /\ MaxProc \in Nat /\ MaxProc >= 2
                            /\ MaxPid \in Nat \ {0}
                            /\ Named \subseteq 1..MaxPid
                            /\ Killable \subseteq Task

Slot == 1..MaxProc
Pid  == 1..MaxPid

VARIABLES proc,          \* processes[]
          next_pid,
          task_process,  \* the slot a task points at; 0 is NULL
          wanted,        \* the pids the wait4 of a task takes; {} when in none
          parent_pid,    \* the local of the same name in that wait4
          attached,      \* history: pid of the process a task was given
          forker,        \* history: the task that forked a pid
          reaper,        \* history: the task whose wait4 returned a pid
          threads        \* history: the tasks made by clone with CLONE_VM

waitVars == <<wanted, parent_pid>>
history  == <<attached, forker, reaper, threads>>
procVars == <<proc, next_pid, task_process, waitVars, history>>
allVars  == <<schedVars, procVars>>

ProcInit ==
    /\ Init
    /\ proc = [s \in Slot |-> [in_use |-> FALSE, pid |-> 0, parent |-> 0, zombie |-> FALSE]]
    /\ next_pid = 1
    /\ task_process = [t \in Task |-> 0]
    /\ wanted = [t \in Task |-> {}]
    /\ parent_pid = [t \in Task |-> 0]
    /\ attached = [t \in Task |-> 0]
    /\ forker = [p \in Pid |-> 0]
    /\ reaper = [p \in Pid |-> 0]
    /\ threads = {}

-----------------------------------------------------------------------------
InUse(table) == {s \in Slot : table[s].in_use}

(* The first free slot; 0 when the table is full. *)
FreeSlot(table) == IF InUse(table) = Slot THEN 0 ELSE Min(Slot \ InUse(table))

process_create(table, pid, parent) ==
    [table EXCEPT ![FreeSlot(table)] =
        [in_use |-> TRUE, pid |-> pid, parent |-> parent, zombie |-> FALSE]]

(* Faulty variant: every process of the table counts. *)
process_has_any(parent) == InUse(proc) # {}

process_has_children(parent) == \E s \in InUse(proc) : proc[s].parent = parent

ZombieChildren(parent) == {s \in InUse(proc) : proc[s].parent = parent /\ proc[s].zombie}

(* Faulty variant: the parent is not compared. *)
find_any_zombie(parent) == LET Z == {s \in InUse(proc) : proc[s].zombie}
                           IN IF Z = {} THEN 0 ELSE Min(Z)

(* Faulty variant: the last slot is not looked at. *)
find_zombie_short(parent) == LET Z == ZombieChildren(parent) \ {MaxProc}
                             IN IF Z = {} THEN 0 ELSE Min(Z)

process_find_zombie_child(parent) ==
    IF ZombieChildren(parent) = {} THEN 0 ELSE Min(ZombieChildren(parent))

(* A task is at a point where it may make a system call's decisions: in    *)
(* the kernel and not in the loop of wait4.                                *)
AtCall == InSyscall /\ wanted[current] = {}

-----------------------------------------------------------------------------
(* sys_fork.  No memory for the copy, or no slot: nothing is kept. *)
fork_fails == /\ AtCall
              /\ UNCHANGED allVars

(* No memory for the task: the slot is given back, its pid is used up. *)
fork_no_task == /\ AtCall
                /\ FreeSlot(proc) # 0
                /\ next_pid \in Pid
                /\ next_pid' = next_pid + 1
                /\ UNCHANGED <<schedVars, proc, task_process, waitVars, history>>

(* The caller has a process: the child is that process's child. *)
ForkFromProcess(child) ==
    /\ task_process[current] # 0
    /\ next_pid \in Pid
    /\ proc' = process_create(proc, next_pid, proc[task_process[current]].pid)
    /\ task_process' = [task_process EXCEPT ![next_id] = child]
    /\ attached' = [attached EXCEPT ![next_id] = next_pid]
    /\ next_pid' = next_pid + 1

(* Faulty variant: the two processes get one pid. *)
ForkFirstOnePid(child) ==
    LET made == process_create(proc, next_pid, current)
        own  == FreeSlot(made)
    IN /\ task_process[current] = 0
       /\ own # 0
       /\ next_pid \in Pid
       /\ proc' = [process_create(made, next_pid, 0) EXCEPT ![child].parent = next_pid]
       /\ task_process' = [task_process EXCEPT ![next_id] = child, ![current] = own]
       /\ attached' = [attached EXCEPT ![next_id] = next_pid, ![current] = next_pid]
       /\ next_pid' = next_pid + 1

(* It has none, as init before its first fork: one is made for it behind   *)
(* the child's, and the child's parent, its task id so far, is corrected.  *)
ForkFirst(child) ==
    LET made == process_create(proc, next_pid, current)
        own  == FreeSlot(made)
    IN /\ task_process[current] = 0
       /\ own # 0
       /\ next_pid + 1 \in Pid
       /\ proc' = [process_create(made, next_pid + 1, 0)
                      EXCEPT ![child].parent = next_pid + 1]
       /\ task_process' = [task_process EXCEPT ![next_id] = child, ![current] = own]
       /\ attached' = [attached EXCEPT ![next_id] = next_pid, ![current] = next_pid + 1]
       /\ next_pid' = next_pid + 2

(* It has none, and the table is full after the child's. *)
ForkFirstFull(child) ==
    LET made == process_create(proc, next_pid, current)
    IN /\ task_process[current] = 0
       /\ FreeSlot(made) = 0
       /\ next_pid \in Pid
       /\ proc' = made
       /\ task_process' = [task_process EXCEPT ![next_id] = child]
       /\ attached' = [attached EXCEPT ![next_id] = next_pid]
       /\ next_pid' = next_pid + 1

sys_fork == /\ AtCall
            /\ FreeSlot(proc) # 0
            /\ Fork
            /\ LET child == FreeSlot(proc) IN
                  \/ ForkFromProcess(child)
                  \/ ForkFirst(child)
                  \/ ForkFirstFull(child)
            /\ forker' = [forker EXCEPT ![next_pid] = current]
            /\ UNCHANGED <<waitVars, reaper, threads>>

(* sys_clone with CLONE_VM: a task of the caller's process, if any. *)
sys_clone == /\ AtCall
             /\ Fork
             /\ task_process' = [task_process EXCEPT ![next_id] = task_process[current]]
             /\ attached' = [attached EXCEPT ![next_id] = attached[current]]
             /\ threads' = threads \cup {next_id}
             /\ UNCHANGED <<proc, next_pid, waitVars, forker, reaper>>

(* Faulty variant: the task goes on after its process has become a zombie. *)
sys_exit_returns == /\ AtCall
                    /\ proc' = IF task_process[current] = 0 THEN proc
                               ELSE [proc EXCEPT ![task_process[current]].zombie = TRUE]
                    /\ Yield
                    /\ UNCHANGED <<next_pid, task_process, waitVars, history>>

(* sys_exit: the process becomes a zombie and the task dies. *)
sys_exit == /\ AtCall
            /\ proc' = IF task_process[current] = 0 THEN proc
                       ELSE [proc EXCEPT ![task_process[current]].zombie = TRUE]
            /\ Exit
            /\ UNCHANGED <<next_pid, task_process, waitVars, history>>

(* sys_kill takes a task id.  A task that kills itself exits, any other is *)
(* marked dead; neither becomes a zombie process.                          *)
sys_kill(t) == /\ AtCall
               /\ t \in Created
               /\ IF t = current
                  THEN task_exit
                  ELSE state' = sched_mark_task_dead(t) /\ UNCHANGED current
               /\ UNCHANGED <<next, next_id, mode, procVars>>

-----------------------------------------------------------------------------
(* The zombie at hand is one that the caller asked for. *)
Takes(z, pids) == z # 0 /\ proc[z].pid \in pids

process_free(s) == [proc EXCEPT ![s].in_use = FALSE]

(* One turn of the loop of sys_wait4. *)
WaitTurn(parent, pids) ==
    LET z == process_find_zombie_child(parent) IN
    \/ /\ Takes(z, pids)
       /\ proc' = process_free(z)
       /\ reaper' = [reaper EXCEPT ![proc[z].pid] = current]
       /\ wanted' = [wanted EXCEPT ![current] = {}]
       /\ parent_pid' = [parent_pid EXCEPT ![current] = 0]
       /\ UNCHANGED schedVars
    \/ /\ ~Takes(z, pids)
       /\ wanted' = [wanted EXCEPT ![current] = pids]
       /\ parent_pid' = [parent_pid EXCEPT ![current] = parent]
       /\ Yield
       /\ UNCHANGED <<proc, reaper>>

(* The caller's process; 1 for a task that has none. *)
ParentPid(t) == IF task_process[t] = 0 THEN 1 ELSE proc[task_process[t]].pid

(* sys_wait4 with a pid or -1.  With WNOHANG, or with no child at all, it  *)
(* returns at once when it does not find what it wants.                    *)
sys_wait4 == /\ AtCall
             /\ \E pids \in {Pid} \cup {{p} : p \in Named} :
                   /\ process_has_children(ParentPid(current))
                   /\ WaitTurn(ParentPid(current), pids)
             /\ UNCHANGED <<next_pid, task_process, attached, forker, threads>>

(* Back from sys_yield, the loop looks for a zombie again. *)
wait4_again == /\ InSyscall
               /\ wanted[current] # {}
               /\ WaitTurn(parent_pid[current], wanted[current])
               /\ UNCHANGED <<next_pid, task_process, attached, forker, threads>>

-----------------------------------------------------------------------------
TimerTick  == Tick /\ UNCHANGED procVars
Enter      == SyscallEnter /\ UNCHANGED procVars
Return     == AtCall /\ SyscallExit /\ UNCHANGED procVars
YieldCall  == AtCall /\ Yield /\ UNCHANGED procVars

ProcNext == \/ TimerTick
            \/ Enter
            \/ Return
            \/ YieldCall
            \/ fork_fails
            \/ fork_no_task
            \/ sys_fork
            \/ sys_clone
            \/ sys_exit
            \/ \E t \in Killable : sys_kill(t)
            \/ sys_wait4
            \/ wait4_again

ProcSpec == ProcInit /\ [][ProcNext]_allVars

(* The timer as in FairSchedSpec; a system call goes on until it returns,  *)
(* exits or gives the CPU away.                                            *)
FairProcSpec == /\ ProcSpec
                /\ SF_allVars(TimerTick)
                /\ WF_allVars(Return \/ YieldCall \/ sys_exit \/ wait4_again)

-----------------------------------------------------------------------------
(* A pid names one process, however slots are freed and used again and     *)
(* forks fail half way: no two slots in use have the same, and none has    *)
(* one that is still to be given out (process.c:29-49, sys_impl.c:355-420). *)
OnePidEach ==
    \A s, r \in InUse(proc) : /\ proc[s].pid \in 1..(next_pid - 1)
                              /\ proc[s].pid = proc[r].pid => s = r

Alive(t) == state[t] \notin {"NONE", "DEAD"}

(* PROC_ZOMBIE is "exited, waits for the parent's wait()" (process.h:12):  *)
(* no task of a zombie process is still alive.                             *)
ZombieHasExited ==
    \A t \in Task, s \in InUse(proc) :
        task_process[t] = s /\ attached[t] = proc[s].pid /\ proc[s].zombie => ~Alive(t)

(* While no thread was ever made, a live task's process is still the one   *)
(* it was given: its slot was not freed or used again behind its back      *)
(* (process_free by the parent's wait4, process.c:78-81).                  *)
OwnProcess ==
    threads = {} =>
        /\ ZombieHasExited
        /\ \A t \in Task : Alive(t) /\ task_process[t] # 0 =>
              /\ proc[task_process[t]].in_use
              /\ proc[task_process[t]].pid = attached[t]

(* A child is reported by wait4 to the process that forked it and to no    *)
(* other, although its parent is set before that process exists and pids   *)
(* and task ids are mixed on the way (sys_impl.c:349-356, 409-417).        *)
ReapedByParent ==
    threads = {} => \A p \in Pid : reaper[p] # 0 => reaper[p] = forker[p]

(* wait4 asks for children once and then loops without asking again        *)
(* (sys_impl.c:583-600): while no thread was ever made, the answer cannot  *)
(* go stale.                                                               *)
WaiterHasChild ==
    threads = {} => \A t \in Task : wanted[t] # {} =>
                        \E s \in InUse(proc) : proc[s].parent = parent_pid[t]

(* wait4(-1) ends: once a child is a zombie, the waiting task takes it or  *)
(* loses it to another task of its process, or dies (sys_impl.c:585-600).  *)
AnyChildIsReaped ==
    \A t \in UserTask :
        wanted[t] = Pid /\ ZombieChildren(parent_pid[t]) # {}
            ~> \/ wanted[t] # Pid \/ state[t] = "DEAD"
               \/ ZombieChildren(parent_pid[t]) = {}

(* "Skip it, yield and look again" (sys_impl.c:589): wait4 of one pid ends *)
(* once that child is a zombie.                                            *)
WantedChildIsReaped ==
    \A t \in UserTask, p \in Pid :
        wanted[t] = {p} /\ (\E z \in ZombieChildren(parent_pid[t]) : proc[z].pid = p)
            ~> wanted[t] # {p} \/ state[t] = "DEAD"
=============================================================================
