--------------------------- MODULE ProcessProofs ---------------------------
(***************************************************************************)
(* The process table is an addition to the scheduler: fork, clone, exit,   *)
(* kill and wait4 change the task list only in the ways the scheduler      *)
(* specification allows, so its theorems hold of them.                     *)
(*                                                                         *)
(* The table's own properties rest on ProcInv.  TableInv holds always;     *)
(* FamilyInv, as long as no thread was made, ties each task to a slot and  *)
(* a pid of its own, and each slot to the task that forked it.             *)
(***************************************************************************)
EXTENDS Process, SchedProofs, WellFoundedInduction

(* A turn of wait4's loop yields or leaves the scheduler alone. *)
LEMMA WaitTurnYields ==
    ASSUME NEW parent, NEW pids, InSyscall, WaitTurn(parent, pids)
    PROVE  Yield \/ UNCHANGED schedVars
  BY DEF WaitTurn

(* Every action of Process carries one of the scheduler, or none. *)
LEMMA ProcImpliesSched ==
    ASSUME [ProcNext]_allVars
    PROVE  [SchedNext]_schedVars
  <1>1. CASE UNCHANGED allVars
    BY <1>1 DEF allVars
  <1>2. CASE TimerTick \/ Enter \/ Return \/ YieldCall
    BY <1>2 DEF TimerTick, Enter, Return, YieldCall, SchedNext
  <1>3. CASE fork_fails \/ fork_no_task
    BY <1>3 DEF fork_fails, fork_no_task, allVars
  <1>4. CASE sys_fork \/ sys_clone
    BY <1>4 DEF sys_fork, sys_clone, SchedNext
  <1>5. CASE sys_exit
    BY <1>5 DEF sys_exit, SchedNext
  <1>6. ASSUME NEW t \in Killable, sys_kill(t)
        PROVE  Exit \/ Kill
    <2>1. InSyscall /\ t \in Created /\ UNCHANGED <<next, next_id, mode>>
      BY <1>6 DEF sys_kill, AtCall
    <2>2. CASE t = current
      BY <1>6, <2>1, <2>2 DEF sys_kill, Exit
    <2>3. CASE t # current
      <3>1. t \in Created \ {current} /\ state' = sched_mark_task_dead(t) /\ UNCHANGED current
        BY <1>6, <2>1, <2>3 DEF sys_kill
      <3>2. QED
        BY <2>1, <3>1 DEF Kill
    <2>4. QED
      BY <2>2, <2>3
  <1>7. CASE sys_wait4 \/ wait4_again
    <2>1. \E parent, pids : InSyscall /\ WaitTurn(parent, pids)
      BY <1>7 DEF sys_wait4, wait4_again, AtCall
    <2>2. QED
      BY <2>1, WaitTurnYields DEF SchedNext
  <1>8. QED
    BY <1>1, <1>2, <1>3, <1>4, <1>5, <1>6, <1>7 DEF ProcNext, SchedNext

(* Dropping the table, every behaviour is one of the scheduler. *)
THEOREM ProcessImplementsSched == ProcSpec => SchedSpec
  <1>1. ProcInit => Init
    BY DEF ProcInit
  <1>2. QED
    BY <1>1, ProcImpliesSched, PTL DEF ProcSpec, SchedSpec

(* No fork, exit, kill or wait leaves two tasks running, or none. *)
THEOREM ProcessOneTaskRuns == ProcSpec => []OneRunning
  BY ProcessImplementsSched, OneTaskRuns, PTL

-----------------------------------------------------------------------------
(* The types of processes[]. *)
Table == [Slot -> [in_use : BOOLEAN, pid : Nat, parent : Nat, zombie : BOOLEAN]]

(* The table itself, threads or not. *)
ProcTypeOK ==
    /\ proc \in Table
    /\ next_pid \in Nat \ {0}
    /\ task_process \in [Task -> 0..MaxProc]
    /\ wanted \in [Task -> SUBSET Pid]
    /\ parent_pid \in [Task -> Nat]
    /\ attached \in [Task -> Nat]
    /\ forker \in [Pid -> 0..MaxTasks]
    /\ reaper \in [Pid -> 0..MaxTasks]

TableInv == ProcTypeOK /\ OnePidEach

(* A process each: every task but the kernel's and one that never forked   *)
(* was given a pid of its own, and none of those is still to come.         *)
PidEach ==
    /\ task_process[Boot] = 0 /\ task_process[Idle] = 0
    /\ \A t \in Task :
          /\ attached[t] < next_pid
          /\ attached[t] = 0 <=> task_process[t] = 0
          /\ \A u \in Task : attached[t] = attached[u] /\ attached[t] # 0 => t = u
          /\ t > Hello => (t < next_id <=> task_process[t] # 0)
    /\ task_process[Hello] = 0 => InUse(proc) = {}

(* The slot of a live task is its own, and not a zombie's. *)
SlotIsOwn ==
    \A t \in Task : Alive(t) /\ task_process[t] # 0 =>
       /\ proc[task_process[t]].in_use
       /\ proc[task_process[t]].pid = attached[t]
       /\ ~proc[task_process[t]].zombie

(* The parent in a slot is the process of the task that forked it. *)
ParentForked ==
    /\ \A s \in InUse(proc) :
          /\ proc[s].pid \in Pid /\ proc[s].parent < next_pid
          /\ \A t \in Task : attached[t] # 0 /\ attached[t] = proc[s].parent
                => forker[proc[s].pid] = t
    /\ \A p \in Pid : reaper[p] # 0 => reaper[p] = forker[p] /\ p < next_pid

(* A task in the loop of wait4 looks for children of its own process, and  *)
(* there is one.                                                           *)
WaitsForOwn ==
    \A t \in Task : wanted[t] # {} =>
       /\ parent_pid[t] = attached[t] /\ attached[t] # 0
       /\ \E s \in InUse(proc) : proc[s].parent = parent_pid[t]

FamilyInv == threads = {} => PidEach /\ SlotIsOwn /\ ParentForked /\ WaitsForOwn

-----------------------------------------------------------------------------
(* The least of some numbers is one of them. *)
LEMMA MinIn == ASSUME NEW S \in SUBSET Nat, S # {} PROVE Min(S) \in S
  <1>1. PICK x \in S : \A y \in S : ~(<<y, x>> \in OpToRel(<, Nat))
    BY NatLessThanWellFounded, WFMin, Zenon
  <1>2. \A y \in S : ~(y < x)
    BY <1>1 DEF OpToRel
  <1>3. \A y \in S : x <= y
    BY <1>2
  <1>4. QED
    BY <1>3 DEF Min

(* process_create takes a slot that was free. *)
LEMMA FreeSlotIsFree ==
    ASSUME NEW table, FreeSlot(table) # 0
    PROVE  FreeSlot(table) \in Slot /\ FreeSlot(table) \notin InUse(table)
  <1>1. InUse(table) # Slot /\ FreeSlot(table) = Min(Slot \ InUse(table))
    BY DEF FreeSlot
  <1>2. InUse(table) \subseteq Slot
    BY DEF InUse
  <1>3. Slot \ InUse(table) # {}
    BY <1>1, <1>2, Zenon
  <1>4. Slot \ InUse(table) \in SUBSET Nat
    BY ProcessAssumption DEF Slot
  <1>5. QED
    BY <1>1, <1>3, <1>4, MinIn

(* A full table has no free slot. *)
LEMMA FullTable ==
    ASSUME NEW table, FreeSlot(table) = 0
    PROVE  InUse(table) = Slot
  <1>1. SUFFICES ASSUME InUse(table) # Slot PROVE FALSE
    OBVIOUS
  <1>2. Slot \ InUse(table) # {} /\ Slot \ InUse(table) \in SUBSET Nat
    BY <1>1, ProcessAssumption DEF Slot, InUse
  <1>3. Min(Slot \ InUse(table)) \in Slot
    BY <1>2, MinIn
  <1>4. QED
    BY <1>1, <1>3, ProcessAssumption DEF FreeSlot, Slot

(* What process_create does to a table. *)
LEMMA SlotFilled ==
    ASSUME NEW table \in Table, FreeSlot(table) # 0, NEW pid \in Nat, NEW parent \in Nat
    PROVE  LET s == FreeSlot(table)
               made == process_create(table, pid, parent)
           IN /\ made \in Table
              /\ InUse(made) = InUse(table) \cup {s}
              /\ made[s].pid = pid /\ made[s].parent = parent /\ ~made[s].zombie
              /\ \A r \in Slot \ {s} : made[r] = table[r]
  <1> DEFINE s == FreeSlot(table)
             new == [in_use |-> TRUE, pid |-> pid, parent |-> parent, zombie |-> FALSE]
  <1>1. s \in Slot
    BY FreeSlotIsFree
  <1>2. process_create(table, pid, parent) = [table EXCEPT ![s] = new]
    BY DEF process_create
  <1>3. new \in [in_use : BOOLEAN, pid : Nat, parent : Nat, zombie : BOOLEAN]
    OBVIOUS
  <1>4. /\ new.in_use /\ new.pid = pid /\ new.parent = parent /\ ~new.zombie
    OBVIOUS
  <1> HIDE DEF s, new
  <1>5. /\ [table EXCEPT ![s] = new] \in Table
        /\ [table EXCEPT ![s] = new][s] = new
        /\ \A r \in Slot \ {s} : [table EXCEPT ![s] = new][r] = table[r]
    BY <1>1, <1>3 DEF Table
  <1>6. InUse([table EXCEPT ![s] = new]) = InUse(table) \cup {s}
    BY <1>1, <1>4, <1>5 DEF InUse
  <1>7. QED
    BY <1>2, <1>4, <1>5, <1>6 DEF s

(* The zombie that the search finds. *)
LEMMA ZombieFound ==
    ASSUME NEW parent, process_find_zombie_child(parent) # 0
    PROVE  /\ process_find_zombie_child(parent) \in InUse(proc)
           /\ proc[process_find_zombie_child(parent)].parent = parent
           /\ proc[process_find_zombie_child(parent)].zombie
  <1>1. /\ ZombieChildren(parent) # {}
        /\ process_find_zombie_child(parent) = Min(ZombieChildren(parent))
    BY DEF process_find_zombie_child
  <1>2. ZombieChildren(parent) \in SUBSET Nat
    BY ProcessAssumption DEF ZombieChildren, InUse, Slot
  <1>3. process_find_zombie_child(parent) \in ZombieChildren(parent)
    BY <1>1, <1>2, MinIn
  <1>4. QED
    BY <1>3 DEF ZombieChildren

(* Only a fork makes a task alive. *)
LEMMA AliveStep ==
    ASSUME SchedInv, [SchedNext]_schedVars, next_id' \in {next_id, next_id + 1},
           NEW t \in Task \ {Idle}, Alive(t)'
    PROVE  Alive(t) \/ (t = next_id /\ next_id' = next_id + 1)
  <1>1. SchedInv' /\ (state[t] = "DEAD" => state'[t] = "DEAD")
    BY SchedStep
  <1>2. t < next_id'
    BY <1>1 DEF SchedInv, IdsInOrder, SchedTypeOK, Alive, Task
  <1>3. CASE t < next_id
    <2>1. state[t] # "NONE"
      BY <1>3 DEF SchedInv, IdsInOrder, SchedTypeOK, Task
    <2>2. state'[t] # "DEAD"
      BY DEF Alive
    <2>3. QED
      BY <1>1, <2>1, <2>2 DEF Alive
  <1>4. CASE t >= next_id
    BY <1>2, <1>4 DEF SchedInv, SchedTypeOK, Task
  <1>5. QED
    BY <1>3, <1>4 DEF SchedInv, SchedTypeOK, Task

(* A system call is made by a user task that is alive. *)
LEMMA Caller ==
    ASSUME SchedInv, InSyscall
    PROVE  /\ current \in Task /\ current \notin {Boot, Idle}
           /\ current >= Hello /\ current < next_id
           /\ state[current] = "RUNNING" /\ Alive(current)
           /\ next_id \in Nat
  <1>1. current \in Task /\ state[current] = "RUNNING"
    BY DEF SchedInv, SchedTypeOK, OneRunning
  <1>2. current \notin {Boot, Idle}
    BY DEF SchedInv, KernelTasksRun, InSyscall
  <1>3. current < next_id /\ next_id \in Nat
    BY <1>1 DEF SchedInv, IdsInOrder, SchedTypeOK, Task
  <1>4. QED
    BY <1>1, <1>2, <1>3, SchedAssumption DEF Task, Boot, Idle, Hello, Alive

-----------------------------------------------------------------------------
(* The inductive invariant. *)
ProcInv == SchedInv /\ TableInv /\ FamilyInv

(* Steps that leave the table, the pointers and the waits alone. *)
LEMMA SameTable ==
    ASSUME ProcInv, [SchedNext]_schedVars, next_id' = next_id, UNCHANGED procVars
    PROVE  TableInv' /\ FamilyInv'
  <1>1. UNCHANGED <<proc, next_pid, task_process, wanted, parent_pid,
                    attached, forker, reaper, threads>>
    BY DEF procVars, waitVars, history
  <1>2. TableInv'
    BY <1>1 DEF ProcInv, TableInv, ProcTypeOK, OnePidEach, InUse
  <1>3. FamilyInv'
    <2> SUFFICES ASSUME threads = {}
                 PROVE  PidEach' /\ SlotIsOwn' /\ ParentForked' /\ WaitsForOwn'
      BY <1>1 DEF FamilyInv
    <2>1. PidEach /\ SlotIsOwn /\ ParentForked /\ WaitsForOwn
      BY DEF ProcInv, FamilyInv
    <2>2. PidEach'
      BY <1>1, <2>1 DEF PidEach, InUse
    <2>3. ParentForked' /\ WaitsForOwn'
      BY <1>1, <2>1 DEF ParentForked, WaitsForOwn, InUse
    <2>4. \A t \in Task \ {Idle} : Alive(t)' => Alive(t)
      BY AliveStep DEF ProcInv, SchedInv, SchedTypeOK
    <2>5. SlotIsOwn'
      BY <1>1, <2>1, <2>4 DEF SlotIsOwn, PidEach
    <2>6. QED
      BY <2>2, <2>3, <2>5
  <1>4. QED
    BY <1>2, <1>3

(* A fork that fails after the pid was given out. *)
LEMMA PidWasted ==
    ASSUME ProcInv, fork_no_task
    PROVE  TableInv' /\ FamilyInv'
  <1>1. /\ next_pid' = next_pid + 1
        /\ UNCHANGED <<current, state, next, next_id, mode, proc, task_process, wanted,
                       parent_pid, attached, forker, reaper, threads>>
    BY DEF fork_no_task, schedVars, waitVars, history
  <1>2. next_pid \in Nat \ {0} /\ attached \in [Task -> Nat] /\ proc \in Table
    BY DEF ProcInv, TableInv, ProcTypeOK
  <1>3. TableInv'
    BY <1>1, <1>2 DEF ProcInv, TableInv, ProcTypeOK, OnePidEach, InUse, Table
  <1>4. FamilyInv'
    <2> SUFFICES ASSUME threads = {}
                 PROVE  PidEach' /\ SlotIsOwn' /\ ParentForked' /\ WaitsForOwn'
      BY <1>1 DEF FamilyInv
    <2>1. PidEach /\ SlotIsOwn /\ ParentForked /\ WaitsForOwn
      BY DEF ProcInv, FamilyInv
    <2>2. PidEach'
      BY <1>1, <1>2, <2>1 DEF PidEach, InUse
    <2>3. SlotIsOwn' /\ WaitsForOwn'
      BY <1>1, <2>1 DEF SlotIsOwn, Alive, WaitsForOwn, InUse
    <2>4. \A s \in Slot : proc[s].parent \in Nat
      BY <1>2 DEF Table
    <2>5. ParentForked'
      BY <1>1, <1>2, <2>1, <2>4 DEF ParentForked, InUse, Pid
    <2>6. QED
      BY <2>2, <2>3, <2>5
  <1>5. QED
    BY <1>3, <1>4

(* A new thread shares its creator's slot; no more is said from then on. *)
LEMMA CloneStep ==
    ASSUME ProcInv, sys_clone
    PROVE  TableInv' /\ FamilyInv'
  <1>1. /\ task_process' = [task_process EXCEPT ![next_id] = task_process[current]]
        /\ attached' = [attached EXCEPT ![next_id] = attached[current]]
        /\ threads' # {}
        /\ UNCHANGED <<proc, next_pid, wanted, parent_pid, forker, reaper>>
    BY DEF sys_clone, waitVars
  <1>2. current \in Task
    BY Caller DEF sys_clone, AtCall, ProcInv
  <1>3. TableInv'
    BY <1>1, <1>2 DEF ProcInv, TableInv, ProcTypeOK, OnePidEach, InUse
  <1>4. QED
    BY <1>1, <1>3 DEF FamilyInv

(* exit: the caller is dead, so its slot may be a zombie's. *)
LEMMA ExitStep ==
    ASSUME ProcInv, sys_exit
    PROVE  TableInv' /\ FamilyInv'
  <1> DEFINE s == task_process[current]
  <1>1. /\ s = 0 => proc' = proc
        /\ s # 0 => proc' = [proc EXCEPT ![s].zombie = TRUE]
        /\ Exit /\ InSyscall
        /\ UNCHANGED <<next_pid, task_process, wanted, parent_pid,
                       attached, forker, reaper, threads>>
    BY DEF sys_exit, AtCall, waitVars, history
  <1>2. /\ current \in Task /\ Alive(current)
        /\ proc \in Table /\ task_process \in [Task -> 0..MaxProc]
    BY <1>1, Caller DEF ProcInv, TableInv, ProcTypeOK
  <1>3. s # 0 => s \in Slot
    BY <1>2, ProcessAssumption DEF Slot
  <1>4. /\ proc' \in Table
        /\ \A r \in Slot : /\ proc'[r].in_use = proc[r].in_use
                           /\ proc'[r].pid = proc[r].pid
                           /\ proc'[r].parent = proc[r].parent
                           /\ r # s => proc'[r].zombie = proc[r].zombie
    <2>1. CASE s = 0
      BY <1>1, <1>2, <2>1
    <2>2. CASE s # 0
      <3>1. s \in Slot /\ proc' = [proc EXCEPT ![s] = [proc[s] EXCEPT !.zombie = TRUE]]
        BY <1>1, <1>3, <2>2
      <3>2. proc[s] \in [in_use : BOOLEAN, pid : Nat, parent : Nat, zombie : BOOLEAN]
        BY <1>2, <3>1 DEF Table
      <3> DEFINE new == [proc[s] EXCEPT !.zombie = TRUE]
      <3>3. /\ new \in [in_use : BOOLEAN, pid : Nat, parent : Nat, zombie : BOOLEAN]
            /\ new.in_use = proc[s].in_use /\ new.pid = proc[s].pid
            /\ new.parent = proc[s].parent
        BY <3>2
      <3> HIDE DEF new, s
      <3>4. proc' = [proc EXCEPT ![s] = new]
        BY <3>1 DEF new
      <3>5. proc'[s] = new /\ \A r \in Slot \ {s} : proc'[r] = proc[r]
        BY <1>2, <3>1, <3>4 DEF Table
      <3>6. proc' \in Table
        BY <1>2, <3>1, <3>3, <3>4 DEF Table
      <3>7. QED
        BY <3>3, <3>5, <3>6
    <2>3. QED
      BY <2>1, <2>2
  <1> HIDE DEF s
  <1>5. InUse(proc)' = InUse(proc)
    BY <1>4 DEF InUse
  <1>6. InUse(proc) \subseteq Slot
    BY DEF InUse
  <1>7. TableInv'
    BY <1>1, <1>4, <1>5, <1>6 DEF ProcInv, TableInv, ProcTypeOK, OnePidEach
  <1>8. FamilyInv'
    <2> SUFFICES ASSUME threads = {}
                 PROVE  PidEach' /\ SlotIsOwn' /\ ParentForked' /\ WaitsForOwn'
      BY <1>1 DEF FamilyInv
    <2>1. PidEach /\ SlotIsOwn /\ ParentForked /\ WaitsForOwn
      BY DEF ProcInv, FamilyInv
    <2>2. next_id' = next_id /\ [SchedNext]_schedVars
      BY <1>1 DEF Exit, SchedNext
    <2>3. PidEach'
      BY <1>1, <1>5, <2>1, <2>2 DEF PidEach
    <2>4. ParentForked' /\ WaitsForOwn'
      BY <1>1, <1>4, <1>5, <1>6, <2>1 DEF ParentForked, WaitsForOwn
    <2>5. state'[current] = "DEAD"
      BY <1>1, SwitchTarget DEF ProcInv
    <2>6. \A t \in Task \ {Idle} : Alive(t)' => Alive(t)
      BY <2>2, AliveStep DEF ProcInv, SchedInv, SchedTypeOK
    <2>7. SlotIsOwn'
      <3> SUFFICES ASSUME NEW t \in Task, Alive(t)', task_process[t] # 0
                   PROVE  /\ proc'[task_process[t]].in_use
                          /\ proc'[task_process[t]].pid = attached[t]
                          /\ ~proc'[task_process[t]].zombie
        BY <1>1 DEF SlotIsOwn
      <3>1. t # current /\ t # Idle /\ Alive(t)
        BY <2>1, <2>5, <2>6 DEF Alive, PidEach
      <3>2. task_process[t] \in Slot
        BY <1>2, ProcessAssumption DEF Slot
      <3>3. /\ proc[task_process[t]].in_use /\ ~proc[task_process[t]].zombie
            /\ proc[task_process[t]].pid = attached[t]
        BY <2>1, <3>1 DEF SlotIsOwn
      <3>4. task_process[t] # s
        <4>1. SUFFICES ASSUME task_process[t] = s PROVE FALSE
          OBVIOUS
        <4>2. s # 0 /\ proc[s].pid = attached[current]
          BY <1>2, <2>1, <4>1 DEF SlotIsOwn, s
        <4>3. attached[t] = attached[current] /\ attached[t] # 0
          BY <1>2, <2>1, <3>3, <4>1, <4>2 DEF PidEach
        <4>4. QED
          BY <1>2, <2>1, <3>1, <4>3 DEF PidEach
      <3>5. QED
        BY <1>4, <3>2, <3>3, <3>4
    <2>8. QED
      BY <2>3, <2>4, <2>7
  <1>9. QED
    BY <1>7, <1>8

-----------------------------------------------------------------------------
(* A slot is given back: the table without it. *)
LEMMA Freed ==
    ASSUME proc \in Table, NEW z \in InUse(proc)
    PROVE  /\ process_free(z) \in Table
           /\ InUse(process_free(z)) = InUse(proc) \ {z}
           /\ \A r \in Slot \ {z} : process_free(z)[r] = proc[r]
  <1> DEFINE new == [proc[z] EXCEPT !.in_use = FALSE]
  <1>1. z \in Slot
    BY DEF InUse
  <1>2. proc[z] \in [in_use : BOOLEAN, pid : Nat, parent : Nat, zombie : BOOLEAN]
    BY <1>1 DEF Table
  <1>3. /\ new \in [in_use : BOOLEAN, pid : Nat, parent : Nat, zombie : BOOLEAN]
        /\ ~new.in_use
    BY <1>2
  <1>4. process_free(z) = [proc EXCEPT ![z] = new]
    BY DEF process_free
  <1> HIDE DEF new
  <1>5. /\ process_free(z) \in Table
        /\ process_free(z)[z] = new
        /\ \A r \in Slot \ {z} : process_free(z)[r] = proc[r]
    BY <1>1, <1>3, <1>4 DEF Table
  <1>6. QED
    BY <1>3, <1>5 DEF InUse

(* A turn of wait4: no live task loses its slot, as it is a zombie's, and  *)
(* no other waiting task loses its child, as its own pid is another.       *)
LEMMA WaitKeeps ==
    ASSUME ProcInv, InSyscall, NEW parent \in Nat, NEW pids \in SUBSET Pid,
           WaitTurn(parent, pids),
           threads = {} => /\ parent = attached[current] /\ parent # 0
                           /\ \E s \in InUse(proc) : proc[s].parent = parent,
           UNCHANGED <<next_pid, task_process, attached, forker, threads>>
    PROVE  TableInv' /\ FamilyInv'
  <1> DEFINE z == process_find_zombie_child(parent)
  <1>1. /\ current \in Task /\ Alive(current)
        /\ proc \in Table /\ wanted \in [Task -> SUBSET Pid] /\ parent_pid \in [Task -> Nat]
        /\ reaper \in [Pid -> 0..MaxTasks] /\ InUse(proc) \subseteq Slot
    BY Caller DEF ProcInv, TableInv, ProcTypeOK, InUse
  <1>2. CASE Takes(z, pids)
    <2>1. /\ z \in InUse(proc) /\ proc[z].parent = parent /\ proc[z].zombie
          /\ proc[z].pid \in Pid
          /\ proc' = process_free(z)
          /\ reaper' = [reaper EXCEPT ![proc[z].pid] = current]
          /\ wanted' = [wanted EXCEPT ![current] = {}]
          /\ parent_pid' = [parent_pid EXCEPT ![current] = 0]
          /\ UNCHANGED <<current, state, next, next_id, mode>>
      BY <1>2, ZombieFound DEF Takes, WaitTurn, schedVars
    <2> HIDE DEF z
    <2>2. /\ proc' \in Table
          /\ InUse(proc)' = InUse(proc) \ {z}
          /\ \A r \in Slot \ {z} : proc'[r] = proc[r]
      <3>1. InUse(proc)' = InUse(proc')
        BY DEF InUse
      <3>2. QED
        BY <1>1, <2>1, <3>1, Freed
    <2>3. TableInv'
      <3>1. ProcTypeOK'
        <4>1. reaper' \in [Pid -> 0..MaxTasks]
          BY <1>1, <2>1 DEF Task
        <4>2. wanted' \in [Task -> SUBSET Pid] /\ parent_pid' \in [Task -> Nat]
          BY <1>1, <2>1
        <4>3. QED
          BY <2>2, <4>1, <4>2 DEF ProcInv, TableInv, ProcTypeOK
      <3>2. OnePidEach'
        BY <1>1, <2>2 DEF ProcInv, TableInv, OnePidEach
      <3>3. QED
        BY <3>1, <3>2 DEF TableInv
    <2>4. FamilyInv'
      <3> SUFFICES ASSUME threads = {}
                   PROVE  PidEach' /\ SlotIsOwn' /\ ParentForked' /\ WaitsForOwn'
        BY DEF FamilyInv
      <3>1. /\ PidEach /\ SlotIsOwn /\ ParentForked /\ WaitsForOwn
            /\ parent = attached[current] /\ parent # 0
        BY DEF ProcInv, FamilyInv
      <3>2. PidEach'
        BY <2>1, <2>2, <3>1 DEF PidEach
      <3>3. SlotIsOwn'
        <4> SUFFICES ASSUME NEW t \in Task, Alive(t), task_process[t] # 0
                     PROVE  /\ proc'[task_process[t]].in_use
                            /\ proc'[task_process[t]].pid = attached[t]
                            /\ ~proc'[task_process[t]].zombie
          BY <2>1 DEF SlotIsOwn, Alive
        <4>1. /\ proc[task_process[t]].in_use /\ ~proc[task_process[t]].zombie
              /\ proc[task_process[t]].pid = attached[t]
          BY <3>1 DEF SlotIsOwn
        <4>2. task_process[t] \in Slot \ {z}
          BY <2>1, <4>1, ProcessAssumption DEF ProcInv, TableInv, ProcTypeOK, Slot
        <4>3. QED
          BY <2>2, <4>1, <4>2
      <3>4. ParentForked'
        <4>1. forker[proc[z].pid] = current
          BY <1>1, <2>1, <3>1 DEF ParentForked
        <4>2. proc[z].pid < next_pid
          BY <2>1 DEF ProcInv, TableInv, ProcTypeOK, OnePidEach
        <4>3. \A p \in Pid : reaper'[p] # 0 => reaper'[p] = forker[p] /\ p < next_pid
          BY <1>1, <2>1, <3>1, <4>1, <4>2 DEF ParentForked
        <4>4. QED
          BY <1>1, <2>2, <3>1, <4>3 DEF ParentForked
      <3>5. WaitsForOwn'
        <4> SUFFICES ASSUME NEW t \in Task, wanted'[t] # {}
                     PROVE  /\ parent_pid'[t] = attached[t] /\ attached[t] # 0
                            /\ \E s \in InUse(proc)' : proc'[s].parent = parent_pid'[t]
          BY DEF WaitsForOwn
        <4>1. t # current
          BY <1>1, <2>1
        <4>2. wanted[t] # {} /\ parent_pid'[t] = parent_pid[t]
          BY <1>1, <2>1, <4>1
        <4>3. PICK s \in InUse(proc) : proc[s].parent = parent_pid[t]
          BY <3>1, <4>2 DEF WaitsForOwn
        <4>4. parent_pid[t] = attached[t] /\ attached[t] # 0
          BY <3>1, <4>2 DEF WaitsForOwn
        <4>5. attached[t] # attached[current]
          BY <1>1, <3>1, <4>1, <4>4 DEF PidEach
        <4>6. s # z
          BY <2>1, <3>1, <4>3, <4>4, <4>5
        <4>7. QED
          BY <1>1, <2>2, <4>2, <4>3, <4>4, <4>6
      <3>6. QED
        BY <3>2, <3>3, <3>4, <3>5
    <2>5. QED
      BY <2>3, <2>4
  <1>3. CASE ~Takes(z, pids)
    <2>1. /\ wanted' = [wanted EXCEPT ![current] = pids]
          /\ parent_pid' = [parent_pid EXCEPT ![current] = parent]
          /\ Yield
          /\ UNCHANGED <<proc, reaper>>
      BY <1>3 DEF WaitTurn
    <2> HIDE DEF z
    <2>2. next_id' = next_id /\ [SchedNext]_schedVars
      BY <2>1 DEF Yield, SchedNext
    <2>3. InUse(proc)' = InUse(proc)
      BY <2>1 DEF InUse
    <2>4. TableInv'
      BY <1>1, <2>1, <2>3 DEF ProcInv, TableInv, ProcTypeOK, OnePidEach
    <2>5. FamilyInv'
      <3> SUFFICES ASSUME threads = {}
                   PROVE  PidEach' /\ SlotIsOwn' /\ ParentForked' /\ WaitsForOwn'
        BY DEF FamilyInv
      <3>1. PidEach /\ SlotIsOwn /\ ParentForked /\ WaitsForOwn
        BY DEF ProcInv, FamilyInv
      <3>2. PidEach' /\ ParentForked'
        BY <2>1, <2>2, <2>3, <3>1 DEF PidEach, ParentForked
      <3>3. \A t \in Task \ {Idle} : Alive(t)' => Alive(t)
        BY <2>2, AliveStep DEF ProcInv, SchedInv, SchedTypeOK
      <3>4. SlotIsOwn'
        BY <2>1, <3>1, <3>3 DEF SlotIsOwn, PidEach
      <3>5. WaitsForOwn'
        BY <1>1, <2>1, <2>3, <3>1 DEF WaitsForOwn
      <3>6. QED
        BY <3>2, <3>4, <3>5
    <2>6. QED
      BY <2>4, <2>5
  <1>4. QED
    BY <1>2, <1>3

(* The pid a wait4 looks for is that of the caller's own process; a task   *)
(* without one finds no child of process 1, for the table is empty.        *)
LEMMA WaitStep ==
    ASSUME ProcInv, sys_wait4 \/ wait4_again
    PROVE  TableInv' /\ FamilyInv'
  <1>1. /\ InSyscall /\ current \in Task /\ Alive(current)
        /\ current >= Hello /\ current < next_id
        /\ UNCHANGED <<next_pid, task_process, attached, forker, threads>>
    BY Caller DEF ProcInv, sys_wait4, wait4_again, AtCall
  <1>2. CASE wait4_again
    <2>1. /\ wanted[current] \in SUBSET Pid /\ wanted[current] # {}
          /\ parent_pid[current] \in Nat
          /\ WaitTurn(parent_pid[current], wanted[current])
      BY <1>1, <1>2 DEF wait4_again, ProcInv, TableInv, ProcTypeOK
    <2>2. threads = {} =>
             /\ parent_pid[current] = attached[current] /\ parent_pid[current] # 0
             /\ \E s \in InUse(proc) : proc[s].parent = parent_pid[current]
      BY <1>1, <2>1 DEF ProcInv, FamilyInv, WaitsForOwn
    <2>3. QED
      BY <1>1, <2>1, <2>2, WaitKeeps
  <1>3. CASE sys_wait4
    <2>1. PICK pids \in {Pid} \cup {{p} : p \in Named} :
             /\ process_has_children(ParentPid(current))
             /\ WaitTurn(ParentPid(current), pids)
      BY <1>3 DEF sys_wait4
    <2>2. pids \in SUBSET Pid
      BY ProcessAssumption DEF Pid
    <2>3. \E s \in InUse(proc) : proc[s].parent = ParentPid(current)
      BY <2>1 DEF process_has_children
    <2>4. task_process[current] # 0 => task_process[current] \in Slot
      BY <1>1, ProcessAssumption DEF ProcInv, TableInv, ProcTypeOK, Slot
    <2>5. ParentPid(current) \in Nat
      BY <2>4 DEF ProcInv, TableInv, ProcTypeOK, Table, ParentPid
    <2>6. ASSUME threads = {}
          PROVE  ParentPid(current) = attached[current] /\ ParentPid(current) # 0
      <3>1. PidEach /\ SlotIsOwn
        BY <2>6 DEF ProcInv, FamilyInv
      <3>2. task_process[current] # 0
        <4>1. SUFFICES ASSUME task_process[current] = 0 PROVE FALSE
          OBVIOUS
        <4>2. current = Hello
          BY <1>1, <3>1, <4>1 DEF PidEach, Task, Hello
        <4>3. QED
          BY <2>3, <3>1, <4>1, <4>2 DEF PidEach
      <3>3. QED
        BY <1>1, <3>1, <3>2 DEF PidEach, SlotIsOwn, ParentPid
    <2>7. QED
      BY <1>1, <2>1, <2>2, <2>3, <2>5, <2>6, WaitKeeps
  <1>4. QED
    BY <1>2, <1>3

-----------------------------------------------------------------------------
(* What all forks have in common. *)
LEMMA ForkFacts ==
    ASSUME ProcInv, sys_fork
    PROVE  /\ current \in Task /\ Alive(current) /\ current >= Hello /\ current < next_id
           /\ next_id \in Task /\ next_id > Hello /\ next_id' = next_id + 1
           /\ current' = current
           /\ \A t \in Task \ {Idle, next_id} : Alive(t)' => Alive(t)
           /\ FreeSlot(proc) # 0 /\ FreeSlot(proc) \in Slot
           /\ FreeSlot(proc) \notin InUse(proc)
           /\ InUse(proc) \subseteq Slot
           /\ forker' = [forker EXCEPT ![next_pid] = current]
           /\ UNCHANGED <<wanted, parent_pid, reaper, threads>>
  <1>1. AtCall /\ FreeSlot(proc) # 0 /\ Fork
    BY DEF sys_fork
  <1>2. next_id \in Task /\ next_id' = next_id + 1 /\ current' = current
    BY <1>1 DEF Fork, task_fork_user
  <1>3. /\ current \in Task /\ Alive(current) /\ current >= Hello /\ current < next_id
    BY <1>1, Caller DEF AtCall, ProcInv
  <1>4. next_id > Hello
    BY DEF ProcInv, SchedInv, SchedTypeOK, Hello
  <1>5. [SchedNext]_schedVars /\ next_id' \in {next_id, next_id + 1}
    BY <1>1, <1>2 DEF SchedNext
  <1>6. \A t \in Task \ {Idle, next_id} : Alive(t)' => Alive(t)
    BY <1>5, AliveStep DEF ProcInv
  <1>7. InUse(proc) \subseteq Slot
    BY DEF InUse
  <1>8. QED
    BY <1>1, <1>2, <1>3, <1>4, <1>6, <1>7, FreeSlotIsFree DEF sys_fork, waitVars

(* A child in the first free slot, of a parent whose pid is given. *)
LEMMA ChildMade ==
    ASSUME ProcInv, sys_fork, next_pid \in Pid,
           NEW parent \in Nat,
           proc' = process_create(proc, next_pid, parent),
           task_process' = [task_process EXCEPT ![next_id] = FreeSlot(proc)],
           attached' = [attached EXCEPT ![next_id] = next_pid],
           next_pid' = next_pid + 1,
           threads = {} => task_process[current] # 0 /\ parent = attached[current]
    PROVE  TableInv' /\ FamilyInv'
  <1> DEFINE c == FreeSlot(proc)
  <1>1. /\ proc \in Table /\ task_process \in [Task -> 0..MaxProc]
        /\ attached \in [Task -> Nat] /\ forker \in [Pid -> 0..MaxTasks]
        /\ next_pid \in Nat \ {0}
        /\ \A s \in InUse(proc) : proc[s].pid \in 1..(next_pid - 1)
    BY DEF ProcInv, TableInv, ProcTypeOK, OnePidEach
  <1>2. /\ proc' \in Table
        /\ InUse(proc)' = InUse(proc) \cup {c}
        /\ proc'[c].pid = next_pid /\ proc'[c].parent = parent /\ ~proc'[c].zombie
        /\ \A r \in Slot \ {c} : proc'[r] = proc[r]
    <2>1. InUse(proc)' = InUse(proc')
      BY DEF InUse
    <2>2. QED
      BY <1>1, <2>1, ForkFacts, SlotFilled
  <1>3. c \in Slot /\ c # 0 /\ c \notin InUse(proc) /\ InUse(proc) \subseteq Slot
    BY ForkFacts
  <1> HIDE DEF c
  <1>4. TableInv'
    <2>1. ProcTypeOK'
      <3>1. task_process' \in [Task -> 0..MaxProc]
        BY <1>1, <1>3, ForkFacts, ProcessAssumption DEF c, Slot
      <3>2. attached' \in [Task -> Nat]
        BY <1>1, ForkFacts
      <3>3. forker' \in [Pid -> 0..MaxTasks]
        BY <1>1, ForkFacts DEF Task
      <3>4. next_pid' \in Nat \ {0}
        BY <1>1
      <3>5. QED
        BY <1>2, <3>1, <3>2, <3>3, <3>4, ForkFacts DEF ProcInv, TableInv, ProcTypeOK
    <2>2. OnePidEach'
      BY <1>1, <1>2, <1>3 DEF ProcInv, TableInv, OnePidEach
    <2>3. QED
      BY <2>1, <2>2 DEF TableInv
  <1>5. FamilyInv'
    <2> SUFFICES ASSUME threads = {}
                 PROVE  PidEach' /\ SlotIsOwn' /\ ParentForked' /\ WaitsForOwn'
      BY ForkFacts DEF FamilyInv
    <2>1. PidEach /\ SlotIsOwn /\ ParentForked /\ WaitsForOwn
      BY DEF ProcInv, FamilyInv
    <2>2. task_process[current] # 0 /\ parent = attached[current] /\ parent # 0
          /\ parent < next_pid
      BY <2>1, ForkFacts DEF PidEach
    <2>3. /\ attached'[next_id] = next_pid /\ task_process'[next_id] = c
          /\ \A t \in Task \ {next_id} : /\ attached'[t] = attached[t]
                                         /\ task_process'[t] = task_process[t]
      BY <1>1, ForkFacts DEF c
    <2>4. next_id > Hello /\ next_id \in Nat /\ next_id' = next_id + 1
      BY ForkFacts DEF Task
    <2>5. task_process[current] \in InUse(proc)
      BY <1>1, <2>1, <2>2, ForkFacts, ProcessAssumption DEF SlotIsOwn, InUse, Slot
    <2>6. PidEach'
      <3>1. task_process'[Boot] = 0 /\ task_process'[Idle] = 0
        BY <2>1, <2>3, <2>4, SchedAssumption DEF PidEach, Boot, Idle, Hello, Task
      <3>2. task_process'[Hello] # 0
        BY <2>1, <2>3, <2>4, <2>5, SchedAssumption DEF PidEach, Hello, Task
      <3>3. ASSUME NEW t \in Task
            PROVE  /\ attached'[t] < next_pid'
                   /\ attached'[t] = 0 <=> task_process'[t] = 0
                   /\ t > Hello => (t < next_id' <=> task_process'[t] # 0)
        <4>1. CASE t = next_id
          BY <1>1, <1>3, <2>3, <2>4, <4>1
        <4>2. CASE t # next_id
          BY <1>1, <2>1, <2>3, <2>4, <4>2 DEF PidEach, Task
        <4>3. QED
          BY <4>1, <4>2
      <3>4. ASSUME NEW t \in Task, NEW u \in Task, attached'[t] = attached'[u], attached'[t] # 0
            PROVE  t = u
        BY <1>1, <2>1, <2>3, <3>4 DEF PidEach
      <3>5. QED
        BY <3>1, <3>2, <3>3, <3>4 DEF PidEach
    <2>7. SlotIsOwn'
      <3> SUFFICES ASSUME NEW t \in Task, Alive(t)', task_process'[t] # 0
                   PROVE  /\ proc'[task_process'[t]].in_use
                          /\ proc'[task_process'[t]].pid = attached'[t]
                          /\ ~proc'[task_process'[t]].zombie
        BY DEF SlotIsOwn
      <3>1. CASE t = next_id
        BY <1>2, <2>3, <3>1 DEF InUse
      <3>2. CASE t # next_id
        <4>1. t # Idle /\ Alive(t) /\ task_process[t] # 0
          BY <2>1, <2>3, <3>2, ForkFacts DEF PidEach
        <4>2. /\ proc[task_process[t]].in_use /\ ~proc[task_process[t]].zombie
              /\ proc[task_process[t]].pid = attached[t]
          BY <2>1, <4>1 DEF SlotIsOwn
        <4>3. task_process[t] \in Slot \ {c}
          BY <1>1, <1>3, <4>1, <4>2, ProcessAssumption DEF InUse, Slot
        <4>4. QED
          BY <1>2, <2>3, <3>2, <4>2, <4>3
      <3>3. QED
        BY <3>1, <3>2
    <2>8. ParentForked'
      <3>1. /\ forker'[next_pid] = current
            /\ \A p \in Pid : p # next_pid => forker'[p] = forker[p]
        BY <1>1, ForkFacts
      <3>2. ASSUME NEW p \in Pid, reaper'[p] # 0
            PROVE  reaper'[p] = forker'[p] /\ p < next_pid'
        BY <1>1, <2>1, <3>1, <3>2, ForkFacts DEF ParentForked, Pid
      <3>3. ASSUME NEW s \in InUse(proc)'
            PROVE  /\ proc'[s].pid \in Pid /\ proc'[s].parent < next_pid'
                   /\ \A t \in Task : attached'[t] # 0 /\ attached'[t] = proc'[s].parent
                         => forker'[proc'[s].pid] = t
        <4>1. CASE s = c
          BY <1>1, <1>2, <2>1, <2>2, <2>3, <3>1, <4>1, ForkFacts DEF PidEach
        <4>2. CASE s # c
          <5>1. s \in InUse(proc) /\ s \in Slot /\ proc'[s] = proc[s]
            BY <1>2, <1>3, <3>3, <4>2
          <5>2. proc[s].pid \in Pid /\ proc[s].parent < next_pid /\ proc[s].pid # next_pid
                /\ proc[s].parent \in Nat
            BY <1>1, <2>1, <5>1 DEF ParentForked, Table
          <5>3. forker'[proc[s].pid] = forker[proc[s].pid]
            BY <1>1, <3>1, <5>2
          <5>4. \A t \in Task : attached'[t] # 0 /\ attached'[t] = proc[s].parent
                                  => attached[t] = proc[s].parent
            BY <1>1, <2>3, <5>2
          <5>5. QED
            BY <1>1, <2>1, <5>1, <5>2, <5>3, <5>4 DEF ParentForked
        <4>3. QED
          BY <4>1, <4>2
      <3>4. QED
        BY <3>2, <3>3 DEF ParentForked
    <2>9. WaitsForOwn'
      <3> SUFFICES ASSUME NEW t \in Task, wanted[t] # {}
                   PROVE  /\ parent_pid[t] = attached'[t] /\ attached'[t] # 0
                          /\ \E s \in InUse(proc)' : proc'[s].parent = parent_pid[t]
        BY ForkFacts DEF WaitsForOwn
      <3>1. /\ parent_pid[t] = attached[t] /\ attached[t] # 0
            /\ \E s \in InUse(proc) : proc[s].parent = parent_pid[t]
        BY <2>1 DEF WaitsForOwn
      <3>2. t # next_id
        BY <2>1, <2>4, <3>1 DEF PidEach
      <3>3. QED
        BY <1>2, <1>3, <2>3, <3>1, <3>2
    <2>10. QED
      BY <2>6, <2>7, <2>8, <2>9
  <1>6. QED
    BY <1>4, <1>5

(* The first fork of a task without a process: the table was empty, and    *)
(* child and parent enter it together.                                     *)
LEMMA BothMade ==
    ASSUME ProcInv, sys_fork, ForkFirst(FreeSlot(proc))
    PROVE  TableInv' /\ FamilyInv'
  <1> DEFINE c == FreeSlot(proc)
             made == process_create(proc, next_pid, current)
             own == FreeSlot(made)
             both == process_create(made, next_pid + 1, 0)
  <1>1. /\ proc \in Table /\ task_process \in [Task -> 0..MaxProc]
        /\ attached \in [Task -> Nat] /\ forker \in [Pid -> 0..MaxTasks]
        /\ next_pid \in Nat \ {0}
        /\ \A s \in InUse(proc) : proc[s].pid \in 1..(next_pid - 1)
    BY DEF ProcInv, TableInv, ProcTypeOK, OnePidEach
  <1>2. /\ task_process[current] = 0 /\ own # 0
        /\ next_pid \in Pid /\ next_pid + 1 \in Pid
        /\ proc' = [both EXCEPT ![c].parent = next_pid + 1]
        /\ task_process' = [task_process EXCEPT ![next_id] = c, ![current] = own]
        /\ attached' = [attached EXCEPT ![next_id] = next_pid, ![current] = next_pid + 1]
        /\ next_pid' = next_pid + 2
    <2>1. /\ task_process[current] = 0 /\ own # 0
          /\ next_pid + 1 \in Pid
          /\ proc' = [both EXCEPT ![c].parent = next_pid + 1]
          /\ task_process' = [task_process EXCEPT ![next_id] = c, ![current] = own]
          /\ attached' = [attached EXCEPT ![next_id] = next_pid, ![current] = next_pid + 1]
          /\ next_pid' = next_pid + 2
      BY Zenon DEF ForkFirst
    <2>2. next_pid + 1 \in Pid => next_pid \in Pid
      BY <1>1, ProcessAssumption DEF Pid
    <2>3. QED
      BY <2>1, <2>2, Zenon
  <1>3. c \in Slot /\ c # 0 /\ c \notin InUse(proc) /\ InUse(proc) \subseteq Slot
        /\ current \in Nat
    BY ForkFacts DEF Task
  <1>4. /\ made \in Table /\ InUse(made) = InUse(proc) \cup {c}
        /\ made[c].pid = next_pid /\ ~made[c].zombie
        /\ \A r \in Slot \ {c} : made[r] = proc[r]
    BY <1>1, <1>3, SlotFilled
  <1>5. own \in Slot /\ own \notin InUse(made)
    BY <1>2, FreeSlotIsFree
  <1>6. /\ both \in Table /\ InUse(both) = InUse(made) \cup {own}
        /\ both[own].pid = next_pid + 1 /\ both[own].parent = 0 /\ ~both[own].zombie
        /\ \A r \in Slot \ {own} : both[r] = made[r]
    <2>1. made \in Table /\ own # 0 /\ next_pid + 1 \in Nat /\ 0 \in Nat
      BY <1>1, <1>2, <1>4
    <2> HIDE DEF made
    <2>2. QED
      BY <2>1, SlotFilled
  <1> HIDE DEF made, own, both, c
  <1>7. own # c
    BY <1>4, <1>5
  <1>8. /\ proc' \in Table
        /\ InUse(proc)' = InUse(proc) \cup {c, own}
        /\ proc'[c].pid = next_pid /\ proc'[c].parent = next_pid + 1 /\ ~proc'[c].zombie
        /\ proc'[own].pid = next_pid + 1 /\ proc'[own].parent = 0 /\ ~proc'[own].zombie
        /\ \A r \in Slot \ {c, own} : proc'[r] = proc[r]
    <2> DEFINE new == [both[c] EXCEPT !.parent = next_pid + 1]
    <2>1. both[c] \in [in_use : BOOLEAN, pid : Nat, parent : Nat, zombie : BOOLEAN]
          /\ c \in InUse(both)
      BY <1>3, <1>4, <1>6 DEF Table
    <2>2. /\ new \in [in_use : BOOLEAN, pid : Nat, parent : Nat, zombie : BOOLEAN]
          /\ new.in_use = both[c].in_use /\ new.pid = both[c].pid
          /\ new.parent = next_pid + 1 /\ new.zombie = both[c].zombie
      BY <1>1, <2>1
    <2>3. proc' = [both EXCEPT ![c] = new]
      BY <1>2
    <2> HIDE DEF new
    <2>4. /\ proc' \in Table /\ proc'[c] = new
          /\ \A r \in Slot \ {c} : proc'[r] = both[r]
      BY <1>3, <1>6, <2>2, <2>3 DEF Table
    <2>5. InUse(proc)' = InUse(both)
      BY <1>3, <2>1, <2>2, <2>4 DEF InUse
    <2>6. proc'[c].pid = next_pid /\ proc'[c].parent = next_pid + 1 /\ ~proc'[c].zombie
      BY <1>3, <1>4, <1>6, <1>7, <2>2, <2>4
    <2>7. proc'[own].pid = next_pid + 1 /\ proc'[own].parent = 0 /\ ~proc'[own].zombie
      BY <1>5, <1>6, <1>7, <2>4
    <2>8. \A r \in Slot \ {c, own} : proc'[r] = proc[r]
      BY <1>4, <1>6, <2>4
    <2>9. InUse(both) = InUse(proc) \cup {c, own}
      BY <1>4, <1>6
    <2>10. QED
      BY <2>4, <2>5, <2>6, <2>7, <2>8, <2>9
  <1>9. /\ own \in Slot /\ own \notin InUse(proc)
    BY <1>4, <1>5
  <1>10. TableInv'
    <2>1. ProcTypeOK'
      <3>1. task_process' \in [Task -> 0..MaxProc]
        BY <1>1, <1>2, <1>3, <1>9, ForkFacts, ProcessAssumption DEF Slot
      <3>2. attached' \in [Task -> Nat]
        BY <1>1, <1>2, ForkFacts
      <3>3. forker' \in [Pid -> 0..MaxTasks]
        BY <1>1, <1>2, ForkFacts DEF Task
      <3>4. next_pid' \in Nat \ {0}
        BY <1>1, <1>2
      <3>5. QED
        BY <1>8, <3>1, <3>2, <3>3, <3>4, ForkFacts DEF ProcInv, TableInv, ProcTypeOK
    <2>2. OnePidEach'
      <3>1. ASSUME NEW s \in InUse(proc)'
            PROVE  /\ proc'[s].pid \in 1..(next_pid' - 1)
                   /\ \A r \in InUse(proc)' : proc'[s].pid = proc'[r].pid => s = r
        <4>1. s \in InUse(proc) => s \in Slot \ {c, own} /\ proc'[s] = proc[s]
          BY <1>3, <1>8, <1>9
        <4>2. s \in InUse(proc) \/ s = c \/ s = own
          BY <1>8, <3>1
        <4>3. \A r \in InUse(proc) : r \in Slot \ {c, own} /\ proc'[r] = proc[r]
          BY <1>3, <1>8, <1>9
        <4>4. next_pid' = next_pid + 2
          BY <1>2
        <4>5. proc'[s].pid \in 1..(next_pid' - 1)
          BY <1>1, <1>8, <4>1, <4>2, <4>4
        <4>6. ASSUME NEW r \in InUse(proc)', proc'[s].pid = proc'[r].pid PROVE s = r
          <5>1. r \in InUse(proc) \/ r = c \/ r = own
            BY <1>8, <4>6
          <5>2. CASE s \in InUse(proc) /\ r \in InUse(proc)
            BY <4>1, <4>3, <4>6, <5>2 DEF ProcInv, TableInv, OnePidEach
          <5>3. CASE ~(s \in InUse(proc) /\ r \in InUse(proc))
            BY <1>1, <1>7, <1>8, <4>1, <4>2, <4>3, <4>6, <5>1, <5>3
          <5>4. QED
            BY <5>2, <5>3
        <4>7. QED
          BY <4>5, <4>6
      <3>2. QED
        BY <3>1 DEF OnePidEach
    <2>3. QED
      BY <2>1, <2>2 DEF TableInv
  <1>11. FamilyInv'
    <2> SUFFICES ASSUME threads = {}
                 PROVE  PidEach' /\ SlotIsOwn' /\ ParentForked' /\ WaitsForOwn'
      BY ForkFacts DEF FamilyInv
    <2>1. PidEach /\ SlotIsOwn /\ ParentForked /\ WaitsForOwn
      BY DEF ProcInv, FamilyInv
    <2>2. current = Hello /\ InUse(proc) = {} /\ attached[current] = 0
      BY <1>2, <2>1, ForkFacts DEF PidEach, Hello, Task
    <2>3. next_id > Hello /\ next_id \in Task /\ next_id \in Nat /\ next_id' = next_id + 1
          /\ Hello \in Task
      BY <2>2, ForkFacts DEF Task
    <2>4. /\ attached'[next_id] = next_pid /\ task_process'[next_id] = c
          /\ attached'[Hello] = next_pid + 1 /\ task_process'[Hello] = own
          /\ \A t \in Task \ {next_id, Hello} : /\ attached'[t] = attached[t]
                                                /\ task_process'[t] = task_process[t]
      BY <1>1, <1>2, <2>2, <2>3 DEF Hello
    <2>5. own # 0 /\ InUse(proc)' = {c, own}
      BY <1>2, <1>8, <2>2
    <2>6. PidEach'
      <3>1. task_process'[Boot] = 0 /\ task_process'[Idle] = 0
        BY <2>1, <2>3, <2>4, SchedAssumption DEF PidEach, Boot, Idle, Hello, Task
      <3>2. ASSUME NEW t \in Task
            PROVE  /\ attached'[t] < next_pid'
                   /\ attached'[t] = 0 <=> task_process'[t] = 0
                   /\ t > Hello => (t < next_id' <=> task_process'[t] # 0)
        <4>1. CASE t = next_id
          BY <1>1, <1>2, <1>3, <2>3, <2>4, <4>1
        <4>2. CASE t = Hello
          BY <1>1, <1>2, <2>3, <2>4, <2>5, <4>2 DEF Hello
        <4>3. CASE t \notin {next_id, Hello}
          BY <1>1, <1>2, <2>1, <2>3, <2>4, <4>3 DEF PidEach, Task
        <4>4. QED
          BY <4>1, <4>2, <4>3
      <3>3. ASSUME NEW t \in Task, NEW u \in Task, attached'[t] = attached'[u], attached'[t] # 0
            PROVE  t = u
        <4>1. \A v \in Task : attached[v] < next_pid /\ attached[v] \in Nat
          BY <1>1, <2>1 DEF PidEach
        <4>2. CASE t \notin {next_id, Hello} /\ u \notin {next_id, Hello}
          BY <2>1, <2>4, <3>3, <4>2 DEF PidEach
        <4>3. CASE t \in {next_id, Hello} \/ u \in {next_id, Hello}
          BY <1>1, <2>3, <2>4, <3>3, <4>1, <4>3
        <4>4. QED
          BY <4>2, <4>3
      <3>4. QED
        BY <2>4, <2>5, <3>1, <3>2, <3>3 DEF PidEach
    <2>7. SlotIsOwn'
      <3> SUFFICES ASSUME NEW t \in Task, Alive(t)', task_process'[t] # 0
                   PROVE  /\ proc'[task_process'[t]].in_use
                          /\ proc'[task_process'[t]].pid = attached'[t]
                          /\ ~proc'[task_process'[t]].zombie
        BY DEF SlotIsOwn
      <3>1. CASE t = next_id
        BY <1>8, <2>4, <3>1 DEF InUse
      <3>2. CASE t = Hello
        BY <1>8, <2>4, <3>2 DEF InUse
      <3>3. CASE t \notin {next_id, Hello}
        <4>1. t # Idle /\ Alive(t) /\ task_process[t] # 0
          BY <2>1, <2>4, <3>3, ForkFacts DEF PidEach
        <4>2. proc[task_process[t]].in_use /\ task_process[t] \in Slot
          BY <1>1, <2>1, <4>1, ProcessAssumption DEF SlotIsOwn, Slot
        <4>3. QED
          BY <2>2, <4>2 DEF InUse
      <3>4. QED
        BY <3>1, <3>2, <3>3
    <2>8. ParentForked'
      <3>1. /\ forker'[next_pid] = Hello
            /\ \A p \in Pid : p # next_pid => forker'[p] = forker[p]
        BY <1>1, <1>2, <2>2, ForkFacts
      <3>2. ASSUME NEW p \in Pid, reaper'[p] # 0
            PROVE  reaper'[p] = forker'[p] /\ p < next_pid'
        BY <1>1, <1>2, <2>1, <3>1, <3>2, ForkFacts DEF ParentForked, Pid
      <3>3. ASSUME NEW t \in Task, attached'[t] = next_pid + 1
            PROVE  t = Hello
        BY <1>1, <2>1, <2>4, <3>3 DEF PidEach
      <3>4. ASSUME NEW s \in InUse(proc)'
            PROVE  /\ proc'[s].pid \in Pid /\ proc'[s].parent < next_pid'
                   /\ \A t \in Task : attached'[t] # 0 /\ attached'[t] = proc'[s].parent
                         => forker'[proc'[s].pid] = t
        <4>1. CASE s = c
          BY <1>1, <1>2, <1>8, <3>1, <3>3, <4>1
        <4>2. CASE s = own
          BY <1>1, <1>2, <1>8, <4>2
        <4>3. QED
          BY <2>5, <3>4, <4>1, <4>2
      <3>5. QED
        BY <3>2, <3>4 DEF ParentForked
    <2>9. WaitsForOwn'
      <3>1. \A t \in Task : wanted'[t] = {}
        BY <2>1, <2>2, ForkFacts DEF WaitsForOwn
      <3>2. QED
        BY <3>1 DEF WaitsForOwn
    <2>10. QED
      BY <2>6, <2>7, <2>8, <2>9
  <1>12. QED
    BY <1>10, <1>11

(* A fork in each of its three forms. *)
LEMMA ForkStep ==
    ASSUME ProcInv, sys_fork
    PROVE  TableInv' /\ FamilyInv'
  <1>1. current \in Nat /\ next_pid \in Nat \ {0} /\ proc \in Table
        /\ task_process \in [Task -> 0..MaxProc] /\ current \in Task
    BY ForkFacts DEF Task, ProcInv, TableInv, ProcTypeOK
  <1>2. CASE ForkFromProcess(FreeSlot(proc))
    <2>1. task_process[current] \in Slot
      BY <1>1, <1>2, ProcessAssumption DEF ForkFromProcess, Slot
    <2>2. proc[task_process[current]].pid \in Nat
      BY <1>1, <2>1 DEF Table
    <2>3. threads = {} => /\ task_process[current] # 0
                          /\ proc[task_process[current]].pid = attached[current]
      BY <1>1, <1>2, ForkFacts DEF ForkFromProcess, ProcInv, FamilyInv, SlotIsOwn
    <2>4. QED
      BY <1>2, <2>2, <2>3, ChildMade DEF ForkFromProcess
  <1>3. CASE ForkFirst(FreeSlot(proc))
    BY <1>3, BothMade
  <1>4. CASE ForkFirstFull(FreeSlot(proc))
    <2> DEFINE made == process_create(proc, next_pid, current)
    <2>1. /\ task_process[current] = 0 /\ FreeSlot(made) = 0 /\ next_pid \in Pid
          /\ proc' = made /\ next_pid' = next_pid + 1
          /\ task_process' = [task_process EXCEPT ![next_id] = FreeSlot(proc)]
          /\ attached' = [attached EXCEPT ![next_id] = next_pid]
      BY <1>4 DEF ForkFirstFull
    <2>2. threads # {}
      <3>1. SUFFICES ASSUME threads = {} PROVE FALSE
        OBVIOUS
      <3>2. InUse(proc) = {}
        BY <2>1, <3>1, ForkFacts DEF ProcInv, FamilyInv, PidEach, Hello, Task
      <3>3. InUse(made) = {FreeSlot(proc)}
        <4>1. FreeSlot(proc) # 0 /\ proc \in Table /\ next_pid \in Nat /\ current \in Nat
          BY <1>1, ForkFacts
        <4>2. InUse(made) = InUse(proc) \cup {FreeSlot(proc)}
          BY <4>1, SlotFilled
        <4>3. QED
          BY <3>2, <4>2
      <3>4. InUse(made) = Slot
        BY <2>1, FullTable
      <3>5. QED
        BY <3>3, <3>4, ProcessAssumption DEF Slot
    <2>3. QED
      BY <1>1, <2>1, <2>2, ChildMade
  <1>5. QED
    BY <1>2, <1>3, <1>4 DEF sys_fork

-----------------------------------------------------------------------------
(* The invariant holds when interrupts are opened. *)
LEMMA ProcInitInv == ProcInit => ProcInv
  <1> SUFFICES ASSUME ProcInit PROVE ProcInv
    OBVIOUS
  <1>1. SchedInv
    BY SchedInitInv DEF ProcInit
  <1>2. /\ proc = [s \in Slot |-> [in_use |-> FALSE, pid |-> 0, parent |-> 0, zombie |-> FALSE]]
        /\ InUse(proc) = {}
    BY DEF ProcInit, InUse
  <1>3. proc \in Table
    <2>1. [in_use |-> FALSE, pid |-> 0, parent |-> 0, zombie |-> FALSE]
             \in [in_use : BOOLEAN, pid : Nat, parent : Nat, zombie : BOOLEAN]
      OBVIOUS
    <2>2. QED
      BY <1>2, <2>1 DEF Table
  <1>4. TableInv
    <2>1. ProcTypeOK
      BY <1>3, ProcessAssumption, SchedAssumption DEF ProcInit, ProcTypeOK, Task
    <2>2. OnePidEach
      BY <1>2 DEF OnePidEach
    <2>3. QED
      BY <2>1, <2>2 DEF TableInv
  <1>5. PidEach
    <2>1. next_id = 4 /\ next_pid = 1 /\ Boot \in Task /\ Idle \in Task
      BY SchedAssumption DEF ProcInit, Init, Boot, Idle, Task
    <2>2. \A t \in Task : attached[t] = 0 /\ task_process[t] = 0
      BY DEF ProcInit
    <2>3. \A t \in Task : t > Hello => ~(t < next_id)
      BY <2>1 DEF Task, Hello
    <2>4. QED
      <3>1. \A t \in Task : attached[t] < next_pid
        BY <2>1, <2>2
      <3>2. \A t \in Task : t > Hello => (t < next_id <=> task_process[t] # 0)
        BY <2>2, <2>3
      <3>3. QED
        BY <1>2, <2>1, <2>2, <3>1, <3>2, Zenon DEF PidEach
  <1>6. SlotIsOwn /\ ParentForked /\ WaitsForOwn
    BY <1>2 DEF ProcInit, SlotIsOwn, ParentForked, WaitsForOwn
  <1>7. QED
    BY <1>1, <1>4, <1>5, <1>6 DEF ProcInv, FamilyInv

(* Every step of the process layer keeps the invariant. *)
LEMMA ProcStep == ProcInv /\ [ProcNext]_allVars => ProcInv'
  <1> SUFFICES ASSUME ProcInv, [ProcNext]_allVars PROVE ProcInv'
    OBVIOUS
  <1>1. [SchedNext]_schedVars /\ SchedInv'
    BY ProcImpliesSched, SchedStep DEF ProcInv
  <1>2. CASE UNCHANGED allVars
    BY <1>1, <1>2, SameTable DEF allVars, schedVars, ProcInv
  <1>3. CASE TimerTick \/ Enter \/ Return \/ YieldCall
    <2>1. next_id' = next_id /\ UNCHANGED procVars
      BY <1>3 DEF TimerTick, Enter, Return, YieldCall, Tick, SyscallEnter, SyscallExit, Yield
    <2>2. QED
      BY <1>1, <2>1, SameTable DEF ProcInv
  <1>4. CASE fork_fails
    BY <1>1, <1>4, SameTable DEF fork_fails, allVars, schedVars, ProcInv
  <1>5. CASE fork_no_task
    BY <1>1, <1>5, PidWasted DEF ProcInv
  <1>6. CASE sys_fork
    BY <1>1, <1>6, ForkStep DEF ProcInv
  <1>7. CASE sys_clone
    BY <1>1, <1>7, CloneStep DEF ProcInv
  <1>8. CASE sys_exit
    BY <1>1, <1>8, ExitStep DEF ProcInv
  <1>9. ASSUME NEW t \in Killable, sys_kill(t) PROVE ProcInv'
    <2>1. next_id' = next_id /\ UNCHANGED procVars
      BY <1>9 DEF sys_kill
    <2>2. QED
      BY <1>1, <2>1, SameTable DEF ProcInv
  <1>10. CASE sys_wait4 \/ wait4_again
    BY <1>1, <1>10, WaitStep DEF ProcInv
  <1>11. QED
    BY <1>2, <1>3, <1>4, <1>5, <1>6, <1>7, <1>8, <1>9, <1>10 DEF ProcNext

(* The inductive invariant of processes: the scheduler's, the table's, and *)
(* as long as there are no threads, whose each process is.                 *)
THEOREM ProcessInvariant == ProcSpec => []ProcInv
  BY ProcInitInv, ProcStep, PTL DEF ProcSpec

(* A pid names one process, whatever fork, clone, exit, kill and wait4 do. *)
THEOREM PidsAreUnique == ProcSpec => []OnePidEach
  <1>1. ProcInv => OnePidEach
    BY DEF ProcInv, TableInv
  <1>2. QED
    BY ProcessInvariant, <1>1, PTL

(* Without threads, no live task's slot is freed or used again, and a      *)
(* zombie process has no live task.                                        *)
THEOREM SlotsStayOwned == ProcSpec => []OwnProcess
  <1>1. ProcInv => OwnProcess
    <2> SUFFICES ASSUME ProcInv, threads = {}
                 PROVE  /\ ZombieHasExited
                        /\ \A t \in Task : Alive(t) /\ task_process[t] # 0 =>
                              /\ proc[task_process[t]].in_use
                              /\ proc[task_process[t]].pid = attached[t]
      BY DEF OwnProcess
    <2>1. SlotIsOwn
      BY DEF ProcInv, FamilyInv
    <2>2. 0 \notin InUse(proc)
      BY ProcessAssumption DEF InUse, Slot
    <2>3. ZombieHasExited
      BY <2>1, <2>2 DEF ZombieHasExited, SlotIsOwn
    <2>4. QED
      BY <2>1, <2>3 DEF SlotIsOwn
  <1>2. QED
    BY ProcessInvariant, <1>1, PTL

(* Without threads, wait4 reports a child to the task that forked it.      *)
THEOREM ChildrenGoToTheirParent == ProcSpec => []ReapedByParent
  <1>1. ProcInv => ReapedByParent
    BY DEF ProcInv, FamilyInv, ParentForked, ReapedByParent
  <1>2. QED
    BY ProcessInvariant, <1>1, PTL

(* Without threads, a task in the loop of wait4 has a child to wait for.   *)
THEOREM WaitersHaveChildren == ProcSpec => []WaiterHasChild
  <1>1. ProcInv => WaiterHasChild
    BY DEF ProcInv, FamilyInv, WaitsForOwn, WaiterHasChild
  <1>2. QED
    BY ProcessInvariant, <1>1, PTL
=============================================================================
