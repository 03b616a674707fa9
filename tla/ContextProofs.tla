--------------------------- MODULE ContextProofs ---------------------------
(***************************************************************************)
(* Theorems about the registers that travel with a task.  A step of        *)
(* Context is a step of Sched, so the scheduler's invariant carries over;  *)
(* on top of it come two facts about parked tasks: the user stack pointer  *)
(* of one that is inside a system call is saved in its own field, and,     *)
(* while there are no threads, a live user task without a cr3 field can    *)
(* only be the first program before its first fork.                        *)
(***************************************************************************)
EXTENDS Context, SchedProofs

(* One step of the registers when the CPU changes hands. *)
SwitchStep(c) == /\ Tick \/ Yield \/ Block \/ Exit
                 /\ SwitchRegisters(c)
                 /\ UNCHANGED <<fs_base, space>>
                 /\ cr3' = c

(* Every action of Context carries one of the scheduler. *)
LEMMA CtxImpliesSched == [CtxNext]_vars => [SchedNext]_schedVars
  <1> SUFFICES ASSUME [CtxNext]_vars PROVE [SchedNext]_schedVars
    OBVIOUS
  <1>1. CASE CtxNext
    BY <1>1 DEF CtxNext, SchedNext, schedVars, Switching, irq_timer, syscall_entry, sysret,
       CtxSleep, CtxYield, CtxBlock, CtxUnblock, CtxExit, CtxKill, CtxFork, CtxClone, arch_prctl
  <1>2. CASE UNCHANGED vars
    BY <1>2 DEF vars
  <1>3. QED
    BY <1>1, <1>2

(* The registers are an addition to the scheduler: dropping them, every    *)
(* behaviour is one the scheduler specification allows.                    *)
THEOREM ContextImplementsSched == CtxSpec => SchedSpec
  <1>1. CtxInit => Init
    BY DEF CtxInit
  <1>2. QED
    BY <1>1, CtxImpliesSched, PTL DEF CtxSpec, SchedSpec

(* So one task runs here too: OneRunning of the scheduler. *)
THEOREM ContextOneTaskRuns == CtxSpec => []OneRunning
  BY ContextImplementsSched, OneTaskRuns, PTL

-----------------------------------------------------------------------------
ParkedStacks == \A t \in Task : t # current /\ mode[t] # "run" => saved_rsp[t] = t

StackInv == UserStackOwn /\ ParkedStacks /\ KernelStackOwn

CtxInv == SchedInv /\ CtxTypeOK /\ StackInv /\ FsOwn /\ Cr3Own

(* A step that switches leaves the registers to their new owner. *)
LEMMA SwitchKeepsRegs ==
    ASSUME CtxInv, NEW c \in [Task -> 0..MaxTasks], SwitchStep(c),
           \A t \in Task : t # current => c[t] = cr3[t],
           c[current] \in {0, cr3[current]},
           current' = current => c = cr3
    PROVE  CtxTypeOK' /\ StackInv' /\ FsOwn' /\ Cr3Own'
  <1> USE SchedAssumption
  <1>1. /\ current \in Task /\ current' \in Task
        /\ UNCHANGED <<mode, fs_base>> /\ cr3' = c
    BY SwitchTarget DEF CtxInv, SchedInv, SchedTypeOK, SwitchStep
  <1>2. /\ {user_rsp, tss_rsp0, kernel_rsp, fs_reg, cr3_reg} \subseteq 0..MaxTasks
        /\ saved_rsp \in [Task -> 0..MaxTasks] /\ fs_base \in [Task -> 0..MaxTasks]
        /\ cr3 \in [Task -> 0..MaxTasks] /\ space \in [Task -> 0..MaxTasks]
        /\ cr3_reg # 0
    BY DEF CtxInv, CtxTypeOK
  <1>3. CASE current' = current
    <2>1. c = cr3 /\ UNCHANGED <<stackVars, fs_reg, cr3_reg, space>>
      BY <1>3 DEF SwitchStep, SwitchRegisters
    <2>2. QED
      BY <1>1, <1>2, <1>3, <2>1 DEF CtxInv, CtxTypeOK, StackInv, UserStackOwn, ParkedStacks,
         KernelStackOwn, FsOwn, Cr3Own, stackVars
  <1>4. CASE current' # current
    <2>1. /\ RestoreStacks(current') /\ RestoreFs(current') /\ RestoreCr3(current', c)
          /\ UNCHANGED space
      BY <1>4 DEF SwitchStep, SwitchRegisters
    <2>2. CtxTypeOK'
      <3>1. {user_rsp, tss_rsp0, kernel_rsp, fs_reg, cr3_reg}' \subseteq 0..MaxTasks
        BY <1>1, <1>2, <2>1 DEF RestoreStacks, RestoreFs, RestoreCr3, Task, UserTask
      <3>2. saved_rsp' \in [Task -> 0..MaxTasks]
        BY <1>1, <1>2, <2>1 DEF RestoreStacks
      <3>3. cr3_reg' # 0
        BY <1>2, <2>1 DEF RestoreCr3
      <3>4. QED
        BY <1>1, <1>2, <2>1, <3>1, <3>2, <3>3 DEF CtxTypeOK
    <2>3. UserStackOwn'
      BY <1>1, <1>4, <2>1 DEF CtxInv, StackInv, ParkedStacks, UserStackOwn, RestoreStacks
    <2>4. ParkedStacks'
      BY <1>1, <1>2, <1>4, <2>1 DEF CtxInv, StackInv, ParkedStacks, UserStackOwn, RestoreStacks
    <2>5. KernelStackOwn'
      BY <2>1 DEF KernelStackOwn, RestoreStacks
    <2>6. FsOwn'
      BY <1>1, <2>1 DEF FsOwn, RestoreFs
    <2>7. Cr3Own'
      BY <1>1, <1>4, <2>1 DEF CtxInv, Cr3Own, RestoreCr3
    <2>8. QED
      BY <2>2, <2>3, <2>4, <2>5, <2>6, <2>7 DEF StackInv
  <1>5. QED
    BY <1>3, <1>4

(* The calls of the scheduler, as steps of the registers. *)
LEMMA SwitchingSteps ==
    ASSUME CtxInv, irq_timer \/ CtxYield \/ CtxBlock \/ CtxExit
    PROVE  \E c \in [Task -> 0..MaxTasks] :
              /\ SwitchStep(c)
              /\ \A t \in Task : t # current => c[t] = cr3[t]
              /\ c[current] \in {0, cr3[current]}
              /\ current' = current => c = cr3
              /\ c = cr3 \/ Exit
  <1> USE SchedAssumption
  <1>1. cr3 \in [Task -> 0..MaxTasks] /\ current \in Task
    BY DEF CtxInv, CtxTypeOK, SchedInv, SchedTypeOK
  <1>2. CASE irq_timer \/ CtxYield \/ CtxBlock
    <2>1. SwitchStep(cr3)
      BY <1>2 DEF irq_timer, CtxYield, CtxBlock, Switching, SwitchStep
    <2>2. QED
      BY <1>1, <2>1
  <1>3. CASE CtxExit
    <2> DEFINE c == [cr3 EXCEPT ![current] = 0]
    <2>1. SwitchStep(c)
      BY <1>3 DEF CtxExit, SwitchStep
    <2>2. c \in [Task -> 0..MaxTasks]
      BY <1>1
    <2>3. current' # current
      <3>1. SchedInv' /\ state'[current] = "DEAD"
        BY <1>3, SchedStep, SwitchTarget DEF CtxInv, CtxExit, SchedNext
      <3>2. QED
        BY <1>1, <3>1 DEF SchedInv, OneRunning
    <2>4. /\ \A t \in Task : t # current => c[t] = cr3[t]
          /\ c[current] = 0
      BY <1>1
    <2>5. Exit
      BY <1>3 DEF CtxExit
    <2>6. QED
      BY <2>1, <2>2, <2>3, <2>4, <2>5
  <1>4. QED
    BY <1>2, <1>3

(* Each action keeps the invariant of registers and fields. *)
LEMMA CtxStep == CtxInv /\ [CtxNext]_vars => CtxInv'
  <1> SUFFICES ASSUME CtxInv, [CtxNext]_vars PROVE CtxInv'
    OBVIOUS
  <1> USE SchedAssumption
  <1>1. SchedInv'
    BY CtxImpliesSched, SchedStep DEF CtxInv
  <1>2. /\ current \in Task /\ Idle \in Task /\ Boot \in Task
        /\ next_id \in 4..(MaxTasks + 1)
        /\ mode \in [Task -> {"run", "syscall", "sleep"}]
        /\ InSyscall => current \in UserTask
    BY DEF CtxInv, SchedInv, SchedTypeOK, KernelTasksRun, InSyscall, Task, UserTask, Boot, Idle
  <1>3. /\ {user_rsp, tss_rsp0, kernel_rsp, fs_reg, cr3_reg} \subseteq 0..MaxTasks
        /\ saved_rsp \in [Task -> 0..MaxTasks] /\ fs_base \in [Task -> 0..MaxTasks]
        /\ cr3 \in [Task -> 0..MaxTasks] /\ space \in [Task -> 0..MaxTasks]
        /\ cr3_reg # 0
    BY DEF CtxInv, CtxTypeOK
  <1>4. CASE irq_timer \/ CtxYield \/ CtxBlock \/ CtxExit
    BY <1>1, <1>4, SwitchingSteps, SwitchKeepsRegs DEF CtxInv
  <1>5. CASE syscall_entry
    <2>1. /\ current \in UserTask
          /\ mode' = [mode EXCEPT ![current] = "syscall"]
          /\ user_rsp' = current
          /\ UNCHANGED <<current, saved_rsp, tss_rsp0, kernel_rsp, fsVars, cr3Vars>>
      BY <1>5 DEF syscall_entry, SyscallEnter
    <2>2. StackInv'
      BY <1>2, <2>1 DEF CtxInv, StackInv, UserStackOwn, ParkedStacks, KernelStackOwn
    <2>3. CtxTypeOK'
      <3>1. user_rsp' \in 0..MaxTasks
        BY <1>2, <2>1 DEF Task
      <3>2. QED
        BY <1>3, <2>1, <3>1 DEF CtxTypeOK, fsVars, cr3Vars
    <2>4. QED
      BY <1>1, <2>1, <2>2, <2>3 DEF CtxInv, FsOwn, Cr3Own, fsVars, cr3Vars
  <1>6. CASE sysret \/ CtxSleep
    <2>1. /\ mode[current] # "run"
          /\ \E m \in {"run", "syscall", "sleep"} : mode' = [mode EXCEPT ![current] = m]
          /\ UNCHANGED <<current, regVars>>
      BY <1>6 DEF sysret, CtxSleep, SyscallExit, SleepBegin, SleepEnd, InSyscall
    <2>2. StackInv'
      BY <1>2, <2>1 DEF CtxInv, StackInv, UserStackOwn, ParkedStacks, KernelStackOwn,
         regVars, stackVars
    <2>3. CtxTypeOK'
      BY <1>3, <2>1 DEF CtxTypeOK, regVars, stackVars, fsVars, cr3Vars
    <2>4. QED
      BY <1>1, <2>1, <2>2, <2>3 DEF CtxInv, FsOwn, Cr3Own, regVars, fsVars, cr3Vars
  <1>7. CASE CtxUnblock \/ CtxKill \/ UNCHANGED vars
    <2>1. UNCHANGED <<current, mode, regVars>>
      BY <1>7 DEF CtxUnblock, CtxKill, Unblock, Kill, vars, schedVars
    <2>2. QED
      BY <1>1, <1>3, <2>1 DEF CtxInv, CtxTypeOK, StackInv, UserStackOwn, ParkedStacks,
         KernelStackOwn, FsOwn, Cr3Own, regVars, stackVars, fsVars, cr3Vars
  <1>8. CASE CtxFork \/ CtxClone
    <2>1. /\ next_id \in Task /\ next_id # current
          /\ UNCHANGED <<current, mode, stackVars, fs_reg, cr3_reg>>
          /\ fs_base' = [fs_base EXCEPT ![next_id] = fs_base[current]]
      <3>1. state[next_id] = "NONE" <=> next_id >= next_id
        BY <1>8 DEF CtxInv, SchedInv, IdsInOrder, CtxFork, CtxClone, Fork
      <3>2. QED
        BY <1>2, <1>8, <3>1 DEF CtxFork, CtxClone, Fork, CtxInv, SchedInv, OneRunning
    <2>2. CtxTypeOK'
      <3>1. next_id \in 0..MaxTasks
        BY <2>1 DEF Task
      <3>2. /\ fs_base' \in [Task -> 0..MaxTasks]
            /\ cr3' \in [Task -> 0..MaxTasks]
            /\ space' \in [Task -> 0..MaxTasks]
        BY <1>2, <1>3, <1>8, <2>1, <3>1 DEF CtxFork, CtxClone
      <3>3. QED
        BY <1>3, <2>1, <3>2 DEF CtxTypeOK, stackVars
    <2>3. StackInv'
      BY <2>1 DEF CtxInv, StackInv, UserStackOwn, ParkedStacks, KernelStackOwn, stackVars
    <2>4. FsOwn'
      BY <1>2, <1>3, <2>1 DEF CtxInv, FsOwn
    <2>5. cr3'[current] \in {cr3[current], cr3_reg}
      BY <1>2, <1>3, <1>8, <2>1 DEF CtxFork, CtxClone
    <2>6. Cr3Own'
      BY <2>1, <2>5 DEF CtxInv, Cr3Own
    <2>7. QED
      BY <1>1, <2>2, <2>3, <2>4, <2>6 DEF CtxInv
  <1>9. CASE arch_prctl
    <2>1. PICK base \in {0, current} :
             /\ fs_reg' = base
             /\ fs_base' = [fs_base EXCEPT ![current] = base]
      BY <1>9 DEF arch_prctl
    <2>2. UNCHANGED <<current, mode, stackVars, cr3Vars>>
      BY <1>9 DEF arch_prctl, schedVars
    <2>3. base \in 0..MaxTasks
      BY <1>2, <2>1 DEF Task
    <2>4. CtxTypeOK'
      BY <1>2, <1>3, <2>1, <2>2, <2>3 DEF CtxTypeOK, stackVars, cr3Vars
    <2>5. FsOwn'
      BY <1>2, <1>3, <2>1, <2>2 DEF FsOwn
    <2>6. QED
      BY <1>1, <2>2, <2>4, <2>5 DEF CtxInv, StackInv, UserStackOwn, ParkedStacks,
         KernelStackOwn, Cr3Own, stackVars, cr3Vars
  <1>10. QED
    BY <1>4, <1>5, <1>6, <1>7, <1>8, <1>9 DEF CtxNext

(* The invariant holds when kernel_main opens interrupts. *)
LEMMA CtxInitInv == CtxInit => CtxInv
  <1> SUFFICES ASSUME CtxInit PROVE CtxInv
    OBVIOUS
  <1> USE SchedAssumption
  <1>1. SchedInv
    BY SchedInitInv DEF CtxInit
  <1>2. current = Boot /\ \A t \in Task : mode[t] = "run"
    BY DEF CtxInit, Init
  <1>3. CtxTypeOK
    BY DEF CtxInit, CtxTypeOK, KernelSpace, Hello
  <1>4. StackInv /\ FsOwn /\ Cr3Own
    BY <1>2 DEF CtxInit, StackInv, UserStackOwn, ParkedStacks, KernelStackOwn, FsOwn, Cr3Own,
       UserTask, Boot, Task
  <1>5. QED
    BY <1>1, <1>3, <1>4 DEF CtxInv

(* Registers, fields and the tasks' modes agree in every reachable state. *)
THEOREM CtxInvariant == CtxSpec => []CtxInv
  BY CtxInitInv, CtxStep, PTL DEF CtxSpec

(* A task that slept in the kernel finds its own user stack pointer in the *)
(* per-CPU block when it returns, with any number of tasks in between.     *)
THEOREM ReturnsOnOwnStack == CtxSpec => []UserStackOwn
  <1>1. CtxInv => UserStackOwn
    BY DEF CtxInv, StackInv
  <1>2. QED
    BY CtxInvariant, <1>1, PTL

(* Comparing the cr3 fields of the two tasks is enough to keep CR3 right   *)
(* for every task whose field is set.                                      *)
THEOREM Cr3FollowsField == CtxSpec => []Cr3Own
  <1>1. CtxInv => Cr3Own
    BY DEF CtxInv
  <1>2. QED
    BY CtxInvariant, <1>1, PTL

(* The same for the kernel stacks and the FS base. *)
THEOREM StackAndFsFollowTask == CtxSpec => [](KernelStackOwn /\ FsOwn)
  <1>1. CtxInv => KernelStackOwn /\ FsOwn
    BY DEF CtxInv, StackInv
  <1>2. QED
    BY CtxInvariant, <1>1, PTL

(* A task that set its FS base runs with it, whoever ran in between.       *)
THEOREM FsFollowsTask == CtxSpec => []FsOwn
  <1>1. CtxInv => FsOwn
    BY DEF CtxInv
  <1>2. QED
    BY CtxInvariant, <1>1, PTL
-----------------------------------------------------------------------------
(***************************************************************************)
(* Address spaces without threads.  NoThreads is stable backwards: a step  *)
(* never makes two spaces differ again.  While it holds, a set cr3 field   *)
(* names the space of its task, and a user task that lives with an unset   *)
(* one is the first program before any fork, when no second space exists.  *)
(***************************************************************************)
FieldIsSpace == \A t \in Task : cr3[t] # 0 =>
                    t \in UserTask /\ state[t] # "NONE" /\ cr3[t] = space[t]

UnsetIsFirst == \A t \in UserTask : cr3[t] = 0 /\ state[t] \notin {"NONE", "DEAD"} =>
                    t = Hello /\ next_id = 4

SpaceInv == /\ FieldIsSpace
            /\ UnsetIsFirst
            /\ space[Hello] = KernelSpace
            /\ next_id = 4 => cr3_reg = KernelSpace
            /\ OwnSpace

FullInv == CtxInv /\ (NoThreads => SpaceInv)

(* Spaces are never taken away: if there are no threads now, there were    *)
(* none before.                                                            *)
LEMMA NoThreadsBackwards ==
    ASSUME CtxInv, CtxInv', [CtxNext]_vars, NoThreads'
    PROVE  NoThreads
  <1> USE SchedAssumption
  <1>1. ASSUME NEW t \in Task, state[t] # "NONE"
        PROVE  state'[t] # "NONE" /\ space'[t] = space[t]
    <2>1. t < next_id /\ next_id <= next_id' /\ next_id' \in Nat
      <3>1. t < next_id
        BY <1>1 DEF CtxInv, SchedInv, IdsInOrder, SchedTypeOK, Task
      <3>2. next_id' \in {next_id, next_id + 1}
        BY CtxImpliesSched DEF SchedNext, schedVars, Tick, SyscallEnter, SyscallExit, SleepBegin,
           SleepEnd, Yield, Block, Unblock, Exit, Kill, Fork, task_fork_user
      <3>3. QED
        BY <3>1, <3>2 DEF CtxInv, SchedInv, SchedTypeOK
    <2>2. state'[t] # "NONE"
      BY <2>1 DEF CtxInv, SchedInv, IdsInOrder, SchedTypeOK, Task
    <2>3. space' = space \/ \E a : space' = [space EXCEPT ![next_id] = a]
      <3>1. CASE CtxFork \/ CtxClone
        BY <3>1 DEF CtxFork, CtxClone
      <3>2. CASE ~(CtxFork \/ CtxClone)
        <4>1. space' = space
          BY <3>2 DEF CtxNext, vars, regVars, cr3Vars, Switching, irq_timer, syscall_entry, sysret,
             CtxSleep, CtxYield, CtxBlock, CtxUnblock, CtxKill, CtxExit, arch_prctl
        <4>2. QED
          BY <4>1
      <3>3. QED
        BY <3>1, <3>2
    <2>4. space \in [Task -> 0..MaxTasks]
      BY DEF CtxInv, CtxTypeOK
    <2>5. space'[t] = space[t]
      <3>1. t # next_id
        BY <2>1 DEF Task
      <3>2. QED
        BY <2>3, <2>4, <3>1
    <2>6. QED
      BY <2>2, <2>5
  <1>2. QED
    BY <1>1 DEF NoThreads, Created, UserTask, Task

(* Without threads, each action keeps every task in its own space. *)
LEMMA SpaceStep ==
    ASSUME CtxInv, CtxInv', SpaceInv, [CtxNext]_vars, NoThreads'
    PROVE  SpaceInv'
  <1> USE SchedAssumption
  <1>1. /\ current \in Task /\ current' \in Task /\ Hello \in Task /\ Hello \in UserTask
        /\ next_id \in 4..(MaxTasks + 1)
        /\ state[current] = "RUNNING"
        /\ state \in [Task -> TaskState] /\ state' \in [Task -> TaskState]
        /\ cr3 \in [Task -> 0..MaxTasks] /\ space \in [Task -> 0..MaxTasks]
        /\ InSyscall => current \in UserTask
        /\ UserTask \subseteq Task /\ Idle \notin UserTask
    <2>1. SchedTypeOK /\ SchedTypeOK' /\ OneRunning /\ KernelTasksRun /\ CtxTypeOK
      BY DEF CtxInv, SchedInv
    <2>2. /\ current \in Task /\ current' \in Task
          /\ next_id \in 4..(MaxTasks + 1)
          /\ state \in [Task -> TaskState] /\ state' \in [Task -> TaskState]
      BY <2>1 DEF SchedTypeOK
    <2>3. cr3 \in [Task -> 0..MaxTasks] /\ space \in [Task -> 0..MaxTasks]
      BY <2>1 DEF CtxTypeOK
    <2>4. /\ Hello \in Task /\ Hello \in UserTask
          /\ UserTask \subseteq Task /\ Idle \notin UserTask
      BY DEF Task, UserTask, Idle, Hello
    <2>5. state[current] = "RUNNING"
      BY <2>1, <2>2 DEF OneRunning
    <2>6. InSyscall => current \in UserTask
      BY <2>1, <2>2 DEF KernelTasksRun, InSyscall, Task, UserTask, Boot, Idle
    <2>7. QED
      BY <2>2, <2>3, <2>4, <2>5, <2>6
  <1>2. \A t \in UserTask : state[t] = "DEAD" => state'[t] = "DEAD"
    BY <1>1, CtxImpliesSched, SchedStep DEF CtxInv
  <1>3. \A t \in Task : state[t] = "NONE" <=> t >= next_id
    BY DEF CtxInv, SchedInv, IdsInOrder
  <1>4. \A t \in Task : state'[t] = "NONE" <=> t >= next_id'
    BY DEF CtxInv, SchedInv, IdsInOrder
  <1>5. ASSUME UNCHANGED <<next_id, cr3, space>>
        PROVE  FieldIsSpace' /\ UnsetIsFirst' /\ space'[Hello] = KernelSpace
    <2>1. FieldIsSpace'
      BY <1>3, <1>4, <1>5 DEF SpaceInv, FieldIsSpace
    <2>2. UnsetIsFirst'
      BY <1>1, <1>2, <1>3, <1>4, <1>5 DEF SpaceInv, UnsetIsFirst
    <2>3. QED
      BY <1>5, <2>1, <2>2 DEF SpaceInv
  <1>6. CASE irq_timer \/ CtxYield \/ CtxBlock \/ CtxExit
    <2>1. PICK c \in [Task -> 0..MaxTasks] :
              /\ SwitchStep(c)
              /\ \A t \in Task : t # current => c[t] = cr3[t]
              /\ c[current] \in {0, cr3[current]}
              /\ current' = current => c = cr3
              /\ c = cr3 \/ Exit
      BY <1>6, SwitchingSteps
    <2>2. /\ current' = current \/ current' = Idle \/ state[current'] = "READY"
          /\ UNCHANGED <<next_id, space>> /\ cr3' = c
          /\ Exit => state'[current] = "DEAD"
      BY <2>1, SwitchTarget DEF CtxInv, SwitchStep
    <2>3. FieldIsSpace'
      BY <1>1, <1>3, <1>4, <2>1, <2>2 DEF SpaceInv, FieldIsSpace
    <2>4. UnsetIsFirst'
      <3>1. SUFFICES ASSUME NEW t \in UserTask, c[t] = 0, state'[t] \notin {"NONE", "DEAD"}
                     PROVE  t = Hello /\ next_id = 4
        BY <2>2 DEF UnsetIsFirst
      <3>2. c[t] = cr3[t]
        BY <1>1, <2>1, <2>2, <3>1
      <3>3. state[t] \notin {"NONE", "DEAD"}
        BY <1>1, <1>2, <1>3, <1>4, <2>2, <3>1
      <3>4. QED
        BY <3>1, <3>2, <3>3 DEF SpaceInv, UnsetIsFirst
    <2>5. CASE current' = current
      <3>1. cr3_reg' = cr3_reg
        BY <2>1, <2>5 DEF SwitchStep, SwitchRegisters
      <3>2. QED
        BY <2>2, <2>3, <2>4, <2>5, <3>1 DEF SpaceInv, OwnSpace
    <2>6. CASE current' # current
      <3>1. cr3_reg' = IF c[current'] # 0 /\ c[current'] # c[current]
                       THEN c[current'] ELSE cr3_reg
        BY <2>1, <2>6 DEF SwitchStep, SwitchRegisters, RestoreCr3
      <3>2. c[current'] = cr3[current']
        BY <1>1, <2>1, <2>6
      <3>3. next_id = 4 => cr3_reg' = KernelSpace
        <4>1. SUFFICES ASSUME next_id = 4, cr3[current'] # 0
                       PROVE  cr3[current'] = KernelSpace
          BY <3>1, <3>2 DEF SpaceInv
        <4>2. current' \in UserTask /\ state[current'] # "NONE"
          BY <1>1, <4>1 DEF SpaceInv, FieldIsSpace
        <4>3. current' = Hello
          BY <1>1, <1>3, <4>1, <4>2 DEF UserTask, Hello
        <4>4. QED
          BY <1>1, <4>1, <4>3 DEF SpaceInv, FieldIsSpace
      <3>4. current' \in UserTask => cr3_reg' = space[current']
        <4>1. SUFFICES ASSUME current' \in UserTask
                       PROVE  cr3_reg' = space[current']
          OBVIOUS
        <4>2. state[current'] = "READY"
          BY <1>1, <2>2, <2>6, <4>1
        <4>3. CASE cr3[current'] # 0
          <5>1. cr3_reg' = cr3[current']
            BY <2>2, <3>2, <4>3 DEF CtxInv, Cr3Own
          <5>2. QED
            BY <1>1, <4>3, <5>1 DEF SpaceInv, FieldIsSpace
        <4>4. CASE cr3[current'] = 0
          <5>1. current' = Hello /\ next_id = 4
            BY <4>1, <4>2, <4>4 DEF SpaceInv, UnsetIsFirst
          <5>2. QED
            BY <3>3, <5>1 DEF SpaceInv
        <4>5. QED
          BY <4>3, <4>4
      <3>5. QED
        BY <2>2, <2>3, <2>4, <3>3, <3>4 DEF SpaceInv, OwnSpace
    <2>7. QED
      BY <2>5, <2>6
  <1>7. CASE \/ syscall_entry \/ sysret \/ CtxSleep \/ CtxUnblock \/ CtxKill
             \/ arch_prctl \/ UNCHANGED vars
    <2>1. UNCHANGED <<current, next_id, cr3Vars>>
      BY <1>7 DEF syscall_entry, sysret, CtxSleep, CtxUnblock, CtxKill, arch_prctl, SyscallEnter,
         SyscallExit, SleepBegin, SleepEnd, Unblock, Kill, vars, schedVars, regVars
    <2>2. QED
      BY <1>5, <2>1 DEF SpaceInv, OwnSpace, cr3Vars
  <1>8. CASE CtxFork
    <2>1. /\ next_id \in Task /\ next_id \in UserTask /\ next_id # current
          /\ next_id # Hello /\ current \in UserTask
          /\ next_id' = next_id + 1
          /\ state' = [state EXCEPT ![next_id] = "READY"]
          /\ UNCHANGED <<current, cr3_reg>>
          /\ cr3' = [cr3 EXCEPT ![next_id] = next_id, ![current] = cr3_reg]
          /\ space' = [space EXCEPT ![next_id] = next_id]
      BY <1>1, <1>3, <1>8 DEF CtxFork, Fork, task_fork_user, Task, UserTask, Hello
    <2>2. cr3_reg = space[current] /\ cr3_reg # 0
      BY <2>1 DEF SpaceInv, OwnSpace, CtxInv, CtxTypeOK
    <2>3. FieldIsSpace'
      <3>1. SUFFICES ASSUME NEW t \in Task, cr3'[t] # 0
                     PROVE  t \in UserTask /\ state'[t] # "NONE" /\ cr3'[t] = space'[t]
        BY DEF FieldIsSpace
      <3>2. CASE t = next_id
        BY <1>1, <2>1, <3>2
      <3>3. CASE t = current
        BY <1>1, <2>1, <2>2, <3>3
      <3>4. CASE t \notin {current, next_id}
        BY <1>1, <2>1, <3>1, <3>4 DEF SpaceInv, FieldIsSpace
      <3>5. QED
        BY <3>2, <3>3, <3>4
    <2>4. UnsetIsFirst'
      <3>1. SUFFICES ASSUME NEW t \in UserTask, cr3'[t] = 0, state'[t] \notin {"NONE", "DEAD"}
                     PROVE  FALSE
        BY DEF UnsetIsFirst
      <3>2. t # next_id /\ t # current
        BY <1>1, <2>1, <2>2, <3>1 DEF UserTask
      <3>3. cr3[t] = 0 /\ state[t] \notin {"NONE", "DEAD"}
        BY <1>1, <2>1, <3>1, <3>2
      <3>4. t = Hello /\ next_id = 4
        BY <3>3 DEF SpaceInv, UnsetIsFirst
      <3>5. current = Hello
        BY <1>1, <1>3, <2>1, <3>4 DEF UserTask, Hello
      <3>6. QED
        BY <3>2, <3>4, <3>5
    <2>5. space'[Hello] = KernelSpace
      BY <1>1, <2>1 DEF SpaceInv
    <2>6. next_id' # 4
      BY <1>1, <2>1
    <2>7. OwnSpace'
      BY <1>1, <2>1, <2>2 DEF OwnSpace
    <2>8. QED
      BY <2>3, <2>4, <2>5, <2>6, <2>7 DEF SpaceInv
  <1>9. CASE CtxClone
    <2>1. /\ next_id \in UserTask /\ next_id # current /\ current \in UserTask
          /\ state'[next_id] # "NONE" /\ state'[current] # "NONE"
          /\ space' = [space EXCEPT ![next_id] = space[current]]
      BY <1>1, <1>3, <1>9 DEF CtxClone, Fork, task_fork_user, Task, UserTask
    <2>2. space'[next_id] = space'[current]
      BY <1>1, <2>1
    <2>3. ~NoThreads'
      BY <1>1, <2>1, <2>2 DEF NoThreads, Created
    <2>4. QED
      BY <2>3
  <1>10. QED
    BY <1>6, <1>7, <1>8, <1>9 DEF CtxNext

(* The first program starts in the kernel's space. *)
LEMMA SpaceInit == CtxInit => SpaceInv
  <1> SUFFICES ASSUME CtxInit PROVE SpaceInv
    OBVIOUS
  <1> USE SchedAssumption
  <1>1. \A t \in Task : state[t] = "NONE" <=> t >= 4
    BY SchedInitInv DEF CtxInit, Init, SchedInv, IdsInOrder
  <1>2. next_id = 4 /\ current = Boot
    BY DEF CtxInit, Init
  <1>3. FieldIsSpace /\ space[Hello] = KernelSpace
    BY DEF CtxInit, FieldIsSpace, Task, Hello
  <1>4. UnsetIsFirst
    BY <1>1, <1>2 DEF UnsetIsFirst, Task, UserTask, Hello
  <1>5. OwnSpace
    BY <1>2 DEF OwnSpace, UserTask, Boot
  <1>6. cr3_reg = KernelSpace
    BY DEF CtxInit
  <1>7. QED
    BY <1>3, <1>4, <1>5, <1>6 DEF SpaceInv

(* Processes made by fork alone never run in one another's address space,  *)
(* although the first program has no cr3 field until it forks.             *)
THEOREM ForksKeepTheirSpace == CtxSpec => []OwnSpaceWithoutThreads
  <1>1. CtxInit => FullInv
    BY CtxInitInv, SpaceInit DEF FullInv
  <1>2. FullInv /\ [CtxNext]_vars => FullInv'
    <2>1. SUFFICES ASSUME FullInv, [CtxNext]_vars PROVE FullInv'
      OBVIOUS
    <2>2. CtxInv'
      BY <2>1, CtxStep DEF FullInv
    <2>3. NoThreads' => SpaceInv'
      BY <2>1, <2>2, NoThreadsBackwards, SpaceStep DEF FullInv
    <2>4. QED
      BY <2>2, <2>3 DEF FullInv
  <1>3. FullInv => OwnSpaceWithoutThreads
    BY DEF FullInv, OwnSpaceWithoutThreads, SpaceInv
  <1>4. QED
    BY <1>1, <1>2, <1>3, PTL DEF CtxSpec
=============================================================================
