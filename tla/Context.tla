------------------------------ MODULE Context ------------------------------
(***************************************************************************)
(* The processor context that do_switch_to (kernel/sched.c) carries from   *)
(* task to task: the user stack pointer parked in the per-CPU block, the   *)
(* kernel stack of the TSS and of the system call entry, the FS base and   *)
(* CR3.  Each action is an action of Sched with its effect on these        *)
(* registers.  Stack pointers, FS bases and address spaces are named by    *)
(* the task they belong to; 0 is the null value of the struct field.       *)
(***************************************************************************)
EXTENDS Sched

VARIABLES user_rsp,     \* percpu.user_rsp_save: whose user stack pointer it is
          saved_rsp,    \* task->saved_user_rsp
          tss_rsp0,     \* whose kernel stack an interrupt from ring 3 takes
          kernel_rsp,   \* percpu.kernel_rsp: whose kernel stack a syscall takes
          fs_reg,       \* IA32_FS_BASE
          fs_base,      \* task->fs_base
          cr3_reg,      \* CR3
          cr3,          \* task->cr3
          space         \* history: the address space a task was created in

stackVars == <<user_rsp, saved_rsp, tss_rsp0, kernel_rsp>>
fsVars    == <<fs_reg, fs_base>>
cr3Vars   == <<cr3_reg, cr3, space>>
regVars   == <<stackVars, fsVars, cr3Vars>>
vars      == <<schedVars, regVars>>

KernelSpace == 1    \* kernel_pml4_phys, where the first user program is loaded

-----------------------------------------------------------------------------
(* Faulty variants: the user stack pointer left in the per-CPU block, the  *)
(* system call stack not installed, the FS base not restored, CR3 kept     *)
(* when the leaving task has no space of its own.                          *)
RestoreStacksNoUser(n) ==
    /\ tss_rsp0' = IF n \in UserTask THEN n ELSE tss_rsp0
    /\ kernel_rsp' = IF n \in UserTask THEN n ELSE kernel_rsp
    /\ UNCHANGED <<saved_rsp, user_rsp>>

RestoreStacksTssOnly(n) ==
    /\ tss_rsp0' = IF n \in UserTask THEN n ELSE tss_rsp0
    /\ kernel_rsp' = kernel_rsp
    /\ saved_rsp' = [saved_rsp EXCEPT ![current] = user_rsp]
    /\ user_rsp' = saved_rsp[n]

RestoreFsNever(n) == fs_reg' = fs_reg

RestoreCr3Lazy(n, c) ==
    cr3_reg' = IF c[n] # 0 /\ c[current] # 0 /\ c[n] # c[current] THEN c[n] ELSE cr3_reg

(* The register part of do_switch_to; the leaving task's cr3 field has     *)
(* been turned into c[current].  A kernel task has no kernel stack of its  *)
(* own to install, and an unset fs_base or cr3 leaves the register alone.  *)
RestoreStacks(n) ==
    /\ tss_rsp0' = IF n \in UserTask THEN n ELSE tss_rsp0
    /\ kernel_rsp' = IF n \in UserTask THEN n ELSE kernel_rsp
    /\ saved_rsp' = [saved_rsp EXCEPT ![current] = user_rsp]
    /\ user_rsp' = saved_rsp[n]

RestoreFs(n) == fs_reg' = IF fs_base[n] # 0 THEN fs_base[n] ELSE fs_reg

RestoreCr3(n, c) ==
    cr3_reg' = IF c[n] # 0 /\ c[n] # c[current] THEN c[n] ELSE cr3_reg

SwitchRegisters(c) ==
    IF current' = current
    THEN UNCHANGED <<stackVars, fs_reg, cr3_reg>>
    ELSE /\ RestoreStacks(current')
         /\ RestoreFs(current')
         /\ RestoreCr3(current', c)

-----------------------------------------------------------------------------
CtxInit == /\ Init
           /\ user_rsp = 0
           /\ saved_rsp = [t \in Task |-> 0]
           /\ tss_rsp0 = 0
           /\ kernel_rsp = 0
           /\ fs_reg = 0
           /\ fs_base = [t \in Task |-> 0]
           /\ cr3_reg = KernelSpace
           /\ cr3 = [t \in Task |-> 0]
           /\ space = [t \in Task |-> IF t <= Hello THEN KernelSpace ELSE 0]

(* A scheduler call that leaves the cr3 fields alone. *)
Switching(A) == /\ A
                /\ SwitchRegisters(cr3)
                /\ UNCHANGED <<fs_base, cr3, space>>

irq_timer  == Switching(Tick)
CtxYield   == Switching(Yield)
CtxBlock   == Switching(Block)

(* syscall_entry: the user stack pointer goes to the per-CPU block. *)
syscall_entry == /\ SyscallEnter
                 /\ user_rsp' = current
                 /\ UNCHANGED <<saved_rsp, tss_rsp0, kernel_rsp, fsVars, cr3Vars>>

(* The tail of syscall_entry: the stack pointer comes back from there. *)
sysret == SyscallExit /\ UNCHANGED regVars

CtxSleep   == (SleepBegin \/ SleepEnd) /\ UNCHANGED regVars
CtxUnblock == Unblock /\ UNCHANGED regVars
CtxKill    == Kill /\ UNCHANGED regVars

(* task_exit drops the task's own address space before it yields. *)
CtxExit == LET c == [cr3 EXCEPT ![current] = 0] IN
           /\ Exit
           /\ cr3' = c
           /\ SwitchRegisters(c)
           /\ UNCHANGED <<fs_base, space>>

(* Faulty variant: the parent's cr3 field is not filled in. *)
CtxForkChildOnly == /\ Fork
                    /\ fs_base' = [fs_base EXCEPT ![next_id] = fs_base[current]]
                    /\ cr3' = [cr3 EXCEPT ![next_id] = next_id]
                    /\ space' = [space EXCEPT ![next_id] = next_id]
                    /\ UNCHANGED <<stackVars, fs_reg, cr3_reg>>

(* The scheduling side of sys_fork: the child gets a copy of the current   *)
(* address space, and the parent's cr3 field is filled in.                 *)
CtxFork == /\ Fork
           /\ fs_base' = [fs_base EXCEPT ![next_id] = fs_base[current]]
           /\ cr3' = [cr3 EXCEPT ![next_id] = next_id, ![current] = cr3_reg]
           /\ space' = [space EXCEPT ![next_id] = next_id]
           /\ UNCHANGED <<stackVars, fs_reg, cr3_reg>>

(* The scheduling side of sys_clone with CLONE_VM: a thread of the caller; *)
(* only the thread's cr3 field is filled in.                               *)
CtxClone == /\ Fork
            /\ fs_base' = [fs_base EXCEPT ![next_id] = fs_base[current]]
            /\ cr3' = [cr3 EXCEPT ![next_id] = cr3_reg]
            /\ space' = [space EXCEPT ![next_id] = space[current]]
            /\ UNCHANGED <<stackVars, fs_reg, cr3_reg>>

(* arch_prctl(ARCH_SET_FS): a thread pointer of the task's own, or 0. *)
arch_prctl == /\ InSyscall
              /\ \E base \in {0, current} :
                    /\ fs_reg' = base
                    /\ fs_base' = [fs_base EXCEPT ![current] = base]
              /\ UNCHANGED <<schedVars, stackVars, cr3Vars>>

CtxNext == \/ irq_timer
           \/ syscall_entry
           \/ sysret
           \/ CtxSleep
           \/ CtxYield
           \/ CtxBlock
           \/ CtxUnblock
           \/ CtxExit
           \/ CtxKill
           \/ CtxFork
           \/ CtxClone
           \/ arch_prctl

CtxSpec == CtxInit /\ [][CtxNext]_vars

-----------------------------------------------------------------------------
(* Every register and field holds null or the name of a task. *)
CtxTypeOK == /\ {user_rsp, tss_rsp0, kernel_rsp, fs_reg, cr3_reg} \subseteq 0..MaxTasks
             /\ {saved_rsp, fs_base, cr3, space} \subseteq [Task -> 0..MaxTasks]
             /\ cr3_reg # 0

(* "A task sleeping in the kernel would get another's user RSP on return"  *)
(* (sched.c:230-233): while a task is inside a system call and on the CPU, *)
(* the per-CPU block holds its own user stack pointer, however many other  *)
(* tasks made system calls since it entered.                               *)
UserStackOwn == mode[current] # "run" => user_rsp = current

(* A user task on the CPU enters the kernel on its own kernel stack, by    *)
(* interrupt or by system call (sched.c:224-228).                          *)
KernelStackOwn == current \in UserTask => tss_rsp0 = current /\ kernel_rsp = current

(* A task that set its FS base runs with it (sched.c:241-247). *)
FsOwn == fs_base[current] # 0 => fs_reg = fs_base[current]

(* A task whose cr3 field is set runs in that space, although do_switch_to *)
(* compares it with the leaving task's field and not with CR3, and kernel  *)
(* tasks and exits leave the register alone (sched.c:253-256).             *)
Cr3Own == cr3[current] # 0 => cr3_reg = cr3[current]

(* A user task runs in the address space it was created in: the space the  *)
(* first program was loaded in, its fork's copy, or its creator's          *)
(* (sched.c:252, sys_impl.c:270-272).                                      *)
OwnSpace == current \in UserTask => cr3_reg = space[current]

NoThreads == \A s, t \in UserTask \cap Created : space[s] = space[t] => s = t

(* Without threads the first program, whose cr3 field is unset until its   *)
(* first fork, also keeps to its own space.                                *)
OwnSpaceWithoutThreads == NoThreads => OwnSpace
=============================================================================
