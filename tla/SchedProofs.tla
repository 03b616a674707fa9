---------------------------- MODULE SchedProofs ----------------------------
(***************************************************************************)
(* Theorems about the scheduler, for any number of tasks and any limit of  *)
(* the search.  The inductive invariant SchedInv adds to the type          *)
(* invariant and to OneRunning that ids are handed out in order and that   *)
(* the two kernel tasks never enter a system call: without the latter idle *)
(* could block or exit while pick_next offers nothing else.                *)
(***************************************************************************)
EXTENDS Sched, TLAPS, FiniteSetTheorems, WellFoundedInduction

KernelTasksRun == mode[Boot] = "run" /\ mode[Idle] = "run"

IdsInOrder == \A t \in Task : state[t] = "NONE" <=> t >= next_id

SchedInv == SchedTypeOK /\ OneRunning /\ KernelTasksRun /\ IdsInOrder

(* The search returns a task that is READY, or idle. *)
LEMMA PickNext ==
    ASSUME NEW st, NEW from
    PROVE  /\ pick_next(st, from) \in Task
           /\ pick_next(st, from) = Idle \/ st[pick_next(st, from)] = "READY"
  <1>1. CASE \E t \in Task : FirstReady(st, from, t)
    <2>1. /\ pick_next(st, from) \in Task
          /\ FirstReady(st, from, pick_next(st, from))
      BY <1>1, Zenon DEF pick_next
    <2>2. QED
      BY <2>1 DEF FirstReady
  <1>2. CASE ~ \E t \in Task : FirstReady(st, from, t)
    BY <1>2, SchedAssumption DEF pick_next, Task, Idle
  <1>3. QED
    BY <1>1, <1>2

(* Giving the CPU to a READY task or to idle, after the running task was   *)
(* left as it is, blocked or killed, keeps the invariant.                  *)
LEMMA SwitchKeepsInv ==
    ASSUME SchedInv,
           NEW s \in {"RUNNING", "BLOCKED", "DEAD"},
           s = "RUNNING" \/ current # Idle,
           sched_yield([state EXCEPT ![current] = s]),
           UNCHANGED <<next, next_id, mode>>
    PROVE  /\ SchedInv'
           /\ \A t \in Task \ {Idle} : state[t] = "DEAD" => state'[t] = "DEAD"
  <1> DEFINE st == [state EXCEPT ![current] = s]
             n  == pick_next(st, current)
  <1> USE SchedAssumption
  <1>1. /\ n \in Task
        /\ n = Idle \/ st[n] = "READY"
    BY PickNext
  <1>2. /\ current' = n
        /\ state' = Switched(st, n)
    BY DEF sched_yield, do_switch_to
  <1>3. /\ current \in Task
        /\ state \in [Task -> TaskState]
        /\ state[current] = "RUNNING"
        /\ \A t \in Task : state[t] = "RUNNING" => t = current
        /\ Idle \in Task
    BY DEF SchedInv, SchedTypeOK, OneRunning, Task, Idle
  <1>4. st[current] = s /\ \A t \in Task : t # current => st[t] = state[t]
    BY <1>3
  <1> HIDE DEF n, st
  <1>5. CASE n = current
    <2>1. s = "RUNNING" /\ n = Idle
      BY <1>1, <1>4, <1>5
    <2>2. st = state
      BY <1>3, <2>1 DEF st
    <2>3. UNCHANGED schedVars
      BY <1>2, <1>5, <2>2 DEF Switched, schedVars
    <2>4. QED
      BY <2>3 DEF SchedInv, SchedTypeOK, OneRunning, KernelTasksRun, IdsInOrder, schedVars
  <1>6. CASE n # current
    <2>1. st \in [Task -> TaskState]
      BY <1>3 DEF st, TaskState
    <2>2. state' = [st EXCEPT ![current] = IF s = "RUNNING" THEN "READY" ELSE s,
                              ![n] = "RUNNING"]
      BY <1>2, <1>3, <1>4, <1>6, <2>1 DEF Switched
    <2>3. /\ state'[n] = "RUNNING"
          /\ state'[current] \in {"READY", "BLOCKED", "DEAD"}
          /\ \A t \in Task : t \notin {current, n} => state'[t] = state[t]
          /\ state' \in [Task -> TaskState]
      BY <1>1, <1>3, <1>4, <1>6, <2>1, <2>2 DEF TaskState
    <2>4. SchedTypeOK'
      BY <1>1, <1>2, <2>3 DEF SchedInv, SchedTypeOK
    <2>5. OneRunning'
      BY <1>1, <1>2, <1>3, <1>6, <2>3 DEF OneRunning
    <2>6. state[n] # "NONE"
      <3>1. state[n] = "READY" \/ n = Idle
        BY <1>1, <1>4, <1>6
      <3>2. state[Idle] # "NONE"
        BY <1>3 DEF SchedInv, SchedTypeOK, IdsInOrder, Idle
      <3>3. QED
        BY <3>1, <3>2
    <2>7. IdsInOrder'
      BY <1>1, <1>3, <2>3, <2>6 DEF SchedInv, IdsInOrder
    <2>8. KernelTasksRun'
      BY DEF SchedInv, KernelTasksRun
    <2>9. \A t \in Task \ {Idle} : state[t] = "DEAD" => state'[t] = "DEAD"
      <3>1. SUFFICES ASSUME NEW t \in Task \ {Idle}, state[t] = "DEAD"
                     PROVE  state'[t] = "DEAD"
        OBVIOUS
      <3>2. t # current
        BY <1>3, <3>1
      <3>3. t # n
        BY <1>1, <1>4, <3>1, <3>2
      <3>4. QED
        BY <2>3, <3>1, <3>2, <3>3
    <2>10. QED
      BY <2>4, <2>5, <2>7, <2>8, <2>9 DEF SchedInv
  <1>7. QED
    BY <1>5, <1>6

(* Who gets the CPU when it changes hands. *)
LEMMA SwitchTarget ==
    ASSUME SchedInv, Tick \/ Yield \/ Block \/ Exit
    PROVE  /\ current' \in Task
           /\ current' = current \/ current' = Idle \/ state[current'] = "READY"
           /\ UNCHANGED <<next, next_id, mode>>
           /\ Exit => state'[current] = "DEAD"
  <1> USE SchedAssumption
  <1>1. /\ current \in Task
        /\ state \in [Task -> TaskState]
        /\ state[current] = "RUNNING"
    BY DEF SchedInv, SchedTypeOK, OneRunning
  <1>2. PICK s \in {"RUNNING", "BLOCKED", "DEAD"} :
            /\ sched_yield([state EXCEPT ![current] = s])
            /\ Exit => s = "DEAD"
            /\ s = "DEAD" => InSyscall
    <2>1. state = [state EXCEPT ![current] = "RUNNING"]
      BY <1>1
    <2>2. CASE Exit
      BY <2>2 DEF Exit, task_exit
    <2>3. CASE ~Exit
      BY <2>1, <2>3 DEF Tick, Yield, Block, sched_tick, task_block, sched_yield
    <2>4. QED
      BY <2>2, <2>3
  <1> DEFINE st == [state EXCEPT ![current] = s]
             n  == pick_next(st, current)
  <1>3. /\ n \in Task
        /\ n = Idle \/ st[n] = "READY"
    BY PickNext
  <1>4. /\ current' = n
        /\ state' = Switched(st, n)
    BY <1>2 DEF sched_yield, do_switch_to
  <1>5. st[current] = s /\ \A t \in Task : t # current => st[t] = state[t]
    BY <1>1
  <1> HIDE DEF n
  <1>6. n = current \/ n = Idle \/ state[n] = "READY"
    BY <1>3, <1>5
  <1>7. Exit => state'[current] = "DEAD"
    <2>1. SUFFICES ASSUME Exit PROVE state'[current] = "DEAD"
      OBVIOUS
    <2>2. s = "DEAD" /\ current # Idle
      BY <1>2, <2>1 DEF InSyscall, SchedInv, KernelTasksRun
    <2>3. n # current
      BY <1>3, <1>5, <2>2
    <2>4. QED
      BY <1>1, <1>3, <1>4, <2>2, <2>3 DEF Switched
  <1>8. UNCHANGED <<next, next_id, mode>>
    BY DEF Tick, Yield, Block, Exit
  <1>9. QED
    BY <1>3, <1>4, <1>6, <1>7, <1>8

(* What a change of the CPU does to each task: only the task that leaves   *)
(* it and the one that gets it change state.                               *)
LEMMA SwitchEffect ==
    ASSUME SchedInv,
           NEW s \in {"RUNNING", "BLOCKED", "DEAD"},
           s = "RUNNING" \/ current # Idle,
           sched_yield([state EXCEPT ![current] = s])
    PROVE  /\ state'[current] \in (IF s = "RUNNING" THEN {"RUNNING", "READY"} ELSE {s})
           /\ \A t \in Task \ {current} :
                 \/ state'[t] = state[t]
                 \/ state'[t] = "RUNNING" /\ (t = Idle \/ state[t] = "READY")
  <1> DEFINE st == [state EXCEPT ![current] = s]
             n  == pick_next(st, current)
  <1>1. n \in Task /\ (n = Idle \/ st[n] = "READY")
    BY PickNext
  <1>2. state' = Switched(st, n)
    BY DEF sched_yield, do_switch_to
  <1>3. /\ current \in Task /\ state \in [Task -> TaskState]
        /\ st[current] = s /\ \A t \in Task \ {current} : st[t] = state[t]
        /\ st \in [Task -> TaskState]
    BY DEF SchedInv, SchedTypeOK, TaskState
  <1> HIDE DEF n, st
  <1>4. CASE n = current
    BY <1>1, <1>2, <1>3, <1>4 DEF Switched
  <1>5. CASE n # current
    <2>1. state' = [st EXCEPT ![current] = IF s = "RUNNING" THEN "READY" ELSE s,
                              ![n] = "RUNNING"]
      BY <1>2, <1>3, <1>5 DEF Switched
    <2>2. /\ state'[n] = "RUNNING" /\ state'[current] = (IF s = "RUNNING" THEN "READY" ELSE s)
          /\ \A t \in Task \ {current, n} : state'[t] = st[t]
      BY <1>1, <1>3, <1>5, <2>1
    <2>3. QED
      BY <1>1, <1>3, <1>5, <2>2
  <1>6. QED
    BY <1>4, <1>5

(* Marking a task dead that is not on the CPU, from any code. *)
LEMMA MarkKeepsInv ==
    ASSUME SchedInv, NEW t \in Created \ {current}, state' = sched_mark_task_dead(t),
           UNCHANGED <<current, next, next_id, mode>>
    PROVE  /\ SchedInv'
           /\ state'[t] = "DEAD" /\ \A u \in Task \ {t} : state'[u] = state[u]
  <1>1. state \in [Task -> TaskState] /\ t \in Task /\ state[t] # "NONE"
    BY DEF SchedInv, SchedTypeOK, Created
  <1>2. /\ state' \in [Task -> TaskState]
        /\ state'[t] = "DEAD" /\ \A u \in Task \ {t} : state'[u] = state[u]
    BY <1>1 DEF sched_mark_task_dead, TaskState
  <1>3. QED
    BY <1>1, <1>2 DEF SchedInv, SchedTypeOK, OneRunning, KernelTasksRun, IdsInOrder

(* Every step of the scheduler keeps the invariant and the dead dead. *)
LEMMA SchedStep ==
    ASSUME SchedInv, [SchedNext]_schedVars
    PROVE  /\ SchedInv'
           /\ \A t \in Task \ {Idle} : state[t] = "DEAD" => state'[t] = "DEAD"
  <1> USE SchedAssumption
  <1>1. /\ current \in Task
        /\ state[current] = "RUNNING"
        /\ state \in [Task -> TaskState]
        /\ mode \in [Task -> {"run", "syscall", "sleep"}]
        /\ Boot \in Task /\ Idle \in Task
    BY DEF SchedInv, SchedTypeOK, OneRunning, Task, Boot, Idle
  <1>2. state = [state EXCEPT ![current] = "RUNNING"]
    BY <1>1
  <1>3. InSyscall => current \notin {Boot, Idle}
    BY DEF InSyscall, SchedInv, KernelTasksRun
  <1> DEFINE Goal == /\ SchedInv'
                     /\ \A t \in Task \ {Idle} : state[t] = "DEAD" => state'[t] = "DEAD"
  <1>4. CASE Tick
    BY <1>2, <1>4, SwitchKeepsInv DEF Tick, sched_tick, sched_yield
  <1>5. CASE Yield
    BY <1>2, <1>5, SwitchKeepsInv DEF Yield
  <1>6. CASE Block
    BY <1>3, <1>6, SwitchKeepsInv DEF Block, task_block
  <1>7. CASE Exit
    BY <1>3, <1>7, SwitchKeepsInv DEF Exit, task_exit
  <1>8. CASE SyscallEnter \/ SyscallExit \/ SleepBegin \/ SleepEnd
    <2>1. UNCHANGED <<current, state, next, next_id>>
      BY <1>8 DEF SyscallEnter, SyscallExit, SleepBegin, SleepEnd
    <2>2. /\ current \notin {Boot, Idle}
          /\ \E m \in {"run", "syscall", "sleep"} : mode' = [mode EXCEPT ![current] = m]
      BY <1>8, <1>3 DEF SyscallEnter, SyscallExit, SleepBegin, SleepEnd, InSyscall,
                        SchedInv, KernelTasksRun, UserTask, Boot, Idle
    <2>3. mode'[Boot] = "run" /\ mode'[Idle] = "run"
      BY <1>1, <2>2 DEF SchedInv, KernelTasksRun
    <2>4. mode' \in [Task -> {"run", "syscall", "sleep"}]
      BY <1>1, <2>2
    <2>5. QED
      BY <2>1, <2>3, <2>4 DEF SchedInv, SchedTypeOK, OneRunning, KernelTasksRun, IdsInOrder
  <1>9. CASE Unblock
    <2>1. PICK S \in SUBSET Created : state' = task_unblock(S)
      BY <1>9 DEF Unblock
    <2>2. state' = [t \in Task |-> IF t \in S /\ state[t] = "BLOCKED"
                                  THEN "READY" ELSE state[t]]
      BY <2>1 DEF task_unblock
    <2>3. UNCHANGED <<current, next, next_id, mode>>
      BY <1>9 DEF Unblock
    <2>4. state' \in [Task -> TaskState]
      BY <1>1, <2>2, <2>3 DEF TaskState
    <2>5. \A u \in Task : /\ state'[u] = "RUNNING" <=> state[u] = "RUNNING"
                          /\ state'[u] = "NONE" <=> state[u] = "NONE"
                          /\ state[u] = "DEAD" => state'[u] = "DEAD"
      BY <1>1, <2>2, <2>3
    <2>6. QED
      BY <2>3, <2>4, <2>5 DEF SchedInv, SchedTypeOK, OneRunning, KernelTasksRun, IdsInOrder
  <1>10. CASE Kill
    BY <1>10, MarkKeepsInv DEF Kill
  <1>11. CASE Fork
    <2>1. /\ next_id \in Task
          /\ next_id' = next_id + 1
          /\ state' = [state EXCEPT ![next_id] = "READY"]
          /\ next' = [next EXCEPT ![next_id] = next[Boot], ![Boot] = next_id]
          /\ UNCHANGED <<current, mode>>
      BY <1>11 DEF Fork, task_fork_user, Insert
    <2>2. state[next_id] = "NONE" /\ next_id # current
      BY <1>1, <2>1 DEF SchedInv, SchedTypeOK, IdsInOrder, Task
    <2>3. SchedTypeOK'
      <3>1. next_id' \in 4..(MaxTasks + 1)
        BY <2>1 DEF SchedInv, SchedTypeOK, Task
      <3>2. next' \in [Task -> 0..MaxTasks]
        <4>1. next \in [Task -> 0..MaxTasks]
          BY DEF SchedInv, SchedTypeOK
        <4>2. next_id \in 0..MaxTasks /\ next[Boot] \in 0..MaxTasks
          BY <1>1, <2>1, <4>1 DEF Task
        <4>3. QED
          BY <1>1, <2>1, <4>1, <4>2
      <3>3. state' \in [Task -> TaskState]
        BY <1>1, <2>1 DEF TaskState
      <3>4. QED
        BY <2>1, <3>1, <3>2, <3>3 DEF SchedInv, SchedTypeOK
    <2>4. OneRunning'
      BY <1>1, <2>1, <2>2 DEF SchedInv, OneRunning
    <2>5. IdsInOrder'
      BY <1>1, <2>1, <2>2 DEF SchedInv, SchedTypeOK, IdsInOrder, Task
    <2>6. KernelTasksRun'
      BY <2>1 DEF SchedInv, KernelTasksRun
    <2>7. QED
      BY <1>1, <2>1, <2>2, <2>3, <2>4, <2>5, <2>6 DEF SchedInv
  <1>12. CASE UNCHANGED schedVars
    BY <1>12 DEF SchedInv, SchedTypeOK, OneRunning, KernelTasksRun, IdsInOrder, schedVars
  <1>13. QED
    BY <1>4, <1>5, <1>6, <1>7, <1>8, <1>9, <1>10, <1>11, <1>12 DEF SchedNext

(* The invariant holds when interrupts are opened. *)
LEMMA SchedInitInv == Init => SchedInv
  BY SchedAssumption DEF Init, SchedInv, SchedTypeOK, OneRunning, KernelTasksRun,
     IdsInOrder, Task, TaskState, Boot, Idle, Hello

(* The invariant holds in every reachable state. *)
THEOREM SchedInvariant == SchedSpec => []SchedInv
  <1>1. SchedInv /\ [SchedNext]_schedVars => SchedInv'
    BY SchedStep
  <1>2. QED
    BY SchedInitInv, <1>1, PTL DEF SchedSpec

(* Types, for any number of tasks. *)
THEOREM SchedTyping == SchedSpec => []SchedTypeOK
  <1>1. SchedInv => SchedTypeOK
    BY DEF SchedInv
  <1>2. QED
    BY SchedInvariant, <1>1, PTL

(* The CPU is always on the one task marked RUNNING, whatever is killed,   *)
(* blocked or forked and however short the search of pick_next falls.      *)
THEOREM OneTaskRuns == SchedSpec => []OneRunning
  <1>1. SchedInv => OneRunning
    BY DEF SchedInv
  <1>2. QED
    BY SchedInvariant, <1>1, PTL

(* No task but idle comes back from the dead. *)
THEOREM NoResurrection == SchedSpec => DeadStaysDead
  <1>1. SchedInv /\ [SchedNext]_schedVars
          => [\A t \in Task \ {Idle} : state[t] = "DEAD" => state'[t] = "DEAD"]_schedVars
    BY SchedStep
  <1>2. QED
    BY SchedInvariant, <1>1, PTL DEF SchedSpec, DeadStaysDead

-----------------------------------------------------------------------------
(* Induction over a set of numbers. *)
LEMMA SetInduction ==
    ASSUME NEW S, 0 \in S, \A n \in Nat : n \in S => n + 1 \in S
    PROVE  Nat \subseteq S
  <1> SUFFICES ASSUME Nat \ S # {} PROVE FALSE
    OBVIOUS
  <1> DEFINE T == Nat \ S
  <1>1. PICK x \in T : \A y \in T : ~(<<y, x>> \in OpToRel(<, Nat))
    BY NatLessThanWellFounded, WFMin, Zenon
  <1>2. \A y \in T : ~(y < x)
    BY <1>1 DEF OpToRel
  <1>3. x # 0 /\ x - 1 \in Nat /\ x - 1 < x /\ x - 1 \notin T
    BY <1>2
  <1>4. x \in S
    BY <1>3
  <1>5. QED
    BY <1>4

(* The equation of the walk, cut off after m steps. *)
WalkTo(from, m) ==
    CHOOSE w : w = [k \in 0..m |-> IF k = 0 THEN from ELSE next[w[k - 1]]]

(* A walk of m steps exists. *)
LEMMA WalkToDef ==
    ASSUME NEW from, NEW m \in Nat
    PROVE  WalkTo(from, m) = [k \in 0..m |->
                IF k = 0 THEN from ELSE next[WalkTo(from, m)[k - 1]]]
  <1> DEFINE IsWalk(w, n) == w = [k \in 0..n |-> IF k = 0 THEN from ELSE next[w[k - 1]]]
             S == {n \in Nat : \E w : IsWalk(w, n)}
  <1>1. 0 \in S
    <2>1. IsWalk([k \in 0..0 |-> from], 0)
      OBVIOUS
    <2>2. QED
      BY <2>1
  <1>2. ASSUME NEW n \in Nat, n \in S PROVE n + 1 \in S
    <2>1. PICK w : IsWalk(w, n)
      BY <1>2
    <2> DEFINE v == [k \in 0..(n + 1) |-> IF k <= n THEN w[k] ELSE next[w[n]]]
    <2>2. \A k \in 0..(n + 1) : v[k] = IF k = 0 THEN from ELSE next[v[k - 1]]
      <3> TAKE k \in 0..(n + 1)
      <3>1. CASE k = 0
        BY <2>1, <3>1
      <3>2. CASE k \in 1..n
        BY <2>1, <3>2
      <3>3. CASE k = n + 1
        BY <3>3
      <3>4. QED
        BY <3>1, <3>2, <3>3
    <2>3. IsWalk(v, n + 1)
      <3>1. v = [k \in 0..(n + 1) |-> v[k]]
        OBVIOUS
      <3> HIDE DEF v
      <3>2. QED
        BY <2>2, <3>1
    <2>4. QED
      <3>1. \E x : IsWalk(x, n + 1)
        <4> HIDE DEF v, IsWalk
        <4>1. QED
          BY <2>3
      <3>2. QED
        BY <3>1
  <1>3. m \in S
    BY <1>1, <1>2, SetInduction
  <1>4. QED
    BY <1>3 DEF WalkTo

(* Two walks from one place agree. *)
LEMMA WalksAgree ==
    ASSUME NEW from, NEW m \in Nat, NEW n \in Nat, m <= n
    PROVE  WalkTo(from, m)[m] = WalkTo(from, n)[m]
  <1> DEFINE S == {k \in Nat : k <= m => WalkTo(from, m)[k] = WalkTo(from, n)[k]}
  <1>1. \A k \in 0..m : k # 0 => WalkTo(from, m)[k] = next[WalkTo(from, m)[k - 1]]
    BY WalkToDef
  <1>2. \A k \in 0..n : k # 0 => WalkTo(from, n)[k] = next[WalkTo(from, n)[k - 1]]
    BY WalkToDef
  <1>3. WalkTo(from, m)[0] = from /\ WalkTo(from, n)[0] = from
    BY WalkToDef
  <1>4. 0 \in S
    BY <1>3
  <1>5. ASSUME NEW k \in Nat, k \in S PROVE k + 1 \in S
    BY <1>1, <1>2, <1>5
  <1>6. m \in S
    <2> HIDE DEF S
    <2>1. QED
      BY <1>4, <1>5, SetInduction
  <1>7. QED
    BY <1>6

(* The walk of pick_next obeys its equation. *)
LEMMA WalkDef ==
    ASSUME NEW from
    PROVE  /\ Walk(from)[0] = from
           /\ \A k \in Nat : Walk(from)[k + 1] = next[Walk(from)[k]]
  <1> DEFINE w == [k \in Nat |-> WalkTo(from, k)[k]]
             IsWalk(v) == v = [k \in Nat |-> IF k = 0 THEN from ELSE next[v[k - 1]]]
  <1>1. \A k \in Nat : w[k] = IF k = 0 THEN from ELSE next[w[k - 1]]
    <2> TAKE k \in Nat
    <2>1. CASE k = 0
      BY <2>1, WalkToDef
    <2>2. CASE k # 0
      <3>1. WalkTo(from, k)[k] = next[WalkTo(from, k)[k - 1]]
        BY <2>2, WalkToDef
      <3>2. WalkTo(from, k)[k - 1] = WalkTo(from, k - 1)[k - 1]
        BY <2>2, WalksAgree
      <3>3. QED
        BY <2>2, <3>1, <3>2
    <2>3. QED
      BY <2>1, <2>2
  <1>2. IsWalk(w)
    BY <1>1
  <1>3. Walk(from) = CHOOSE v : IsWalk(v)
    BY DEF Walk
  <1>4. IsWalk(Walk(from))
    <2> HIDE DEF IsWalk, w
    <2>1. QED
      BY <1>2, <1>3
  <1>5. QED
    BY <1>4

(* A new task goes in behind the head, so the list runs from the head to   *)
(* the newest task and down from there by age.                             *)
Ring == /\ next[Boot] = next_id - 1
        /\ \A t \in 2..(next_id - 1) : next[t] = t - 1

(* Creation links the new task behind the head, and nothing else touches a *)
(* link.                                                                   *)
LEMMA RingStep == SchedInv /\ Ring /\ [SchedNext]_schedVars => Ring'
  <1> SUFFICES ASSUME SchedInv, Ring, [SchedNext]_schedVars PROVE Ring'
    OBVIOUS
  <1> USE SchedAssumption
  <1>1. CASE UNCHANGED <<next, next_id>>
    BY <1>1 DEF Ring
  <1>2. CASE Fork
    <2>1. /\ next_id \in Task
          /\ next_id' = next_id + 1
          /\ next' = [next EXCEPT ![next_id] = next[Boot], ![Boot] = next_id]
      BY <1>2 DEF Fork, task_fork_user, Insert
    <2>2. next_id >= 4 /\ Boot = 1 /\ Boot \in Task /\ next \in [Task -> 0..MaxTasks]
      BY DEF SchedInv, SchedTypeOK, Boot, Task
    <2>3. /\ next'[Boot] = next_id
          /\ next'[next_id] = next_id - 1
          /\ \A t \in Task \ {Boot, next_id} : next'[t] = next[t]
      BY <2>1, <2>2 DEF Ring
    <2>4. QED
      BY <2>1, <2>2, <2>3 DEF Ring, Task
  <1>3. SchedNext => UNCHANGED <<next, next_id>> \/ Fork
    BY DEF SchedNext, Tick, SyscallEnter, SyscallExit, SleepBegin, SleepEnd, Yield, Block,
           Unblock, Exit, Kill
  <1>4. QED
    BY <1>1, <1>2, <1>3 DEF schedVars

(* Where a walk round such a list comes to: down to the head, then from    *)
(* the newest task on.                                                     *)
LEMMA WalkRound ==
    ASSUME SchedInv, Ring, NEW from \in 1..(next_id - 1)
    PROVE  /\ \A k \in 0..(from - 1) : Walk(from)[k] = from - k
           /\ \A k \in from..(from + next_id - 2) :
                 Walk(from)[k] = next_id - 1 - (k - from)
  <1> DEFINE n == next_id - 1
             w == Walk(from)
             S == {k \in Nat : /\ k < from => w[k] = from - k
                               /\ from <= k /\ k < from + n => w[k] = n - (k - from)}
  <1>1. n \in Nat /\ n >= 3 /\ from \in Nat /\ from >= 1 /\ next_id \in Nat
    BY DEF SchedInv, SchedTypeOK
  <1>2. w[0] = from /\ \A k \in Nat : w[k + 1] = next[w[k]]
    BY WalkDef
  <1>3. next[1] = n /\ \A t \in 2..n : next[t] = t - 1
    BY DEF Ring, Boot
  <1> HIDE DEF n, w
  <1>4. 0 \in S
    BY <1>1, <1>2
  <1>5. ASSUME NEW k \in Nat, k \in S PROVE k + 1 \in S
    <2>1. w[k + 1] = next[w[k]]
      BY <1>2
    <2>2. CASE k + 1 < from
      BY <1>1, <1>3, <1>5, <2>1, <2>2, n >= from DEF n
    <2>3. CASE k + 1 = from
      BY <1>1, <1>3, <1>5, <2>1, <2>3
    <2>4. CASE from < k + 1
      <3>1. CASE k + 1 < from + n
        <4>1. w[k] = n - (k - from) /\ n - (k - from) \in 2..n
          BY <1>1, <1>5, <2>4, <3>1
        <4>2. QED
          BY <1>1, <1>3, <2>1, <2>4, <4>1
      <3>2. QED
        BY <1>1, <2>4, <3>1
    <2>5. QED
      BY <1>1, <2>2, <2>3, <2>4
  <1> HIDE DEF S
  <1>6. Nat \subseteq S
    BY <1>4, <1>5, SetInduction
  <1>7. /\ \A k \in 0..(from - 1) : k \in S /\ k < from
        /\ \A k \in from..(from + n - 1) : k \in S /\ from <= k /\ k < from + n
    BY <1>1, <1>6
  <1>8. /\ \A k \in 0..(from - 1) : w[k] = from - k
        /\ \A k \in from..(from + n - 1) : w[k] = n - (k - from)
    BY <1>7 DEF S
  <1>9. from + next_id - 2 = from + n - 1 /\ n = next_id - 1
    BY <1>1 DEF n
  <1>10. QED
    BY <1>8, <1>9 DEF w

(* The tasks created so far are numbered from 1 on. *)
LEMMA CreatedAre ==
    ASSUME SchedInv
    PROVE  /\ Created = 1..(next_id - 1)
           /\ Cardinality(Created) = next_id - 1
           /\ next_id \in Nat /\ next_id - 1 \in 3..MaxTasks
  <1>1. next_id \in 4..(MaxTasks + 1) /\ MaxTasks \in Nat
    BY SchedAssumption DEF SchedInv, SchedTypeOK
  <1>2. Created = 1..(next_id - 1)
    BY <1>1 DEF SchedInv, IdsInOrder, Created, Task
  <1>3. QED
    BY <1>1, <1>2, FS_Interval

(* The links of the invariant make one cycle through every task.           *)
LEMMA RingInvIsCycle == SchedInv /\ Ring => RingIsCycle
  <1> SUFFICES ASSUME SchedInv, Ring PROVE RingIsCycle
    OBVIOUS
  <1> DEFINE n == next_id - 1
             w == Walk(Boot)
  <1>1. /\ Created = 1..n /\ Cardinality(Created) = n
        /\ n \in Nat /\ n >= 3 /\ next_id \in Nat
    BY CreatedAre, SchedAssumption
  <1>2. w[0] = 1 /\ \A k \in 1..n : w[k] = n - (k - 1)
    <2>1. Boot = 1 /\ Boot \in 1..n /\ 0 \in 0..(Boot - 1) /\ Boot + next_id - 2 = n
      BY <1>1 DEF Boot
    <2>2. w[0] = Boot - 0 /\ \A k \in Boot..n : w[k] = n - (k - Boot)
      BY <2>1, WalkRound
    <2>3. QED
      BY <2>1, <2>2
  <1> HIDE DEF w, n
  <1>3. {w[k] : k \in 0..(n - 1)} = 1..n
    <2>1. \A k \in 0..(n - 1) : w[k] \in 1..n
      BY <1>1, <1>2
    <2>2. ASSUME NEW t \in 1..n PROVE \E k \in 0..(n - 1) : w[k] = t
      <3>1. CASE t = 1
        BY <1>1, <1>2, <3>1
      <3>2. CASE t # 1
        <4>1. n - t + 1 \in 1..(n - 1) /\ w[n - t + 1] = t
          BY <1>1, <1>2, <3>2
        <4>2. QED
          BY <4>1
      <3>3. QED
        BY <3>1, <3>2
    <2>3. QED
      BY <2>1, <2>2
  <1>4. w[n] = Boot
    BY <1>1, <1>2 DEF Boot
  <1>5. QED
    BY <1>1, <1>3, <1>4 DEF RingIsCycle, w

(* The search meets every other task before it comes round. *)
LEMMA ReadyTaskIsFound ==
    ASSUME SchedInv, Ring, MaxTasks <= ScanLimit + 1
    PROVE  ReadyIsFound
  <1> SUFFICES ASSUME NEW r \in Task \ {current}, state[r] = "READY"
               PROVE  state[pick_next(state, current)] = "READY"
    BY DEF ReadyIsFound
  <1> DEFINE n == next_id - 1
             c == current
             w == Walk(c)
             K == {k \in 1..(n - 1) : state[w[k]] = "READY"}
  <1>1. Created = 1..n /\ n \in Nat /\ n >= 3 /\ n <= MaxTasks /\ ScanLimit \in Nat
        /\ MaxTasks \in Nat /\ next_id \in Nat
    BY CreatedAre, SchedAssumption
  <1>2. c \in 1..n /\ r \in 1..n /\ r # c
    <2>1. state[c] = "RUNNING" /\ c \in Task
      BY DEF SchedInv, SchedTypeOK, OneRunning
    <2>2. QED
      BY <1>1, <2>1 DEF Created
  <1>3. /\ \A k \in 0..(c - 1) : w[k] = c - k
        /\ \A k \in c..(n - 1) : w[k] = n - (k - c)
    <2>1. /\ \A k \in 0..(c - 1) : w[k] = c - k
          /\ \A k \in c..(c + next_id - 2) : w[k] = next_id - 1 - (k - c)
      BY <1>2, WalkRound
    <2>2. \A k \in c..(n - 1) : k \in c..(c + next_id - 2)
      BY <1>1, <1>2
    <2>3. QED
      BY <2>1, <2>2
  <1> HIDE DEF n, w, c
  <1>4. \A k \in 1..(n - 1) : w[k] # c /\ w[k] \in Task
    BY <1>1, <1>2, <1>3 DEF Task
  <1>5. K # {}
    <2> DEFINE k == IF r < c THEN c - r ELSE c + n - r
    <2>1. k \in 1..(n - 1) /\ w[k] = r
      BY <1>1, <1>2, <1>3
    <2>2. QED
      BY <2>1
  <1>6. PICK k \in K : \A j \in K : ~(j < k)
    <2>1. K \subseteq Nat
      OBVIOUS
    <2>2. PICK k \in K : \A j \in K : ~(<<j, k>> \in OpToRel(<, Nat))
      BY <1>5, <2>1, NatLessThanWellFounded, WFMin, Zenon
    <2>3. QED
      BY <2>1, <2>2 DEF OpToRel
  <1>7. FirstReady(state, current, w[k])
    <2>1. k \in 1..ScanLimit /\ state[w[k]] = "READY"
      BY <1>1
    <2>2. \A j \in 1..(k - 1) : state[w[j]] # "READY"
      BY <1>1, <1>6
    <2>3. \A j \in 2..k : w[j] # current
      BY <1>1, <1>4 DEF c
    <2>4. QED
      BY <2>1, <2>2, <2>3 DEF FirstReady, w, c
  <1>8. \E t \in Task : FirstReady(state, current, t)
    BY <1>4, <1>7
  <1>9. FirstReady(state, current, pick_next(state, current))
    BY <1>8, Zenon DEF pick_next
  <1>10. QED
    BY <1>9 DEF FirstReady

(* The two invariants together are inductive.                              *)
LEMMA RingInvariant == SchedSpec => [](SchedInv /\ Ring)
  <1>1. Init => Ring
    BY SchedAssumption DEF Init, Ring, Task, Boot, Idle, Hello
  <1>2. QED
    BY SchedInvariant, <1>1, RingStep, PTL DEF SchedSpec

(* No insertion loses a task or closes a shorter loop: the list is one     *)
(* cycle through every task ever created.                                  *)
THEOREM OneRing == SchedSpec => []RingIsCycle
  BY RingInvariant, RingInvIsCycle, PTL

(* With room for the whole list in the search, a waiting READY task is     *)
(* preferred to idle: what pick_next needs of its limit of 1024.           *)
THEOREM SearchIsWide == ASSUME MaxTasks <= ScanLimit + 1 PROVE SchedSpec => []ReadyIsFound
  <1>1. SchedInv /\ Ring => ReadyIsFound
    BY ReadyTaskIsFound
  <1>2. QED
    BY RingInvariant, <1>1, PTL
=============================================================================
