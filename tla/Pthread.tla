------------------------------ MODULE Pthread ------------------------------
(***************************************************************************)
(* The mutex and condition variable of libc/src/common/pthread.c, run by   *)
(* threads that the scheduler may preempt between any two instructions on  *)
(* shared words.  Every thread uses the mutex at address "m" and the       *)
(* condition variable at address "c" of its own address space, as a client *)
(* of the POSIX interface does: it waits only with the mutex held.         *)
(***************************************************************************)
EXTENDS Futex

CONSTANTS Killable,    \* bound: the threads that a kill names
          MaxRounds,   \* bound: lock, trylock and wait calls in all
          MaxSeq       \* bound: signals and broadcasts of one condition variable

ASSUME PthreadAssumption == /\ {"m", "c"} \subseteq Addr /\ MaxSeq \in Nat
                            /\ Killable \subseteq UserTask

VARIABLES pc,        \* where a thread is in the library
          call,      \* the futex system call it is making
          seq,       \* the sequence number pthread_cond_wait loaded
          rounds,    \* calls made, for the bound
          swept      \* history: sequence number of the last finished broadcast

threadVars  == <<pc, call, seq, rounds, swept>>
pthreadVars == <<schedVars, futexVars, threadVars>>

Everyone == MaxTasks   \* INT_MAX: more than there can be waiters

(* A futex call: kind, address, value or count, and where it returns to. *)
Wait(a, v, to)  == [kind |-> "wait", addr |-> a, val |-> v, then |-> to]
Wake(a, n, to)  == [kind |-> "wake", addr |-> a, val |-> n, then |-> to]
NoCall          == [kind |-> "none", addr |-> "m", val |-> 0, then |-> "out"]

PthreadInit ==
    /\ current = Boot
    /\ state = [t \in Task |-> IF t = Boot THEN "RUNNING" ELSE "READY"]
    /\ next = [t \in Task |-> CASE t = Boot -> MaxTasks
                                [] t = Idle -> Boot
                                [] OTHER -> t - 1]
    /\ next_id = MaxTasks + 1
    /\ mode = [t \in Task |-> "run"]
    /\ word = [s \in Space |-> [a \in Addr |-> 0]]
    /\ waiters = <<>>
    /\ pc = [t \in UserTask |-> "out"]
    /\ call = [t \in UserTask |-> NoCall]
    /\ seq = [t \in UserTask |-> 0]
    /\ rounds = 0
    /\ swept = [s \in Space |-> 0]

At(t, label) == current = t /\ mode[t] = "run" /\ pc[t] = label

Goto(t, label) == pc' = [pc EXCEPT ![t] = label]

(* Set up a futex call of thread t. *)
Calls(t, c) == /\ call' = [call EXCEPT ![t] = c]
               /\ Goto(t, "call")

NoCallMade(t, label) == Goto(t, label) /\ UNCHANGED call

-----------------------------------------------------------------------------
(* pthread_mutex_lock: 0 -> 1, or on to the contended path. *)
Cas(t) == /\ IF Mem("m") = 0
             THEN Store("m", 1) /\ Goto(t, "held")
             ELSE Goto(t, "xchg") /\ UNCHANGED word
          /\ UNCHANGED <<call, seq, swept>>

Lock(t) == /\ At(t, "out")
           /\ rounds < MaxRounds
           /\ rounds' = rounds + 1
           /\ Cas(t)
           /\ UNCHANGED <<schedVars, waiters>>

Relock(t) == /\ At(t, "cas")
             /\ Cas(t)
             /\ UNCHANGED <<schedVars, waiters, rounds>>

Trylock(t) == /\ At(t, "out")
              /\ rounds < MaxRounds
              /\ rounds' = rounds + 1
              /\ IF Mem("m") = 0
                 THEN Store("m", 1) /\ Goto(t, "held")
                 ELSE UNCHANGED <<word, pc>>
              /\ UNCHANGED <<schedVars, waiters, call, seq, swept>>

(* Faulty variant: the word is left alone by the sleeper. *)
XchgKeepsWord(t) == /\ At(t, "xchg")
                    /\ IF Mem("m") = 0
                       THEN Store("m", 2) /\ NoCallMade(t, "held")
                       ELSE Calls(t, Wait("m", Mem("m"), "xchg")) /\ UNCHANGED word
                    /\ UNCHANGED <<schedVars, waiters, seq, rounds, swept>>

(* Faulty variant: only a contended mutex counts as taken. *)
XchgTakesLocked(t) == /\ At(t, "xchg")
                      /\ Store("m", 2)
                      /\ IF Mem("m") # 2
                         THEN NoCallMade(t, "held")
                         ELSE Calls(t, Wait("m", 2, "xchg"))
                      /\ UNCHANGED <<schedVars, waiters, seq, rounds, swept>>

(* The contended path: mark 2, sleep unless it was free. *)
Xchg(t) == /\ At(t, "xchg")
           /\ Store("m", 2)
           /\ IF Mem("m") = 0
              THEN NoCallMade(t, "held")
              ELSE Calls(t, Wait("m", 2, "xchg"))
           /\ UNCHANGED <<schedVars, waiters, seq, rounds, swept>>

(* Faulty variant: the wake is left out. *)
UnlockToSilent(t, label) == Store("m", 0) /\ NoCallMade(t, label)

(* pthread_mutex_unlock, on the way to a label. *)
UnlockTo(t, label) == /\ Store("m", 0)
                      /\ IF Mem("m") = 2
                         THEN Calls(t, Wake("m", 1, label))
                         ELSE NoCallMade(t, label)

Unlock(t) == /\ At(t, "held")
             /\ UnlockTo(t, "out")
             /\ UNCHANGED <<schedVars, waiters, seq, rounds, swept>>

(* pthread_cond_wait: load the sequence number, unlock, sleep, lock. *)
CondWait(t) == /\ At(t, "held")
               /\ rounds < MaxRounds
               /\ rounds' = rounds + 1
               /\ seq' = [seq EXCEPT ![t] = Mem("c")]
               /\ Goto(t, "cond")
               /\ UNCHANGED <<schedVars, futexVars, call, swept>>

CondUnlock(t) == /\ At(t, "cond")
                 /\ UnlockTo(t, "cwait")
                 /\ UNCHANGED <<schedVars, waiters, seq, rounds, swept>>

CondSleep(t) == /\ At(t, "cwait")
                /\ Calls(t, Wait("c", seq[t], "cas"))
                /\ UNCHANGED <<schedVars, futexVars, seq, rounds, swept>>

(* pthread_cond_signal and pthread_cond_broadcast, with or without the mutex. *)
CondPost(t) == /\ At(t, "out") \/ At(t, "held")
               /\ Mem("c") < MaxSeq
               /\ Store("c", Mem("c") + 1)
               /\ \E n \in {1, Everyone} : Calls(t, Wake("c", n, pc[t]))
               /\ UNCHANGED <<schedVars, waiters, seq, rounds, swept>>

-----------------------------------------------------------------------------
(* The system call: entry, the kernel's work with interrupts off, return. *)
EnterFutex(t) == /\ At(t, "call")
                 /\ SyscallEnter
                 /\ UNCHANGED <<futexVars, threadVars>>

(* The broadcast of a call that has just woken everyone is over. *)
Sweep(t) == IF call[t].addr = "c" /\ call[t].val = Everyone
            THEN [swept EXCEPT ![SpaceOf[t]] = Mem("c")]
            ELSE swept

DoFutex(t) == /\ current = t /\ mode[t] = "syscall" /\ pc[t] = "call"
              /\ \/ /\ call[t].kind = "wait"
                    /\ futex_wait(call[t].addr, call[t].val)
                    /\ UNCHANGED swept
                 \/ /\ call[t].kind = "wake"
                    /\ futex_wake(call[t].addr, call[t].val)
                    /\ swept' = Sweep(t)
              /\ Goto(t, "ret")
              /\ UNCHANGED <<call, seq, rounds>>

LeaveFutex(t) == /\ current = t /\ pc[t] = "ret"
                 /\ SyscallExit
                 /\ Goto(t, call[t].then)
                 /\ call' = [call EXCEPT ![t] = NoCall]
                 /\ UNCHANGED <<futexVars, seq, rounds, swept>>

(* kill of another thread, wherever it is; the futex queue keeps its node. *)
sys_kill(t, v) == /\ At(t, "out") \/ At(t, "held")
                  /\ v # t
                  /\ state' = sched_mark_task_dead(v)
                  /\ UNCHANGED <<current, next, next_id, mode, futexVars, threadVars>>

Preempt == Tick /\ UNCHANGED <<futexVars, threadVars>>

(* What a thread that has begun goes on to do; it does not hold the mutex  *)
(* for ever.                                                               *)
Advance(t) == \/ Relock(t) \/ Xchg(t) \/ Unlock(t)
              \/ CondUnlock(t) \/ CondSleep(t)
              \/ EnterFutex(t) \/ DoFutex(t) \/ LeaveFutex(t)

(* What it may choose to begin. *)
Begin(t) == Lock(t) \/ Trylock(t) \/ CondWait(t) \/ CondPost(t)

PthreadNext == \/ Preempt
               \/ \E t \in UserTask, v \in Killable : sys_kill(t, v)
               \/ \E t \in UserTask : Advance(t) \/ Begin(t)

PthreadSpec == PthreadInit /\ [][PthreadNext]_pthreadVars

(* The timer as in FairSchedSpec; a time slice is thousands of             *)
(* instructions long, so a thread that gets the CPU again and again makes  *)
(* its next step.                                                          *)
FairPthreadSpec == /\ PthreadSpec
                   /\ SF_pthreadVars(Preempt)
                   /\ \A t \in UserTask : SF_pthreadVars(Advance(t))

-----------------------------------------------------------------------------
Label == {"out", "cas", "xchg", "held", "cond", "cwait", "call", "ret"}

(* Between the acquiring atomic operation and the releasing one. *)
Holds(t) == \/ pc[t] \in {"held", "cond"}
            \/ call[t].kind = "wake" /\ call[t].addr = "c" /\ call[t].then = "held"

HoldersOf(s) == {t \in UserTask : SpaceOf[t] = s /\ Holds(t)}

Mutexes == INSTANCE Lock WITH Thread <- UserTask, Mutex <- Space,
                              holders <- [s \in Space |-> HoldersOf(s)]

(* The three-valued word implements a lock: one holder per mutex, through  *)
(* every interleaving of lock, unlock, wait and the kernel's queue         *)
(* (pthread.c:74-97).                                                      *)
ImplementsLock == Mutexes!LockSpec

Queued(a) == {w.task : w \in {waiters[i] : i \in {j \in DOMAIN waiters : waiters[j].uaddr = a}}}

(* Every sleeper is in the list with one node, and every node is that of a *)
(* sleeper or of a task that was killed in its sleep: no sleeper is        *)
(* forgotten, and no wake is spent but on a sleeper or on the dead         *)
(* (futex.c:56-63, 69-79).                                                 *)
QueueIsSleepers ==
    LET queued == Queued("m") \cup Queued("c") IN
    /\ {t \in Task : state[t] = "BLOCKED"} \subseteq queued
    /\ \A t \in queued : state[t] \in {"BLOCKED", "DEAD"}
    /\ Cardinality(queued) = Len(waiters)

Casualty(s) == \E t \in UserTask : SpaceOf[t] = s /\ state[t] = "DEAD"

(* "Sleep until somebody wakes us" (pthread.c:82): while a thread sleeps   *)
(* on the mutex, the mutex is marked contended, or a wake is on its way,   *)
(* or a woken thread is about to mark it again - as long as none of them   *)
(* is killed, who may take the wake with it.                               *)
NoLostWakeup ==
    \A t \in Queued("m") :
        \/ word[SpaceOf[t]]["m"] = 2
        \/ \E u \in UserTask : /\ SpaceOf[u] = SpaceOf[t]
                               /\ \/ pc[u] = "call" /\ call[u].kind = "wake" /\ call[u].addr = "m"
                                  \/ pc[u] = "xchg"
                                  \/ pc[u] = "ret" /\ call[u].then = "xchg" /\ state[u] # "BLOCKED"
        \/ Casualty(SpaceOf[t])

(* "Lost wakeups are solved ..." (pthread.c:99-106): nobody who had begun  *)
(* to wait before a broadcast still sleeps after it.                       *)
BroadcastMissesNobody == \A t \in Queued("c") : seq[t] >= swept[SpaceOf[t]]

Wanting(t) == \/ pc[t] \in {"cas", "xchg"}
              \/ pc[t] \in {"call", "ret"} /\ call[t].kind = "wait" /\ call[t].addr = "m"

(* No thread wants the mutex for ever: it gets it, once the others make    *)
(* only finitely many calls (MaxRounds), unless one of them is killed; an  *)
(* unfair mutex without robustness promises no more.                       *)
GetsTheMutex == \A t \in UserTask : []<>(~Wanting(t) \/ Casualty(SpaceOf[t]))
=============================================================================
