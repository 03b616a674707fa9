--------------------------- MODULE PthreadProofs ---------------------------
(***************************************************************************)
(* The mutex of pthread.c is a lock, for any number of threads in any      *)
(* number of address spaces.  The invariant says what the three-valued     *)
(* word means: it is 0 exactly when nobody is between the atomic operation *)
(* that acquired it and the one that will release it.  Every step of       *)
(* Pthread then acquires the mutex of one space, releases it, or leaves    *)
(* all holders as they are.                                                *)
(*                                                                         *)
(* PthreadInvariant adds the wait queue: who is in it, each once, and that *)
(* a broadcast has swept all that began to wait before it.  Last comes     *)
(* what a sleeper on the mutex relies on (Prompt): the word 2, a wake on   *)
(* its way, or a woken thread that will mark the word again.               *)
(***************************************************************************)
EXTENDS Pthread, SchedProofs

FutexCall == [kind : {"none", "wait", "wake"}, addr : {"m", "c"}, val : Nat,
              then : Label \ {"call", "ret"}]

Types == /\ word \in [Space -> [Addr -> Nat]]
         /\ pc \in [UserTask -> Label]
         /\ call \in [UserTask -> FutexCall]
         /\ seq \in [UserTask -> Nat]

(* Only the wake of a condition variable returns into the critical section. *)
CallsReturn ==
    \A t \in UserTask :
        /\ pc[t] \in {"call", "ret"} <=> call[t].kind # "none"
        /\ call[t].then \in {"held", "cond"} =>
              call[t].kind = "wake" /\ call[t].addr = "c" /\ call[t].then = "held"

WordTellsHolder ==
    /\ \A t \in UserTask : Holds(t) => word[SpaceOf[t]]["m"] # 0
    /\ \A s \in Space : word[s]["m"] # 0 => \E t \in UserTask : SpaceOf[t] = s /\ Holds(t)
    /\ \A t, u \in UserTask : Holds(t) /\ Holds(u) /\ SpaceOf[t] = SpaceOf[u] => t = u

LockInv == Types /\ CallsReturn /\ WordTellsHolder

(* The three effects a step may have on the mutexes. *)
OthersKeep(t) == /\ \A u \in UserTask \ {t} : (Holds(u)' <=> Holds(u))
                 /\ \A s \in Space \ {SpaceOf[t]} : word'[s]["m"] = word[s]["m"]

Acquires(t) == /\ word[SpaceOf[t]]["m"] = 0
               /\ word'[SpaceOf[t]]["m"] # 0
               /\ Holds(t)'
               /\ OthersKeep(t)

Releases(t) == /\ Holds(t)
               /\ word'[SpaceOf[t]]["m"] = 0
               /\ ~Holds(t)'
               /\ OthersKeep(t)

KeepsHolders == /\ \A u \in UserTask : (Holds(u)' <=> Holds(u))
                /\ \A s \in Space : word'[s]["m"] = 0 <=> word[s]["m"] = 0

(* The three effects keep the word in step with the holder. *)
LEMMA EffectKeepsInv ==
    ASSUME WordTellsHolder,
           KeepsHolders \/ \E t \in UserTask : Acquires(t) \/ Releases(t)
    PROVE  WordTellsHolder'
  <1>1. \A t \in UserTask : SpaceOf[t] \in Space
    BY DEF Space
  <1>2. CASE KeepsHolders
    BY <1>1, <1>2 DEF KeepsHolders, WordTellsHolder
  <1>3. ASSUME NEW t \in UserTask, Acquires(t) PROVE WordTellsHolder'
    BY <1>1, <1>3 DEF Acquires, OthersKeep, WordTellsHolder
  <1>4. ASSUME NEW t \in UserTask, Releases(t) PROVE WordTellsHolder'
    BY <1>1, <1>4 DEF Releases, OthersKeep, WordTellsHolder
  <1>5. QED
    BY <1>2, <1>3, <1>4

(* Each effect is a step of the abstract lock, or none. *)
LEMMA EffectIsLockStep ==
    ASSUME WordTellsHolder,
           KeepsHolders \/ \E t \in UserTask : Acquires(t) \/ Releases(t)
    PROVE  \/ \E s \in Space : Mutexes!Acquire(s) \/ Mutexes!Release(s)
           \/ UNCHANGED [s \in Space |-> HoldersOf(s)]
  <1>1. \A t \in UserTask : SpaceOf[t] \in Space
    BY DEF Space
  <1>2. CASE KeepsHolders
    BY <1>2 DEF KeepsHolders, HoldersOf
  <1>3. ASSUME NEW t \in UserTask, Acquires(t)
        PROVE  Mutexes!Acquire(SpaceOf[t])
    <2>1. HoldersOf(SpaceOf[t]) = {} /\ HoldersOf(SpaceOf[t])' = {t}
      BY <1>1, <1>3 DEF Acquires, OthersKeep, WordTellsHolder, HoldersOf
    <2>2. \A s \in Space \ {SpaceOf[t]} : HoldersOf(s)' = HoldersOf(s)
      BY <1>3 DEF Acquires, OthersKeep, HoldersOf
    <2>3. QED
      BY <1>1, <2>1, <2>2 DEF Mutexes!Acquire
  <1>4. ASSUME NEW t \in UserTask, Releases(t)
        PROVE  Mutexes!Release(SpaceOf[t])
    <2>1. HoldersOf(SpaceOf[t]) # {} /\ HoldersOf(SpaceOf[t])' = {}
      BY <1>1, <1>4 DEF Releases, OthersKeep, WordTellsHolder, HoldersOf
    <2>2. \A s \in Space \ {SpaceOf[t]} : HoldersOf(s)' = HoldersOf(s)
      BY <1>4 DEF Releases, OthersKeep, HoldersOf
    <2>3. QED
      BY <1>1, <2>1, <2>2 DEF Mutexes!Release
  <1>5. QED
    BY <1>1, <1>2, <1>3, <1>4

-----------------------------------------------------------------------------
(* A thread moves to a label and to a call; the word of its mutex may      *)
(* change.                                                                 *)
Moves(t, label, c) == /\ pc' = [pc EXCEPT ![t] = label]
                      /\ call' = [call EXCEPT ![t] = c]

(* A move to a legal label keeps types and call records. *)
LEMMA MovesKeepTypes ==
    ASSUME Types, CallsReturn, NEW t \in UserTask, NEW label \in Label, NEW c \in FutexCall,
           Moves(t, label, c),
           label \in {"call", "ret"} <=> c.kind # "none",
           c.then \in {"held", "cond"} => c.kind = "wake" /\ c.addr = "c" /\ c.then = "held"
    PROVE  /\ pc' \in [UserTask -> Label]
           /\ call' \in [UserTask -> FutexCall]
           /\ CallsReturn'
           /\ \A u \in UserTask \ {t} : (Holds(u)' <=> Holds(u))
           /\ Holds(t)' <=> \/ label \in {"held", "cond"}
                            \/ c.kind = "wake" /\ c.addr = "c" /\ c.then = "held"
  <1>1. /\ pc' \in [UserTask -> Label] /\ call' \in [UserTask -> FutexCall]
        /\ pc'[t] = label /\ call'[t] = c
        /\ \A u \in UserTask \ {t} : pc'[u] = pc[u] /\ call'[u] = call[u]
    BY DEF Types, Moves
  <1>2. CallsReturn'
    BY <1>1 DEF CallsReturn
  <1>3. QED
    BY <1>1, <1>2 DEF Holds

(* A store changes one word of one space. *)
LEMMA StoreTypes ==
    ASSUME Types, NEW a \in {"m", "c"}, NEW v \in Nat, current \in UserTask, Store(a, v)
    PROVE  /\ word' \in [Space -> [Addr -> Nat]]
           /\ word'[SpaceOf[current]][a] = v
           /\ a = "c" => \A s \in Space : word'[s]["m"] = word[s]["m"]
           /\ \A s \in Space \ {SpaceOf[current]} : word'[s] = word[s]
  <1>1. SpaceOf[current] \in Space /\ a \in Addr
    BY PthreadAssumption DEF Space
  <1>2. QED
    BY <1>1, PthreadAssumption DEF Types, Store

(* The constants of a call record are in their sets. *)
LEMMA MaxTasksNat == Everyone \in Nat /\ 1 \in Nat /\ {NoCall} \subseteq FutexCall
  BY SchedAssumption DEF Everyone, NoCall, FutexCall, Label

(* What a step may do to the mutexes. *)
Effect == KeepsHolders \/ \E t \in UserTask : Acquires(t) \/ Releases(t)

(* The compare-and-swap 0 -> 1 acquires, or leaves the word alone. *)
LEMMA CasStep ==
    ASSUME LockInv, NEW t \in UserTask, current = t, pc[t] \in {"out", "cas"}, Cas(t)
    PROVE  Types' /\ CallsReturn' /\ Effect
  <1>1. call[t] \in FutexCall /\ call[t].kind = "none" /\ ~Holds(t)
        /\ SpaceOf[t] \in Space /\ word[SpaceOf[t]]["m"] \in Nat
    BY PthreadAssumption DEF LockInv, Types, CallsReturn, Holds, Space, FutexCall
  <1>2. call' = [call EXCEPT ![t] = call[t]] /\ seq' = seq
    BY DEF Cas, LockInv, Types
  <1>3. call[t].then \notin {"held", "cond"}
    BY <1>1 DEF LockInv, CallsReturn
  <1>4. CASE Mem("m") = 0
    <2>1. Store("m", 1) /\ Moves(t, "held", call[t])
      BY <1>2, <1>4 DEF Cas, Goto, Moves
    <2>2. /\ word' \in [Space -> [Addr -> Nat]]
          /\ word'[SpaceOf[t]]["m"] = 1
          /\ \A s \in Space \ {SpaceOf[t]} : word'[s] = word[s]
      BY <2>1, StoreTypes DEF LockInv
    <2>3. /\ pc' \in [UserTask -> Label] /\ call' \in [UserTask -> FutexCall] /\ CallsReturn'
          /\ \A u \in UserTask \ {t} : (Holds(u)' <=> Holds(u))
          /\ Holds(t)'
      BY <1>1, <1>3, <2>1, MovesKeepTypes DEF LockInv, Label
    <2>4. Acquires(t)
      BY <1>4, <2>2, <2>3 DEF Acquires, OthersKeep, Mem
    <2>5. QED
      BY <1>2, <2>2, <2>3, <2>4 DEF Types, Effect, LockInv
  <1>5. CASE Mem("m") # 0
    <2>1. UNCHANGED word /\ Moves(t, "xchg", call[t])
      BY <1>2, <1>5 DEF Cas, Goto, Moves
    <2>2. /\ pc' \in [UserTask -> Label] /\ call' \in [UserTask -> FutexCall] /\ CallsReturn'
          /\ \A u \in UserTask \ {t} : (Holds(u)' <=> Holds(u))
          /\ ~Holds(t)'
      BY <1>1, <1>3, <2>1, MovesKeepTypes DEF LockInv, Label
    <2>3. KeepsHolders
      BY <1>1, <2>1, <2>2 DEF KeepsHolders
    <2>4. QED
      BY <1>2, <2>1, <2>2, <2>3 DEF Types, Effect, LockInv
  <1>6. QED
    BY <1>4, <1>5

(* A move that leaves the words alone and stays on its side of the lock. *)
LEMMA QuietStep ==
    ASSUME LockInv, NEW t \in UserTask, NEW label \in Label, NEW c \in FutexCall,
           Moves(t, label, c),
           label \in {"call", "ret"} <=> c.kind # "none",
           c.then \in {"held", "cond"} => c.kind = "wake" /\ c.addr = "c" /\ c.then = "held",
           Holds(t) <=> \/ label \in {"held", "cond"}
                        \/ c.kind = "wake" /\ c.addr = "c" /\ c.then = "held",
           UNCHANGED word,
           seq' \in [UserTask -> Nat]
    PROVE  Types' /\ CallsReturn' /\ Effect
  <1>1. /\ pc' \in [UserTask -> Label] /\ call' \in [UserTask -> FutexCall] /\ CallsReturn'
        /\ \A u \in UserTask : Holds(u)' <=> Holds(u)
    BY MovesKeepTypes DEF LockInv
  <1>2. KeepsHolders
    BY <1>1 DEF KeepsHolders
  <1>3. QED
    BY <1>1, <1>2 DEF LockInv, Types, Effect

(* What the call of a thread in user code looks like. *)
LEMMA InUserCode ==
    ASSUME LockInv, NEW t \in UserTask, pc[t] \notin {"call", "ret"}
    PROVE  /\ call[t] \in FutexCall
           /\ call[t].kind = "none"
           /\ call[t].then \notin {"held", "cond"}
           /\ Holds(t) <=> pc[t] \in {"held", "cond"}
           /\ call = [call EXCEPT ![t] = call[t]]
  BY DEF LockInv, Types, CallsReturn, Holds

(* The exchange with 2 acquires a free mutex, or keeps it held. *)
LEMMA XchgStep ==
    ASSUME LockInv, NEW t \in UserTask, current = t, Xchg(t)
    PROVE  Types' /\ CallsReturn' /\ Effect
  <1>1. /\ pc[t] = "xchg" /\ Store("m", 2) /\ seq' = seq /\ seq \in [UserTask -> Nat]
        /\ SpaceOf[t] \in Space
    BY DEF Xchg, At, LockInv, Types, Space
  <1>2. /\ word' \in [Space -> [Addr -> Nat]]
        /\ word'[SpaceOf[t]]["m"] = 2
        /\ \A s \in Space \ {SpaceOf[t]} : word'[s] = word[s]
    BY <1>1, StoreTypes DEF LockInv
  <1>3. ~Holds(t)
    BY <1>1, InUserCode
  <1>4. CASE Mem("m") = 0
    <2>1. Moves(t, "held", call[t])
      BY <1>1, <1>4, InUserCode DEF Xchg, NoCallMade, Goto, Moves
    <2>2. /\ pc' \in [UserTask -> Label] /\ call' \in [UserTask -> FutexCall] /\ CallsReturn'
          /\ \A u \in UserTask \ {t} : Holds(u)' <=> Holds(u)
          /\ Holds(t)'
      BY <1>1, <2>1, InUserCode, MovesKeepTypes DEF LockInv, Label
    <2>3. Acquires(t)
      BY <1>2, <1>4, <2>2 DEF Acquires, OthersKeep, Mem
    <2>4. QED
      BY <1>1, <1>2, <2>2, <2>3 DEF Types, Effect
  <1>5. CASE Mem("m") # 0
    <2> DEFINE c == Wait("m", 2, "xchg")
    <2>1. c \in FutexCall /\ c.kind = "wait" /\ c.then = "xchg" /\ Moves(t, "call", c)
      BY <1>5 DEF Xchg, Calls, Goto, Moves, Wait, FutexCall, Label
    <2>2. /\ pc' \in [UserTask -> Label] /\ call' \in [UserTask -> FutexCall] /\ CallsReturn'
          /\ \A u \in UserTask \ {t} : Holds(u)' <=> Holds(u)
          /\ ~Holds(t)'
      <3> HIDE DEF c
      <3>1. QED
        BY <2>1, MovesKeepTypes DEF LockInv, Label
    <2>3. KeepsHolders
      BY <1>2, <1>3, <1>5, <2>2 DEF KeepsHolders, Mem
    <2>4. QED
      BY <1>1, <1>2, <2>2, <2>3 DEF Types, Effect
  <1>6. QED
    BY <1>4, <1>5

(* Storing 0 releases, whether or not a wake follows. *)
LEMMA UnlockStep ==
    ASSUME LockInv, NEW t \in UserTask, NEW label \in {"out", "cwait"}, current = t,
           pc[t] \in {"held", "cond"}, UnlockTo(t, label), seq' = seq
    PROVE  Types' /\ CallsReturn' /\ Effect
  <1>1. Store("m", 0) /\ seq \in [UserTask -> Nat] /\ SpaceOf[t] \in Space
    BY DEF UnlockTo, LockInv, Types, Space
  <1>2. /\ word' \in [Space -> [Addr -> Nat]]
        /\ word'[SpaceOf[t]]["m"] = 0
        /\ \A s \in Space \ {SpaceOf[t]} : word'[s] = word[s]
    BY <1>1, StoreTypes DEF LockInv
  <1>3. Holds(t)
    BY InUserCode
  <1> DEFINE c == Wake("m", 1, label)
  <1>4. /\ pc' \in [UserTask -> Label] /\ call' \in [UserTask -> FutexCall] /\ CallsReturn'
        /\ \A u \in UserTask \ {t} : Holds(u)' <=> Holds(u)
        /\ ~Holds(t)'
    <2>1. CASE Moves(t, label, call[t])
      BY <2>1, InUserCode, MovesKeepTypes DEF LockInv, Label
    <2>2. CASE Moves(t, "call", c)
      <3>1. c \in FutexCall /\ c.kind = "wake" /\ c.addr = "m" /\ c.then = label
        BY DEF Wake, FutexCall, Label
      <3> HIDE DEF c
      <3>2. QED
        BY <2>2, <3>1, MovesKeepTypes DEF LockInv, Label
    <2>3. Moves(t, label, call[t]) \/ Moves(t, "call", c)
      BY InUserCode DEF UnlockTo, Calls, NoCallMade, Goto, Moves
    <2>4. QED
      BY <2>1, <2>2, <2>3
  <1>5. Releases(t)
    BY <1>2, <1>3, <1>4 DEF Releases, OthersKeep
  <1>6. QED
    BY <1>1, <1>2, <1>4, <1>5 DEF Types, Effect

(* A signal or broadcast does not touch the mutex. *)
LEMMA CondPostStep ==
    ASSUME LockInv, NEW t \in UserTask, CondPost(t)
    PROVE  Types' /\ CallsReturn' /\ Effect
  <1>1. /\ current = t /\ pc[t] \in {"out", "held"} /\ seq' = seq /\ seq \in [UserTask -> Nat]
        /\ Store("c", Mem("c") + 1) /\ Mem("c") \in Nat
    BY PthreadAssumption DEF CondPost, At, LockInv, Types, Space, Mem
  <1>2. /\ word' \in [Space -> [Addr -> Nat]]
        /\ \A s \in Space : word'[s]["m"] = word[s]["m"]
    BY <1>1, StoreTypes DEF LockInv
  <1>3. PICK n \in {1, Everyone} : Calls(t, Wake("c", n, pc[t]))
    BY DEF CondPost
  <1> DEFINE c == Wake("c", n, pc[t])
  <1>4. c \in FutexCall /\ c.kind = "wake" /\ c.addr = "c" /\ c.then = pc[t]
    BY <1>1, MaxTasksNat DEF Wake, FutexCall, Label
  <1>5. Moves(t, "call", c)
    BY <1>3 DEF Calls, Goto, Moves
  <1> HIDE DEF c
  <1>6. /\ pc' \in [UserTask -> Label] /\ call' \in [UserTask -> FutexCall] /\ CallsReturn'
        /\ \A u \in UserTask : Holds(u)' <=> Holds(u)
    BY <1>1, <1>4, <1>5, InUserCode, MovesKeepTypes DEF LockInv, Label
  <1>7. KeepsHolders
    BY <1>2, <1>6 DEF KeepsHolders
  <1>8. QED
    BY <1>1, <1>2, <1>6, <1>7 DEF Types, Effect

(* The kernel side changes no word; the thread stays at its call. *)
LEMMA DoFutexStep ==
    ASSUME LockInv, NEW t \in UserTask, DoFutex(t)
    PROVE  Types' /\ CallsReturn' /\ Effect
  <1>1. pc[t] = "call" /\ pc' = [pc EXCEPT ![t] = "ret"] /\ UNCHANGED <<call, seq>>
    BY DEF DoFutex, Goto
  <1>2. UNCHANGED word
    BY DEF DoFutex, futex_wait, futex_wait_queue, futex_wait_fails, futex_wake, futexVars
  <1>3. /\ call[t] \in FutexCall /\ call[t].kind # "none"
        /\ call[t].then \in {"held", "cond"} =>
              call[t].kind = "wake" /\ call[t].addr = "c" /\ call[t].then = "held"
        /\ seq \in [UserTask -> Nat] /\ Moves(t, "ret", call[t])
    BY <1>1 DEF LockInv, Types, CallsReturn, Moves
  <1>4. QED
    BY <1>1, <1>2, <1>3, QuietStep DEF Label, Holds

(* The return from the kernel goes where the call said. *)
LEMMA LeaveFutexStep ==
    ASSUME LockInv, NEW t \in UserTask, LeaveFutex(t)
    PROVE  Types' /\ CallsReturn' /\ Effect
  <1>1. pc[t] = "ret" /\ UNCHANGED <<word, seq>> /\ seq \in [UserTask -> Nat]
    BY DEF LeaveFutex, futexVars, LockInv, Types
  <1>2. /\ call[t] \in FutexCall /\ call[t].kind # "none"
        /\ call[t].then \in {"held", "cond"} =>
              call[t].kind = "wake" /\ call[t].addr = "c" /\ call[t].then = "held"
    BY <1>1 DEF LockInv, Types, CallsReturn
  <1>3. Moves(t, call[t].then, NoCall)
    BY DEF LeaveFutex, Goto, Moves
  <1>4. QED
    BY <1>1, <1>2, <1>3, QuietStep DEF Holds, NoCall, FutexCall, Label

(* Every step of the system keeps the invariant and has one of the         *)
(* effects.                                                                *)
LEMMA PthreadStep ==
    ASSUME LockInv, [PthreadNext]_pthreadVars
    PROVE  Types' /\ CallsReturn' /\ Effect
  <1>1. ASSUME UNCHANGED <<word, pc, call, seq>> PROVE Types' /\ CallsReturn' /\ Effect
    BY <1>1 DEF LockInv, Types, CallsReturn, Effect, KeepsHolders, Holds
  <1>2. CASE \/ UNCHANGED pthreadVars
             \/ Preempt
             \/ \E t \in UserTask, v \in Killable : sys_kill(t, v)
    BY <1>1, <1>2 DEF pthreadVars, futexVars, threadVars, Preempt, sys_kill
  <1>3. ASSUME NEW t \in UserTask, Advance(t) \/ Begin(t)
        PROVE  Types' /\ CallsReturn' /\ Effect
    <2>1. CASE Lock(t) \/ Relock(t)
      BY <2>1, CasStep DEF Lock, Relock, At
    <2>2. CASE Trylock(t)
      <3>1. CASE Mem("m") = 0
        BY <2>2, <3>1, CasStep DEF Trylock, Cas, At
      <3>2. CASE Mem("m") # 0
        BY <1>1, <2>2, <3>2 DEF Trylock
      <3>3. QED
        BY <3>1, <3>2
    <2>3. CASE Xchg(t)
      BY <2>3, XchgStep DEF Xchg, At
    <2>4. CASE Unlock(t)
      BY <2>4, UnlockStep DEF Unlock, At
    <2>5. CASE CondUnlock(t)
      BY <2>5, UnlockStep DEF CondUnlock, At
    <2>6. CASE CondWait(t)
      <3>1. /\ pc[t] = "held" /\ current = t /\ UNCHANGED <<word, call>>
            /\ seq' = [seq EXCEPT ![t] = Mem("c")] /\ pc' = [pc EXCEPT ![t] = "cond"]
        BY <2>6 DEF CondWait, At, futexVars, Goto
      <3>2. seq' \in [UserTask -> Nat]
        BY <3>1, PthreadAssumption DEF LockInv, Types, Mem, Space
      <3>3. Moves(t, "cond", call[t])
        BY <3>1, InUserCode DEF Moves
      <3>4. QED
        BY <3>1, <3>2, <3>3, InUserCode, QuietStep DEF Label
    <2>7. CASE CondSleep(t)
      <3> DEFINE c == Wait("c", seq[t], "cas")
      <3>1. pc[t] = "cwait" /\ UNCHANGED <<word, seq>> /\ seq \in [UserTask -> Nat]
        BY <2>7 DEF CondSleep, At, futexVars, LockInv, Types
      <3>2. c \in FutexCall /\ c.kind = "wait" /\ c.then = "cas" /\ Moves(t, "call", c)
        BY <2>7, <3>1 DEF CondSleep, Calls, Goto, Moves, Wait, FutexCall, Label
      <3> HIDE DEF c
      <3>3. QED
        BY <3>1, <3>2, InUserCode, QuietStep DEF Label
    <2>8. CASE CondPost(t)
      BY <2>8, CondPostStep
    <2>9. CASE EnterFutex(t)
      BY <1>1, <2>9 DEF EnterFutex, futexVars, threadVars
    <2>10. CASE DoFutex(t)
      BY <2>10, DoFutexStep
    <2>11. CASE LeaveFutex(t)
      BY <2>11, LeaveFutexStep
    <2>12. QED
      BY <1>3, <2>1, <2>2, <2>3, <2>4, <2>5, <2>6, <2>7, <2>8, <2>9, <2>10, <2>11
         DEF Advance, Begin
  <1>4. QED
    BY <1>2, <1>3 DEF PthreadNext

(* The invariant holds before any thread starts. *)
LEMMA PthreadInitInv == PthreadInit => LockInv
  <1> SUFFICES ASSUME PthreadInit PROVE LockInv
    OBVIOUS
  <1>1. Types
    BY MaxTasksNat DEF PthreadInit, Types, Label
  <1>2. \A t \in UserTask : pc[t] = "out" /\ call[t] = NoCall /\ ~Holds(t)
    BY DEF PthreadInit, Holds, NoCall
  <1>3. CallsReturn
    BY <1>2 DEF CallsReturn, NoCall
  <1>4. \A s \in Space : word[s]["m"] = 0
    BY PthreadAssumption DEF PthreadInit
  <1>5. WordTellsHolder
    BY <1>2, <1>4 DEF WordTellsHolder
  <1>6. QED
    BY <1>1, <1>3, <1>5 DEF LockInv

(* The word tells whether the mutex is held, and it has one holder. *)
THEOREM MutualExclusion == PthreadSpec => []LockInv
  <1>1. LockInv /\ [PthreadNext]_pthreadVars => LockInv'
    <2> SUFFICES ASSUME LockInv, [PthreadNext]_pthreadVars PROVE LockInv'
      OBVIOUS
    <2>1. Types' /\ CallsReturn' /\ Effect
      BY PthreadStep
    <2>2. WordTellsHolder'
      BY <2>1, EffectKeepsInv DEF Effect, LockInv
    <2>3. QED
      BY <2>1, <2>2 DEF LockInv
  <1>2. QED
    BY PthreadInitInv, <1>1, PTL DEF PthreadSpec

(* Threads, scheduler and futex together implement the abstract lock: each *)
(* step acquires one free mutex, releases one or changes no holder.        *)
THEOREM PthreadImplementsLock == PthreadSpec => ImplementsLock
  <1>1. PthreadInit => Mutexes!LockInit
    BY DEF PthreadInit, Mutexes!LockInit, HoldersOf, Holds, NoCall
  <1>2. LockInv /\ [PthreadNext]_pthreadVars
          => [Mutexes!LockNext]_([s \in Space |-> HoldersOf(s)])
    <2> SUFFICES ASSUME LockInv, [PthreadNext]_pthreadVars
                 PROVE  \/ Mutexes!LockNext
                        \/ UNCHANGED [s \in Space |-> HoldersOf(s)]
      OBVIOUS
    <2>1. Effect
      BY PthreadStep
    <2>2. QED
      BY <2>1, EffectIsLockStep DEF Effect, LockInv, Mutexes!LockNext
  <1>3. QED
    BY <1>1, <1>2, MutualExclusion, PTL DEF PthreadSpec, ImplementsLock, Mutexes!LockSpec

-----------------------------------------------------------------------------
(* The queue of the futex and the scheduler: every node is that of one     *)
(* thread, asleep in its call or killed there, and every sleeper has one.  *)
Node == [uaddr : {"m", "c"}, task : UserTask]

DistinctTasks(q) == \A i, j \in DOMAIN q : q[i].task = q[j].task => i = j

Asleep(w, p, c, s) == /\ p = "ret"
                      /\ c.kind = "wait"
                      /\ c.addr = w.uaddr
                      /\ s \in {"BLOCKED", "DEAD"}

NodeOfSleeper(w) == Asleep(w, pc[w.task], call[w.task], state[w.task])

QueueInv == /\ waiters \in Seq(Node)
            /\ DistinctTasks(waiters)
            /\ \A i \in DOMAIN waiters : NodeOfSleeper(waiters[i])
            /\ \A t \in Task : state[t] = "BLOCKED" => \E i \in DOMAIN waiters : waiters[i].task = t

(* The arguments of a call are those its caller needs. *)
ShapeOK(c, q) ==
    /\ c.kind = "wait" /\ c.addr = "m" => c.val = 2 /\ c.then = "xchg"
    /\ c.kind = "wait" /\ c.addr = "c" => c.val = q
    /\ c.kind = "wake" => c.val \in {1, Everyone}

CallShape == \A t \in UserTask : ShapeOK(call[t], seq[t])

(* No broadcast is ahead of the sequence number. *)
SweptInv == /\ swept \in [Space -> Nat]
            /\ \A s \in Space : swept[s] <= word[s]["c"]
            /\ BroadcastMissesNobody

(* Nothing forks here: every task exists from the start. *)
PthreadInv == /\ LockInv /\ SchedInv /\ next_id = MaxTasks + 1
              /\ QueueInv /\ CallShape /\ SweptInv

(* What the walk of futex_wake leaves of the first m nodes. *)
Remains(q, m, S) ==
    /\ q \in Seq(Node)
    /\ DistinctTasks(q)
    /\ \A i \in DOMAIN q : \E j \in 1..m : q[i] = waiters[j] /\ waiters[j].task \notin S
    /\ \A j \in 1..m : waiters[j].task \notin S => \E i \in DOMAIN q : q[i] = waiters[j]

Rest(i, q, S) == IF waiters[i].task \in S THEN q ELSE Append(q, waiters[i])

IsLeft(f, m, S) == f = [i \in 0..m |-> IF i = 0 THEN <<>> ELSE Rest(i, f[i - 1], S)]

(* The next node is kept or unlinked. *)
LEMMA UnlinkOne ==
    ASSUME waiters \in Seq(Node), DistinctTasks(waiters), NEW S,
           NEW m \in Nat, m + 1 <= Len(waiters), NEW q, Remains(q, m, S)
    PROVE  Remains(Rest(m + 1, q, S), m + 1, S)
  <1> DEFINE w == waiters[m + 1]
  <1>1. /\ q \in Seq(Node) /\ DistinctTasks(q) /\ w \in Node
        /\ \A i \in DOMAIN q : \E j \in 1..m : q[i] = waiters[j] /\ waiters[j].task \notin S
        /\ \A j \in 1..m : waiters[j].task \notin S => \E i \in DOMAIN q : q[i] = waiters[j]
        /\ DOMAIN waiters = 1..Len(waiters) /\ Len(waiters) \in Nat
    BY DEF Remains
  <1>2. CASE w.task \in S
    <2>1. \A j \in 1..(m + 1) : waiters[j].task \notin S => j \in 1..m
      BY <1>2
    <2>2. Remains(q, m + 1, S)
      BY <1>1, <2>1 DEF Remains
    <2>3. QED
      BY <1>2, <2>2 DEF Rest
  <1>3. CASE w.task \notin S
    <2> DEFINE p == Append(q, w)
    <2>1. /\ p \in Seq(Node) /\ DOMAIN p = 1..(Len(q) + 1) /\ DOMAIN q = 1..Len(q)
          /\ Len(q) \in Nat /\ p[Len(q) + 1] = w
          /\ \A i \in 1..Len(q) : p[i] = q[i]
      BY <1>1
    <2> HIDE DEF p
    <2>2. \A i \in DOMAIN q : q[i].task # w.task
      <3> TAKE i \in DOMAIN q
      <3>1. PICK j \in 1..m : q[i] = waiters[j]
        BY <1>1
      <3>2. j \in DOMAIN waiters /\ m + 1 \in DOMAIN waiters /\ j # m + 1
        BY <1>1
      <3>3. QED
        BY <3>1, <3>2 DEF DistinctTasks
    <2>3. DistinctTasks(p)
      BY <1>1, <2>1, <2>2 DEF DistinctTasks
    <2>4. \A i \in DOMAIN p : \E j \in 1..(m + 1) :
             p[i] = waiters[j] /\ waiters[j].task \notin S
      BY <1>1, <1>3, <2>1
    <2>5. \A j \in 1..(m + 1) : waiters[j].task \notin S =>
             \E i \in DOMAIN p : p[i] = waiters[j]
      <3> TAKE j \in 1..(m + 1)
      <3>1. CASE j = m + 1
        BY <2>1, <3>1
      <3>2. CASE j \in 1..m
        BY <1>1, <2>1, <3>2
      <3>3. QED
        BY <3>1, <3>2
    <2>6. Remains(p, m + 1, S)
      BY <2>1, <2>3, <2>4, <2>5 DEF Remains
    <2>7. QED
      BY <1>3, <2>6 DEF Rest, p
  <1>4. QED
    BY <1>2, <1>3

(* The walk to any node exists and leaves what it should. *)
LEMMA LeftExists ==
    ASSUME waiters \in Seq(Node), DistinctTasks(waiters), NEW S
    PROVE  \A m \in 0..Len(waiters) : \E f : IsLeft(f, m, S) /\ Remains(f[m], m, S)
  <1> DEFINE E == {m \in Nat : m <= Len(waiters) =>
                                 \E f : IsLeft(f, m, S) /\ Remains(f[m], m, S)}
  <1>1. 0 \in E
    <2> DEFINE g == [i \in 0..0 |-> <<>>]
    <2>1. IsLeft(g, 0, S)
      BY DEF IsLeft
    <2>2. Remains(g[0], 0, S)
      BY DEF Remains, DistinctTasks
    <2> HIDE DEF g
    <2>3. QED
      BY <2>1, <2>2
  <1>2. ASSUME NEW m \in Nat, m \in E PROVE m + 1 \in E
    <2>1. SUFFICES ASSUME m + 1 <= Len(waiters)
                   PROVE  \E f : IsLeft(f, m + 1, S) /\ Remains(f[m + 1], m + 1, S)
      OBVIOUS
    <2>2. m <= Len(waiters)
      BY <2>1
    <2>3. PICK f : IsLeft(f, m, S) /\ Remains(f[m], m, S)
      BY <1>2, <2>2
    <2> DEFINE g == [i \in 0..(m + 1) |-> IF i <= m THEN f[i] ELSE Rest(m + 1, f[m], S)]
    <2>4. \A i \in 0..(m + 1) : g[i] = IF i = 0 THEN <<>> ELSE Rest(i, g[i - 1], S)
      <3> TAKE i \in 0..(m + 1)
      <3>1. CASE i = 0
        BY <2>3, <3>1 DEF IsLeft
      <3>2. CASE i \in 1..m
        BY <2>3, <3>2 DEF IsLeft
      <3>3. CASE i = m + 1
        BY <3>3
      <3>4. QED
        BY <3>1, <3>2, <3>3
    <2>5. g = [i \in 0..(m + 1) |-> g[i]] /\ g[m + 1] = Rest(m + 1, f[m], S)
      OBVIOUS
    <2> HIDE DEF g
    <2>6. IsLeft(g, m + 1, S)
      BY <2>4, <2>5 DEF IsLeft
    <2>7. Remains(g[m + 1], m + 1, S)
      BY <2>1, <2>3, <2>5, UnlinkOne
    <2>8. QED
      BY <2>6, <2>7
  <1>3. Nat \subseteq E
    <2> HIDE DEF E
    <2>1. QED
      BY <1>1, <1>2, SetInduction
  <1>4. QED
    BY <1>3

(* Unlinking leaves the other nodes, each once. *)
LEMMA UnlinkedIs ==
    ASSUME waiters \in Seq(Node), DistinctTasks(waiters), NEW S
    PROVE  Remains(Unlinked(S), Len(waiters), S)
  <1> DEFINE n == Len(waiters)
             u == CHOOSE g : IsLeft(g, n, S)
  <1>1. n \in Nat
    OBVIOUS
  <1>2. Unlinked(S) = u[n]
    BY DEF Unlinked, IsLeft, Rest
  <1>3. PICK f : IsLeft(f, n, S) /\ Remains(f[n], n, S)
    BY <1>1, LeftExists, SMTT(30)
  <1>4. IsLeft(u, n, S)
    BY <1>3
  <1> HIDE DEF u
  <1> DEFINE C == {m \in Nat : m <= n => u[m] = f[m]}
  <1>5. 0 \in C
    BY <1>1, <1>3, <1>4 DEF IsLeft
  <1>6. ASSUME NEW m \in Nat, m \in C PROVE m + 1 \in C
    <2>1. CASE m + 1 <= n
      <3>1. m + 1 \in 0..n /\ m + 1 # 0 /\ (m + 1) - 1 = m
        BY <1>1, <2>1
      <3>2. u[m + 1] = Rest(m + 1, u[m], S) /\ f[m + 1] = Rest(m + 1, f[m], S)
        BY <1>3, <1>4, <3>1 DEF IsLeft
      <3>3. QED
        BY <1>1, <1>6, <2>1, <3>2
    <2>2. QED
      BY <2>1
  <1>7. Nat \subseteq C
    <2> HIDE DEF C
    <2>1. QED
      BY <1>5, <1>6, SetInduction
  <1>8. u[n] = f[n]
    BY <1>1, <1>7
  <1>9. QED
    BY <1>2, <1>3, <1>8

(* The nodes a wake takes belong to its address, are the newest ones, and  *)
(* are all of them when it asks for everyone.                              *)
LEMMA WokenAre ==
    ASSUME waiters \in Seq(Node), DistinctTasks(waiters), NEW a, NEW n \in Nat
    PROVE  /\ \A t \in Woken(a, n) : \E i \in DOMAIN waiters :
                 waiters[i].task = t /\ waiters[i].uaddr = a
           /\ n # 0 => \A i \in DOMAIN waiters : waiters[i].uaddr = a => Woken(a, n) # {}
           /\ n = Everyone => \A i \in DOMAIN waiters :
                 waiters[i].uaddr = a => waiters[i].task \in Woken(a, n)
  <1> DEFINE D == DOMAIN waiters
             mine(i) == {j \in 1..i : waiters[j].uaddr = a}
  <1>1. D = 1..Len(waiters) /\ Len(waiters) \in Nat /\ \A i \in D : waiters[i] \in Node
    OBVIOUS
  <1>2. Woken(a, n) = {waiters[i].task : i \in {k \in D :
                           waiters[k].uaddr = a /\ Cardinality(mine(k)) <= n}}
    BY DEF Woken
  <1>3. \A t \in Woken(a, n) : \E i \in D : waiters[i].task = t /\ waiters[i].uaddr = a
    BY <1>2
  <1>4. ASSUME n # 0, NEW i \in D, waiters[i].uaddr = a
        PROVE  Woken(a, n) # {}
    <2> DEFINE T == {j \in D : waiters[j].uaddr = a}
    <2>1. T \subseteq Nat /\ T # {}
      BY <1>1, <1>4
    <2>2. PICK k \in T : \A j \in T : ~(<<j, k>> \in OpToRel(<, Nat))
      BY <2>1, NatLessThanWellFounded, WFMin, Zenon
    <2>3. \A j \in T : ~(j < k)
      BY <2>1, <2>2 DEF OpToRel
    <2>4. mine(k) = {k}
      BY <1>1, <2>3
    <2>5. Cardinality(mine(k)) = 1
      BY <2>4, FS_Singleton
    <2>6. k \in D /\ waiters[k].uaddr = a /\ Cardinality(mine(k)) <= n
      BY <1>4, <2>5
    <2> HIDE DEF mine
    <2>7. waiters[k].task \in Woken(a, n)
      BY <1>2, <2>6
    <2>8. QED
      BY <2>7
  <1>5. ASSUME n = Everyone, NEW i \in D, waiters[i].uaddr = a
        PROVE  waiters[i].task \in Woken(a, n)
    <2>1. IsFiniteSet(1..MaxTasks) /\ Cardinality(1..MaxTasks) = MaxTasks
      BY FS_Interval, SchedAssumption
    <2> DEFINE f == [j \in mine(i) |-> waiters[j].task]
    <2>2. \A j \in mine(i) : j \in D /\ waiters[j].task \in 1..MaxTasks
      <3>1. \A j \in D : waiters[j].task \in 3..MaxTasks
        BY <1>1 DEF Node, UserTask
      <3>2. \A j \in mine(i) : j \in D
        BY <1>1
      <3>3. 3..MaxTasks \subseteq 1..MaxTasks
        BY SchedAssumption
      <3>4. QED
        BY <3>1, <3>2, <3>3
    <2>3. f \in Injection(mine(i), 1..MaxTasks)
      BY <2>2 DEF DistinctTasks, Injection, IsInjective
    <2>4. IsFiniteSet(mine(i)) /\ Cardinality(mine(i)) <= MaxTasks
      <3> HIDE DEF mine, f
      <3>1. QED
        BY <2>1, <2>3, FS_Injection
    <2> HIDE DEF mine
    <2>5. QED
      BY <1>2, <1>5, <2>4 DEF Everyone
  <1>6. QED
    BY <1>3, <1>4, <1>5

(* What is left in the list after a wake. *)
LEMMA QueueAfterWake ==
    ASSUME PthreadInv, NEW a, NEW n \in Nat, futex_wake(a, n)
    PROVE  /\ waiters' \in Seq(Node)
           /\ DistinctTasks(waiters')
           /\ \A i \in DOMAIN waiters' : \E j \in DOMAIN waiters :
                 waiters'[i] = waiters[j] /\ waiters[j].task \notin Woken(a, n)
           /\ \A j \in DOMAIN waiters : waiters[j].task \notin Woken(a, n) =>
                 \E i \in DOMAIN waiters' : waiters'[i] = waiters[j]
           /\ \A t \in Task : state'[t] = IF t \in Woken(a, n) /\ state[t] = "BLOCKED"
                                         THEN "READY" ELSE state[t]
  <1>1. waiters \in Seq(Node) /\ DistinctTasks(waiters)
    BY DEF PthreadInv, QueueInv
  <1>2. waiters' = Unlinked(Woken(a, n)) /\ state' = task_unblock(Woken(a, n))
    BY DEF futex_wake
  <1>3. Remains(waiters', Len(waiters), Woken(a, n))
    BY <1>1, <1>2, UnlinkedIs
  <1>4. DOMAIN waiters = 1..Len(waiters)
    BY <1>1
  <1>5. \A t \in Task : state'[t] = IF t \in Woken(a, n) /\ state[t] = "BLOCKED"
                                    THEN "READY" ELSE state[t]
    BY <1>2 DEF task_unblock
  <1>6. QED
    BY <1>3, <1>4, <1>5 DEF Remains

(* Nobody in the list is on the CPU. *)
LEMMA SleepersDoNotRun ==
    ASSUME PthreadInv, NEW i \in DOMAIN waiters
    PROVE  /\ waiters[i] \in Node /\ waiters[i].task \in UserTask /\ waiters[i].task \in Task
           /\ waiters[i].task # current /\ waiters[i].task # Idle
           /\ NodeOfSleeper(waiters[i])
  <1>1. waiters[i] \in Node /\ NodeOfSleeper(waiters[i]) /\ current \in Task
    BY DEF PthreadInv, QueueInv, SchedInv, SchedTypeOK
  <1>2. waiters[i].task \in UserTask
    BY <1>1 DEF Node
  <1>3. waiters[i].task \in Task /\ waiters[i].task # Idle
    BY <1>2, SchedAssumption DEF UserTask, Task, Idle
  <1>4. state[current] = "RUNNING"
    BY <1>1 DEF PthreadInv, SchedInv, OneRunning
  <1>5. QED
    BY <1>1, <1>2, <1>3, <1>4 DEF NodeOfSleeper, Asleep

-----------------------------------------------------------------------------
(* Threads that will mark the mutex contended or wake a sleeper. *)
Waker(u) == \/ pc[u] = "call" /\ call[u].kind = "wake" /\ call[u].addr = "m"
            \/ pc[u] = "xchg"
            \/ pc[u] = "ret" /\ call[u].then = "xchg" /\ state[u] # "BLOCKED"

(* What a step of a thread in user code does to the rest. *)
UserEffect(t) ==
    /\ UNCHANGED <<schedVars, waiters, swept>>
    /\ pc[t] \notin {"call", "ret"}
    /\ \A u \in UserTask \ {t} : pc'[u] = pc[u] /\ call'[u] = call[u] /\ seq'[u] = seq[u]
    /\ ShapeOK(call'[t], seq'[t])
    /\ \A s \in Space : word'[s]["c"] >= word[s]["c"]
    /\ \A s \in Space \ {SpaceOf[t]} : word'[s]["m"] = word[s]["m"]
    /\ \/ word'[SpaceOf[t]]["m"] = 2
       \/ Waker(t)'
       \/ word[SpaceOf[t]]["m"] # 2 /\ pc[t] # "xchg"

(* A step in user code is a move of the thread, of its sequence number and *)
(* of one word of its space.                                               *)
LEMMA UserMove ==
    ASSUME PthreadInv, NEW t \in UserTask, current = t, pc[t] \notin {"call", "ret"},
           NEW label \in Label, NEW c \in FutexCall, NEW q \in Nat,
           Moves(t, label, c), seq' = [seq EXCEPT ![t] = q], ShapeOK(c, q),
           NEW a \in {"m", "c"}, NEW v \in Nat, Store(a, v),
           a = "c" => v >= Mem("c"),
           LET m == IF a = "m" THEN v ELSE Mem("m") IN
              \/ m = 2
              \/ label = "call" /\ c.kind = "wake" /\ c.addr = "m"
              \/ label = "xchg"
              \/ Mem("m") # 2 /\ pc[t] # "xchg",
           UNCHANGED <<schedVars, waiters, swept>>
    PROVE  UserEffect(t)
  <1>1. /\ pc'[t] = label /\ call'[t] = c /\ seq'[t] = q
        /\ \A u \in UserTask \ {t} : pc'[u] = pc[u] /\ call'[u] = call[u] /\ seq'[u] = seq[u]
    BY DEF PthreadInv, LockInv, Types, Moves
  <1>2. /\ SpaceOf[t] \in Space /\ "m" \in Addr /\ "c" \in Addr
        /\ word \in [Space -> [Addr -> Nat]]
    BY PthreadAssumption DEF Space, PthreadInv, LockInv, Types
  <1>3. /\ word'[SpaceOf[t]][a] = v
        /\ \A b \in {"m", "c"} : b # a => word'[SpaceOf[t]][b] = word[SpaceOf[t]][b]
        /\ \A s \in Space \ {SpaceOf[t]} : word'[s] = word[s]
    BY <1>2 DEF Store
  <1>4. \A s \in Space : word'[s]["c"] >= word[s]["c"]
    BY <1>2, <1>3 DEF Mem
  <1>5. \/ word'[SpaceOf[t]]["m"] = 2
        \/ Waker(t)'
        \/ word[SpaceOf[t]]["m"] # 2 /\ pc[t] # "xchg"
    BY <1>1, <1>3 DEF Mem, Waker
  <1>6. QED
    BY <1>1, <1>3, <1>4, <1>5 DEF UserEffect

(* A step that stores nothing stores the mutex's own value. *)
LEMMA NoStore ==
    ASSUME PthreadInv, NEW t \in UserTask, current = t, UNCHANGED word
    PROVE  Store("m", Mem("m")) /\ Mem("m") \in Nat /\ Mem("c") \in Nat
  <1>1. /\ SpaceOf[t] \in Space /\ "m" \in Addr /\ "c" \in Addr
        /\ word \in [Space -> [Addr -> Nat]]
    BY PthreadAssumption DEF Space, PthreadInv, LockInv, Types
  <1>2. QED
    BY <1>1 DEF Store, Mem

(* The compare-and-swap. *)
LEMMA CasMove ==
    ASSUME PthreadInv, NEW t \in UserTask, current = t, pc[t] \in {"out", "cas"}, Cas(t),
           UNCHANGED <<schedVars, waiters>>
    PROVE  UserEffect(t)
  <1>1. /\ call[t] \in FutexCall /\ call[t].kind = "none" /\ call = [call EXCEPT ![t] = call[t]]
        /\ seq[t] \in Nat /\ seq = [seq EXCEPT ![t] = seq[t]]
        /\ ShapeOK(call[t], seq[t])
    BY InUserCode DEF PthreadInv, LockInv, Types, CallShape
  <1>2. UNCHANGED <<call, seq, swept>>
    BY DEF Cas
  <1>3. CASE Mem("m") = 0
    <2>1. Store("m", 1) /\ Moves(t, "held", call[t])
      BY <1>1, <1>2, <1>3 DEF Cas, Goto, Moves
    <2>2. \A v \in {1} : LET m == IF "m" = "m" THEN v ELSE Mem("m") IN
             \/ m = 2
             \/ "held" = "call" /\ call[t].kind = "wake" /\ call[t].addr = "m"
             \/ "held" = "xchg"
             \/ Mem("m") # 2 /\ pc[t] # "xchg"
      BY <1>3
    <2>3. QED
      BY <1>1, <1>2, <2>1, <2>2, UserMove DEF Label
  <1>4. CASE Mem("m") # 0
    <2>1. UNCHANGED word /\ Moves(t, "xchg", call[t])
      BY <1>1, <1>2, <1>4 DEF Cas, Goto, Moves
    <2>2. QED
      BY <1>1, <1>2, <2>1, NoStore, UserMove DEF Label
  <1>5. QED
    BY <1>3, <1>4

(* The exchange with 2. *)
LEMMA XchgMove ==
    ASSUME PthreadInv, NEW t \in UserTask, Xchg(t)
    PROVE  UserEffect(t)
  <1>1. /\ current = t /\ pc[t] = "xchg" /\ Store("m", 2)
        /\ UNCHANGED <<schedVars, waiters, seq, swept>>
    BY DEF Xchg, At
  <1>2. /\ call[t] \in FutexCall /\ call[t].kind = "none" /\ call = [call EXCEPT ![t] = call[t]]
        /\ seq[t] \in Nat /\ seq' = [seq EXCEPT ![t] = seq[t]]
        /\ ShapeOK(call[t], seq[t])
    BY <1>1, InUserCode DEF PthreadInv, LockInv, Types, CallShape
  <1> DEFINE c == Wait("m", 2, "xchg")
  <1>3. c \in FutexCall /\ ShapeOK(c, seq[t])
    BY DEF Wait, FutexCall, Label, ShapeOK
  <1>4. \/ Moves(t, "held", call[t])
        \/ Moves(t, "call", c)
    BY <1>2 DEF Xchg, NoCallMade, Calls, Goto, Moves
  <1> HIDE DEF c
  <1>5. CASE Moves(t, "held", call[t])
    BY <1>1, <1>2, <1>5, UserMove DEF Label
  <1>6. CASE Moves(t, "call", c)
    BY <1>1, <1>2, <1>3, <1>6, UserMove DEF Label
  <1>7. QED
    BY <1>4, <1>5, <1>6

(* Storing 0, with a wake when the mutex was marked contended. *)
LEMMA UnlockMove ==
    ASSUME PthreadInv, NEW t \in UserTask, NEW label \in {"out", "cwait"}, current = t,
           pc[t] \in {"held", "cond"}, UnlockTo(t, label),
           UNCHANGED <<schedVars, waiters, seq, swept>>
    PROVE  UserEffect(t)
  <1>1. /\ call[t] \in FutexCall /\ call[t].kind = "none" /\ call = [call EXCEPT ![t] = call[t]]
        /\ seq[t] \in Nat /\ seq' = [seq EXCEPT ![t] = seq[t]]
        /\ ShapeOK(call[t], seq[t]) /\ Store("m", 0) /\ label \in Label
    BY InUserCode DEF PthreadInv, LockInv, Types, CallShape, UnlockTo, Label
  <1> DEFINE c == Wake("m", 1, label)
  <1>2. c \in FutexCall /\ ShapeOK(c, seq[t]) /\ c.kind = "wake" /\ c.addr = "m"
    BY DEF Wake, FutexCall, Label, ShapeOK
  <1>3. CASE Mem("m") = 2
    <2>1. Moves(t, "call", c)
      BY <1>3 DEF UnlockTo, Calls, Goto, Moves
    <2> HIDE DEF c
    <2>2. QED
      BY <1>1, <1>2, <2>1, UserMove DEF Label
  <1>4. CASE Mem("m") # 2
    <2>1. Moves(t, label, call[t])
      BY <1>1, <1>4 DEF UnlockTo, NoCallMade, Goto, Moves
    <2>2. QED
      BY <1>1, <1>4, <2>1, UserMove
  <1>5. QED
    BY <1>3, <1>4

(* The other steps of a thread in user code. *)
LEMMA UserStep ==
    ASSUME PthreadInv, NEW t \in UserTask,
           \/ Begin(t) \/ Relock(t) \/ Xchg(t) \/ Unlock(t) \/ CondUnlock(t) \/ CondSleep(t)
    PROVE  UserEffect(t)
  <1>1. ASSUME current = t, pc[t] \notin {"call", "ret"}
        PROVE  /\ call[t] \in FutexCall /\ call[t].kind = "none"
               /\ call = [call EXCEPT ![t] = call[t]]
               /\ seq[t] \in Nat /\ seq = [seq EXCEPT ![t] = seq[t]]
               /\ pc = [pc EXCEPT ![t] = pc[t]] /\ pc[t] \in Label
               /\ ShapeOK(call[t], seq[t])
    BY <1>1, InUserCode DEF PthreadInv, LockInv, Types, CallShape
  <1>2. CASE Lock(t) \/ Relock(t)
    BY <1>2, CasMove DEF Lock, Relock, At
  <1>3. CASE Trylock(t)
    <2>1. CASE Mem("m") = 0
      BY <1>3, <2>1, CasMove DEF Trylock, Cas, At
    <2>2. CASE Mem("m") # 0
      <3>1. /\ UNCHANGED <<schedVars, waiters, call, seq, swept, word, pc>>
            /\ current = t /\ pc[t] = "out"
        BY <1>3, <2>2 DEF Trylock, At
      <3>2. UNCHANGED word /\ word[SpaceOf[t]]["c"] \in Nat
        BY <3>1, NoStore DEF Mem
      <3>3. ShapeOK(call'[t], seq'[t])
        BY <1>1, <3>1
      <3>4. \A s \in Space : word[s]["c"] \in Nat
        BY PthreadAssumption DEF PthreadInv, LockInv, Types
      <3>5. \A s \in Space : word'[s]["c"] >= word[s]["c"]
        BY <3>1, <3>4
      <3>6. word'[SpaceOf[t]]["m"] = 2 \/ (word[SpaceOf[t]]["m"] # 2 /\ pc[t] # "xchg")
        BY <3>1
      <3>7. QED
        BY <3>1, <3>3, <3>5, <3>6 DEF UserEffect
    <2>3. QED
      BY <2>1, <2>2
  <1>4. CASE Xchg(t)
    BY <1>4, XchgMove
  <1>5. CASE Unlock(t)
    BY <1>5, UnlockMove DEF Unlock, At
  <1>6. CASE CondUnlock(t)
    BY <1>6, UnlockMove DEF CondUnlock, At
  <1>7. CASE CondWait(t)
    <2>1. /\ current = t /\ pc[t] = "held" /\ UNCHANGED <<schedVars, waiters, word, call, swept>>
          /\ seq' = [seq EXCEPT ![t] = Mem("c")]
          /\ pc' = [pc EXCEPT ![t] = "cond"]
      BY <1>7 DEF CondWait, At, Goto, futexVars
    <2>2. Moves(t, "cond", call[t]) /\ ShapeOK(call[t], Mem("c"))
      BY <1>1, <2>1 DEF Moves, ShapeOK
    <2>3. Store("m", Mem("m")) /\ Mem("m") \in Nat /\ Mem("c") \in Nat
      BY <2>1, NoStore
    <2>4. QED
      BY <1>1, <2>1, <2>2, <2>3, UserMove DEF Label
  <1>8. CASE CondSleep(t)
    <2> DEFINE c == Wait("c", seq[t], "cas")
    <2>1. /\ current = t /\ pc[t] = "cwait"
          /\ UNCHANGED <<schedVars, waiters, word, seq, swept>>
      BY <1>8 DEF CondSleep, At, futexVars
    <2>2. Moves(t, "call", c)
      BY <1>8 DEF CondSleep, Calls, Goto, Moves
    <2>3. c \in FutexCall /\ ShapeOK(c, seq[t])
      BY <1>1, <2>1 DEF Wait, FutexCall, Label, ShapeOK
    <2> HIDE DEF c
    <2>4. Store("m", Mem("m")) /\ Mem("m") \in Nat /\ Mem("c") \in Nat
      BY <2>1, NoStore
    <2>5. QED
      BY <1>1, <2>1, <2>2, <2>3, <2>4, UserMove DEF Label
  <1>9. CASE CondPost(t)
    <2>1. /\ current = t /\ pc[t] \in {"out", "held"} /\ Store("c", Mem("c") + 1)
          /\ UNCHANGED <<schedVars, waiters, seq, swept>>
      BY <1>9 DEF CondPost, At
    <2>2. PICK n \in {1, Everyone} : Calls(t, Wake("c", n, pc[t]))
      BY <1>9 DEF CondPost
    <2> DEFINE c == Wake("c", n, pc[t])
    <2>3. Moves(t, "call", c)
      BY <2>2 DEF Calls, Goto, Moves
    <2>4. c \in FutexCall /\ ShapeOK(c, seq[t])
      BY <2>1, MaxTasksNat DEF Wake, FutexCall, Label, ShapeOK
    <2>5. Mem("c") \in Nat
      BY <2>1, PthreadAssumption DEF PthreadInv, LockInv, Types, Mem, Space
    <2> HIDE DEF c
    <2>6. Mem("c") + 1 \in Nat /\ Mem("c") + 1 >= Mem("c")
      BY <2>5
    <2>7. \/ Mem("m") = 2
          \/ Mem("m") # 2 /\ pc[t] # "xchg"
      BY <2>1
    <2>8. QED
      BY <1>1, <2>1, <2>3, <2>4, <2>6, <2>7, UserMove DEF Label
  <1>10. QED
    BY <1>2, <1>3, <1>4, <1>5, <1>6, <1>7, <1>8, <1>9 DEF Begin

-----------------------------------------------------------------------------
(* A step that leaves the list alone and does not touch its sleepers,      *)
(* unless to kill them, and puts nobody to sleep.                          *)
LEMMA QueueKept ==
    ASSUME PthreadInv, UNCHANGED waiters,
           \A i \in DOMAIN waiters :
              LET t == waiters[i].task IN /\ pc'[t] = pc[t] /\ call'[t] = call[t]
                                          /\ state'[t] = state[t] \/ state'[t] = "DEAD",
           \A t \in Task : state'[t] = "BLOCKED" => state[t] = "BLOCKED"
    PROVE  QueueInv'
  <1>1. QueueInv
    BY DEF PthreadInv
  <1>2. \A i \in DOMAIN waiters :
           LET t == waiters[i].task IN Asleep(waiters[i], pc'[t], call'[t], state'[t])
    BY <1>1 DEF QueueInv, NodeOfSleeper, Asleep
  <1>3. QED
    BY <1>1, <1>2 DEF QueueInv, NodeOfSleeper

(* The broadcasts stay behind while the list and the sleepers' sequence    *)
(* numbers stay as they are.                                               *)
LEMMA SweptKept ==
    ASSUME PthreadInv, UNCHANGED <<waiters, swept>>,
           \A i \in DOMAIN waiters : seq'[waiters[i].task] = seq[waiters[i].task],
           word' \in [Space -> [Addr -> Nat]],
           \A s \in Space : word'[s]["c"] >= word[s]["c"]
    PROVE  SweptInv'
  <1>1. /\ swept \in [Space -> Nat] /\ \A s \in Space : swept[s] <= word[s]["c"]
        /\ BroadcastMissesNobody /\ word \in [Space -> [Addr -> Nat]] /\ "c" \in Addr
    BY PthreadAssumption DEF PthreadInv, SweptInv, LockInv, Types
  <1>2. \A s \in Space : swept'[s] <= word'[s]["c"]
    <2> TAKE s \in Space
    <2>1. /\ swept[s] \in Nat /\ word[s]["c"] \in Nat /\ word'[s]["c"] \in Nat
          /\ swept[s] <= word[s]["c"] /\ word'[s]["c"] >= word[s]["c"] /\ swept'[s] = swept[s]
      BY <1>1
    <2>2. QED
      BY <2>1
  <1>3. BroadcastMissesNobody'
    BY <1>1 DEF BroadcastMissesNobody, Queued
  <1>4. QED
    BY <1>1, <1>2, <1>3 DEF SweptInv

(* In kernel mode, or between instructions, no thread moves. *)
LEMMA ThreadsKept ==
    ASSUME PthreadInv, UNCHANGED <<word, waiters, pc, call, seq, swept>>,
           \A t \in Task : state'[t] = "BLOCKED" => state[t] = "BLOCKED",
           \A i \in DOMAIN waiters :
              LET t == waiters[i].task IN state'[t] = state[t] \/ state'[t] = "DEAD"
    PROVE  QueueInv' /\ CallShape' /\ SweptInv'
  <1>1. QueueInv'
    BY QueueKept
  <1>2. CallShape'
    BY DEF PthreadInv, CallShape
  <1>3. word' \in [Space -> [Addr -> Nat]] /\ \A s \in Space : word'[s]["c"] >= word[s]["c"]
    BY PthreadAssumption DEF PthreadInv, LockInv, Types
  <1>4. QED
    BY <1>1, <1>2, <1>3, SweptKept

(* The task on the CPU is no sleeper, and every task exists. *)
LEMMA RunningTask ==
    ASSUME PthreadInv
    PROVE  /\ current \in Task /\ state[current] = "RUNNING"
           /\ state \in [Task -> TaskState] /\ next_id = MaxTasks + 1
           /\ Created = Task /\ Idle \in Task /\ Idle \notin UserTask /\ UserTask \subseteq Task
           /\ state[Idle] # "BLOCKED"
  <1> USE SchedAssumption
  <1>1. /\ current \in Task /\ state[current] = "RUNNING" /\ state \in [Task -> TaskState]
        /\ next_id = MaxTasks + 1
    BY DEF PthreadInv, SchedInv, SchedTypeOK, OneRunning
  <1>2. Created = Task
    BY <1>1 DEF Created, PthreadInv, SchedInv, IdsInOrder, Task
  <1>3. Idle \in Task /\ Idle \notin UserTask /\ UserTask \subseteq Task
    BY DEF Idle, Task, UserTask
  <1>4. state[Idle] # "BLOCKED"
    BY <1>3, SleepersDoNotRun DEF PthreadInv, QueueInv
  <1>5. QED
    BY <1>1, <1>2, <1>3, <1>4

(* The timer moves READY and RUNNING tasks only. *)
LEMMA PreemptStep ==
    ASSUME PthreadInv, Preempt
    PROVE  /\ SchedInv' /\ UNCHANGED <<next_id, word, waiters, pc, call, seq, swept>>
           /\ \A t \in Task : state'[t] = "BLOCKED" => state[t] = "BLOCKED"
           /\ \A i \in DOMAIN waiters :
                 LET t == waiters[i].task IN state'[t] = state[t] \/ state'[t] = "DEAD"
           /\ \A t \in Task \ {Idle} : state[t] = "DEAD" => state'[t] = "DEAD"
  <1>1. Tick /\ UNCHANGED <<next_id, word, waiters, pc, call, seq, swept>>
    BY DEF Preempt, Tick, futexVars, threadVars
  <1>2. state = [state EXCEPT ![current] = "RUNNING"] /\ SchedInv
    BY RunningTask DEF PthreadInv
  <1>3. sched_yield([state EXCEPT ![current] = "RUNNING"])
    BY <1>1, <1>2 DEF Tick, sched_tick, sched_yield
  <1>4. /\ state'[current] \in {"RUNNING", "READY"}
        /\ \A t \in Task \ {current} :
              \/ state'[t] = state[t]
              \/ state'[t] = "RUNNING" /\ (t = Idle \/ state[t] = "READY")
    BY <1>2, <1>3, SwitchEffect
  <1>5. /\ SchedInv'
        /\ \A t \in Task \ {Idle} : state[t] = "DEAD" => state'[t] = "DEAD"
    BY <1>1, <1>2, SchedStep DEF SchedNext
  <1>6. \A t \in Task : state'[t] = "BLOCKED" => state[t] = "BLOCKED"
    BY <1>4
  <1>7. \A i \in DOMAIN waiters : state'[waiters[i].task] = state[waiters[i].task]
    BY <1>4, SleepersDoNotRun DEF NodeOfSleeper, Asleep
  <1>8. QED
    BY <1>1, <1>5, <1>6, <1>7

(* A kill makes one task dead, asleep or not. *)
LEMMA KillStep ==
    ASSUME PthreadInv, NEW t \in UserTask, NEW v \in Killable, sys_kill(t, v)
    PROVE  /\ SchedInv' /\ UNCHANGED <<next_id, word, waiters, pc, call, seq, swept>>
           /\ \A u \in Task : state'[u] = "BLOCKED" => state[u] = "BLOCKED"
           /\ \A i \in DOMAIN waiters :
                 LET u == waiters[i].task IN state'[u] = state[u] \/ state'[u] = "DEAD"
           /\ \A u \in Task : state[u] = "DEAD" => state'[u] = "DEAD"
  <1>1. /\ current = t /\ v # t /\ state' = sched_mark_task_dead(v)
        /\ UNCHANGED <<current, next, next_id, mode, word, waiters, pc, call, seq, swept>>
    BY DEF sys_kill, At, futexVars, threadVars
  <1>2. v \in Created \ {current}
    BY <1>1, RunningTask, PthreadAssumption
  <1>3. SchedInv' /\ state'[v] = "DEAD" /\ \A u \in Task \ {v} : state'[u] = state[u]
    BY <1>1, <1>2, MarkKeepsInv DEF PthreadInv
  <1>4. QED
    BY <1>1, <1>3, SleepersDoNotRun

(* Entry and return of the system call leave the scheduler's tasks alone.  *)
LEMMA EnterStep ==
    ASSUME PthreadInv, NEW t \in UserTask, EnterFutex(t)
    PROVE  /\ SchedInv' /\ UNCHANGED <<next_id, state, word, waiters, pc, call, seq, swept>>
  <1>1. SyscallEnter /\ UNCHANGED <<word, waiters, pc, call, seq, swept>>
    BY DEF EnterFutex, futexVars, threadVars
  <1>2. SchedInv'
    BY <1>1, SchedStep DEF PthreadInv, SchedNext
  <1>3. QED
    BY <1>1, <1>2 DEF SyscallEnter

(* A return from the system call moves one thread back to user code.       *)
LEMMA LeaveStep ==
    ASSUME PthreadInv, NEW t \in UserTask, LeaveFutex(t)
    PROVE  /\ SchedInv' /\ UNCHANGED <<next_id, state, word, waiters, seq, swept>>
           /\ current = t /\ pc[t] = "ret"
           /\ pc'[t] = call[t].then /\ call'[t] = NoCall
           /\ \A u \in UserTask \ {t} : pc'[u] = pc[u] /\ call'[u] = call[u]
           /\ QueueInv' /\ CallShape' /\ SweptInv'
  <1>1. /\ SyscallExit /\ UNCHANGED <<word, waiters, seq, swept>> /\ current = t /\ pc[t] = "ret"
        /\ pc' = [pc EXCEPT ![t] = call[t].then] /\ call' = [call EXCEPT ![t] = NoCall]
    BY DEF LeaveFutex, futexVars, Goto
  <1>2. SchedInv' /\ UNCHANGED <<next_id, state>>
    BY <1>1, SchedStep DEF PthreadInv, SchedNext, SyscallExit
  <1>3. /\ pc'[t] = call[t].then /\ call'[t] = NoCall
        /\ \A u \in UserTask \ {t} : pc'[u] = pc[u] /\ call'[u] = call[u]
    BY <1>1 DEF PthreadInv, LockInv, Types
  <1>4. QueueInv'
    BY <1>1, <1>2, <1>3, SleepersDoNotRun, QueueKept
  <1>5. CallShape'
    <2>1. ShapeOK(NoCall, seq[t])
      BY DEF ShapeOK, NoCall
    <2>2. QED
      BY <1>1, <1>3, <2>1 DEF PthreadInv, CallShape
  <1>6. word' \in [Space -> [Addr -> Nat]] /\ \A s \in Space : word'[s]["c"] >= word[s]["c"]
    BY <1>1, PthreadAssumption DEF PthreadInv, LockInv, Types
  <1>7. SweptInv'
    BY <1>1, <1>6, SweptKept
  <1>8. QED
    BY <1>1, <1>2, <1>3, <1>4, <1>5, <1>7

(* futex_wait: the caller goes to sleep with a node of its own. *)
LEMMA SleepStep ==
    ASSUME PthreadInv, NEW t \in UserTask, DoFutex(t), call[t].kind = "wait",
           Mem(call[t].addr) = call[t].val, futex_wait_queue(call[t].addr), UNCHANGED swept
    PROVE  /\ SchedInv' /\ next_id' = next_id
           /\ waiters' = <<[uaddr |-> call[t].addr, task |-> t]>> \o waiters
           /\ \A u \in Task \ {t} : state'[u] = "BLOCKED" <=> state[u] = "BLOCKED"
           /\ \A u \in Task \ {Idle} : state[u] = "DEAD" => state'[u] = "DEAD"
           /\ QueueInv' /\ SweptInv'
  <1> DEFINE w == [uaddr |-> call[t].addr, task |-> t]
  <1>1. /\ current = t /\ mode[t] = "syscall" /\ pc[t] = "call"
        /\ pc' = [pc EXCEPT ![t] = "ret"] /\ UNCHANGED <<call, seq, word, next, next_id, mode>>
        /\ waiters' = <<w>> \o waiters /\ task_block
    BY DEF DoFutex, futex_wait_queue, Goto
  <1>2. Block /\ InSyscall
    BY <1>1 DEF Block, InSyscall
  <1>3. /\ SchedInv'
        /\ \A u \in Task \ {Idle} : state[u] = "DEAD" => state'[u] = "DEAD"
    BY <1>2, SchedStep DEF PthreadInv, SchedNext
  <1>4. /\ state'[t] = "BLOCKED"
        /\ \A u \in Task \ {t} :
              \/ state'[u] = state[u]
              \/ state'[u] = "RUNNING" /\ (u = Idle \/ state[u] = "READY")
    BY <1>1, SwitchEffect, RunningTask DEF task_block, PthreadInv
  <1>5. /\ pc'[t] = "ret" /\ call[t].addr \in {"m", "c"}
        /\ \A u \in UserTask \ {t} : pc'[u] = pc[u]
    BY <1>1 DEF PthreadInv, LockInv, Types, FutexCall
  <1>6. w \in Node
    BY <1>5 DEF Node
  <1>7. /\ waiters \in Seq(Node) /\ DOMAIN waiters = 1..Len(waiters) /\ Len(waiters) \in Nat
        /\ DistinctTasks(waiters)
    BY DEF PthreadInv, QueueInv
  <1> HIDE DEF w
  <1>8. /\ waiters' \in Seq(Node) /\ DOMAIN waiters' = 1..(Len(waiters) + 1)
        /\ waiters'[1] = w /\ \A i \in 2..(Len(waiters) + 1) : waiters'[i] = waiters[i - 1]
    BY <1>1, <1>6, <1>7
  <1>9. w.uaddr = call[t].addr /\ w.task = t
    BY DEF w
  <1>10. \A i \in DOMAIN waiters : waiters[i].task # t /\ NodeOfSleeper(waiters[i])
    BY <1>1, SleepersDoNotRun
  <1>11. DistinctTasks(waiters')
    <2> SUFFICES ASSUME NEW i \in DOMAIN waiters', NEW j \in DOMAIN waiters',
                        waiters'[i].task = waiters'[j].task
                 PROVE  i = j
      BY DEF DistinctTasks
    <2>1. CASE i = 1 /\ j = 1
      BY <2>1
    <2>2. CASE i = 1 /\ j # 1
      <3>1. j - 1 \in DOMAIN waiters /\ waiters'[j] = waiters[j - 1] /\ waiters'[1] = w
        BY <1>7, <1>8, <2>2
      <3>2. QED
        BY <1>9, <1>10, <2>2, <3>1
    <2>3. CASE i # 1 /\ j = 1
      <3>1. i - 1 \in DOMAIN waiters /\ waiters'[i] = waiters[i - 1] /\ waiters'[1] = w
        BY <1>7, <1>8, <2>3
      <3>2. QED
        BY <1>9, <1>10, <2>3, <3>1
    <2>4. CASE i # 1 /\ j # 1
      <3>1. /\ i - 1 \in DOMAIN waiters /\ waiters'[i] = waiters[i - 1]
            /\ j - 1 \in DOMAIN waiters /\ waiters'[j] = waiters[j - 1]
        BY <1>7, <1>8, <2>4
      <3>2. i - 1 = j - 1
        BY <1>7, <3>1 DEF DistinctTasks
      <3>3. QED
        BY <1>7, <1>8, <3>2
    <2>5. QED
      BY <2>1, <2>2, <2>3, <2>4
  <1>12. \A i \in DOMAIN waiters' :
            waiters'[i] = w \/ \E j \in DOMAIN waiters : waiters'[i] = waiters[j]
    <2> TAKE i \in DOMAIN waiters'
    <2>1. CASE i = 1
      BY <1>8, <2>1
    <2>2. CASE i # 1
      <3>1. i - 1 \in DOMAIN waiters /\ waiters'[i] = waiters[i - 1]
        BY <1>7, <1>8, <2>2
      <3>2. QED
        BY <3>1
    <2>3. QED
      BY <2>1, <2>2
  <1>13. \A j \in DOMAIN waiters : \E i \in DOMAIN waiters' : waiters'[i] = waiters[j]
    <2> TAKE j \in DOMAIN waiters
    <2>1. j + 1 \in DOMAIN waiters' /\ waiters'[j + 1] = waiters[j]
      BY <1>7, <1>8
    <2>2. QED
      BY <2>1
  <1>14. \E i \in DOMAIN waiters' : waiters'[i] = w
    <2>1. 1 \in DOMAIN waiters'
      BY <1>7, <1>8
    <2>2. QED
      BY <1>8, <2>1
  <1>15. \A j \in DOMAIN waiters :
            LET u == waiters[j].task IN Asleep(waiters[j], pc'[u], call'[u], state'[u])
    <2> TAKE j \in DOMAIN waiters
    <2> DEFINE u == waiters[j].task
    <2>1. u \in UserTask /\ u \in Task /\ u # t /\ u # Idle /\ state[u] \in {"BLOCKED", "DEAD"}
      BY <1>1, SleepersDoNotRun DEF NodeOfSleeper, Asleep
    <2>2. state'[u] = state[u] /\ pc'[u] = pc[u] /\ call'[u] = call[u]
      BY <1>1, <1>4, <1>5, <2>1
    <2>3. QED
      BY <1>10, <2>2 DEF NodeOfSleeper, Asleep
  <1>16. Asleep(w, pc'[t], call'[t], state'[t])
    BY <1>1, <1>4, <1>5, <1>9 DEF Asleep
  <1>17. QueueInv'
    <2>1. \A i \in DOMAIN waiters' :
             LET u == waiters'[i].task IN Asleep(waiters'[i], pc'[u], call'[u], state'[u])
      BY <1>9, <1>12, <1>15, <1>16
    <2>2. \A u \in Task : state'[u] = "BLOCKED" =>
             \E i \in DOMAIN waiters' : waiters'[i].task = u
      <3> TAKE u \in Task
      <3>1. CASE u = t
        BY <1>9, <1>14, <3>1
      <3>2. CASE u # t
        BY <1>4, <1>13, <3>2 DEF PthreadInv, QueueInv
      <3>3. QED
        BY <3>1, <3>2
    <2>3. QED
      BY <1>8, <1>11, <2>1, <2>2 DEF QueueInv, NodeOfSleeper
  <1>18. SweptInv'
    <2>1. /\ swept \in [Space -> Nat] /\ \A s \in Space : swept[s] <= word[s]["c"]
          /\ BroadcastMissesNobody /\ SpaceOf[t] \in Space
      BY DEF PthreadInv, SweptInv, Space
    <2>2. call[t].addr = "c" => seq[t] = word[SpaceOf[t]]["c"]
      BY <1>1 DEF PthreadInv, CallShape, ShapeOK, Mem
    <2>3. \A u \in Queued("c")' : u \in Queued("c") \/ (u = t /\ call[t].addr = "c")
      BY <1>9, <1>12 DEF Queued
    <2>4. \A u \in Queued("c")' : seq[u] >= swept[SpaceOf[u]]
      <3> TAKE u \in Queued("c")'
      <3>1. CASE u \in Queued("c")
        BY <2>1, <3>1 DEF BroadcastMissesNobody
      <3>2. CASE u = t /\ call[t].addr = "c"
        <4>1. /\ swept[SpaceOf[t]] <= word[SpaceOf[t]]["c"]
              /\ seq[t] = word[SpaceOf[t]]["c"]
              /\ seq[t] \in Nat /\ swept[SpaceOf[t]] \in Nat
          BY <2>1, <2>2, <3>2 DEF PthreadInv, LockInv, Types
        <4>2. QED
          BY <3>2, <4>1
      <3>3. QED
        BY <2>3, <3>1, <3>2
    <2>5. QED
      BY <1>1, <2>1, <2>4 DEF SweptInv, BroadcastMissesNobody
  <1>19. \A u \in Task \ {t} : state'[u] = "BLOCKED" <=> state[u] = "BLOCKED"
    BY <1>4, RunningTask
  <1>20. QED
    BY <1>1, <1>3, <1>17, <1>18, <1>19 DEF w

(* futex_wake: the tasks of the unlinked nodes wake, no others. *)
LEMMA WakeStep ==
    ASSUME PthreadInv, NEW t \in UserTask, DoFutex(t), call[t].kind = "wake",
           futex_wake(call[t].addr, call[t].val), swept' = Sweep(t)
    PROVE  /\ SchedInv' /\ next_id' = next_id
           /\ \A u \in Task : state[u] = "DEAD" => state'[u] = "DEAD"
           /\ QueueInv' /\ SweptInv'
  <1> DEFINE a == call[t].addr
             n == call[t].val
             W == Woken(a, n)
  <1>1. /\ current = t /\ mode[t] = "syscall" /\ pc[t] = "call"
        /\ pc' = [pc EXCEPT ![t] = "ret"] /\ UNCHANGED <<call, seq, word>>
        /\ UNCHANGED <<current, next, next_id, mode>> /\ state' = task_unblock(W)
    BY DEF DoFutex, futex_wake, Goto
  <1>2. a \in {"m", "c"} /\ n \in Nat /\ waiters \in Seq(Node) /\ DistinctTasks(waiters)
    BY DEF PthreadInv, LockInv, Types, FutexCall, QueueInv
  <1> HIDE DEF a, n
  <1>3. /\ \A u \in W : \E i \in DOMAIN waiters :
              waiters[i].task = u /\ waiters[i].uaddr = a
        /\ n = Everyone => \A i \in DOMAIN waiters :
              waiters[i].uaddr = a => waiters[i].task \in W
    BY <1>2, WokenAre
  <1>4. /\ waiters' \in Seq(Node)
        /\ DistinctTasks(waiters')
        /\ \A i \in DOMAIN waiters' : \E j \in DOMAIN waiters :
              waiters'[i] = waiters[j] /\ waiters[j].task \notin W
        /\ \A j \in DOMAIN waiters : waiters[j].task \notin W =>
              \E i \in DOMAIN waiters' : waiters'[i] = waiters[j]
        /\ \A u \in Task : state'[u] = IF u \in W /\ state[u] = "BLOCKED"
                                       THEN "READY" ELSE state[u]
    BY <1>2, QueueAfterWake DEF a, n
  <1> HIDE DEF W
  <1>5. W \subseteq Created
    BY <1>3, SleepersDoNotRun, RunningTask
  <1>6. SchedInv'
    <2>1. Unblock
      BY <1>1, <1>5 DEF Unblock, InSyscall
    <2>2. QED
      BY <2>1, SchedStep DEF PthreadInv, SchedNext
  <1>7. QueueInv'
    <2>1. \A j \in DOMAIN waiters : waiters[j].task \notin W =>
             LET u == waiters[j].task IN Asleep(waiters[j], pc'[u], call'[u], state'[u])
      <3> SUFFICES ASSUME NEW j \in DOMAIN waiters, waiters[j].task \notin W
                   PROVE  LET u == waiters[j].task
                          IN  Asleep(waiters[j], pc'[u], call'[u], state'[u])
        OBVIOUS
      <3> DEFINE u == waiters[j].task
      <3>1. u \in Task /\ u \in UserTask /\ NodeOfSleeper(waiters[j]) /\ u # t
        BY <1>1, SleepersDoNotRun
      <3>2. pc'[u] = pc[u] /\ call'[u] = call[u] /\ state'[u] = state[u]
        BY <1>1, <1>4, <3>1 DEF PthreadInv, LockInv, Types
      <3>3. QED
        BY <3>1, <3>2 DEF NodeOfSleeper
    <2>2. \A i \in DOMAIN waiters' :
             LET u == waiters'[i].task IN Asleep(waiters'[i], pc'[u], call'[u], state'[u])
      BY <1>4, <2>1
    <2>3. \A u \in Task : state'[u] = "BLOCKED" =>
             \E i \in DOMAIN waiters' : waiters'[i].task = u
      <3> SUFFICES ASSUME NEW u \in Task, state'[u] = "BLOCKED"
                   PROVE  \E i \in DOMAIN waiters' : waiters'[i].task = u
        OBVIOUS
      <3>1. state[u] = "BLOCKED" /\ u \notin W
        BY <1>4
      <3>2. PICK j \in DOMAIN waiters : waiters[j].task = u
        BY <3>1 DEF PthreadInv, QueueInv
      <3>3. QED
        BY <1>4, <3>1, <3>2
    <2>4. QED
      BY <1>4, <2>2, <2>3 DEF QueueInv, NodeOfSleeper
  <1>8. SweptInv'
    <2>1. /\ swept \in [Space -> Nat] /\ \A s \in Space : swept[s] <= word[s]["c"]
          /\ BroadcastMissesNobody /\ SpaceOf[t] \in Space
          /\ word \in [Space -> [Addr -> Nat]] /\ "c" \in Addr
      BY PthreadAssumption DEF PthreadInv, SweptInv, Space, LockInv, Types
    <2>2. \A u \in Queued("c")' : u \in Queued("c") /\ (a = "c" => n # Everyone)
      <3> TAKE u \in Queued("c")'
      <3>1. PICK i \in DOMAIN waiters' : waiters'[i].task = u /\ waiters'[i].uaddr = "c"
        BY DEF Queued
      <3>2. PICK j \in DOMAIN waiters : waiters'[i] = waiters[j] /\ waiters[j].task \notin W
        BY <1>4
      <3>3. QED
        BY <1>3, <3>1, <3>2 DEF Queued
    <2>3. CASE a = "c" /\ n = Everyone
      <3>1. swept' = [swept EXCEPT ![SpaceOf[t]] = word[SpaceOf[t]]["c"]]
        BY <1>1, <2>3 DEF Sweep, Mem, a, n
      <3>2. swept' \in [Space -> Nat] /\ \A s \in Space : swept'[s] <= word[s]["c"]
        BY <2>1, <3>1
      <3>3. QED
        BY <1>1, <2>2, <2>3, <3>2 DEF SweptInv, BroadcastMissesNobody
    <2>4. CASE ~(a = "c" /\ n = Everyone)
      <3>1. swept' = swept
        BY <2>4 DEF Sweep, a, n
      <3>2. QED
        BY <1>1, <2>1, <2>2, <3>1 DEF SweptInv, BroadcastMissesNobody
    <2>5. QED
      BY <2>3, <2>4
  <1>9. QED
    BY <1>1, <1>4, <1>6, <1>7, <1>8

(* Every step keeps the whole invariant, and the dead stay dead. *)
LEMMA PthreadInvStep ==
    ASSUME PthreadInv, [PthreadNext]_pthreadVars
    PROVE  PthreadInv' /\ \A u \in UserTask : state[u] = "DEAD" => state'[u] = "DEAD"
  <1>1. LockInv' /\ Types'
    <2>1. Types' /\ CallsReturn' /\ Effect
      BY PthreadStep DEF PthreadInv
    <2>2. WordTellsHolder'
      BY <2>1, EffectKeepsInv DEF Effect, PthreadInv, LockInv
    <2>3. QED
      BY <2>1, <2>2 DEF LockInv
  <1>2. \A u \in UserTask : u \in Task \ {Idle}
    BY RunningTask
  <1> DEFINE Rest3 == /\ SchedInv' /\ next_id' = next_id
                      /\ QueueInv' /\ CallShape' /\ SweptInv'
                      /\ \A u \in UserTask : state[u] = "DEAD" => state'[u] = "DEAD"
  <1>3. CASE UNCHANGED pthreadVars
    <2>1. UNCHANGED <<schedVars, word, waiters, pc, call, seq, swept>>
      BY <1>3 DEF pthreadVars, futexVars, threadVars
    <2>2. UNCHANGED <<state, next_id>> /\ SchedInv'
      BY <2>1, SchedStep DEF schedVars, PthreadInv
    <2>3. QED
      BY <1>1, <2>1, <2>2, ThreadsKept DEF PthreadInv
  <1>4. CASE Preempt
    BY <1>1, <1>2, <1>4, PreemptStep, ThreadsKept DEF PthreadInv
  <1>5. ASSUME NEW t \in UserTask, NEW v \in Killable, sys_kill(t, v)
        PROVE  PthreadInv' /\ \A u \in UserTask : state[u] = "DEAD" => state'[u] = "DEAD"
    BY <1>1, <1>2, <1>5, KillStep, ThreadsKept DEF PthreadInv
  <1>6. ASSUME NEW t \in UserTask,
               Begin(t) \/ Relock(t) \/ Xchg(t) \/ Unlock(t) \/ CondUnlock(t) \/ CondSleep(t)
        PROVE  PthreadInv' /\ \A u \in UserTask : state[u] = "DEAD" => state'[u] = "DEAD"
    <2>1. UserEffect(t)
      BY <1>6, UserStep
    <2>2. UNCHANGED <<state, next_id>> /\ SchedInv'
      BY <2>1, SchedStep DEF UserEffect, schedVars, PthreadInv
    <2>3. \A i \in DOMAIN waiters : waiters[i].task \in UserTask \ {t}
      BY <2>1, SleepersDoNotRun DEF UserEffect, NodeOfSleeper, Asleep
    <2>4. QueueInv'
      BY <2>1, <2>2, <2>3, QueueKept DEF UserEffect
    <2>5. CallShape'
      BY <2>1 DEF UserEffect, CallShape, PthreadInv
    <2>6. SweptInv'
      BY <1>1, <2>1, <2>3, SweptKept DEF UserEffect, Types
    <2>7. QED
      BY <1>1, <2>2, <2>4, <2>5, <2>6 DEF PthreadInv
  <1>7. ASSUME NEW t \in UserTask, EnterFutex(t)
        PROVE  PthreadInv' /\ \A u \in UserTask : state[u] = "DEAD" => state'[u] = "DEAD"
    BY <1>1, <1>7, EnterStep, ThreadsKept DEF PthreadInv
  <1>8. ASSUME NEW t \in UserTask, LeaveFutex(t)
        PROVE  PthreadInv' /\ \A u \in UserTask : state[u] = "DEAD" => state'[u] = "DEAD"
    BY <1>1, <1>8, LeaveStep DEF PthreadInv
  <1>9. ASSUME NEW t \in UserTask, DoFutex(t)
        PROVE  PthreadInv' /\ \A u \in UserTask : state[u] = "DEAD" => state'[u] = "DEAD"
    <2>1. UNCHANGED <<call, seq>> /\ CallShape'
      BY <1>9 DEF DoFutex, PthreadInv, CallShape
    <2>2. CASE call[t].kind = "wait" /\ futex_wait_queue(call[t].addr)
               /\ Mem(call[t].addr) = call[t].val /\ UNCHANGED swept
      BY <1>1, <1>2, <1>9, <2>1, <2>2, SleepStep DEF PthreadInv
    <2>3. CASE call[t].kind = "wait" /\ futex_wait_fails /\ UNCHANGED swept
      <3>1. /\ UNCHANGED <<schedVars, word, waiters, swept, call, seq>>
            /\ current = t /\ pc' = [pc EXCEPT ![t] = "ret"]
        BY <1>9, <2>1, <2>3 DEF futex_wait_fails, futexVars, DoFutex, Goto
      <3>2. UNCHANGED <<state, next_id>> /\ SchedInv'
        BY <3>1, SchedStep DEF schedVars, PthreadInv
      <3>3. \A i \in DOMAIN waiters : waiters[i].task \in UserTask \ {t}
        BY <3>1, SleepersDoNotRun
      <3>4. QueueInv'
        BY <3>1, <3>2, <3>3, QueueKept DEF PthreadInv, LockInv, Types
      <3>5. word' \in [Space -> [Addr -> Nat]] /\ \A s \in Space : word'[s]["c"] >= word[s]["c"]
        BY <3>1, PthreadAssumption DEF PthreadInv, LockInv, Types
      <3>6. SweptInv'
        BY <3>1, <3>5, SweptKept
      <3>7. QED
        BY <1>1, <2>1, <3>2, <3>4, <3>6 DEF PthreadInv
    <2>4. CASE /\ call[t].kind = "wake" /\ futex_wake(call[t].addr, call[t].val)
               /\ swept' = Sweep(t)
      BY <1>1, <1>2, <1>9, <2>1, <2>4, WakeStep DEF PthreadInv
    <2>5. QED
      BY <1>9, <2>2, <2>3, <2>4 DEF DoFutex, futex_wait
  <1>10. QED
    BY <1>3, <1>4, <1>2, PreemptStep, <1>5, <1>6, <1>7, <1>8, <1>9 DEF PthreadNext, Advance

(* The invariant holds at the start.                                       *)
LEMMA PthreadInitAll == PthreadInit => PthreadInv
  <1> SUFFICES ASSUME PthreadInit PROVE PthreadInv
    OBVIOUS
  <1> USE SchedAssumption
  <1>1. LockInv
    BY PthreadInitInv
  <1>2. SchedInv /\ next_id = MaxTasks + 1
    <2>1. /\ Boot = 1 /\ Idle = 2 /\ 1 \in Task /\ 2 \in Task /\ MaxTasks \in Nat
          /\ MaxTasks >= 3
      BY DEF Boot, Idle, Task
    <2>2. SchedTypeOK
      BY <2>1 DEF PthreadInit, SchedTypeOK, Task, TaskState
    <2>3. OneRunning /\ KernelTasksRun /\ IdsInOrder
      BY <2>1 DEF PthreadInit, OneRunning, KernelTasksRun, IdsInOrder, Task
    <2>4. QED
      BY <2>2, <2>3 DEF SchedInv, PthreadInit
  <1>3. waiters = <<>> /\ \A t \in Task : state[t] # "BLOCKED"
    BY DEF PthreadInit
  <1>4. QueueInv
    BY <1>3 DEF QueueInv, DistinctTasks
  <1>5. CallShape
    BY DEF PthreadInit, CallShape, ShapeOK, NoCall
  <1>6. SweptInv
    BY <1>3, PthreadAssumption DEF PthreadInit, SweptInv, BroadcastMissesNobody, Queued
  <1>7. QED
    BY <1>1, <1>2, <1>4, <1>5, <1>6 DEF PthreadInv

(* Threads, futex queue and scheduler agree in every reachable state. *)
THEOREM PthreadInvariant == PthreadSpec => []PthreadInv
  <1>1. PthreadInv /\ [PthreadNext]_pthreadVars => PthreadInv'
    BY PthreadInvStep
  <1>2. QED
    BY PthreadInitAll, <1>1, PTL DEF PthreadSpec

(* The futex queue holds the sleepers, each once, and nobody else but      *)
(* tasks killed in their sleep.                                            *)
THEOREM SleepersAreQueued == PthreadSpec => []QueueIsSleepers
  <1>1. PthreadInv => QueueIsSleepers
    <2> SUFFICES ASSUME PthreadInv PROVE QueueIsSleepers
      OBVIOUS
    <2> DEFINE queued == Queued("m") \cup Queued("c")
               n == Len(waiters)
               f == [i \in 1..n |-> waiters[i].task]
    <2>1. /\ waiters \in Seq(Node) /\ DistinctTasks(waiters) /\ n \in Nat
          /\ DOMAIN waiters = 1..n
      BY DEF PthreadInv, QueueInv
    <2>2. \A i \in 1..n : waiters[i].uaddr \in {"m", "c"}
      BY <2>1, SleepersDoNotRun DEF Node
    <2>3. queued = {waiters[i].task : i \in 1..n}
      BY <2>1, <2>2 DEF Queued
    <2> HIDE DEF queued, n
    <2>4. {t \in Task : state[t] = "BLOCKED"} \subseteq queued
      BY <2>1, <2>3 DEF PthreadInv, QueueInv
    <2>5. \A t \in queued : state[t] \in {"BLOCKED", "DEAD"}
      BY <2>1, <2>3, SleepersDoNotRun DEF NodeOfSleeper, Asleep
    <2>6. Cardinality(queued) = n
      <3>1. f \in Bijection(1..n, queued)
        BY <2>1, <2>3 DEF Bijection, Injection, Surjection, IsInjective, DistinctTasks
      <3>2. IsFiniteSet(1..n) /\ Cardinality(1..n) = n
        BY <2>1, FS_Interval
      <3> HIDE DEF f
      <3>3. ExistsBijection(1..n, queued)
        BY <3>1 DEF ExistsBijection
      <3>4. QED
        BY <3>2, <3>3, FS_Bijection
    <2>7. QED
      BY <2>4, <2>5, <2>6 DEF QueueIsSleepers, queued, n
  <1>2. QED
    BY PthreadInvariant, <1>1, PTL

(* No broadcast leaves a thread asleep that had begun to wait before it. *)
THEOREM BroadcastIsHeard == PthreadSpec => []BroadcastMissesNobody
  <1>1. PthreadInv => BroadcastMissesNobody
    BY DEF PthreadInv, SweptInv
  <1>2. QED
    BY PthreadInvariant, <1>1, PTL

-----------------------------------------------------------------------------
(* What a sleeper on the mutex relies on. *)
Prompt(s) == \/ word[s]["m"] = 2
             \/ \E u \in UserTask : SpaceOf[u] = s /\ Waker(u)
             \/ Casualty(s)

(* The invariant, in these words. *)
LEMMA NoLostWakeupIs == NoLostWakeup <=> \A t \in Queued("m") : Prompt(SpaceOf[t])
  BY DEF NoLostWakeup, Prompt, Waker

(* Wakers that are not at work stay wakers, and casualties casualties. *)
LEMMA PromptKept ==
    ASSUME NEW s, Prompt(s), word'[s]["m"] = word[s]["m"],
           \A u \in UserTask : state[u] = "DEAD" => state'[u] = "DEAD",
           \A u \in UserTask : SpaceOf[u] = s /\ Waker(u) => Waker(u)'
    PROVE  Prompt(s)'
  BY DEF Prompt, Casualty

(* Every step leaves a sleeper on the mutex something to rely on, in a     *)
(* machine where all threads are of one process.                           *)
LEMMA PromptStep ==
    ASSUME \A t, u \in UserTask : SpaceOf[t] = SpaceOf[u],
           PthreadInv, NoLostWakeup, [PthreadNext]_pthreadVars
    PROVE  NoLostWakeup'
  <1>1. \A u \in UserTask : state[u] = "DEAD" => state'[u] = "DEAD"
    BY PthreadInvStep
  <1>2. \A t \in Queued("m") : t \in UserTask /\ Prompt(SpaceOf[t])
    BY NoLostWakeupIs, SleepersDoNotRun DEF Queued
  <1>3. \A t \in UserTask : SpaceOf[t] \in Space
    BY DEF Space
  <1>4. \A u \in UserTask : u \in Task /\ u # Idle
    BY RunningTask
  <1>5. SUFFICES ASSUME NEW t0 \in Queued("m")' PROVE Prompt(SpaceOf[t0])'
    BY DEF NoLostWakeup, Prompt, Waker
  <1>6. ASSUME UNCHANGED <<word, pc, call, waiters>>,
               \A u \in Task : state'[u] = "BLOCKED" => state[u] = "BLOCKED"
        PROVE  Prompt(SpaceOf[t0])'
    <2>1. t0 \in Queued("m")
      BY <1>6 DEF Queued
    <2>2. \A u \in UserTask : Waker(u) => Waker(u)'
      BY <1>4, <1>6 DEF Waker
    <2>3. QED
      BY <1>1, <1>2, <1>6, <2>1, <2>2, PromptKept
  <1>7. CASE UNCHANGED pthreadVars
    BY <1>6, <1>7 DEF pthreadVars, futexVars, threadVars, schedVars
  <1>8. CASE Preempt
    BY <1>6, <1>8, PreemptStep
  <1>9. ASSUME NEW t \in UserTask, NEW v \in Killable, sys_kill(t, v)
        PROVE  Prompt(SpaceOf[t0])'
    BY <1>6, <1>9, KillStep
  <1>10. ASSUME NEW t \in UserTask,
                Begin(t) \/ Relock(t) \/ Xchg(t) \/ Unlock(t) \/ CondUnlock(t) \/ CondSleep(t)
         PROVE  Prompt(SpaceOf[t0])'
    <2>1. UserEffect(t)
      BY <1>10, UserStep
    <2>2. t0 \in Queued("m") /\ t0 \in UserTask /\ SpaceOf[t0] = SpaceOf[t]
      BY <1>2, <2>1 DEF UserEffect, Queued
    <2>3. UNCHANGED state
      BY <2>1 DEF UserEffect, schedVars
    <2>4. CASE word'[SpaceOf[t]]["m"] = 2 \/ Waker(t)'
      BY <2>2, <2>4 DEF Prompt
    <2>5. CASE word[SpaceOf[t]]["m"] # 2 /\ pc[t] # "xchg"
      <3>1. ~Waker(t)
        BY <2>1, <2>5 DEF UserEffect, Waker
      <3>2. (\E u \in UserTask \ {t} : SpaceOf[u] = SpaceOf[t] /\ Waker(u)) \/ Casualty(SpaceOf[t])
        BY <1>2, <2>2, <2>5, <3>1 DEF Prompt
      <3>3. \A u \in UserTask \ {t} : Waker(u) => Waker(u)'
        BY <2>1, <2>3 DEF UserEffect, Waker
      <3>4. Casualty(SpaceOf[t]) => Casualty(SpaceOf[t])'
        BY <2>3 DEF Casualty
      <3>5. QED
        BY <2>2, <3>2, <3>3, <3>4 DEF Prompt
    <2>6. QED
      BY <2>1, <2>4, <2>5 DEF UserEffect
  <1>11. ASSUME NEW t \in UserTask, EnterFutex(t)
         PROVE  Prompt(SpaceOf[t0])'
    BY <1>6, <1>11, EnterStep
  <1>12. ASSUME NEW t \in UserTask, LeaveFutex(t)
         PROVE  Prompt(SpaceOf[t0])'
    <2>1. /\ UNCHANGED <<state, word, waiters>>
          /\ pc[t] = "ret" /\ pc'[t] = call[t].then
          /\ \A u \in UserTask \ {t} : pc'[u] = pc[u] /\ call'[u] = call[u]
      BY <1>12, LeaveStep
    <2>2. t0 \in Queued("m")
      BY <2>1 DEF Queued
    <2>3. \A u \in UserTask : Waker(u) => Waker(u)'
      BY <2>1 DEF Waker
    <2>4. QED
      BY <1>1, <1>2, <2>1, <2>2, <2>3, PromptKept
  <1>13. ASSUME NEW t \in UserTask, DoFutex(t)
         PROVE  Prompt(SpaceOf[t0])'
    <2>1. /\ current = t /\ pc[t] = "call" /\ pc'[t] = "ret" /\ UNCHANGED <<call, word>>
          /\ \A u \in UserTask \ {t} : pc'[u] = pc[u]
          /\ call[t].addr \in {"m", "c"} /\ ShapeOK(call[t], seq[t])
      <3>1. /\ current = t /\ pc[t] = "call" /\ pc' = [pc EXCEPT ![t] = "ret"] /\ UNCHANGED call
        BY <1>13 DEF DoFutex, Goto
      <3>2. UNCHANGED word
        BY <1>13 DEF DoFutex, futex_wait, futex_wait_queue, futex_wait_fails, futex_wake,
                     futexVars
      <3>3. QED
        BY <3>1, <3>2 DEF PthreadInv, LockInv, Types, FutexCall, CallShape
    <2>2. ASSUME \A u \in UserTask \ {t} : state'[u] = "BLOCKED" => state[u] = "BLOCKED",
                 ~Waker(t), t0 \in Queued("m")
          PROVE  Prompt(SpaceOf[t0])'
      <3>1. \A u \in UserTask : Waker(u) => Waker(u)'
        BY <2>1, <2>2 DEF Waker
      <3>2. QED
        BY <1>1, <1>2, <2>1, <2>2, <3>1, PromptKept
    <2>3. CASE call[t].kind = "wait" /\ futex_wait_queue(call[t].addr)
               /\ Mem(call[t].addr) = call[t].val /\ UNCHANGED swept
      <3>1. /\ waiters' = <<[uaddr |-> call[t].addr, task |-> t]>> \o waiters
            /\ \A u \in Task \ {t} : state'[u] = "BLOCKED" <=> state[u] = "BLOCKED"
        BY <1>13, <2>3, SleepStep
      <3>2. ~Waker(t)
        BY <2>1, <2>3 DEF Waker
      <3>3. t0 \in Queued("m") \/ (t0 = t /\ call[t].addr = "m")
        <4> DEFINE w == [uaddr |-> call[t].addr, task |-> t]
        <4>1. w.uaddr = call[t].addr /\ w.task = t /\ w \in Node
          BY <2>1 DEF Node
        <4> HIDE DEF w
        <4>2. waiters \in Seq(Node) /\ waiters' = <<w>> \o waiters
          BY <3>1 DEF PthreadInv, QueueInv, w
        <4>3. PICK i \in DOMAIN waiters' : waiters'[i].uaddr = "m" /\ waiters'[i].task = t0
          BY DEF Queued
        <4>4. waiters'[i] = w \/ \E j \in DOMAIN waiters : waiters'[i] = waiters[j]
          BY <4>1, <4>2, <4>3
        <4>5. QED
          BY <4>1, <4>3, <4>4 DEF Queued
      <3>4. CASE t0 \in Queued("m")
        BY <1>4, <2>2, <3>1, <3>2, <3>4
      <3>5. CASE t0 = t /\ call[t].addr = "m"
        <4>1. word'[SpaceOf[t0]]["m"] = 2
          BY <2>1, <2>3, <3>5 DEF ShapeOK, Mem
        <4>2. QED
          BY <4>1 DEF Prompt
      <3>6. QED
        BY <3>3, <3>4, <3>5
    <2>4. CASE call[t].kind = "wait" /\ futex_wait_fails /\ UNCHANGED swept
      <3>1. UNCHANGED <<state, waiters>> /\ ~Waker(t)
        BY <2>1, <2>4 DEF futex_wait_fails, schedVars, futexVars, Waker
      <3>2. t0 \in Queued("m")
        BY <3>1 DEF Queued
      <3>3. QED
        BY <2>2, <3>1, <3>2
    <2>5. CASE /\ call[t].kind = "wake" /\ futex_wake(call[t].addr, call[t].val)
               /\ swept' = Sweep(t)
      <3> DEFINE a == call[t].addr
                 n == call[t].val
                 W == Woken(a, n)
      <3>1. n \in {1, Everyone} /\ n \in Nat /\ n # 0 /\ a \in {"m", "c"}
        BY <2>1, <2>5, SchedAssumption DEF ShapeOK, Everyone
      <3> HIDE DEF a, n
      <3>2. /\ \A i \in DOMAIN waiters' : \E j \in DOMAIN waiters : waiters'[i] = waiters[j]
            /\ \A u \in Task : state'[u] = IF u \in W /\ state[u] = "BLOCKED"
                                          THEN "READY" ELSE state[u]
        BY <2>5, <3>1, QueueAfterWake DEF a, n
      <3>3. t0 \in Queued("m")
        BY <3>2 DEF Queued
      <3>4. CASE a = "c"
        <4>1. ~Waker(t)
          BY <2>1, <3>4 DEF Waker, a
        <4>2. \A u \in UserTask \ {t} : state'[u] = "BLOCKED" => state[u] = "BLOCKED"
          BY <1>4, <3>2
        <4>3. QED
          BY <2>2, <3>3, <4>1, <4>2
      <3>5. CASE a = "m"
        <4>1. waiters \in Seq(Node) /\ DistinctTasks(waiters)
          BY DEF PthreadInv, QueueInv
        <4>2. PICK i \in DOMAIN waiters : waiters[i].uaddr = "m"
          BY <3>3 DEF Queued
        <4>3. W # {}
          BY <3>1, <3>5, <4>1, <4>2, WokenAre
        <4>4. PICK j \in DOMAIN waiters : waiters[j].task \in W /\ waiters[j].uaddr = "m"
          BY <3>1, <3>5, <4>1, <4>3, WokenAre
        <4>4a. PICK u \in W : u = waiters[j].task
          BY <4>4
        <4>5. /\ u \in UserTask /\ u \in Task /\ u # t /\ pc[u] = "ret"
              /\ call[u].kind = "wait" /\ call[u].addr = "m" /\ state[u] \in {"BLOCKED", "DEAD"}
          BY <2>1, <4>4, <4>4a, SleepersDoNotRun DEF NodeOfSleeper, Asleep
        <4>6. call[u].then = "xchg"
          BY <4>5 DEF PthreadInv, CallShape, ShapeOK
        <4>7. pc'[u] = "ret" /\ call'[u] = call[u] /\ state'[u] # "BLOCKED"
          BY <2>1, <3>2, <4>4, <4>4a, <4>5
        <4>8. Waker(u)'
          BY <4>6, <4>7 DEF Waker
        <4>9. SpaceOf[u] = SpaceOf[t0]
          BY <1>2, <3>3, <4>5
        <4>10. QED
          BY <4>5, <4>8, <4>9 DEF Prompt
      <3>6. QED
        BY <3>1, <3>4, <3>5
    <2>6. QED
      BY <1>13, <2>3, <2>4, <2>5 DEF DoFutex, futex_wait
  <1>14. QED
    BY <1>7, <1>8, <1>9, <1>10, <1>11, <1>12, <1>13 DEF PthreadNext, Advance

(* In a process of its own, no thread sleeps on a mutex for which nobody   *)
(* owes a wake, unless one of the threads was killed.  With several        *)
(* processes it fails: the futex list tells words apart by their virtual   *)
(* addresses alone.                                                        *)
THEOREM WakeupsAreNotLost ==
    ASSUME \A t, u \in UserTask : SpaceOf[t] = SpaceOf[u]
    PROVE  PthreadSpec => []NoLostWakeup
  <1>1. PthreadInit => NoLostWakeup
    BY DEF PthreadInit, NoLostWakeup, Queued
  <1>2. PthreadInv /\ NoLostWakeup /\ [PthreadNext]_pthreadVars => NoLostWakeup'
    BY PromptStep
  <1>3. QED
    BY <1>1, <1>2, PthreadInvariant, PTL DEF PthreadSpec
=============================================================================
