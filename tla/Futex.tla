------------------------------- MODULE Futex -------------------------------
(***************************************************************************)
(* sys_futex of kernel/futex.c on top of the scheduler: one list of        *)
(* waiters for the whole machine, newest first, keyed by virtual address   *)
(* alone.  A word of user memory belongs to an address space; tasks of     *)
(* one space share it.                                                     *)
(***************************************************************************)
EXTENDS Sched, Sequences

CONSTANTS Addr,       \* the virtual addresses of the futex words in use
          SpaceOf     \* the address space of each user task

VARIABLES word,       \* the value of each word of each address space
          waiters     \* fwaiter_t list: [uaddr, task], head first

futexVars == <<word, waiters>>

Space == {SpaceOf[t] : t \in UserTask}

(* The word of the running task at a virtual address. *)
Mem(a)      == word[SpaceOf[current]][a]
Store(a, v) == word' = [word EXCEPT ![SpaceOf[current]][a] = v]

-----------------------------------------------------------------------------
(* Faulty variant: the comparison with *uaddr left out. *)
futex_wait_blind(a, val) ==
    /\ waiters' = <<[uaddr |-> a, task |-> current]>> \o waiters
    /\ task_block
    /\ UNCHANGED <<word, next, next_id, mode>>

(* FUTEX_WAIT (and FUTEX_WAIT_BITSET): compare, queue at the head, block.  *)
(* EAGAIN when the word has changed, ENOMEM when no list node is left.     *)
futex_wait_queue(a) ==
    /\ waiters' = <<[uaddr |-> a, task |-> current]>> \o waiters
    /\ task_block
    /\ UNCHANGED <<word, next, next_id, mode>>

futex_wait_fails == UNCHANGED <<schedVars, futexVars>>

futex_wait(a, val) == \/ Mem(a) = val /\ futex_wait_queue(a)
                      \/ futex_wait_fails

(* The tasks of the first n nodes for this address. *)
Woken(a, n) ==
    LET mine(i) == {j \in 1..i : waiters[j].uaddr = a}
    IN {waiters[i].task : i \in {k \in DOMAIN waiters :
            waiters[k].uaddr = a /\ Cardinality(mine(k)) <= n}}

(* The list once the nodes of these tasks are unlinked. *)
Unlinked(S) ==
    LET left[i \in 0..Len(waiters)] ==
            IF i = 0 THEN <<>>
            ELSE IF waiters[i].task \in S THEN left[i - 1]
            ELSE Append(left[i - 1], waiters[i])
    IN left[Len(waiters)]

(* Faulty variant: a woken node stays in the list. *)
futex_wake_keeps(a, n) ==
    /\ state' = task_unblock(Woken(a, n))
    /\ UNCHANGED <<word, waiters, current, next, next_id, mode>>

(* FUTEX_WAKE (and WAKE_BITSET, REQUEUE): unlink and unblock up to n. *)
futex_wake(a, n) ==
    /\ waiters' = Unlinked(Woken(a, n))
    /\ state' = task_unblock(Woken(a, n))
    /\ UNCHANGED <<word, current, next, next_id, mode>>
=============================================================================
