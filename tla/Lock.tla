-------------------------------- MODULE Lock --------------------------------
(***************************************************************************)
(* What mutexes promise: each has at most one holder at a time, and one    *)
(* changes hands only when it is free.                                     *)
(***************************************************************************)
CONSTANTS Thread, Mutex
VARIABLE holders   \* the threads that hold each mutex

LockInit == holders = [m \in Mutex |-> {}]

Acquire(m) == /\ holders[m] = {}
              /\ \E t \in Thread : holders' = [holders EXCEPT ![m] = {t}]

Release(m) == /\ holders[m] # {}
              /\ holders' = [holders EXCEPT ![m] = {}]

LockNext == \E m \in Mutex : Acquire(m) \/ Release(m)

LockSpec == LockInit /\ [][LockNext]_holders
=============================================================================
