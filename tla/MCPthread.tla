----------------------------- MODULE MCPthread -----------------------------
(* Threads of one process, and of two processes that forked apart. *)
EXTENDS Pthread

MCAddr == {"m", "c"}

OneProcess == [t \in UserTask |-> 1]

TwoProcesses == [t \in UserTask |-> 1 + (t % 2)]
=============================================================================
