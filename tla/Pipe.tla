-------------------------------- MODULE Pipe --------------------------------
(***************************************************************************)
(* The pipes of kernel/pipe.c: a fixed table of ring buffers.  A byte is   *)
(* represented by its number in the order the bytes entered its pipe.      *)
(* read_closed and write_closed are never set and are left out; the two    *)
(* reference counts are set to 1 and never changed again.                  *)
(***************************************************************************)
EXTENDS Integers, Sequences, FiniteSets, FiniteSetsExt

CONSTANTS MaxPipes,      \* entries of the table (16)
          PIPE_BUF_SIZE  \* bytes in a ring (4096)

ASSUME PipeAssumption == /\ MaxPipes \in Nat \ {0}
                         /\ PIPE_BUF_SIZE \in Nat \ {0}

PipeId == 1..MaxPipes
Index  == 0..(PIPE_BUF_SIZE - 1)

VARIABLES pipes,   \* pipe_t pipes[]
          written  \* history: bytes that have entered each pipe

pipeVars == <<pipes, written>>

Emptied(used) == [in_use |-> used, buf |-> [i \in Index |-> 0],
                  head |-> 0, tail |-> 0, count |-> 0,
                  refs_read |-> IF used THEN 1 ELSE 0,
                  refs_write |-> IF used THEN 1 ELSE 0]

PipeInit == /\ pipes = [p \in PipeId |-> Emptied(FALSE)]
            /\ written = [p \in PipeId |-> 0]

FreePipes == {p \in PipeId : ~pipes[p].in_use}

(* The first free entry; the caller has checked that there is one. *)
pipe_create == /\ pipes' = [pipes EXCEPT ![Min(FreePipes)] = Emptied(TRUE)]
               /\ UNCHANGED written

(* The copying loop of pipe_read: n bytes leave at the tail. *)
Take(p, n) == [pipes EXCEPT ![p].tail = (@ + n) % PIPE_BUF_SIZE,
                            ![p].count = @ - n]

(* Faulty variant: the room to the end of the ring is not looked at. *)
PutPast(p, n) ==
    [pipes EXCEPT ![p].buf = [i \in Index |->
                       IF i >= pipes[p].head /\ i < pipes[p].head + n
                       THEN written[p] + 1 + i - pipes[p].head
                       ELSE @[i]],
                  ![p].head = (@ + n) % PIPE_BUF_SIZE,
                  ![p].count = @ + n]

(* The copying loop of pipe_write: n bytes enter at the head. *)
Put(p, n) ==
    [pipes EXCEPT ![p].buf = [i \in Index |->
                       LET k == (i - pipes[p].head) % PIPE_BUF_SIZE
                       IN IF k < n THEN written[p] + 1 + k ELSE @[i]],
                  ![p].head = (@ + n) % PIPE_BUF_SIZE,
                  ![p].count = @ + n]

-----------------------------------------------------------------------------
(* What is in a pipe, in the order it will be read. *)
Contents(p) == [i \in 1..pipes[p].count |->
                   pipes[p].buf[(pipes[p].tail + i - 1) % PIPE_BUF_SIZE]]

Channels == INSTANCE Channel WITH Chan <- PipeId, Capacity <- PIPE_BUF_SIZE,
                                  queue <- [p \in PipeId |-> Contents(p)],
                                  entered <- written
=============================================================================
