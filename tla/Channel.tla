------------------------------ MODULE Channel ------------------------------
(***************************************************************************)
(* What pipes promise: each is a queue of limited capacity.  The bytes     *)
(* that enter it are numbered in the order they enter; they leave in that  *)
(* order, none is lost, repeated or changed on the way.                    *)
(***************************************************************************)
EXTENDS Naturals, Sequences

CONSTANTS Chan, Capacity

VARIABLES queue,   \* the bytes inside each channel
          entered  \* how many have entered it

chanVars == <<queue, entered>>

ChannelInit == /\ queue = [c \in Chan |-> <<>>]
               /\ entered = [c \in Chan |-> 0]

Send(c) == \E n \in 1..(Capacity - Len(queue[c])) :
              /\ queue' = [queue EXCEPT ![c] = @ \o [i \in 1..n |-> entered[c] + i]]
              /\ entered' = [entered EXCEPT ![c] = @ + n]

Receive(c) == \E n \in 1..Len(queue[c]) :
                 /\ queue' = [queue EXCEPT ![c] = SubSeq(@, n + 1, Len(@))]
                 /\ UNCHANGED entered

ChannelSpec == ChannelInit /\ [][\E c \in Chan : Send(c) \/ Receive(c)]_chanVars
=============================================================================
