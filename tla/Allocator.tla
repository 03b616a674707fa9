----------------------------- MODULE Allocator -----------------------------
(***************************************************************************)
(* What the kernel heap promises: a piece of memory handed out lies in the *)
(* heap, is as large as was asked for and little larger, and overlaps no   *)
(* other piece in use.                                                     *)
(***************************************************************************)
EXTENDS Naturals

CONSTANTS Cell,      \* the units of the heap
          Request,   \* the sizes asked for
          Slack      \* what a piece may be too large

VARIABLES live       \* the pieces in use: [at |-> first unit, size |-> units]

Cells(piece) == piece.at .. (piece.at + piece.size - 1)

(* A piece that may be handed out for a request of n units. *)
Fits(piece, n) == /\ piece.size \in n..(n + Slack)
                  /\ Cells(piece) \subseteq Cell
                  /\ \A other \in live : Cells(piece) \cap Cells(other) = {}

Piece(n) == {[at |-> a, size |-> s] : a \in Cell, s \in n..(n + Slack)}

Alloc == \E n \in Request : \E piece \in Piece(n) :
            Fits(piece, n) /\ live' = live \cup {piece}

Free == \E piece \in live : live' = live \ {piece}

(* The new piece is found while the old, smaller one is still in use. *)
Move == \E old \in live, n \in Request : \E piece \in Piece(n) :
            /\ old.size < n
            /\ Fits(piece, n)
            /\ live' = (live \cup {piece}) \ {old}

AllocatorInit == live = {}

AllocatorSpec == AllocatorInit /\ [][Alloc \/ Free \/ Move]_live
=============================================================================
