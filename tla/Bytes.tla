-------------------------------- MODULE Bytes --------------------------------
(* Writing into a file at a position. *)
EXTENDS Integers, Sequences, FiniteSetsExt

(* s with the bytes t from position o on; a gap is filled with 0. *)
Overlay(s, o, t) ==
    IF t = <<>> THEN s
    ELSE [i \in 1..Max({Len(s), o + Len(t)}) |->
             IF i > o /\ i <= o + Len(t) THEN t[i - o]
             ELSE IF i <= Len(s) THEN s[i] ELSE 0]

(* The sequences of 1 to n members of S. *)
Upto(S, n) == UNION {[1..k -> S] : k \in 1..n}
=============================================================================
