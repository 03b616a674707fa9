------------------------------- MODULE MCExt2 -------------------------------
(* Names, vnodes and the parts of a block are only compared: each may be   *)
(* exchanged for another.                                                  *)
(*                                                                         *)
(* The view leaves out what no action reads and no property can be about   *)
(* any more.  A failed write of a bitmap ends all five properties.  What   *)
(* blocks hold of a file, which only AckedIsOnDisk is about, no longer     *)
(* matters when the file was open twice or a failure has ended that        *)
(* property.  Neither failed nor twice ever shrinks.                       *)
EXTENDS Ext2, TLC

Symmetry == {f @@ g @@ h : f \in Permutations(Names), g \in Permutations(Vnode),
                           h \in Permutations(Part)}

AcksLapse == failed \cap {"pointer write", "inode write", "directory write", "data read"} # {}
Lapsed    == IF AcksLapse THEN Inode ELSE twice

Bytes(S) == {x \in S : x[1] \notin Lapsed}

Ext2View ==
    IF "bitmap write" \in failed THEN <<>>
    ELSE <<[disk EXCEPT !.blk = [b \in Block |-> [@[b] EXCEPT !.of = Bytes(@)]]], mem,
           [job EXCEPT !.part = IF job.ino \in Lapsed /\ ~Whole THEN {} ELSE @,
                       !.kept = Bytes(@)],
           cuts, faults, failed \ {"other"}, {w \in acked : w[2] \notin Lapsed}, Lapsed>>
=============================================================================
