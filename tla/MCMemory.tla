------------------------------ MODULE MCMemory ------------------------------
(* Which frame is where does not matter, only which items hold one: two    *)
(* states that differ in the numbers of frames have the same successors up *)
(* to that, as long as no frame is in two places.  OnePlace, which says    *)
(* so, is checked with every run that uses this view.                      *)
EXTENDS Memory

MemView == <<Cardinality(bitmap),
             [p \in Proc |-> {i \in Item : Mapped(space[p], i)}],
             up, brk, recorded, top, job, histVars>>
=============================================================================
