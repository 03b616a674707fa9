------------------------------- MODULE Memory -------------------------------
(***************************************************************************)
(* Physical pages (kernel/pmm.c), the page tables of the address spaces    *)
(* (kernel/vmm.c) and the calls that change them: mmap, munmap, brk, fork, *)
(* execve (with kernel/elf.c) and exit of kernel/sys_impl.c.  Each call    *)
(* runs to its end without interruption; one that maps new pages does so   *)
(* page by page, each page a step.                                         *)
(*                                                                         *)
(* A frame is a physical page.  An item is a place in an address space     *)
(* that may hold one: its PML4 (Root), the directories between it and the  *)
(* page tables (Dir, one for them all), a page table, a page.  Items are   *)
(* numbered in the order in which a clone walks them.  A space has three   *)
(* regions in ascending order, each with a page table of its own: image    *)
(* and stack, mmap, and break.  The lower GiB, which no program built with *)
(* user.ld uses, belongs to the kernel and is not part of the model.       *)
(***************************************************************************)
EXTENDS Integers, FiniteSetsExt

CONSTANTS MaxFrame,    \* frames that are available after boot
          MaxProc,     \* processes that run at a time
          ImagePages,  \* pages of a program's segments
          StackPages,  \* pages of its stack
          MmapPages,   \* pages from USER_HEAP_BASE to USER_HEAP_LIMIT
          BrkPages     \* bound: pages above BRK_BASE a program asks for

ASSUME MemAssumption == /\ MaxFrame \in Nat
                        /\ MaxFrame >= ImagePages + StackPages + 2
                        /\ MaxProc \in Nat \ {0}
                        /\ ImagePages \in Nat \ {0} /\ StackPages \in Nat
                        /\ MmapPages \in Nat /\ BrkPages \in Nat

Frame == 1..MaxFrame
Proc  == 1..MaxProc
First == 1             \* the first user task; its PML4 is the kernel's

MmapStart == ImagePages + StackPages     \* pages in front of the region
BrkStart  == MmapStart + MmapPages
LastPage  == BrkStart + BrkPages
Page      == 1..LastPage
HeapPage  == (MmapStart + 1)..LastPage
BrkPage   == (BrkStart + 1)..LastPage

Root == 1
Dir  == 2
Item == 1..(LastPage + 5)

Region(v)    == IF v <= MmapStart THEN 1 ELSE IF v <= BrkStart THEN 2 ELSE 3
PagesBelow(v) == CASE Region(v) = 1 -> 0
                   [] Region(v) = 2 -> MmapStart
                   [] OTHER -> BrkStart
PageItem(v)  == 2 + Region(v) + v
TableItem(v) == 2 + Region(v) + PagesBelow(v)

VARIABLES bitmap,    \* the frames whose bit is set: they are free
          space,     \* per process and item the frame there, 0 if absent
          up,        \* the processes that run
          brk,       \* brk_current of each, in pages above BRK_BASE; that of
                     \* First is init_brk until it has a process_t
          recorded,  \* First has a process_t
          top,       \* user_heap_top, in pages above USER_HEAP_BASE
          job,       \* the call that maps pages at..to, having begun at from
          owned,     \* history: mmap pages a program holds
          told,      \* history: the break that a program was told last
          spoilt,    \* history: processes whose space may lack pages
          restarted, \* history: processes whose break is lower than told
          leaky      \* history: frames may be out of reach

histVars == <<owned, told, spoilt, restarted, leaky>>
memVars  == <<bitmap, space, up, brk, recorded, top, job, histVars>>

-----------------------------------------------------------------------------
(* The memory as a call sees it: the frames that are free, the space it    *)
(* maps into, and whether it has met no failure yet.                       *)
(* The page table of page v, made if it is absent and a frame is free. *)
next_table(m, v) ==
    IF m.sp[TableItem(v)] # 0 \/ m.free = {} THEN m
    ELSE [m EXCEPT !.sp[TableItem(v)] = Min(m.free),
                   !.free = @ \ {Min(m.free)}]

(* Faulty variant: the page is given back after it was mapped. *)
MapBack(m, v) ==
    IF m.free = {} THEN [m EXCEPT !.ok = FALSE]
    ELSE LET page == Min(m.free)
             t == next_table([m EXCEPT !.free = @ \ {page}], v)
         IN [t EXCEPT !.sp[PageItem(v)] = page, !.free = @ \cup {page}]

(* A new page at v: pmm_alloc_page, then vmm_map, whose entry replaces the *)
(* one there.  Without a page table the page is given back.                *)
MapNew(m, v) ==
    IF m.free = {} THEN [m EXCEPT !.ok = FALSE]
    ELSE LET page == Min(m.free)
             t == next_table([m EXCEPT !.free = @ \ {page}], v)
         IN IF t.sp[TableItem(v)] = 0
            THEN [t EXCEPT !.free = @ \cup {page}, !.ok = FALSE]
            ELSE [t EXCEPT !.sp[PageItem(v)] = page]

(* Faulty variant: the frames are not given back. *)
UnmapKeep(S) ==
    LET items == {PageItem(v) : v \in S} IN
    /\ space' = [space EXCEPT ![First] = [i \in Item |-> IF i \in items THEN 0 ELSE @[i]]]
    /\ UNCHANGED bitmap

(* vmm_unmap and vmm_translate work on kernel_pml4_phys, whoever calls. *)
UnmapRange(S) ==
    LET items == {PageItem(v) : v \in S} IN
    /\ space' = [space EXCEPT ![First] = [i \in Item |-> IF i \in items THEN 0 ELSE @[i]]]
    /\ bitmap' = bitmap \cup ({space[First][i] : i \in items} \ {0})

-----------------------------------------------------------------------------
Mapped(sp, i) == sp[i] # 0

NoJob == [op |-> "none", p |-> First, from |-> 0, at |-> 0, to |-> 0]

(* The image of the first program is in place; the PML4 of First is not    *)
(* counted, it belongs to the kernel's image.                              *)
Loaded == Dir..PageItem(MmapStart)

MemInit == /\ bitmap = Frame \ {i - 1 : i \in Loaded}
           /\ space = [p \in Proc |-> [i \in Item |->
                          IF p = First /\ i \in Loaded THEN i - 1 ELSE 0]]
           /\ up = {First}
           /\ brk = [p \in Proc |-> 0]
           /\ recorded = FALSE
           /\ top = 0
           /\ job = NoJob
           /\ owned = [p \in Proc |-> {}]
           /\ told = [p \in Proc |-> 0]
           /\ spoilt = {}
           /\ restarted = {}
           /\ leaky = FALSE

(* A process whose clone has no directory does not get far: the kernel     *)
(* itself is missing from its space.                                       *)
May(p) == p \in up /\ space[p][Dir] # 0 /\ job = NoJob

(* mmap of n pages. *)
sys_mmap(p) ==
    /\ May(p)
    /\ \E n \in 1..(MmapPages - top) :
          job' = [op |-> "mmap", p |-> p, from |-> MmapStart + top + 1,
                  at |-> MmapStart + top + 1, to |-> MmapStart + top + n]
    /\ UNCHANGED <<bitmap, space, up, brk, recorded, top, histVars>>

(* brk to w pages, more than there are. *)
BrkGrow(p) ==
    /\ May(p)
    /\ \E w \in (brk[p] + 1)..BrkPages :
          job' = [op |-> "brk", p |-> p, from |-> BrkStart + brk[p] + 1,
                  at |-> BrkStart + brk[p] + 1, to |-> BrkStart + w]
    /\ UNCHANGED <<bitmap, space, up, brk, recorded, top, histVars>>

(* execve: the pages of the segments, then those of the stack. *)
sys_execve(p) ==
    /\ May(p)
    /\ job' = [op |-> "execve", p |-> p, from |-> 1, at |-> 1, to |-> MmapStart]
    /\ UNCHANGED <<bitmap, space, up, brk, recorded, top, histVars>>

(* Faulty variant: user_heap_top does not move. *)
TopStuck(done) == top

(* user_heap_top after an mmap, if all its pages are mapped. *)
TopAfter(done) == IF done /\ job.op = "mmap" THEN top + job.to - job.from + 1 ELSE top

(* The call returns.  A failure leaves the pages that are mapped, the      *)
(* break and user_heap_top.  After execve the break stays, and the mmap    *)
(* pages are nobody's.                                                     *)
Return(done) ==
    LET p == job.p
        grown == done /\ job.op = "brk"
        fresh == done /\ job.op = "execve"
    IN /\ job' = NoJob
       /\ top' = TopAfter(done)
       /\ brk' = IF grown THEN [brk EXCEPT ![p] = job.to - BrkStart] ELSE brk
       /\ owned' = IF fresh THEN [owned EXCEPT ![p] = {}]
                   ELSE IF done /\ job.op = "mmap"
                   THEN [owned EXCEPT ![p] = @ \cup (job.from..job.to)] ELSE owned
       /\ told' = IF grown THEN [told EXCEPT ![p] = job.to - BrkStart]
                  ELSE IF fresh THEN [told EXCEPT ![p] = brk[p]] ELSE told
       /\ restarted' = IF fresh THEN restarted \ {p} ELSE restarted

(* One page of the call under way.  That a stack page cannot be had is not *)
(* looked at.  (An execve that cannot have a page table faults; here it    *)
(* fails.)                                                                 *)
MapPage ==
    LET m == MapNew([free |-> bitmap, sp |-> space[job.p], ok |-> TRUE], job.at)
        stack == job.op = "execve" /\ job.at > ImagePages IN
    /\ job # NoJob
    /\ bitmap' = m.free
    /\ space' = [space EXCEPT ![job.p] = m.sp]
    /\ IF m.ok /\ job.at < job.to
       THEN /\ job' = [job EXCEPT !.at = @ + 1]
            /\ UNCHANGED <<brk, top, owned, told, restarted>>
       ELSE Return(m.ok \/ stack)
    /\ leaky' = (leaky \/ ~m.ok \/ job.op = "execve" \/ job.p \in restarted)
    /\ UNCHANGED <<up, recorded, spoilt>>

(* A segment cannot be read; the image is overwritten by then. *)
ReadFails == /\ job.op = "execve" /\ job.at \in 2..(ImagePages + 1)
             /\ Return(FALSE)
             /\ leaky' = TRUE
             /\ UNCHANGED <<bitmap, space, up, recorded, spoilt>>

Stray(p) == IF p = First THEN spoilt ELSE spoilt \cup {First}

(* munmap of pages that mmap has given to p. *)
sys_munmap(p) ==
    /\ May(p)
    /\ \E a, b \in owned[p] :
          /\ a..b # {} /\ a..b \subseteq owned[p]
          /\ UnmapRange(a..b)
          /\ owned' = [owned EXCEPT ![p] = @ \ (a..b)]
    /\ spoilt' = Stray(p)
    /\ UNCHANGED <<up, brk, recorded, top, job, told, restarted, leaky>>

(* brk to w pages, fewer than there are. *)
BrkShrink(p) ==
    /\ May(p)
    /\ \E w \in 0..(brk[p] - 1) :
          /\ UnmapRange((BrkStart + w + 1)..(BrkStart + brk[p]))
          /\ brk' = [brk EXCEPT ![p] = w]
          /\ told' = [told EXCEPT ![p] = w]
    /\ spoilt' = Stray(p)
    /\ leaky' = (leaky \/ p # First)
    /\ UNCHANGED <<up, recorded, top, job, owned, restarted>>

-----------------------------------------------------------------------------
(* Faulty variant: what the kernel's own tables hold is copied. *)
ToCloneFirst(p) == {Root} \cup {i \in Item : Mapped(space[First], i)}

(* What a clone of p's space needs a frame for. *)
ToClone(p) == {Root} \cup {i \in Item : Mapped(space[p], i)}

(* How many members of S come before x, and x itself. *)
Rank(S, x) == Cardinality({y \in S : y <= x})

(* vmm_clone_address_space: the items in order, each with the lowest free  *)
(* frame; those that come when no frame is left are skipped.               *)
Given(p, i) == {x \in bitmap : Rank(bitmap, x) = Rank(ToClone(p), i)}
Clone(p) == [i \in Item |-> IF i \in ToClone(p) /\ Given(p, i) # {}
                            THEN CHOOSE x \in Given(p, i) : TRUE ELSE 0]

Taken(sp) == bitmap \cap {sp[i] : i \in Item}

(* The process record or the task cannot be had: the clone is lost. *)
ForkFails(p) ==
    /\ bitmap' = bitmap \ Taken(Clone(p))
    /\ leaky' = TRUE
    /\ UNCHANGED <<space, up, brk, recorded, top, job, owned, told, spoilt, restarted>>

(* The child c goes on from the break of its parent.  A parent without a   *)
(* process_t gets one, if there is room; the brk_current in it is unset.   *)
ForkDone(p, c) ==
    /\ c \notin up /\ c # First
    /\ space' = [space EXCEPT ![c] = Clone(p)]
    /\ bitmap' = bitmap \ Taken(Clone(p))
    /\ up' = up \cup {c}
    /\ \E given \in BOOLEAN :
          LET fresh == given /\ p = First /\ ~recorded IN
          /\ recorded' = (recorded \/ fresh)
          /\ brk' = [brk EXCEPT ![c] = brk[p], ![First] = IF fresh THEN 0 ELSE @]
          /\ restarted' = ((IF p \in restarted THEN restarted \cup {c} ELSE restarted \ {c})
                           \cup (IF fresh /\ brk[First] > 0 THEN {First} ELSE {}))
    /\ owned' = [owned EXCEPT ![c] = owned[p]]
    /\ told' = [told EXCEPT ![c] = told[p]]
    /\ spoilt' = IF p \in spoilt \/ Cardinality(ToClone(p)) > Cardinality(bitmap)
                 THEN spoilt \cup {c} ELSE spoilt \ {c}
    /\ UNCHANGED <<top, job, leaky>>

sys_fork(p) == /\ May(p)
               /\ bitmap # {}
               /\ ForkFails(p) \/ \E c \in Proc : ForkDone(p, c)

(* exit, and the parent's wait4.  Nothing of the address space is given    *)
(* back; that of First lives on as the kernel's, any other is forgotten.   *)
sys_exit(p) ==
    /\ May(p)
    /\ up' = up \ {p}
    /\ space' = IF p = First THEN space ELSE [space EXCEPT ![p] = [i \in Item |-> 0]]
    /\ brk' = [brk EXCEPT ![p] = 0]
    /\ owned' = [owned EXCEPT ![p] = {}]
    /\ told' = [told EXCEPT ![p] = 0]
    /\ spoilt' = spoilt \ {p}
    /\ restarted' = restarted \ {p}
    /\ leaky' = TRUE
    /\ UNCHANGED <<bitmap, recorded, top, job>>

MemNext == \/ \E p \in Proc : \/ sys_mmap(p) \/ sys_munmap(p) \/ sys_execve(p)
                              \/ BrkGrow(p) \/ BrkShrink(p)
                              \/ sys_fork(p) \/ sys_exit(p)
           \/ MapPage \/ ReadFails

MemSpec == MemInit /\ [][MemNext]_memVars

-----------------------------------------------------------------------------
MemTypeOK == /\ bitmap \subseteq Frame
             /\ space \in [Proc -> [Item -> 0..MaxFrame]]
             /\ up \subseteq Proc
             /\ brk \in [Proc -> 0..BrkPages]
             /\ recorded \in BOOLEAN
             /\ top \in 0..MmapPages
             /\ \/ job = NoJob
                \/ job \in [op : {"mmap", "brk", "execve"}, p : Proc,
                            from : Page, at : Page, to : Page]
             /\ owned \in [Proc -> SUBSET Page]
             /\ told \in [Proc -> 0..BrkPages]
             /\ spoilt \subseteq Proc
             /\ restarted \subseteq Proc
             /\ leaky \in BOOLEAN

(* A frame is in one place: no two pages or tables, of one space or of     *)
(* two, share a frame, and none is on the bitmap (pmm_alloc_page).         *)
OnePlace ==
    \A p \in Proc, i \in Item :
       Mapped(space[p], i) =>
          /\ space[p][i] \notin bitmap
          /\ \A q \in Proc, j \in Item : space[p][i] = space[q][j] => p = q /\ i = j

(* The heap pages of a program: its own of mmap, and those below its break. *)
InUse(p) == owned[p] \cup {v \in BrkPage : v <= BrkStart + told[p]}

(* What a program was given is mapped, through tables that are there: its  *)
(* image and stack, its mmap pages and the pages below its break, in a     *)
(* child as in its parent - until a clone has run short of frames or       *)
(* another process has unmapped pages of First.                            *)
InUseIsMapped ==
    \A p \in up \ spoilt : \A v \in (1..MmapStart) \cup InUse(p) :
       /\ Mapped(space[p], Dir)
       /\ Mapped(space[p], TableItem(v))
       /\ Mapped(space[p], PageItem(v))

(* A heap page keeps its frame, and with it its contents, for as long as a *)
(* program uses it, whatever the others call.  Excepted are the pages of   *)
(* First that another process unmaps, and the pages below a break that has *)
(* fallen behind what the program was told.                                *)
PagesStay ==
    [][\A p \in up \cap up' : \A v \in InUse(p) \cap InUse(p)' :
          \/ space'[p][PageItem(v)] = space[p][PageItem(v)]
          \/ p = First /\ First \in spoilt'
          \/ v \in BrkPage /\ p \in restarted]_memVars

(* Frames come back: as long as calls succeed and no program has been      *)
(* replaced, every frame is free or in some space.                         *)
NothingLost ==
    leaky \/ \A f \in Frame : \/ f \in bitmap
                              \/ \E p \in Proc, i \in Item : space[p][i] = f
=============================================================================
