-------------------------------- MODULE Heap --------------------------------
(***************************************************************************)
(* The kernel heap of kernel/heap.c: blocks that tile one region, each     *)
(* with a header that links it to its neighbours in memory and, while it   *)
(* is free, to the others on the free list.  The unit of memory is         *)
(* ALIGN_TO, to which every request is rounded up; an address is the       *)
(* number of a unit, 0 is NULL.  After boot the heap is used inside system *)
(* calls only, so each call is one step.                                   *)
(***************************************************************************)
EXTENDS Naturals, FiniteSets

CONSTANTS HeapSize,    \* units of the region (2M of them)
          Header,      \* units of a block_t (3)
          MaxRequest   \* bound: the largest request, in units

ASSUME HeapAssumption == /\ Header \in Nat \ {0}
                         /\ HeapSize \in Nat /\ HeapSize > Header
                         /\ MaxRequest \in Nat

Addr == 1..HeapSize
Base == 1
End  == HeapSize + 1     \* the address behind the region
Null == 0

VARIABLES heap    \* the headers: where they are (blocks), which have
                  \* MAGIC_USED (used), their fields, and free_head

-----------------------------------------------------------------------------
freelist_push(h, b) ==
    [h EXCEPT !.free_head = b,
              !.prev_free = [x \in Addr |-> IF x = b THEN Null
                                            ELSE IF x = h.free_head THEN b ELSE @[x]],
              !.next_free = [@ EXCEPT ![b] = h.free_head]]

(* Faulty variant: the successor's back link is forgotten. *)
freelist_remove_half(h, b) ==
    LET p == h.prev_free[b]
        n == h.next_free[b]
    IN [h EXCEPT !.free_head = IF p = Null THEN n ELSE @,
                 !.prev_free = [@ EXCEPT ![b] = Null],
                 !.next_free = [x \in Addr |-> IF x = b THEN Null
                                               ELSE IF x = p THEN n ELSE @[x]]]

freelist_remove(h, b) ==
    LET p == h.prev_free[b]
        n == h.next_free[b]
    IN [h EXCEPT !.free_head = IF p = Null THEN n ELSE @,
                 !.prev_free = [x \in Addr |-> IF x = b THEN Null
                                               ELSE IF x = n THEN p ELSE @[x]],
                 !.next_free = [x \in Addr |-> IF x = b THEN Null
                                               ELSE IF x = p THEN n ELSE @[x]]]

(* Faulty variant: the header of the right part is not paid for. *)
SplitFree(h, b, n) ==
    LET right == b + Header + n IN
    [h EXCEPT !.blocks = @ \cup {right},
              !.size = [@ EXCEPT ![b] = n, ![right] = h.size[b] - n],
              !.prev_phys = [x \in Addr |-> IF x = right THEN b
                                            ELSE IF x = h.next_phys[b] THEN right ELSE @[x]],
              !.next_phys = [@ EXCEPT ![b] = right, ![right] = h.next_phys[b]]]

(* Block b is cut to n units; a block behind it takes the rest. *)
Split(h, b, n) ==
    LET right == b + Header + n IN
    [h EXCEPT !.blocks = @ \cup {right},
              !.size = [@ EXCEPT ![b] = n, ![right] = h.size[b] - n - Header],
              !.prev_phys = [x \in Addr |-> IF x = right THEN b
                                            ELSE IF x = h.next_phys[b] THEN right ELSE @[x]],
              !.next_phys = [@ EXCEPT ![b] = right, ![right] = h.next_phys[b]]]

(* Block b takes over its right neighbour r; what was the header of r is   *)
(* memory like any other from then on, its fields are forgotten.           *)
Absorb(h, b, r) ==
    [h EXCEPT !.blocks = @ \ {r},
              !.size = [@ EXCEPT ![b] = h.size[b] + Header + h.size[r], ![r] = 0],
              !.prev_phys = [x \in Addr |-> IF x = r THEN Null
                                            ELSE IF x = h.next_phys[r] THEN b ELSE @[x]],
              !.next_phys = [@ EXCEPT ![b] = h.next_phys[r], ![r] = Null]]

-----------------------------------------------------------------------------
FreeBlocks(h) == h.blocks \ h.used

(* First fit: the search passes the blocks of S, all too small, and stops  *)
(* at b.                                                                   *)
FirstFit(h, n, b) ==
    /\ b \in FreeBlocks(h)
    /\ h.size[b] >= n
    /\ \E S \in SUBSET {x \in FreeBlocks(h) : h.size[x] < n} :
          /\ h.free_head \in S \cup {b}
          /\ \A x \in S : h.next_free[x] \in S \cup {b}

(* Hand out the block b that the search for n units has found; it is cut   *)
(* when more than a header and one unit would be left.                     *)
kmalloc(h, n, b) ==
    LET cut == IF h.size[b] - n > Header + 1
               THEN freelist_push(Split(h, b, n), b + Header + n)
               ELSE h
        out == freelist_remove(cut, b)
    IN [out EXCEPT !.used = @ \cup {b}]

IsFree(h, b) == b # Null /\ b \notin h.used

(* Merge with the right neighbour. *)
MergeRight(h, b) ==
    LET r == h.next_phys[b] IN
    IF IsFree(h, r) THEN Absorb(freelist_remove(h, r), b, r) ELSE h

(* Merge with the left neighbour. *)
MergeLeft(h, b) ==
    LET l == h.prev_phys[b] IN
    IF IsFree(h, l) THEN Absorb(freelist_remove(h, b), l, b) ELSE h

(* Faulty variant: only the right neighbour is looked at. *)
kfree_right(h, b) ==
    MergeRight(freelist_push([h EXCEPT !.used = @ \ {b}], b), b)

kfree(h, b) ==
    MergeLeft(MergeRight(freelist_push([h EXCEPT !.used = @ \ {b}], b), b), b)

-----------------------------------------------------------------------------
HeapInit == heap = [blocks    |-> {Base},
                    used      |-> {},
                    size      |-> [x \in Addr |-> IF x = Base THEN HeapSize - Header ELSE 0],
                    prev_phys |-> [x \in Addr |-> Null],
                    next_phys |-> [x \in Addr |-> Null],
                    prev_free |-> [x \in Addr |-> Null],
                    next_free |-> [x \in Addr |-> Null],
                    free_head |-> Base]

(* A request that no block fits returns NULL and changes nothing. *)
Malloc(n) == \E b \in Addr : FirstFit(heap, n, b) /\ heap' = kmalloc(heap, n, b)

Free(b) == /\ b \in heap.used
           /\ heap' = kfree(heap, b)

(* Faulty variant: the old block is released before the new one is sought. *)
ReallocEarly(b, n) == /\ b \in heap.used
                      /\ heap.size[b] < n
                      /\ \E c \in Addr : /\ FirstFit(kfree(heap, b), n, c)
                                         /\ heap' = kmalloc(kfree(heap, b), n, c)

(* krealloc: a block that is large enough stays; otherwise a new one is    *)
(* found, the contents are copied, and the old one is released.            *)
Realloc(b, n) == /\ b \in heap.used
                 /\ heap.size[b] < n
                 /\ \E c \in Addr : /\ FirstFit(heap, n, c)
                                    /\ heap' = kfree(kmalloc(heap, n, c), b)

HeapNext == \/ \E n \in 1..MaxRequest : Malloc(n)
            \/ \E b \in Addr : Free(b)
            \/ \E b \in Addr, n \in 1..MaxRequest : Realloc(b, n)

HeapSpec == HeapInit /\ [][HeapNext]_heap

-----------------------------------------------------------------------------
Link == Addr \cup {Null}

HeapType == [blocks : SUBSET Addr, used : SUBSET Addr, size : [Addr -> 0..HeapSize],
             prev_phys : [Addr -> Link], next_phys : [Addr -> Link],
             prev_free : [Addr -> Link], next_free : [Addr -> Link], free_head : Link]

Behind(h, b) == b + Header + h.size[b]

Tiles(h) ==
    /\ h \in HeapType
    /\ h.used \subseteq h.blocks
    /\ Base \in h.blocks
    /\ \A b \in h.blocks :
          IF h.next_phys[b] = Null
          THEN Behind(h, b) = End
          ELSE /\ h.next_phys[b] = Behind(h, b)
               /\ h.next_phys[b] \in h.blocks
               /\ h.prev_phys[h.next_phys[b]] = b
    /\ \A b \in h.blocks :
          IF b = Base
          THEN h.prev_phys[b] = Null
          ELSE h.prev_phys[b] \in h.blocks /\ h.next_phys[h.prev_phys[b]] = b

(* The blocks tile the region: each ends where its right neighbour begins, *)
(* whose back link names it; the last ends with the region.  No sequence   *)
(* of cuts and merges loses or doubles a unit (heap.c:124-135, 156-170).   *)
BlocksTile == Tiles(heap)

(* The walk along the list: the block after k steps, Null behind the last. *)
FreeWalk ==
    LET w[k \in Nat] == IF k = 0 THEN heap.free_head
                        ELSE IF w[k - 1] = Null THEN Null
                        ELSE heap.next_free[w[k - 1]]
    IN w

(* The walk of kmalloc and of heap_dump_stats along next_free meets each   *)
(* free block once and then ends (heap.c:116, 193).                        *)
FreeListIsWhole ==
    LET n == Cardinality(FreeBlocks(heap))
    IN {FreeWalk[k] : k \in 0..n} = FreeBlocks(heap) \cup {Null}

(* No two free blocks are neighbours, so what has been released piece by   *)
(* piece can be handed out in one (kfree merges "physically adjacent"      *)
(* free blocks, heap.c:11-12).                                             *)
FreeIsMerged ==
    \A b \in FreeBlocks(heap) : heap.next_phys[b] # Null => heap.next_phys[b] \in heap.used

Pieces == {[at |-> b + Header, size |-> heap.size[b]] : b \in heap.used}

Promised == INSTANCE Allocator WITH Cell <- Addr, Request <- 1..MaxRequest,
                                   Slack <- Header + 1, live <- Pieces

(* Every piece handed out is as large as asked for, inside the region, and *)
(* overlaps no piece in use (kmalloc, kfree, krealloc, heap.c:111-188).    *)
ImplementsAllocator == Promised!AllocatorSpec
=============================================================================
