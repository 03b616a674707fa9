---------------------------- MODULE MemoryProofs ----------------------------
(***************************************************************************)
(* Theorems about the memory of the kernel: its heap, for a region, a      *)
(* header and requests of any size, and the frames of the page allocator,  *)
(* for any number of frames, processes and pages.                          *)
(*                                                                         *)
(* The heap.  Sound adds to the tiling what it means for distances: blocks *)
(* in the order of their addresses do not overlap, and none leaves the     *)
(* region.  Cutting and merging are shown to preserve it one by one; there *)
(* the free list only has to keep its type.  FreeListed says that the list *)
(* is a chain, linked both ways, through the free blocks; pushing a block  *)
(* and taking one out keep a chain, and a chain is walked to its end.      *)
(*                                                                         *)
(* The frames.  The first invariant is OnePlace with the types of the      *)
(* variables and the bounds of the call under way.  Most steps put frames  *)
(* that were free into one address space and leave the others alone        *)
(* (FramesTaken); only munmap and a shrinking break give frames back,      *)
(* those of First.  The second invariant, GivenInv, is about what programs *)
(* were given.  It says that the pages in use are mapped, those a call has *)
(* gone through included, and that the pages the next mmap or brk will map *)
(* are not: so no page in use gets another frame, and no frame is hidden.  *)
(* Every step keeps it and leaves the pages in use where they are          *)
(* (AllStay).                                                              *)
(***************************************************************************)
EXTENDS Heap, Memory, FiniteSetTheorems, WellFoundedInduction, TLAPS

-----------------------------------------------------------------------------
(* The heap. *)

InOrder(h) == \A b, c \in h.blocks : b < c => Behind(h, b) <= c

Inside(h) == \A b \in h.blocks : Behind(h, b) <= End

Sound(h) == Tiles(h) /\ InOrder(h) /\ Inside(h)

(* What the operations on the free list leave alone. *)
SameBlocks(h, g) == /\ g.blocks = h.blocks
                    /\ g.used = h.used
                    /\ g.size = h.size
                    /\ g.prev_phys = h.prev_phys
                    /\ g.next_phys = h.next_phys

(* Soundness does not depend on the free list. *)
LEMMA SameBlocksSound ==
    ASSUME NEW h, NEW g \in HeapType, Sound(h), SameBlocks(h, g)
    PROVE  Sound(g)
  BY DEF Sound, Tiles, InOrder, Inside, Behind, SameBlocks

(* Pushing on and removing from the list keep the type and the blocks. *)
LEMMA PushKeepsType ==
    ASSUME NEW h \in HeapType, NEW b \in Addr
    PROVE  freelist_push(h, b) \in HeapType /\ SameBlocks(h, freelist_push(h, b))
  BY DEF HeapType, freelist_push, SameBlocks, Link

(* So does taking a block off it. *)
LEMMA RemoveKeepsType ==
    ASSUME NEW h \in HeapType, NEW b \in Addr
    PROVE  freelist_remove(h, b) \in HeapType /\ SameBlocks(h, freelist_remove(h, b))
  BY DEF HeapType, freelist_remove, SameBlocks, Link

(* The fields of a heap, by name. *)
LEMMA Fields ==
    ASSUME NEW h \in HeapType
    PROVE  /\ h.blocks \subseteq Addr /\ h.used \subseteq Addr
           /\ h.size \in [Addr -> 0..HeapSize] /\ h.size \in [Addr -> Nat]
           /\ h.prev_phys \in [Addr -> Link] /\ h.next_phys \in [Addr -> Link]
           /\ \A b \in h.blocks : b \in Addr /\ b \in Nat /\ b # Null /\ h.size[b] \in Nat
  <1>1. /\ h.blocks \in SUBSET Addr /\ h.used \in SUBSET Addr
        /\ h.size \in [Addr -> 0..HeapSize]
        /\ h.prev_phys \in [Addr -> Link] /\ h.next_phys \in [Addr -> Link]
    BY DEF HeapType
  <1>2. h.size \in [Addr -> Nat]
    BY <1>1, HeapAssumption
  <1>3. \A b \in Addr : b \in Nat /\ b # Null
    BY DEF Addr, Null
  <1>4. QED
    BY <1>1, <1>2, <1>3

(* Where a cut falls. *)
LEMMA CutInside ==
    ASSUME NEW b \in Addr, NEW s \in Nat, NEW n \in Nat,
           s - n > Header + 1, b + Header + s <= End
    PROVE  /\ b + Header + n \in Addr
           /\ b < b + Header + n
           /\ b + Header + n < b + Header + s
           /\ s - n - Header \in 0..HeapSize
           /\ n \in 0..HeapSize
           /\ (b + Header + n) + Header + (s - n - Header) = b + Header + s
  BY HeapAssumption DEF Addr, End

(* Cutting a block leaves a sound heap with one more block, and nothing    *)
(* changes for the other blocks. *)
LEMMA SplitSound ==
    ASSUME NEW h, Sound(h), NEW b \in h.blocks, NEW n \in Nat,
           h.size[b] - n > Header + 1
    PROVE  /\ b + Header + n \in Addr \ h.blocks
           /\ Sound(Split(h, b, n))
  <1> DEFINE right == b + Header + n
             left  == h.size[b] - n - Header
             g == Split(h, b, n)
  <1>1. /\ h \in HeapType /\ b \in Addr /\ h.size[b] \in Nat
        /\ Behind(h, b) = b + Header + h.size[b] /\ Behind(h, b) <= End
    BY Fields DEF Sound, Tiles, Inside, Behind
  <1>2. /\ right \in Addr /\ b < right /\ right < Behind(h, b)
        /\ left \in 0..HeapSize /\ n \in 0..HeapSize
        /\ right + Header + left = Behind(h, b)
    BY <1>1, CutInside
  <1>3. g.blocks = h.blocks \cup {right} /\ g.used = h.used
    BY <1>1 DEF Split, HeapType
  <1>4. g.size = [h.size EXCEPT ![b] = n, ![right] = left]
    BY <1>1 DEF Split, HeapType
  <1>5. /\ g.prev_phys = [x \in Addr |-> IF x = right THEN b
                              ELSE IF x = h.next_phys[b] THEN right ELSE h.prev_phys[x]]
        /\ g.next_phys = [h.next_phys EXCEPT ![b] = right, ![right] = h.next_phys[b]]
    BY <1>1 DEF Split, HeapType
  <1> HIDE DEF right, left
  <1>6. g \in HeapType
    <2>1. /\ h.blocks \cup {right} \in SUBSET Addr
          /\ [h.size EXCEPT ![b] = n, ![right] = left] \in [Addr -> 0..HeapSize]
      BY <1>1, <1>2, Fields
    <2>2. QED
      BY <1>1, <1>2, <2>1 DEF Split, HeapType, Link, right, left
  <1> HIDE DEF g
  <1>7. right \notin h.blocks
    <2>1. \A c \in h.blocks : b < c => Behind(h, b) <= c
      BY DEF Sound, InOrder
    <2>2. b \in Nat /\ right \in Nat /\ Behind(h, b) \in Nat
      BY <1>1, <1>2, HeapAssumption DEF Addr
    <2>3. QED
      BY <1>2, <2>1, <2>2
  <1>8. /\ Behind(g, b) = right
        /\ Behind(g, right) = Behind(h, b)
        /\ \A c \in h.blocks : c # b => Behind(g, c) = Behind(h, c)
    <2>1. /\ g.size[b] = n /\ g.size[right] = left
          /\ \A c \in h.blocks : c # b => g.size[c] = h.size[c]
      BY <1>1, <1>2, <1>4, <1>7, Fields
    <2>2. QED
      BY <1>2, <2>1 DEF Behind, right
  <1>9. /\ \A c \in h.blocks : c \in Nat /\ Behind(h, c) \in Nat /\ Behind(h, c) <= End
        /\ right \in Nat /\ b \in Nat
    <2>1. \A c \in h.blocks : c \in Nat /\ h.size[c] \in Nat /\ Behind(h, c) <= End
      BY <1>1, Fields DEF Sound, Inside
    <2>2. \A c \in h.blocks : Behind(h, c) \in Nat
      BY <2>1, HeapAssumption DEF Behind
    <2>3. QED
      BY <1>1, <1>2, <2>1, <2>2 DEF Addr
  <1>10. Inside(g)
    BY <1>2, <1>3, <1>8, <1>9, HeapAssumption DEF Inside, End
  <1>11. InOrder(g)
    <2> SUFFICES ASSUME NEW x \in g.blocks, NEW y \in g.blocks, x < y
                 PROVE  Behind(g, x) <= y
      BY DEF InOrder
    <2>1. \A c, d \in h.blocks : c < d => Behind(h, c) <= d
      BY DEF Sound, InOrder
    <2>2. CASE x \in h.blocks /\ y \in h.blocks
      BY <1>2, <1>8, <1>9, <2>1, <2>2
    <2>3. CASE x \in h.blocks /\ y = right
      <3>1. CASE x = b
        BY <1>8, <1>9, <2>3, <3>1
      <3>2. CASE x # b
        BY <1>2, <1>8, <1>9, <2>1, <2>3, <3>2
      <3>3. QED
        BY <3>1, <3>2
    <2>4. CASE x = right /\ y \in h.blocks
      BY <1>2, <1>8, <1>9, <2>1, <2>4
    <2>5. QED
      BY <1>3, <1>9, <2>2, <2>3, <2>4
  <1>12. Tiles(g)
    <2>1. /\ g.next_phys[b] = right
          /\ g.next_phys[right] = h.next_phys[b]
          /\ \A c \in h.blocks : c # b => g.next_phys[c] = h.next_phys[c]
          /\ g.prev_phys[right] = b
          /\ \A c \in h.blocks : c # h.next_phys[b] => g.prev_phys[c] = h.prev_phys[c]
          /\ h.next_phys[b] \in h.blocks => g.prev_phys[h.next_phys[b]] = right
      BY <1>1, <1>2, <1>5, <1>7, Fields
    <2>2. right # Null /\ right # Base
      BY <1>1, <1>2 DEF Addr, Null, Base
    <2>3. \A c \in g.blocks :
             IF g.next_phys[c] = Null
             THEN Behind(g, c) = End
             ELSE /\ g.next_phys[c] = Behind(g, c)
                  /\ g.next_phys[c] \in g.blocks
                  /\ g.prev_phys[g.next_phys[c]] = c
      BY <1>3, <1>7, <1>8, <2>1, <2>2 DEF Sound, Tiles
    <2>4. \A c \in g.blocks :
             IF c = Base
             THEN g.prev_phys[c] = Null
             ELSE g.prev_phys[c] \in g.blocks /\ g.next_phys[g.prev_phys[c]] = c
      <3> SUFFICES ASSUME NEW c \in g.blocks
                   PROVE  IF c = Base
                          THEN g.prev_phys[c] = Null
                          ELSE g.prev_phys[c] \in g.blocks /\ g.next_phys[g.prev_phys[c]] = c
        OBVIOUS
      <3>1. CASE c = right
        BY <1>3, <2>1, <2>2, <3>1
      <3>2. CASE c \in h.blocks /\ c = h.next_phys[b]
        <4>1. c # Base
          <5>1. c # Null /\ b # Null
            BY <1>1, <3>2, Fields
          <5>2. h.prev_phys[c] = b
            BY <3>2, <5>1 DEF Sound, Tiles
          <5>3. QED
            BY <5>1, <5>2, <3>2 DEF Sound, Tiles
        <4>2. QED
          BY <1>3, <2>1, <3>2, <4>1
      <3>3. CASE c \in h.blocks /\ c # h.next_phys[b]
        BY <1>3, <2>1, <3>3 DEF Sound, Tiles
      <3>4. QED
        BY <1>3, <3>1, <3>2, <3>3
    <2>5. QED
      BY <1>3, <1>6, <2>3, <2>4 DEF Sound, Tiles
  <1>13. QED
    BY <1>2, <1>7, <1>10, <1>11, <1>12 DEF Sound, right, g

(* Merging two neighbours leaves a sound heap with one block less. *)
LEMMA AbsorbSound ==
    ASSUME NEW h, Sound(h), NEW b \in h.blocks, NEW r \in h.blocks \ h.used,
           h.next_phys[b] = r
    PROVE  Sound(Absorb(h, b, r))
  <1> DEFINE g == Absorb(h, b, r)
             s == h.size[b] + Header + h.size[r]
  <1>1. /\ h \in HeapType /\ b \in Addr /\ r \in Addr
        /\ h.size[b] \in Nat /\ h.size[r] \in Nat
        /\ r = Behind(h, b) /\ h.prev_phys[r] = b
        /\ Behind(h, r) <= End
    <2>1. h \in HeapType /\ b \in Addr /\ r \in Addr
      BY Fields DEF Sound, Tiles
    <2>2. r # Null
      BY <2>1 DEF Addr, Null
    <2>3. QED
      BY <2>1, <2>2, Fields DEF Sound, Tiles, Inside
  <1>2. /\ s \in 0..HeapSize /\ b < r /\ r # Base /\ b + Header + s = Behind(h, r)
    BY <1>1, HeapAssumption DEF Behind, Addr, End, Base
  <1>3. g.blocks = h.blocks \ {r} /\ g.used = h.used
    BY <1>1 DEF Absorb, HeapType
  <1>4. g.size = [h.size EXCEPT ![b] = s, ![r] = 0]
    BY <1>1 DEF Absorb, HeapType
  <1>5. /\ g.prev_phys = [x \in Addr |-> IF x = r THEN Null
                              ELSE IF x = h.next_phys[r] THEN b ELSE h.prev_phys[x]]
        /\ g.next_phys = [h.next_phys EXCEPT ![b] = h.next_phys[r], ![r] = Null]
    BY <1>1, Zenon DEF Absorb, HeapType
  <1> HIDE DEF s
  <1>6. g \in HeapType
    <2>1. /\ h.blocks \ {r} \in SUBSET Addr
          /\ [h.size EXCEPT ![b] = s, ![r] = 0] \in [Addr -> 0..HeapSize]
      BY <1>1, <1>2, HeapAssumption, Fields
    <2>2. /\ [x \in Addr |-> IF x = r THEN Null
                             ELSE IF x = h.next_phys[r] THEN b ELSE h.prev_phys[x]]
                 \in [Addr -> Link]
          /\ [h.next_phys EXCEPT ![b] = h.next_phys[r], ![r] = Null] \in [Addr -> Link]
      BY <1>1, Fields DEF Link
    <2>3. QED
      BY <1>1, <2>1, <2>2 DEF Absorb, HeapType, s
  <1> HIDE DEF g
  <1>7. /\ Behind(g, b) = Behind(h, r)
        /\ \A c \in h.blocks \ {b, r} : Behind(g, c) = Behind(h, c)
    <2>1. /\ g.size[b] = s
          /\ \A c \in h.blocks \ {b, r} : g.size[c] = h.size[c]
      <3>1. b # r
        BY <1>1, <1>2 DEF Addr
      <3>2. QED
        BY <1>1, <1>4, <3>1, Fields
    <2>2. QED
      BY <1>2, <2>1 DEF Behind
  <1>8. /\ \A c \in h.blocks : c \in Nat /\ Behind(h, c) \in Nat /\ Behind(h, c) <= End
        /\ r \in Nat /\ b \in Nat
    <2>1. \A c \in h.blocks : c \in Nat /\ h.size[c] \in Nat /\ Behind(h, c) <= End
      BY <1>1, Fields DEF Sound, Inside
    <2>2. \A c \in h.blocks : Behind(h, c) \in Nat
      BY <2>1, HeapAssumption DEF Behind
    <2>3. QED
      BY <2>1, <2>2
  <1>9. Inside(g)
    BY <1>3, <1>7, <1>8 DEF Inside
  <1>10. InOrder(g)
    <2> SUFFICES ASSUME NEW x \in g.blocks, NEW y \in g.blocks, x < y
                 PROVE  Behind(g, x) <= y
      BY DEF InOrder
    <2>1. \A c, d \in h.blocks : c < d => Behind(h, c) <= d
      BY DEF Sound, InOrder
    <2>2. x \in h.blocks /\ y \in h.blocks /\ x # r /\ y # r
      BY <1>3
    <2>3. CASE x = b
      BY <1>1, <1>7, <1>8, <2>1, <2>2, <2>3
    <2>4. CASE x # b
      BY <1>7, <2>1, <2>2, <2>4
    <2>5. QED
      BY <2>3, <2>4
  <1>11. Tiles(g)
    <2>1. /\ g.next_phys[b] = h.next_phys[r]
          /\ \A c \in h.blocks \ {b, r} : g.next_phys[c] = h.next_phys[c]
          /\ \A c \in h.blocks \ {r} : c # h.next_phys[r] => g.prev_phys[c] = h.prev_phys[c]
          /\ h.next_phys[r] \in h.blocks \ {r} => g.prev_phys[h.next_phys[r]] = b
      <3>1. b # r
        BY <1>1, <1>2 DEF Addr
      <3>2. QED
        BY <1>1, <1>5, <3>1, Fields
    <2>2. h.next_phys[r] # r
      <3>1. Behind(h, r) # r /\ r # Null
        BY <1>1, HeapAssumption, Fields DEF Behind
      <3>2. QED
        BY <3>1 DEF Sound, Tiles
    <2>3. \A c \in g.blocks :
             IF g.next_phys[c] = Null
             THEN Behind(g, c) = End
             ELSE /\ g.next_phys[c] = Behind(g, c)
                  /\ g.next_phys[c] \in g.blocks
                  /\ g.prev_phys[g.next_phys[c]] = c
      BY <1>1, <1>3, <1>7, <2>1, <2>2 DEF Sound, Tiles
    <2>4. \A c \in g.blocks :
             IF c = Base
             THEN g.prev_phys[c] = Null
             ELSE g.prev_phys[c] \in g.blocks /\ g.next_phys[g.prev_phys[c]] = c
      <3> SUFFICES ASSUME NEW c \in g.blocks
                   PROVE  IF c = Base
                          THEN g.prev_phys[c] = Null
                          ELSE g.prev_phys[c] \in g.blocks /\ g.next_phys[g.prev_phys[c]] = c
        OBVIOUS
      <3>1. c \in h.blocks /\ c # r /\ c # Null /\ r # Null /\ b # r
        BY <1>1, <1>2, <1>3, Fields DEF Addr
      <3>2. CASE c = h.next_phys[r]
        <4>1. h.prev_phys[c] = r
          BY <3>1, <3>2 DEF Sound, Tiles
        <4>2. c # Base
          BY <3>1, <4>1 DEF Sound, Tiles
        <4>3. QED
          BY <1>3, <2>1, <3>1, <3>2, <4>2
      <3>3. CASE c # h.next_phys[r]
        <4>1. g.prev_phys[c] = h.prev_phys[c]
          BY <2>1, <3>1, <3>3
        <4>2. CASE c = Base
          BY <4>1, <4>2 DEF Sound, Tiles
        <4>3. CASE c # Base
          <5>1. /\ h.prev_phys[c] \in h.blocks
                /\ h.next_phys[h.prev_phys[c]] = c
            BY <3>1, <4>3 DEF Sound, Tiles
          <5>2. h.prev_phys[c] # b /\ h.prev_phys[c] # r
            BY <3>1, <3>3, <5>1
          <5>3. QED
            BY <1>3, <2>1, <4>1, <4>3, <5>1, <5>2
        <4>4. QED
          BY <4>2, <4>3
      <3>4. QED
        BY <3>2, <3>3
    <2>5. QED
      BY <1>2, <1>3, <1>6, <2>3, <2>4 DEF Sound, Tiles
  <1>12. QED
    BY <1>9, <1>10, <1>11 DEF Sound, g

(* What cutting and merging do to the blocks they are not about. *)
LEMMA SplitEffect ==
    ASSUME NEW h \in HeapType, NEW b \in Addr, NEW n \in Nat,
           b + Header + n \in Addr, b # b + Header + n
    PROVE  LET g == Split(h, b, n)
               right == b + Header + n
           IN /\ g.blocks = h.blocks \cup {right}
              /\ g.used = h.used
              /\ g.size[b] = n
              /\ g.next_phys[b] = right
              /\ g.next_phys[right] = h.next_phys[b]
              /\ \A c \in Addr \ {b, right} : /\ g.size[c] = h.size[c]
                                              /\ g.next_phys[c] = h.next_phys[c]
  <1> DEFINE right == b + Header + n
             left  == h.size[b] - n - Header
             g == Split(h, b, n)
  <1>1. /\ g.blocks = h.blocks \cup {right}
        /\ g.used = h.used
        /\ g.size = [h.size EXCEPT ![b] = n, ![right] = left]
        /\ g.next_phys = [h.next_phys EXCEPT ![b] = right, ![right] = h.next_phys[b]]
    BY DEF Split, HeapType
  <1> HIDE DEF left, g
  <1>2. right \in Addr /\ b # right
    OBVIOUS
  <1> HIDE DEF right
  <1>3. QED
    BY <1>1, <1>2, Fields DEF g, right

(* What a merge with the block to the right leaves of the other blocks. *)
LEMMA AbsorbEffect ==
    ASSUME NEW h \in HeapType, NEW b \in Addr, NEW r \in Addr, b # r
    PROVE  LET g == Absorb(h, b, r)
           IN /\ g.blocks = h.blocks \ {r}
              /\ g.used = h.used
              /\ g.next_phys[b] = h.next_phys[r]
              /\ \A c \in Addr \ {b, r} : /\ g.size[c] = h.size[c]
                                          /\ g.next_phys[c] = h.next_phys[c]
  <1> DEFINE s == h.size[b] + Header + h.size[r]
             g == Absorb(h, b, r)
  <1>1. /\ g.blocks = h.blocks \ {r}
        /\ g.used = h.used
        /\ g.size = [h.size EXCEPT ![b] = s, ![r] = 0]
        /\ g.next_phys = [h.next_phys EXCEPT ![b] = h.next_phys[r], ![r] = Null]
    BY DEF Absorb, HeapType
  <1> HIDE DEF s, g
  <1>2. QED
    BY <1>1, Fields DEF g

(* Marking blocks as used or free does not move them. *)
LEMMA UsedSound ==
    ASSUME NEW h, Sound(h), NEW U \in SUBSET h.blocks
    PROVE  LET g == [h EXCEPT !.used = U]
           IN /\ Sound(g)
              /\ g.blocks = h.blocks /\ g.used = U /\ g.size = h.size
              /\ g.next_phys = h.next_phys /\ g.prev_phys = h.prev_phys
  <1> DEFINE g == [h EXCEPT !.used = U]
  <1>1. h \in HeapType
    BY DEF Sound, Tiles
  <1>2. /\ g.blocks = h.blocks /\ g.used = U /\ g.size = h.size
        /\ g.prev_phys = h.prev_phys /\ g.next_phys = h.next_phys
    BY <1>1 DEF HeapType
  <1>3. g \in HeapType
    BY <1>1 DEF HeapType
  <1> HIDE DEF g
  <1>4. Sound(g)
    BY <1>2, <1>3 DEF Sound, Tiles, InOrder, Inside, Behind
  <1>5. QED
    BY <1>2, <1>4 DEF g

-----------------------------------------------------------------------------
(* No two free blocks are neighbours: FreeIsMerged, of any heap. *)
Merged(h) ==
    \A c \in FreeBlocks(h) : h.next_phys[c] # Null => h.next_phys[c] \in h.used

(* The same but for block x, whose left (right) neighbour may be free too. *)
MergedButLeft(h, x) ==
    \A c \in FreeBlocks(h) :
       h.next_phys[c] # Null /\ h.next_phys[c] # x => h.next_phys[c] \in h.used

MergedButAround(h, x) ==
    \A c \in FreeBlocks(h) \ {x} :
       h.next_phys[c] # Null /\ h.next_phys[c] # x => h.next_phys[c] \in h.used

(* kmalloc hands out b and keeps the heap sound and merged; the pieces in  *)
(* use stay as they are. *)
LEMMA KmallocSound ==
    ASSUME NEW h, Sound(h), Merged(h),
           NEW b \in FreeBlocks(h), NEW n \in Nat, h.size[b] >= n
    PROVE  LET g == kmalloc(h, n, b)
           IN /\ Sound(g) /\ Merged(g)
              /\ g.used = h.used \cup {b}
              /\ g.size[b] \in n..(n + Header + 1)
              /\ \A c \in h.used : g.size[c] = h.size[c]
  <1> DEFINE right == b + Header + n
             cut == IF h.size[b] - n > Header + 1
                    THEN freelist_push(Split(h, b, n), right)
                    ELSE h
             out == freelist_remove(cut, b)
             g == [out EXCEPT !.used = @ \cup {b}]
  <1>1. /\ h \in HeapType /\ b \in h.blocks /\ b \in Addr /\ b \notin h.used
        /\ h.used \subseteq h.blocks /\ h.blocks \subseteq Addr /\ h.size[b] \in Nat
    BY Fields DEF Sound, Tiles, FreeBlocks
  <1>2. /\ Sound(cut) /\ cut \in HeapType /\ b \in cut.blocks
        /\ cut.used = h.used
        /\ cut.size[b] \in n..(n + Header + 1)
        /\ \A c \in h.used : cut.size[c] = h.size[c]
        /\ \A c \in FreeBlocks(cut) \ {b} :
              cut.next_phys[c] # Null => cut.next_phys[c] \in h.used
    <2>1. CASE h.size[b] - n > Header + 1
      <3> DEFINE p == Split(h, b, n)
                 q == freelist_push(p, right)
      <3>1. right \in Addr \ h.blocks /\ Sound(p)
        BY <1>1, <2>1, SplitSound
      <3>2. /\ p.blocks = h.blocks \cup {right}
            /\ p.used = h.used
            /\ p.size[b] = n
            /\ p.next_phys[right] = h.next_phys[b]
            /\ \A c \in Addr \ {b, right} : /\ p.size[c] = h.size[c]
                                            /\ p.next_phys[c] = h.next_phys[c]
        <4>1. right \in Addr /\ b # right
          BY <1>1, <3>1
        <4>2. QED
          BY <1>1, <4>1, SplitEffect
      <3>3. p \in HeapType
        BY <3>1 DEF Sound, Tiles
      <3> HIDE DEF p, right
      <3>4. q \in HeapType /\ SameBlocks(p, q)
        BY <3>1, <3>3, PushKeepsType
      <3> HIDE DEF q
      <3>5. Sound(q)
        BY <3>1, <3>4, SameBlocksSound
      <3>6. /\ q.blocks = h.blocks \cup {right} /\ q.used = h.used
            /\ q.size = p.size /\ q.next_phys = p.next_phys
        BY <3>2, <3>4 DEF SameBlocks
      <3>7. n \in n..(n + Header + 1)
        BY HeapAssumption
      <3>8. \A c \in h.used : q.size[c] = h.size[c]
        BY <1>1, <3>1, <3>2, <3>6
      <3>9. \A c \in FreeBlocks(q) \ {b} :
               q.next_phys[c] # Null => q.next_phys[c] \in h.used
        <4> SUFFICES ASSUME NEW c \in FreeBlocks(q) \ {b}, q.next_phys[c] # Null
                     PROVE  q.next_phys[c] \in h.used
          OBVIOUS
        <4>1. CASE c = right
          BY <3>2, <3>6, <4>1 DEF Merged
        <4>2. CASE c # right
          <5>1. c \in FreeBlocks(h) /\ c \in Addr \ {b, right}
            BY <1>1, <3>6, <4>2 DEF FreeBlocks
          <5>2. QED
            BY <3>2, <3>6, <5>1 DEF Merged
        <4>3. QED
          BY <4>1, <4>2
      <3>10. cut = q
        BY <2>1 DEF q, p, right
      <3> HIDE DEF cut
      <3>11. QED
        BY <1>1, <3>2, <3>4, <3>5, <3>6, <3>7, <3>8, <3>9, <3>10
    <2>2. CASE ~ (h.size[b] - n > Header + 1)
      <3>1. cut = h
        BY <2>2
      <3>2. h.size[b] \in n..(n + Header + 1)
        BY <1>1, <2>2, HeapAssumption
      <3> HIDE DEF cut
      <3>3. QED
        BY <1>1, <3>1, <3>2 DEF Merged
    <2>3. QED
      BY <2>1, <2>2
  <1> HIDE DEF cut
  <1>3. out \in HeapType /\ SameBlocks(cut, out)
    BY <1>1, <1>2, RemoveKeepsType
  <1> HIDE DEF out
  <1>4. Sound(out)
    BY <1>2, <1>3, SameBlocksSound
  <1>5. /\ out.blocks = cut.blocks /\ out.used = h.used
        /\ out.size = cut.size /\ out.next_phys = cut.next_phys
    BY <1>2, <1>3 DEF SameBlocks
  <1>6. out.used \cup {b} \in SUBSET out.blocks
    BY <1>2, <1>4, <1>5 DEF Sound, Tiles
  <1>7. g = [out EXCEPT !.used = out.used \cup {b}]
    OBVIOUS
  <1>8. /\ Sound(g) /\ g.blocks = cut.blocks /\ g.used = h.used \cup {b}
        /\ g.size = cut.size /\ g.next_phys = cut.next_phys
    BY <1>4, <1>5, <1>6, <1>7, UsedSound
  <1>9. g = kmalloc(h, n, b)
    BY DEF kmalloc, out, cut
  <1> HIDE DEF g
  <1>10. Merged(g)
    BY <1>2, <1>8 DEF Merged, FreeBlocks
  <1>11. QED
    BY <1>2, <1>8, <1>9, <1>10

(* A block's right neighbour lies behind it and names it. *)
LEMMA Neighbour ==
    ASSUME NEW h, Sound(h), NEW b \in h.blocks, h.next_phys[b] # Null
    PROVE  /\ h.next_phys[b] \in h.blocks
           /\ h.next_phys[b] # b
           /\ h.prev_phys[h.next_phys[b]] = b
  <1>1. /\ h \in HeapType
        /\ h.next_phys[b] \in h.blocks
        /\ h.next_phys[b] = Behind(h, b)
        /\ h.prev_phys[h.next_phys[b]] = b
    BY DEF Sound, Tiles
  <1>2. Behind(h, b) # b
    BY <1>1, Fields, HeapAssumption DEF Behind
  <1>3. QED
    BY <1>1, <1>2

(* Looking right: afterwards only the left neighbour of b may be free. *)
LEMMA MergeRightSound ==
    ASSUME NEW h, Sound(h), NEW b \in FreeBlocks(h), MergedButAround(h, b)
    PROVE  LET g == MergeRight(h, b)
           IN /\ Sound(g)
              /\ MergedButLeft(g, b)
              /\ b \in FreeBlocks(g)
              /\ g.used = h.used
              /\ \A c \in h.used : g.size[c] = h.size[c]
  <1> DEFINE r == h.next_phys[b]
             q == freelist_remove(h, r)
             g == Absorb(q, b, r)
  <1>1. h \in HeapType /\ b \in h.blocks /\ b \notin h.used
    BY DEF FreeBlocks, Sound, Tiles
  <1>2. h.blocks \subseteq Addr /\ h.used \subseteq h.blocks
    BY <1>1, Fields DEF Sound, Tiles
  <1>3. CASE IsFree(h, r)
    <2>1. r # Null /\ r \notin h.used
      BY <1>3 DEF IsFree
    <2>2. r \in h.blocks /\ r # b
      BY <1>1, <2>1, Neighbour
    <2>3. q \in HeapType /\ SameBlocks(h, q)
      BY <1>1, <1>2, <2>2, RemoveKeepsType
    <2>4. MergeRight(h, b) = g
      BY <1>3 DEF MergeRight
    <2> HIDE DEF q
    <2>5. Sound(q)
      BY <2>3, SameBlocksSound
    <2>6. /\ q.blocks = h.blocks /\ q.used = h.used
          /\ q.size = h.size /\ q.next_phys = h.next_phys
      BY <2>3 DEF SameBlocks
    <2>7. Sound(g)
      BY <1>1, <2>1, <2>2, <2>5, <2>6, AbsorbSound
    <2>8. /\ g.blocks = h.blocks \ {r} /\ g.used = h.used
          /\ g.next_phys[b] = h.next_phys[r]
          /\ \A c \in Addr \ {b, r} : /\ g.size[c] = h.size[c]
                                      /\ g.next_phys[c] = h.next_phys[c]
      BY <1>1, <1>2, <2>2, <2>3, <2>6, AbsorbEffect
    <2> HIDE DEF g
    <2>9. b \in FreeBlocks(g) /\ \A c \in h.used : g.size[c] = h.size[c]
      BY <1>1, <1>2, <2>1, <2>2, <2>8 DEF FreeBlocks
    <2>10. MergedButLeft(g, b)
      <3> SUFFICES ASSUME NEW c \in FreeBlocks(g),
                          g.next_phys[c] # Null, g.next_phys[c] # b
                   PROVE  g.next_phys[c] \in h.used
        BY <2>8 DEF MergedButLeft
      <3>1. CASE c = b
        <4>1. r \in FreeBlocks(h) \ {b}
          BY <2>1, <2>2 DEF FreeBlocks
        <4>2. QED
          BY <2>8, <3>1, <4>1 DEF MergedButAround
      <3>2. CASE c # b
        <4>1. c \in FreeBlocks(h) \ {b} /\ c # r /\ c \in Addr
          BY <1>2, <2>8, <3>2 DEF FreeBlocks
        <4>2. QED
          BY <2>8, <4>1 DEF MergedButAround
      <3>3. QED
        BY <3>1, <3>2
    <2>11. QED
      BY <2>4, <2>7, <2>8, <2>9, <2>10
  <1>4. CASE ~ IsFree(h, r)
    <2>1. MergeRight(h, b) = h
      BY <1>4 DEF MergeRight
    <2>2. MergedButLeft(h, b)
      BY <1>4 DEF MergedButLeft, MergedButAround, IsFree
    <2>3. QED
      BY <2>1, <2>2
  <1>5. QED
    BY <1>3, <1>4

(* Looking left: afterwards no two free blocks are neighbours. *)
LEMMA MergeLeftSound ==
    ASSUME NEW h, Sound(h), NEW b \in FreeBlocks(h), MergedButLeft(h, b)
    PROVE  LET g == MergeLeft(h, b)
           IN /\ Sound(g)
              /\ Merged(g)
              /\ g.used = h.used
              /\ \A c \in h.used : g.size[c] = h.size[c]
  <1> DEFINE l == h.prev_phys[b]
             q == freelist_remove(h, b)
             g == Absorb(q, l, b)
  <1>1. h \in HeapType /\ b \in h.blocks /\ b \notin h.used
    BY DEF FreeBlocks, Sound, Tiles
  <1>2. h.blocks \subseteq Addr /\ h.used \subseteq h.blocks /\ Null \notin h.blocks
    BY <1>1, Fields DEF Sound, Tiles
  <1>3. \A c \in h.blocks : h.next_phys[c] = b => c = l
    BY <1>1, <1>2, Neighbour
  <1>4. CASE IsFree(h, l)
    <2>1. l # Null /\ l \notin h.used
      BY <1>4 DEF IsFree
    <2>2. l \in h.blocks /\ h.next_phys[l] = b
      BY <1>1, <2>1 DEF Sound, Tiles
    <2>3. l # b
      BY <1>1, <1>2, <2>2, Neighbour
    <2>4. q \in HeapType /\ SameBlocks(h, q)
      BY <1>1, <1>2, RemoveKeepsType
    <2>5. MergeLeft(h, b) = g
      BY <1>4 DEF MergeLeft
    <2> HIDE DEF q
    <2>6. Sound(q)
      BY <2>4, SameBlocksSound
    <2>7. /\ q.blocks = h.blocks /\ q.used = h.used
          /\ q.size = h.size /\ q.next_phys = h.next_phys
      BY <2>4 DEF SameBlocks
    <2>8. Sound(g)
      BY <1>1, <2>2, <2>6, <2>7, AbsorbSound
    <2>9. /\ g.blocks = h.blocks \ {b} /\ g.used = h.used
          /\ g.next_phys[l] = h.next_phys[b]
          /\ \A c \in Addr \ {l, b} : /\ g.size[c] = h.size[c]
                                      /\ g.next_phys[c] = h.next_phys[c]
      BY <1>1, <1>2, <2>2, <2>3, <2>4, <2>7, AbsorbEffect
    <2> HIDE DEF g
    <2>10. \A c \in h.used : g.size[c] = h.size[c]
      BY <1>1, <1>2, <2>1, <2>9
    <2>11. Merged(g)
      <3> SUFFICES ASSUME NEW c \in FreeBlocks(g), g.next_phys[c] # Null
                   PROVE  g.next_phys[c] \in h.used
        BY <2>9 DEF Merged
      <3>1. CASE c = l
        <4>1. h.next_phys[b] # Null /\ h.next_phys[b] # b
          BY <1>1, <2>9, <3>1, Neighbour
        <4>2. QED
          BY <2>9, <3>1, <4>1 DEF MergedButLeft
      <3>2. CASE c # l
        <4>1. c \in FreeBlocks(h) /\ c \in Addr \ {l, b}
          BY <1>2, <2>9, <3>2 DEF FreeBlocks
        <4>2. h.next_phys[c] # b
          BY <1>3, <3>2, <4>1 DEF FreeBlocks
        <4>3. QED
          BY <2>9, <4>1, <4>2 DEF MergedButLeft
      <3>3. QED
        BY <3>1, <3>2
    <2>12. QED
      BY <2>5, <2>8, <2>9, <2>10, <2>11
  <1>5. CASE ~ IsFree(h, l)
    <2>1. MergeLeft(h, b) = h
      BY <1>5 DEF MergeLeft
    <2>2. \A c \in FreeBlocks(h) : h.next_phys[c] # b
      BY <1>2, <1>3, <1>5 DEF FreeBlocks, IsFree
    <2>3. Merged(h)
      BY <2>2 DEF Merged, MergedButLeft
    <2>4. QED
      BY <2>1, <2>3
  <1>6. QED
    BY <1>4, <1>5

(* kfree takes back b and nothing else. *)
LEMMA KfreeSound ==
    ASSUME NEW h, Sound(h), Merged(h), NEW b \in h.used
    PROVE  LET g == kfree(h, b)
           IN /\ Sound(g)
              /\ Merged(g)
              /\ g.used = h.used \ {b}
              /\ \A c \in g.used : g.size[c] = h.size[c]
  <1> DEFINE f == [h EXCEPT !.used = h.used \ {b}]
             p == freelist_push(f, b)
             m == MergeRight(p, b)
  <1>1. /\ b \in Addr /\ b \in h.blocks /\ h.used \ {b} \in SUBSET h.blocks
        /\ h.blocks \subseteq Addr
    BY Fields DEF Sound, Tiles
  <1>2. /\ Sound(f) /\ f.blocks = h.blocks /\ f.used = h.used \ {b}
        /\ f.size = h.size /\ f.next_phys = h.next_phys
    BY <1>1, UsedSound
  <1>3. kfree(h, b) = MergeLeft(m, b)
    BY DEF kfree
  <1> HIDE DEF f
  <1>4. p \in HeapType /\ SameBlocks(f, p)
    BY <1>1, <1>2, PushKeepsType DEF Sound, Tiles
  <1> HIDE DEF p
  <1>5. Sound(p)
    BY <1>2, <1>4, SameBlocksSound
  <1>6. /\ p.blocks = h.blocks /\ p.used = h.used \ {b}
        /\ p.size = h.size /\ p.next_phys = h.next_phys
    BY <1>2, <1>4 DEF SameBlocks
  <1>7. b \in FreeBlocks(p) /\ MergedButAround(p, b)
    BY <1>1, <1>6 DEF FreeBlocks, Merged, MergedButAround
  <1>8. /\ Sound(m) /\ MergedButLeft(m, b) /\ b \in FreeBlocks(m)
        /\ m.used = p.used /\ \A c \in p.used : m.size[c] = p.size[c]
    BY <1>5, <1>7, MergeRightSound
  <1> HIDE DEF m
  <1>9. LET g == MergeLeft(m, b)
        IN /\ Sound(g) /\ Merged(g) /\ g.used = m.used
           /\ \A c \in m.used : g.size[c] = m.size[c]
    BY <1>8, MergeLeftSound
  <1>10. QED
    BY <1>3, <1>6, <1>8, <1>9

-----------------------------------------------------------------------------
HeapInv == Sound(heap) /\ Merged(heap)

(* The region starts as one free block. *)
LEMMA InitHeap == HeapInit => HeapInv
  <1> SUFFICES ASSUME HeapInit PROVE HeapInv
    OBVIOUS
  <1>1. /\ heap.blocks = {Base} /\ heap.used = {}
        /\ heap.size[Base] = HeapSize - Header
        /\ heap.prev_phys[Base] = Null /\ heap.next_phys[Base] = Null
    BY HeapAssumption DEF HeapInit, Addr, Base
  <1>2. Base \in Addr /\ HeapSize - Header \in 0..HeapSize /\ Null \in Link
    BY HeapAssumption DEF Addr, Base, Link
  <1>3. heap \in HeapType
    BY <1>2, HeapAssumption DEF HeapInit, HeapType, Link
  <1>4. Behind(heap, Base) = End
    BY <1>1, HeapAssumption DEF Behind, Base, End
  <1>5. Tiles(heap)
    BY <1>1, <1>3, <1>4 DEF Tiles
  <1>6. InOrder(heap) /\ Inside(heap)
    BY <1>1, <1>4, HeapAssumption DEF InOrder, Inside, End, Base
  <1>7. Merged(heap)
    BY <1>1 DEF Merged, FreeBlocks
  <1>8. QED
    BY <1>5, <1>6, <1>7 DEF HeapInv, Sound

(* One call: allocate, release, or both for a block that grows. *)
LEMMA StepHeap ==
    ASSUME HeapInv, HeapNext
    PROVE  HeapInv'
  <1>1. Sound(heap) /\ Merged(heap) /\ heap.used \subseteq heap.blocks
    BY DEF HeapInv, Sound, Tiles
  <1>2. ASSUME NEW n \in 1..MaxRequest, Malloc(n)
        PROVE  HeapInv'
    BY <1>1, <1>2, KmallocSound, HeapAssumption DEF Malloc, FirstFit, HeapInv
  <1>3. ASSUME NEW b \in Addr, Free(b)
        PROVE  HeapInv'
    BY <1>1, <1>3, KfreeSound DEF Free, HeapInv
  <1>4. ASSUME NEW b \in Addr, NEW n \in 1..MaxRequest, Realloc(b, n)
        PROVE  HeapInv'
    <2>1. PICK c \in FreeBlocks(heap) : heap.size[c] >= n /\ heap' = kfree(kmalloc(heap, n, c), b)
      BY <1>4 DEF Realloc, FirstFit
    <2> DEFINE m == kmalloc(heap, n, c)
    <2>2. Sound(m) /\ Merged(m) /\ m.used = heap.used \cup {c}
      BY <1>1, <2>1, KmallocSound, HeapAssumption
    <2>3. b \in m.used
      BY <1>4, <2>2 DEF Realloc
    <2>4. heap' = kfree(m, b)
      BY <2>1
    <2> HIDE DEF m
    <2>5. QED
      BY <2>2, <2>3, <2>4, KfreeSound DEF HeapInv
  <1>5. QED
    BY <1>2, <1>3, <1>4 DEF HeapNext

(* Every call keeps the heap sound and merged (kmalloc, kfree, krealloc,    *)
(* heap.c:111-188).                                                        *)
THEOREM HeapKeepsInv == HeapSpec => []HeapInv
  <1>1. HeapInv /\ [HeapNext]_heap => HeapInv'
    BY StepHeap DEF HeapInv
  <1>2. QED
    BY <1>1, InitHeap, PTL DEF HeapSpec

(* The blocks always tile the region: no sequence of cuts and merges loses *)
(* or doubles memory (heap.c:124-135, 156-170).                            *)
THEOREM HeapTiles == HeapSpec => []BlocksTile
  <1>1. HeapInv => BlocksTile
    BY DEF HeapInv, Sound, BlocksTile
  <1>2. QED
    BY <1>1, HeapKeepsInv, PTL

(* Two free blocks are never neighbours: kfree merges to both sides        *)
(* (heap.c:156-170).                                                       *)
THEOREM HeapMerges == HeapSpec => []FreeIsMerged
  <1>1. HeapInv => FreeIsMerged
    BY DEF HeapInv, Merged, FreeIsMerged
  <1>2. QED
    BY <1>1, HeapKeepsInv, PTL

-----------------------------------------------------------------------------
PieceOf(h, b) == [at |-> b + Header, size |-> h.size[b]]

PiecesOf(h) == {PieceOf(h, b) : b \in h.used}

(* The memory of two blocks does not overlap, and lies in the region. *)
LEMMA PiecesApart ==
    ASSUME NEW h, Sound(h), NEW b \in h.blocks, NEW c \in h.blocks
    PROVE  /\ Promised!Cells(PieceOf(h, b)) \subseteq Addr
           /\ b # c => Promised!Cells(PieceOf(h, b)) \cap Promised!Cells(PieceOf(h, c)) = {}
  <1>1. /\ b \in Nat /\ b >= 1 /\ c \in Nat /\ h.size[b] \in Nat /\ h.size[c] \in Nat
    BY Fields DEF Sound, Tiles, Addr
  <1>2. /\ b + Header + h.size[b] <= HeapSize + 1
        /\ b < c => b + Header + h.size[b] <= c
        /\ c < b => c + Header + h.size[c] <= b
    BY DEF Sound, Inside, InOrder, Behind, End
  <1>3. /\ Promised!Cells(PieceOf(h, b)) = (b + Header)..(b + Header + h.size[b] - 1)
        /\ Promised!Cells(PieceOf(h, c)) = (c + Header)..(c + Header + h.size[c] - 1)
    BY DEF Promised!Cells, PieceOf
  <1> DEFINE sb == h.size[b]
             sc == h.size[c]
  <1> HIDE DEF sb, sc
  <1>4. /\ (b + Header)..(b + Header + sb - 1) \subseteq Addr
        /\ b # c => (b + Header)..(b + Header + sb - 1) \cap (c + Header)..(c + Header + sc - 1) = {}
    BY <1>1, <1>2, HeapAssumption DEF Addr, sb, sc
  <1>5. QED
    BY <1>3, <1>4 DEF sb, sc

(* Two blocks are never the same piece. *)
LEMMA PiecesDiffer ==
    ASSUME NEW h, NEW g, NEW b \in Addr, NEW c \in Addr, b # c
    PROVE  PieceOf(h, b) # PieceOf(g, c)
  <1>1. b + Header # c + Header
    BY HeapAssumption DEF Addr
  <1>2. QED
    BY <1>1 DEF PieceOf

(* kmalloc hands out one piece more, and it fits among those in use. *)
LEMMA KmallocAllocates ==
    ASSUME NEW h, Sound(h), Merged(h),
           NEW b \in FreeBlocks(h), NEW n \in Nat \ {0}, h.size[b] >= n
    PROVE  LET g == kmalloc(h, n, b)
               p == PieceOf(g, b)
           IN /\ PiecesOf(g) = PiecesOf(h) \cup {p}
              /\ p.size \in n..(n + Header + 1)
              /\ p.at \in Addr
              /\ Promised!Cells(p) \subseteq Addr
              /\ \A q \in PiecesOf(h) : Promised!Cells(p) \cap Promised!Cells(q) = {}
  <1> DEFINE g == kmalloc(h, n, b)
             p == PieceOf(g, b)
  <1>1. /\ Sound(g) /\ g.used = h.used \cup {b}
        /\ g.size[b] \in n..(n + Header + 1)
        /\ \A c \in h.used : g.size[c] = h.size[c]
    BY KmallocSound
  <1> HIDE DEF g
  <1>2. \A c \in h.used : PieceOf(g, c) = PieceOf(h, c)
    BY <1>1 DEF PieceOf
  <1>3. PiecesOf(g) = PiecesOf(h) \cup {p}
    BY <1>1, <1>2 DEF PiecesOf
  <1>4. /\ g.used \subseteq g.blocks /\ b \notin h.used
        /\ b \in g.blocks
    BY <1>1 DEF Sound, Tiles, FreeBlocks
  <1>5. /\ Promised!Cells(p) \subseteq Addr
        /\ \A c \in h.used : Promised!Cells(p) \cap Promised!Cells(PieceOf(g, c)) = {}
    BY <1>1, <1>4, PiecesApart
  <1>6. p.size = g.size[b] /\ p.at = b + Header
    BY DEF PieceOf
  <1>7. p.at \in Promised!Cells(p)
    BY <1>1, <1>4, <1>6, Fields, HeapAssumption DEF Promised!Cells, Sound, Tiles
  <1> HIDE DEF p
  <1>8. \A q \in PiecesOf(h) : Promised!Cells(p) \cap Promised!Cells(q) = {}
    BY <1>2, <1>5 DEF PiecesOf
  <1>9. QED
    BY <1>1, <1>3, <1>5, <1>6, <1>7, <1>8 DEF p, g

(* kfree takes one piece back. *)
LEMMA KfreeReleases ==
    ASSUME NEW h, Sound(h), Merged(h), NEW b \in h.used
    PROVE  PiecesOf(kfree(h, b)) = PiecesOf(h) \ {PieceOf(h, b)}
  <1> DEFINE g == kfree(h, b)
  <1>1. g.used = h.used \ {b} /\ \A c \in g.used : g.size[c] = h.size[c]
    BY KfreeSound
  <1> HIDE DEF g
  <1>2. \A c \in g.used : PieceOf(g, c) = PieceOf(h, c)
    BY <1>1 DEF PieceOf
  <1>3. h.used \subseteq Addr
    BY Fields DEF Sound, Tiles
  <1>4. \A c \in g.used : PieceOf(h, c) # PieceOf(h, b)
    BY <1>1, <1>3, PiecesDiffer
  <1>5. PiecesOf(g) = PiecesOf(h) \ {PieceOf(h, b)}
    BY <1>1, <1>2, <1>4 DEF PiecesOf
  <1>6. QED
    BY <1>5 DEF g

(* Each call is a step of the allocator. *)
LEMMA StepAllocates ==
    ASSUME HeapInv, HeapNext
    PROVE  Promised!Alloc \/ Promised!Free \/ Promised!Move
  <1>1. Sound(heap) /\ Merged(heap) /\ heap.used \subseteq Addr
    BY Fields DEF HeapInv, Sound, Tiles
  <1>2. Pieces = PiecesOf(heap) /\ Pieces' = PiecesOf(heap')
    BY DEF Pieces, PiecesOf, PieceOf
  <1>3. ASSUME NEW n \in 1..MaxRequest, Malloc(n)
        PROVE  Promised!Alloc
    <2>1. PICK b \in FreeBlocks(heap) : heap.size[b] >= n /\ heap' = kmalloc(heap, n, b)
      BY <1>3 DEF Malloc, FirstFit
    <2> DEFINE p == PieceOf(heap', b)
    <2>2. /\ Pieces' = Pieces \cup {p}
          /\ p.size \in n..(n + Header + 1) /\ p.at \in Addr
          /\ Promised!Cells(p) \subseteq Addr
          /\ \A q \in Pieces : Promised!Cells(p) \cap Promised!Cells(q) = {}
      BY <1>1, <1>2, <2>1, KmallocAllocates, HeapAssumption
    <2>3. p = [at |-> p.at, size |-> p.size]
      BY DEF PieceOf
    <2> HIDE DEF p
    <2>4. n + (Header + 1) = n + Header + 1
      BY HeapAssumption
    <2>5. p \in Promised!Piece(n) /\ Promised!Fits(p, n)
      BY <2>2, <2>3, <2>4 DEF Promised!Piece, Promised!Fits
    <2>6. QED
      BY <2>2, <2>5 DEF Promised!Alloc
  <1>4. ASSUME NEW b \in Addr, Free(b)
        PROVE  Promised!Free
    <2>1. Pieces' = Pieces \ {PieceOf(heap, b)} /\ PieceOf(heap, b) \in Pieces
      BY <1>1, <1>2, <1>4, KfreeReleases DEF Free, PiecesOf
    <2>2. QED
      BY <2>1 DEF Promised!Free
  <1>5. ASSUME NEW b \in Addr, NEW n \in 1..MaxRequest, Realloc(b, n)
        PROVE  Promised!Move
    <2>1. PICK c \in FreeBlocks(heap) : heap.size[c] >= n /\ heap' = kfree(kmalloc(heap, n, c), b)
      BY <1>5 DEF Realloc, FirstFit
    <2> DEFINE m == kmalloc(heap, n, c)
               p == PieceOf(m, c)
               old == PieceOf(heap, b)
    <2>2. /\ PiecesOf(m) = Pieces \cup {p}
          /\ p.size \in n..(n + Header + 1) /\ p.at \in Addr
          /\ Promised!Cells(p) \subseteq Addr
          /\ \A q \in Pieces : Promised!Cells(p) \cap Promised!Cells(q) = {}
      BY <1>1, <1>2, <2>1, KmallocAllocates, HeapAssumption
    <2>3. /\ Sound(m) /\ Merged(m) /\ b \in m.used /\ m.size[b] = heap.size[b]
      BY <1>1, <1>5, <2>1, KmallocSound, HeapAssumption DEF Realloc
    <2>4. heap' = kfree(m, b)
      BY <2>1
    <2>5. p = [at |-> p.at, size |-> p.size]
      BY DEF PieceOf
    <2> HIDE DEF m, p
    <2>6. PiecesOf(heap') = PiecesOf(m) \ {PieceOf(m, b)}
      BY <2>3, <2>4, KfreeReleases
    <2>7. PieceOf(m, b) = old
      BY <2>3 DEF PieceOf
    <2>8. old \in Pieces /\ old.size < n
      BY <1>2, <1>5 DEF Realloc, PiecesOf, PieceOf
    <2>9. n + (Header + 1) = n + Header + 1
      BY HeapAssumption
    <2>10. p \in Promised!Piece(n) /\ Promised!Fits(p, n)
      BY <2>2, <2>5, <2>9 DEF Promised!Piece, Promised!Fits
    <2>11. Pieces' = (Pieces \cup {p}) \ {old}
      BY <1>2, <2>2, <2>6, <2>7
    <2> HIDE DEF old
    <2>12. QED
      BY <2>8, <2>10, <2>11 DEF Promised!Move
  <1>6. QED
    BY <1>3, <1>4, <1>5 DEF HeapNext

(* The heap implements the allocator: a piece handed out is large enough,  *)
(* lies in the region and overlaps no piece in use (heap.c:111-188).       *)
THEOREM HeapIsAllocator == HeapSpec => ImplementsAllocator
  <1>1. HeapInit => Promised!AllocatorInit
    BY DEF HeapInit, Promised!AllocatorInit, Pieces
  <1>2. HeapInv /\ [HeapNext]_heap => [Promised!Alloc \/ Promised!Free \/ Promised!Move]_Pieces
    <2>1. UNCHANGED heap => UNCHANGED Pieces
      BY DEF Pieces
    <2>2. QED
      BY <2>1, StepAllocates
  <1>3. QED
    BY <1>1, <1>2, HeapKeepsInv, PTL DEF HeapSpec, ImplementsAllocator, Promised!AllocatorSpec


-----------------------------------------------------------------------------
(* The free list: q are its n blocks in order, F is the set of them.       *)
Chain(h, n, q, F) ==
    /\ n \in Nat /\ q \in [1..n -> Addr]
    /\ \A i, j \in 1..n : q[i] = q[j] => i = j
    /\ F = {q[i] : i \in 1..n}
    /\ h.free_head = IF n = 0 THEN Null ELSE q[1]
    /\ \A i \in 1..n : h.next_free[q[i]] = IF i = n THEN Null ELSE q[i + 1]
    /\ \A i \in 1..n : h.prev_free[q[i]] = IF i = 1 THEN Null ELSE q[i - 1]

Listed(h, F) == \E n, q : Chain(h, n, q, F)

(* What the operations on the blocks leave alone. *)
SameList(h, g) == /\ g.free_head = h.free_head
                  /\ g.next_free = h.next_free
                  /\ g.prev_free = h.prev_free

(* Another heap with the same list. *)
LEMMA SameListListed ==
    ASSUME NEW h, NEW g, NEW F, Listed(h, F), SameList(h, g)
    PROVE  Listed(g, F)
  <1>1. PICK n, q : Chain(h, n, q, F)
    BY DEF Listed
  <1>2. Chain(g, n, q, F)
    BY <1>1 DEF Chain, SameList
  <1>3. QED
    BY <1>2 DEF Listed

(* A block in front. *)
LEMMA PushListed ==
    ASSUME NEW h \in HeapType, NEW F, Listed(h, F), NEW b \in Addr, b \notin F
    PROVE  Listed(freelist_push(h, b), F \cup {b})
  <1> DEFINE g == freelist_push(h, b)
  <1>1. PICK n, q : Chain(h, n, q, F)
    BY DEF Listed
  <1>2. /\ n \in Nat /\ q \in [1..n -> Addr] /\ F = {q[i] : i \in 1..n}
        /\ \A i, j \in 1..n : q[i] = q[j] => i = j
        /\ h.free_head = IF n = 0 THEN Null ELSE q[1]
        /\ \A i \in 1..n : h.next_free[q[i]] = IF i = n THEN Null ELSE q[i + 1]
        /\ \A i \in 1..n : h.prev_free[q[i]] = IF i = 1 THEN Null ELSE q[i - 1]
    BY <1>1 DEF Chain
  <1>3. /\ g.free_head = b
        /\ g.next_free[b] = h.free_head
        /\ \A x \in Addr \ {b} : g.next_free[x] = h.next_free[x]
        /\ g.prev_free[b] = Null
        /\ \A x \in Addr \ {b} : g.prev_free[x] = IF x = h.free_head THEN b ELSE h.prev_free[x]
    BY DEF freelist_push, HeapType
  <1> HIDE DEF g
  <1> DEFINE r == [i \in 1..(n + 1) |-> IF i = 1 THEN b ELSE q[i - 1]]
  <1>4. \A i \in 2..(n + 1) : i - 1 \in 1..n /\ i \in 1..(n + 1)
    BY <1>2
  <1>5. r[1] = b /\ \A i \in 2..(n + 1) : r[i] = q[i - 1]
    BY <1>2
  <1>6. r \in [1..(n + 1) -> Addr] /\ n + 1 \in Nat
    BY <1>2, <1>4
  <1>7. \A i \in 1..(n + 1) : i = 1 \/ i \in 2..(n + 1)
    BY <1>2
  <1> HIDE DEF r
  <1>8. \A i \in 1..n : q[i] \in F /\ q[i] \in Addr /\ q[i] # b
    BY <1>2
  <1>9. \A i, j \in 1..(n + 1) : r[i] = r[j] => i = j
    <2> TAKE i, j \in 1..(n + 1)
    <2>1. CASE i = 1 /\ j = 1
      BY <2>1
    <2>2. CASE i = 1 /\ j \in 2..(n + 1)
      BY <1>4, <1>5, <1>8, <2>2
    <2>3. CASE i \in 2..(n + 1) /\ j = 1
      BY <1>4, <1>5, <1>8, <2>3
    <2>4. CASE i \in 2..(n + 1) /\ j \in 2..(n + 1)
      <3>1. i - 1 = j - 1 => i = j
        BY <1>2, <2>4
      <3>2. QED
        BY <1>2, <1>4, <1>5, <2>4, <3>1
    <2>5. QED
      BY <1>7, <2>1, <2>2, <2>3, <2>4
  <1>10. F \cup {b} = {r[i] : i \in 1..(n + 1)}
    <2>1. \A x \in F : \E i \in 1..(n + 1) : r[i] = x
      <3> TAKE x \in F
      <3>1. PICK i \in 1..n : x = q[i]
        BY <1>2
      <3>2. i + 1 \in 2..(n + 1) /\ (i + 1) - 1 = i /\ i + 1 \in 1..(n + 1)
        BY <1>2
      <3>3. QED
        BY <1>5, <3>1, <3>2
    <2>2. 1 \in 1..(n + 1)
      BY <1>2
    <2>3. \A i \in 1..(n + 1) : r[i] \in F \cup {b}
      BY <1>4, <1>5, <1>7, <1>8
    <2>4. QED
      BY <1>5, <2>1, <2>2, <2>3
  <1>11. g.free_head = IF n + 1 = 0 THEN Null ELSE r[1]
    BY <1>2, <1>3, <1>5
  <1>12. \A i \in 1..(n + 1) : g.next_free[r[i]] = IF i = n + 1 THEN Null ELSE r[i + 1]
    <2> TAKE i \in 1..(n + 1)
    <2>1. CASE i = 1
      <3>1. CASE n = 0
        BY <1>2, <1>3, <1>5, <2>1, <3>1
      <3>2. CASE n # 0
        <4>1. r[2] = q[1] /\ 1 + 1 = 2 /\ 1 # n + 1
          BY <1>2, <1>5, <3>2
        <4>2. QED
          BY <1>2, <1>3, <1>5, <2>1, <3>2, <4>1
      <3>3. QED
        BY <3>1, <3>2
    <2>2. CASE i \in 2..(n + 1)
      <3>1. g.next_free[r[i]] = IF i - 1 = n THEN Null ELSE q[(i - 1) + 1]
        <4>1. r[i] = q[i - 1] /\ i - 1 \in 1..n
          BY <1>4, <1>5, <2>2
        <4>2. g.next_free[q[i - 1]] = h.next_free[q[i - 1]]
          BY <1>3, <1>8, <4>1
        <4>3. h.next_free[q[i - 1]] = IF i - 1 = n THEN Null ELSE q[(i - 1) + 1]
          BY <1>2, <4>1
        <4>4. QED
          BY <4>1, <4>2, <4>3
      <3>2. (i - 1 = n <=> i = n + 1) /\ (i - 1) + 1 = i /\ (i + 1) - 1 = i
            /\ (i # n + 1 => i + 1 \in 2..(n + 1))
        BY <1>2, <2>2
      <3>3. QED
        BY <1>5, <3>1, <3>2
    <2>3. QED
      BY <1>7, <2>1, <2>2
  <1>13. \A i \in 1..(n + 1) : g.prev_free[r[i]] = IF i = 1 THEN Null ELSE r[i - 1]
    <2> TAKE i \in 1..(n + 1)
    <2>1. CASE i = 1
      BY <1>3, <1>5, <2>1
    <2>2. CASE i \in 2..(n + 1)
      <3> DEFINE x == q[i - 1]
      <3>1. r[i] = x /\ x \in Addr \ {b} /\ i # 1 /\ i - 1 \in 1..n /\ n # 0
        BY <1>2, <1>4, <1>5, <1>8, <2>2
      <3>2. g.prev_free[x] = IF x = h.free_head THEN b ELSE h.prev_free[x]
        BY <1>3, <3>1
      <3>3. h.free_head = q[1] /\ h.prev_free[x] = IF i - 1 = 1 THEN Null ELSE q[(i - 1) - 1]
        BY <1>2, <3>1
      <3>4. x = q[1] <=> i - 1 = 1
        BY <1>2, <3>1
      <3>5. i - 1 = 1 => r[i - 1] = b
        BY <1>5
      <3>6. i - 1 # 1 => i - 1 \in 2..(n + 1) /\ r[i - 1] = q[(i - 1) - 1]
        BY <1>2, <1>5, <2>2
      <3>7. QED
        BY <3>1, <3>2, <3>3, <3>4, <3>5, <3>6
    <2>3. QED
      BY <1>7, <2>1, <2>2
  <1>14. Chain(g, n + 1, r, F \cup {b})
    BY <1>6, <1>9, <1>10, <1>11, <1>12, <1>13 DEF Chain
  <1>15. QED
    BY <1>14 DEF Listed, g

(* A block taken out, wherever it is. *)
LEMMA RemoveListed ==
    ASSUME NEW h \in HeapType, NEW F, Listed(h, F), NEW b \in F
    PROVE  Listed(freelist_remove(h, b), F \ {b})
  <1> DEFINE g == freelist_remove(h, b)
  <1>1. PICK n, q : Chain(h, n, q, F)
    BY DEF Listed
  <1>2. /\ n \in Nat /\ q \in [1..n -> Addr] /\ F = {q[i] : i \in 1..n}
        /\ \A i, j \in 1..n : q[i] = q[j] => i = j
        /\ h.free_head = IF n = 0 THEN Null ELSE q[1]
        /\ \A i \in 1..n : h.next_free[q[i]] = IF i = n THEN Null ELSE q[i + 1]
        /\ \A i \in 1..n : h.prev_free[q[i]] = IF i = 1 THEN Null ELSE q[i - 1]
    BY <1>1 DEF Chain
  <1>3. PICK j \in 1..n : q[j] = b
    BY <1>2
  <1>4. \A i \in 1..n : q[i] \in Addr /\ q[i] # Null /\ (q[i] = b <=> i = j)
    BY <1>2, <1>3 DEF Addr, Null
  <1> DEFINE p == h.prev_free[b]
             x == h.next_free[b]
             m == n - 1
             r == [i \in 1..m |-> IF i < j THEN q[i] ELSE q[i + 1]]
  <1>5. /\ p = IF j = 1 THEN Null ELSE q[j - 1]
        /\ x = IF j = n THEN Null ELSE q[j + 1]
    BY <1>2, <1>3
  <1>6. /\ g.free_head = IF p = Null THEN x ELSE h.free_head
        /\ \A y \in Addr \ {b} : g.next_free[y] = IF y = p THEN x ELSE h.next_free[y]
        /\ \A y \in Addr \ {b} : g.prev_free[y] = IF y = x THEN p ELSE h.prev_free[y]
    BY DEF freelist_remove, HeapType
  <1> HIDE DEF g, p, x
  <1>7. m \in Nat /\ m + 1 = n /\ n >= 1 /\ j \in Nat /\ j >= 1 /\ j <= n
    BY <1>2
  <1>8. /\ \A i \in 1..m : i < j => r[i] = q[i] /\ i \in 1..n
        /\ \A i \in 1..m : ~(i < j) => r[i] = q[i + 1] /\ i + 1 \in 1..n
    BY <1>7
  <1>9. r \in [1..m -> Addr]
    BY <1>4, <1>8
  <1> HIDE DEF m, r
  <1>10. \A i, k \in 1..m : r[i] = r[k] => i = k
    <2> TAKE i, k \in 1..m
    <2> DEFINE a == IF i < j THEN i ELSE i + 1
               c == IF k < j THEN k ELSE k + 1
    <2>1. r[i] = q[a] /\ a \in 1..n /\ r[k] = q[c] /\ c \in 1..n
      BY <1>8
    <2>2. a = c => i = k
      BY <1>7
    <2> HIDE DEF a, c
    <2>3. q[a] = q[c] => a = c
      BY <1>2, <2>1
    <2>4. QED
      BY <2>1, <2>2, <2>3
  <1>11. F \ {b} = {r[i] : i \in 1..m}
    <2>1. ASSUME NEW y \in F \ {b} PROVE \E i \in 1..m : y = r[i]
      <3>1. PICK k \in 1..n : y = q[k]
        BY <1>2
      <3>2. k # j
        BY <1>3, <2>1, <3>1
      <3>3. CASE k < j
        <4>1. k \in 1..m
          BY <1>7, <3>3
        <4>2. QED
          BY <1>8, <3>1, <3>3, <4>1
      <3>4. CASE k > j
        <4>1. k - 1 \in 1..m /\ ~(k - 1 < j) /\ (k - 1) + 1 = k
          BY <1>7, <3>4
        <4>2. QED
          BY <1>8, <3>1, <4>1
      <3>5. QED
        BY <1>7, <3>2, <3>3, <3>4
    <2>2. ASSUME NEW i \in 1..m PROVE r[i] \in F \ {b}
      <3>1. CASE i < j
        <4>1. r[i] = q[i] /\ i \in 1..n /\ i # j
          BY <1>7, <1>8, <3>1
        <4>2. QED
          BY <1>2, <1>4, <4>1
      <3>2. CASE ~(i < j)
        <4>1. r[i] = q[i + 1] /\ i + 1 \in 1..n /\ i + 1 # j
          BY <1>7, <1>8, <3>2
        <4>2. QED
          BY <1>2, <1>4, <4>1
      <3>3. QED
        BY <3>1, <3>2
    <2>3. QED
      BY <2>1, <2>2
  <1>12. g.free_head = IF m = 0 THEN Null ELSE r[1]
    <2>1. CASE j = 1
      <3>1. p = Null /\ g.free_head = x
        BY <1>5, <1>6, <2>1
      <3>2. CASE m = 0
        BY <1>5, <1>7, <2>1, <3>1, <3>2
      <3>3. CASE m # 0
        <4>1. 1 \in 1..m /\ ~(1 < j) /\ j # n /\ j + 1 = 1 + 1
          BY <1>7, <2>1, <3>3
        <4>2. QED
          BY <1>5, <1>8, <3>1, <3>3, <4>1
      <3>4. QED
        BY <3>2, <3>3
    <2>2. CASE j # 1
      <3>1. j - 1 \in 1..n /\ 1 \in 1..m /\ 1 < j /\ m # 0 /\ n # 0
        BY <1>7, <2>2
      <3>2. p # Null
        BY <1>4, <1>5, <2>2, <3>1
      <3>3. QED
        BY <1>2, <1>6, <1>8, <3>1, <3>2
    <2>3. QED
      BY <2>1, <2>2
  <1>13. \A i \in 1..m : g.next_free[r[i]] = IF i = m THEN Null ELSE r[i + 1]
    <2> TAKE i \in 1..m
    <2> DEFINE a == IF i < j THEN i ELSE i + 1
               c == IF i + 1 < j THEN i + 1 ELSE i + 1 + 1
    <2>1. r[i] = q[a] /\ a \in 1..n /\ a # j
      BY <1>7, <1>8
    <2>2. i # m => r[i + 1] = q[c]
      <3>1. i # m => i + 1 \in 1..m
        BY <1>7
      <3>2. QED
        BY <1>8, <3>1
    <2>3. q[a] \in Addr \ {b}
      BY <1>4, <2>1
    <2>4. g.next_free[q[a]] = IF q[a] = p THEN x ELSE h.next_free[q[a]]
      BY <1>6, <2>3
    <2>5. CASE a + 1 = j
      <3>1. j # 1 /\ p = q[a] /\ i + 1 = j
        <4>1. j # 1 /\ j - 1 = a /\ i + 1 = j
          BY <1>7, <2>1, <2>5
        <4>2. QED
          BY <1>5, <4>1
      <3>2. (i = m <=> j = n) /\ (i # m => c = j + 1)
        BY <1>7, <3>1
      <3>3. QED
        BY <1>5, <2>1, <2>2, <2>4, <3>1, <3>2
    <2>6. CASE a + 1 # j
      <3>1. q[a] # p
        <4>1. CASE j = 1
          BY <1>4, <1>5, <2>1, <4>1
        <4>2. CASE j # 1
          <5>1. j - 1 \in 1..n /\ a # j - 1
            BY <1>7, <2>1, <2>6, <4>2
          <5>2. QED
            BY <1>2, <1>5, <2>1, <4>2, <5>1
        <4>3. QED
          BY <4>1, <4>2
      <3>2. (i = m <=> a = n) /\ (i # m => c = a + 1)
        BY <1>7, <2>1, <2>6
      <3>3. h.next_free[q[a]] = IF a = n THEN Null ELSE q[a + 1]
        BY <1>2, <2>1
      <3>4. QED
        BY <2>1, <2>2, <2>4, <3>1, <3>2, <3>3
    <2>7. QED
      BY <2>5, <2>6
  <1>14. \A i \in 1..m : g.prev_free[r[i]] = IF i = 1 THEN Null ELSE r[i - 1]
    <2> TAKE i \in 1..m
    <2> DEFINE a == IF i < j THEN i ELSE i + 1
               c == IF i - 1 < j THEN i - 1 ELSE i - 1 + 1
    <2>1. r[i] = q[a] /\ a \in 1..n /\ a # j
      BY <1>7, <1>8
    <2>2. i # 1 => r[i - 1] = q[c]
      <3>1. i # 1 => i - 1 \in 1..m
        BY <1>7
      <3>2. QED
        BY <1>8, <3>1
    <2>3. q[a] \in Addr \ {b}
      BY <1>4, <2>1
    <2>4. g.prev_free[q[a]] = IF q[a] = x THEN p ELSE h.prev_free[q[a]]
      BY <1>6, <2>3
    <2>5. CASE a = j + 1
      <3>1. j # n /\ x = q[a] /\ i = j
        <4>1. j # n /\ i = j
          BY <1>7, <2>1, <2>5
        <4>2. QED
          BY <1>5, <2>5, <4>1
      <3>2. i # 1 => c = j - 1
        BY <1>7, <3>1
      <3>3. QED
        BY <1>5, <2>1, <2>2, <2>4, <3>1, <3>2
    <2>6. CASE a # j + 1
      <3>1. q[a] # x
        <4>1. CASE j = n
          BY <1>4, <1>5, <2>1, <4>1
        <4>2. CASE j # n
          <5>1. j + 1 \in 1..n
            BY <1>7, <4>2
          <5>2. QED
            BY <1>2, <1>5, <2>1, <2>6, <4>2, <5>1
        <4>3. QED
          BY <4>1, <4>2
      <3>2. (i = 1 <=> a = 1) /\ (i # 1 => c = a - 1)
        BY <1>7, <2>1, <2>6
      <3>3. h.prev_free[q[a]] = IF a = 1 THEN Null ELSE q[a - 1]
        BY <1>2, <2>1
      <3>4. QED
        BY <2>1, <2>2, <2>4, <3>1, <3>2, <3>3
    <2>7. QED
      BY <2>5, <2>6
  <1>15. Chain(g, m, r, F \ {b})
    BY <1>7, <1>9, <1>10, <1>11, <1>12, <1>13, <1>14 DEF Chain
  <1>16. QED
    BY <1>15 DEF Listed, g

(* The list as the operations on blocks leave it. *)
LEMMA BlocksKeepList ==
    ASSUME NEW h \in HeapType
    PROVE  /\ \A b, n : SameList(h, Split(h, b, n))
           /\ \A b, r : SameList(h, Absorb(h, b, r))
           /\ \A U : SameList(h, [h EXCEPT !.used = U])
  BY DEF HeapType, SameList, Split, Absorb

(* kmalloc takes the block off the list, and may put what is left of it    *)
(* there.                                                                  *)
LEMMA KmallocListed ==
    ASSUME NEW h, Sound(h), Listed(h, FreeBlocks(h)),
           NEW b \in FreeBlocks(h), NEW n \in Nat
    PROVE  Listed(kmalloc(h, n, b), FreeBlocks(kmalloc(h, n, b)))
  <1> DEFINE right == b + Header + n
             cut == IF h.size[b] - n > Header + 1
                    THEN freelist_push(Split(h, b, n), right)
                    ELSE h
             out == freelist_remove(cut, b)
             g == [out EXCEPT !.used = @ \cup {b}]
  <1>1. h \in HeapType /\ b \in h.blocks /\ b \notin h.used /\ b \in Addr
        /\ h.used \subseteq h.blocks
    BY Fields DEF Sound, Tiles, FreeBlocks
  <1>2. cut \in HeapType /\ Listed(cut, FreeBlocks(cut)) /\ cut.used = h.used
        /\ b \in FreeBlocks(cut)
    <2>1. CASE h.size[b] - n > Header + 1
      <3> DEFINE p == Split(h, b, n)
      <3>1. right \in Addr \ h.blocks /\ Sound(p)
        BY <1>1, <2>1, SplitSound
      <3>2. p \in HeapType /\ p.blocks = h.blocks \cup {right} /\ p.used = h.used
        BY <1>1, <3>1 DEF Sound, Tiles, Split, HeapType
      <3>3. Listed(p, FreeBlocks(h))
        BY <1>1, SameListListed, BlocksKeepList
      <3> HIDE DEF p, right
      <3>4. right \notin FreeBlocks(h) /\ FreeBlocks(p) = FreeBlocks(h) \cup {right}
        BY <1>1, <3>1, <3>2 DEF FreeBlocks
      <3>5. Listed(freelist_push(p, right), FreeBlocks(p))
        BY <3>1, <3>2, <3>3, <3>4, PushListed
      <3>6. /\ freelist_push(p, right) \in HeapType
            /\ SameBlocks(p, freelist_push(p, right))
        BY <3>1, <3>2, PushKeepsType
      <3>7. cut = freelist_push(p, right)
        BY <2>1 DEF p
      <3> HIDE DEF cut
      <3>8. FreeBlocks(cut) = FreeBlocks(p) /\ cut.used = h.used
        BY <3>2, <3>6, <3>7 DEF FreeBlocks, SameBlocks
      <3>9. QED
        BY <3>4, <3>5, <3>6, <3>7, <3>8
    <2>2. CASE ~(h.size[b] - n > Header + 1)
      BY <1>1, <2>2
    <2>3. QED
      BY <2>1, <2>2
  <1> HIDE DEF cut
  <1>3. out \in HeapType /\ SameBlocks(cut, out) /\ Listed(out, FreeBlocks(cut) \ {b})
    BY <1>1, <1>2, RemoveKeepsType, RemoveListed
  <1> HIDE DEF out
  <1>4. g.blocks = cut.blocks /\ g.used = cut.used \cup {b} /\ SameList(out, g)
    BY <1>3 DEF SameBlocks, SameList, HeapType
  <1>5. kmalloc(h, n, b) = g
    BY DEF kmalloc, g, out, cut, right
  <1> HIDE DEF g
  <1>6. FreeBlocks(g) = FreeBlocks(cut) \ {b}
    BY <1>4 DEF FreeBlocks
  <1>7. Listed(g, FreeBlocks(g))
    BY <1>3, <1>4, <1>6, SameListListed
  <1>8. QED
    BY <1>5, <1>7

(* kfree puts the block on the list and takes those off it that it merges. *)
LEMMA KfreeListed ==
    ASSUME NEW h, Sound(h), Merged(h), Listed(h, FreeBlocks(h)), NEW b \in h.used
    PROVE  Listed(kfree(h, b), FreeBlocks(kfree(h, b)))
  <1> DEFINE f == [h EXCEPT !.used = h.used \ {b}]
             p == freelist_push(f, b)
             m == MergeRight(p, b)
  <1>1. /\ b \in Addr /\ b \in h.blocks /\ h.used \ {b} \in SUBSET h.blocks
        /\ h.blocks \subseteq Addr /\ h \in HeapType
    BY Fields DEF Sound, Tiles
  <1>2. /\ Sound(f) /\ f.blocks = h.blocks /\ f.used = h.used \ {b}
        /\ f.next_phys = h.next_phys
    BY <1>1, UsedSound
  <1>3. kfree(h, b) = MergeLeft(m, b)
    BY DEF kfree
  <1>4. Listed(f, FreeBlocks(h)) /\ b \notin FreeBlocks(h)
        /\ f \in HeapType
    BY <1>1, <1>2, SameListListed, BlocksKeepList DEF FreeBlocks, Sound, Tiles
  <1> HIDE DEF f
  <1>5. p \in HeapType /\ SameBlocks(f, p) /\ Listed(p, FreeBlocks(h) \cup {b})
    BY <1>1, <1>4, PushKeepsType, PushListed
  <1> HIDE DEF p
  <1>6. /\ Sound(p) /\ b \in FreeBlocks(p) /\ FreeBlocks(p) = FreeBlocks(h) \cup {b}
        /\ p.next_phys = h.next_phys /\ p.used = h.used \ {b} /\ p.blocks = h.blocks
    BY <1>1, <1>2, <1>5, SameBlocksSound DEF FreeBlocks, SameBlocks
  <1>7. MergedButAround(p, b)
    BY <1>1, <1>6 DEF FreeBlocks, Merged, MergedButAround
  <1>8. /\ Sound(m) /\ b \in FreeBlocks(m) /\ MergedButLeft(m, b)
    BY <1>6, <1>7, MergeRightSound
  <1>9. Listed(m, FreeBlocks(m))
    <2> DEFINE r == p.next_phys[b]
    <2>1. CASE IsFree(p, r)
      <3> DEFINE o == freelist_remove(p, r)
      <3>1. r \in p.blocks /\ r # b /\ r \in FreeBlocks(p) /\ r \in Addr
        <4>1. r # Null /\ r \notin p.used
          BY <2>1 DEF IsFree
        <4>2. r \in p.blocks /\ r # b
          BY <1>6, <4>1, Neighbour DEF FreeBlocks
        <4>3. QED
          BY <1>1, <1>6, <4>1, <4>2 DEF FreeBlocks
      <3>2. o \in HeapType /\ SameBlocks(p, o) /\ Listed(o, FreeBlocks(p) \ {r})
        BY <1>5, <1>6, <3>1, RemoveKeepsType, RemoveListed
      <3>3. m = Absorb(o, b, r)
        BY <2>1 DEF MergeRight, m
      <3> HIDE DEF o, m, r
      <3>4. m.blocks = o.blocks \ {r} /\ m.used = o.used
        BY <3>2, <3>3 DEF Absorb, HeapType
      <3>5. FreeBlocks(m) = FreeBlocks(p) \ {r}
        BY <3>2, <3>4 DEF FreeBlocks, SameBlocks
      <3>6. QED
        BY <3>2, <3>3, <3>5, SameListListed, BlocksKeepList
    <2>2. CASE ~IsFree(p, r)
      <3>1. m = p
        BY <2>2 DEF MergeRight
      <3>2. QED
        BY <1>5, <1>6, <3>1
    <2>3. QED
      BY <2>1, <2>2
  <1> HIDE DEF m
  <1>10. Listed(MergeLeft(m, b), FreeBlocks(MergeLeft(m, b)))
    <2> DEFINE l == m.prev_phys[b]
               o == freelist_remove(m, b)
               g == Absorb(o, l, b)
    <2>1. CASE IsFree(m, l)
      <3>1. m \in HeapType /\ b \in Addr
        BY <1>1, <1>8 DEF Sound, Tiles
      <3>2. o \in HeapType /\ SameBlocks(m, o) /\ Listed(o, FreeBlocks(m) \ {b})
        BY <1>8, <1>9, <3>1, RemoveKeepsType, RemoveListed
      <3>3. MergeLeft(m, b) = g
        BY <2>1 DEF MergeLeft
      <3> HIDE DEF o, l
      <3>4. g.blocks = o.blocks \ {b} /\ g.used = o.used
        BY <3>2 DEF Absorb, HeapType
      <3>5. FreeBlocks(g) = FreeBlocks(m) \ {b}
        BY <3>2, <3>4 DEF FreeBlocks, SameBlocks
      <3>6. QED
        BY <3>2, <3>3, <3>5, SameListListed, BlocksKeepList
    <2>2. CASE ~IsFree(m, l)
      <3>1. MergeLeft(m, b) = m
        BY <2>2 DEF MergeLeft
      <3>2. QED
        BY <1>9, <3>1
    <2>3. QED
      BY <2>1, <2>2
  <1>11. QED
    BY <1>3, <1>10

(* The list holds the free blocks, in some order. *)
FreeListed == Listed(heap, FreeBlocks(heap))

(* After heap_init the list is the one free block. *)
LEMMA InitListed == HeapInit => FreeListed
  <1> SUFFICES ASSUME HeapInit PROVE FreeListed
    OBVIOUS
  <1> DEFINE q == [i \in 1..1 |-> Base]
  <1>1. /\ heap.blocks = {Base} /\ heap.used = {} /\ heap.free_head = Base
        /\ heap.next_free[Base] = Null /\ heap.prev_free[Base] = Null /\ Base \in Addr
    BY HeapAssumption DEF HeapInit, Addr, Base
  <1>2. 1..1 = {1} /\ 1 \in Nat /\ q[1] = Base /\ q \in [1..1 -> Addr]
    BY <1>1
  <1> HIDE DEF q
  <1>3. \A i, j \in 1..1 : q[i] = q[j] => i = j
    BY <1>2
  <1>4. FreeBlocks(heap) = {q[i] : i \in 1..1}
    BY <1>1, <1>2 DEF FreeBlocks
  <1>5. /\ \A i \in 1..1 : heap.next_free[q[i]] = IF i = 1 THEN Null ELSE q[i + 1]
        /\ \A i \in 1..1 : heap.prev_free[q[i]] = IF i = 1 THEN Null ELSE q[i - 1]
    BY <1>1, <1>2
  <1>6. Chain(heap, 1, q, FreeBlocks(heap))
    BY <1>1, <1>2, <1>3, <1>4, <1>5 DEF Chain
  <1>7. QED
    BY <1>6 DEF FreeListed, Listed

(* One call keeps the list. *)
LEMMA StepListed ==
    ASSUME HeapInv, FreeListed, HeapNext
    PROVE  FreeListed'
  <1>1. Sound(heap) /\ Merged(heap) /\ Listed(heap, FreeBlocks(heap))
    BY DEF HeapInv, FreeListed
  <1>2. ASSUME NEW n \in 1..MaxRequest, Malloc(n)
        PROVE  FreeListed'
    <2>1. PICK b \in FreeBlocks(heap) : heap' = kmalloc(heap, n, b)
      BY <1>2 DEF Malloc, FirstFit
    <2>2. Listed(heap', FreeBlocks(heap'))
      BY <1>1, <2>1, KmallocListed, HeapAssumption
    <2>3. QED
      BY <2>2 DEF FreeListed
  <1>3. ASSUME NEW b \in Addr, Free(b)
        PROVE  FreeListed'
    <2>1. Listed(heap', FreeBlocks(heap'))
      BY <1>1, <1>3, KfreeListed DEF Free
    <2>2. QED
      BY <2>1 DEF FreeListed
  <1>4. ASSUME NEW b \in Addr, NEW n \in 1..MaxRequest, Realloc(b, n)
        PROVE  FreeListed'
    <2>1. PICK c \in FreeBlocks(heap) : heap.size[c] >= n /\ heap' = kfree(kmalloc(heap, n, c), b)
      BY <1>4 DEF Realloc, FirstFit
    <2> DEFINE m == kmalloc(heap, n, c)
    <2>2. Sound(m) /\ Merged(m) /\ m.used = heap.used \cup {c} /\ Listed(m, FreeBlocks(m))
      BY <1>1, <2>1, KmallocSound, KmallocListed, HeapAssumption
    <2>3. b \in m.used /\ heap' = kfree(m, b)
      BY <1>4, <2>1, <2>2 DEF Realloc
    <2> HIDE DEF m
    <2>4. Listed(heap', FreeBlocks(heap'))
      BY <2>2, <2>3, KfreeListed
    <2>5. QED
      BY <2>4 DEF FreeListed
  <1>5. QED
    BY <1>2, <1>3, <1>4 DEF HeapNext

(* Induction over a set of numbers. *)
LEMMA SetInduction ==
    ASSUME NEW S, 0 \in S, \A n \in Nat : n \in S => n + 1 \in S
    PROVE  Nat \subseteq S
  <1> SUFFICES ASSUME Nat \ S # {} PROVE FALSE
    OBVIOUS
  <1> DEFINE T == Nat \ S
  <1>1. PICK x \in T : \A y \in T : ~(<<y, x>> \in OpToRel(<, Nat))
    BY NatLessThanWellFounded, WFMin, Zenon
  <1>2. \A y \in T : ~(y < x)
    BY <1>1 DEF OpToRel
  <1>3. x # 0 /\ x - 1 \in Nat /\ x - 1 < x /\ x - 1 \notin T
    BY <1>2
  <1>4. x \in S
    BY <1>3
  <1>5. QED
    BY <1>4

(* The walk along a list. *)
LEMMA WalkOfChain ==
    ASSUME NEW n, NEW q, NEW F, Chain(heap, n, q, F)
    PROVE  \A k \in Nat : FreeWalk[k] = IF k < n THEN q[k + 1] ELSE Null
  <1> DEFINE IsWalk(v) == v = [k \in Nat |-> IF k = 0 THEN heap.free_head
                                             ELSE IF v[k - 1] = Null THEN Null
                                             ELSE heap.next_free[v[k - 1]]]
             w == [k \in Nat |-> IF k < n THEN q[k + 1] ELSE Null]
  <1>1. /\ n \in Nat /\ q \in [1..n -> Addr]
        /\ heap.free_head = IF n = 0 THEN Null ELSE q[1]
        /\ \A i \in 1..n : heap.next_free[q[i]] = IF i = n THEN Null ELSE q[i + 1]
    BY DEF Chain
  <1>2. \A i \in 1..n : q[i] # Null
    BY <1>1 DEF Addr, Null
  <1>3. IsWalk(w)
    <2>1. ASSUME NEW k \in Nat
          PROVE  w[k] = IF k = 0 THEN heap.free_head
                        ELSE IF w[k - 1] = Null THEN Null ELSE heap.next_free[w[k - 1]]
      <3>1. CASE k = 0
        BY <1>1, <3>1
      <3>2. CASE k # 0 /\ k - 1 < n
        <4>1. k \in 1..n /\ k - 1 \in Nat /\ (k - 1) + 1 = k /\ (k < n <=> k # n)
          BY <1>1, <3>2
        <4>2. w[k - 1] = q[k]
          BY <3>2, <4>1
        <4>3. w[k] = IF k = n THEN Null ELSE q[k + 1]
          BY <4>1
        <4> HIDE DEF w
        <4>4. QED
          BY <1>1, <1>2, <3>2, <4>1, <4>2, <4>3
      <3>3. CASE k # 0 /\ ~(k - 1 < n)
        <4>1. k - 1 \in Nat /\ ~(k < n)
          BY <1>1, <3>3
        <4>2. w[k - 1] = Null /\ w[k] = Null
          BY <3>3, <4>1
        <4>3. QED
          BY <3>3, <4>2
      <3>4. QED
        BY <3>1, <3>2, <3>3
    <2> HIDE DEF w
    <2> DEFINE v == [k \in Nat |-> IF k = 0 THEN heap.free_head
                                   ELSE IF w[k - 1] = Null THEN Null
                                   ELSE heap.next_free[w[k - 1]]]
    <2>2. \A k \in Nat : w[k] = v[k]
      BY <2>1
    <2>3. w = [k \in Nat |-> w[k]] /\ v = [k \in Nat |-> v[k]]
      BY DEF w
    <2>4. w = v
      BY <2>2, <2>3
    <2>5. QED
      BY <2>4
  <1>4. FreeWalk = CHOOSE v : IsWalk(v)
    BY DEF FreeWalk
  <1>5. IsWalk(FreeWalk)
    <2> HIDE DEF IsWalk, w
    <2>1. QED
      BY <1>3, <1>4, Zenon
  <1>6. /\ FreeWalk[0] = heap.free_head
        /\ \A k \in Nat : FreeWalk[k + 1] = IF FreeWalk[k] = Null THEN Null
                                            ELSE heap.next_free[FreeWalk[k]]
    <2> DEFINE v == FreeWalk
    <2>1. v = [k \in Nat |-> IF k = 0 THEN heap.free_head
                             ELSE IF v[k - 1] = Null THEN Null ELSE heap.next_free[v[k - 1]]]
      BY <1>5
    <2> HIDE DEF v
    <2>2. v[0] = heap.free_head
      BY <2>1
    <2>3. ASSUME NEW k \in Nat
          PROVE  v[k + 1] = IF v[k] = Null THEN Null ELSE heap.next_free[v[k]]
      <3>1. k + 1 \in Nat /\ k + 1 # 0 /\ (k + 1) - 1 = k
        OBVIOUS
      <3>2. v[k + 1] = IF k + 1 = 0 THEN heap.free_head
                       ELSE IF v[(k + 1) - 1] = Null THEN Null
                       ELSE heap.next_free[v[(k + 1) - 1]]
        BY <2>1, <3>1
      <3>3. QED
        BY <3>1, <3>2
    <2>4. QED
      BY <2>2, <2>3 DEF v
  <1> DEFINE S == {k \in Nat : FreeWalk[k] = IF k < n THEN q[k + 1] ELSE Null}
  <1>7. 0 \in S
    BY <1>1, <1>6
  <1>8. ASSUME NEW k \in Nat, k \in S PROVE k + 1 \in S
    <2>1. CASE k < n
      <3>1. k + 1 \in 1..n /\ FreeWalk[k] = q[k + 1] /\ (k + 1 < n <=> k + 1 # n)
        BY <1>1, <1>8, <2>1
      <3>2. FreeWalk[k + 1] = heap.next_free[q[k + 1]]
        BY <1>2, <1>6, <3>1
      <3>3. heap.next_free[q[k + 1]] = IF k + 1 = n THEN Null ELSE q[(k + 1) + 1]
        BY <1>1, <3>1
      <3>4. QED
        BY <3>1, <3>2, <3>3
    <2>2. CASE ~(k < n)
      <3>1. FreeWalk[k] = Null /\ ~(k + 1 < n)
        BY <1>1, <1>8, <2>2
      <3>2. FreeWalk[k + 1] = Null
        BY <1>6, <3>1
      <3>3. QED
        BY <3>1, <3>2
    <2>3. QED
      BY <2>1, <2>2
  <1> HIDE DEF S
  <1>9. Nat \subseteq S
    BY <1>7, <1>8, SetInduction
  <1>10. QED
    BY <1>9 DEF S

(* A list of all free blocks is walked in as many steps as there are. *)
LEMMA ListIsWalked == FreeListed => FreeListIsWhole
  <1> SUFFICES ASSUME FreeListed PROVE FreeListIsWhole
    OBVIOUS
  <1> DEFINE F == FreeBlocks(heap)
  <1>1. PICK n, q : Chain(heap, n, q, F)
    BY DEF FreeListed, Listed
  <1>2. /\ n \in Nat /\ q \in [1..n -> Addr] /\ F = {q[i] : i \in 1..n}
        /\ \A i, j \in 1..n : q[i] = q[j] => i = j
    BY <1>1 DEF Chain
  <1>3. \A k \in Nat : FreeWalk[k] = IF k < n THEN q[k + 1] ELSE Null
    BY <1>1, WalkOfChain
  <1> HIDE DEF F
  <1>4. Cardinality(F) = n
    <2>1. q \in Bijection(1..n, F)
      <3>1. q \in [1..n -> F] /\ \A x \in F : \E i \in 1..n : q[i] = x
        BY <1>2
      <3>2. QED
        BY <1>2, <3>1 DEF Bijection, Injection, Surjection, IsInjective
    <2>2. IsFiniteSet(1..n) /\ Cardinality(1..n) = n
      BY <1>2, FS_Interval
    <2>3. QED
      BY <2>1, <2>2, FS_Bijection DEF ExistsBijection
  <1>5. {FreeWalk[k] : k \in 0..n} = F \cup {Null}
    <2>1. ASSUME NEW k \in 0..n PROVE FreeWalk[k] \in F \cup {Null}
      <3>1. k \in Nat /\ (k < n => k + 1 \in 1..n)
        BY <1>2
      <3>2. QED
        BY <1>2, <1>3, <3>1
    <2>2. ASSUME NEW x \in F PROVE \E k \in 0..n : FreeWalk[k] = x
      <3>1. PICK i \in 1..n : x = q[i]
        BY <1>2
      <3>2. i - 1 \in 0..n /\ i - 1 \in Nat /\ i - 1 < n /\ (i - 1) + 1 = i
        BY <1>2
      <3>3. QED
        BY <1>3, <3>1, <3>2
    <2>3. n \in 0..n /\ FreeWalk[n] = Null
      BY <1>2, <1>3
    <2>4. QED
      BY <2>1, <2>2, <2>3
  <1>6. QED
    BY <1>4, <1>5 DEF FreeListIsWhole, F

(* The walk along next_free meets each free block once and ends (kmalloc,  *)
(* heap_dump_stats).                                                       *)
THEOREM HeapListIsWhole == HeapSpec => []FreeListIsWhole
  <1>1. HeapInv /\ FreeListed /\ [HeapNext]_heap => FreeListed'
    BY StepListed DEF FreeListed
  <1>2. QED
    BY <1>1, InitListed, ListIsWalked, HeapKeepsInv, PTL DEF HeapSpec

-----------------------------------------------------------------------------
(* The frames. *)
(* The lowest free frame is a free frame. *)
LEMMA MinIn == ASSUME NEW S \in SUBSET Nat, S # {} PROVE Min(S) \in S
  <1>1. \E x \in S : \A y \in S : ~(<<y, x>> \in OpToRel(<, Nat))
    BY NatLessThanWellFounded, WFMin, Zenon
  <1>2. PICK x \in S : \A y \in S : ~(<<y, x>> \in OpToRel(<, Nat))
    BY <1>1
  <1>3. \A y \in S : ~(y < x)
    BY <1>2 DEF OpToRel
  <1>4. \A y \in S : x <= y
    BY <1>3
  <1>5. QED
    BY <1>4 DEF Min

(* The arithmetic of the constants. *)
LEMMA Numbers ==
    /\ MmapStart \in Nat \ {0} /\ BrkStart \in Nat /\ LastPage \in Nat
    /\ MmapStart <= BrkStart /\ BrkStart <= LastPage
    /\ LastPage = BrkStart + BrkPages /\ BrkStart = MmapStart + MmapPages
    /\ MaxFrame \in Nat /\ BrkPages \in Nat /\ MmapPages \in Nat
    /\ First \in Proc
    /\ 0 \notin Frame
  BY MemAssumption DEF MmapStart, BrkStart, LastPage, First, Proc, Frame

(* Where a page and its table are. *)
LEMMA Places ==
    ASSUME NEW v \in Page
    PROVE  PageItem(v) \in Item /\ TableItem(v) \in Item /\ PageItem(v) # TableItem(v)
  <1>1. Region(v) \in 1..3 /\ PagesBelow(v) \in Nat /\ PagesBelow(v) < v
    BY Numbers DEF Region, PagesBelow, Page
  <1>2. QED
    BY <1>1, Numbers DEF PageItem, TableItem, Item, Page

-----------------------------------------------------------------------------
JobFits ==
    job # NoJob =>
       /\ job.from <= job.to
       /\ job.op = "mmap" => job.from = MmapStart + top + 1 /\ job.to <= BrkStart
       /\ job.op = "brk" => job.to > BrkStart

MemInv == MemTypeOK /\ JobFits /\ OnePlace

Frames == [Item -> 0..MaxFrame]

(* One space gets new contents: frames that were free or its own there,    *)
(* which are not free any more and each in one place.                      *)
FramesTaken(p, sp) ==
    /\ space' = [space EXCEPT ![p] = sp]
    /\ sp \in Frames
    /\ bitmap' \subseteq bitmap
    /\ \A i \in Item : sp[i] # 0 => sp[i] \notin bitmap'
    /\ \A i \in Item : sp[i] # 0 => sp[i] \in bitmap \/ sp[i] = space[p][i]
    /\ \A i, j \in Item : sp[i] # 0 /\ sp[i] = sp[j] => i = j

(* Taking free frames for one space leaves no frame in two places. *)
LEMMA TakenKeepsPlaces ==
    ASSUME MemInv, NEW p \in Proc, NEW sp, FramesTaken(p, sp)
    PROVE  OnePlace'
  <1> SUFFICES ASSUME NEW r \in Proc, NEW i \in Item, space'[r][i] # 0
               PROVE  /\ space'[r][i] \notin bitmap'
                      /\ \A q \in Proc, j \in Item :
                            space'[r][i] = space'[q][j] => r = q /\ i = j
    BY DEF OnePlace, Mapped
  <1>1. /\ space'[p] = sp
        /\ \A q \in Proc \ {p} : space'[q] = space[q]
    BY DEF FramesTaken, MemInv, MemTypeOK
  <1>2. \A q \in Proc, j \in Item : space[q][j] # 0 =>
           /\ space[q][j] \notin bitmap
           /\ \A u \in Proc, k \in Item : space[q][j] = space[u][k] => q = u /\ j = k
    BY DEF MemInv, OnePlace, Mapped
  <1>3. space'[r][i] \notin bitmap'
    BY <1>1, <1>2 DEF FramesTaken
  <1>4. ASSUME NEW q \in Proc, NEW j \in Item, space'[r][i] = space'[q][j]
        PROVE  r = q /\ i = j
    <2>1. CASE r = p /\ q = p
      BY <1>1, <1>4, <2>1 DEF FramesTaken
    <2>2. CASE r # p /\ q # p
      BY <1>1, <1>2, <1>4, <2>2
    <2>3. CASE r = p /\ q # p
      <3>1. space'[r][i] = sp[i] /\ space'[q][j] = space[q][j] /\ space[q][j] # 0
        BY <1>1, <1>4, <2>3
      <3>2. space[q][j] \notin bitmap /\ space[p][i] # space[q][j]
        BY <1>2, <2>3, <3>1
      <3>3. QED
        BY <1>4, <3>1, <3>2 DEF FramesTaken
    <2>4. CASE r # p /\ q = p
      <3>1. space'[r][i] = space[r][i] /\ space'[q][j] = sp[j] /\ sp[j] # 0
        BY <1>1, <1>4, <2>4
      <3>2. space[r][i] \notin bitmap /\ space[p][j] # space[r][i]
        BY <1>2, <2>4, <3>1
      <3>3. QED
        BY <1>4, <3>1, <3>2 DEF FramesTaken
    <2>5. QED
      BY <2>1, <2>2, <2>3, <2>4
  <1>5. QED
    BY <1>3, <1>4

-----------------------------------------------------------------------------
(* What next_table makes of the frames F and the space sp: nothing, or a   *)
(* page table where there is none.                                         *)
TableMade(t, F, sp, ok, v) ==
    \/ t = [free |-> F, sp |-> sp, ok |-> ok]
    \/ /\ sp[TableItem(v)] = 0
       /\ \E x \in F : t = [free |-> F \ {x}, sp |-> [sp EXCEPT ![TableItem(v)] = x], ok |-> ok]

(* next_table makes a table where there is none, or nothing. *)
LEMMA TableStep ==
    ASSUME NEW F \in SUBSET Frame, NEW sp \in Frames, NEW v \in Page, NEW ok
    PROVE  TableMade(next_table([free |-> F, sp |-> sp, ok |-> ok], v), F, sp, ok, v)
  <1> DEFINE m == [free |-> F, sp |-> sp, ok |-> ok]
  <1>1. CASE sp[TableItem(v)] # 0 \/ F = {}
    BY <1>1 DEF next_table, TableMade
  <1>2. CASE sp[TableItem(v)] = 0 /\ F # {}
    <2>1. Min(F) \in F
      BY <1>2, MinIn, Numbers DEF Frame
    <2>2. next_table(m, v) = [free |-> F \ {Min(F)}, ok |-> ok,
                              sp |-> [sp EXCEPT ![TableItem(v)] = Min(F)]]
      BY <1>2 DEF next_table
    <2>3. QED
      BY <1>2, <2>1, <2>2 DEF TableMade
  <1>3. QED
    BY <1>1, <1>2

(* What MapNew makes of the frames F and the space sp: nothing and a       *)
(* failure, a page, or a page table and a page.                            *)
NothingMade(m, F, sp) == m.free = F /\ m.sp = sp /\ m.ok = FALSE

OneMade(m, F, sp, ok, v) ==
    /\ m.ok = ok
    /\ sp[TableItem(v)] # 0
    /\ \E x \in F : m.free = F \ {x} /\ m.sp = [sp EXCEPT ![PageItem(v)] = x]

TwoMade(m, F, sp, ok, v) ==
    /\ m.ok = ok
    /\ sp[TableItem(v)] = 0
    /\ \E x, y \in F : /\ x # y
                       /\ m.free = F \ {x, y}
                       /\ m.sp = [[sp EXCEPT ![TableItem(v)] = x] EXCEPT ![PageItem(v)] = y]

(* Mapping a new page takes no frame, one for the page or one more for     *)
(* its table.                                                              *)
LEMMA MapNewIs ==
    ASSUME NEW F \in SUBSET Frame, NEW sp \in Frames, NEW v \in Page, NEW ok, NEW m,
           m = MapNew([free |-> F, sp |-> sp, ok |-> ok], v)
    PROVE  NothingMade(m, F, sp) \/ OneMade(m, F, sp, ok, v) \/ TwoMade(m, F, sp, ok, v)
  <1>1. CASE F = {}
    BY <1>1 DEF MapNew, NothingMade
  <1>2. CASE F # {}
    <2> DEFINE page == Min(F)
               G == F \ {page}
               t == next_table([free |-> G, sp |-> sp, ok |-> ok], v)
    <2>1. page \in F
      <3>1. F \in SUBSET Nat
        BY Numbers DEF Frame
      <3>2. QED
        BY <1>2, <3>1, MinIn
    <2>2. [[free |-> F, sp |-> sp, ok |-> ok] EXCEPT !.free = G]
             = [free |-> G, sp |-> sp, ok |-> ok]
      OBVIOUS
    <2>3. m = IF t.sp[TableItem(v)] = 0
              THEN [t EXCEPT !.free = @ \cup {page}, !.ok = FALSE]
              ELSE [t EXCEPT !.sp[PageItem(v)] = page]
      BY <1>2, <2>2 DEF MapNew
    <2>4. /\ G = F \ {page} /\ G \in SUBSET Frame
      OBVIOUS
    <2>5. PageItem(v) \in Item /\ TableItem(v) \in Item /\ TableItem(v) # PageItem(v)
      BY Places
    <2> HIDE DEF page, G
    <2>6. TableMade(t, G, sp, ok, v)
      BY <2>4, TableStep
    <2> HIDE DEF t
    <2>7. CASE t = [free |-> G, sp |-> sp, ok |-> ok]
      <3>1. CASE sp[TableItem(v)] = 0
        <4>1. m.free = G \cup {page} /\ m.sp = sp /\ m.ok = FALSE
          BY <2>3, <2>7, <3>1
        <4>2. G \cup {page} = F
          BY <2>1, <2>4
        <4>3. QED
          BY <4>1, <4>2 DEF NothingMade
      <3>2. CASE sp[TableItem(v)] # 0
        <4>1. m.free = G /\ m.sp = [sp EXCEPT ![PageItem(v)] = page] /\ m.ok = ok
          BY <2>3, <2>7, <3>2
        <4>2. m.free = F \ {page}
          BY <2>4, <4>1
        <4>3. QED
          BY <2>1, <3>2, <4>1, <4>2 DEF OneMade
      <3>3. QED
        BY <3>1, <3>2
    <2>8. ASSUME NEW x \in G, sp[TableItem(v)] = 0,
                 t = [free |-> G \ {x}, sp |-> [sp EXCEPT ![TableItem(v)] = x], ok |-> ok]
          PROVE  TwoMade(m, F, sp, ok, v)
      <3> DEFINE one == [sp EXCEPT ![TableItem(v)] = x]
      <3>1. one[TableItem(v)] # 0
        BY <2>4, <2>5, Numbers DEF Frames
      <3> HIDE DEF one
      <3>2. m.free = G \ {x} /\ m.sp = [one EXCEPT ![PageItem(v)] = page] /\ m.ok = ok
        BY <2>3, <2>8, <3>1 DEF one
      <3>3. m.sp = [[sp EXCEPT ![TableItem(v)] = x] EXCEPT ![PageItem(v)] = page]
        BY <3>2 DEF one
      <3>4. m.free = F \ {x, page} /\ x # page /\ x \in F
        BY <2>4, <3>2
      <3>5. QED
        BY <2>1, <2>8, <3>2, <3>3, <3>4 DEF TwoMade
    <2>9. QED
      <3>1. CASE t = [free |-> G, sp |-> sp, ok |-> ok]
        BY <2>7, <3>1
      <3>2. CASE t # [free |-> G, sp |-> sp, ok |-> ok]
        <4>1. /\ sp[TableItem(v)] = 0
              /\ \E x \in G : t = [free |-> G \ {x}, sp |-> [sp EXCEPT ![TableItem(v)] = x], ok |-> ok]
          BY <2>6, <3>2, Zenon DEF TableMade
        <4>2. QED
          BY <2>8, <4>1, Zenon
      <3>3. QED
        BY <3>1, <3>2
  <1>3. QED
    BY <1>1, <1>2

(* It puts what it takes into one item each, when the space holds none of  *)
(* the frames.                                                             *)
PageMade(m, F, sp) ==
    /\ m.sp \in Frames
    /\ m.free \subseteq F
    /\ \A i \in Item : m.sp[i] = sp[i] \/ m.sp[i] \in F \ m.free
    /\ \A i, j \in Item : m.sp[i] \in F /\ m.sp[i] = m.sp[j] => i = j

(* It leaves alone the rest of the space, it takes no frame that does not  *)
(* show up there, and without a failure the page is in place.              *)
PageKept(m, F, sp, v) ==
    /\ \A i \in Item \ {PageItem(v)} : sp[i] # 0 => m.sp[i] = sp[i]
    /\ \A i \in Item \ {PageItem(v), TableItem(v)} : m.sp[i] = sp[i]
    /\ \A i \in Item : sp[i] # 0 => m.sp[i] # 0
    /\ m.ok => m.sp[PageItem(v)] # 0 /\ m.sp[TableItem(v)] # 0
    /\ \A x \in F \ m.free : \E i \in Item : m.sp[i] = x

(* In each case what was mapped stays, and only free frames are taken. *)
LEMMA MapNewResult ==
    ASSUME NEW F \in SUBSET Frame, NEW sp \in Frames, \A i \in Item : sp[i] \notin F,
           NEW v \in Page, NEW ok, NEW m,
           m = MapNew([free |-> F, sp |-> sp, ok |-> ok], v)
    PROVE  PageMade(m, F, sp) /\ PageKept(m, F, sp, v)
  <1>1. PageItem(v) \in Item /\ TableItem(v) \in Item /\ TableItem(v) # PageItem(v)
    BY Places
  <1>2. \A x \in F : x \in 0..MaxFrame /\ x # 0
    BY Numbers DEF Frame
  <1>3. CASE NothingMade(m, F, sp)
    BY <1>3 DEF NothingMade, PageMade, PageKept
  <1>4. CASE OneMade(m, F, sp, ok, v)
    <2>1. PICK x \in F : m.free = F \ {x} /\ m.sp = [sp EXCEPT ![PageItem(v)] = x]
      BY <1>4 DEF OneMade
    <2>2. m.sp \in Frames /\ \A k \in Item : m.sp[k] = IF k = PageItem(v) THEN x ELSE sp[k]
      BY <1>1, <1>2, <2>1 DEF Frames
    <2>3. sp[TableItem(v)] # 0
      BY <1>4 DEF OneMade
    <2>4. PageMade(m, F, sp)
      BY <1>1, <1>2, <2>1, <2>2 DEF PageMade
    <2>5. PageKept(m, F, sp, v)
      BY <1>1, <1>2, <2>1, <2>2, <2>3 DEF PageKept
    <2>6. QED
      BY <2>4, <2>5
  <1>5. CASE TwoMade(m, F, sp, ok, v)
    <2>1. PICK x \in F, y \in F :
             /\ x # y
             /\ m.free = F \ {x, y}
             /\ m.sp = [[sp EXCEPT ![TableItem(v)] = x] EXCEPT ![PageItem(v)] = y]
      BY <1>5 DEF TwoMade
    <2>2. /\ m.sp \in Frames
          /\ \A k \in Item : m.sp[k] = IF k = PageItem(v) THEN y
                                       ELSE IF k = TableItem(v) THEN x ELSE sp[k]
      BY <1>1, <1>2, <2>1 DEF Frames
    <2>3. sp[TableItem(v)] = 0
      BY <1>5 DEF TwoMade
    <2>4. PageMade(m, F, sp)
      BY <1>1, <1>2, <2>1, <2>2 DEF PageMade
    <2>5. PageKept(m, F, sp, v)
      BY <1>1, <1>2, <2>1, <2>2, <2>3 DEF PageKept
    <2>6. QED
      BY <2>4, <2>5
  <1>6. QED
    BY <1>3, <1>4, <1>5, MapNewIs

(* So a step that maps a new page takes free frames for one space. *)
LEMMA MapNewStep ==
    ASSUME MemInv, NEW p \in Proc, NEW v \in Page, NEW ok, NEW m,
           m = MapNew([free |-> bitmap, sp |-> space[p], ok |-> ok], v),
           bitmap' = m.free, space' = [space EXCEPT ![p] = m.sp]
    PROVE  FramesTaken(p, m.sp) /\ PageKept(m, bitmap, space[p], v)
  <1> DEFINE sp == space[p]
  <1>1. /\ bitmap \in SUBSET Frame /\ sp \in Frames
        /\ 0 \notin Frame
    BY Numbers DEF MemInv, MemTypeOK, Frames
  <1>2. /\ \A i \in Item : sp[i] # 0 => sp[i] \notin bitmap
        /\ \A i, j \in Item : sp[i] # 0 /\ sp[i] = sp[j] => i = j
    BY DEF MemInv, OnePlace, Mapped
  <1>3. PageMade(m, bitmap, sp) /\ PageKept(m, bitmap, sp, v)
    BY <1>1, <1>2, MapNewResult
  <1>4. QED
    BY <1>1, <1>2, <1>3 DEF PageMade, FramesTaken

-----------------------------------------------------------------------------
(* Of two members of a finite set of numbers, the later one has the higher *)
(* rank.                                                                   *)
LEMMA RankApart ==
    ASSUME NEW S \in SUBSET Nat, IsFiniteSet(S), NEW x \in S, NEW y \in S, x < y
    PROVE  Rank(S, x) # Rank(S, y)
  <1> DEFINE A == {z \in S : z <= x}
             B == {z \in S : z <= y}
  <1>1. A \in SUBSET B
    <2>1. \A z \in S : z <= x => z <= y
      OBVIOUS
    <2>2. QED
      BY <2>1
  <1>2. y \in B /\ y \notin A /\ B \in SUBSET S
    OBVIOUS
  <1>3. IsFiniteSet(B) /\ A # B
    BY <1>2, FS_Subset
  <1>4. Cardinality(A) # Cardinality(B)
    BY <1>1, <1>3, FS_Subset
  <1>5. QED
    BY <1>4 DEF Rank

(* A clone puts one frame into each item.                                  *)
LEMMA CloneStep ==
    ASSUME MemInv, NEW p \in Proc
    PROVE  /\ Clone(p) \in Frames
           /\ \A i \in Item : Clone(p)[i] # 0 => Clone(p)[i] \in bitmap
           /\ \A i, j \in Item : Clone(p)[i] # 0 /\ Clone(p)[i] = Clone(p)[j] => i = j
  <1>1. \A i \in Item : Clone(p)[i] # 0 =>
           /\ i \in ToClone(p)
           /\ Clone(p)[i] \in Given(p, i)
    BY DEF Clone
  <1>2. \A i \in Item : Given(p, i) \subseteq bitmap
    BY DEF Given
  <1>3. \A i \in Item : Clone(p)[i] # 0 => Clone(p)[i] \in bitmap
    BY <1>1, <1>2
  <1>4. Clone(p) \in Frames
    <2>1. \A i \in Item : Clone(p)[i] \in 0..MaxFrame
      <3>1. bitmap \subseteq 0..MaxFrame /\ 0 \in 0..MaxFrame
        BY Numbers DEF MemInv, MemTypeOK, Frame
      <3>2. QED
        BY <1>3, <3>1
    <2>2. Clone(p) = [i \in Item |-> Clone(p)[i]]
      BY DEF Clone
    <2>3. QED
      BY <2>1, <2>2 DEF Frames
  <1>5. ASSUME NEW i \in Item, NEW j \in Item, Clone(p)[i] # 0, Clone(p)[i] = Clone(p)[j]
        PROVE  i = j
    <2>1. i \in ToClone(p) /\ j \in ToClone(p)
      BY <1>1, <1>5
    <2>2. Rank(ToClone(p), i) = Rank(ToClone(p), j)
      <3>1. Clone(p)[i] \in Given(p, i) /\ Clone(p)[i] \in Given(p, j)
        BY <1>1, <1>5
      <3>2. QED
        BY <3>1 DEF Given
    <2>3. ToClone(p) \in SUBSET Item
      BY Numbers DEF ToClone, Root, Item
    <2>4. ~(i < j) /\ ~(j < i)
      <3>1. Item \in SUBSET Nat /\ IsFiniteSet(Item)
        BY FS_Interval, Numbers DEF Item
      <3>2. ToClone(p) \in SUBSET Nat /\ IsFiniteSet(ToClone(p))
        BY <2>3, <3>1, FS_Subset
      <3>3. QED
        BY <2>1, <2>2, <3>2, RankApart
    <2>5. QED
      BY <2>4 DEF Item
  <1>6. QED
    BY <1>3, <1>4, <1>5

(* A process gets its clone, or another process the space of none. *)
LEMMA CloneTaken ==
    ASSUME MemInv, NEW p \in Proc, NEW c \in Proc,
           space' = [space EXCEPT ![c] = Clone(p)], bitmap' = bitmap \ Taken(Clone(p))
    PROVE  FramesTaken(c, Clone(p))
  <1>1. \A i \in Item : Clone(p)[i] # 0 => Clone(p)[i] \notin bitmap'
    BY DEF Taken
  <1>2. QED
    BY <1>1, CloneStep DEF FramesTaken

(* munmap and brk: what is given back is nowhere any more. *)
LEMMA UnmapStep ==
    ASSUME MemInv, NEW V \in SUBSET Page, UnmapRange(V)
    PROVE  /\ OnePlace'
           /\ bitmap' \subseteq Frame
           /\ space' \in [Proc -> [Item -> 0..MaxFrame]]
  <1> DEFINE items == {PageItem(v) : v \in V}
             gone  == {space[First][i] : i \in items} \ {0}
             kept  == [i \in Item |-> IF i \in items THEN 0 ELSE space[First][i]]
  <1>1. /\ space' = [space EXCEPT ![First] = kept]
        /\ bitmap' = bitmap \cup gone
    BY DEF UnmapRange
  <1>2. /\ space \in [Proc -> [Item -> 0..MaxFrame]] /\ First \in Proc
        /\ bitmap \subseteq Frame
    BY Numbers DEF MemInv, MemTypeOK
  <1>3. items \subseteq Item
    BY Places
  <1>4. \A q \in Proc, j \in Item : space[q][j] # 0 =>
           /\ space[q][j] \notin bitmap
           /\ \A u \in Proc, k \in Item : space[q][j] = space[u][k] => q = u /\ j = k
    BY DEF MemInv, OnePlace, Mapped
  <1>5. \A q \in Proc, j \in Item :
           space'[q][j] = IF q = First /\ j \in items THEN 0 ELSE space[q][j]
    BY <1>1, <1>2
  <1>6. \A i \in items : space[First][i] \in 0..MaxFrame
    BY <1>2, <1>3
  <1> HIDE DEF items
  <1>7. gone \subseteq Frame
    BY <1>6, Numbers DEF Frame
  <1>8. ASSUME NEW q \in Proc, NEW j \in Item, space'[q][j] # 0
        PROVE  space'[q][j] \notin gone
    <2>1. space'[q][j] = space[q][j] /\ ~(q = First /\ j \in items)
      BY <1>5, <1>8
    <2>2. ASSUME NEW i \in items, space[First][i] = space[q][j] PROVE FALSE
      BY <1>2, <1>3, <1>4, <1>8, <2>1, <2>2
    <2>3. QED
      BY <2>1, <2>2
  <1>9. OnePlace'
    <2>1. \A q \in Proc, j \in Item : space'[q][j] # 0 => space'[q][j] \notin bitmap'
      BY <1>1, <1>4, <1>5, <1>8
    <2>2. \A q \in Proc, j \in Item, u \in Proc, k \in Item :
             space'[q][j] # 0 /\ space'[q][j] = space'[u][k] => q = u /\ j = k
      BY <1>4, <1>5
    <2>3. QED
      BY <2>1, <2>2 DEF OnePlace, Mapped
  <1>10. kept \in [Item -> 0..MaxFrame]
    BY <1>2, Numbers
  <1>11. QED
    BY <1>1, <1>2, <1>7, <1>9, <1>10

-----------------------------------------------------------------------------
Jobs == [op : {"mmap", "brk", "execve"}, p : Proc, from : Page, at : Page, to : Page]

(* No process but the first has anything yet. *)
LEMMA InitInv == MemInit => MemInv
  <1> SUFFICES ASSUME MemInit PROVE MemInv
    OBVIOUS
  <1>1. /\ Loaded \subseteq Item
        /\ \A i \in Loaded : i \in Int /\ i - 1 \in Frame
    BY Numbers, MemAssumption
       DEF Loaded, Dir, PageItem, Region, Item, Frame, MmapStart
  <1>2. \A p \in Proc, i \in Item :
           space[p][i] = IF p = First /\ i \in Loaded THEN i - 1 ELSE 0
    BY DEF MemInit
  <1>3. MemTypeOK
    <2>1. space \in [Proc -> [Item -> 0..MaxFrame]]
      <3>1. \A p \in Proc, i \in Item :
               (IF p = First /\ i \in Loaded THEN i - 1 ELSE 0) \in 0..MaxFrame
        BY <1>1, Numbers DEF Frame
      <3>2. QED
        BY <3>1 DEF MemInit
    <2>2. QED
      <3>1. /\ brk \in [Proc -> 0..BrkPages] /\ told \in [Proc -> 0..BrkPages]
            /\ owned \in [Proc -> SUBSET Page] /\ top \in 0..MmapPages
        BY Numbers DEF MemInit
      <3>2. bitmap \subseteq Frame /\ up \subseteq Proc /\ job = NoJob
        BY Numbers DEF MemInit
      <3>3. recorded \in BOOLEAN /\ leaky \in BOOLEAN /\ spoilt \subseteq Proc /\ restarted \subseteq Proc
        BY DEF MemInit
      <3>4. QED
        BY <2>1, <3>1, <3>2, <3>3 DEF MemTypeOK
  <1>4. OnePlace
    BY <1>1, <1>2, Numbers, SMTT(30) DEF OnePlace, Mapped, MemInit, Frame
  <1>5. QED
    BY <1>3, <1>4 DEF MemInv, JobFits, MemInit

(* A call that maps pages begins. *)
LEMMA BeginStep ==
    ASSUME MemInv, NEW p \in Proc, sys_mmap(p) \/ BrkGrow(p) \/ sys_execve(p)
    PROVE  MemInv'
  <1>1. /\ UNCHANGED <<bitmap, space, up, brk, recorded, top, histVars>>
        /\ top \in 0..MmapPages /\ brk[p] \in 0..BrkPages
    BY DEF sys_mmap, BrkGrow, sys_execve, MemInv, MemTypeOK
  <1>2. OnePlace'
    BY <1>1 DEF MemInv, OnePlace, Mapped
  <1>3. job' \in Jobs /\ JobFits'
    <2>1. CASE sys_mmap(p)
      <3>1. PICK n \in 1..(MmapPages - top) :
               job' = [op |-> "mmap", p |-> p, from |-> MmapStart + top + 1,
                       at |-> MmapStart + top + 1, to |-> MmapStart + top + n]
        BY <2>1 DEF sys_mmap
      <3>2. MmapStart + top + 1 \in Page /\ MmapStart + top + n \in Page
        BY <1>1, Numbers DEF Page
      <3>3. QED
        BY <1>1, <3>1, <3>2, Numbers DEF Jobs, JobFits
    <2>2. CASE BrkGrow(p)
      <3>1. PICK w \in (brk[p] + 1)..BrkPages :
               job' = [op |-> "brk", p |-> p, from |-> BrkStart + brk[p] + 1,
                       at |-> BrkStart + brk[p] + 1, to |-> BrkStart + w]
        BY <2>2 DEF BrkGrow
      <3>2. BrkStart + brk[p] + 1 \in Page /\ BrkStart + w \in Page
        BY <1>1, Numbers DEF Page
      <3>3. QED
        BY <1>1, <3>1, <3>2, Numbers DEF Jobs, JobFits
    <2>3. CASE sys_execve(p)
      <3>1. 1 \in Page /\ MmapStart \in Page
        BY Numbers DEF Page
      <3>2. QED
        BY <2>3, <3>1, Numbers DEF sys_execve, Jobs, JobFits
    <2>4. QED
      BY <2>1, <2>2, <2>3
  <1>4. MemTypeOK'
    BY <1>1, <1>3 DEF MemInv, MemTypeOK, histVars, Jobs
  <1>5. QED
    BY <1>2, <1>3, <1>4 DEF MemInv

(* A call returns. *)
LEMMA ReturnStep ==
    ASSUME MemInv, job # NoJob, NEW done \in BOOLEAN, Return(done)
    PROVE  /\ job' = NoJob
           /\ top' \in 0..MmapPages
           /\ brk' \in [Proc -> 0..BrkPages]
           /\ owned' \in [Proc -> SUBSET Page]
           /\ told' \in [Proc -> 0..BrkPages]
           /\ restarted' \subseteq Proc
  <1>1. /\ job \in Jobs /\ top \in 0..MmapPages /\ brk \in [Proc -> 0..BrkPages]
        /\ owned \in [Proc -> SUBSET Page] /\ told \in [Proc -> 0..BrkPages]
        /\ restarted \subseteq Proc
    BY DEF MemInv, MemTypeOK, Jobs
  <1>2. /\ job.p \in Proc /\ job.from \in Page /\ job.to \in Page
        /\ job.from..job.to \subseteq Page
    BY <1>1, Numbers DEF Jobs, Page
  <1>3. job.op = "brk" => job.to - BrkStart \in 0..BrkPages
    BY <1>2, Numbers DEF MemInv, JobFits, Page
  <1>4. job.op = "mmap" => top + job.to - job.from + 1 \in 0..MmapPages
    BY <1>1, <1>2, Numbers DEF MemInv, JobFits, Page
  <1>5. top' \in 0..MmapPages
    BY <1>1, <1>4 DEF Return, TopAfter
  <1>6. brk' \in [Proc -> 0..BrkPages]
    BY <1>1, <1>2, <1>3 DEF Return
  <1>7. told' \in [Proc -> 0..BrkPages]
    BY <1>1, <1>2, <1>3 DEF Return
  <1>8. owned' \in [Proc -> SUBSET Page]
    BY <1>1, <1>2 DEF Return
  <1>9. job' = NoJob /\ restarted' \subseteq Proc
    BY <1>1 DEF Return
  <1>10. QED
    BY <1>5, <1>6, <1>7, <1>8, <1>9

(* One page of a call, and the end of the call behind its last page. *)
LEMMA MapPageStep ==
    ASSUME MemInv, MapPage
    PROVE  MemInv'
  <1> DEFINE m == MapNew([free |-> bitmap, sp |-> space[job.p], ok |-> TRUE], job.at)
             stack == job.op = "execve" /\ job.at > ImagePages
  <1>1. /\ job # NoJob
        /\ bitmap' = m.free
        /\ space' = [space EXCEPT ![job.p] = m.sp]
        /\ UNCHANGED <<up, recorded, spoilt>>
        /\ leaky' \in BOOLEAN
    BY DEF MapPage
  <1>2. /\ job \in Jobs /\ job.p \in Proc /\ job.at \in Page /\ job.to \in Page
    BY <1>1 DEF MemInv, MemTypeOK, Jobs
  <1>3. FramesTaken(job.p, m.sp)
    BY <1>1, <1>2, MapNewStep
  <1>4. OnePlace'
    BY <1>2, <1>3, TakenKeepsPlaces
  <1>5. bitmap' \subseteq Frame /\ space' \in [Proc -> [Item -> 0..MaxFrame]]
    BY <1>2, <1>3 DEF FramesTaken, Frames, MemInv, MemTypeOK
  <1>6. \/ /\ job.at < job.to
           /\ job' = [job EXCEPT !.at = @ + 1]
           /\ UNCHANGED <<brk, top, owned, told, restarted>>
        \/ Return(m.ok \/ stack)
    BY DEF MapPage
  <1> HIDE DEF m, stack
  <1>7. CASE Return(m.ok \/ stack)
    <2>1. /\ job' = NoJob
          /\ top' \in 0..MmapPages
          /\ brk' \in [Proc -> 0..BrkPages]
          /\ owned' \in [Proc -> SUBSET Page]
          /\ told' \in [Proc -> 0..BrkPages]
          /\ restarted' \subseteq Proc
      <3>1. CASE m.ok \/ stack
        <4>1. Return(TRUE)
          BY <1>7, <3>1
        <4>2. QED
          BY <1>1, <4>1, ReturnStep
      <3>2. CASE ~(m.ok \/ stack)
        <4>1. Return(FALSE)
          BY <1>7, <3>2
        <4>2. QED
          BY <1>1, <4>1, ReturnStep
      <3>3. QED
        BY <3>1, <3>2
    <2>2. MemTypeOK'
      BY <1>1, <1>5, <2>1 DEF MemTypeOK, MemInv
    <2>3. QED
      BY <1>4, <2>1, <2>2 DEF MemInv, JobFits
  <1>8. CASE /\ job.at < job.to
             /\ job' = [job EXCEPT !.at = @ + 1]
             /\ UNCHANGED <<brk, top, owned, told, restarted>>
    <2>1. job.at + 1 \in Page
      BY <1>2, <1>8, Numbers DEF Page
    <2>2. /\ job' \in Jobs
          /\ job'.from = job.from /\ job'.to = job.to /\ job'.op = job.op
      BY <1>2, <1>8, <2>1 DEF Jobs
    <2>3. MemTypeOK'
      BY <1>1, <1>5, <1>8, <2>2 DEF MemTypeOK, MemInv, Jobs
    <2>4. JobFits'
      BY <1>1, <1>8, <2>2 DEF JobFits, MemInv
    <2>5. QED
      BY <1>4, <2>3, <2>4 DEF MemInv
  <1>9. QED
    BY <1>6, <1>7, <1>8

(* A segment cannot be read: execve gives up. *)
LEMMA ReadFailsStep ==
    ASSUME MemInv, ReadFails
    PROVE  MemInv'
  <1>1. job # NoJob
    BY DEF ReadFails, NoJob
  <1>2. Return(FALSE) /\ UNCHANGED <<bitmap, space, up, recorded, spoilt>> /\ leaky' = TRUE
    BY DEF ReadFails
  <1>3. /\ job' = NoJob
        /\ top' \in 0..MmapPages
        /\ brk' \in [Proc -> 0..BrkPages]
        /\ owned' \in [Proc -> SUBSET Page]
        /\ told' \in [Proc -> 0..BrkPages]
        /\ restarted' \subseteq Proc
    BY <1>1, <1>2, ReturnStep
  <1>4. MemTypeOK'
    BY <1>2, <1>3 DEF MemInv, MemTypeOK
  <1>5. OnePlace' /\ JobFits'
    BY <1>2, <1>3 DEF MemInv, OnePlace, Mapped, JobFits
  <1>6. QED
    BY <1>4, <1>5 DEF MemInv

(* Pages are unmapped. *)
LEMMA GiveBackStep ==
    ASSUME MemInv, NEW p \in Proc, sys_munmap(p) \/ BrkShrink(p)
    PROVE  MemInv'
  <1>1. /\ job = NoJob /\ UNCHANGED <<up, recorded, top, job, restarted>>
        /\ spoilt' = Stray(p)
        /\ owned \in [Proc -> SUBSET Page] /\ brk \in [Proc -> 0..BrkPages]
        /\ told \in [Proc -> 0..BrkPages] /\ leaky \in BOOLEAN
    BY DEF sys_munmap, BrkShrink, May, MemInv, MemTypeOK
  <1>2. /\ \E V \in SUBSET Page : UnmapRange(V)
        /\ owned' \in [Proc -> SUBSET Page] /\ brk' \in [Proc -> 0..BrkPages]
        /\ told' \in [Proc -> 0..BrkPages] /\ leaky' \in BOOLEAN
    <2>1. CASE sys_munmap(p)
      <3>1. PICK a \in owned[p], b \in owned[p] :
               /\ a..b \subseteq owned[p]
               /\ UnmapRange(a..b)
               /\ owned' = [owned EXCEPT ![p] = @ \ (a..b)]
        BY <2>1 DEF sys_munmap
      <3>2. a..b \in SUBSET Page
        BY <1>1, <3>1
      <3>3. owned' \in [Proc -> SUBSET Page]
        BY <1>1, <3>1
      <3>4. UNCHANGED <<brk, told, leaky>>
        BY <2>1 DEF sys_munmap
      <3>5. QED
        BY <1>1, <3>1, <3>2, <3>3, <3>4
    <2>2. CASE BrkShrink(p)
      <3>1. PICK w \in 0..(brk[p] - 1) :
               /\ UnmapRange((BrkStart + w + 1)..(BrkStart + brk[p]))
               /\ brk' = [brk EXCEPT ![p] = w]
               /\ told' = [told EXCEPT ![p] = w]
        BY <2>2 DEF BrkShrink
      <3>2. brk[p] \in 0..BrkPages /\ w \in 0..BrkPages
        BY <1>1, Numbers
      <3>3. (BrkStart + w + 1)..(BrkStart + brk[p]) \in SUBSET Page
        BY <3>2, Numbers DEF Page
      <3>4. brk' \in [Proc -> 0..BrkPages] /\ told' \in [Proc -> 0..BrkPages]
        BY <1>1, <3>1, <3>2
      <3>5. owned' = owned /\ leaky' \in BOOLEAN
        BY <2>2 DEF BrkShrink
      <3>6. QED
        BY <1>1, <3>1, <3>3, <3>4, <3>5
    <2>3. QED
      BY <2>1, <2>2
  <1>3. /\ OnePlace'
        /\ bitmap' \subseteq Frame
        /\ space' \in [Proc -> [Item -> 0..MaxFrame]]
    BY <1>2, UnmapStep
  <1>4. spoilt' \subseteq Proc
    BY <1>1, Numbers DEF Stray, MemInv, MemTypeOK
  <1>5. MemTypeOK'
    BY <1>1, <1>2, <1>3, <1>4 DEF MemInv, MemTypeOK
  <1>6. QED
    BY <1>1, <1>3, <1>5 DEF MemInv, JobFits

(* fork, with its failure after the clone. *)
LEMMA ForkStep ==
    ASSUME MemInv, NEW p \in Proc, sys_fork(p)
    PROVE  MemInv'
  <1>1. /\ job = NoJob /\ p \in up
        /\ bitmap \subseteq Frame /\ up \subseteq Proc
        /\ spoilt \subseteq Proc /\ restarted \subseteq Proc
        /\ brk \in [Proc -> 0..BrkPages] /\ told \in [Proc -> 0..BrkPages]
        /\ owned \in [Proc -> SUBSET Page]
    BY DEF sys_fork, May, MemInv, MemTypeOK
  <1>2. CASE ForkFails(p)
    <2>1. /\ bitmap' \subseteq bitmap
          /\ UNCHANGED <<space, up, brk, recorded, top, job, owned, told, spoilt, restarted>>
          /\ leaky' = TRUE
      BY <1>2 DEF ForkFails
    <2>2. MemTypeOK'
      BY <2>1 DEF MemInv, MemTypeOK
    <2>3. OnePlace' /\ JobFits'
      BY <2>1 DEF MemInv, OnePlace, Mapped, JobFits
    <2>4. QED
      BY <2>2, <2>3 DEF MemInv
  <1>3. ASSUME NEW c \in Proc, ForkDone(p, c) PROVE MemInv'
    <2>1. /\ space' = [space EXCEPT ![c] = Clone(p)]
          /\ bitmap' = bitmap \ Taken(Clone(p))
          /\ up' = up \cup {c}
          /\ owned' = [owned EXCEPT ![c] = owned[p]]
          /\ told' = [told EXCEPT ![c] = told[p]]
          /\ UNCHANGED <<top, job, leaky>>
      BY <1>3 DEF ForkDone
    <2>2. OnePlace'
      BY <2>1, CloneTaken, TakenKeepsPlaces
    <2>3. PICK given \in BOOLEAN :
             LET fresh == given /\ p = First /\ ~recorded IN
             /\ recorded' = (recorded \/ fresh)
             /\ brk' = [brk EXCEPT ![c] = brk[p], ![First] = IF fresh THEN 0 ELSE @]
             /\ restarted' = ((IF p \in restarted THEN restarted \cup {c} ELSE restarted \ {c})
                              \cup (IF fresh /\ brk[First] > 0 THEN {First} ELSE {}))
      BY <1>3 DEF ForkDone
    <2>4. recorded' \in BOOLEAN
      BY <2>3
    <2>5. restarted' \subseteq Proc
      BY <1>1, <2>3, Numbers
    <2>6. spoilt' \subseteq Proc
      <3>1. spoilt' = spoilt \cup {c} \/ spoilt' = spoilt \ {c}
        BY <1>3 DEF ForkDone
      <3>2. QED
        BY <1>1, <3>1
    <2>7. brk' \in [Proc -> 0..BrkPages]
      <3>1. PICK low \in BOOLEAN :
               brk' = [brk EXCEPT ![c] = brk[p], ![First] = IF low THEN 0 ELSE @]
        <4>1. (given /\ p = First /\ ~recorded) \in BOOLEAN
          OBVIOUS
        <4>2. QED
          BY <2>3, <4>1, Zenon
      <3>2. CASE low
        <4>1. brk' = [brk EXCEPT ![c] = brk[p], ![First] = 0]
          BY <3>1, <3>2
        <4>2. QED
          BY <1>1, <4>1, Numbers
      <3>3. CASE ~low
        <4>1. brk' = [brk EXCEPT ![c] = brk[p], ![First] = @]
          BY <3>1, <3>3
        <4>2. QED
          BY <1>1, <4>1, Numbers
      <3>4. QED
        BY <3>2, <3>3
    <2>8. /\ owned' \in [Proc -> SUBSET Page] /\ told' \in [Proc -> 0..BrkPages]
          /\ up' \subseteq Proc
      BY <1>1, <2>1
    <2>9. bitmap' \subseteq Frame /\ space' \in [Proc -> [Item -> 0..MaxFrame]]
      BY <1>1, <2>1, CloneStep DEF Frames, MemInv, MemTypeOK
    <2>10. MemTypeOK'
      BY <2>1, <2>4, <2>5, <2>6, <2>7, <2>8, <2>9 DEF MemInv, MemTypeOK
    <2>11. JobFits'
      BY <2>1 DEF MemInv, JobFits
    <2>12. QED
      BY <2>2, <2>10, <2>11 DEF MemInv
  <1>4. QED
    BY <1>2, <1>3 DEF sys_fork

(* exit: the space of a process is forgotten, or lives on as the kernel's. *)
LEMMA ExitStep ==
    ASSUME MemInv, NEW p \in Proc, sys_exit(p)
    PROVE  MemInv'
  <1> DEFINE none == [i \in Item |-> 0]
  <1>1. /\ up' = up \ {p}
        /\ space' = IF p = First THEN space ELSE [space EXCEPT ![p] = none]
        /\ brk' = [brk EXCEPT ![p] = 0]
        /\ owned' = [owned EXCEPT ![p] = {}]
        /\ told' = [told EXCEPT ![p] = 0]
        /\ spoilt' = spoilt \ {p}
        /\ restarted' = restarted \ {p}
        /\ leaky' = TRUE
        /\ UNCHANGED <<bitmap, recorded, top, job>>
    BY DEF sys_exit
  <1>2. OnePlace' /\ space' \in [Proc -> [Item -> 0..MaxFrame]]
    <2>1. CASE p = First
      BY <1>1, <2>1 DEF MemInv, OnePlace, Mapped, MemTypeOK
    <2>2. CASE p # First
      <3>1. none \in Frames /\ \A i \in Item : none[i] = 0
        BY Numbers DEF Frames
      <3>2. space' = [space EXCEPT ![p] = none]
        BY <1>1, <2>2
      <3> HIDE DEF none
      <3>3. FramesTaken(p, none)
        BY <1>1, <3>1, <3>2 DEF FramesTaken
      <3>4. QED
        BY <3>1, <3>2, <3>3, TakenKeepsPlaces DEF Frames, MemInv, MemTypeOK
    <2>3. QED
      BY <2>1, <2>2
  <1>3. MemTypeOK'
    <2>1. brk' \in [Proc -> 0..BrkPages] /\ told' \in [Proc -> 0..BrkPages]
      BY <1>1, Numbers DEF MemInv, MemTypeOK
    <2>2. owned' \in [Proc -> SUBSET Page]
      BY <1>1 DEF MemInv, MemTypeOK
    <2>3. QED
      BY <1>1, <1>2, <2>1, <2>2 DEF MemInv, MemTypeOK
  <1>4. QED
    BY <1>1, <1>2, <1>3 DEF MemInv, JobFits

-----------------------------------------------------------------------------
(* Every variable of the memory keeps its type, a call under way stays     *)
(* inside its region, and every frame is in one place.                     *)
THEOREM MemInvariant == MemSpec => []MemInv
  <1>1. MemInv /\ [MemNext]_memVars => MemInv'
    <2> SUFFICES ASSUME MemInv, [MemNext]_memVars PROVE MemInv'
      OBVIOUS
    <2>1. CASE UNCHANGED memVars
      BY <2>1 DEF memVars, histVars, MemInv, MemTypeOK, JobFits, OnePlace, Mapped
    <2>2. CASE MapPage
      BY <2>2, MapPageStep
    <2>3. CASE ReadFails
      BY <2>3, ReadFailsStep
    <2>4. ASSUME NEW p \in Proc, sys_mmap(p) \/ BrkGrow(p) \/ sys_execve(p) PROVE MemInv'
      BY <2>4, BeginStep
    <2>5. ASSUME NEW p \in Proc, sys_munmap(p) \/ BrkShrink(p) PROVE MemInv'
      BY <2>5, GiveBackStep
    <2>6. ASSUME NEW p \in Proc, sys_fork(p) PROVE MemInv'
      BY <2>6, ForkStep
    <2>7. ASSUME NEW p \in Proc, sys_exit(p) PROVE MemInv'
      BY <2>7, ExitStep
    <2>8. QED
      BY <2>1, <2>2, <2>3, <2>4, <2>5, <2>6, <2>7 DEF MemNext
  <1>2. QED
    BY InitInv, <1>1, PTL DEF MemSpec

(* No two pages or page tables ever share a frame, and none is on the      *)
(* bitmap, for any number of frames and processes and any sizes (pmm.c,    *)
(* vmm.c).                                                                 *)
THEOREM FramesAreInOnePlace == MemSpec => []OnePlace
  <1>1. MemInv => OnePlace
    BY DEF MemInv
  <1>2. QED
    BY <1>1, MemInvariant, PTL

-----------------------------------------------------------------------------
(* What a page needs to be reached. *)
Backed(p, v) == /\ Mapped(space[p], Dir)
                /\ Mapped(space[p], TableItem(v))
                /\ Mapped(space[p], PageItem(v))

(* The call under way is one of a running process, and what it has gone    *)
(* through is mapped.                                                      *)
JobRuns ==
    job # NoJob =>
       /\ job.p \in up
       /\ job.from <= job.at /\ job.at <= job.to
       /\ job.op = "brk" => job.from = BrkStart + brk[job.p] + 1
       /\ job.op = "execve" => job.to = MmapStart
       /\ job.p \in spoilt \/ \A v \in job.from..(job.at - 1) : Backed(job.p, v)

(* The break is where the program was told, or lower after a restart. *)
BreakIsTold ==
    \A p \in Proc : brk[p] <= told[p] /\ (p \in restarted \/ brk[p] = told[p])

(* Nobody holds a page above user_heap_top. *)
OwnedBelowTop == \A p \in Proc : owned[p] \subseteq (MmapStart + 1)..(MmapStart + top)

(* A process that does not run has no space, but for the kernel's. *)
NoSpace == \A p \in Proc \ up : p = First \/ \A i \in Item : space[p][i] = 0

(* The pages that the next mmap and the next brk of p will map. *)
Unused(p) ==
    {v \in Page : /\ \/ v > MmapStart + top /\ v <= BrkStart
                     \/ v > BrkStart + brk[p] /\ p \notin restarted
                  /\ job # NoJob /\ job.p = p => v \notin job.from..(job.at - 1)}

(* None of them is mapped, so none hides a frame when it is. *)
Vacant == leaky \/ \A p \in Proc : \A v \in Unused(p) : space[p][PageItem(v)] = 0

GivenInv == /\ MemInv /\ JobRuns /\ BreakIsTold /\ OwnedBelowTop /\ NoSpace
            /\ InUseIsMapped /\ Vacant /\ NothingLost

(* A page that stays, when the step is not one of those excepted. *)
Stays(p, v) == \/ space'[p][PageItem(v)] = space[p][PageItem(v)]
               \/ p = First /\ First \in spoilt'
               \/ v \in BrkPage /\ p \in restarted

AllStay == \A p \in up \cap up' : \A v \in InUse(p) \cap InUse(p)' : Stays(p, v)

-----------------------------------------------------------------------------
(* Pages, tables and the directories are all in different places. *)
LEMMA PlacesApart ==
    /\ \A v, w \in Page : PageItem(v) = PageItem(w) => v = w
    /\ \A v, w \in Page : PageItem(v) # TableItem(w)
    /\ \A v \in Page : PageItem(v) # Dir /\ TableItem(v) # Dir
    /\ Dir \in Item
  <1>1. \A v \in Page : /\ Region(v) \in 1..3
                        /\ v <= MmapStart => Region(v) = 1 /\ PagesBelow(v) = 0
                        /\ v > MmapStart /\ v <= BrkStart =>
                              Region(v) = 2 /\ PagesBelow(v) = MmapStart
                        /\ v > BrkStart => Region(v) = 3 /\ PagesBelow(v) = BrkStart
    BY Numbers DEF Region, PagesBelow, Page
  <1>2. ASSUME NEW v \in Page, NEW w \in Page
        PROVE  /\ PageItem(v) = PageItem(w) => v = w
               /\ PageItem(v) # TableItem(w)
               /\ PageItem(v) # Dir /\ TableItem(v) # Dir
    BY <1>1, Numbers DEF PageItem, TableItem, Page, Dir
  <1>3. QED
    BY <1>2, Numbers DEF Dir, Item

(* The pages in use lie in the heap regions, those of mmap below the top. *)
LEMMA InUseIs ==
    ASSUME GivenInv, NEW p \in Proc, NEW v \in InUse(p)
    PROVE  /\ v \in Page /\ v > MmapStart
           /\ v <= BrkStart => v \in owned[p] /\ v <= MmapStart + top
           /\ v > BrkStart => v \in BrkPage /\ v <= BrkStart + told[p]
  <1>1. owned[p] \subseteq (MmapStart + 1)..(MmapStart + top) /\ owned[p] \subseteq Page
    BY DEF GivenInv, OwnedBelowTop, MemInv, MemTypeOK
  <1>2. top \in 0..MmapPages
    BY DEF GivenInv, MemInv, MemTypeOK
  <1>3. CASE v \in owned[p]
    BY <1>1, <1>2, <1>3, Numbers DEF Page
  <1>4. CASE v \in BrkPage /\ v <= BrkStart + told[p]
    BY <1>4, Numbers DEF BrkPage, Page
  <1>5. QED
    BY <1>3, <1>4 DEF InUse

(* The frames and spaces, as far as they stay. *)
LEMMA SameMemory ==
    ASSUME GivenInv, UNCHANGED <<bitmap, space>>, leaky => leaky'
    PROVE  AllStay /\ NothingLost'
  BY DEF GivenInv, AllStay, Stays, NothingLost

(* The image of First is in place at the start, and nothing else. *)
LEMMA GivenInit == MemInit => GivenInv
  <1> SUFFICES ASSUME MemInit PROVE GivenInv
    OBVIOUS
  <1>1. MemInv
    BY InitInv
  <1>2. /\ \A p \in Proc, i \in Item :
              space[p][i] = IF p = First /\ i \in Loaded THEN i - 1 ELSE 0
        /\ up = {First} /\ job = NoJob /\ top = 0 /\ leaky = FALSE
        /\ \A p \in Proc : brk[p] = 0 /\ told[p] = 0 /\ owned[p] = {}
        /\ bitmap = Frame \ {i - 1 : i \in Loaded}
    BY DEF MemInit
  <1>3. Region(MmapStart) = 1 /\ Loaded = 2..(3 + MmapStart)
    BY Numbers DEF Region, Loaded, Dir, PageItem
  <1>4. JobRuns /\ BreakIsTold /\ OwnedBelowTop /\ NoSpace
    BY <1>2, Numbers DEF JobRuns, BreakIsTold, OwnedBelowTop, NoSpace
  <1>5. InUse(First) = {}
    BY <1>2, Numbers DEF InUse, BrkPage
  <1>6. InUseIsMapped
    <2> SUFFICES ASSUME NEW v \in 1..MmapStart
                 PROVE  /\ Mapped(space[First], Dir)
                        /\ Mapped(space[First], TableItem(v))
                        /\ Mapped(space[First], PageItem(v))
      BY <1>2, <1>5 DEF InUseIsMapped
    <2>1. v \in Page /\ Region(v) = 1 /\ PagesBelow(v) = 0
      BY Numbers DEF Page, Region, PagesBelow
    <2>2. TableItem(v) \in Loaded /\ PageItem(v) \in Loaded /\ Dir \in Loaded
      BY <1>3, <2>1, Numbers DEF TableItem, PageItem, Dir
    <2>3. TableItem(v) \in Item /\ PageItem(v) \in Item /\ Dir \in Item
      BY <2>1, Places, PlacesApart
    <2>4. \A i \in Loaded : i # 1 /\ i \in Int
      BY <1>3
    <2>5. \A i \in Loaded \cap Item : space[First][i] # 0
      BY <1>2, <2>4, Numbers
    <2>6. QED
      BY <2>2, <2>3, <2>5 DEF Mapped
  <1>7. Vacant
    <2> SUFFICES ASSUME NEW p \in Proc, NEW v \in Unused(p) PROVE space[p][PageItem(v)] = 0
      BY DEF Vacant
    <2>1. v \in Page /\ v > MmapStart
      BY <1>2, Numbers DEF Unused, Page
    <2>2. PageItem(v) > 3 + MmapStart
      BY <2>1, Numbers DEF PageItem, Region, Page
    <2>3. PageItem(v) \notin Loaded /\ PageItem(v) \in Item
      BY <1>3, <2>1, <2>2, Places, Numbers
    <2>4. QED
      BY <1>2, <2>3
  <1>8. NothingLost
    <2> SUFFICES ASSUME NEW f \in Frame, f \notin bitmap
                 PROVE  \E p \in Proc, i \in Item : space[p][i] = f
      BY DEF NothingLost
    <2>1. PICK i \in Loaded : f = i - 1
      BY <1>2
    <2>2. i \in Item
      BY <1>3, <2>1, Numbers DEF Item, LastPage
    <2>3. space[First][i] = f
      BY <1>2, <2>1, <2>2, Numbers
    <2>4. QED
      BY <2>2, <2>3, Numbers
  <1>9. QED
    BY <1>1, <1>4, <1>6, <1>7, <1>8 DEF GivenInv

(* A call that maps pages begins. *)
LEMMA BeginGives ==
    ASSUME GivenInv, NEW p \in Proc, sys_mmap(p) \/ BrkGrow(p) \/ sys_execve(p)
    PROVE  GivenInv' /\ AllStay
  <1>1. /\ UNCHANGED <<bitmap, space, up, brk, recorded, top>>
        /\ UNCHANGED <<owned, told, spoilt, restarted, leaky>>
        /\ job = NoJob /\ p \in up
    BY DEF sys_mmap, BrkGrow, sys_execve, May, histVars
  <1>2. MemInv'
    BY BeginStep DEF GivenInv
  <1>3. /\ job'.p = p /\ job'.at = job'.from /\ job'.from <= job'.to
        /\ job'.op = "brk" => job'.from = BrkStart + brk[p] + 1
        /\ job'.op = "execve" => job'.to = MmapStart
        /\ job'.from \in Int
    <2>0. /\ sys_execve(p) \/ job'.op # "execve"
          /\ top \in 0..MmapPages /\ brk[p] \in 0..BrkPages
      BY DEF GivenInv, MemInv, MemTypeOK, sys_mmap, BrkGrow, sys_execve
    <2>1. CASE sys_mmap(p)
      BY <2>0, <2>1, Numbers DEF sys_mmap
    <2>2. CASE BrkGrow(p)
      BY <2>0, <2>2, Numbers DEF BrkGrow
    <2>3. CASE sys_execve(p)
      BY <2>3, Numbers DEF sys_execve
    <2>4. QED
      BY <2>1, <2>2, <2>3
  <1>4. JobRuns'
    <2>1. job'.from..(job'.at - 1) = {}
      BY <1>3
    <2>2. QED
      BY <1>1, <1>3, <2>1 DEF JobRuns
  <1>5. BreakIsTold' /\ OwnedBelowTop' /\ NoSpace' /\ InUseIsMapped'
    BY <1>1 DEF GivenInv, BreakIsTold, OwnedBelowTop, NoSpace, InUseIsMapped, InUse
  <1>6. Vacant'
    <2>1. \A q \in Proc : Unused(q)' \subseteq Unused(q)
      BY <1>1 DEF Unused
    <2>2. QED
      BY <1>1, <2>1 DEF GivenInv, Vacant
  <1>7. AllStay /\ NothingLost'
    BY <1>1, SameMemory
  <1>8. QED
    BY <1>2, <1>4, <1>5, <1>6, <1>7 DEF GivenInv

-----------------------------------------------------------------------------
(* The region that the call under way is in. *)
LEMMA JobIs ==
    ASSUME GivenInv, job # NoJob
    PROVE  /\ job.p \in Proc /\ job.p \in up
           /\ job.from \in Page /\ job.at \in Page /\ job.to \in Page
           /\ job.from <= job.at /\ job.at <= job.to
           /\ \/ /\ job.op = "mmap" /\ job.from = MmapStart + top + 1 /\ job.to <= BrkStart
              \/ job.op = "brk" /\ job.from = BrkStart + brk[job.p] + 1
              \/ job.op = "execve" /\ job.to = MmapStart
           /\ top \in 0..MmapPages /\ brk[job.p] \in 0..BrkPages
  BY DEF GivenInv, MemInv, MemTypeOK, JobFits, JobRuns

(* A range with a later end. *)
LEMMA WiderRange ==
    ASSUME NEW a \in Nat, NEW b \in Nat, NEW c \in Nat, b <= c
    PROVE  (a + 1)..(a + b) \subseteq (a + 1)..(a + c)
  OBVIOUS

(* What a call that returns leaves: the break and the pages in use. *)
LEMMA ReturnGives ==
    ASSUME GivenInv, job # NoJob, NEW done \in BOOLEAN, Return(done)
    PROVE  /\ JobRuns' /\ BreakIsTold' /\ OwnedBelowTop'
           /\ \A p \in Proc : \A v \in InUse(p)' :
                 \/ v \in InUse(p)
                 \/ /\ p = job.p /\ done /\ job.op # "execve"
                    /\ v \in job.from..job.to
           /\ done /\ job.op # "execve" /\ job.at = job.to =>
                 \A p \in Proc : \A v \in Unused(p)' :
                    v \in Unused(p) /\ (p = job.p => v # job.at)
  <1> DEFINE j == job.p
  <1>1. /\ j \in Proc /\ job.from \in Page /\ job.to \in Page
        /\ top \in 0..MmapPages
        /\ brk \in [Proc -> 0..BrkPages] /\ told \in [Proc -> 0..BrkPages]
        /\ owned \in [Proc -> SUBSET Page] /\ job.op \in {"mmap", "brk", "execve"}
    BY JobIs DEF GivenInv, MemInv, MemTypeOK
  <1>2. /\ BreakIsTold /\ OwnedBelowTop
    BY DEF GivenInv
  <1>2a. /\ job.op = "mmap" => job.from = MmapStart + top + 1 /\ job.to <= BrkStart
         /\ job.op = "brk" => job.from = BrkStart + brk[j] + 1
         /\ job.from <= job.at /\ job.at <= job.to /\ job.at \in Page
    <2>1. (job # NoJob => job.from <= job.at /\ job.at <= job.to) /\ job.at \in Page
      BY JobIs
    <2>2. QED
      BY <2>1 DEF GivenInv, MemInv, JobFits, JobRuns
  <1>2b. job.from <= job.to
    BY <1>1, <1>2a DEF Page
  <1>3. job' = NoJob
    BY DEF Return
  <1>4. JobRuns'
    BY <1>3 DEF JobRuns
  <1> HIDE DEF j
  <1>5. CASE done /\ job.op = "mmap"
    <2>1. /\ top' = top + job.to - job.from + 1
          /\ owned' = [owned EXCEPT ![j] = @ \cup (job.from..job.to)]
          /\ UNCHANGED <<brk, told, restarted>>
      BY <1>5 DEF Return, TopAfter, j
    <2>2. job.from = MmapStart + top + 1 /\ job.to <= BrkStart /\ job.from <= job.to
      BY <1>2a, <1>2b, <1>5
    <2>3. /\ MmapStart + top' = job.to /\ top' \in Int /\ top' > top
      BY <1>1, <2>1, <2>2, Numbers DEF Page
    <2>4. OwnedBelowTop'
      <3> SUFFICES ASSUME NEW p \in Proc PROVE owned'[p] \subseteq (MmapStart + 1)..(MmapStart + top')
        BY DEF OwnedBelowTop
      <3>1. owned[p] \subseteq (MmapStart + 1)..(MmapStart + top)
        BY <1>2 DEF OwnedBelowTop
      <3>2. owned'[p] \subseteq owned[p] \cup (job.from..job.to)
        BY <1>1, <2>1
      <3>3. job.from..job.to \subseteq (MmapStart + 1)..(MmapStart + top')
        BY <1>1, <2>2, <2>3, Numbers DEF Page
      <3>4. (MmapStart + 1)..(MmapStart + top) \subseteq (MmapStart + 1)..(MmapStart + top')
        <4>1. MmapStart \in Nat /\ top \in Nat /\ top' \in Nat
          BY <1>1, <2>3, Numbers
        <4>2. top <= top'
          BY <2>3, <4>1
        <4>3. QED
          BY <4>1, <4>2, WiderRange
      <3>5. QED
        BY <3>1, <3>2, <3>3, <3>4
    <2>5. BreakIsTold'
      BY <1>2, <2>1 DEF BreakIsTold
    <2>6. ASSUME NEW p \in Proc, NEW v \in InUse(p)'
          PROVE  v \in InUse(p) \/ (p = j /\ v \in job.from..job.to)
      <3>1. v \in owned'[p] \/ (v \in BrkPage /\ v <= BrkStart + told[p])
        BY <2>1, <2>6 DEF InUse
      <3>2. QED
        BY <1>1, <2>1, <3>1 DEF InUse
    <2>7. ASSUME job.at = job.to, NEW p \in Proc, NEW v \in Unused(p)'
          PROVE  v \in Unused(p) /\ (p = j => v # job.at)
      <3>1. /\ v \in Page
            /\ \/ v > job.to /\ v <= BrkStart
               \/ v > BrkStart + brk[p] /\ p \notin restarted
        BY <1>3, <2>1, <2>3, <2>7 DEF Unused
      <3>2. v > job.to
        BY <1>1, <2>2, <3>1, Numbers DEF Page
      <3>3. v > MmapStart + top /\ v \notin job.from..(job.at - 1)
        BY <1>1, <2>2, <2>3, <2>7, <3>1, <3>2, Numbers DEF Page
      <3>4. QED
        BY <1>1, <2>7, <3>1, <3>2, <3>3 DEF Unused, Page
    <2>8. QED
      BY <1>4, <1>5, <2>4, <2>5, <2>6, <2>7 DEF j
  <1>6. CASE done /\ job.op = "brk"
    <2>1. /\ brk' = [brk EXCEPT ![j] = job.to - BrkStart]
          /\ told' = [told EXCEPT ![j] = job.to - BrkStart]
          /\ UNCHANGED <<top, owned, restarted>>
      BY <1>6 DEF Return, TopAfter, j
    <2>2. job.from = BrkStart + brk[j] + 1 /\ job.from <= job.to
      BY <1>2a, <1>2b, <1>6
    <2>3. brk'[j] = job.to - BrkStart /\ told'[j] = job.to - BrkStart
      BY <1>1, <2>1
    <2>4. BreakIsTold'
      <3> SUFFICES ASSUME NEW p \in Proc
                   PROVE  brk'[p] <= told'[p] /\ (p \in restarted' \/ brk'[p] = told'[p])
        BY DEF BreakIsTold
      <3>1. CASE p = j
        BY <1>1, <2>3, <3>1, Numbers DEF Page
      <3>2. CASE p # j
        BY <1>1, <1>2, <2>1, <3>2 DEF BreakIsTold
      <3>3. QED
        BY <3>1, <3>2
    <2>5. OwnedBelowTop'
      BY <1>2, <2>1 DEF OwnedBelowTop
    <2>6. ASSUME NEW p \in Proc, NEW v \in InUse(p)'
          PROVE  v \in InUse(p) \/ (p = j /\ v \in job.from..job.to)
      <3>1. CASE p # j
        BY <1>1, <2>1, <2>6, <3>1 DEF InUse
      <3>2. CASE p = j
        <4>1. v \in owned[j] \/ (v \in BrkPage /\ v <= job.to)
          <5>1. v \in owned[j] \/ (v \in BrkPage /\ v <= BrkStart + told'[j])
            BY <2>1, <2>6, <3>2 DEF InUse
          <5>2. QED
            BY <1>1, <2>3, <5>1, Numbers DEF Page
        <4>2. CASE v \in owned[j]
          BY <3>2, <4>2 DEF InUse
        <4>3. CASE v \in BrkPage /\ v <= job.to
          <5>1. CASE v >= job.from
            BY <1>1, <3>2, <4>3, <5>1, Numbers DEF BrkPage, Page
          <5>2. CASE v < job.from
            <6>1. v <= BrkStart + brk[j] /\ brk[j] <= told[j] /\ told[j] \in Int /\ brk[j] \in Int
              BY <1>1, <1>2, <2>2, <4>3, <5>2, Numbers DEF BrkPage, Page, BreakIsTold
            <6>2. v <= BrkStart + told[j]
              BY <4>3, <6>1, Numbers DEF BrkPage
            <6>3. QED
              BY <3>2, <4>3, <6>2 DEF InUse
          <5>3. QED
            BY <1>1, <4>3, <5>1, <5>2, Numbers DEF BrkPage, Page
        <4>4. QED
          BY <4>1, <4>2, <4>3
      <3>3. QED
        BY <3>1, <3>2
    <2>7. ASSUME job.at = job.to, NEW p \in Proc, NEW v \in Unused(p)'
          PROVE  v \in Unused(p) /\ (p = j => v # job.at)
      <3>1. /\ v \in Page
            /\ \/ v > MmapStart + top /\ v <= BrkStart
               \/ v > BrkStart + brk'[p] /\ p \notin restarted
        BY <1>3, <2>1, <2>7 DEF Unused
      <3>2. CASE p # j
        BY <1>1, <2>1, <3>1, <3>2 DEF Unused, j
      <3>3. CASE p = j
        <4>1. BrkStart + brk'[j] = job.to /\ job.to > BrkStart + brk[j]
          BY <1>1, <2>2, <2>3, Numbers DEF Page
        <4>2. \/ v > MmapStart + top /\ v <= BrkStart
              \/ v > job.to /\ p \notin restarted
          BY <3>1, <3>3, <4>1
        <4>3. v \notin job.from..job.to
          BY <1>1, <2>2, <3>1, <4>1, <4>2, Numbers DEF Page
        <4>4. v \notin job.from..(job.at - 1) /\ v # job.at
          BY <1>1, <2>2, <2>7, <4>3 DEF Page
        <4>5. v > BrkStart + brk[p] \/ v <= BrkStart
          BY <1>1, <2>2, <3>1, <3>3, <4>1, <4>2, Numbers DEF Page
        <4>6. QED
          BY <1>1, <3>1, <3>3, <4>1, <4>2, <4>4, <4>5, Numbers DEF Unused, Page
      <3>4. QED
        BY <3>2, <3>3
    <2>8. QED
      BY <1>4, <1>6, <2>4, <2>5, <2>6, <2>7 DEF j
  <1>7. CASE done /\ job.op = "execve"
    <2>1. /\ owned' = [owned EXCEPT ![j] = {}]
          /\ told' = [told EXCEPT ![j] = brk[j]]
          /\ restarted' = restarted \ {j}
          /\ UNCHANGED <<top, brk>>
      BY <1>7 DEF Return, TopAfter, j
    <2>2. BreakIsTold'
      BY <1>1, <1>2, <2>1 DEF BreakIsTold
    <2>3. OwnedBelowTop'
      BY <1>1, <1>2, <2>1 DEF OwnedBelowTop
    <2>4. ASSUME NEW p \in Proc, NEW v \in InUse(p)' PROVE v \in InUse(p)
      <3>1. told'[p] <= told[p] /\ told[p] \in Int /\ told'[p] \in Int
        BY <1>1, <1>2, <2>1 DEF BreakIsTold
      <3>2. owned'[p] \subseteq owned[p]
        BY <1>1, <2>1
      <3>3. \A w \in BrkPage : w <= BrkStart + told'[p] => w <= BrkStart + told[p]
        BY <3>1, Numbers DEF BrkPage
      <3>4. QED
        BY <2>4, <3>2, <3>3 DEF InUse
    <2>5. QED
      BY <1>4, <1>7, <2>2, <2>3, <2>4
  <1>8. CASE ~done
    <2>1. UNCHANGED <<top, brk, owned, told, restarted>>
      BY <1>8 DEF Return, TopAfter
    <2>2. BreakIsTold' /\ OwnedBelowTop'
      BY <1>2, <2>1 DEF BreakIsTold, OwnedBelowTop
    <2>3. \A p \in Proc : InUse(p)' = InUse(p)
      BY <2>1 DEF InUse
    <2>4. QED
      BY <1>4, <1>8, <2>2, <2>3
  <1>9. QED
    BY <1>1, <1>5, <1>6, <1>7, <1>8

(* One page of a call, and its end behind the last one. *)
LEMMA MapPageGives ==
    ASSUME GivenInv, MapPage
    PROVE  GivenInv' /\ AllStay
  <1> DEFINE m == MapNew([free |-> bitmap, sp |-> space[job.p], ok |-> TRUE], job.at)
             stack == job.op = "execve" /\ job.at > ImagePages
  <1>0. job # NoJob
    BY DEF MapPage
  <1>0a. PICK j \in Proc, at \in Page : j = job.p /\ at = job.at
    BY <1>0, JobIs
  <1>1. /\ job # NoJob
        /\ bitmap' = m.free
        /\ space' = [space EXCEPT ![j] = m.sp]
        /\ UNCHANGED <<up, recorded, spoilt>>
        /\ leaky' = (leaky \/ ~m.ok \/ job.op = "execve" \/ j \in restarted)
    BY <1>0a DEF MapPage
  <1>2. \/ /\ m.ok /\ job.at < job.to
           /\ job' = [job EXCEPT !.at = @ + 1]
           /\ UNCHANGED <<brk, top, owned, told, restarted>>
        \/ /\ ~(m.ok /\ job.at < job.to)
           /\ Return(m.ok \/ stack)
    BY DEF MapPage
  <1>3. /\ j \in Proc /\ j \in up /\ at \in Page
        /\ job.from <= at /\ at <= job.to /\ job.from \in Page /\ job.to \in Page
        /\ \/ /\ job.op = "mmap" /\ job.from = MmapStart + top + 1 /\ job.to <= BrkStart
           \/ job.op = "brk" /\ job.from = BrkStart + brk[j] + 1
           \/ job.op = "execve" /\ job.to = MmapStart
        /\ top \in 0..MmapPages /\ brk[j] \in 0..BrkPages
    BY <1>0, <1>0a, JobIs
  <1>4. MemInv' /\ space \in [Proc -> [Item -> 0..MaxFrame]] /\ told[j] \in 0..BrkPages
    BY <1>3, MapPageStep DEF GivenInv, MemInv, MemTypeOK
  <1>5. PageKept(m, bitmap, space[j], at) /\ FramesTaken(j, m.sp)
    BY <1>1, <1>3, <1>0a, MapNewStep DEF GivenInv
  <1> HIDE DEF m, stack
  <1>6. space'[j] = m.sp /\ \A p \in Proc \ {j} : space'[p] = space[p]
    BY <1>1, <1>3, <1>4
  <1>7. /\ \A i \in Item \ {PageItem(at)} : space[j][i] # 0 => space'[j][i] = space[j][i]
        /\ \A i \in Item \ {PageItem(at), TableItem(at)} : space'[j][i] = space[j][i]
        /\ \A p \in Proc, i \in Item : space[p][i] # 0 => space'[p][i] # 0
        /\ m.ok => space'[j][PageItem(at)] # 0 /\ space'[j][TableItem(at)] # 0
        /\ \A x \in bitmap \ bitmap' : \E i \in Item : space'[j][i] = x
    BY <1>1, <1>5, <1>6 DEF PageKept
  <1>8. \A p \in Proc, v \in Page : Backed(p, v) => Backed(p, v)'
    BY <1>7, Places, PlacesApart DEF Backed, Mapped
  <1>9. m.ok /\ j \notin spoilt => Backed(j, at)'
    <2>1. 1 \in 1..MmapStart
      BY Numbers
    <2>2. j \notin spoilt => Mapped(space[j], Dir)
      BY <1>3, <2>1 DEF GivenInv, InUseIsMapped
    <2>3. QED
      BY <1>7, <2>2, PlacesApart DEF Backed, Mapped
  <1>10. at \notin InUse(j) \/ (at \in BrkPage /\ j \in restarted)
    <2> SUFFICES ASSUME at \in InUse(j) PROVE at \in BrkPage /\ j \in restarted
      OBVIOUS
    <2>1. /\ at > MmapStart
          /\ at <= BrkStart => at <= MmapStart + top
          /\ at > BrkStart => at \in BrkPage /\ at <= BrkStart + told[j]
      BY <1>3, InUseIs
    <2>2. at > BrkStart
      BY <1>3, <2>1, Numbers DEF Page
    <2>3. job.op = "brk"
      BY <1>3, <2>1, <2>2, Numbers DEF Page
    <2>4. brk[j] # told[j]
      BY <1>3, <1>4, <2>1, <2>2, <2>3, Numbers DEF Page
    <2>5. QED
      BY <1>3, <2>1, <2>2, <2>4 DEF GivenInv, BreakIsTold
  <1>11. AllStay
    <2> SUFFICES ASSUME NEW p \in up \cap up', NEW v \in InUse(p) \cap InUse(p)'
                 PROVE  Stays(p, v)
      BY DEF AllStay
    <2>1. p \in Proc
      BY <1>4 DEF MemInv, MemTypeOK
    <2>2. v \in Page /\ PageItem(v) \in Item
      BY <2>1, InUseIs, Places
    <2>3. CASE p # j
      BY <1>6, <2>1, <2>3 DEF Stays
    <2>4. CASE p = j /\ v # at
      <3>1. PageItem(v) # PageItem(at) /\ PageItem(v) # TableItem(at)
        BY <1>3, <2>2, <2>4, PlacesApart
      <3>2. QED
        BY <1>7, <2>2, <2>4, <3>1 DEF Stays
    <2>5. CASE p = j /\ v = at
      BY <1>10, <2>5 DEF Stays
    <2>6. QED
      BY <2>3, <2>4, <2>5
  <1>12. NoSpace'
    BY <1>1, <1>3, <1>6 DEF GivenInv, NoSpace
  <1>13. leaky' \/ at \in Unused(j)
    <2> SUFFICES ASSUME ~leaky' PROVE at \in Unused(j)
      OBVIOUS
    <2>1. job.op # "execve" /\ j \notin restarted
      BY <1>1
    <2>2. at \notin job.from..(at - 1)
      BY <1>3 DEF Page
    <2>3. \/ at > MmapStart + top /\ at <= BrkStart
          \/ at > BrkStart + brk[j]
      BY <1>3, <2>1, Numbers DEF Page
    <2>4. QED
      BY <1>0a, <1>3, <2>1, <2>2, <2>3 DEF Unused
  <1>14. NothingLost'
    <2> SUFFICES ASSUME ~leaky', NEW f \in Frame, f \notin bitmap'
                 PROVE  \E p \in Proc, i \in Item : space'[p][i] = f
      BY DEF NothingLost
    <2>1. CASE f \in bitmap
      BY <1>3, <1>7, <2>1
    <2>2. CASE f \notin bitmap
      <3>1. PICK p \in Proc, i \in Item : space[p][i] = f
        BY <1>1, <2>2 DEF GivenInv, NothingLost
      <3>2. f # 0
        BY Numbers
      <3>3. p = j => i # PageItem(at)
        BY <1>1, <1>3, <1>13, <3>1, <3>2 DEF GivenInv, Vacant
      <3>4. space'[p][i] = f
        BY <1>6, <1>7, <3>1, <3>2, <3>3
      <3>5. QED
        BY <3>4
    <2>3. QED
      BY <2>1, <2>2
  <1>15. ASSUME \A p \in Proc : \A v \in Unused(p)' : leaky' \/ (v \in Unused(p) /\ (p = j => v # at))
         PROVE  Vacant'
    <2> SUFFICES ASSUME ~leaky', NEW p \in Proc, NEW v \in Unused(p)'
                 PROVE  space'[p][PageItem(v)] = 0
      BY DEF Vacant
    <2>1. v \in Unused(p) /\ (p = j => v # at) /\ v \in Page
      BY <1>15 DEF Unused
    <2>2. space[p][PageItem(v)] = 0
      BY <1>1, <2>1 DEF GivenInv, Vacant
    <2>3. CASE p # j
      BY <1>6, <2>2, <2>3
    <2>4. CASE p = j
      <3>1. PageItem(v) # PageItem(at) /\ PageItem(v) # TableItem(at) /\ PageItem(v) \in Item
        BY <1>3, <2>1, <2>4, Places, PlacesApart
      <3>2. QED
        BY <1>7, <2>2, <2>4, <3>1
    <2>5. QED
      BY <2>3, <2>4
  <1>16. ASSUME \A p \in Proc \ spoilt : \A v \in InUse(p)' : v \in InUse(p) \/ Backed(p, v)'
         PROVE  InUseIsMapped'
    <2> SUFFICES ASSUME NEW p \in up \ spoilt, NEW v \in (1..MmapStart) \cup InUse(p)'
                 PROVE  Backed(p, v)'
      BY <1>1 DEF InUseIsMapped, Backed
    <2>1. p \in Proc
      BY DEF GivenInv, MemInv, MemTypeOK
    <2>2. CASE v \in (1..MmapStart) \cup InUse(p)
      <3>1. Backed(p, v)
        BY <2>2 DEF GivenInv, InUseIsMapped, Backed
      <3>2. v \in Page
        BY <2>1, <2>2, InUseIs, Numbers DEF Page
      <3>3. QED
        BY <1>8, <2>1, <3>1, <3>2
    <2>3. QED
      BY <1>16, <2>1, <2>2
  <1>17. CASE /\ m.ok /\ job.at < job.to
              /\ job' = [job EXCEPT !.at = @ + 1]
              /\ UNCHANGED <<brk, top, owned, told, restarted>>
    <2>1. /\ job'.p = j /\ job'.from = job.from /\ job'.to = job.to /\ job'.op = job.op
          /\ job'.at = at + 1 /\ job' # NoJob
      <3>1. job \in Jobs
        BY <1>1 DEF GivenInv, MemInv, MemTypeOK, Jobs
      <3>2. job' \in Jobs /\ job'.op # "none"
        BY <1>3, <1>17, <3>1, Numbers DEF Jobs, Page
      <3>3. QED
        BY <1>0a, <1>17, <3>1, <3>2 DEF Jobs, NoJob
    <2>2. JobRuns'
      <3>1. ASSUME NEW v \in job.from..at, j \notin spoilt PROVE Backed(j, v)'
        <4>1. CASE v = at
          BY <1>9, <1>17, <3>1, <4>1
        <4>2. CASE v # at
          <5>1. v \in job.from..(at - 1) /\ v \in Page
            BY <1>3, <4>2, Numbers DEF Page
          <5>2. Backed(j, v)
            BY <1>0a, <1>1, <3>1, <5>1 DEF GivenInv, JobRuns
          <5>3. QED
            BY <1>3, <1>8, <5>1, <5>2
        <4>3. QED
          BY <4>1, <4>2
      <3>2. job'.from <= job'.at /\ job'.at <= job'.to /\ job'.at - 1 = at
        BY <1>0a, <1>3, <1>17, <2>1 DEF Page
      <3>3. /\ job'.op = "brk" => job'.from = BrkStart + brk'[j] + 1
            /\ job'.op = "execve" => job'.to = MmapStart
        BY <1>3, <1>17, <2>1
      <3>4. j \in spoilt' \/ \A v \in job'.from..(job'.at - 1) : Backed(j, v)'
        BY <1>1, <2>1, <3>1, <3>2
      <3>5. QED
        BY <1>1, <1>3, <2>1, <3>2, <3>3, <3>4 DEF JobRuns, Backed
    <2>3. BreakIsTold' /\ OwnedBelowTop'
      BY <1>17 DEF GivenInv, BreakIsTold, OwnedBelowTop
    <2>4. InUseIsMapped'
      BY <1>16, <1>17 DEF InUse
    <2>5. Vacant'
      <3>1. ASSUME NEW p \in Proc, NEW v \in Unused(p)'
            PROVE  v \in Unused(p) /\ (p = j => v # at)
        <4>1. /\ v \in Page
              /\ \/ v > MmapStart + top /\ v <= BrkStart
                 \/ v > BrkStart + brk[p] /\ p \notin restarted
              /\ p = j => v \notin job.from..at
          <5>1. p = j => v \notin job'.from..(job'.at - 1)
            BY <2>1, <3>1 DEF Unused
          <5>2. job'.at - 1 = at
            BY <1>3, <2>1 DEF Page
          <5>3. QED
            BY <1>17, <2>1, <3>1, <5>1, <5>2 DEF Unused
        <4>2. p = j => v # at /\ v \notin job.from..(at - 1)
          BY <1>3, <4>1 DEF Page
        <4>3. QED
          BY <1>0a, <4>1, <4>2 DEF Unused
      <3>2. QED
        BY <1>15, <3>1
    <2>6. QED
      BY <1>4, <1>11, <1>12, <1>14, <2>2, <2>3, <2>4, <2>5 DEF GivenInv
  <1>18. CASE ~(m.ok /\ job.at < job.to) /\ Return(m.ok \/ stack)
    <2>1. PICK done \in BOOLEAN : (done <=> m.ok \/ stack) /\ Return(done)
      <3>1. CASE m.ok \/ stack
        BY <1>18, <3>1
      <3>2. CASE ~(m.ok \/ stack)
        BY <1>18, <3>2
      <3>3. QED
        BY <3>1, <3>2
    <2>2. /\ JobRuns' /\ BreakIsTold' /\ OwnedBelowTop'
          /\ \A p \in Proc : \A v \in InUse(p)' :
                \/ v \in InUse(p)
                \/ p = j /\ done /\ job.op # "execve" /\ v \in job.from..job.to
          /\ done /\ job.op # "execve" /\ at = job.to =>
                \A p \in Proc : \A v \in Unused(p)' :
                   v \in Unused(p) /\ (p = j => v # at)
      BY <1>0a, <1>1, <2>1, ReturnGives
    <2>3. done /\ job.op # "execve" => m.ok /\ at = job.to
      BY <1>0a, <1>3, <1>18, <2>1 DEF stack, Page
    <2>4. InUseIsMapped'
      <3>1. ASSUME NEW p \in Proc \ spoilt, NEW v \in InUse(p)', v \notin InUse(p)
            PROVE  Backed(p, v)'
        <4>1. p = j /\ v \in job.from..at /\ m.ok
          BY <2>2, <2>3, <3>1
        <4>2. CASE v = at
          BY <1>9, <4>1, <4>2
        <4>3. CASE v # at
          <5>1. v \in job.from..(at - 1) /\ v \in Page
            BY <1>3, <4>1, <4>3, Numbers DEF Page
          <5>2. Backed(j, v)
            BY <1>0a, <1>1, <3>1, <4>1, <5>1 DEF GivenInv, JobRuns
          <5>3. QED
            BY <1>3, <1>8, <4>1, <5>1, <5>2
        <4>4. QED
          BY <4>2, <4>3
      <3>2. QED
        BY <1>16, <3>1
    <2>5. Vacant'
      <3>1. leaky' \/ (done /\ job.op # "execve" /\ at = job.to)
        BY <1>1, <2>1, <2>3
      <3>2. QED
        BY <1>15, <2>2, <3>1
    <2>6. QED
      BY <1>4, <1>11, <1>12, <1>14, <2>2, <2>4, <2>5 DEF GivenInv
  <1>19. QED
    BY <1>2, <1>17, <1>18

(* A segment cannot be read. *)
LEMMA ReadFailsGives ==
    ASSUME GivenInv, ReadFails
    PROVE  GivenInv' /\ AllStay
  <1>1. /\ job # NoJob /\ Return(FALSE) /\ leaky' = TRUE
        /\ UNCHANGED <<bitmap, space, up, recorded, spoilt>>
    <2>1. job # NoJob
      BY DEF ReadFails, NoJob
    <2>2. QED
      BY <2>1 DEF ReadFails
  <1>2. MemInv'
    BY ReadFailsStep DEF GivenInv
  <1>3. /\ JobRuns' /\ BreakIsTold' /\ OwnedBelowTop'
        /\ \A p \in Proc : InUse(p)' \subseteq InUse(p)
    BY <1>1, ReturnGives
  <1>4. InUseIsMapped'
    <2>1. \A p \in up \ spoilt : p \in Proc
      BY DEF GivenInv, MemInv, MemTypeOK
    <2>2. QED
      BY <1>1, <1>3, <2>1 DEF GivenInv, InUseIsMapped
  <1>5. NoSpace' /\ Vacant'
    BY <1>1 DEF GivenInv, NoSpace, Vacant
  <1>6. AllStay /\ NothingLost'
    BY <1>1, SameMemory
  <1>7. QED
    BY <1>2, <1>3, <1>4, <1>5, <1>6 DEF GivenInv

-----------------------------------------------------------------------------
(* Pages are unmapped: what another process loses are pages of First.      *)
LEMMA UnmapGives ==
    ASSUME GivenInv, NEW p \in Proc, NEW V \in SUBSET Page, UnmapRange(V),
           UNCHANGED <<up, recorded, top, job, restarted>>, job = NoJob, p \in up,
           spoilt' = Stray(p), leaky => leaky',
           BreakIsTold', OwnedBelowTop',
           \A q \in Proc : InUse(q)' \subseteq InUse(q),
           \A v \in V : v > MmapStart /\ v \notin InUse(p)',
           \A q \in Proc : leaky' \/ Unused(q)' \subseteq Unused(q) \cup (IF q = First THEN V ELSE {}),
           MemInv'
    PROVE  GivenInv' /\ AllStay
  <1> DEFINE items == {PageItem(v) : v \in V}
  <1>1. /\ space \in [Proc -> [Item -> 0..MaxFrame]] /\ First \in Proc
        /\ up \subseteq Proc /\ spoilt \subseteq Proc
        /\ bitmap' = bitmap \cup ({space[First][i] : i \in items} \ {0})
        /\ space' = [space EXCEPT ![First] = [i \in Item |-> IF i \in items THEN 0 ELSE @[i]]]
    BY Numbers DEF GivenInv, MemInv, MemTypeOK, UnmapRange
  <1>2. \A q \in Proc, i \in Item :
           space'[q][i] = IF q = First /\ i \in items THEN 0 ELSE space[q][i]
    BY <1>1
  <1>3. \A v \in Page \ V : PageItem(v) \in Item \ items
    BY Places, PlacesApart
  <1>4. \A v \in Page : TableItem(v) \in Item \ items /\ Dir \in Item \ items
    BY Places, PlacesApart
  <1>5. \A v \in V : PageItem(v) \in items
    OBVIOUS
  <1> HIDE DEF items
  <1>6. ASSUME NEW q \in Proc, NEW v \in Page, q # First \/ v \notin V, Backed(q, v)
        PROVE  Backed(q, v)'
    <2>1. PageItem(v) \in Item /\ TableItem(v) \in Item /\ Dir \in Item
      BY Places, PlacesApart
    <2>2. CASE q # First
      BY <1>2, <1>6, <2>1, <2>2 DEF Backed, Mapped
    <2>3. CASE v \notin V
      BY <1>2, <1>3, <1>4, <1>6, <2>3 DEF Backed, Mapped
    <2>4. QED
      BY <1>6, <2>2, <2>3
  <1>7. spoilt \subseteq spoilt' /\ (p = First \/ First \in spoilt')
    BY DEF Stray
  <1>8. InUseIsMapped'
    <2> SUFFICES ASSUME NEW q \in up' \ spoilt', NEW v \in (1..MmapStart) \cup InUse(q)'
                 PROVE  Backed(q, v)'
      BY DEF InUseIsMapped, Backed
    <2>1. q \in Proc /\ q \in up /\ q \notin spoilt
      BY <1>1, <1>7
    <2>2. v \in (1..MmapStart) \cup InUse(q)
      BY <2>1
    <2>3. Backed(q, v)
      BY <2>1, <2>2 DEF GivenInv, InUseIsMapped, Backed
    <2>4. v \in Page
      BY <2>1, <2>2, InUseIs, Numbers DEF Page
    <2>5. q # First \/ v \notin V
      <3>1. CASE p = First
        <4>1. \A w \in V : w \notin 1..MmapStart
          BY Numbers DEF Page
        <4>2. QED
          BY <3>1, <4>1
      <3>2. CASE p # First
        BY <1>7, <3>2
      <3>3. QED
        BY <3>1, <3>2
    <2>6. QED
      BY <1>6, <2>1, <2>3, <2>4, <2>5
  <1>9. AllStay
    <2> SUFFICES ASSUME NEW q \in up \cap up', NEW v \in InUse(q) \cap InUse(q)'
                 PROVE  Stays(q, v)
      BY DEF AllStay
    <2>1. q \in Proc /\ v \in Page
      BY <1>1, InUseIs
    <2>2. PageItem(v) \in Item
      BY <2>1, Places
    <2>3. CASE q = First /\ p # First
      BY <1>7, <2>3 DEF Stays
    <2>4. CASE q # First \/ p = First
      <3>1. q # First \/ v \notin V
        BY <2>4
      <3>2. space'[q][PageItem(v)] = space[q][PageItem(v)]
        BY <1>2, <1>3, <2>1, <2>2, <3>1
      <3>3. QED
        BY <3>2 DEF Stays
    <2>5. QED
      BY <2>3, <2>4
  <1>10. NoSpace'
    BY <1>2 DEF GivenInv, NoSpace
  <1>11. Vacant'
    <2> SUFFICES ASSUME ~leaky', NEW q \in Proc, NEW v \in Unused(q)'
                 PROVE  space'[q][PageItem(v)] = 0
      BY DEF Vacant
    <2>1. v \in Page /\ PageItem(v) \in Item
      BY Places DEF Unused
    <2>2. CASE v \in Unused(q)
      BY <1>2, <2>1, <2>2 DEF GivenInv, Vacant
    <2>3. CASE q = First /\ v \in V
      BY <1>2, <1>5, <2>1, <2>3
    <2>4. QED
      BY <2>2, <2>3
  <1>12. NothingLost'
    <2> SUFFICES ASSUME ~leaky', NEW f \in Frame, f \notin bitmap'
                 PROVE  \E q \in Proc, i \in Item : space'[q][i] = f
      BY DEF NothingLost
    <2>1. f # 0 /\ f \notin bitmap
      BY <1>1, Numbers
    <2>2. PICK q \in Proc, i \in Item : space[q][i] = f
      BY <2>1 DEF GivenInv, NothingLost
    <2>3. ~(q = First /\ i \in items)
      BY <1>1, <2>1, <2>2
    <2>4. space'[q][i] = f
      BY <1>2, <2>2, <2>3
    <2>5. QED
      BY <2>4
  <1>13. JobRuns'
    BY DEF JobRuns
  <1>14. QED
    BY <1>8, <1>9, <1>10, <1>11, <1>12, <1>13 DEF GivenInv

(* munmap and a shrinking brk. *)
LEMMA GiveBackGives ==
    ASSUME GivenInv, NEW p \in Proc, sys_munmap(p) \/ BrkShrink(p)
    PROVE  GivenInv' /\ AllStay
  <1>1. /\ MemInv' /\ BreakIsTold /\ OwnedBelowTop
        /\ owned \in [Proc -> SUBSET Page] /\ brk \in [Proc -> 0..BrkPages]
        /\ told \in [Proc -> 0..BrkPages] /\ top \in 0..MmapPages
    BY GiveBackStep DEF GivenInv, MemInv, MemTypeOK
  <1>2. /\ job = NoJob /\ p \in up /\ spoilt' = Stray(p)
        /\ UNCHANGED <<up, recorded, top, job, restarted>>
        /\ leaky => leaky'
    <2>1. CASE sys_munmap(p)
      BY <2>1 DEF sys_munmap, May
    <2>2. CASE BrkShrink(p)
      BY <2>2 DEF BrkShrink, May
    <2>3. QED
      BY <2>1, <2>2
  <1>3. CASE sys_munmap(p)
    <2>1. PICK a \in owned[p], b \in owned[p] :
             /\ a..b \subseteq owned[p]
             /\ UnmapRange(a..b)
             /\ owned' = [owned EXCEPT ![p] = @ \ (a..b)]
      BY <1>3 DEF sys_munmap
    <2>2. UNCHANGED <<brk, told, leaky>>
      BY <1>3 DEF sys_munmap
    <2>3. a..b \in SUBSET Page
      BY <1>1, <2>1
    <2>4. BreakIsTold' /\ OwnedBelowTop'
      <3>1. BreakIsTold'
        BY <1>1, <1>2, <2>2 DEF BreakIsTold
      <3>2. \A q \in Proc : owned'[q] \subseteq owned[q]
        BY <1>1, <2>1
      <3>3. QED
        BY <1>1, <1>2, <3>1, <3>2 DEF OwnedBelowTop
    <2>5. \A q \in Proc : InUse(q)' \subseteq InUse(q)
      BY <1>1, <2>1, <2>2 DEF InUse
    <2>6. \A v \in a..b : v > MmapStart /\ v \notin InUse(p)'
      <3> SUFFICES ASSUME NEW v \in a..b PROVE v > MmapStart /\ v \notin InUse(p)'
        OBVIOUS
      <3>1. v \in (MmapStart + 1)..(MmapStart + top)
        BY <1>1, <2>1 DEF OwnedBelowTop
      <3>2. v > MmapStart /\ v <= BrkStart
        BY <1>1, <3>1, Numbers
      <3>3. v \notin owned'[p] /\ v \notin BrkPage
        BY <1>1, <2>1, <3>2, Numbers DEF BrkPage
      <3>4. QED
        BY <3>2, <3>3 DEF InUse
    <2>7. \A q \in Proc : Unused(q)' = Unused(q)
      BY <1>2, <2>2 DEF Unused
    <2> DEFINE V == a..b
    <2>8. /\ V \in SUBSET Page /\ UnmapRange(V)
          /\ \A v \in V : v > MmapStart /\ v \notin InUse(p)'
      BY <2>1, <2>3, <2>6
    <2> HIDE DEF V
    <2>9. \A q \in Proc : leaky' \/ Unused(q)' \subseteq Unused(q) \cup (IF q = First THEN V ELSE {})
      BY <2>7
    <2>10. QED
      BY <1>1, <1>2, <2>4, <2>5, <2>8, <2>9, UnmapGives
  <1>4. CASE BrkShrink(p)
    <2>1. PICK w \in 0..(brk[p] - 1) :
             /\ UnmapRange((BrkStart + w + 1)..(BrkStart + brk[p]))
             /\ brk' = [brk EXCEPT ![p] = w]
             /\ told' = [told EXCEPT ![p] = w]
      BY <1>4 DEF BrkShrink
    <2>2. owned' = owned /\ leaky' = (leaky \/ p # First)
      BY <1>4 DEF BrkShrink
    <2>3. /\ w \in Nat /\ brk[p] \in Nat /\ brk[p] <= BrkPages /\ w < brk[p]
          /\ told[p] \in Nat /\ brk[p] <= told[p]
      BY <1>1, Numbers DEF BreakIsTold
    <2> DEFINE V == (BrkStart + w + 1)..(BrkStart + brk[p])
    <2>4. V \in SUBSET Page
      BY <2>3, Numbers DEF Page
    <2>5. /\ brk'[p] = w /\ told'[p] = w
          /\ \A q \in Proc \ {p} : brk'[q] = brk[q] /\ told'[q] = told[q]
      BY <1>1, <2>1
    <2>6. BreakIsTold' /\ OwnedBelowTop'
      <3>1. BreakIsTold'
        BY <1>1, <1>2, <2>3, <2>5 DEF BreakIsTold
      <3>2. QED
        BY <1>1, <1>2, <2>2, <3>1 DEF OwnedBelowTop
    <2>7. ASSUME NEW q \in Proc PROVE InUse(q)' \subseteq InUse(q)
      <3>1. \A v \in BrkPage : v <= BrkStart + told'[q] => v <= BrkStart + told[q]
        BY <2>3, <2>5, Numbers DEF BrkPage
      <3>2. QED
        BY <2>2, <3>1 DEF InUse
    <2>8. \A v \in V : v > MmapStart /\ v \notin InUse(p)'
      <3> SUFFICES ASSUME NEW v \in V PROVE v > MmapStart /\ v \notin InUse(p)'
        OBVIOUS
      <3>1. v > BrkStart + w /\ v > BrkStart /\ v > MmapStart
        BY <2>3, Numbers
      <3>2. v \notin owned[p]
        <4>1. v \notin (MmapStart + 1)..(MmapStart + top)
          BY <1>1, <3>1, Numbers
        <4>2. QED
          BY <1>1, <4>1 DEF OwnedBelowTop
      <3>3. ~(v <= BrkStart + told'[p])
        BY <2>3, <2>5, <3>1, Numbers
      <3>4. QED
        BY <2>2, <3>1, <3>2, <3>3 DEF InUse
    <2>9. ASSUME NEW q \in Proc
          PROVE  leaky' \/ Unused(q)' \subseteq Unused(q) \cup (IF q = First THEN V ELSE {})
      <3>1. CASE q # p
        BY <1>2, <2>5, <3>1 DEF Unused
      <3>2. CASE q = p /\ p # First
        BY <2>2, <3>2
      <3>3. CASE q = p /\ p = First
        <4> SUFFICES ASSUME NEW v \in Unused(q)', v \notin V PROVE v \in Unused(q)
          BY <3>3
        <4>1. /\ v \in Page
              /\ \/ v > MmapStart + top /\ v <= BrkStart
                 \/ v > BrkStart + w /\ q \notin restarted
          BY <1>2, <2>5, <3>3 DEF Unused
        <4>2. \/ v > MmapStart + top /\ v <= BrkStart
              \/ v > BrkStart + brk[p] /\ q \notin restarted
          BY <2>3, <4>1, Numbers DEF Page
        <4>3. QED
          BY <1>2, <3>3, <4>1, <4>2 DEF Unused
      <3>4. QED
        BY <3>1, <3>2, <3>3
    <2> HIDE DEF V
    <2>10. UnmapRange(V)
      BY <2>1 DEF V
    <2>11. QED
      BY <1>1, <1>2, <2>2, <2>4, <2>6, <2>7, <2>8, <2>9, <2>10, UnmapGives
  <1>5. QED
    BY <1>3, <1>4

(* exit, after which frames are out of reach. *)
LEMMA ExitGives ==
    ASSUME GivenInv, NEW p \in Proc, sys_exit(p)
    PROVE  GivenInv' /\ AllStay
  <1>1. /\ MemInv' /\ space \in [Proc -> [Item -> 0..MaxFrame]]
        /\ brk \in [Proc -> 0..BrkPages] /\ told \in [Proc -> 0..BrkPages]
        /\ owned \in [Proc -> SUBSET Page] /\ up \subseteq Proc
        /\ top \in 0..MmapPages
    BY ExitStep DEF GivenInv, MemInv, MemTypeOK
  <1>2. /\ up' = up \ {p} /\ job = NoJob /\ leaky' = TRUE
        /\ space' = IF p = First THEN space ELSE [space EXCEPT ![p] = [i \in Item |-> 0]]
        /\ brk' = [brk EXCEPT ![p] = 0] /\ told' = [told EXCEPT ![p] = 0]
        /\ owned' = [owned EXCEPT ![p] = {}]
        /\ spoilt' = spoilt \ {p} /\ restarted' = restarted \ {p}
        /\ UNCHANGED <<bitmap, recorded, top, job>>
    BY DEF sys_exit, May
  <1>3. \A q \in Proc \ {p} : /\ space'[q] = space[q] /\ brk'[q] = brk[q]
                              /\ told'[q] = told[q] /\ owned'[q] = owned[q]
    BY <1>1, <1>2
  <1>4. \A q \in Proc \ {p} : InUse(q)' = InUse(q)
    BY <1>3 DEF InUse
  <1>5. BreakIsTold'
    BY <1>1, <1>2, <1>3 DEF GivenInv, BreakIsTold
  <1>6. OwnedBelowTop'
    BY <1>1, <1>2, <1>3 DEF GivenInv, OwnedBelowTop
  <1>7. NoSpace'
    <2>1. p = First \/ \A i \in Item : space'[p][i] = 0
      BY <1>1, <1>2
    <2>2. QED
      BY <1>2, <1>3, <2>1 DEF GivenInv, NoSpace
  <1>8. InUseIsMapped'
    <2> SUFFICES ASSUME NEW q \in up' \ spoilt', NEW v \in (1..MmapStart) \cup InUse(q)'
                 PROVE  Backed(q, v)'
      BY DEF InUseIsMapped, Backed
    <2>1. q \in Proc \ {p} /\ q \in up /\ q \notin spoilt
      BY <1>1, <1>2
    <2>2. Backed(q, v)
      BY <1>4, <2>1 DEF GivenInv, InUseIsMapped, Backed
    <2>3. QED
      BY <1>3, <2>1, <2>2 DEF Backed
  <1>9. AllStay
    <2>1. \A q \in up \cap up' : q \in Proc \ {p}
      BY <1>1, <1>2
    <2>2. QED
      BY <1>3, <2>1 DEF AllStay, Stays
  <1>10. JobRuns' /\ Vacant' /\ NothingLost'
    BY <1>2 DEF JobRuns, Vacant, NothingLost
  <1>11. QED
    BY <1>1, <1>5, <1>6, <1>7, <1>8, <1>9, <1>10 DEF GivenInv

-----------------------------------------------------------------------------
(* In a finite set of numbers, every rank up to its size is that of a      *)
(* member.                                                                 *)
LEMMA RankIs ==
    ASSUME NEW S \in SUBSET Nat, IsFiniteSet(S), NEW x \in S
    PROVE  Rank(S, x) \in 1..Cardinality(S)
  <1> DEFINE A == {y \in S : y <= x}
  <1>1. A \in SUBSET S /\ x \in A
    OBVIOUS
  <1>2. IsFiniteSet(A) /\ Cardinality(A) <= Cardinality(S)
    BY <1>1, FS_Subset
  <1>3. Cardinality(A) \in Nat /\ Cardinality(S) \in Nat /\ Cardinality(A) # 0
    BY <1>1, <1>2, FS_CardinalityType, FS_EmptySet
  <1>4. QED
    BY <1>2, <1>3 DEF Rank

(* Every number up to the size of the set is the rank of one of its        *)
(* members.                                                                *)
LEMMA RankOnto ==
    ASSUME NEW S \in SUBSET Nat, IsFiniteSet(S), NEW k \in 1..Cardinality(S)
    PROVE  \E x \in S : Rank(S, x) = k
  <1> SUFFICES ASSUME \A x \in S : Rank(S, x) # k PROVE FALSE
    OBVIOUS
  <1> DEFINE n == Cardinality(S)
             T == (1..n) \ {k}
             f == [x \in S |-> Rank(S, x)]
  <1>1. n \in Nat
    BY FS_CardinalityType
  <1>2. IsFiniteSet(1..n) /\ Cardinality(1..n) = n
    BY <1>1, FS_Interval
  <1>3. IsFiniteSet(T) /\ Cardinality(T) = n - 1
    <2>1. k \in 1..n
      OBVIOUS
    <2>2. QED
      BY <1>2, <2>1, FS_RemoveElement, ZenonT(30)
  <1>4. f \in [S -> T]
    BY RankIs
  <1>5. Cardinality(T) < Cardinality(S)
    BY <1>1, <1>3
  <1> HIDE DEF T, f, n
  <1>6. \E x, y \in S : x # y /\ f[x] = f[y]
    BY <1>3, <1>4, <1>5, FS_PigeonHole
  <1>7. PICK x \in S, y \in S : x # y /\ f[x] = f[y]
    BY <1>6
  <1>8. Rank(S, x) = Rank(S, y)
    BY <1>7 DEF f
  <1>9. x < y \/ y < x
    BY <1>7
  <1>10. QED
    BY <1>8, <1>9, RankApart

(* With frames enough, a clone has all that the space has. *)
LEMMA CloneIsWhole ==
    ASSUME MemInv, NEW p \in Proc, Cardinality(ToClone(p)) <= Cardinality(bitmap),
           NEW i \in Item, Mapped(space[p], i)
    PROVE  Clone(p)[i] # 0
  <1>1. ToClone(p) \in SUBSET Item /\ i \in ToClone(p)
    BY Numbers DEF ToClone, Root, Item
  <1>2. bitmap \in SUBSET Frame /\ IsFiniteSet(Frame) /\ IsFiniteSet(Item)
    BY FS_Interval, Numbers DEF MemInv, MemTypeOK, Frame, Item
  <1>3. IsFiniteSet(bitmap) /\ IsFiniteSet(ToClone(p))
    BY <1>1, <1>2, FS_Subset
  <1>4. Item \in SUBSET Nat /\ Frame \in SUBSET Nat
    BY Numbers DEF Item, Frame
  <1>5. Cardinality(bitmap) \in Nat /\ Cardinality(ToClone(p)) \in Nat
    BY <1>3, FS_CardinalityType
  <1>6. Rank(ToClone(p), i) \in 1..Cardinality(ToClone(p))
    BY <1>1, <1>3, <1>4, RankIs
  <1>7. Rank(ToClone(p), i) \in 1..Cardinality(bitmap)
    BY <1>5, <1>6
  <1>8. \E x \in bitmap : Rank(bitmap, x) = Rank(ToClone(p), i)
    BY <1>2, <1>3, <1>4, <1>7, RankOnto
  <1>9. Given(p, i) # {} /\ Given(p, i) \subseteq bitmap
    BY <1>8 DEF Given
  <1>10. Clone(p)[i] \in bitmap
    BY <1>1, <1>9 DEF Clone
  <1>11. QED
    BY <1>2, <1>10, Numbers

(* fork, with its failure after the clone. *)
LEMMA ForkGives ==
    ASSUME GivenInv, NEW p \in Proc, sys_fork(p)
    PROVE  GivenInv' /\ AllStay
  <1>1. /\ MemInv' /\ MemInv /\ space \in [Proc -> [Item -> 0..MaxFrame]]
        /\ brk \in [Proc -> 0..BrkPages] /\ told \in [Proc -> 0..BrkPages]
        /\ owned \in [Proc -> SUBSET Page] /\ up \subseteq Proc
        /\ top \in 0..MmapPages /\ spoilt \subseteq Proc
    BY ForkStep DEF GivenInv, MemInv, MemTypeOK
  <1>2. p \in up /\ job = NoJob /\ First \in Proc
    BY Numbers DEF sys_fork, May
  <1>3. CASE ForkFails(p)
    <2>1. /\ UNCHANGED <<space, up, brk, recorded, top, job>>
          /\ UNCHANGED <<owned, told, spoilt, restarted>>
          /\ leaky' = TRUE
      BY <1>3 DEF ForkFails
    <2>2. BreakIsTold' /\ OwnedBelowTop' /\ NoSpace' /\ InUseIsMapped'
      BY <2>1 DEF GivenInv, BreakIsTold, OwnedBelowTop, NoSpace, InUseIsMapped, InUse
    <2>3. JobRuns' /\ Vacant' /\ NothingLost' /\ AllStay
      BY <1>2, <2>1 DEF JobRuns, Vacant, NothingLost, AllStay, Stays
    <2>4. QED
      BY <1>1, <2>2, <2>3 DEF GivenInv
  <1>4. ASSUME NEW c \in Proc, ForkDone(p, c) PROVE GivenInv' /\ AllStay
    <2>1. /\ c \notin up /\ c # First /\ c # p
          /\ space' = [space EXCEPT ![c] = Clone(p)]
          /\ bitmap' = bitmap \ Taken(Clone(p))
          /\ up' = up \cup {c}
          /\ owned' = [owned EXCEPT ![c] = owned[p]]
          /\ told' = [told EXCEPT ![c] = told[p]]
          /\ spoilt' = IF p \in spoilt \/ Cardinality(ToClone(p)) > Cardinality(bitmap)
                       THEN spoilt \cup {c} ELSE spoilt \ {c}
          /\ UNCHANGED <<top, job, leaky>>
      BY <1>2, <1>4 DEF ForkDone
    <2>2. PICK fresh \in BOOLEAN :
             /\ brk' = [brk EXCEPT ![c] = brk[p], ![First] = IF fresh THEN 0 ELSE @]
             /\ restarted' = ((IF p \in restarted THEN restarted \cup {c} ELSE restarted \ {c})
                              \cup (IF fresh /\ brk[First] > 0 THEN {First} ELSE {}))
      <3>1. \A given \in BOOLEAN : (given /\ p = First /\ ~recorded) \in BOOLEAN
        OBVIOUS
      <3>2. QED
        BY <1>4, <3>1, Zenon DEF ForkDone
    <2>3. /\ \A q \in Proc \ {c, First} : brk'[q] = brk[q]
          /\ brk'[c] = brk[p]
          /\ brk'[First] = IF fresh THEN 0 ELSE brk[First]
      <3>1. CASE fresh
        <4>1. brk' = [brk EXCEPT ![c] = brk[p], ![First] = 0]
          BY <2>2, <3>1
        <4>2. QED
          BY <1>1, <1>2, <2>1, <3>1, <4>1
      <3>2. CASE ~fresh
        <4>1. brk' = [brk EXCEPT ![c] = brk[p], ![First] = @]
          BY <2>2, <3>2
        <4>2. QED
          BY <1>1, <1>2, <2>1, <3>2, <4>1
      <3>3. QED
        BY <3>1, <3>2
    <2>4. /\ \A q \in Proc \ {c, First} : q \in restarted' <=> q \in restarted
          /\ c \in restarted' <=> p \in restarted
          /\ First \in restarted' <=> First \in restarted \/ (fresh /\ brk[First] > 0)
      BY <1>2, <2>1, <2>2
    <2>5. /\ \A q \in Proc \ {c} : /\ space'[q] = space[q] /\ told'[q] = told[q]
                                   /\ owned'[q] = owned[q]
          /\ space'[c] = Clone(p) /\ told'[c] = told[p] /\ owned'[c] = owned[p]
      BY <1>1, <2>1
    <2>6. /\ \A q \in Proc \ {c} : InUse(q)' = InUse(q)
          /\ InUse(c)' = InUse(p)
      BY <2>5 DEF InUse
    <2>7. \A q \in Proc : brk[q] \in Nat /\ told[q] \in Nat /\ brk[q] <= told[q]
                          /\ (q \in restarted \/ brk[q] = told[q])
      BY <1>1, Numbers DEF GivenInv, BreakIsTold
    <2>8. BreakIsTold'
      <3> SUFFICES ASSUME NEW q \in Proc
                   PROVE  brk'[q] <= told'[q] /\ (q \in restarted' \/ brk'[q] = told'[q])
        BY DEF BreakIsTold
      <3>1. CASE q = c
        BY <2>3, <2>4, <2>5, <2>7, <3>1
      <3>2. CASE q = First
        BY <1>2, <2>1, <2>3, <2>4, <2>5, <2>7, <3>2
      <3>3. CASE q # c /\ q # First
        BY <2>3, <2>4, <2>5, <2>7, <3>3
      <3>4. QED
        BY <3>1, <3>2, <3>3
    <2>9. OwnedBelowTop'
      BY <2>1, <2>5 DEF GivenInv, OwnedBelowTop
    <2>10. NoSpace'
      BY <2>1, <2>5 DEF GivenInv, NoSpace
    <2>11. InUseIsMapped'
      <3> SUFFICES ASSUME NEW q \in up' \ spoilt', NEW v \in (1..MmapStart) \cup InUse(q)'
                   PROVE  Backed(q, v)'
        BY DEF InUseIsMapped, Backed
      <3>1. CASE q # c
        <4>1. q \in up \ spoilt /\ q \in Proc
          BY <1>1, <2>1, <3>1
        <4>2. Backed(q, v)
          BY <2>6, <3>1, <4>1 DEF GivenInv, InUseIsMapped, Backed
        <4>3. QED
          BY <2>5, <3>1, <4>1, <4>2 DEF Backed
      <3>2. CASE q = c
        <4>1. p \notin spoilt /\ ~(Cardinality(ToClone(p)) > Cardinality(bitmap))
          BY <2>1, <3>2
        <4>2. v \in (1..MmapStart) \cup InUse(p)
          BY <2>6, <3>2
        <4>3. Backed(p, v)
          BY <1>2, <4>1, <4>2 DEF GivenInv, InUseIsMapped, Backed
        <4>4. v \in Page
          BY <4>2, InUseIs, Numbers DEF Page
        <4>5. Cardinality(ToClone(p)) <= Cardinality(bitmap)
          <5>1. ToClone(p) \in SUBSET Item
            BY Numbers DEF ToClone, Root, Item
          <5>2. bitmap \in SUBSET Frame
            BY <1>1 DEF MemInv, MemTypeOK
          <5>2a. IsFiniteSet(Item) /\ IsFiniteSet(Frame)
            <6>1. IsFiniteSet(Item)
              BY FS_Interval, Numbers DEF Item
            <6>2. IsFiniteSet(Frame)
              BY FS_Interval, Numbers DEF Frame
            <6>3. QED
              BY <6>1, <6>2
          <5>2b. IsFiniteSet(ToClone(p)) /\ IsFiniteSet(bitmap)
            BY <5>1, <5>2, <5>2a, FS_Subset
          <5>3. Cardinality(ToClone(p)) \in Nat /\ Cardinality(bitmap) \in Nat
            BY <5>2b, FS_CardinalityType
          <5>4. QED
            BY <4>1, <5>3
        <4>6. \A i \in Item : Mapped(space[p], i) => Mapped(space'[c], i)
          BY <1>1, <2>5, <4>5, CloneIsWhole DEF Mapped
        <4>7. QED
          BY <3>2, <4>3, <4>4, <4>6, Places, PlacesApart DEF Backed
      <3>3. QED
        BY <3>1, <3>2
    <2>12. AllStay
      <3>1. \A q \in up \cap up' : q \in Proc \ {c}
        BY <1>1, <2>1
      <3>2. QED
        BY <2>5, <3>1 DEF AllStay, Stays
    <2>13. Vacant'
      <3> SUFFICES ASSUME ~leaky, NEW q \in Proc, NEW v \in Unused(q)'
                   PROVE  space'[q][PageItem(v)] = 0
        BY <2>1 DEF Vacant
      <3>1. /\ v \in Page
            /\ \/ v > MmapStart + top /\ v <= BrkStart
               \/ v > BrkStart + brk'[q] /\ q \notin restarted'
        BY <1>2, <2>1 DEF Unused
      <3>2. CASE q = c
        <4>1. v \in Unused(p)
          BY <1>2, <2>3, <2>4, <3>1, <3>2 DEF Unused
        <4>2. space[p][PageItem(v)] = 0 /\ PageItem(v) \in Item /\ PageItem(v) # Root
          BY <3>1, <4>1, Places, Numbers DEF GivenInv, Vacant, PageItem, Region, Page, Root
        <4>3. PageItem(v) \notin ToClone(p)
          BY <4>2 DEF ToClone, Mapped
        <4>4. Clone(p)[PageItem(v)] = 0
          BY <4>2, <4>3 DEF Clone
        <4>5. QED
          BY <2>5, <3>2, <4>4
      <3>3. CASE q # c
        <4>1. v \in Unused(q)
          <5>1. CASE q = First
            <6>1. q \notin restarted' => brk'[q] = brk[q] /\ q \notin restarted
              BY <2>3, <2>4, <2>7, <5>1
            <6>2. QED
              BY <1>2, <3>1, <6>1 DEF Unused
          <5>2. CASE q # First
            BY <1>2, <2>3, <2>4, <3>1, <3>3, <5>2 DEF Unused
          <5>3. QED
            BY <5>1, <5>2
        <4>2. space[q][PageItem(v)] = 0
          BY <4>1 DEF GivenInv, Vacant
        <4>3. QED
          BY <2>5, <3>3, <4>2
      <3>4. QED
        BY <3>2, <3>3
    <2>14. NothingLost'
      <3> SUFFICES ASSUME ~leaky, NEW f \in Frame, f \notin bitmap'
                   PROVE  \E q \in Proc, i \in Item : space'[q][i] = f
        BY <2>1 DEF NothingLost
      <3>1. CASE f \in bitmap
        <4>1. \E i \in Item : Clone(p)[i] = f
          BY <2>1, <3>1 DEF Taken
        <4>2. QED
          BY <2>5, <4>1
      <3>2. CASE f \notin bitmap
        <4>1. PICK q \in Proc, i \in Item : space[q][i] = f
          BY <3>2 DEF GivenInv, NothingLost
        <4>2. q # c
          BY <2>1, <4>1, Numbers DEF GivenInv, NoSpace
        <4>3. QED
          BY <2>5, <4>1, <4>2
      <3>3. QED
        BY <3>1, <3>2
    <2>15. JobRuns'
      BY <1>2, <2>1 DEF JobRuns
    <2>16. QED
      BY <1>1, <2>8, <2>9, <2>10, <2>11, <2>12, <2>13, <2>14, <2>15 DEF GivenInv
  <1>5. QED
    BY <1>3, <1>4 DEF sys_fork

-----------------------------------------------------------------------------
(* One step of the memory, from a state of the invariant. *)
LEMMA GivenStep == GivenInv /\ [MemNext]_memVars => GivenInv' /\ AllStay
  <1> SUFFICES ASSUME GivenInv, [MemNext]_memVars PROVE GivenInv' /\ AllStay
    OBVIOUS
  <1>1. CASE UNCHANGED memVars
    <2>1. UNCHANGED <<bitmap, space, up, brk, recorded, top, job>>
          /\ UNCHANGED <<owned, told, spoilt, restarted, leaky>>
      BY <1>1 DEF memVars, histVars
    <2>2. MemInv'
      BY <2>1 DEF GivenInv, MemInv, MemTypeOK, JobFits, OnePlace, Mapped
    <2>3. JobRuns' /\ BreakIsTold' /\ OwnedBelowTop' /\ NoSpace'
      BY <2>1 DEF GivenInv, JobRuns, BreakIsTold, OwnedBelowTop, NoSpace, Backed, Mapped
    <2>4. InUseIsMapped' /\ Vacant'
      BY <2>1 DEF GivenInv, InUseIsMapped, Vacant, InUse, Unused, Mapped
    <2>5. AllStay /\ NothingLost'
      BY <2>1, SameMemory
    <2>6. QED
      BY <2>2, <2>3, <2>4, <2>5 DEF GivenInv
  <1>2. CASE MapPage
    BY <1>2, MapPageGives
  <1>3. CASE ReadFails
    BY <1>3, ReadFailsGives
  <1>4. ASSUME NEW p \in Proc, sys_mmap(p) \/ BrkGrow(p) \/ sys_execve(p)
        PROVE  GivenInv' /\ AllStay
    BY <1>4, BeginGives
  <1>5. ASSUME NEW p \in Proc, sys_munmap(p) \/ BrkShrink(p) PROVE GivenInv' /\ AllStay
    BY <1>5, GiveBackGives
  <1>6. ASSUME NEW p \in Proc, sys_fork(p) PROVE GivenInv' /\ AllStay
    BY <1>6, ForkGives
  <1>7. ASSUME NEW p \in Proc, sys_exit(p) PROVE GivenInv' /\ AllStay
    BY <1>7, ExitGives
  <1>8. QED
    BY <1>1, <1>2, <1>3, <1>4, <1>5, <1>6, <1>7 DEF MemNext

(* What programs were given, and where the frames are, in every state that *)
(* the memory calls reach.                                                 *)
THEOREM GivenInvariant == MemSpec => []GivenInv
  BY GivenInit, GivenStep, PTL DEF MemSpec

(* A program's image, stack, mmap pages and the pages below its break are  *)
(* mapped, whatever the others call and whichever calls fail, until a      *)
(* clone has run short of frames or another process has unmapped pages of  *)
(* First (sys_mmap, sys_brk, sys_execve, vmm_clone_address_space).         *)
THEOREM GivenPagesAreMapped == MemSpec => []InUseIsMapped
  <1>1. GivenInv => InUseIsMapped
    BY DEF GivenInv
  <1>2. QED
    BY <1>1, GivenInvariant, PTL

(* As long as calls succeed and no program has been replaced, every frame  *)
(* is free or in some space: mmap, munmap, brk and fork lose none.         *)
THEOREM FramesComeBack == MemSpec => []NothingLost
  <1>1. GivenInv => NothingLost
    BY DEF GivenInv
  <1>2. QED
    BY <1>1, GivenInvariant, PTL

(* No step of any process puts another frame under a page that a program   *)
(* goes on using, but for the two exceptions that PagesStay names.         *)
THEOREM ContentsStay == MemSpec => PagesStay
  <1>1. GivenInv /\ [MemNext]_memVars => [AllStay]_memVars
    BY GivenStep
  <1>2. AllStay <=> \A p \in up \cap up' : \A v \in InUse(p) \cap InUse(p)' :
                       \/ space'[p][PageItem(v)] = space[p][PageItem(v)]
                       \/ p = First /\ First \in spoilt'
                       \/ v \in BrkPage /\ p \in restarted
    BY DEF AllStay, Stays
  <1>3. QED
    BY <1>1, <1>2, GivenInvariant, PTL DEF MemSpec, PagesStay
=============================================================================
