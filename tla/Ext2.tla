-------------------------------- MODULE Ext2 --------------------------------
(***************************************************************************)
(* The ext2 volume of kernel/ext2.c: opening files with O_CREAT, writing   *)
(* them, closing them, over a disk (kernel/virtio_blk.c) that may fail to  *)
(* read or write a block and whose power may be cut between any two        *)
(* blocks.  A call runs to its end without interruption, one block per     *)
(* step; most failed writes are not looked at.                             *)
(*                                                                         *)
(* There is one group and one directory, the root; its blocks hold one     *)
(* entry each.  Of the twelve direct pointers of an inode DirectPtrs are   *)
(* in the model, of its indirect block the first pointer.  A write is to   *)
(* one block or some of its parts; a size counts blocks, the last one full *)
(* or not.  Nothing in the code removes a file or frees a block.           *)
(***************************************************************************)
EXTENDS Integers, FiniteSets, FiniteSetsExt

CONSTANTS Names,       \* names of files
          LastBlock,   \* data blocks of the volume
          LastInode,   \* inodes of the volume that are no directory's
          DirectPtrs,  \* direct pointers of an inode (12)
          Part,        \* parts of a block that may be written by themselves
          Vnode,       \* bound: the vnodes there may be at a time
          MaxFaults,   \* bound: requests that fail
          MaxCuts      \* bound: power cuts

ASSUME Ext2Assumption == /\ LastBlock \in Nat \ {0} /\ LastInode \in Nat
                         /\ DirectPtrs \in Nat \ {0}
                         /\ "" \notin Names
                         /\ MaxFaults \in Nat /\ MaxCuts \in Nat

Block   == 1..LastBlock       \* 0 is no block: a hole
Inode   == 0..LastInode       \* 0 is the root directory's
Logical == {0, DirectPtrs}    \* a block in front of the indirect one, and
                              \* the one behind it

VARIABLES disk,    \* bitmaps (bbm, ibm), the counts of the group descriptor
                   \* (fb, fi), the inode table (itab), the blocks (blk)
          mem,     \* what the driver keeps: the counts (fb, fi), the inode of
                   \* the root (root), the vnodes, each with an inode copy
          job,     \* the call under way: where it is, and its variables
          cuts,    \* power cuts so far
          failed,  \* history: what could not be read or written
          faults,  \* how often that happened
          acked,   \* history: writes that returned success
          twice    \* history: inodes that had two vnodes at a time

histVars == <<failed, faults, acked, twice>>
ext2Vars == <<disk, mem, job, cuts, histVars>>

NoBlock    == [name |-> "", ino |-> 0, ptr |-> 0, of |-> {}, kind |-> "raw"]
DirBlock(n, i) == [NoBlock EXCEPT !.kind = "dir", !.name = n, !.ino = i]
PtrBlock(b)    == [NoBlock EXCEPT !.kind = "ptr", !.ptr = b]
DataBlock(S)   == [NoBlock EXCEPT !.kind = "data", !.of = S]
NewInode   == [live |-> TRUE, size |-> 0, direct |-> [lb \in 0..(DirectPtrs - 1) |-> 0],
               ind |-> 0]
NoVnode    == [ino |-> 0, name |-> "", inode |-> NewInode]
NoJob      == [pc |-> "idle", name |-> "", what |-> "", to |-> "", v |-> "", ino |-> 0,
               lb |-> 0, b |-> 0, part |-> {}, kept |-> {}]

(* A new volume, whose root has one block with room for an entry. *)
NewDisk ==
    [bbm |-> {1}, ibm |-> {0}, fb |-> LastBlock - 1, fi |-> LastInode,
     itab |-> [i \in Inode |-> IF i = 0 THEN [NewInode EXCEPT !.size = 1, !.direct[0] = 1]
                               ELSE [NewInode EXCEPT !.live = FALSE]],
     blk |-> [b \in Block |-> IF b = 1 THEN DirBlock("", 0) ELSE NoBlock]]

(* What ext2_mount reads. *)
Mounted(d) == [fb |-> d.fb, fi |-> d.fi, root |-> d.itab[0],
               vnodes |-> [v \in Vnode |-> NoVnode]]

Ext2Init == /\ disk = NewDisk
            /\ mem = Mounted(NewDisk)
            /\ job = NoJob
            /\ cuts = 0
            /\ failed = {}
            /\ faults = 0
            /\ acked = {}
            /\ twice = {}

-----------------------------------------------------------------------------
(* One block read or written.  When it fails, a write may have happened or *)
(* not.  The history tells apart what the properties do.                   *)
Io(what, ok, after) ==
    \/ /\ ok
       /\ disk' = after
       /\ UNCHANGED <<failed, faults>>
    \/ /\ ~ok
       /\ faults < MaxFaults
       /\ disk' \in {disk, after}
       /\ failed' = failed \cup {what}
       /\ faults' = faults + 1

Goto(pc)  == job' = [job EXCEPT !.pc = pc]
Finish    == job' = NoJob
At(pc)    == job.pc = pc /\ UNCHANGED cuts

-----------------------------------------------------------------------------
(* alloc_block and alloc_inode: the bitmap is read, a bit set, the bitmap  *)
(* written, and only then the counts that say how many are left.           *)
Allocate(what, to) == [job EXCEPT !.pc = "alloc", !.what = what, !.to = to]

Clear == IF job.what = "block" THEN Block \ disk.bbm ELSE Inode \ disk.ibm
Left  == IF job.what = "block" THEN mem.fb ELSE mem.fi

ReadBitmap ==
    /\ At("alloc")
    /\ IF Left = 0
       THEN Finish /\ UNCHANGED <<disk, failed, faults>>
       ELSE \E ok \in BOOLEAN :
               /\ Io("other", ok, disk)
               /\ job' = IF ok /\ Clear # {}
                         THEN [job EXCEPT !.pc = "mark", !.b = Min(Clear)]
                         ELSE NoJob
    /\ UNCHANGED <<mem, acked, twice>>

(* Faulty variant: the bit is set in memory only. *)
MarkedNot == disk

Marked == IF job.what = "block" THEN [disk EXCEPT !.bbm = @ \cup {job.b}]
          ELSE [disk EXCEPT !.ibm = @ \cup {job.b}]

(* Faulty variant: of both kinds there is one less. *)
CountedBoth == [mem EXCEPT !.fb = @ - 1, !.fi = @ - 1]

Counted == IF job.what = "block" THEN [mem EXCEPT !.fb = @ - 1]
           ELSE [mem EXCEPT !.fi = @ - 1]

WriteBitmap == /\ At("mark")
               /\ \E ok \in BOOLEAN : Io("bitmap write", ok, Marked)
               /\ mem' = Counted
               /\ Goto("super")
               /\ UNCHANGED <<acked, twice>>

(* sync_metadata goes on to the descriptor unless the superblock cannot be *)
(* read; nobody looks at what it returns.                                  *)
SyncSuper == /\ At("super")
             /\ \E ok \in BOOLEAN : /\ Io("other", ok, disk)
                                    /\ Goto("group") \/ (~ok /\ Goto(job.to))
             /\ UNCHANGED <<mem, acked, twice>>

SyncGroup == /\ At("group")
             /\ \E ok \in BOOLEAN :
                   Io("other", ok, [disk EXCEPT !.fb = mem.fb, !.fi = mem.fi])
             /\ Goto(job.to)
             /\ UNCHANGED <<mem, acked, twice>>

-----------------------------------------------------------------------------
(* vfs_open with O_CREAT.  The lookup reads the whole directory; if a      *)
(* block cannot be read, or the inode of the entry, the file is not there. *)
Unused == {v \in Vnode : mem.vnodes[v].ino = 0}

vfs_open(n) == /\ At("idle")
               /\ Unused # {}
               /\ job' = [NoJob EXCEPT !.pc = "lookup", !.name = n]
               /\ UNCHANGED <<disk, mem, histVars>>

EntryAt(lb) == disk.blk[mem.root.direct[lb]]

(* Faulty variant: the last block is not searched. *)
FoundButLast(n) == {lb \in 0..(mem.root.size - 2) : EntryAt(lb).name = n}

Found(n) == {lb \in 0..(mem.root.size - 1) : EntryAt(lb).name = n}

Create == Allocate("inode", "fill")

ext2_vfs_lookup ==
    /\ At("lookup")
    /\ \E ok \in BOOLEAN :
          /\ Io("directory read", ok, disk)
          /\ job' = IF ~ok THEN Create
                    ELSE IF job.lb + 1 < mem.root.size THEN [job EXCEPT !.lb = @ + 1]
                    ELSE IF Found(job.name) = {} THEN Create
                    ELSE [job EXCEPT !.pc = "vnode",
                                     !.ino = EntryAt(Min(Found(job.name))).ino]
    /\ UNCHANGED <<mem, acked, twice>>

(* Faulty variant: the new inode is not written. *)
FilledNot == disk

Filled == [disk EXCEPT !.itab[job.b] = NewInode]

ext2_vfs_create ==
    /\ At("fill")
    /\ \E ok \in BOOLEAN : Io("inode write", ok, Filled)
    /\ job' = [job EXCEPT !.pc = "scan", !.ino = job.b, !.lb = 0]
    /\ UNCHANGED <<mem, acked, twice>>

(* ext2_add_dirent: the first block with room, passing over those that     *)
(* cannot be read, or else a new block (bound: a direct one).              *)
GrowRoot == LET lb == mem.root.size IN
            IF lb = DirectPtrs THEN NoJob
            ELSE IF mem.root.direct[lb] # 0
            THEN [job EXCEPT !.pc = "grown", !.b = mem.root.direct[lb]]
            ELSE Allocate("block", "grown")

FindRoom ==
    /\ At("scan")
    /\ \E ok \in BOOLEAN :
          /\ Io("directory read", ok, disk)
          /\ job' = IF ok /\ EntryAt(job.lb).ino = 0 THEN [job EXCEPT !.pc = "enter"]
                    ELSE IF job.lb + 1 < mem.root.size THEN [job EXCEPT !.lb = @ + 1]
                    ELSE GrowRoot
    /\ UNCHANGED <<mem, acked, twice>>

AddEntry ==
    /\ At("enter")
    /\ \E ok \in BOOLEAN :
          Io("directory write", ok,
             [disk EXCEPT !.blk[mem.root.direct[job.lb]] = DirBlock(job.name, job.ino)])
    /\ Goto("vnode")
    /\ UNCHANGED <<mem, acked, twice>>

AddBlock ==
    LET lb == mem.root.size
        grown == [mem EXCEPT !.root.direct[lb] = job.b]
    IN /\ At("grown")
       /\ \E ok \in BOOLEAN :
             /\ Io("directory write", ok,
                   [disk EXCEPT !.blk[job.b] = DirBlock(job.name, job.ino)])
             /\ mem' = IF ok THEN [grown EXCEPT !.root.size = lb + 1] ELSE grown
             /\ IF ok THEN Goto("root") ELSE Finish
       /\ UNCHANGED <<acked, twice>>

WriteRoot == /\ At("root")
             /\ \E ok \in BOOLEAN :
                   Io("inode write", ok, [disk EXCEPT !.itab[0] = mem.root])
             /\ Goto("vnode")
             /\ UNCHANGED <<mem, acked, twice>>

(* The vnode gets a copy of the inode of its own.  When a lookup fails     *)
(* here, vfs_open creates the file anew.                                   *)
ext2_make_vnode ==
    /\ At("vnode")
    /\ \E ok \in BOOLEAN :
          /\ Io("inode read", ok, disk)
          /\ \E v \in Unused :
                mem' = IF ok
                       THEN [mem EXCEPT !.vnodes[v] = [ino |-> job.ino, name |-> job.name,
                                                       inode |-> disk.itab[job.ino]]]
                       ELSE mem
          /\ job' = IF ~ok /\ job.what = "" THEN Create ELSE NoJob
          /\ twice' = IF ok /\ \E v \in Vnode : mem.vnodes[v].ino = job.ino
                      THEN twice \cup {job.ino} ELSE twice
    /\ UNCHANGED acked

(* vfs_close frees the vnode; the inode is not written. *)
vfs_close(v) == /\ At("idle")
                /\ mem.vnodes[v].ino # 0
                /\ mem' = [mem EXCEPT !.vnodes[v] = NoVnode]
                /\ UNCHANGED <<disk, job, histVars>>

-----------------------------------------------------------------------------
(* A write of parts of logical block lb.  set_file_block looks for the     *)
(* block in the inode copy of the vnode and allocates what is missing.     *)
SetFileBlock(j, inode) ==
    IF j.lb < DirectPtrs
    THEN IF inode.direct[j.lb] # 0
         THEN [j EXCEPT !.pc = "data", !.b = inode.direct[j.lb]]
         ELSE [j EXCEPT !.pc = "alloc", !.what = "block", !.to = "data"]
    ELSE IF inode.ind # 0
         THEN [j EXCEPT !.pc = "pointers"]
         ELSE [j EXCEPT !.pc = "alloc", !.what = "block", !.to = "zero"]

vfs_write(v, lb, part) ==
    /\ At("idle")
    /\ mem.vnodes[v].ino # 0
    /\ job' = SetFileBlock([NoJob EXCEPT !.v = v, !.lb = lb, !.ino = mem.vnodes[v].ino,
                                         !.name = mem.vnodes[v].name, !.part = part],
                           mem.vnodes[v].inode)
    /\ UNCHANGED <<disk, mem, histVars>>

ZeroPointers ==
    /\ At("zero")
    /\ mem' = [mem EXCEPT !.vnodes[job.v].inode.ind = job.b]
    /\ \E ok \in BOOLEAN :
          Io("pointer write", ok, [disk EXCEPT !.blk[job.b] = PtrBlock(0)])
    /\ Goto("pointers")
    /\ UNCHANGED <<acked, twice>>

(* A block that was never written as pointers may hold any. *)
Pointers(b) == IF disk.blk[b].kind = "ptr" THEN {disk.blk[b].ptr} ELSE Block \cup {0}

ReadPointers ==
    /\ At("pointers")
    /\ \E ok \in BOOLEAN, b \in Pointers(mem.vnodes[job.v].inode.ind) :
          /\ Io("other", ok, disk)
          /\ job' = IF ~ok THEN NoJob
                    ELSE IF b # 0 THEN [job EXCEPT !.pc = "data", !.b = b]
                    ELSE Allocate("block", "pointer")
    /\ UNCHANGED <<mem, acked, twice>>

WritePointer ==
    /\ At("pointer")
    /\ \E ok \in BOOLEAN :
          Io("pointer write", ok,
             [disk EXCEPT !.blk[mem.vnodes[job.v].inode.ind] = PtrBlock(job.b)])
    /\ Goto("data")
    /\ UNCHANGED <<mem, acked, twice>>

(* A block is read before a part of it is written, so that the others keep *)
(* what they hold.  When it cannot be read they are written as zeros.      *)
Whole == job.part = Part

(* Faulty variant: what was read is not kept. *)
KeptNot == {}

Kept == {x \in disk.blk[job.b].of : x[3] \notin job.part}

ReadData ==
    /\ At("data")
    /\ ~Whole
    /\ \E ok \in BOOLEAN :
          /\ Io("data read", ok, disk)
          /\ job' = [job EXCEPT !.pc = "merged", !.kept = IF ok THEN Kept ELSE {}]
    /\ UNCHANGED <<mem, acked, twice>>

WithBlock(inode) == IF job.lb < DirectPtrs THEN [inode EXCEPT !.direct[job.lb] = job.b]
                    ELSE inode

Merged == DataBlock(job.kept \cup {<<job.ino, job.lb, p>> : p \in job.part})

WriteData ==
    /\ (At("data") /\ Whole) \/ At("merged")
    /\ \E ok \in BOOLEAN :
          LET inode == WithBlock(mem.vnodes[job.v].inode) IN
          /\ Io("other", ok, [disk EXCEPT !.blk[job.b] = Merged])
          /\ mem' = [mem EXCEPT !.vnodes[job.v].inode =
                        IF ok THEN [inode EXCEPT !.size = Max({@, job.lb + 1})] ELSE inode]
          /\ IF ok THEN Goto("inode") ELSE Finish
    /\ UNCHANGED <<acked, twice>>

(* ext2_vfs_write writes the inode and returns success, whatever came of   *)
(* that.                                                                   *)
WriteInode ==
    /\ At("inode")
    /\ \E ok \in BOOLEAN :
          Io("inode write", ok, [disk EXCEPT !.itab[job.ino] = mem.vnodes[job.v].inode])
    /\ acked' = acked \cup {<<job.name, job.ino, job.lb, p>> : p \in job.part}
    /\ Finish
    /\ UNCHANGED <<mem, twice>>

-----------------------------------------------------------------------------
(* The power is cut, and the volume mounted again. *)
PowerCut == /\ cuts < MaxCuts
            /\ cuts' = cuts + 1
            /\ mem' = Mounted(disk)
            /\ job' = NoJob
            /\ UNCHANGED <<disk, histVars>>

Ext2Next ==
    \/ \E n \in Names : vfs_open(n)
    \/ \E v \in Vnode : vfs_close(v)
    \/ \E v \in Vnode, lb \in Logical, part \in (SUBSET Part) \ {{}} : vfs_write(v, lb, part)
    \/ ReadBitmap \/ WriteBitmap \/ SyncSuper \/ SyncGroup
    \/ ext2_vfs_lookup \/ ext2_vfs_create \/ FindRoom \/ AddEntry \/ AddBlock
    \/ WriteRoot \/ ext2_make_vnode
    \/ ZeroPointers \/ ReadPointers \/ WritePointer
    \/ ReadData \/ WriteData \/ WriteInode
    \/ PowerCut

Ext2Spec == Ext2Init /\ [][Ext2Next]_ext2Vars

-----------------------------------------------------------------------------
(* The block that pointer k of an inode leads to: its direct ones, its     *)
(* indirect block, and the one behind that.                                *)
Pointer(inode, k) ==
    IF k < DirectPtrs THEN inode.direct[k]
    ELSE IF k = DirectPtrs THEN inode.ind
    ELSE IF inode.ind = 0 THEN 0 ELSE disk.blk[inode.ind].ptr

PointerNo == 0..(DirectPtrs + 1)

(* The inodes of the volume, on the disk and in memory, with their numbers. *)
Copies == {<<i, disk.itab[i]>> : i \in Inode} \cup {<<0, mem.root>>}
          \cup {<<mem.vnodes[v].ino, mem.vnodes[v].inode>> : v \in Vnode \ Unused}

(* A block belongs to one place of one file: no block is reached by two    *)
(* pointers, on the disk or from an open file, and each that is reached is *)
(* marked as used - wherever the power is cut, and whatever fails, except  *)
(* writes of bitmaps and of pointers.                                      *)
OneOwner ==
    failed \cap {"bitmap write", "pointer write"} = {} =>
       \A c, d \in Copies, k, l \in PointerNo :
          Pointer(c[2], k) # 0 =>
             /\ Pointer(c[2], k) \in disk.bbm
             /\ Pointer(c[2], k) = Pointer(d[2], l) => c[1] = d[1] /\ k = l

(* The directory that a mount would find. *)
RootBlocks == 0..(disk.itab[0].size - 1)
Entry(lb)  == disk.blk[disk.itab[0].direct[lb]]
Used       == {lb \in RootBlocks : Entry(lb).ino # 0}

(* A name leads to a file: its inode has been filled in, is marked as used *)
(* and has no other name - wherever the power is cut, and whatever fails,  *)
(* except writes of bitmaps and of inodes.                                 *)
NameHasFile ==
    failed \cap {"bitmap write", "inode write"} = {} =>
       \A lb \in Used : /\ disk.itab[Entry(lb).ino].live
                        /\ Entry(lb).ino \in disk.ibm
                        /\ \A k \in Used : Entry(k).ino = Entry(lb).ino => k = lb

(* No room is hidden: alloc_block and alloc_inode give up on a count of    *)
(* zero, so no count may fall below the number of clear bits.              *)
NoneHidden ==
    "bitmap write" \notin failed =>
       \A m \in {disk, mem} : /\ m.fb >= Cardinality(Block \ disk.bbm)
                              /\ m.fi >= Cardinality(Inode \ disk.ibm)

(* What a write has returned success for is on the disk, where the name of *)
(* the file leads, through a power cut and through later writes to other   *)
(* parts of the same block - unless the file was open twice, a write       *)
(* failed that nobody looked at, or the read did that comes before the     *)
(* write of a part: the rest of the block is then zeros.                   *)
AckedIsOnDisk ==
    failed \cap {"bitmap write", "pointer write", "inode write", "directory write",
                 "data read"} = {} =>
       \A w \in acked : w[2] \notin twice =>
          /\ \E lb \in Used : Entry(lb).name = w[1] /\ Entry(lb).ino = w[2]
          /\ LET inode == disk.itab[w[2]]
                 b == Pointer(inode, IF w[3] < DirectPtrs THEN w[3] ELSE DirectPtrs + 1)
             IN b # 0 /\ <<w[2], w[3], w[4]>> \in disk.blk[b].of /\ inode.size > w[3]

(* A name is in the directory once, unless a read failed - vfs_open takes  *)
(* every failure of the lookup for a file that is not there - or the write *)
(* of a bitmap: the directory may then get the same block twice.           *)
OneName ==
    failed \cap {"bitmap write", "directory read", "inode read"} = {} =>
       \A k, l \in Used : Entry(k).name = Entry(l).name => k = l
=============================================================================
