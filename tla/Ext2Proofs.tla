----------------------------- MODULE Ext2Proofs -----------------------------
(***************************************************************************)
(* The properties of the volume, for any number of blocks, inodes, names   *)
(* and open files, wherever requests fail and the power is cut.            *)
(*                                                                         *)
(* None of them is inductive.  The pointers on the disk lag behind those   *)
(* of the open files and of the root in memory, and the call under way     *)
(* has blocks and inodes in hand that are marked and that nothing leads    *)
(* to.  So the invariant speaks of pointers wherever they are (Owned,      *)
(* Kinds), of the directory in memory, of which the one on the disk is a   *)
(* part (Roots, Entered, NamesOnce), of the inode copies, which know all   *)
(* that the disk does (Vnodes), and of the variables of the call at each   *)
(* of its steps (JobFits).                                                 *)
(*                                                                         *)
(* Each part holds as long as no request of certain kinds has failed; a    *)
(* step that keeps it may itself fail.  For each step one lemma (Does)     *)
(* says what it changes, and a second (Step) that the invariant holds      *)
(* after it.                                                               *)
(***************************************************************************)
EXTENDS Ext2, FiniteSetTheorems, WellFoundedInduction, TLAPS

Ptr0  == Block \cup {0}
Name0 == Names \cup {""}
Direct == 0..(DirectPtrs - 1)

Piece  == Inode \X Logical \X Part

InodeSet == [live : BOOLEAN, size : Nat, direct : [Direct -> Ptr0], ind : Ptr0]
BlockSet == [name : Name0, ino : Inode, ptr : Ptr0, of : SUBSET Piece,
             kind : {"raw", "dir", "ptr", "data"}]
DiskSet  == [bbm : SUBSET Block, ibm : SUBSET Inode, fb : Int, fi : Int,
             itab : [Inode -> InodeSet], blk : [Block -> BlockSet]]
VnodeSet == [ino : Inode, name : Name0, inode : InodeSet]
MemSet   == [fb : Int, fi : Int, root : InodeSet, vnodes : [Vnode -> VnodeSet]]

AllocPcs == {"alloc", "mark", "super", "group"}
NewPcs   == {"fill", "scan", "enter", "grown"}
WritePcs == {"zero", "pointers", "pointer", "data", "merged", "inode"}
JobSet   == [pc : AllocPcs \cup NewPcs \cup WritePcs \cup {"idle", "lookup", "root", "vnode"},
             name : Name0, what : {"", "inode", "block"},
             to : {"", "fill", "grown", "data", "zero", "pointer"},
             v : Vnode \cup {""}, ino : Inode, lb : Nat, b : Nat,
             part : SUBSET Part, kept : SUBSET Piece]

Ext2Types == /\ disk \in DiskSet
             /\ mem \in MemSet
             /\ job \in JobSet
             /\ acked \subseteq Name0 \X Inode \X Logical \X Part

(* No write of a bitmap has failed, and none of the other requests that    *)
(* matter.                                                                 *)
BitmapsSound  == "bitmap write" \notin failed
PointersSound == BitmapsSound /\ "pointer write" \notin failed
InodesSound   == BitmapsSound /\ "inode write" \notin failed
WritesSound   == PointersSound /\ InodesSound /\ "directory write" \notin failed
AcksSound     == WritesSound /\ "data read" \notin failed
ReadsSound    == BitmapsSound /\ "directory read" \notin failed /\ "inode read" \notin failed

(* Inode i, on the disk or in memory, has b as its pointer k, up to the    *)
(* indirect one; Ref adds the pointer behind that.                         *)
PtrOf(n, k) == IF k < DirectPtrs THEN n.direct[k] ELSE n.ind

Holds(i, k, b) == \/ PtrOf(disk.itab[i], k) = b
                  \/ i = 0 /\ PtrOf(mem.root, k) = b
                  \/ \E v \in Vnode : /\ mem.vnodes[v].ino # 0 /\ mem.vnodes[v].ino = i
                                      /\ PtrOf(mem.vnodes[v].inode, k) = b

Ref(i, k, b) == IF k <= DirectPtrs THEN Holds(i, k, b)
                ELSE \E c \in Block : Holds(i, DirectPtrs, c) /\ disk.blk[c].ptr = b

(* No block is reached twice, and each that is reached is marked; the      *)
(* indirect blocks of inodes have been written as such.                    *)
Owned == PointersSound => \A i, j \in Inode, k, l \in PointerNo, b \in Block :
            Ref(i, k, b) => b \in disk.bbm /\ (Ref(j, l, b) => i = j /\ k = l)

Kinds == PointersSound => \A i \in Inode, b \in Block :
            Holds(i, DirectPtrs, b) => disk.blk[b].kind = "ptr"

(* The blocks of an inode of the root are its own, even where a pointer    *)
(* was lost.  The directory on the disk is the beginning of the one in     *)
(* memory.                                                                 *)
RootOwns(n, bbm) == \A k \in Direct : n.direct[k] # 0 =>
                       /\ n.direct[k] \in bbm
                       /\ \A l \in Direct : n.direct[k] = n.direct[l] => k = l

Roots == /\ mem.root.size \in 1..DirectPtrs
         /\ disk.itab[0].size \in 1..mem.root.size
         /\ \A k \in RootBlocks : disk.itab[0].direct[k] = mem.root.direct[k]
         /\ \A k \in 0..(mem.root.size - 1) : mem.root.direct[k] # 0
         /\ BitmapsSound => RootOwns(mem.root, disk.bbm) /\ RootOwns(disk.itab[0], disk.bbm)

(* The directory the driver works with. *)
MemUsed == {lb \in 0..(mem.root.size - 1) : EntryAt(lb).ino # 0}

Entered ==
    /\ \A b \in Block : disk.blk[b].ino = 0 <=> disk.blk[b].name = ""
    /\ InodesSound => \A k \in MemUsed :
          /\ disk.itab[EntryAt(k).ino].live
          /\ EntryAt(k).ino \in disk.ibm
          /\ \A l \in MemUsed : EntryAt(l).ino = EntryAt(k).ino => l = k

NamesOnce == ReadsSound => \A k, l \in MemUsed : EntryAt(k).name = EntryAt(l).name => k = l

Named(n, i) == \E lb \in Used : Entry(lb).name = n /\ Entry(lb).ino = i

(* What the disk knows of an inode, a vnode's copy knows too. *)
Ahead(n, d) == /\ \A k \in 0..DirectPtrs : PtrOf(d, k) # 0 => PtrOf(n, k) = PtrOf(d, k)
               /\ d.size <= n.size

(* An open file.  Two vnodes of one inode have copies that know nothing of *)
(* each other.                                                             *)
VnodeFits(v) ==
    mem.vnodes[v].ino # 0 =>
       /\ mem.vnodes[v].name \in Names
       /\ InodesSound => mem.vnodes[v].inode.live
       /\ WritesSound => Named(mem.vnodes[v].name, mem.vnodes[v].ino)
       /\ mem.vnodes[v].ino \notin twice =>
             /\ \A w \in Vnode : mem.vnodes[w].ino = mem.vnodes[v].ino => w = v
             /\ Ahead(mem.vnodes[v].inode, disk.itab[mem.vnodes[v].ino])

Vnodes == \A v \in Vnode : VnodeFits(v)

Counts == 0 \in disk.ibm /\ NoneHidden

(* An acknowledged write: each part of the block that it wrote is on the   *)
(* disk, where its name leads.                                             *)
OnDisk(n, i, lb, p, b) ==
    /\ Named(n, i)
    /\ b \in Block
    /\ IF lb < DirectPtrs THEN disk.itab[i].direct[lb] = b
       ELSE disk.itab[i].ind # 0 /\ disk.blk[disk.itab[i].ind].ptr = b
    /\ <<i, lb, p>> \in disk.blk[b].of
    /\ disk.itab[i].size > lb

Acks == AcksSound => \A n \in Name0, i \in Inode, lb \in Logical, p \in Part :
           <<n, i, lb, p>> \in acked /\ i \notin twice =>
              \E b \in Block : OnDisk(n, i, lb, p, b)

-----------------------------------------------------------------------------
(* The call under way. *)
Allocating == job.pc \in AllocPcs
For(t)     == job.pc = t \/ (Allocating /\ job.to = t)
NewFile    == job.pc \in NewPcs \/ (Allocating /\ job.to \in {"fill", "grown"})
Writing    == job.pc \in WritePcs \/ (Allocating /\ job.to \in {"data", "zero", "pointer"})

AllocFits == Allocating => \/ job.what = "inode" /\ job.to = "fill"
                           \/ job.what = "block" /\ job.to \in {"grown", "data", "zero", "pointer"}

MarkFits == job.pc = "mark" => IF job.what = "block" THEN job.b \in Block \ disk.bbm
                               ELSE job.b \in Inode \ disk.ibm

(* The block, the inode in b, and the inode in ino belong to nothing yet. *)
BlockIsNew == /\ job.b \in Block
              /\ BitmapsSound => /\ job.b \in disk.bbm
                                 /\ \A k \in Direct : mem.root.direct[k] # job.b
              /\ PointersSound => \A i \in Inode, k \in PointerNo : ~Ref(i, k, job.b)

UnusedInode(i) == /\ i \in Inode /\ i # 0
                  /\ BitmapsSound => i \in disk.ibm
                  /\ InodesSound => \A k \in MemUsed : EntryAt(k).ino # i

GotFits == /\ job.pc \in {"super", "group"} =>
                 IF job.what = "block" THEN BlockIsNew ELSE UnusedInode(job.b)
           /\ job.pc = "fill" => UnusedInode(job.b)
           /\ job.pc \in {"zero", "pointer"} => BlockIsNew

NewFileFits ==
    /\ NewFile => /\ job.name \in Names
                  /\ ReadsSound => \A k \in MemUsed : EntryAt(k).name # job.name
    /\ job.pc \in {"scan", "enter"} \/ For("grown") =>
          /\ UnusedInode(job.ino)
          /\ InodesSound => disk.itab[job.ino].live
    /\ job.pc \in {"lookup", "scan", "enter"} => job.lb < mem.root.size
    /\ job.pc = "enter" => EntryAt(job.lb).ino = 0
    /\ For("grown") => mem.root.size < DirectPtrs
    /\ job.pc = "grown" => BlockIsNew \/ (job.b \in Block /\ job.b = mem.root.direct[mem.root.size])

OpenFits ==
    /\ job.pc = "lookup" => job.name \in Names
    /\ job.pc = "root" => EntryAt(mem.root.size - 1) = DirBlock(job.name, job.ino)
    /\ job.pc \in {"root", "vnode"} => /\ job.ino # 0 /\ job.name \in Names
                                       /\ InodesSound => disk.itab[job.ino].live
    /\ job.pc = "vnode" /\ WritesSound => Named(job.name, job.ino)
    /\ job.pc # "root" /\ WritesSound => mem.root.size = disk.itab[0].size

(* The inode copy that is written. *)
Copy == mem.vnodes[job.v].inode

WriteFits ==
    /\ Writing => /\ job.v \in Vnode
                  /\ mem.vnodes[job.v].ino = job.ino /\ job.ino # 0
                  /\ mem.vnodes[job.v].name = job.name
                  /\ job.lb \in Logical
    /\ For("zero") => job.lb = DirectPtrs /\ Copy.ind = 0
    /\ job.pc = "pointers" => job.lb = DirectPtrs /\ Copy.ind # 0
    /\ For("pointer") => /\ job.lb = DirectPtrs /\ Copy.ind # 0
                         /\ PointersSound => disk.blk[Copy.ind].ptr = 0
    /\ Allocating /\ job.to = "data" => job.lb = 0 /\ Copy.direct[0] = 0
    /\ job.pc \in {"data", "merged"} =>
          /\ job.b \in Block
          /\ \/ job.lb = 0 /\ Copy.direct[0] = job.b
             \/ job.lb = 0 /\ Copy.direct[0] = 0 /\ BlockIsNew
             \/ /\ job.lb = DirectPtrs /\ Copy.ind # 0
                /\ PointersSound => disk.blk[Copy.ind].ptr = job.b
    /\ job.pc = "merged" /\ AcksSound => Kept \subseteq job.kept
    /\ job.pc = "inode" =>
          /\ job.b \in Block
          /\ \A p \in job.part : <<job.ino, job.lb, p>> \in disk.blk[job.b].of
          /\ job.lb < Copy.size
          /\ \/ job.lb = 0 /\ Copy.direct[0] = job.b
             \/ /\ job.lb = DirectPtrs /\ Copy.ind # 0
                /\ PointersSound => disk.blk[Copy.ind].ptr = job.b

JobFits == AllocFits /\ MarkFits /\ GotFits /\ NewFileFits /\ OpenFits /\ WriteFits

Ext2Inv == /\ Ext2Types
           /\ Owned /\ Kinds /\ Roots /\ Entered /\ NamesOnce /\ Vnodes /\ Counts /\ Acks
           /\ JobFits

-----------------------------------------------------------------------------
(* What Min and Max return of sets of numbers. *)
LEMMA MinIn == ASSUME NEW S \in SUBSET Nat, S # {} PROVE Min(S) \in S
  <1>1. \E x \in S : \A y \in S : ~(<<y, x>> \in OpToRel(<, Nat))
    BY NatLessThanWellFounded, WFMin, Zenon
  <1>2. PICK x \in S : \A y \in S : ~(<<y, x>> \in OpToRel(<, Nat))
    BY <1>1
  <1>3. \A y \in S : ~(y < x)
    BY <1>2 DEF OpToRel
  <1>4. \A y \in S : x <= y
    BY <1>3
  <1>5. QED
    BY <1>4 DEF Min

(* What the size of a file grows to. *)
LEMMA MaxOfTwo == ASSUME NEW m \in Nat, NEW n \in Nat
                  PROVE  /\ Max({m, n}) \in {m, n}
                         /\ Max({m, n}) >= m /\ Max({m, n}) >= n
  <1> DEFINE S == {m, n}
  <1>1. \E x \in S : \A y \in S : x >= y
    OBVIOUS
  <1>2. Max(S) \in S /\ \A y \in S : Max(S) >= y
    BY <1>1 DEF Max
  <1>3. QED
    BY <1>2

(* The numbers of the blocks, inodes and pointers. *)
LEMMA Numbers ==
    /\ LastBlock \in Nat \ {0} /\ LastInode \in Nat /\ DirectPtrs \in Nat \ {0}
    /\ Block \subseteq Nat \ {0} /\ Inode \subseteq Nat /\ 0 \in Inode /\ 1 \in Block
    /\ 0 \notin Block /\ 0 \in Direct /\ Direct \subseteq Nat
    /\ Logical = {0, DirectPtrs} /\ PointerNo = 0..(DirectPtrs + 1)
  <1>1. LastBlock \in Nat \ {0} /\ LastInode \in Nat /\ DirectPtrs \in Nat \ {0}
    BY Ext2Assumption
  <1>3. Block \subseteq Nat \ {0} /\ Inode \subseteq Nat /\ 0 \in Inode /\ 1 \in Block
    BY <1>1 DEF Block, Inode
  <1>4. 0 \notin Block /\ 0 \in Direct /\ Direct \subseteq Nat
    BY <1>1 DEF Block, Direct
  <1>5. QED
    BY <1>1, <1>3, <1>4 DEF Logical, PointerNo

(* Where there is no file there is no name. *)
LEMMA NoName == "" \notin Names
  BY Ext2Assumption

(* What a request does to the disk: if none like it has failed, it wrote. *)
LEMMA IoDoes ==
    ASSUME NEW w, NEW ok, NEW after, Io(w, ok, after)
    PROVE  /\ disk' \in {disk, after}
           /\ failed \subseteq failed' /\ failed' \subseteq failed \cup {w}
           /\ w \notin failed' => disk' = after
           /\ ok => disk' = after /\ failed' = failed
  BY DEF Io

(* The history only grows, so what holds of it held before. *)
LEMMA SoundBefore ==
    ASSUME failed \subseteq failed'
    PROVE  /\ BitmapsSound' => BitmapsSound
           /\ PointersSound' => PointersSound /\ BitmapsSound'
           /\ InodesSound' => InodesSound /\ BitmapsSound'
           /\ WritesSound' => WritesSound /\ PointersSound' /\ InodesSound'
           /\ AcksSound' => AcksSound /\ WritesSound' /\ WritesSound
           /\ ReadsSound' => ReadsSound /\ BitmapsSound'
  BY DEF BitmapsSound, PointersSound, InodesSound, WritesSound, AcksSound, ReadsSound

(* The blocks and inodes there are. *)
LEMMA NewTypes ==
    /\ NewInode \in InodeSet /\ NoBlock \in BlockSet /\ NoVnode \in VnodeSet
    /\ NoJob \in JobSet
    /\ \A n \in Name0, i \in Inode : DirBlock(n, i) \in BlockSet
    /\ \A b \in Ptr0 : PtrBlock(b) \in BlockSet
    /\ \A S \in SUBSET Piece : DataBlock(S) \in BlockSet
  <1>1. NewInode \in InodeSet
    BY Numbers DEF NewInode, InodeSet, Direct, Ptr0
  <1>2. NoBlock \in BlockSet
    BY Numbers DEF NoBlock, BlockSet, Name0, Ptr0
  <1>3. NoVnode \in VnodeSet
    BY <1>1, Numbers DEF NoVnode, VnodeSet, Name0
  <1>4. NoJob \in JobSet
    BY Numbers DEF NoJob, JobSet, Name0
  <1>5. \A n \in Name0, i \in Inode : DirBlock(n, i) \in BlockSet
    BY <1>2 DEF BlockSet, DirBlock
  <1>6. \A b \in Ptr0 : PtrBlock(b) \in BlockSet
    BY <1>2 DEF BlockSet, PtrBlock
  <1>7. \A S \in SUBSET Piece : DataBlock(S) \in BlockSet
    BY <1>2 DEF BlockSet, DataBlock
  <1>8. QED
    BY <1>1, <1>2, <1>3, <1>4, <1>5, <1>6, <1>7

(* What the blocks that are written say. *)
LEMMA Written ==
    /\ \A n, i : LET d == DirBlock(n, i) IN
          d.name = n /\ d.ino = i /\ d.ptr = 0 /\ d.kind = "dir" /\ d.of = {}
    /\ \A b : LET d == PtrBlock(b) IN
          d.name = "" /\ d.ino = 0 /\ d.ptr = b /\ d.kind = "ptr" /\ d.of = {}
    /\ \A S : LET d == DataBlock(S) IN
          d.name = "" /\ d.ino = 0 /\ d.ptr = 0 /\ d.kind = "data" /\ d.of = S
    /\ NewInode.live /\ NewInode.size = 0 /\ NewInode.ind = 0
    /\ \A k \in Direct : NewInode.direct[k] = 0
  BY DEF DirBlock, PtrBlock, DataBlock, NoBlock, NewInode, Direct

(* The types of the parts of the disk and of memory. *)
LEMMA Parts ==
    ASSUME Ext2Types
    PROVE  /\ disk = [bbm |-> disk.bbm, ibm |-> disk.ibm, fb |-> disk.fb, fi |-> disk.fi,
                      itab |-> disk.itab, blk |-> disk.blk]
           /\ disk.bbm \subseteq Block /\ disk.ibm \subseteq Inode
           /\ disk.fb \in Int /\ disk.fi \in Int
           /\ disk.itab \in [Inode -> InodeSet] /\ disk.blk \in [Block -> BlockSet]
           /\ mem = [fb |-> mem.fb, fi |-> mem.fi, root |-> mem.root, vnodes |-> mem.vnodes]
           /\ mem.fb \in Int /\ mem.fi \in Int /\ mem.root \in InodeSet
           /\ mem.vnodes \in [Vnode -> VnodeSet]
  BY DEF Ext2Types, DiskSet, MemSet

(* A call goes on with the variables it has. *)
LEMMA JobAt ==
    ASSUME Ext2Types,
           NEW p \in AllocPcs \cup NewPcs \cup WritePcs \cup {"root", "vnode"}
    PROVE  LET j == [job EXCEPT !.pc = p] IN
           /\ j \in JobSet /\ j.pc = p /\ j.name = job.name /\ j.what = job.what
           /\ j.to = job.to /\ j.v = job.v /\ j.ino = job.ino /\ j.lb = job.lb /\ j.b = job.b
           /\ j.part = job.part /\ j.kept = job.kept
  BY DEF Ext2Types, JobSet

-----------------------------------------------------------------------------
(* What a request does to the parts of the disk: a read nothing, a write   *)
(* of a block or of an inode the one thing it is for.                      *)
LEMMA ReadDoes == ASSUME NEW w, NEW ok, Io(w, ok, disk)
                  PROVE  disk' = disk /\ failed \subseteq failed'
  BY IoDoes

BlockWritten(w, b, x) ==
    /\ disk'.bbm = disk.bbm /\ disk'.ibm = disk.ibm
    /\ disk'.fb = disk.fb /\ disk'.fi = disk.fi /\ disk'.itab = disk.itab
    /\ disk' \in DiskSet
    /\ \A c \in Block : disk'.blk[c] = disk.blk[c] \/ (c = b /\ disk'.blk[c] = x)
    /\ w \notin failed' => disk'.blk[b] = x
    /\ failed \subseteq failed' /\ failed' \subseteq failed \cup {w}

(* A request to write a block does that, or it fails. *)
LEMMA BlockWrite ==
    ASSUME Ext2Types, NEW w, NEW ok, NEW b \in Block, NEW x \in BlockSet,
           Io(w, ok, [disk EXCEPT !.blk[b] = x])
    PROVE  BlockWritten(w, b, x) /\ (ok => disk'.blk[b] = x /\ failed' = failed)
  <1> DEFINE after == [disk EXCEPT !.blk[b] = x]
  <1>1. /\ disk' \in {disk, after} /\ (w \notin failed' => disk' = after)
        /\ failed \subseteq failed' /\ failed' \subseteq failed \cup {w}
        /\ ok => disk' = after /\ failed' = failed
    BY IoDoes
  <1>2. /\ after.bbm = disk.bbm /\ after.ibm = disk.ibm /\ after.fb = disk.fb
        /\ after.fi = disk.fi /\ after.itab = disk.itab
        /\ after.blk = [disk.blk EXCEPT ![b] = x]
    BY Parts
  <1>3. after \in DiskSet /\ disk \in DiskSet
    BY DEF Ext2Types, DiskSet
  <1>4. /\ \A c \in Block : after.blk[c] = IF c = b THEN x ELSE disk.blk[c]
        /\ after.blk[b] = x
    BY <1>2, Parts
  <1> HIDE DEF after
  <1>5. QED
    BY <1>1, <1>2, <1>3, <1>4 DEF BlockWritten

InodeWritten(w, i, x) ==
    /\ disk'.bbm = disk.bbm /\ disk'.ibm = disk.ibm
    /\ disk'.fb = disk.fb /\ disk'.fi = disk.fi /\ disk'.blk = disk.blk
    /\ disk' \in DiskSet
    /\ \A c \in Inode : disk'.itab[c] = disk.itab[c] \/ (c = i /\ disk'.itab[c] = x)
    /\ w \notin failed' => disk'.itab[i] = x
    /\ failed \subseteq failed' /\ failed' \subseteq failed \cup {w}

(* A request to write an inode does that, or it fails. *)
LEMMA InodeWrite ==
    ASSUME Ext2Types, NEW w, NEW ok, NEW i \in Inode, NEW x \in InodeSet,
           Io(w, ok, [disk EXCEPT !.itab[i] = x])
    PROVE  InodeWritten(w, i, x)
  <1> DEFINE after == [disk EXCEPT !.itab[i] = x]
  <1>1. /\ disk' \in {disk, after} /\ (w \notin failed' => disk' = after)
        /\ failed \subseteq failed' /\ failed' \subseteq failed \cup {w}
    BY IoDoes
  <1>2. /\ after.bbm = disk.bbm /\ after.ibm = disk.ibm /\ after.fb = disk.fb
        /\ after.fi = disk.fi /\ after.blk = disk.blk
        /\ after.itab = [disk.itab EXCEPT ![i] = x]
    BY Parts
  <1>3. after \in DiskSet /\ disk \in DiskSet
    BY DEF Ext2Types, DiskSet
  <1>4. /\ \A c \in Inode : after.itab[c] = IF c = i THEN x ELSE disk.itab[c]
        /\ after.itab[i] = x
    BY <1>2, Parts
  <1> HIDE DEF after
  <1>5. QED
    BY <1>1, <1>2, <1>3, <1>4 DEF InodeWritten

(* Blocks and inodes stay as they are, bits are only set, and the history  *)
(* of files is the same.                                                   *)
Frame == /\ disk'.itab = disk.itab /\ disk'.blk = disk.blk
         /\ disk.bbm \subseteq disk'.bbm /\ disk.ibm \subseteq disk'.ibm
         /\ mem'.root = mem.root /\ mem'.vnodes = mem.vnodes
         /\ failed \subseteq failed' /\ twice' = twice /\ acked' = acked

(* Such a step changes neither pointers nor entries. *)
LEMMA FrameSame ==
    ASSUME Frame
    PROVE  /\ \A i, k, b : Ref(i, k, b)' <=> Ref(i, k, b)
           /\ MemUsed' = MemUsed /\ Used' = Used
           /\ \A k : EntryAt(k)' = EntryAt(k) /\ Entry(k)' = Entry(k)
           /\ \A n, i : Named(n, i)' <=> Named(n, i)
  <1> USE DEF Frame
  <1>1. \A i, k, b : Holds(i, k, b)' <=> Holds(i, k, b)
    BY DEF Holds, PtrOf
  <1>2. \A i, k, b : Ref(i, k, b)' <=> Ref(i, k, b)
    BY <1>1 DEF Ref
  <1>3. /\ MemUsed' = MemUsed /\ Used' = Used
        /\ \A k : EntryAt(k)' = EntryAt(k) /\ Entry(k)' = Entry(k)
    BY DEF MemUsed, EntryAt, Used, Entry, RootBlocks
  <1>4. \A n, i : Named(n, i)' <=> Named(n, i)
    BY <1>3 DEF Named
  <1>5. QED
    BY <1>2, <1>3, <1>4

(* Such a step keeps what the invariant says of the volume. *)
LEMMA FrameKeeps ==
    ASSUME Ext2Types, Frame
    PROVE  /\ Owned => Owned'
           /\ Kinds => Kinds'
           /\ Roots => Roots'
           /\ Entered => Entered'
           /\ NamesOnce => NamesOnce'
           /\ Vnodes => Vnodes'
           /\ Acks => Acks'
  <1> USE DEF Frame
  <1>1. /\ BitmapsSound' => BitmapsSound
        /\ PointersSound' => PointersSound
        /\ InodesSound' => InodesSound
        /\ WritesSound' => WritesSound
        /\ AcksSound' => AcksSound
        /\ ReadsSound' => ReadsSound
    BY SoundBefore
  <1>2. \A i, k, b : Holds(i, k, b)' <=> Holds(i, k, b)
    BY DEF Holds, PtrOf
  <1>3. \A i, k, b : Ref(i, k, b)' <=> Ref(i, k, b)
    BY <1>2 DEF Ref
  <1>4. Owned => Owned'
    BY <1>1, <1>3 DEF Owned
  <1>5. Kinds => Kinds'
    BY <1>1, <1>2 DEF Kinds
  <1>6. Roots => Roots'
    BY <1>1 DEF Roots, RootBlocks, RootOwns
  <1>7. /\ MemUsed' = MemUsed /\ Used' = Used
        /\ \A k : EntryAt(k)' = EntryAt(k) /\ Entry(k)' = Entry(k)
    BY DEF MemUsed, EntryAt, Used, Entry, RootBlocks
  <1>8. Entered => Entered'
    BY <1>1, <1>7 DEF Entered
  <1>9. NamesOnce => NamesOnce'
    BY <1>1, <1>7 DEF NamesOnce
  <1>10. \A n, i : Named(n, i)' <=> Named(n, i)
    BY <1>7 DEF Named
  <1>11. Vnodes => Vnodes'
    BY <1>1, <1>10, SMTT(30) DEF Vnodes, VnodeFits, Ahead, PtrOf
  <1>12. Acks => Acks'
    <2>1. \A n, i, lb, p, b : OnDisk(n, i, lb, p, b) => OnDisk(n, i, lb, p, b)'
      BY <1>10 DEF OnDisk
    <2>2. QED
      BY <1>1, <2>1 DEF Acks
  <1>13. QED
    BY <1>4, <1>5, <1>6, <1>8, <1>9, <1>11, <1>12

(* The counts are right as long as neither they nor the bitmaps change. *)
LEMMA CountsKept ==
    ASSUME Counts, disk'.bbm = disk.bbm, disk'.ibm = disk.ibm, disk'.fb = disk.fb,
           disk'.fi = disk.fi, mem'.fb = mem.fb, mem'.fi = mem.fi, failed \subseteq failed'
    PROVE  Counts'
  BY DEF Counts, NoneHidden

-----------------------------------------------------------------------------
(* What the steps do that write blocks: to the block, to the root in       *)
(* memory and to the inode copy of the vnode.                              *)
SameFiles == acked' = acked /\ twice' = twice

(* An entry in a block of the directory that has room. *)
LEMMA AddEntryDoes ==
    ASSUME Ext2Inv, AddEntry
    PROVE  /\ job.pc = "enter" /\ job' = [job EXCEPT !.pc = "vnode"]
           /\ job.lb \in 0..(mem.root.size - 1)
           /\ mem.root.direct[job.lb] \in Block
           /\ BlockWritten("directory write", mem.root.direct[job.lb],
                           DirBlock(job.name, job.ino))
           /\ mem' = mem /\ SameFiles
           /\ Ext2Types'
  <1>1. Ext2Types /\ Roots /\ JobFits
    BY DEF Ext2Inv
  <1>2. job.pc = "enter" /\ job' = [job EXCEPT !.pc = "vnode"] /\ mem' = mem /\ SameFiles
    BY DEF AddEntry, At, Goto, SameFiles
  <1>3. job.lb \in 0..(mem.root.size - 1) /\ mem.root.size \in 1..DirectPtrs
    <2>1. mem.root.size \in 1..DirectPtrs
      BY <1>1 DEF Roots
    <2>2. job.lb < mem.root.size
      BY <1>1, <1>2 DEF JobFits, NewFileFits
    <2>3. job.lb \in Nat
      BY <1>1 DEF Ext2Types, JobSet
    <2>4. QED
      BY <2>1, <2>2, <2>3, Numbers
  <1>4. mem.root.direct[job.lb] \in Block
    <2>1. job.lb \in Direct /\ mem.root.direct \in [Direct -> Ptr0]
      BY <1>1, <1>3, Parts, Numbers, SMTT(30) DEF InodeSet, Direct
    <2>2. mem.root.direct[job.lb] # 0
      BY <1>1, <1>3 DEF Roots
    <2>3. QED
      BY <2>1, <2>2 DEF Ptr0
  <1>5. job.name \in Name0 /\ job.ino \in Inode
    BY <1>1 DEF Ext2Types, JobSet
  <1>6. DirBlock(job.name, job.ino) \in BlockSet
    BY <1>5, NewTypes
  <1>7. PICK ok \in BOOLEAN : Io("directory write", ok,
             [disk EXCEPT !.blk[mem.root.direct[job.lb]] = DirBlock(job.name, job.ino)])
    BY Zenon DEF AddEntry
  <1>8. BlockWritten("directory write", mem.root.direct[job.lb],
                     DirBlock(job.name, job.ino))
    <2>1. PICK b \in Block : b = mem.root.direct[job.lb]
      BY <1>4
    <2>2. PICK x \in BlockSet : x = DirBlock(job.name, job.ino)
      BY <1>6
    <2>3. Io("directory write", ok, [disk EXCEPT !.blk[b] = x])
      BY <1>7, <2>1, <2>2
    <2>4. BlockWritten("directory write", b, x)
      BY <1>1, <2>3, BlockWrite
    <2>5. QED
      BY <2>1, <2>2, <2>4
  <1>9. Ext2Types'
    BY <1>1, <1>2, <1>8 DEF Ext2Types, JobSet, SameFiles, BlockWritten
  <1>10. QED
    BY <1>2, <1>3, <1>4, <1>8, <1>9

(* A block more in the directory: the root in memory points to it even     *)
(* when the write fails.                                                   *)
LEMMA AddBlockDoes ==
    ASSUME Ext2Inv, AddBlock
    PROVE  /\ job.pc = "grown"
           /\ job.b \in Block
           /\ mem.root.size \in 1..(DirectPtrs - 1)
           /\ BlockWritten("directory write", job.b, DirBlock(job.name, job.ino))
           /\ mem'.fb = mem.fb /\ mem'.fi = mem.fi /\ mem'.vnodes = mem.vnodes
           /\ mem'.root.ind = mem.root.ind
           /\ mem'.root.direct = [mem.root.direct EXCEPT ![mem.root.size] = job.b]
           /\ \/ job' = NoJob /\ mem'.root.size = mem.root.size
              \/ /\ job' = [job EXCEPT !.pc = "root"]
                 /\ mem'.root.size = mem.root.size + 1
                 /\ disk'.blk[job.b] = DirBlock(job.name, job.ino)
           /\ SameFiles
           /\ Ext2Types'
  <1>1. Ext2Types /\ Roots /\ JobFits
    BY DEF Ext2Inv
  <1> DEFINE grown == [mem EXCEPT !.root.direct[mem.root.size] = job.b]
  <1>2. job.pc = "grown" /\ SameFiles
    BY DEF AddBlock, At, SameFiles
  <1>3. job.b \in Block /\ mem.root.size \in 1..(DirectPtrs - 1)
    <2>1. mem.root.size \in 1..DirectPtrs
      BY <1>1 DEF Roots
    <2>2. job.b \in Block /\ mem.root.size < DirectPtrs
      BY <1>1, <1>2 DEF JobFits, NewFileFits, For, BlockIsNew
    <2>3. QED
      BY <2>1, <2>2, Numbers
  <1>4. DirBlock(job.name, job.ino) \in BlockSet
    BY <1>1, NewTypes DEF Ext2Types, JobSet
  <1>5. PICK ok \in BOOLEAN :
          /\ Io("directory write", ok,
                [disk EXCEPT !.blk[job.b] = DirBlock(job.name, job.ino)])
          /\ mem' = IF ok THEN [grown EXCEPT !.root.size = mem.root.size + 1] ELSE grown
          /\ IF ok THEN Goto("root") ELSE Finish
    BY DEF AddBlock
  <1>6. /\ BlockWritten("directory write", job.b, DirBlock(job.name, job.ino))
        /\ ok => disk'.blk[job.b] = DirBlock(job.name, job.ino)
    <2>1. PICK b \in Block : b = job.b
      BY <1>3
    <2>2. PICK x \in BlockSet : x = DirBlock(job.name, job.ino)
      BY <1>4
    <2>3. Io("directory write", ok, [disk EXCEPT !.blk[b] = x])
      BY <1>5, <2>1, <2>2
    <2>4. BlockWritten("directory write", b, x)
      BY <1>1, <2>3, BlockWrite
    <2>5. ok => disk'.blk[b] = x
      <3>1. ok => disk' = [disk EXCEPT !.blk[b] = x]
        BY <2>3 DEF Io
      <3>2. disk.blk \in [Block -> BlockSet] /\ disk \in DiskSet
        BY <1>1, Parts DEF Ext2Types
      <3>3. QED
        BY <3>1, <3>2 DEF DiskSet
    <2>6. QED
      BY <2>1, <2>2, <2>4, <2>5
  <1>7. /\ grown.fb = mem.fb /\ grown.fi = mem.fi /\ grown.vnodes = mem.vnodes
        /\ grown.root.direct = [mem.root.direct EXCEPT ![mem.root.size] = job.b]
        /\ grown.root.ind = mem.root.ind /\ grown.root.size = mem.root.size
        /\ grown \in MemSet
    <2>1. mem.root.size \in Direct /\ job.b \in Ptr0 /\ mem \in MemSet
      BY <1>1, <1>3, Numbers DEF Direct, Ptr0, Ext2Types
    <2>2. mem.root \in InodeSet /\ mem.root.direct \in [Direct -> Ptr0]
      BY <2>1 DEF MemSet, InodeSet
    <2>3. grown.root = [mem.root EXCEPT !.direct[mem.root.size] = job.b]
      BY <2>1 DEF MemSet
    <2>4. grown.root \in InodeSet
      BY <2>1, <2>2, <2>3 DEF InodeSet
    <2>5. QED
      BY <2>1, <2>2, <2>3, <2>4 DEF MemSet, InodeSet
  <1> DEFINE bigger == [grown EXCEPT !.root.size = mem.root.size + 1]
  <1>8. /\ bigger.fb = mem.fb /\ bigger.fi = mem.fi /\ bigger.vnodes = mem.vnodes
        /\ bigger.root.direct = [mem.root.direct EXCEPT ![mem.root.size] = job.b]
        /\ bigger.root.ind = mem.root.ind /\ bigger.root.size = mem.root.size + 1
        /\ bigger \in MemSet
    <2> HIDE DEF grown
    <2>1. mem.root.size + 1 \in Nat
      BY <1>3, Numbers
    <2>2. bigger.root = [grown.root EXCEPT !.size = mem.root.size + 1]
      BY <1>7 DEF MemSet
    <2>3. bigger.root \in InodeSet
      BY <1>7, <2>1, <2>2 DEF InodeSet, MemSet
    <2>4. QED
      BY <1>7, <2>2, <2>3 DEF MemSet, InodeSet
  <1> HIDE DEF grown, bigger
  <1>9. /\ mem' \in MemSet
        /\ mem'.fb = mem.fb /\ mem'.fi = mem.fi /\ mem'.vnodes = mem.vnodes
        /\ mem'.root.ind = mem.root.ind
        /\ mem'.root.direct = [mem.root.direct EXCEPT ![mem.root.size] = job.b]
        /\ mem'.root.size = IF ok THEN mem.root.size + 1 ELSE mem.root.size
    BY <1>5, <1>7, <1>8 DEF bigger
  <1>10. /\ job' \in JobSet
         /\ ok => job' = [job EXCEPT !.pc = "root"]
         /\ ~ok => job' = NoJob
    BY <1>1, <1>5, NewTypes DEF Goto, Finish, Ext2Types, JobSet
  <1>11. Ext2Types'
    BY <1>1, <1>2, <1>6, <1>9, <1>10 DEF Ext2Types, SameFiles, BlockWritten
  <1>12. QED
    BY <1>2, <1>3, <1>6, <1>9, <1>10, <1>11

(* Of the vnodes only the inode copy of the one that is written changes. *)
OneCopy == /\ mem'.root = mem.root /\ mem'.fb = mem.fb /\ mem'.fi = mem.fi
           /\ \A v \in Vnode : /\ mem'.vnodes[v].ino = mem.vnodes[v].ino
                               /\ mem'.vnodes[v].name = mem.vnodes[v].name
                               /\ v # job.v => mem'.vnodes[v] = mem.vnodes[v]

(* A step that replaces the inode copy of the vnode of the call. *)
LEMMA CopyStep ==
    ASSUME Ext2Types, job.v \in Vnode, NEW n \in InodeSet,
           mem' = [mem EXCEPT !.vnodes[job.v].inode = n]
    PROVE  OneCopy /\ mem'.vnodes[job.v].inode = n /\ mem' \in MemSet
  <1>1. mem \in MemSet /\ mem.vnodes \in [Vnode -> VnodeSet]
    BY Parts DEF Ext2Types
  <1>2. mem'.vnodes = [mem.vnodes EXCEPT ![job.v].inode = n]
    BY <1>1 DEF MemSet
  <1>3. mem'.root = mem.root /\ mem'.fb = mem.fb /\ mem'.fi = mem.fi
    BY <1>1 DEF MemSet
  <1>4. mem'.vnodes[job.v] = [mem.vnodes[job.v] EXCEPT !.inode = n]
    BY <1>1, <1>2
  <1>5. mem'.vnodes \in [Vnode -> VnodeSet]
    BY <1>1, <1>2, <1>4 DEF VnodeSet
  <1>6. QED
    BY <1>1, <1>2, <1>3, <1>4, <1>5 DEF OneCopy, MemSet, VnodeSet

(* A new indirect block, entered in the inode copy and then cleared. *)
LEMMA ZeroPointersDoes ==
    ASSUME Ext2Inv, ZeroPointers
    PROVE  /\ job.pc = "zero" /\ job' = [job EXCEPT !.pc = "pointers"]
           /\ job.b \in Block /\ job.v \in Vnode
           /\ BlockWritten("pointer write", job.b, PtrBlock(0))
           /\ OneCopy /\ Copy' = [Copy EXCEPT !.ind = job.b]
           /\ SameFiles
           /\ Ext2Types'
  <1>1. Ext2Types /\ JobFits
    BY DEF Ext2Inv
  <1>2. job.pc = "zero" /\ job' = [job EXCEPT !.pc = "pointers"] /\ SameFiles
    BY DEF ZeroPointers, At, Goto, SameFiles
  <1>3. job.b \in Block /\ job.v \in Vnode
    BY <1>1, <1>2 DEF JobFits, GotFits, BlockIsNew, WriteFits, Writing, WritePcs
  <1>4. PtrBlock(0) \in BlockSet
    BY NewTypes DEF Ptr0
  <1>5. PICK ok \in BOOLEAN :
          Io("pointer write", ok, [disk EXCEPT !.blk[job.b] = PtrBlock(0)])
    BY Zenon DEF ZeroPointers
  <1>6. BlockWritten("pointer write", job.b, PtrBlock(0))
    BY <1>1, <1>3, <1>4, <1>5, BlockWrite
  <1>7. Copy \in InodeSet
    BY <1>1, <1>3, Parts DEF VnodeSet, Copy
  <1>8. [Copy EXCEPT !.ind = job.b] \in InodeSet
    BY <1>3, <1>7 DEF InodeSet, Ptr0
  <1>9. mem' = [mem EXCEPT !.vnodes[job.v].inode = [Copy EXCEPT !.ind = job.b]]
    BY DEF ZeroPointers, Copy
  <1>10. OneCopy /\ mem'.vnodes[job.v].inode = [Copy EXCEPT !.ind = job.b] /\ mem' \in MemSet
    BY <1>1, <1>3, <1>8, <1>9, CopyStep
  <1>11. job'.v = job.v /\ job' \in JobSet
    BY <1>1, <1>2, JobAt DEF WritePcs
  <1>12. Copy' = [Copy EXCEPT !.ind = job.b]
    BY <1>10, <1>11 DEF Copy
  <1>13. Ext2Types'
    BY <1>1, <1>2, <1>6, <1>10, <1>11 DEF Ext2Types, SameFiles, BlockWritten
  <1>14. QED
    BY <1>2, <1>3, <1>6, <1>10, <1>12, <1>13

(* A pointer in the indirect block of the vnode's inode. *)
LEMMA WritePointerDoes ==
    ASSUME Ext2Inv, WritePointer
    PROVE  /\ job.pc = "pointer" /\ job' = [job EXCEPT !.pc = "data"]
           /\ job.b \in Block /\ job.v \in Vnode /\ Copy.ind \in Block
           /\ BlockWritten("pointer write", Copy.ind, PtrBlock(job.b))
           /\ mem' = mem /\ SameFiles
           /\ Ext2Types'
  <1>1. Ext2Types /\ JobFits
    BY DEF Ext2Inv
  <1>2. job.pc = "pointer" /\ job' = [job EXCEPT !.pc = "data"] /\ mem' = mem /\ SameFiles
    BY DEF WritePointer, At, Goto, SameFiles
  <1>3. job.b \in Block /\ job.v \in Vnode /\ Copy.ind # 0
    BY <1>1, <1>2 DEF JobFits, GotFits, BlockIsNew, WriteFits, Writing, WritePcs, For
  <1>4. Copy \in InodeSet
    BY <1>1, <1>3, Parts DEF VnodeSet, Copy
  <1>5. Copy.ind \in Block /\ PtrBlock(job.b) \in BlockSet
    BY <1>3, <1>4, NewTypes DEF InodeSet, Ptr0
  <1>6. PICK ok \in BOOLEAN :
          Io("pointer write", ok, [disk EXCEPT !.blk[Copy.ind] = PtrBlock(job.b)])
    BY Zenon DEF WritePointer, Copy
  <1>7. BlockWritten("pointer write", Copy.ind, PtrBlock(job.b))
    BY <1>1, <1>5, <1>6, BlockWrite
  <1>8. job' \in JobSet
    BY <1>1, <1>2, JobAt DEF WritePcs
  <1>9. Ext2Types'
    BY <1>1, <1>2, <1>7, <1>8 DEF Ext2Types, SameFiles, BlockWritten
  <1>10. QED
    BY <1>2, <1>3, <1>5, <1>7, <1>9

(* What is merged has the parts that are written, and the others of the    *)
(* same block of the file as they were, if the block was read.             *)
LEMMA MergedDoes ==
    ASSUME Ext2Types, WriteFits, job.b \in Block, job.lb \in Logical,
           (job.pc = "data" /\ Whole) \/ job.pc = "merged"
    PROVE  /\ Merged \in BlockSet
           /\ Merged.name = "" /\ Merged.ino = 0 /\ Merged.ptr = 0
           /\ \A p \in job.part : <<job.ino, job.lb, p>> \in Merged.of
           /\ AcksSound => \A p \in Part : <<job.ino, job.lb, p>> \in disk.blk[job.b].of =>
                             <<job.ino, job.lb, p>> \in Merged.of
  <1>1. job \in JobSet
    BY DEF Ext2Types
  <1>2. /\ job.part \subseteq Part /\ job.kept \subseteq Piece /\ job.ino \in Inode
        /\ \A p \in Part : <<job.ino, job.lb, p>> \in Piece
    BY <1>1 DEF JobSet, Piece
  <1>3. PICK S : S = job.kept \cup {<<job.ino, job.lb, p>> : p \in job.part}
    OBVIOUS
  <1>4. S \in SUBSET Piece /\ Merged = DataBlock(S)
    BY <1>2, <1>3 DEF Merged
  <1>5. /\ Merged \in BlockSet /\ Merged.name = "" /\ Merged.ino = 0 /\ Merged.ptr = 0
        /\ Merged.of = S
    BY <1>4, NewTypes, Written
  <1>6. \A p \in job.part : <<job.ino, job.lb, p>> \in S
    BY <1>3
  <1>7. ASSUME AcksSound, NEW p \in Part, <<job.ino, job.lb, p>> \in disk.blk[job.b].of,
               p \notin job.part
        PROVE  <<job.ino, job.lb, p>> \in S
    <2>1. job.pc = "merged"
      BY <1>7 DEF Whole
    <2>2. Kept \subseteq job.kept
      BY <1>7, <2>1 DEF WriteFits
    <2>3. <<job.ino, job.lb, p>>[3] = p
      OBVIOUS
    <2>4. <<job.ino, job.lb, p>> \in Kept
      BY <1>7, <2>3 DEF Kept
    <2>5. QED
      BY <1>3, <2>2, <2>4
  <1>8. QED
    BY <1>5, <1>6, <1>7

(* The data, and what the inode copy learns of it. *)
LEMMA WriteDataDoes ==
    ASSUME Ext2Inv, WriteData
    PROVE  /\ (job.pc = "data" /\ Whole) \/ job.pc = "merged"
           /\ job.b \in Block /\ job.v \in Vnode
           /\ job.lb \in Logical
           /\ BlockWritten("other", job.b, Merged)
           /\ OneCopy
           /\ LET n == mem'.vnodes[job.v].inode IN
              /\ n.live = Copy.live /\ n.ind = Copy.ind
              /\ job.lb = 0 => n.direct = [Copy.direct EXCEPT ![0] = job.b]
              /\ job.lb # 0 => n.direct = Copy.direct
              /\ n.size >= Copy.size
              /\ \/ job' = NoJob
                 \/ /\ job' = [job EXCEPT !.pc = "inode"]
                    /\ n.size > job.lb
                    /\ disk'.blk[job.b] = Merged
           /\ SameFiles
           /\ Ext2Types'
  <1>1. Ext2Types /\ JobFits
    BY DEF Ext2Inv
  <1>2. ((job.pc = "data" /\ Whole) \/ job.pc = "merged") /\ SameFiles
    BY DEF WriteData, At, SameFiles
  <1>3. job.b \in Block /\ job.v \in Vnode /\ job.lb \in Logical
    BY <1>1, <1>2 DEF JobFits, WriteFits, Writing, WritePcs
  <1>4. Copy \in InodeSet
    BY <1>1, <1>3, Parts DEF VnodeSet, Copy
  <1>5. Merged \in BlockSet
    BY <1>1, <1>2, <1>3, MergedDoes DEF JobFits
  <1> DEFINE n0 == WithBlock(Copy)
             n1 == [n0 EXCEPT !.size = Max({n0.size, job.lb + 1})]
  <1>6. PICK ok \in BOOLEAN :
          /\ Io("other", ok, [disk EXCEPT !.blk[job.b] = Merged])
          /\ mem' = [mem EXCEPT !.vnodes[job.v].inode = IF ok THEN n1 ELSE n0]
          /\ IF ok THEN Goto("inode") ELSE Finish
    BY DEF WriteData, Copy
  <1>7. /\ BlockWritten("other", job.b, Merged)
        /\ ok => disk'.blk[job.b] = Merged
    BY <1>1, <1>3, <1>5, <1>6, BlockWrite
  <1>8. /\ n0 \in InodeSet /\ n0.live = Copy.live /\ n0.ind = Copy.ind
        /\ n0.size = Copy.size
        /\ job.lb = 0 => n0.direct = [Copy.direct EXCEPT ![0] = job.b]
        /\ job.lb # 0 => n0.direct = Copy.direct
    <2>1. CASE job.lb = 0
      <3>1. n0 = [Copy EXCEPT !.direct[0] = job.b] /\ job.b \in Ptr0 /\ 0 \in Direct
        BY <1>3, <2>1, Numbers DEF WithBlock, Ptr0
      <3> HIDE DEF n0
      <3>2. QED
        BY <1>4, <2>1, <3>1 DEF InodeSet
    <2>2. CASE job.lb # 0
      BY <1>3, <1>4, <2>2, Numbers DEF WithBlock
    <2>3. QED
      BY <2>1, <2>2
  <1>9. n0.size \in Nat /\ job.lb + 1 \in Nat
    BY <1>3, <1>8, Numbers DEF InodeSet
  <1>10. LET m == Max({n0.size, job.lb + 1}) IN
         m \in Nat /\ m >= n0.size /\ m > job.lb
    <2> HIDE DEF n0
    <2>1. QED
      BY <1>3, <1>9, MaxOfTwo, Numbers
  <1> HIDE DEF n0
  <1>11. /\ n1 \in InodeSet /\ n1.live = n0.live /\ n1.ind = n0.ind
         /\ n1.direct = n0.direct /\ n1.size >= n0.size /\ n1.size > job.lb
    BY <1>8, <1>10 DEF InodeSet
  <1> DEFINE n == IF ok THEN n1 ELSE n0
  <1>12. /\ n \in InodeSet /\ n.live = Copy.live /\ n.ind = Copy.ind
         /\ job.lb = 0 => n.direct = [Copy.direct EXCEPT ![0] = job.b]
         /\ job.lb # 0 => n.direct = Copy.direct
         /\ n.size >= Copy.size
         /\ ok => n.size > job.lb
    <2> HIDE DEF n1
    <2>1. QED
      BY <1>8, <1>9, <1>11 DEF n
  <1>13. mem' = [mem EXCEPT !.vnodes[job.v].inode = n]
    BY <1>6
  <1> HIDE DEF n
  <1>14. OneCopy /\ mem'.vnodes[job.v].inode = n /\ mem' \in MemSet
    BY <1>1, <1>3, <1>12, <1>13, CopyStep
  <1>15. /\ job' \in JobSet
         /\ ok => job' = [job EXCEPT !.pc = "inode"]
         /\ ~ok => job' = NoJob
    BY <1>1, <1>6, NewTypes, JobAt DEF Goto, Finish, WritePcs
  <1>16. Ext2Types'
    BY <1>1, <1>2, <1>7, <1>14, <1>15 DEF Ext2Types, SameFiles, BlockWritten
  <1>17. QED
    BY <1>2, <1>3, <1>7, <1>12, <1>14, <1>15, <1>16

-----------------------------------------------------------------------------
(* What the steps do that write inodes, and those that change the vnodes.  *)
LEMMA CreateDoes ==
    ASSUME Ext2Inv, ext2_vfs_create
    PROVE  /\ job.pc = "fill"
           /\ job' = [job EXCEPT !.pc = "scan", !.ino = job.b, !.lb = 0]
           /\ job.b \in Inode
           /\ InodeWritten("inode write", job.b, NewInode)
           /\ mem' = mem /\ SameFiles
           /\ Ext2Types'
  <1>1. Ext2Types /\ JobFits
    BY DEF Ext2Inv
  <1>2. /\ job.pc = "fill" /\ mem' = mem /\ SameFiles
        /\ job' = [job EXCEPT !.pc = "scan", !.ino = job.b, !.lb = 0]
    BY DEF ext2_vfs_create, At, SameFiles
  <1>3. job.b \in Inode
    BY <1>1, <1>2 DEF JobFits, GotFits, UnusedInode
  <1>4. PICK ok \in BOOLEAN : Io("inode write", ok, [disk EXCEPT !.itab[job.b] = NewInode])
    BY Zenon DEF ext2_vfs_create, Filled
  <1>5. InodeWritten("inode write", job.b, NewInode)
    BY <1>1, <1>3, <1>4, InodeWrite, NewTypes
  <1>6. job' \in JobSet
    BY <1>1, <1>2, <1>3 DEF Ext2Types, JobSet, NewPcs
  <1>7. Ext2Types'
    BY <1>1, <1>2, <1>5, <1>6 DEF Ext2Types, SameFiles, InodeWritten
  <1>8. QED
    BY <1>2, <1>3, <1>5, <1>7

(* The inode of the directory goes to the disk. *)
LEMMA WriteRootDoes ==
    ASSUME Ext2Inv, WriteRoot
    PROVE  /\ job.pc = "root" /\ job' = [job EXCEPT !.pc = "vnode"]
           /\ InodeWritten("inode write", 0, mem.root)
           /\ mem' = mem /\ SameFiles
           /\ Ext2Types'
  <1>1. Ext2Types
    BY DEF Ext2Inv
  <1>2. job.pc = "root" /\ job' = [job EXCEPT !.pc = "vnode"] /\ mem' = mem /\ SameFiles
    BY DEF WriteRoot, At, Goto, SameFiles
  <1>3. PICK ok \in BOOLEAN : Io("inode write", ok, [disk EXCEPT !.itab[0] = mem.root])
    BY Zenon DEF WriteRoot
  <1>4. mem.root \in InodeSet /\ 0 \in Inode
    BY <1>1, Parts, Numbers
  <1>5. InodeWritten("inode write", 0, mem.root)
    BY <1>1, <1>3, <1>4, InodeWrite
  <1>6. job' \in JobSet
    BY <1>1, <1>2, JobAt
  <1>7. Ext2Types'
    BY <1>1, <1>2, <1>5, <1>6 DEF Ext2Types, SameFiles, InodeWritten
  <1>8. QED
    BY <1>2, <1>5, <1>7

(* The inode copy goes to the disk, and the write is acknowledged. *)
LEMMA WriteInodeDoes ==
    ASSUME Ext2Inv, WriteInode
    PROVE  /\ job.pc = "inode" /\ job' = NoJob
           /\ job.v \in Vnode /\ job.lb \in Logical
           /\ InodeWritten("inode write", job.ino, Copy)
           /\ mem' = mem /\ twice' = twice
           /\ acked' = acked \cup {<<job.name, job.ino, job.lb, p>> : p \in job.part}
           /\ Ext2Types'
  <1>1. Ext2Types /\ JobFits
    BY DEF Ext2Inv
  <1>2. /\ job.pc = "inode" /\ job' = NoJob /\ mem' = mem /\ twice' = twice
        /\ acked' = acked \cup {<<job.name, job.ino, job.lb, p>> : p \in job.part}
    BY DEF WriteInode, At, Finish
  <1>3. job.v \in Vnode /\ job.lb \in Logical
    BY <1>1, <1>2 DEF JobFits, WriteFits, Writing, WritePcs
  <1>4. Copy \in InodeSet /\ job.ino \in Inode /\ job.name \in Name0
    BY <1>1, <1>3, Parts DEF VnodeSet, Copy, Ext2Types, JobSet
  <1>5. PICK ok \in BOOLEAN : Io("inode write", ok, [disk EXCEPT !.itab[job.ino] = Copy])
    BY Zenon DEF WriteInode, Copy
  <1>6. InodeWritten("inode write", job.ino, Copy)
    BY <1>1, <1>4, <1>5, InodeWrite
  <1>7. acked' \subseteq Name0 \X Inode \X Logical \X Part
    <2>1. job.part \subseteq Part
      BY <1>1 DEF Ext2Types, JobSet
    <2>2. QED
      BY <1>1, <1>2, <1>3, <1>4, <2>1 DEF Ext2Types
  <1>8. Ext2Types'
    BY <1>1, <1>2, <1>6, <1>7, NewTypes DEF Ext2Types, InodeWritten
  <1>9. QED
    BY <1>2, <1>3, <1>6, <1>8

(* One vnode is opened, with a copy of the inode on the disk, or none is. *)
Opened(v) ==
    /\ mem.vnodes[v].ino = 0
    /\ failed' = failed
    /\ job' = NoJob
    /\ \A w \in Vnode : w # v => mem'.vnodes[w] = mem.vnodes[w]
    /\ mem'.vnodes[v].ino = job.ino /\ mem'.vnodes[v].name = job.name
    /\ mem'.vnodes[v].inode = disk.itab[job.ino]
    /\ twice' = IF \E w \in Vnode : mem.vnodes[w].ino = job.ino
                THEN twice \cup {job.ino} ELSE twice

(* A vnode is opened, or the inode cannot be read. *)
LEMMA MakeVnodeDoes ==
    ASSUME Ext2Inv, ext2_make_vnode
    PROVE  /\ job.pc = "vnode"
           /\ disk' = disk /\ failed \subseteq failed' /\ acked' = acked
           /\ mem'.root = mem.root /\ mem'.fb = mem.fb /\ mem'.fi = mem.fi
           /\ \/ /\ mem' = mem /\ twice' = twice
                 /\ job' = NoJob \/ (job' = Create /\ job.what = "" /\ "inode read" \in failed')
              \/ \E v \in Vnode : Opened(v)
           /\ Ext2Types'
  <1>1. Ext2Types
    BY DEF Ext2Inv
  <1>2. PICK ok \in BOOLEAN :
          /\ Io("inode read", ok, disk)
          /\ \E v \in Unused :
                mem' = IF ok
                       THEN [mem EXCEPT !.vnodes[v] = [ino |-> job.ino, name |-> job.name,
                                                       inode |-> disk.itab[job.ino]]]
                       ELSE mem
          /\ job' = IF ~ok /\ job.what = "" THEN Create ELSE NoJob
          /\ twice' = IF ok /\ \E v \in Vnode : mem.vnodes[v].ino = job.ino
                      THEN twice \cup {job.ino} ELSE twice
    BY DEF ext2_make_vnode
  <1>3. job.pc = "vnode" /\ acked' = acked
    BY DEF ext2_make_vnode, At
  <1>4. disk' = disk /\ failed \subseteq failed' /\ (ok => failed' = failed)
        /\ (~ok => "inode read" \in failed')
    BY <1>2 DEF Io
  <1>5. Create \in JobSet /\ NoJob \in JobSet
    <2>1. Create = [job EXCEPT !.pc = "alloc", !.what = "inode", !.to = "fill"]
      BY DEF Create, Allocate
    <2>2. QED
      BY <1>1, <2>1, NewTypes DEF Ext2Types, JobSet, AllocPcs
  <1>6. CASE ~ok
    <2>1. mem' = mem /\ twice' = twice
      BY <1>2, <1>6
    <2>2. Ext2Types'
      BY <1>1, <1>2, <1>3, <1>4, <1>5, <2>1 DEF Ext2Types
    <2>3. job' = NoJob \/ (job' = Create /\ job.what = "" /\ "inode read" \in failed')
      BY <1>2, <1>4, <1>6
    <2>4. QED
      BY <1>3, <1>4, <2>1, <2>2, <2>3
  <1>7. CASE ok
    <2> DEFINE n == [ino |-> job.ino, name |-> job.name, inode |-> disk.itab[job.ino]]
    <2>1. PICK v \in Unused : mem' = [mem EXCEPT !.vnodes[v] = n]
      BY <1>2, <1>7
    <2>2. n \in VnodeSet
      BY <1>1, Parts DEF VnodeSet, Ext2Types, JobSet
    <2>3. /\ mem'.vnodes = [mem.vnodes EXCEPT ![v] = n] /\ mem' \in MemSet
          /\ mem'.root = mem.root /\ mem'.fb = mem.fb /\ mem'.fi = mem.fi
      <3> HIDE DEF n
      <3>1. QED
        BY <1>1, <2>1, <2>2 DEF Ext2Types, MemSet
    <2>4. v \in Vnode /\ mem.vnodes[v].ino = 0
      BY DEF Unused
    <2>5. mem'.vnodes[v] = n /\ \A w \in Vnode : w # v => mem'.vnodes[w] = mem.vnodes[w]
      <3> HIDE DEF n
      <3>1. QED
        BY <1>1, <2>3, <2>4, Parts
    <2>6. Opened(v)
      <3>1. /\ job' = NoJob
            /\ twice' = IF \E w \in Vnode : mem.vnodes[w].ino = job.ino
                        THEN twice \cup {job.ino} ELSE twice
        BY <1>2, <1>7
      <3>2. failed' = failed
        BY <1>4, <1>7
      <3>3. /\ mem'.vnodes[v].ino = job.ino /\ mem'.vnodes[v].name = job.name
            /\ mem'.vnodes[v].inode = disk.itab[job.ino]
        BY <2>5
      <3> HIDE DEF n
      <3>4. QED
        BY <2>4, <2>5, <3>1, <3>2, <3>3, Zenon DEF Opened
    <2>7. Ext2Types'
      BY <1>1, <1>2, <1>3, <1>4, <1>5, <1>7, <2>3 DEF Ext2Types
    <2>8. QED
      BY <1>3, <1>4, <2>3, <2>4, <2>6, <2>7
  <1>8. QED
    BY <1>6, <1>7

(* A vnode is closed; the disk is not told. *)
LEMMA CloseDoes ==
    ASSUME Ext2Inv, NEW v \in Vnode, vfs_close(v)
    PROVE  /\ disk' = disk /\ failed' = failed /\ SameFiles /\ job' = job
           /\ job.pc = "idle"
           /\ mem'.root = mem.root /\ mem'.fb = mem.fb /\ mem'.fi = mem.fi
           /\ mem'.vnodes[v].ino = 0
           /\ \A w \in Vnode : w # v => mem'.vnodes[w] = mem.vnodes[w]
           /\ Ext2Types'
  <1>1. Ext2Types
    BY DEF Ext2Inv
  <1>2. /\ disk' = disk /\ failed' = failed /\ SameFiles /\ job' = job /\ job.pc = "idle"
        /\ mem' = [mem EXCEPT !.vnodes[v] = NoVnode]
    BY DEF vfs_close, At, SameFiles, histVars
  <1>3. /\ mem'.vnodes = [mem.vnodes EXCEPT ![v] = NoVnode] /\ mem' \in MemSet
        /\ mem'.root = mem.root /\ mem'.fb = mem.fb /\ mem'.fi = mem.fi
    BY <1>1, <1>2, NewTypes DEF Ext2Types, MemSet
  <1>4. NoVnode.ino = 0
    BY DEF NoVnode
  <1>5. mem'.vnodes[v].ino = 0 /\ \A w \in Vnode : w # v => mem'.vnodes[w] = mem.vnodes[w]
    BY <1>1, <1>3, <1>4, Parts
  <1>6. QED
    BY <1>1, <1>2, <1>3, <1>5 DEF Ext2Types, SameFiles

(* What is left after a power cut is what the disk has. *)
LEMMA PowerCutDoes ==
    ASSUME Ext2Inv, PowerCut
    PROVE  /\ disk' = disk /\ failed' = failed /\ SameFiles /\ job' = NoJob
           /\ mem'.root = disk.itab[0] /\ mem'.fb = disk.fb /\ mem'.fi = disk.fi
           /\ \A v \in Vnode : mem'.vnodes[v].ino = 0
           /\ Ext2Types'
  <1>1. Ext2Types
    BY DEF Ext2Inv
  <1>2. /\ disk' = disk /\ failed' = failed /\ SameFiles /\ job' = NoJob
        /\ mem' = [fb |-> disk.fb, fi |-> disk.fi, root |-> disk.itab[0],
                   vnodes |-> [v \in Vnode |-> NoVnode]]
    BY DEF PowerCut, SameFiles, histVars, Mounted
  <1>3. disk.itab[0] \in InodeSet /\ disk.fb \in Int /\ disk.fi \in Int
    BY <1>1, Parts, Numbers
  <1>4. mem' \in MemSet
    BY <1>2, <1>3, NewTypes DEF MemSet
  <1>5. NoVnode.ino = 0
    BY DEF NoVnode
  <1>6. Ext2Types'
    BY <1>1, <1>2, <1>4, NewTypes DEF Ext2Types, SameFiles
  <1>7. QED
    BY <1>2, <1>5, <1>6

-----------------------------------------------------------------------------
(* The steps of a call that change neither the disk nor what the driver    *)
(* keeps: only where the call is.                                          *)
Quiet == disk' = disk /\ mem' = mem /\ SameFiles /\ failed \subseteq failed'

(* Such a step changes nothing the invariant says of the volume. *)
LEMMA QuietKeeps ==
    ASSUME Quiet
    PROVE  Frame /\ (Counts => Counts')
           /\ (Ext2Types /\ job' \in JobSet => Ext2Types')
  BY CountsKept DEF Quiet, Frame, SameFiles, Ext2Types

(* Between calls the root in memory is the one on the disk. *)
RootSynced == WritesSound => mem.root.size = disk.itab[0].size

(* A call that has ended leaves nothing to say. *)
LEMMA NoJobFits == ASSUME job' = NoJob, RootSynced' PROVE JobFits' /\ job' \in JobSet
  <1>1. job'.pc = "idle"
    BY DEF NoJob
  <1>2. AllocFits' /\ MarkFits' /\ GotFits'
    BY <1>1 DEF AllocFits, Allocating, AllocPcs, MarkFits, GotFits
  <1>3. NewFileFits'
    BY <1>1 DEF NewFileFits, NewFile, NewPcs, Allocating, AllocPcs, For
  <1>4. OpenFits'
    BY <1>1 DEF OpenFits, RootSynced
  <1>5. WriteFits'
    BY <1>1 DEF WriteFits, Writing, WritePcs, Allocating, AllocPcs, For
  <1>6. QED
    BY <1>2, <1>3, <1>4, <1>5, NewTypes DEF JobFits

(* The directory in memory and on the disk agree when the call is not      *)
(* about to write it.                                                      *)
LEMMA RootStays ==
    ASSUME Ext2Inv, job.pc # "root", Frame
    PROVE  RootSynced'
  BY SoundBefore DEF Ext2Inv, JobFits, OpenFits, RootSynced, Frame

(* What is new or unused remains so while bits are set. *)
LEMMA NewStays ==
    ASSUME Frame
    PROVE  /\ BlockIsNew /\ job'.b = job.b => BlockIsNew'
           /\ \A i : UnusedInode(i) => UnusedInode(i)'
  <1>1. /\ BitmapsSound' => BitmapsSound
        /\ PointersSound' => PointersSound
        /\ InodesSound' => InodesSound
    BY SoundBefore DEF Frame
  <1>2. BlockIsNew /\ job'.b = job.b => BlockIsNew'
    BY <1>1, FrameSame DEF BlockIsNew, Frame
  <1>3. \A i : UnusedInode(i) => UnusedInode(i)'
    BY <1>1, FrameSame DEF UnusedInode, Frame
  <1>4. QED
    BY <1>2, <1>3

(* vfs_open starts with a lookup. *)
LEMMA OpenStep ==
    ASSUME Ext2Inv, NEW n \in Names, vfs_open(n)
    PROVE  Quiet /\ job' \in JobSet /\ JobFits'
  <1>1. Quiet /\ job.pc = "idle" /\ job' = [NoJob EXCEPT !.pc = "lookup", !.name = n]
    BY DEF vfs_open, Quiet, SameFiles, histVars, At
  <1>2. /\ job'.pc = "lookup" /\ job'.name = n /\ job'.lb = 0 /\ job' \in JobSet
    BY <1>1, NewTypes DEF NoJob, JobSet, Name0
  <1>3. RootSynced' /\ mem' = mem
    BY <1>1, RootStays, QuietKeeps DEF Quiet
  <1>4. mem.root.size \in 1..DirectPtrs
    BY DEF Ext2Inv, Roots
  <1>5. AllocFits' /\ MarkFits' /\ GotFits'
    BY <1>2 DEF AllocFits, Allocating, AllocPcs, MarkFits, GotFits
  <1>6. NewFileFits'
    BY <1>2, <1>3, <1>4, Numbers DEF NewFileFits, NewFile, NewPcs, Allocating, AllocPcs, For
  <1>7. OpenFits'
    BY <1>2, <1>3 DEF OpenFits, RootSynced
  <1>8. WriteFits'
    BY <1>2 DEF WriteFits, Writing, WritePcs, Allocating, AllocPcs, For
  <1>9. QED
    BY <1>1, <1>2, <1>5, <1>6, <1>7, <1>8 DEF JobFits

(* vfs_write starts with the block it finds in the inode copy, or with an  *)
(* allocation.                                                             *)
LEMMA WriteStep ==
    ASSUME Ext2Inv, NEW v \in Vnode, NEW lb \in Logical, NEW part \in SUBSET Part,
           vfs_write(v, lb, part)
    PROVE  Quiet /\ job' \in JobSet /\ JobFits'
  <1> DEFINE n == mem.vnodes[v]
             j == [NoJob EXCEPT !.v = v, !.lb = lb, !.ino = n.ino, !.name = n.name,
                                !.part = part]
  <1>1. Quiet /\ job.pc = "idle" /\ n.ino # 0 /\ job' = SetFileBlock(j, n.inode)
    BY DEF vfs_write, Quiet, SameFiles, histVars, At
  <1>2. n \in VnodeSet
    BY Parts DEF Ext2Inv
  <1>3. /\ j \in JobSet /\ j.v = v /\ j.lb = lb /\ j.ino = n.ino /\ j.name = n.name
    <2>1. lb \in Nat
      BY Numbers
    <2>2. QED
      BY <1>2, <2>1, NewTypes DEF JobSet, VnodeSet
  <1>4. (lb = 0 /\ 0 < DirectPtrs) \/ (lb = DirectPtrs /\ ~(DirectPtrs < DirectPtrs))
    BY Numbers
  <1> HIDE DEF j
  <1>5. \/ /\ lb = 0 /\ n.inode.direct[0] # 0
           /\ job' = [j EXCEPT !.pc = "data", !.b = n.inode.direct[0]]
        \/ /\ lb = 0 /\ n.inode.direct[0] = 0
           /\ job' = [j EXCEPT !.pc = "alloc", !.what = "block", !.to = "data"]
        \/ /\ lb = DirectPtrs /\ n.inode.ind # 0
           /\ job' = [j EXCEPT !.pc = "pointers"]
        \/ /\ lb = DirectPtrs /\ n.inode.ind = 0
           /\ job' = [j EXCEPT !.pc = "alloc", !.what = "block", !.to = "zero"]
    BY <1>1, <1>3, <1>4 DEF SetFileBlock
  <1>6. n.inode.direct[0] # 0 => n.inode.direct[0] \in Block
    BY <1>2, Numbers DEF VnodeSet, InodeSet, Ptr0
  <1>7. /\ job' \in JobSet /\ job'.v = v /\ job'.lb = lb /\ job'.ino = n.ino
        /\ job'.name = n.name
        /\ \/ /\ lb = 0 /\ n.inode.direct[0] # 0
              /\ job'.pc = "data" /\ job'.b = n.inode.direct[0]
           \/ /\ lb = 0 /\ n.inode.direct[0] = 0
              /\ job'.pc = "alloc" /\ job'.what = "block" /\ job'.to = "data"
           \/ lb = DirectPtrs /\ n.inode.ind # 0 /\ job'.pc = "pointers"
           \/ /\ lb = DirectPtrs /\ n.inode.ind = 0
              /\ job'.pc = "alloc" /\ job'.what = "block" /\ job'.to = "zero"
    <2> HIDE DEF n
    <2>1. n.inode.direct[0] # 0 => n.inode.direct[0] \in Nat
      BY <1>6, Numbers
    <2>2. QED
      BY <1>3, <1>5, <2>1 DEF JobSet, AllocPcs, WritePcs
  <1>8. RootSynced' /\ mem' = mem /\ Copy' = n.inode
    BY <1>1, <1>7, RootStays, QuietKeeps DEF Quiet, Copy
  <1>9. job'.pc \in {"data", "alloc", "pointers"}
    BY <1>7
  <1>10. AllocFits' /\ MarkFits' /\ GotFits'
    BY <1>7, <1>9 DEF AllocFits, Allocating, AllocPcs, MarkFits, GotFits
  <1>11. NewFileFits'
    BY <1>7, <1>9 DEF NewFileFits, NewFile, NewPcs, Allocating, AllocPcs, For
  <1>12. OpenFits'
    BY <1>8, <1>9 DEF OpenFits, RootSynced
  <1>13. WriteFits'
    <2> HIDE DEF n
    <2>1. mem'.vnodes[job'.v] = n
      BY <1>7, <1>8 DEF n
    <2>2. DirectPtrs # 0
      BY Numbers
    <2>3. QED
      BY <1>1, <1>4, <1>6, <1>7, <1>8, <2>1, <2>2
         DEF WriteFits, Writing, WritePcs, Allocating, AllocPcs, For
  <1>14. QED
    BY <1>1, <1>7, <1>10, <1>11, <1>12, <1>13 DEF JobFits

-----------------------------------------------------------------------------
(* The steps of alloc_block and alloc_inode. *)
LEMMA ReadBitmapStep ==
    ASSUME Ext2Inv, ReadBitmap
    PROVE  Quiet /\ job' \in JobSet /\ JobFits'
  <1>1. /\ job.pc = "alloc" /\ Quiet
        /\ job' = NoJob \/ (Clear # {} /\ job' = [job EXCEPT !.pc = "mark", !.b = Min(Clear)])
    <2>1. CASE Left = 0
      BY <2>1 DEF ReadBitmap, At, Quiet, SameFiles, Finish
    <2>2. CASE Left # 0
      <3>1. PICK ok \in BOOLEAN :
               /\ Io("other", ok, disk)
               /\ job' = IF ok /\ Clear # {}
                         THEN [job EXCEPT !.pc = "mark", !.b = Min(Clear)]
                         ELSE NoJob
        BY <2>2 DEF ReadBitmap
      <3>2. disk' = disk /\ failed \subseteq failed'
        BY <3>1, ReadDoes
      <3>3. QED
        BY <3>1, <3>2 DEF ReadBitmap, At, Quiet, SameFiles
    <2>3. QED
      BY <2>1, <2>2
  <1>2. RootSynced' /\ Frame /\ Ext2Types /\ JobFits
    BY <1>1, RootStays, QuietKeeps DEF Ext2Inv
  <1>3. CASE job' = NoJob
    BY <1>1, <1>2, <1>3, NoJobFits
  <1>4. CASE Clear # {} /\ job' = [job EXCEPT !.pc = "mark", !.b = Min(Clear)]
    <2>1. Clear \subseteq Nat
      BY Numbers DEF Clear
    <2>2. Min(Clear) \in Clear /\ Min(Clear) \in Nat
      BY <1>4, <2>1, MinIn
    <2>3. /\ job' \in JobSet /\ job'.pc = "mark" /\ job'.b \in Clear
          /\ job'.name = job.name /\ job'.what = job.what /\ job'.to = job.to
          /\ job'.v = job.v /\ job'.ino = job.ino /\ job'.lb = job.lb
      BY <1>2, <1>4, <2>2 DEF Ext2Types, JobSet, AllocPcs
    <2>4. AllocFits'
      BY <1>1, <1>2, <2>3 DEF JobFits, AllocFits, Allocating, AllocPcs
    <2>5. MarkFits'
      BY <1>1, <2>3 DEF MarkFits, Clear, Quiet
    <2>6. GotFits'
      BY <2>3 DEF GotFits
    <2>7. NewFileFits'
      BY <1>1, <1>2, <2>3, FrameSame, NewStays, SoundBefore
         DEF JobFits, NewFileFits, NewFile, NewPcs, Allocating, AllocPcs, For, Quiet
    <2>8. OpenFits'
      BY <1>2, <2>3 DEF OpenFits, RootSynced
    <2>9. WriteFits'
      BY <1>1, <1>2, <2>3, SoundBefore
         DEF JobFits, WriteFits, Writing, WritePcs, Allocating, AllocPcs, For, Quiet, Copy
    <2>10. QED
      BY <1>1, <2>3, <2>4, <2>5, <2>6, <2>7, <2>8, <2>9 DEF JobFits
  <1>5. QED
    BY <1>1, <1>3, <1>4

(* What was asked for is marked now, and belongs to nothing yet. *)
LEMMA WriteBitmapDoes ==
    ASSUME Ext2Inv, WriteBitmap
    PROVE  /\ Frame
           /\ job.pc = "mark" /\ job' = [job EXCEPT !.pc = "super"]
           /\ disk'.fb = disk.fb /\ disk'.fi = disk.fi
           /\ IF job.what = "block"
              THEN /\ disk'.ibm = disk.ibm
                   /\ disk'.bbm = disk.bbm \/ disk'.bbm = disk.bbm \cup {job.b}
                   /\ BitmapsSound' => disk'.bbm = disk.bbm \cup {job.b}
                   /\ mem'.fb = mem.fb - 1 /\ mem'.fi = mem.fi
              ELSE /\ disk'.bbm = disk.bbm
                   /\ disk'.ibm = disk.ibm \/ disk'.ibm = disk.ibm \cup {job.b}
                   /\ BitmapsSound' => disk'.ibm = disk.ibm \cup {job.b}
                   /\ mem'.fi = mem.fi - 1 /\ mem'.fb = mem.fb
           /\ Ext2Types'
  <1>1. Ext2Types /\ JobFits
    BY DEF Ext2Inv
  <1>2. /\ job.pc = "mark" /\ job' = [job EXCEPT !.pc = "super"] /\ mem' = Counted
        /\ SameFiles
    BY DEF WriteBitmap, At, Goto, SameFiles
  <1>3. PICK ok \in BOOLEAN : Io("bitmap write", ok, Marked)
    BY DEF WriteBitmap
  <1>4. /\ disk' \in {disk, Marked} /\ (BitmapsSound' => disk' = Marked)
        /\ failed \subseteq failed'
    BY <1>3, IoDoes DEF BitmapsSound
  <1>5. job' \in JobSet
    BY <1>1, <1>2, JobAt DEF AllocPcs
  <1>6. CASE job.what = "block"
    <2>1. job.b \in Block
      BY <1>1, <1>2, <1>6 DEF JobFits, MarkFits
    <2>2. /\ Marked = [disk EXCEPT !.bbm = disk.bbm \cup {job.b}]
          /\ Counted = [mem EXCEPT !.fb = mem.fb - 1]
      BY <1>6 DEF Marked, Counted
    <2>3. /\ Marked \in DiskSet /\ Marked.itab = disk.itab /\ Marked.blk = disk.blk
          /\ Marked.bbm = disk.bbm \cup {job.b} /\ Marked.ibm = disk.ibm
          /\ Marked.fb = disk.fb /\ Marked.fi = disk.fi
      BY <1>1, <2>1, <2>2 DEF Ext2Types, DiskSet
    <2>4. /\ Counted \in MemSet /\ Counted.root = mem.root /\ Counted.vnodes = mem.vnodes
          /\ Counted.fb = mem.fb - 1 /\ Counted.fi = mem.fi
      BY <1>1, <2>2 DEF Ext2Types, MemSet
    <2>5. Ext2Types' /\ Frame
      BY <1>1, <1>2, <1>4, <1>5, <2>3, <2>4 DEF Ext2Types, Frame, SameFiles
    <2>6. QED
      BY <1>2, <1>4, <1>6, <2>3, <2>4, <2>5
  <1>7. CASE job.what # "block"
    <2>1. job.b \in Inode
      BY <1>1, <1>2, <1>7 DEF JobFits, MarkFits
    <2>2. /\ Marked = [disk EXCEPT !.ibm = disk.ibm \cup {job.b}]
          /\ Counted = [mem EXCEPT !.fi = mem.fi - 1]
      BY <1>7 DEF Marked, Counted
    <2>3. /\ Marked \in DiskSet /\ Marked.itab = disk.itab /\ Marked.blk = disk.blk
          /\ Marked.ibm = disk.ibm \cup {job.b} /\ Marked.bbm = disk.bbm
          /\ Marked.fb = disk.fb /\ Marked.fi = disk.fi
      BY <1>1, <2>1, <2>2 DEF Ext2Types, DiskSet
    <2>4. /\ Counted \in MemSet /\ Counted.root = mem.root /\ Counted.vnodes = mem.vnodes
          /\ Counted.fi = mem.fi - 1 /\ Counted.fb = mem.fb
      BY <1>1, <2>2 DEF Ext2Types, MemSet
    <2>5. Ext2Types' /\ Frame
      BY <1>1, <1>2, <1>4, <1>5, <2>3, <2>4 DEF Ext2Types, Frame, SameFiles
    <2>6. QED
      BY <1>2, <1>4, <1>7, <2>3, <2>4, <2>5
  <1>8. QED
    BY <1>6, <1>7

(* After the bit is set the call has something that is nobody's. *)
LEMMA WriteBitmapFits == ASSUME Ext2Inv, WriteBitmap PROVE JobFits'
  <1>1. /\ Ext2Types /\ JobFits /\ Frame /\ job.pc = "mark"
        /\ job' = [job EXCEPT !.pc = "super"]
    BY WriteBitmapDoes DEF Ext2Inv
  <1>2. /\ job'.pc = "super" /\ job'.b = job.b
        /\ job'.name = job.name /\ job'.what = job.what /\ job'.to = job.to
        /\ job'.v = job.v /\ job'.ino = job.ino /\ job'.lb = job.lb
    BY <1>1, JobAt DEF AllocPcs
  <1>3. RootSynced' /\ (PointersSound' => PointersSound /\ BitmapsSound')
        /\ (BitmapsSound' => BitmapsSound) /\ (InodesSound' => InodesSound /\ BitmapsSound')
        /\ (ReadsSound' => ReadsSound)
    BY <1>1, RootStays, SoundBefore DEF Frame
  <1>4. AllocFits' /\ MarkFits'
    BY <1>1, <1>2 DEF JobFits, AllocFits, Allocating, AllocPcs, MarkFits
  <1>5. ASSUME job.what = "block" PROVE GotFits'
    <2>1. job.b \in Block \ disk.bbm
      BY <1>1, <1>5 DEF JobFits, MarkFits
    <2>2. BitmapsSound' => job.b \in disk'.bbm
      BY <1>5, WriteBitmapDoes
    <2>3. BitmapsSound' => \A k \in Direct : mem.root.direct[k] # job.b
      BY <1>3, <2>1, Numbers DEF Ext2Inv, Roots, RootOwns
    <2>4. PointersSound' => \A i \in Inode, k \in PointerNo : ~Ref(i, k, job.b)
      BY <1>3, <2>1 DEF Ext2Inv, Owned
    <2>5. BlockIsNew'
      BY <1>1, <1>2, <2>1, <2>2, <2>3, <2>4, FrameSame DEF BlockIsNew, Frame
    <2>6. QED
      BY <1>2, <1>5, <2>5 DEF GotFits
  <1>6. ASSUME job.what # "block" PROVE GotFits'
    <2>1. job.b \in Inode \ disk.ibm /\ 0 \in disk.ibm
      BY <1>1, <1>6 DEF JobFits, MarkFits, Ext2Inv, Counts
    <2>2. BitmapsSound' => job.b \in disk'.ibm
      BY <1>6, WriteBitmapDoes
    <2>3. InodesSound' => \A k \in MemUsed : EntryAt(k).ino # job.b
      BY <1>3, <2>1 DEF Ext2Inv, Entered
    <2>4. PICK i \in Inode : i = job.b
      BY <2>1
    <2>5. UnusedInode(i)'
      BY <1>1, <2>1, <2>2, <2>3, <2>4, FrameSame DEF UnusedInode
    <2>6. QED
      BY <1>2, <1>6, <2>4, <2>5 DEF GotFits
  <1>7. GotFits'
    BY <1>5, <1>6
  <1>8. NewFileFits'
    BY <1>1, <1>2, <1>3, FrameSame, NewStays
       DEF JobFits, NewFileFits, NewFile, NewPcs, Allocating, AllocPcs, For, Frame
  <1>9. OpenFits'
    BY <1>2, <1>3 DEF OpenFits, RootSynced
  <1>10. WriteFits'
    BY <1>1, <1>2, <1>3
       DEF JobFits, WriteFits, Writing, WritePcs, Allocating, AllocPcs, For, Frame, Copy
  <1>11. QED
    BY <1>4, <1>7, <1>8, <1>9, <1>10 DEF JobFits

(* The allocation is over: the call goes on where it was to. *)
LEMMA AllocDone ==
    ASSUME Ext2Inv, job.pc \in {"super", "group"}, Frame,
           NEW p \in {"group", job.to}, job' = [job EXCEPT !.pc = p]
    PROVE  job' \in JobSet /\ JobFits'
  <1>1. Ext2Types /\ JobFits
    BY DEF Ext2Inv
  <1>2. \/ job.what = "inode" /\ job.to = "fill"
        \/ job.what = "block" /\ job.to \in {"grown", "data", "zero", "pointer"}
    BY <1>1 DEF JobFits, AllocFits, Allocating, AllocPcs
  <1>3. /\ job' \in JobSet /\ job'.pc = p /\ job'.b = job.b
        /\ job'.name = job.name /\ job'.what = job.what /\ job'.to = job.to
        /\ job'.v = job.v /\ job'.ino = job.ino /\ job'.lb = job.lb
    BY <1>1, <1>2, JobAt DEF AllocPcs, NewPcs, WritePcs
  <1>4. RootSynced' /\ (PointersSound' => PointersSound) /\ (BitmapsSound' => BitmapsSound)
        /\ (InodesSound' => InodesSound) /\ (ReadsSound' => ReadsSound)
    BY RootStays, SoundBefore DEF Frame
  <1>5. AllocFits' /\ MarkFits'
    BY <1>2, <1>3 DEF AllocFits, Allocating, AllocPcs, MarkFits
  <1>6. GotFits'
    <2>1. /\ job.what = "block" => BlockIsNew
          /\ job.what # "block" => UnusedInode(job.b)
      BY <1>1 DEF JobFits, GotFits
    <2>2. job.what = "block" => BlockIsNew'
      BY <1>3, <2>1, NewStays
    <2>3. CASE job.what = "block"
      BY <1>2, <1>3, <2>2, <2>3 DEF GotFits
    <2>4. CASE job.what # "block"
      <3>1. PICK i \in Inode : i = job.b
        BY <2>1, <2>4 DEF UnusedInode
      <3>2. UnusedInode(i)'
        BY <2>1, <2>4, <3>1, NewStays
      <3>3. QED
        BY <1>2, <1>3, <2>4, <3>1, <3>2 DEF GotFits
    <2>5. QED
      BY <2>3, <2>4
  <1>7. /\ NewFile' => NewFile /\ (For("grown")' => For("grown"))
        /\ job'.pc \notin {"scan", "enter", "lookup", "root", "vnode"}
    BY <1>2, <1>3 DEF NewFile, NewPcs, Allocating, AllocPcs, For
  <1>8. NewFileFits'
    <2>1. NewFile' => /\ job'.name \in Names
                      /\ ReadsSound' => \A k \in MemUsed' : EntryAt(k)'.name # job'.name
      BY <1>1, <1>3, <1>4, <1>7, FrameSame DEF JobFits, NewFileFits
    <2>2. For("grown")' => For("grown")
      BY <1>2, <1>3 DEF Allocating, AllocPcs, For
    <2>3. For("grown")' => /\ UnusedInode(job.ino)
                           /\ InodesSound => disk.itab[job.ino].live
                           /\ mem.root.size < DirectPtrs
      BY <1>1, <2>2 DEF JobFits, NewFileFits
    <2>4. PICK i \in Inode : i = job.ino
      BY <1>1 DEF Ext2Types, JobSet
    <2>5. For("grown")' => UnusedInode(i)'
      BY <2>3, <2>4, NewStays
    <2>6. job'.pc = "grown" => BlockIsNew'
      <3>1. job'.pc = "grown" => BlockIsNew
        BY <1>1, <1>2, <1>3 DEF JobFits, GotFits
      <3>2. QED
        BY <1>3, <3>1, NewStays
    <2>7. QED
      BY <1>3, <1>4, <1>7, <2>1, <2>3, <2>4, <2>5, <2>6 DEF NewFileFits, Frame
  <1>9. OpenFits'
    BY <1>4, <1>7 DEF OpenFits, RootSynced
  <1>10. WriteFits'
    <2>1. /\ Writing' => Writing
          /\ \A t \in {"zero", "pointer"} : For(t)' => For(t)
          /\ (Allocating /\ job.to = "data")' => Allocating /\ job.to = "data"
          /\ job'.pc = "data" => Allocating /\ job.to = "data" /\ job.what = "block"
          /\ job'.pc \notin {"pointers", "merged", "inode"}
      BY <1>2, <1>3 DEF Writing, WritePcs, Allocating, AllocPcs, For
    <2>2. Copy' = Copy /\ disk'.blk = disk.blk /\ mem'.vnodes = mem.vnodes
      BY <1>3 DEF Copy, Frame
    <2>3. job'.pc = "data" => BlockIsNew' /\ job'.b \in Block
      <3>1. job.what = "block" => BlockIsNew
        BY <1>1 DEF JobFits, GotFits
      <3>2. QED
        BY <1>3, <2>1, <3>1, NewStays DEF BlockIsNew
    <2>4. WriteFits
      BY <1>1 DEF JobFits
    <2>5. job'.pc = "data" => job.lb = 0 /\ Copy.direct[0] = 0
      BY <2>1, <2>4 DEF WriteFits
    <2>6. Writing' => /\ job.v \in Vnode
                      /\ mem.vnodes[job.v].ino = job.ino /\ job.ino # 0
                      /\ mem.vnodes[job.v].name = job.name
                      /\ job.lb \in Logical
      BY <2>1, <2>4 DEF WriteFits
    <2>7. For("zero")' => job.lb = DirectPtrs /\ Copy.ind = 0
      BY <2>1, <2>4 DEF WriteFits
    <2>8. For("pointer")' => /\ job.lb = DirectPtrs /\ Copy.ind # 0
                             /\ PointersSound => disk.blk[Copy.ind].ptr = 0
      BY <2>1, <2>4 DEF WriteFits
    <2>9. (Allocating /\ job.to = "data")' => job.lb = 0 /\ Copy.direct[0] = 0
      BY <2>1, <2>4 DEF WriteFits
    <2>10. QED
      BY <1>3, <1>4, <2>1, <2>2, <2>3, <2>5, <2>6, <2>7, <2>8, <2>9 DEF WriteFits
  <1>11. QED
    BY <1>3, <1>5, <1>6, <1>8, <1>9, <1>10 DEF JobFits

(* sync_metadata, the superblock: nothing that counts. *)
LEMMA SyncSuperStep ==
    ASSUME Ext2Inv, SyncSuper
    PROVE  Quiet /\ job' \in JobSet /\ JobFits'
  <1>1. PICK ok \in BOOLEAN : /\ Io("other", ok, disk)
                              /\ Goto("group") \/ (~ok /\ Goto(job.to))
    BY DEF SyncSuper
  <1>2. disk' = disk /\ failed \subseteq failed'
    BY <1>1, ReadDoes
  <1>3. Quiet /\ job.pc = "super"
    BY <1>2 DEF SyncSuper, At, Quiet, SameFiles
  <1>4. Frame
    BY <1>3, QuietKeeps
  <1>5. CASE job' = [job EXCEPT !.pc = "group"]
    BY <1>3, <1>4, <1>5, AllocDone
  <1>6. CASE job' = [job EXCEPT !.pc = job.to]
    <2>1. PICK p : p = job.to
      OBVIOUS
    <2>2. p \in {"group", job.to} /\ job' = [job EXCEPT !.pc = p]
      BY <1>6, <2>1
    <2>3. QED
      BY <1>3, <1>4, <2>2, AllocDone
  <1>7. QED
    BY <1>1, <1>5, <1>6 DEF Goto

(* The counts on the disk become those in memory. *)
LEMMA SyncGroupDoes ==
    ASSUME Ext2Inv, SyncGroup
    PROVE  /\ Frame
           /\ disk'.bbm = disk.bbm /\ disk'.ibm = disk.ibm
           /\ \/ disk'.fb = disk.fb /\ disk'.fi = disk.fi
              \/ disk'.fb = mem.fb /\ disk'.fi = mem.fi
           /\ mem'.fb = mem.fb /\ mem'.fi = mem.fi
           /\ Ext2Types' /\ JobFits'
  <1> DEFINE after == [disk EXCEPT !.fb = mem.fb, !.fi = mem.fi]
  <1>1. PICK ok \in BOOLEAN : Io("other", ok, after)
    BY DEF SyncGroup
  <1>2. disk' \in {disk, after} /\ failed \subseteq failed'
    BY <1>1, IoDoes
  <1>3. Ext2Types
    BY DEF Ext2Inv
  <1>4. /\ after.bbm = disk.bbm /\ after.ibm = disk.ibm /\ after.itab = disk.itab
        /\ after.blk = disk.blk /\ after.fb = mem.fb /\ after.fi = mem.fi
        /\ after \in DiskSet
    BY <1>3, Parts DEF Ext2Types, DiskSet
  <1> HIDE DEF after
  <1>5. Frame /\ mem' = mem /\ job.pc = "group" /\ job' = [job EXCEPT !.pc = job.to]
    BY <1>2, <1>4 DEF SyncGroup, At, Goto, Frame
  <1>6. job' \in JobSet /\ JobFits'
    <2>1. PICK p : p = job.to
      OBVIOUS
    <2>2. p \in {"group", job.to} /\ job' = [job EXCEPT !.pc = p]
      BY <1>5, <2>1
    <2>3. QED
      BY <1>5, <2>2, AllocDone
  <1>7. Ext2Types'
    BY <1>2, <1>3, <1>4, <1>5, <1>6 DEF Ext2Types, SyncGroup
  <1>8. QED
    BY <1>2, <1>4, <1>5, <1>6, <1>7

-----------------------------------------------------------------------------
(* The steps that look through the directory, and read pointers. *)

(* A name that is not there, or not to be seen, is made. *)
LEMMA CreateFits ==
    ASSUME Ext2Inv, Quiet, job' = Create, job.pc # "root",
           job.name \in Names,
           ReadsSound' => \A k \in MemUsed : EntryAt(k).name # job.name
    PROVE  job' \in JobSet /\ JobFits'
  <1>1. Ext2Types /\ Frame /\ RootSynced'
    BY RootStays, QuietKeeps DEF Ext2Inv
  <1>2. job' = [job EXCEPT !.pc = "alloc", !.what = "inode", !.to = "fill"]
    BY DEF Create, Allocate
  <1>3. /\ job' \in JobSet /\ job'.pc = "alloc" /\ job'.what = "inode" /\ job'.to = "fill"
        /\ job'.name = job.name
    BY <1>1, <1>2 DEF Ext2Types, JobSet, AllocPcs
  <1>4. AllocFits' /\ MarkFits' /\ GotFits'
    BY <1>3 DEF AllocFits, MarkFits, GotFits
  <1>5. NewFileFits'
    BY <1>1, <1>3, FrameSame DEF NewFileFits, For, Allocating
  <1>6. OpenFits' /\ WriteFits'
    BY <1>1, <1>3
       DEF OpenFits, RootSynced, WriteFits, Writing, WritePcs, Allocating, For
  <1>7. QED
    BY <1>3, <1>4, <1>5, <1>6 DEF JobFits

(* The lookup has found the file or creates it, and then the name is not   *)
(* in the directory, unless a read has failed.                             *)
LEMMA LookupStep ==
    ASSUME Ext2Inv, ext2_vfs_lookup
    PROVE  Quiet /\ job' \in JobSet /\ JobFits'
  <1>1. PICK ok \in BOOLEAN :
          /\ Io("directory read", ok, disk)
          /\ job' = IF ~ok THEN Create
                    ELSE IF job.lb + 1 < mem.root.size THEN [job EXCEPT !.lb = @ + 1]
                    ELSE IF Found(job.name) = {} THEN Create
                    ELSE [job EXCEPT !.pc = "vnode",
                                     !.ino = EntryAt(Min(Found(job.name))).ino]
    BY DEF ext2_vfs_lookup
  <1>2. disk' = disk /\ failed \subseteq failed' /\ (~ok => "directory read" \in failed')
    BY <1>1 DEF Io
  <1>3. Quiet /\ job.pc = "lookup"
    BY <1>2 DEF ext2_vfs_lookup, At, Quiet, SameFiles
  <1>4. Frame /\ RootSynced' /\ Ext2Types /\ JobFits /\ Roots /\ Entered
    BY <1>3, QuietKeeps, RootStays DEF Ext2Inv
  <1>5. job.name \in Names /\ job.name # "" /\ job.lb \in Nat
    BY <1>3, <1>4, NoName DEF JobFits, OpenFits, Ext2Types, JobSet
  <1>6. CASE ~ok
    <2>1. job' = Create /\ ~ReadsSound'
      BY <1>1, <1>2, <1>6 DEF ReadsSound
    <2>2. QED
      BY <1>3, <1>5, <2>1, CreateFits
  <1>7. CASE ok /\ job.lb + 1 < mem.root.size
    <2>1. job' = [job EXCEPT !.lb = job.lb + 1]
      BY <1>1, <1>7
    <2>2. /\ job' \in JobSet /\ job'.pc = "lookup" /\ job'.name = job.name
          /\ job'.lb = job.lb + 1
      <3>1. job.lb \in Nat
        BY <1>4 DEF Ext2Types, JobSet
      <3>2. job.lb + 1 \in Nat
        BY <3>1
      <3>3. QED
        BY <1>3, <1>4, <2>1, <3>2 DEF Ext2Types, JobSet
    <2>3. AllocFits' /\ MarkFits' /\ GotFits'
      BY <2>2 DEF AllocFits, Allocating, AllocPcs, MarkFits, GotFits
    <2>4. NewFileFits'
      BY <1>3, <1>7, <2>2 DEF NewFileFits, NewFile, NewPcs, Allocating, AllocPcs, For, Quiet
    <2>5. OpenFits' /\ WriteFits'
      BY <1>4, <1>5, <2>2
         DEF OpenFits, RootSynced, WriteFits, Writing, WritePcs, Allocating, AllocPcs, For
    <2>6. QED
      BY <1>3, <2>2, <2>3, <2>4, <2>5 DEF JobFits
  <1>8. CASE ok /\ ~(job.lb + 1 < mem.root.size) /\ Found(job.name) = {}
    <2>1. job' = Create
      BY <1>1, <1>8
    <2>2. \A k \in MemUsed : EntryAt(k).name # job.name
      BY <1>8 DEF Found, MemUsed
    <2>3. QED
      BY <1>3, <1>5, <2>1, <2>2, CreateFits
  <1>9. CASE ok /\ ~(job.lb + 1 < mem.root.size) /\ Found(job.name) # {}
    <2> DEFINE m == Min(Found(job.name))
    <2>1. job' = [job EXCEPT !.pc = "vnode", !.ino = EntryAt(m).ino]
      BY <1>1, <1>9
    <2>2. Found(job.name) \subseteq Nat /\ mem.root.size \in 1..DirectPtrs
      BY <1>4, Numbers DEF Found, Roots
    <2>3. m \in Found(job.name)
      BY <1>9, <2>2, MinIn
    <2>4. m \in 0..(mem.root.size - 1) /\ EntryAt(m).name = job.name
      BY <2>3 DEF Found
    <2> HIDE DEF m
    <2>5. mem.root.direct[m] \in Block
      <3>1. m \in Direct
        BY <2>2, <2>4, Numbers DEF Direct
      <3>2. mem.root.direct \in [Direct -> Ptr0] /\ mem.root.direct[m] # 0
        BY <1>4, <2>4, Parts DEF Roots, InodeSet
      <3>3. QED
        BY <3>1, <3>2 DEF Ptr0
    <2>6. EntryAt(m) \in BlockSet
      BY <1>4, <2>5, Parts DEF EntryAt
    <2>7. EntryAt(m).ino # 0 /\ EntryAt(m).ino \in Inode
      BY <1>4, <1>5, <2>4, <2>5, <2>6 DEF Entered, EntryAt, BlockSet
    <2>8. m \in MemUsed
      BY <2>4, <2>7 DEF MemUsed
    <2>9. /\ job' \in JobSet /\ job'.pc = "vnode" /\ job'.name = job.name
          /\ job'.ino = EntryAt(m).ino
      BY <1>4, <2>1, <2>7 DEF Ext2Types, JobSet
    <2>10. InodesSound => disk.itab[EntryAt(m).ino].live
      BY <1>4, <2>8 DEF Entered
    <2>11. WritesSound' => Named(job.name, EntryAt(m).ino)
      <3>1. WritesSound' => mem.root.size = disk.itab[0].size
        BY <1>3, <1>4 DEF RootSynced, Quiet
      <3>2. WritesSound' => m \in RootBlocks
        BY <2>4, <3>1 DEF RootBlocks
      <3>3. WritesSound' => Entry(m) = EntryAt(m)
        BY <1>4, <3>2 DEF Roots, Entry, EntryAt
      <3>4. QED
        BY <2>4, <2>7, <3>2, <3>3 DEF Named, Used
    <2>12. AllocFits' /\ MarkFits' /\ GotFits'
      BY <2>9 DEF AllocFits, Allocating, AllocPcs, MarkFits, GotFits
    <2>13. NewFileFits'
      BY <2>9 DEF NewFileFits, NewFile, NewPcs, Allocating, AllocPcs, For
    <2>14. OpenFits'
      <3>1. InodesSound' => InodesSound
        BY <1>4, SoundBefore DEF Frame
      <3>2. PICK i : i = EntryAt(m).ino
        OBVIOUS
      <3>3. PICK n : n = job.name
        OBVIOUS
      <3>4. WritesSound' => Named(n, i)'
        BY <1>4, <2>11, <3>2, <3>3, FrameSame
      <3>5. QED
        BY <1>3, <1>4, <1>5, <2>7, <2>9, <2>10, <3>1, <3>2, <3>3, <3>4
           DEF OpenFits, RootSynced, Quiet
    <2>15. WriteFits'
      BY <2>9 DEF WriteFits, Writing, WritePcs, Allocating, AllocPcs, For
    <2>16. QED
      BY <1>3, <2>9, <2>12, <2>13, <2>14, <2>15 DEF JobFits
  <1>10. QED
    BY <1>6, <1>7, <1>8, <1>9

(* ext2_add_dirent finds room for the entry, or the directory grows. *)
LEMMA FindRoomStep ==
    ASSUME Ext2Inv, FindRoom
    PROVE  Quiet /\ job' \in JobSet /\ JobFits'
  <1>1. PICK ok \in BOOLEAN :
          /\ Io("directory read", ok, disk)
          /\ job' = IF ok /\ EntryAt(job.lb).ino = 0 THEN [job EXCEPT !.pc = "enter"]
                    ELSE IF job.lb + 1 < mem.root.size THEN [job EXCEPT !.lb = @ + 1]
                    ELSE GrowRoot
    BY DEF FindRoom
  <1>2. Quiet /\ job.pc = "scan"
    BY <1>1, ReadDoes DEF FindRoom, At, Quiet, SameFiles
  <1>3. Frame /\ RootSynced' /\ Ext2Types /\ JobFits /\ Roots
    BY <1>2, QuietKeeps, RootStays DEF Ext2Inv
  <1>4. /\ job.name \in Names
        /\ ReadsSound => \A k \in MemUsed : EntryAt(k).name # job.name
        /\ UnusedInode(job.ino)
        /\ InodesSound => disk.itab[job.ino].live
        /\ job.lb < mem.root.size /\ job.lb \in Nat
    BY <1>2, <1>3 DEF JobFits, NewFileFits, NewFile, NewPcs, Ext2Types, JobSet
  <1>5. mem.root.size \in 1..DirectPtrs
    BY <1>3 DEF Roots
  <1>6. \/ job' = NoJob
        \/ job' = [job EXCEPT !.pc = "enter"] /\ EntryAt(job.lb).ino = 0
        \/ job' = [job EXCEPT !.lb = job.lb + 1] /\ job.lb + 1 < mem.root.size
        \/ /\ mem.root.size < DirectPtrs /\ mem.root.direct[mem.root.size] \in Block
           /\ job' = [job EXCEPT !.pc = "grown", !.b = mem.root.direct[mem.root.size]]
        \/ /\ mem.root.size < DirectPtrs
           /\ job' = [job EXCEPT !.pc = "alloc", !.what = "block", !.to = "grown"]
    <2>1. CASE job' = GrowRoot
      <3>1. CASE mem.root.size = DirectPtrs
        BY <2>1, <3>1 DEF GrowRoot
      <3>2. CASE mem.root.size # DirectPtrs
        <4>1. mem.root.size < DirectPtrs /\ mem.root.size \in Direct
          BY <1>5, <3>2, Numbers DEF Direct
        <4>2. mem.root.direct \in [Direct -> Ptr0]
          BY <1>3, Parts DEF InodeSet
        <4>3. \/ /\ mem.root.direct[mem.root.size] # 0
                 /\ job' = [job EXCEPT !.pc = "grown", !.b = mem.root.direct[mem.root.size]]
              \/ job' = [job EXCEPT !.pc = "alloc", !.what = "block", !.to = "grown"]
          BY <2>1, <3>2 DEF GrowRoot, Allocate
        <4>4. QED
          BY <4>1, <4>2, <4>3 DEF Ptr0
      <3>3. QED
        BY <3>1, <3>2
    <2>2. QED
      BY <1>1, <2>1
  <1>7. CASE job' = NoJob
    BY <1>2, <1>3, <1>7, NoJobFits
  <1>8. ASSUME job' # NoJob
        PROVE  /\ job' \in JobSet /\ job'.name = job.name /\ job'.ino = job.ino
               /\ \/ job'.pc = "enter" /\ job'.lb = job.lb /\ EntryAt(job.lb).ino = 0
                  \/ job'.pc = "scan" /\ job'.lb = job.lb + 1 /\ job.lb + 1 < mem.root.size
                  \/ /\ job'.pc = "grown" /\ mem.root.size < DirectPtrs
                     /\ job'.b \in Block /\ job'.b = mem.root.direct[mem.root.size]
                  \/ /\ job'.pc = "alloc" /\ job'.what = "block" /\ job'.to = "grown"
                     /\ mem.root.size < DirectPtrs
    <2>1. job \in JobSet /\ job.lb + 1 \in Nat /\ job.pc = "scan"
      BY <1>2, <1>3, <1>4 DEF Ext2Types
    <2>2. CASE job' = [job EXCEPT !.pc = "enter"] /\ EntryAt(job.lb).ino = 0
      BY <2>1, <2>2 DEF JobSet, NewPcs
    <2>3. CASE job' = [job EXCEPT !.lb = job.lb + 1] /\ job.lb + 1 < mem.root.size
      BY <2>1, <2>3 DEF JobSet, NewPcs
    <2>4. CASE /\ mem.root.size < DirectPtrs /\ mem.root.direct[mem.root.size] \in Block
               /\ job' = [job EXCEPT !.pc = "grown", !.b = mem.root.direct[mem.root.size]]
      <3>1. mem.root.direct[mem.root.size] \in Nat
        BY <2>4, Numbers
      <3>2. QED
        BY <2>1, <2>4, <3>1 DEF JobSet, NewPcs
    <2>5. CASE /\ mem.root.size < DirectPtrs
               /\ job' = [job EXCEPT !.pc = "alloc", !.what = "block", !.to = "grown"]
      BY <2>1, <2>5 DEF JobSet, AllocPcs
    <2>6. QED
      BY <1>6, <1>8, <2>2, <2>3, <2>4, <2>5
  <1>9. ASSUME job' # NoJob PROVE JobFits'
    <2>1. job'.pc \in {"enter", "scan", "grown", "alloc"}
      BY <1>8, <1>9
    <2>2. AllocFits' /\ MarkFits' /\ GotFits'
      BY <1>8, <1>9 DEF AllocFits, Allocating, AllocPcs, MarkFits, GotFits
    <2>3. NewFileFits'
      <3>1. PICK i \in Inode : i = job.ino
        BY <1>4 DEF UnusedInode
      <3>2. UnusedInode(i)' /\ (InodesSound' => InodesSound) /\ (ReadsSound' => ReadsSound)
        BY <1>3, <1>4, <3>1, NewStays, SoundBefore DEF Frame
      <3>3. NewFile' => /\ job'.name \in Names
                        /\ ReadsSound' => \A k \in MemUsed' : EntryAt(k)'.name # job'.name
        BY <1>3, <1>4, <1>8, <1>9, <3>2, FrameSame
      <3>4. mem' = mem /\ disk' = disk
        BY <1>2 DEF Quiet
      <3>6. job'.pc = "enter" => disk'.blk[mem'.root.direct[job'.lb]].ino = 0
        BY <1>8, <1>9, <3>4 DEF EntryAt
      <3>7. QED
        BY <1>4, <1>8, <1>9, <3>1, <3>2, <3>3, <3>4, <3>6
           DEF NewFileFits, For, Allocating, AllocPcs, EntryAt
    <2>4. OpenFits' /\ WriteFits'
      BY <1>3, <1>8, <1>9, <2>1
         DEF OpenFits, RootSynced, WriteFits, Writing, WritePcs, Allocating, AllocPcs, For
    <2>5. QED
      BY <2>2, <2>3, <2>4 DEF JobFits
  <1>10. QED
    BY <1>2, <1>7, <1>8, <1>9

(* The pointer behind the indirect block is that of the file, or a block   *)
(* is allocated for it.                                                    *)
LEMMA ReadPointersStep ==
    ASSUME Ext2Inv, ReadPointers
    PROVE  Quiet /\ job' \in JobSet /\ JobFits'
  <1>1. PICK ok \in BOOLEAN, b \in Pointers(mem.vnodes[job.v].inode.ind) :
          /\ Io("other", ok, disk)
          /\ job' = IF ~ok THEN NoJob
                    ELSE IF b # 0 THEN [job EXCEPT !.pc = "data", !.b = b]
                    ELSE Allocate("block", "pointer")
    BY DEF ReadPointers
  <1>2. Quiet /\ job.pc = "pointers"
    BY <1>1, ReadDoes DEF ReadPointers, At, Quiet, SameFiles
  <1>3. Frame /\ RootSynced' /\ Ext2Types /\ JobFits
    BY <1>2, QuietKeeps, RootStays DEF Ext2Inv
  <1>4. /\ job.v \in Vnode /\ mem.vnodes[job.v].ino = job.ino /\ job.ino # 0
        /\ mem.vnodes[job.v].name = job.name
        /\ job.lb = DirectPtrs /\ job.lb \in Logical /\ Copy.ind # 0
    BY <1>2, <1>3 DEF JobFits, WriteFits, Writing, WritePcs
  <1>5. Copy.ind \in Block /\ job.ino \in Inode
    <2>1. Copy \in InodeSet /\ job.ino \in Inode
      BY <1>3, <1>4, Parts DEF VnodeSet, Copy, Ext2Types, JobSet
    <2>2. QED
      BY <1>4, <2>1 DEF InodeSet, Ptr0
  <1>6. b \in Block \cup {0} /\ (PointersSound => disk.blk[Copy.ind].ptr = b)
    <2>1. PointersSound => disk.blk[Copy.ind].kind = "ptr"
      <3>1. Holds(job.ino, DirectPtrs, Copy.ind)
        BY <1>4, Numbers DEF Holds, PtrOf, Copy
      <3>2. QED
        BY <1>5, <3>1 DEF Ext2Inv, Kinds
    <2>2. disk.blk[Copy.ind].ptr \in Ptr0
      BY <1>3, <1>5, Parts DEF BlockSet
    <2>3. b \in Pointers(Copy.ind)
      BY <1>1 DEF Copy
    <2>4. QED
      BY <2>1, <2>2, <2>3 DEF Pointers, Ptr0
  <1>7. CASE job' = NoJob
    BY <1>2, <1>3, <1>7, NoJobFits
  <1>8. ASSUME job' # NoJob
        PROVE  /\ job' \in JobSet /\ job'.name = job.name /\ job'.ino = job.ino
               /\ job'.lb = job.lb /\ job'.v = job.v
               /\ \/ job'.pc = "data" /\ b # 0 /\ job'.b = b
                  \/ job'.pc = "alloc" /\ job'.what = "block" /\ job'.to = "pointer" /\ b = 0
    <2>1. job \in JobSet /\ b \in Nat
      BY <1>3, <1>6, Numbers DEF Ext2Types
    <2>2. CASE job' = [job EXCEPT !.pc = "data", !.b = b] /\ b # 0
      BY <2>1, <2>2 DEF JobSet, WritePcs
    <2>3. CASE job' = [job EXCEPT !.pc = "alloc", !.what = "block", !.to = "pointer"] /\ b = 0
      BY <2>1, <2>3 DEF JobSet, AllocPcs
    <2>4. QED
      BY <1>1, <1>8, <2>2, <2>3 DEF Allocate
  <1>9. ASSUME job' # NoJob PROVE JobFits'
    <2>1. job'.pc \in {"data", "alloc"}
      BY <1>8, <1>9
    <2>2. AllocFits' /\ MarkFits' /\ GotFits'
      BY <1>8, <1>9 DEF AllocFits, Allocating, AllocPcs, MarkFits, GotFits
    <2>3. NewFileFits'
      BY <1>8, <1>9 DEF NewFileFits, NewFile, NewPcs, For, Allocating, AllocPcs
    <2>4. OpenFits'
      BY <1>3, <2>1 DEF OpenFits, RootSynced
    <2>5. WriteFits'
      <3>1. mem' = mem /\ disk' = disk /\ (PointersSound' => PointersSound) /\ Copy' = Copy
        BY <1>2, <1>8, <1>9, SoundBefore DEF Quiet, Copy
      <3>2. QED
        BY <1>4, <1>6, <1>8, <1>9, <3>1
           DEF WriteFits, Writing, WritePcs, For, Allocating, AllocPcs
    <2>6. QED
      BY <2>2, <2>3, <2>4, <2>5 DEF JobFits
  <1>10. QED
    BY <1>2, <1>7, <1>8, <1>9

(* The block is read before a part of it is written. *)
LEMMA ReadDataStep ==
    ASSUME Ext2Inv, ReadData
    PROVE  Quiet /\ job' \in JobSet /\ JobFits'
  <1>1. PICK ok \in BOOLEAN :
          /\ Io("data read", ok, disk)
          /\ job' = [job EXCEPT !.pc = "merged", !.kept = IF ok THEN Kept ELSE {}]
    BY DEF ReadData
  <1>2. Quiet /\ job.pc = "data"
    BY <1>1, ReadDoes DEF ReadData, At, Quiet, SameFiles
  <1>3. Frame /\ RootSynced' /\ Ext2Types /\ JobFits
    BY <1>2, QuietKeeps, RootStays DEF Ext2Inv
  <1>4. job.b \in Block
    BY <1>2, <1>3 DEF JobFits, WriteFits
  <1>5. /\ job' \in JobSet /\ job'.pc = "merged" /\ job'.name = job.name
        /\ job'.ino = job.ino /\ job'.v = job.v /\ job'.lb = job.lb /\ job'.b = job.b
        /\ job'.part = job.part /\ job'.kept = IF ok THEN Kept ELSE {}
    <2>1. Kept \subseteq Piece
      <3>1. disk.blk[job.b].of \subseteq Piece
        BY <1>3, <1>4, Parts DEF BlockSet
      <3>2. QED
        BY <3>1 DEF Kept
    <2>2. PICK K \in SUBSET Piece : K = IF ok THEN Kept ELSE {}
      BY <2>1
    <2>3. job' = [job EXCEPT !.pc = "merged", !.kept = K] /\ job \in JobSet
      BY <1>1, <1>3, <2>2 DEF Ext2Types
    <2>4. QED
      BY <2>2, <2>3 DEF JobSet, WritePcs
  <1>6. AllocFits' /\ MarkFits' /\ GotFits' /\ NewFileFits'
    BY <1>5 DEF AllocFits, Allocating, AllocPcs, MarkFits, GotFits, NewFileFits, NewFile,
                NewPcs, For
  <1>7. OpenFits'
    BY <1>3, <1>5 DEF OpenFits, RootSynced
  <1>8. WriteFits'
    <2>1. mem' = mem /\ disk' = disk /\ (PointersSound' => PointersSound) /\ Copy' = Copy
      BY <1>2, <1>5, SoundBefore DEF Quiet, Copy
    <2>2. AcksSound' => Kept' \subseteq job'.kept
      <3>1. AcksSound' => ok
        BY <1>1 DEF Io, AcksSound
      <3>2. Kept' = Kept
        BY <1>5, <2>1 DEF Kept
      <3>3. QED
        BY <1>5, <3>1, <3>2
    <2>3. BlockIsNew => BlockIsNew'
      BY <1>3, <1>5, NewStays
    <2>4. QED
      BY <1>2, <1>3, <1>5, <2>1, <2>2, <2>3
         DEF JobFits, WriteFits, Writing, WritePcs, For, Allocating, AllocPcs
  <1>9. QED
    BY <1>2, <1>5, <1>6, <1>7, <1>8 DEF JobFits

(* All the quiet steps. *)
LEMMA QuietStep ==
    ASSUME Ext2Inv,
           \/ \E n \in Names : vfs_open(n)
           \/ \E v \in Vnode, lb \in Logical, part \in (SUBSET Part) \ {{}} : vfs_write(v, lb, part)
           \/ ReadBitmap \/ SyncSuper \/ ext2_vfs_lookup \/ FindRoom \/ ReadPointers \/ ReadData
    PROVE  Ext2Inv'
  <1>1. Quiet /\ job' \in JobSet /\ JobFits'
    BY OpenStep, WriteStep, ReadBitmapStep, SyncSuperStep, LookupStep, FindRoomStep,
       ReadPointersStep, ReadDataStep
  <1>2. QED
    BY <1>1, QuietKeeps, FrameKeeps DEF Ext2Inv

-----------------------------------------------------------------------------
(* The counts: a bit less is clear when one is counted. *)
LEMMA OneLess ==
    ASSUME NEW S, IsFiniteSet(S), NEW T, NEW x \in S \ T
    PROVE  /\ Cardinality(S \ (T \cup {x})) = Cardinality(S \ T) - 1
           /\ Cardinality(S \ T) \in Nat
  <1>1. IsFiniteSet(S \ T)
    BY FS_Difference
  <1>2. (S \ T) \ {x} = S \ (T \cup {x})
    OBVIOUS
  <1>3. QED
    BY <1>1, <1>2, FS_RemoveElement, FS_CardinalityType

(* The volume is finite. *)
LEMMA FiniteVolume == IsFiniteSet(Block) /\ IsFiniteSet(Inode)
  BY FS_Interval, Numbers DEF Block, Inode

(* One bit more is set, and the count in memory is one less. *)
LEMMA WriteBitmapCounts == ASSUME Ext2Inv, WriteBitmap PROVE Counts'
  <1>1. /\ Ext2Types /\ Counts /\ JobFits /\ job.pc = "mark"
        /\ (BitmapsSound' => BitmapsSound)
        /\ disk.ibm \subseteq disk'.ibm
        /\ disk'.fb = disk.fb /\ disk'.fi = disk.fi
    BY WriteBitmapDoes, SoundBefore DEF Ext2Inv, Frame
  <1>2. 0 \in disk'.ibm
    BY <1>1 DEF Counts
  <1>3. /\ disk.fb \in Int /\ disk.fi \in Int /\ mem.fb \in Int /\ mem.fi \in Int
    BY <1>1, Parts
  <1>4. BitmapsSound' =>
          /\ disk.fb >= Cardinality(Block \ disk.bbm) /\ mem.fb >= Cardinality(Block \ disk.bbm)
          /\ disk.fi >= Cardinality(Inode \ disk.ibm) /\ mem.fi >= Cardinality(Inode \ disk.ibm)
    BY <1>1 DEF Counts, NoneHidden, BitmapsSound
  <1>5. ASSUME BitmapsSound'
        PROVE  /\ disk'.fb >= Cardinality(Block \ disk'.bbm)
               /\ mem'.fb >= Cardinality(Block \ disk'.bbm)
               /\ disk'.fi >= Cardinality(Inode \ disk'.ibm)
               /\ mem'.fi >= Cardinality(Inode \ disk'.ibm)
    <2>1. CASE job.what = "block"
      <3>1. /\ disk'.bbm = disk.bbm \cup {job.b} /\ disk'.ibm = disk.ibm
            /\ mem'.fb = mem.fb - 1 /\ mem'.fi = mem.fi
        BY <1>5, <2>1, WriteBitmapDoes
      <3>2. job.b \in Block \ disk.bbm
        BY <1>1, <2>1 DEF JobFits, MarkFits
      <3>3. /\ Cardinality(Block \ (disk.bbm \cup {job.b})) = Cardinality(Block \ disk.bbm) - 1
            /\ Cardinality(Block \ disk.bbm) \in Nat
        BY <3>2, OneLess, FiniteVolume
      <3>4. QED
        BY <1>1, <1>3, <1>4, <1>5, <3>1, <3>3
    <2>2. CASE job.what # "block"
      <3>1. /\ disk'.ibm = disk.ibm \cup {job.b} /\ disk'.bbm = disk.bbm
            /\ mem'.fi = mem.fi - 1 /\ mem'.fb = mem.fb
        BY <1>5, <2>2, WriteBitmapDoes
      <3>2. job.b \in Inode \ disk.ibm
        BY <1>1, <2>2 DEF JobFits, MarkFits
      <3>3. /\ Cardinality(Inode \ (disk.ibm \cup {job.b})) = Cardinality(Inode \ disk.ibm) - 1
            /\ Cardinality(Inode \ disk.ibm) \in Nat
        BY <3>2, OneLess, FiniteVolume
      <3>4. QED
        BY <1>1, <1>3, <1>4, <1>5, <3>1, <3>3
    <2>3. QED
      BY <2>1, <2>2
  <1>6. QED
    BY <1>2, <1>5 DEF Counts, NoneHidden, BitmapsSound

(* So alloc_block and alloc_inode keep the invariant when they mark, *)
LEMMA WriteBitmapStep == ASSUME Ext2Inv, WriteBitmap PROVE Ext2Inv'
  BY WriteBitmapDoes, WriteBitmapFits, WriteBitmapCounts, FrameKeeps DEF Ext2Inv

(* and when they write the counts: they are those of memory. *)
LEMMA SyncGroupStep == ASSUME Ext2Inv, SyncGroup PROVE Ext2Inv'
  <1>1. Frame /\ Ext2Types' /\ JobFits'
    BY SyncGroupDoes
  <1>2. Counts'
    BY <1>1, SyncGroupDoes DEF Ext2Inv, Counts, NoneHidden, Frame
  <1>3. QED
    BY <1>1, <1>2, FrameKeeps DEF Ext2Inv

-----------------------------------------------------------------------------
(* The steps that write inodes and change vnodes: no block changes. *)

(* What the directory on the disk has, the one in memory has too. *)
LEMMA UsedInMem ==
    ASSUME Roots
    PROVE  /\ Used \subseteq MemUsed
           /\ \A k \in Used : Entry(k) = EntryAt(k)
  <1>1. RootBlocks \subseteq 0..(mem.root.size - 1)
    BY Numbers DEF Roots, RootBlocks
  <1>2. \A k \in RootBlocks : Entry(k) = EntryAt(k)
    BY DEF Roots, Entry, EntryAt
  <1>3. QED
    BY <1>1, <1>2 DEF Used, MemUsed

(* No pointer is new. *)
LEMMA NoMoreRefs ==
    ASSUME Owned, Kinds, failed \subseteq failed',
           disk'.bbm = disk.bbm, disk'.blk = disk.blk,
           \A i \in Inode, k \in 0..DirectPtrs, b \in Block : Holds(i, k, b)' => Holds(i, k, b)
    PROVE  Owned' /\ Kinds'
  <1>1. \A i \in Inode, k \in PointerNo, b \in Block : Ref(i, k, b)' => Ref(i, k, b)
    <2>1. DirectPtrs \in 0..DirectPtrs /\ \A k \in PointerNo : k <= DirectPtrs => k \in 0..DirectPtrs
      BY Numbers
    <2>2. QED
      BY <2>1 DEF Ref
  <1>2. PointersSound' => PointersSound
    BY SoundBefore
  <1>3. DirectPtrs \in 0..DirectPtrs
    BY Numbers
  <1>4. QED
    BY <1>1, <1>2, <1>3 DEF Owned, Kinds

(* The directory is the same, on the disk and in memory. *)
SameRoot == /\ mem'.root = mem.root /\ disk'.itab[0] = disk.itab[0]
            /\ disk'.blk = disk.blk /\ disk'.bbm = disk.bbm /\ disk'.ibm = disk.ibm
            /\ failed \subseteq failed'

(* A step that leaves the inode of the directory and all blocks alone. *)
LEMMA RootSame ==
    ASSUME SameRoot
    PROVE  /\ Roots => Roots'
           /\ MemUsed' = MemUsed /\ Used' = Used
           /\ \A k : EntryAt(k)' = EntryAt(k) /\ Entry(k)' = Entry(k)
           /\ \A n, i : Named(n, i)' <=> Named(n, i)
           /\ NamesOnce => NamesOnce'
           /\ \A i : UnusedInode(i) => UnusedInode(i)'
           /\ (RootSynced => RootSynced')
  <1> USE DEF SameRoot
  <1>1. /\ BitmapsSound' => BitmapsSound
        /\ InodesSound' => InodesSound
        /\ ReadsSound' => ReadsSound
        /\ WritesSound' => WritesSound
    BY SoundBefore
  <1>2. Roots => Roots'
    BY <1>1 DEF Roots, RootBlocks, RootOwns
  <1>3. /\ MemUsed' = MemUsed /\ Used' = Used
        /\ \A k : EntryAt(k)' = EntryAt(k) /\ Entry(k)' = Entry(k)
    BY DEF MemUsed, EntryAt, Used, Entry, RootBlocks
  <1>4. \A n, i : Named(n, i)' <=> Named(n, i)
    BY <1>3 DEF Named
  <1>5. NamesOnce => NamesOnce'
    BY <1>1, <1>3 DEF NamesOnce
  <1>6. \A i : UnusedInode(i) => UnusedInode(i)'
    BY <1>1, <1>3 DEF UnusedInode
  <1>7. RootSynced => RootSynced'
    BY <1>1 DEF RootSynced
  <1>8. QED
    BY <1>2, <1>3, <1>4, <1>5, <1>6, <1>7

(* A new inode leads nowhere: everything is ahead of it. *)
LEMMA EmptyInode ==
    /\ \A k \in 0..DirectPtrs : PtrOf(NewInode, k) = 0
    /\ \A n \in InodeSet : Ahead(n, NewInode)
  <1>1. ASSUME NEW k \in 0..DirectPtrs PROVE PtrOf(NewInode, k) = 0
    <2>1. CASE k < DirectPtrs
      <3>1. k \in Direct
        BY <2>1, Numbers DEF Direct
      <3>2. QED
        BY <2>1, <3>1, Written DEF PtrOf
    <2>2. CASE ~(k < DirectPtrs)
      BY <2>2, Written DEF PtrOf
    <2>3. QED
      BY <2>1, <2>2
  <1>2. ASSUME NEW n \in InodeSet PROVE Ahead(n, NewInode)
    <2>1. n.size \in Nat /\ NewInode.size = 0
      BY Written DEF InodeSet
    <2>2. NewInode.size <= n.size
      BY <2>1
    <2>3. QED
      BY <1>1, <2>2 DEF Ahead
  <1>3. QED
    BY <1>1, <1>2

(* A new inode is filled in: nothing that has a name is overwritten. *)
LEMMA CreateStep == ASSUME Ext2Inv, ext2_vfs_create PROVE Ext2Inv'
  <1>1. /\ job.pc = "fill" /\ job' = [job EXCEPT !.pc = "scan", !.ino = job.b, !.lb = 0]
        /\ job.b \in Inode /\ InodeWritten("inode write", job.b, NewInode)
        /\ mem' = mem /\ SameFiles /\ Ext2Types'
    BY CreateDoes
  <1>2. /\ Ext2Types /\ Owned /\ Kinds /\ Roots /\ Entered /\ NamesOnce /\ Vnodes /\ Counts
        /\ Acks /\ JobFits /\ UnusedInode(job.b) /\ NewFileFits
    BY <1>1 DEF Ext2Inv, JobFits, GotFits
  <1>3. PICK i0 \in Inode : i0 = job.b
    BY <1>1
  <1>4. /\ UnusedInode(i0) /\ i0 # 0
        /\ \A i \in Inode : disk'.itab[i] = disk.itab[i] \/ (i = i0 /\ disk'.itab[i] = NewInode)
        /\ \A i \in Inode : i # i0 => disk'.itab[i] = disk.itab[i]
        /\ disk'.blk = disk.blk /\ disk'.bbm = disk.bbm /\ disk'.ibm = disk.ibm
        /\ failed \subseteq failed'
    BY <1>1, <1>2, <1>3 DEF InodeWritten, UnusedInode
  <1>5. SameRoot
    BY <1>1, <1>4, Numbers DEF SameRoot
  <1>6. /\ BitmapsSound' => BitmapsSound
        /\ InodesSound' => InodesSound
        /\ WritesSound' => WritesSound /\ InodesSound
        /\ ReadsSound' => ReadsSound
    BY <1>4, SoundBefore
  <1>7. Owned' /\ Kinds'
    <2>1. 0 \notin Block /\ mem' = mem
      BY <1>1, Numbers
    <2>2. ASSUME NEW i \in Inode, NEW k \in 0..DirectPtrs, NEW b \in Block, Holds(i, k, b)'
          PROVE  Holds(i, k, b)
      <3>1. CASE disk'.itab[i] = disk.itab[i]
        BY <2>1, <2>2, <3>1 DEF Holds, PtrOf
      <3>2. CASE disk'.itab[i] = NewInode
        <4>1. PtrOf(disk'.itab[i], k) # b
          BY <2>1, <3>2, EmptyInode
        <4>2. QED
          BY <2>1, <2>2, <4>1 DEF Holds, PtrOf
      <3>3. QED
        BY <1>4, <3>1, <3>2
    <2>3. QED
      BY <1>2, <1>4, <2>2, NoMoreRefs
  <1>8. Roots' /\ NamesOnce'
    BY <1>2, <1>5, RootSame
  <1>9. Entered'
    <2>1. \A b \in Block : disk'.blk[b].ino = 0 <=> disk'.blk[b].name = ""
      BY <1>2, <1>4 DEF Entered
    <2>2. ASSUME InodesSound', NEW k \in MemUsed
          PROVE  /\ disk'.itab[EntryAt(k).ino].live
                 /\ EntryAt(k).ino \in disk'.ibm
                 /\ \A l \in MemUsed : EntryAt(l).ino = EntryAt(k).ino => l = k
      <3>1. /\ disk.itab[EntryAt(k).ino].live
            /\ EntryAt(k).ino \in disk.ibm
            /\ \A l \in MemUsed : EntryAt(l).ino = EntryAt(k).ino => l = k
        BY <1>2, <1>6, <2>2 DEF Entered
      <3>2. EntryAt(k).ino \in Inode
        BY <1>2, <3>1, Parts
      <3>3. QED
        BY <1>4, <3>1, <3>2, Written
    <2>3. QED
      BY <1>5, <2>1, <2>2, RootSame, ZenonT(30) DEF Entered
  <1>10. Vnodes'
    <2>1. ASSUME NEW v \in Vnode, mem.vnodes[v].ino # 0,
                 mem.vnodes[v].ino \notin twice
          PROVE  Ahead(mem.vnodes[v].inode, disk'.itab[mem.vnodes[v].ino])
      <3>1. /\ mem.vnodes[v].inode \in InodeSet /\ mem.vnodes[v].ino \in Inode
        BY <1>2, Parts DEF VnodeSet
      <3>2. Ahead(mem.vnodes[v].inode, disk.itab[mem.vnodes[v].ino])
        BY <1>2, <2>1 DEF Vnodes, VnodeFits
      <3>3. Ahead(mem.vnodes[v].inode, NewInode)
        BY <3>1, EmptyInode
      <3>4. QED
        BY <1>4, <3>1, <3>2, <3>3
    <2>2. mem' = mem /\ twice' = twice
      BY <1>1 DEF SameFiles
    <2>3. ASSUME NEW v \in Vnode PROVE VnodeFits(v)'
      <3>1. VnodeFits(v)
        BY <1>2 DEF Vnodes
      <3>2. WritesSound' => (mem.vnodes[v].ino # 0 =>
                               Named(mem.vnodes[v].name, mem.vnodes[v].ino))
        BY <1>6, <3>1 DEF VnodeFits
      <3>3. PICK n, i : n = mem.vnodes[v].name /\ i = mem.vnodes[v].ino
        OBVIOUS
      <3>4. WritesSound' => (i # 0 => Named(n, i)')
        BY <1>5, <3>2, <3>3, RootSame
      <3>5. mem.vnodes[v].ino # 0 /\ mem.vnodes[v].ino \notin twice =>
               Ahead(mem.vnodes[v].inode, disk'.itab[mem.vnodes[v].ino])
        BY <2>1
      <3>6. QED
        BY <1>6, <2>2, <3>1, <3>3, <3>4, <3>5 DEF VnodeFits, Ahead, PtrOf
    <2>4. QED
      BY <2>3 DEF Vnodes
  <1>11. Counts'
    BY <1>1, <1>2, CountsKept DEF InodeWritten
  <1>12. Acks'
    <2>1. ASSUME WritesSound', NEW n, NEW i, Named(n, i)
          PROVE  i # i0
      BY <1>2, <1>4, <1>6, <2>1, UsedInMem DEF Named, UnusedInode
    <2>2. ASSUME AcksSound', NEW n \in Name0, NEW i \in Inode, NEW lb \in Logical,
                 NEW p \in Part, <<n, i, lb, p>> \in acked, i \notin twice
          PROVE  \E b \in Block : OnDisk(n, i, lb, p, b)'
      <3>1. PICK b \in Block : OnDisk(n, i, lb, p, b)
        BY <1>2, <1>4, <2>2, SoundBefore DEF Acks
      <3>2. disk'.itab[i] = disk.itab[i]
        BY <1>4, <2>1, <2>2, <3>1 DEF OnDisk, AcksSound
      <3>3. Named(n, i)'
        BY <1>5, <3>1, RootSame DEF OnDisk
      <3>4. OnDisk(n, i, lb, p, b)'
        BY <1>4, <3>1, <3>2, <3>3 DEF OnDisk
      <3>5. QED
        BY <3>4
    <2>3. QED
      BY <1>1, <2>2 DEF Acks, SameFiles
  <1>13. JobFits'
    <2>1. /\ job'.pc = "scan" /\ job'.name = job.name /\ job'.ino = i0 /\ job'.lb = 0
      <3>1. job \in JobSet
        BY <1>2 DEF Ext2Types
      <3>2. QED
        BY <1>1, <1>3, <3>1 DEF JobSet
    <2>2. AllocFits' /\ MarkFits' /\ GotFits' /\ WriteFits'
      BY <2>1 DEF AllocFits, Allocating, AllocPcs, MarkFits, GotFits, WriteFits, Writing,
                  WritePcs, For
    <2>3. UnusedInode(i0)' /\ mem.root.size \in 1..DirectPtrs
      BY <1>2, <1>4, <1>5, RootSame DEF Roots
    <2>4. InodesSound' => disk'.itab[i0].live
      BY <1>1, <1>3, Written DEF InodeWritten, InodesSound
    <2>5. NewFile
      BY <1>1 DEF NewFile, NewPcs
    <2>6. /\ job.name \in Names
          /\ ReadsSound' => \A k \in MemUsed' : EntryAt(k)'.name # job.name
      BY <1>2, <1>5, <1>6, <2>5, RootSame DEF NewFileFits
    <2>7. 0 < mem'.root.size
      <3>1. 0 < mem.root.size
        BY <2>3, Numbers
      <3>2. QED
        BY <1>1, <3>1
    <2>8. NewFileFits'
      BY <2>1, <2>3, <2>4, <2>6, <2>7 DEF NewFileFits, For, Allocating, AllocPcs
    <2>9. RootSynced'
      BY <1>1, <1>2, <1>5, RootSame DEF JobFits, OpenFits, RootSynced
    <2>10. OpenFits'
      BY <2>1, <2>9 DEF OpenFits, RootSynced
    <2>11. QED
      BY <2>2, <2>8, <2>10 DEF JobFits
  <1>14. QED
    BY <1>1, <1>7, <1>8, <1>9, <1>10, <1>11, <1>12, <1>13 DEF Ext2Inv

(* An inode is ahead of itself. *)
LEMMA AheadOfItself == ASSUME NEW n \in InodeSet PROVE Ahead(n, n)
  <1>1. n.size \in Nat
    BY DEF InodeSet
  <1>2. QED
    BY <1>1 DEF Ahead

(* The inode of an open file is written: the disk catches up with its copy. *)
LEMMA WriteInodeStep == ASSUME Ext2Inv, WriteInode PROVE Ext2Inv'
  <1>1. /\ job.pc = "inode" /\ job' = NoJob /\ job.v \in Vnode /\ job.lb \in Logical
        /\ InodeWritten("inode write", job.ino, Copy)
        /\ mem' = mem /\ twice' = twice
        /\ acked' = acked \cup {<<job.name, job.ino, job.lb, p>> : p \in job.part}
        /\ Ext2Types'
    BY WriteInodeDoes
  <1>2. /\ Ext2Types /\ Owned /\ Kinds /\ Roots /\ Entered /\ NamesOnce /\ Vnodes /\ Counts
        /\ Acks /\ JobFits /\ WriteFits /\ VnodeFits(job.v)
    BY <1>1 DEF Ext2Inv, JobFits, Vnodes
  <1>3. PICK v0 \in Vnode : v0 = job.v
    BY <1>1
  <1>4. PICK c0 \in InodeSet : c0 = mem.vnodes[v0].inode
    BY <1>2, Parts DEF VnodeSet
  <1>5. PICK i0 \in Inode : i0 = job.ino
    BY <1>2 DEF Ext2Types, JobSet
  <1>6. /\ mem.vnodes[v0].ino = i0 /\ i0 # 0 /\ mem.vnodes[v0].name = job.name
        /\ c0 = Copy /\ VnodeFits(v0)
    BY <1>1, <1>2, <1>3, <1>4, <1>5 DEF WriteFits, Writing, WritePcs, Copy
  <1>7. /\ \A i \in Inode : disk'.itab[i] = disk.itab[i] \/ (i = i0 /\ disk'.itab[i] = c0)
        /\ \A i \in Inode : i # i0 => disk'.itab[i] = disk.itab[i]
        /\ disk'.blk = disk.blk /\ disk'.bbm = disk.bbm /\ disk'.ibm = disk.ibm
        /\ failed \subseteq failed' /\ (InodesSound' => disk'.itab[i0] = c0)
    BY <1>1, <1>5, <1>6 DEF InodeWritten, InodesSound
  <1>8. SameRoot
    BY <1>1, <1>6, <1>7, Numbers DEF SameRoot
  <1>9. /\ BitmapsSound' => BitmapsSound
        /\ InodesSound' => InodesSound
        /\ WritesSound' => WritesSound /\ InodesSound /\ PointersSound
    BY <1>7, SoundBefore DEF WritesSound
  <1>10. Owned' /\ Kinds'
    <2>1. ASSUME NEW i \in Inode, NEW k \in 0..DirectPtrs, NEW b \in Block, Holds(i, k, b)'
          PROVE  Holds(i, k, b)
      <3>1. CASE disk'.itab[i] = disk.itab[i]
        BY <1>1, <2>1, <3>1 DEF Holds, PtrOf
      <3>2. CASE i = i0 /\ disk'.itab[i] = c0
        BY <1>1, <1>4, <1>6, <2>1, <3>2 DEF Holds, PtrOf
      <3>3. QED
        BY <1>7, <3>1, <3>2
    <2>2. QED
      BY <1>2, <1>7, <2>1, NoMoreRefs
  <1>11. Roots' /\ NamesOnce'
    BY <1>2, <1>8, RootSame
  <1>12. Entered'
    <2>1. \A b \in Block : disk'.blk[b].ino = 0 <=> disk'.blk[b].name = ""
      BY <1>2, <1>7 DEF Entered
    <2>2. ASSUME InodesSound', NEW k \in MemUsed
          PROVE  /\ disk'.itab[EntryAt(k).ino].live
                 /\ EntryAt(k).ino \in disk'.ibm
                 /\ \A l \in MemUsed : EntryAt(l).ino = EntryAt(k).ino => l = k
      <3>1. /\ disk.itab[EntryAt(k).ino].live
            /\ EntryAt(k).ino \in disk.ibm
            /\ \A l \in MemUsed : EntryAt(l).ino = EntryAt(k).ino => l = k
        BY <1>2, <1>9, <2>2 DEF Entered
      <3>2. EntryAt(k).ino \in Inode
        BY <1>2, <3>1, Parts
      <3>3. c0.live
        BY <1>4, <1>6, <1>9, <2>2 DEF VnodeFits
      <3>4. QED
        BY <1>7, <3>1, <3>2, <3>3
    <2>3. QED
      BY <1>8, <2>1, <2>2, RootSame, ZenonT(30) DEF Entered
  <1>13. Vnodes'
    <2>1. ASSUME NEW v \in Vnode PROVE VnodeFits(v)'
      <3>1. VnodeFits(v)
        BY <1>2 DEF Vnodes
      <3>2. PICK n, i : n = mem.vnodes[v].name /\ i = mem.vnodes[v].ino
        OBVIOUS
      <3>3. WritesSound' => (i # 0 => Named(n, i)')
        BY <1>8, <1>9, <3>1, <3>2, RootSame DEF VnodeFits
      <3>4. i # 0 /\ i \notin twice => Ahead(mem.vnodes[v].inode, disk'.itab[i])
        <4>1. i \in Inode
          BY <1>2, <3>2, Parts DEF VnodeSet
        <4>2. CASE disk'.itab[i] = disk.itab[i]
          BY <3>1, <3>2, <4>2 DEF VnodeFits
        <4>3. CASE i = i0 /\ disk'.itab[i] = c0
          <5>1. i \notin twice => v = v0
            BY <1>6, <3>2, <4>3 DEF VnodeFits
          <5>2. QED
            BY <1>4, <4>3, <5>1, AheadOfItself
        <4>4. QED
          BY <1>7, <4>1, <4>2, <4>3
      <3>5. QED
        BY <1>1, <1>9, <3>1, <3>2, <3>3, <3>4 DEF VnodeFits, Ahead, PtrOf
    <2>2. QED
      BY <2>1 DEF Vnodes
  <1>14. Counts'
    BY <1>1, <1>2, CountsKept DEF InodeWritten
  <1>15. Acks'
    <2>1. ASSUME AcksSound', NEW n \in Name0, NEW i \in Inode, NEW lb \in Logical,
                 NEW p \in Part, <<n, i, lb, p>> \in acked, i \notin twice
          PROVE  \E b \in Block : OnDisk(n, i, lb, p, b)'
      <3>1. PICK b \in Block : OnDisk(n, i, lb, p, b)
        BY <1>2, <1>7, <2>1, SoundBefore DEF Acks
      <3>2. Named(n, i)'
        BY <1>8, <3>1, RootSame DEF OnDisk
      <3>3. CASE i # i0
        BY <1>7, <3>1, <3>2, <3>3 DEF OnDisk
      <3>4. CASE i = i0
        <4>1. Ahead(c0, disk.itab[i]) /\ disk'.itab[i] = c0
          BY <1>4, <1>6, <1>7, <2>1, <3>4, SoundBefore DEF VnodeFits
        <4>2. /\ lb < DirectPtrs \/ lb = DirectPtrs
              /\ lb \in 0..DirectPtrs /\ ~(DirectPtrs < DirectPtrs) /\ lb \in Nat
              /\ DirectPtrs \in 0..DirectPtrs /\ b # 0
          BY Numbers
        <4>3. lb < DirectPtrs => c0.direct[lb] = b
          BY <3>1, <4>1, <4>2 DEF OnDisk, Ahead, PtrOf
        <4>4. ~(lb < DirectPtrs) => c0.ind = disk.itab[i].ind /\ c0.ind # 0
          BY <3>1, <4>1, <4>2 DEF OnDisk, Ahead, PtrOf
        <4>5. c0.size > lb
          <5>1. c0.size \in Nat /\ disk.itab[i].size \in Nat
            BY <1>2, Parts DEF InodeSet
          <5>2. disk.itab[i].size <= c0.size /\ disk.itab[i].size > lb
            BY <3>1, <4>1 DEF OnDisk, Ahead
          <5>3. QED
            BY <4>2, <5>1, <5>2
        <4>6. OnDisk(n, i, lb, p, b)'
          BY <1>7, <3>1, <3>2, <4>1, <4>3, <4>4, <4>5 DEF OnDisk
        <4>7. QED
          BY <4>6
      <3>5. QED
        BY <3>3, <3>4
    <2>2. ASSUME AcksSound', NEW n \in Name0, NEW lb \in Logical, NEW p \in job.part,
                 n = job.name, lb = job.lb
          PROVE  \E b \in Block : OnDisk(n, i0, lb, p, b)'
      <3>1. PICK b \in Block : b = job.b
        BY <1>1, <1>2 DEF WriteFits
      <3>2. Named(n, i0)
        BY <1>6, <1>7, <2>2, SoundBefore DEF VnodeFits
      <3>3. Named(n, i0)'
        BY <1>8, <3>2, RootSame
      <3>4. disk'.itab[i0] = c0
        BY <1>7, <2>2, SoundBefore
      <3>5. /\ <<i0, lb, p>> \in disk.blk[b].of /\ lb < c0.size
            /\ \/ lb = 0 /\ c0.direct[0] = b
               \/ lb = DirectPtrs /\ c0.ind # 0 /\ disk.blk[c0.ind].ptr = b
        <4>1. PointersSound
          BY <1>7, <2>2, SoundBefore
        <4>2. QED
          BY <1>1, <1>2, <1>5, <1>6, <2>2, <3>1, <4>1 DEF WriteFits
      <3>6. 0 < DirectPtrs /\ ~(DirectPtrs < DirectPtrs) /\ lb \in Nat /\ c0.size \in Nat
        BY Numbers DEF InodeSet
      <3>7. c0.size > lb
        BY <3>5, <3>6
      <3>8. OnDisk(n, i0, lb, p, b)'
        BY <1>7, <3>3, <3>4, <3>5, <3>6, <3>7 DEF OnDisk
      <3>9. QED
        BY <3>8
    <2>3. ASSUME AcksSound', NEW n \in Name0, NEW i \in Inode, NEW lb \in Logical,
                 NEW p \in Part, <<n, i, lb, p>> \in acked', i \notin twice
          PROVE  \E b \in Block : OnDisk(n, i, lb, p, b)'
      <3>1. CASE <<n, i, lb, p>> \in acked
        BY <2>1, <2>3, <3>1
      <3>2. CASE n = job.name /\ i = i0 /\ lb = job.lb /\ p \in job.part
        <4>1. \E b \in Block : OnDisk(n, i0, lb, p, b)'
          BY <2>2, <2>3, <3>2
        <4>2. QED
          BY <3>2, <4>1
      <3>3. QED
        BY <1>1, <1>5, <2>3, <3>1, <3>2
    <2>4. QED
      BY <1>1, <2>3 DEF Acks
  <1>16. JobFits'
    <2>1. RootSynced'
      BY <1>1, <1>2, <1>8, RootSame DEF JobFits, OpenFits, RootSynced
    <2>2. QED
      BY <1>1, <2>1, NoJobFits
  <1>17. QED
    BY <1>1, <1>10, <1>11, <1>12, <1>13, <1>14, <1>15, <1>16 DEF Ext2Inv

(* The root is written: the disk has now the directory that memory has. *)
LEMMA WriteRootStep == ASSUME Ext2Inv, WriteRoot PROVE Ext2Inv'
  <1>1. /\ job.pc = "root" /\ job' = [job EXCEPT !.pc = "vnode"]
        /\ InodeWritten("inode write", 0, mem.root)
        /\ mem' = mem /\ SameFiles /\ Ext2Types'
    BY WriteRootDoes
  <1>2. /\ Ext2Types /\ Owned /\ Kinds /\ Roots /\ Entered /\ NamesOnce /\ Vnodes /\ Counts
        /\ Acks /\ JobFits /\ OpenFits
    BY DEF Ext2Inv, JobFits
  <1>3. /\ disk'.itab[0] = disk.itab[0] \/ disk'.itab[0] = mem.root
        /\ \A i \in Inode : i # 0 => disk'.itab[i] = disk.itab[i]
        /\ disk'.blk = disk.blk /\ disk'.bbm = disk.bbm /\ disk'.ibm = disk.ibm
        /\ failed \subseteq failed' /\ (WritesSound' => disk'.itab[0] = mem.root)
    BY <1>1, Numbers DEF InodeWritten, WritesSound, InodesSound
  <1>4. /\ BitmapsSound' => BitmapsSound
        /\ InodesSound' => InodesSound
        /\ WritesSound' => WritesSound /\ InodesSound
        /\ ReadsSound' => ReadsSound
    BY <1>3, SoundBefore
  <1>5. /\ MemUsed' = MemUsed /\ \A k : EntryAt(k)' = EntryAt(k)
    BY <1>1, <1>3 DEF MemUsed, EntryAt
  <1>6. \A k \in MemUsed : EntryAt(k).ino # 0
    BY DEF MemUsed
  <1>7. Owned' /\ Kinds'
    <2>1. ASSUME NEW i \in Inode, NEW k \in 0..DirectPtrs, NEW b \in Block, Holds(i, k, b)'
          PROVE  Holds(i, k, b)
      <3>1. CASE disk'.itab[i] = disk.itab[i]
        BY <1>1, <2>1, <3>1 DEF Holds, PtrOf
      <3>2. CASE i = 0 /\ disk'.itab[i] = mem.root
        BY <1>1, <2>1, <3>2 DEF Holds, PtrOf
      <3>3. QED
        BY <1>3, <3>1, <3>2
    <2>2. QED
      BY <1>2, <1>3, <2>1, NoMoreRefs
  <1>8. Roots'
    <2>1. CASE disk'.itab[0] = disk.itab[0]
      BY <1>1, <1>2, <1>3, <2>1, RootSame DEF SameRoot
    <2>2. CASE disk'.itab[0] = mem.root
      <3>1. mem.root.size \in 1..mem.root.size
        BY <1>2, Numbers DEF Roots
      <3>2. PICK r, bm : r = mem.root /\ bm = disk.bbm
        OBVIOUS
      <3>3. mem'.root = r /\ disk'.itab[0] = r /\ disk'.bbm = bm
        BY <1>1, <1>3, <2>2, <3>2
      <3>4. /\ r.size \in 1..DirectPtrs /\ r.size \in 1..r.size
            /\ \A k \in 0..(r.size - 1) : r.direct[k] # 0
        BY <1>2, <3>1, <3>2 DEF Roots
      <3>5. BitmapsSound' => RootOwns(r, bm)
        BY <1>2, <1>4, <3>2 DEF Roots
      <3>6. QED
        BY <3>3, <3>4, <3>5 DEF Roots, RootBlocks, RootOwns
    <2>3. QED
      BY <1>3, <2>1, <2>2
  <1>9. Entered'
    <2>1. \A b \in Block : disk'.blk[b].ino = 0 <=> disk'.blk[b].name = ""
      BY <1>2, <1>3 DEF Entered
    <2>2. ASSUME InodesSound', NEW k \in MemUsed
          PROVE  /\ disk'.itab[EntryAt(k).ino].live
                 /\ EntryAt(k).ino \in disk'.ibm
                 /\ \A l \in MemUsed : EntryAt(l).ino = EntryAt(k).ino => l = k
      <3>1. /\ disk.itab[EntryAt(k).ino].live
            /\ EntryAt(k).ino \in disk.ibm
            /\ \A l \in MemUsed : EntryAt(l).ino = EntryAt(k).ino => l = k
        BY <1>2, <1>4, <2>2 DEF Entered
      <3>2. EntryAt(k).ino \in Inode
        BY <1>2, <3>1, Parts
      <3>3. QED
        BY <1>3, <1>6, <3>1, <3>2
    <2>3. QED
      BY <1>5, <2>1, <2>2 DEF Entered
  <1>10. NamesOnce'
    BY <1>2, <1>4, <1>5 DEF NamesOnce
  <1>11. ASSUME NEW n, NEW i, Named(n, i) PROVE Named(n, i)' /\ i # 0
    <2>1. CASE disk'.itab[0] = disk.itab[0]
      BY <1>3, <1>11, <2>1 DEF Named, Used, Entry, RootBlocks
    <2>2. CASE disk'.itab[0] = mem.root
      <3>1. PICK k \in Used : Entry(k).name = n /\ Entry(k).ino = i
        BY <1>11 DEF Named
      <3>2. k \in MemUsed /\ Entry(k) = EntryAt(k)
        BY <1>2, <3>1, UsedInMem
      <3>3. k \in Used' /\ Entry(k)' = EntryAt(k)
        BY <1>3, <2>2, <3>2 DEF Used, MemUsed, RootBlocks, Entry, EntryAt
      <3>4. QED
        BY <1>6, <3>1, <3>2, <3>3 DEF Named
    <2>3. QED
      BY <1>3, <2>1, <2>2 DEF Named, Used
  <1>12. Vnodes'
    <2>1. ASSUME NEW v \in Vnode PROVE VnodeFits(v)'
      <3>1. VnodeFits(v)
        BY <1>2 DEF Vnodes
      <3>2. PICK n, i : n = mem.vnodes[v].name /\ i = mem.vnodes[v].ino
        OBVIOUS
      <3>3. WritesSound' => (i # 0 => Named(n, i)')
        BY <1>4, <1>11, <3>1, <3>2 DEF VnodeFits
      <3>4. i \in Inode
        BY <1>2, <3>2, Parts DEF VnodeSet
      <3>5. QED
        BY <1>1, <1>3, <1>4, <3>1, <3>2, <3>3, <3>4 DEF VnodeFits, Ahead, PtrOf, SameFiles
    <2>2. QED
      BY <2>1 DEF Vnodes
  <1>13. Counts'
    BY <1>1, <1>2, CountsKept DEF InodeWritten
  <1>14. Acks'
    <2>1. ASSUME AcksSound', NEW n \in Name0, NEW i \in Inode, NEW lb \in Logical,
                 NEW p \in Part, <<n, i, lb, p>> \in acked, i \notin twice
          PROVE  \E b \in Block : OnDisk(n, i, lb, p, b)'
      <3>1. PICK b \in Block : OnDisk(n, i, lb, p, b)
        BY <1>2, <1>3, <2>1, SoundBefore DEF Acks
      <3>2. Named(n, i)' /\ i # 0
        BY <1>11, <3>1 DEF OnDisk
      <3>3. OnDisk(n, i, lb, p, b)'
        BY <1>3, <3>1, <3>2 DEF OnDisk
      <3>4. QED
        BY <3>3
    <2>2. QED
      BY <1>1, <2>1 DEF Acks, SameFiles
  <1>15. JobFits'
    <2>1. /\ job'.pc = "vnode" /\ job'.name = job.name /\ job'.ino = job.ino
      BY <1>1, <1>2, JobAt
    <2>2. AllocFits' /\ MarkFits' /\ GotFits' /\ WriteFits' /\ NewFileFits'
      BY <2>1 DEF AllocFits, Allocating, AllocPcs, MarkFits, GotFits, WriteFits, Writing,
                  WritePcs, For, NewFileFits, NewFile, NewPcs
    <2>3. RootSynced'
      BY <1>1, <1>3 DEF RootSynced
    <2>4. /\ EntryAt(mem.root.size - 1) = DirBlock(job.name, job.ino)
          /\ job.ino # 0 /\ job.name \in Names /\ (InodesSound => disk.itab[job.ino].live)
      BY <1>1, <1>2 DEF OpenFits
    <2>5. job.ino \in Inode
      BY <1>2 DEF Ext2Types, JobSet
    <2>6. PICK n, i : n = job.name /\ i = job.ino
      OBVIOUS
    <2>7. WritesSound' => Named(n, i)'
      <3>1. mem.root.size - 1 \in 0..(mem.root.size - 1)
        BY <1>2, Numbers DEF Roots
      <3>2. EntryAt(mem.root.size - 1).name = n /\ EntryAt(mem.root.size - 1).ino = i
        <4>1. EntryAt(mem.root.size - 1) = DirBlock(n, i)
          BY <2>4, <2>6
        <4>2. DirBlock(n, i).name = n /\ DirBlock(n, i).ino = i
          BY Written, ZenonT(30)
        <4>3. QED
          BY <4>1, <4>2
      <3>3. PICK k : k = mem.root.size - 1
        OBVIOUS
      <3>4. EntryAt(k).name = n /\ EntryAt(k).ino = i /\ k \in 0..(mem.root.size - 1)
        BY <3>1, <3>2, <3>3
      <3>5. WritesSound' => k \in Used' /\ Entry(k)' = EntryAt(k)
        BY <1>3, <2>4, <2>6, <3>4 DEF Used, RootBlocks, Entry, EntryAt
      <3>6. QED
        BY <3>4, <3>5 DEF Named
    <2>8. OpenFits'
      BY <1>3, <1>4, <2>1, <2>3, <2>4, <2>5, <2>6, <2>7 DEF OpenFits, RootSynced
    <2>9. QED
      BY <2>2, <2>8 DEF JobFits
  <1>16. QED
    BY <1>1, <1>7, <1>8, <1>9, <1>10, <1>12, <1>13, <1>14, <1>15 DEF Ext2Inv

(* What the steps keep that change vnodes only. *)
LEMMA VnodesOnly ==
    ASSUME Ext2Inv, disk' = disk, mem'.root = mem.root, mem'.fb = mem.fb, mem'.fi = mem.fi,
           failed \subseteq failed', acked' = acked, twice \subseteq twice',
           \A i \in Inode, k \in 0..DirectPtrs, b \in Block : Holds(i, k, b)' => Holds(i, k, b)
    PROVE  /\ Owned' /\ Kinds' /\ Roots' /\ Entered' /\ NamesOnce' /\ Counts' /\ Acks'
           /\ job.pc # "root" => RootSynced'
           /\ SameRoot
  <1>1. /\ Ext2Types /\ Owned /\ Kinds /\ Roots /\ Entered /\ NamesOnce /\ Counts
        /\ Acks /\ OpenFits
    BY DEF Ext2Inv, JobFits
  <1>2. SameRoot
    BY DEF SameRoot
  <1>3. Owned' /\ Kinds'
    BY <1>1, NoMoreRefs
  <1>4. InodesSound' => InodesSound
    BY SoundBefore
  <1>5. WritesSound' => WritesSound
    BY SoundBefore
  <1>6. Entered'
    BY <1>1, <1>2, <1>4, RootSame DEF Entered
  <1>7. Counts'
    BY <1>1, CountsKept
  <1>8. Acks'
    BY <1>1, <1>2, SoundBefore, RootSame DEF Acks, OnDisk
  <1>9. job.pc # "root" => RootSynced'
    BY <1>1, <1>2, RootSame DEF OpenFits, RootSynced
  <1>10. QED
    BY <1>1, <1>2, <1>3, <1>6, <1>7, <1>8, <1>9, RootSame

(* A vnode gets a copy of the inode: one that had one already is noted. *)
LEMMA MakeVnodeStep == ASSUME Ext2Inv, ext2_make_vnode PROVE Ext2Inv'
  <1>1. /\ job.pc = "vnode" /\ disk' = disk /\ failed \subseteq failed' /\ acked' = acked
        /\ mem'.root = mem.root /\ mem'.fb = mem.fb /\ mem'.fi = mem.fi
        /\ Ext2Types'
    BY MakeVnodeDoes
  <1>2. /\ Ext2Types /\ Vnodes /\ OpenFits
    BY DEF Ext2Inv, JobFits
  <1>3. CASE /\ mem' = mem /\ twice' = twice
             /\ job' = NoJob \/ (job' = Create /\ job.what = "" /\ "inode read" \in failed')
    <2>1. Quiet
      BY <1>1, <1>3 DEF Quiet, SameFiles
    <2>2. RootSynced' /\ Frame
      BY <1>1, <2>1, QuietKeeps, RootStays
    <2>3. JobFits'
      <3>1. CASE job' = NoJob
        BY <2>2, <3>1, NoJobFits
      <3>2. CASE job' = Create /\ "inode read" \in failed'
        BY <1>1, <1>2, <2>1, <3>2, CreateFits DEF OpenFits, ReadsSound
      <3>3. QED
        BY <1>3, <3>1, <3>2
    <2>4. QED
      BY <1>1, <2>1, <2>2, <2>3, QuietKeeps, FrameKeeps DEF Ext2Inv
  <1>4. ASSUME NEW v0 \in Vnode, Opened(v0) PROVE Ext2Inv'
    <2>2. PICK n1 \in Names, i1 \in Inode : n1 = job.name /\ i1 = job.ino
      <3>1. job.name \in Names
        BY <1>1, <1>2 DEF OpenFits
      <3>2. job.ino \in Inode
        BY <1>2 DEF Ext2Types, JobSet
      <3>3. QED
        BY <3>1, <3>2
    <2>3. /\ mem.vnodes[v0].ino = 0 /\ job' = NoJob /\ failed' = failed
          /\ \A w \in Vnode : w # v0 => mem'.vnodes[w] = mem.vnodes[w]
          /\ mem'.vnodes[v0].ino = i1 /\ mem'.vnodes[v0].name = n1
          /\ mem'.vnodes[v0].inode = disk.itab[i1]
          /\ twice' = IF \E w \in Vnode : mem.vnodes[w].ino = i1
                      THEN twice \cup {i1} ELSE twice
      BY <1>4, <2>2 DEF Opened
    <2>4. ASSUME NEW i \in Inode, NEW k \in 0..DirectPtrs, NEW b \in Block, Holds(i, k, b)'
          PROVE  Holds(i, k, b)
      <3>1. CASE \E v \in Vnode : /\ v # v0 /\ mem'.vnodes[v].ino # 0 /\ mem'.vnodes[v].ino = i
                                  /\ PtrOf(mem'.vnodes[v].inode, k) = b
        BY <2>3, <3>1 DEF Holds
      <3>2. CASE mem'.vnodes[v0].ino = i /\ PtrOf(mem'.vnodes[v0].inode, k) = b
        BY <2>3, <3>2 DEF Holds
      <3>3. QED
        BY <1>1, <2>4, <3>1, <3>2 DEF Holds, PtrOf
    <2>5. twice \subseteq twice'
      BY <2>3
    <2>6. /\ Owned' /\ Kinds' /\ Roots' /\ Entered' /\ NamesOnce' /\ Counts' /\ Acks'
          /\ RootSynced' /\ SameRoot
      BY <1>1, <2>4, <2>5, VnodesOnly
    <2>7. JobFits'
      BY <2>3, <2>6, NoJobFits
    <2>8. /\ WritesSound' => WritesSound
          /\ InodesSound' => InodesSound
      BY <1>1, SoundBefore
    <2>9. ASSUME NEW w \in Vnode, w # v0 PROVE VnodeFits(w)'
      <3>1. VnodeFits(w) /\ mem'.vnodes[w] = mem.vnodes[w]
        BY <1>2, <2>3, <2>9 DEF Vnodes
      <3>2. PICK n, i : n = mem.vnodes[w].name /\ i = mem.vnodes[w].ino
        OBVIOUS
      <3>3. WritesSound' => (i # 0 => Named(n, i)')
        BY <2>6, <2>8, <3>1, <3>2, RootSame DEF VnodeFits
      <3>4. i # 0 /\ i \notin twice' =>
              \A u \in Vnode : mem'.vnodes[u].ino = i => u = w
        <4>1. i \notin twice' => i # i1
          BY <2>3, <3>2
        <4>2. QED
          BY <2>3, <2>5, <3>1, <3>2, <4>1 DEF VnodeFits
      <3>5. QED
        BY <1>1, <2>5, <2>8, <3>1, <3>2, <3>3, <3>4 DEF VnodeFits, Ahead, PtrOf
    <2>10. VnodeFits(v0)'
      <3>1. /\ InodesSound => disk.itab[i1].live
            /\ WritesSound => Named(n1, i1)
        BY <1>1, <1>2, <2>2 DEF OpenFits
      <3>2. WritesSound' => Named(n1, i1)'
        BY <2>6, <2>8, <3>1, RootSame
      <3>3. i1 \notin twice' => \A u \in Vnode : mem'.vnodes[u].ino = i1 => u = v0
        BY <2>3
      <3>4. Ahead(disk.itab[i1], disk.itab[i1])
        BY <1>2, Parts, AheadOfItself
      <3>5. QED
        BY <1>1, <2>3, <2>8, <3>1, <3>2, <3>3, <3>4 DEF VnodeFits, Ahead, PtrOf
    <2>11. Vnodes'
      BY <2>9, <2>10 DEF Vnodes
    <2>12. QED
      BY <1>1, <2>6, <2>7, <2>11 DEF Ext2Inv
  <1>5. QED
    BY <1>3, <1>4, MakeVnodeDoes

(* A file is closed: one copy of its inode less. *)
LEMMA CloseStep == ASSUME Ext2Inv, NEW v0 \in Vnode, vfs_close(v0) PROVE Ext2Inv'
  <1>1. /\ disk' = disk /\ failed' = failed /\ SameFiles /\ job' = job /\ job.pc = "idle"
        /\ mem'.root = mem.root /\ mem'.fb = mem.fb /\ mem'.fi = mem.fi
        /\ mem'.vnodes[v0].ino = 0
        /\ \A w \in Vnode : w # v0 => mem'.vnodes[w] = mem.vnodes[w]
        /\ Ext2Types'
    BY CloseDoes
  <1>2. Ext2Types /\ Vnodes /\ failed \subseteq failed' /\ twice \subseteq twice'
    BY <1>1 DEF Ext2Inv, SameFiles
  <1>3. ASSUME NEW i \in Inode, NEW k \in 0..DirectPtrs, NEW b \in Block, Holds(i, k, b)'
        PROVE  Holds(i, k, b)
    BY <1>1, <1>3 DEF Holds, PtrOf
  <1>4. /\ Owned' /\ Kinds' /\ Roots' /\ Entered' /\ NamesOnce' /\ Counts' /\ Acks'
        /\ RootSynced' /\ SameRoot
    BY <1>1, <1>2, <1>3, VnodesOnly DEF SameFiles
  <1>5. Vnodes'
    <2>1. ASSUME NEW w \in Vnode PROVE VnodeFits(w)'
      <3>1. CASE w = v0
        BY <1>1, <3>1 DEF VnodeFits
      <3>2. CASE w # v0
        <4>1. VnodeFits(w) /\ mem'.vnodes[w] = mem.vnodes[w]
          BY <1>1, <1>2, <3>2 DEF Vnodes
        <4>2. PICK n, i : n = mem.vnodes[w].name /\ i = mem.vnodes[w].ino
          OBVIOUS
        <4>3. /\ WritesSound' => WritesSound
              /\ InodesSound' => InodesSound
          BY <1>2, SoundBefore
        <4>4. WritesSound' => (i # 0 => Named(n, i)')
          BY <1>4, <4>1, <4>2, <4>3, RootSame DEF VnodeFits
        <4>5. i # 0 /\ i \notin twice' => \A u \in Vnode : mem'.vnodes[u].ino = i => u = w
          BY <1>1, <4>1, <4>2 DEF VnodeFits, SameFiles
        <4>6. QED
          BY <1>1, <4>1, <4>2, <4>3, <4>4, <4>5 DEF VnodeFits, Ahead, PtrOf, SameFiles
      <3>3. QED
        BY <3>1, <3>2
    <2>2. QED
      BY <2>1 DEF Vnodes
  <1>6. JobFits'
    <2>1. job'.pc = "idle"
      BY <1>1
    <2>2. AllocFits' /\ MarkFits' /\ GotFits' /\ NewFileFits' /\ WriteFits'
      BY <2>1 DEF AllocFits, Allocating, AllocPcs, MarkFits, GotFits, NewFileFits, NewFile,
                  NewPcs, For, WriteFits, Writing, WritePcs
    <2>3. OpenFits'
      BY <1>4, <2>1 DEF OpenFits, RootSynced
    <2>4. QED
      BY <2>2, <2>3 DEF JobFits
  <1>7. QED
    BY <1>1, <1>4, <1>5, <1>6 DEF Ext2Inv

(* After a power cut memory has what the disk has, and no file is open. *)
LEMMA PowerCutStep == ASSUME Ext2Inv, PowerCut PROVE Ext2Inv'
  <1>1. /\ disk' = disk /\ failed' = failed /\ SameFiles /\ job' = NoJob
        /\ mem'.root = disk.itab[0] /\ mem'.fb = disk.fb /\ mem'.fi = disk.fi
        /\ \A v \in Vnode : mem'.vnodes[v].ino = 0
        /\ Ext2Types'
    BY PowerCutDoes
  <1>2. /\ Ext2Types /\ Owned /\ Kinds /\ Roots /\ Entered /\ NamesOnce /\ Counts /\ Acks
    BY DEF Ext2Inv
  <1>3. Owned' /\ Kinds'
    <2>1. ASSUME NEW i \in Inode, NEW k \in 0..DirectPtrs, NEW b \in Block, Holds(i, k, b)'
          PROVE  Holds(i, k, b)
      BY <1>1, <2>1 DEF Holds, PtrOf
    <2>2. QED
      BY <1>1, <1>2, <2>1, NoMoreRefs
  <1>4. MemUsed' = Used /\ \A k : EntryAt(k)' = Entry(k)
    BY <1>1 DEF MemUsed, Used, RootBlocks, EntryAt, Entry
  <1>5. /\ BitmapsSound' <=> BitmapsSound
        /\ InodesSound' <=> InodesSound
        /\ WritesSound' <=> WritesSound
        /\ AcksSound' <=> AcksSound
        /\ ReadsSound' <=> ReadsSound
    BY <1>1 DEF BitmapsSound, InodesSound, WritesSound, AcksSound, PointersSound, ReadsSound
  <1>6. Roots'
    <2>1. disk.itab[0].size \in 1..DirectPtrs /\ disk.itab[0].size \in 1..disk.itab[0].size
      BY <1>2, Numbers DEF Roots
    <2>2. RootBlocks \subseteq 0..(mem.root.size - 1)
      BY <1>2, Numbers DEF Roots, RootBlocks
    <2>3. \A k \in 0..(disk.itab[0].size - 1) : disk.itab[0].direct[k] # 0
      BY <1>2, <2>2 DEF Roots, RootBlocks
    <2>4. QED
      BY <1>1, <1>2, <1>5, <2>1, <2>3 DEF Roots, RootBlocks
  <1>7. Entered'
    <2>1. \A b \in Block : disk'.blk[b].ino = 0 <=> disk'.blk[b].name = ""
      BY <1>1, <1>2 DEF Entered
    <2>2. ASSUME InodesSound', NEW k \in Used
          PROVE  /\ disk'.itab[Entry(k).ino].live
                 /\ Entry(k).ino \in disk'.ibm
                 /\ \A l \in Used : Entry(l).ino = Entry(k).ino => l = k
      <3>1. k \in MemUsed /\ Entry(k) = EntryAt(k)
            /\ \A l \in Used : l \in MemUsed /\ Entry(l) = EntryAt(l)
        BY <1>2, UsedInMem
      <3>2. QED
        BY <1>1, <1>2, <1>5, <2>2, <3>1 DEF Entered
    <2>3. QED
      BY <1>4, <2>1, <2>2 DEF Entered
  <1>8. NamesOnce'
    BY <1>2, <1>4, <1>5, UsedInMem DEF NamesOnce
  <1>9. Vnodes'
    BY <1>1 DEF Vnodes, VnodeFits
  <1>10. Counts'
    BY <1>1, <1>2 DEF Counts, NoneHidden
  <1>11. Acks'
    <2>1. \A n, i : Named(n, i)' <=> Named(n, i)
      BY <1>1 DEF Named, Used, RootBlocks, Entry
    <2>2. QED
      BY <1>1, <1>2, <1>5, <2>1 DEF Acks, OnDisk, SameFiles
  <1>12. JobFits'
    BY <1>1, NoJobFits DEF RootSynced
  <1>13. QED
    BY <1>1, <1>3, <1>6, <1>7, <1>8, <1>9, <1>10, <1>11, <1>12 DEF Ext2Inv

-----------------------------------------------------------------------------
(* The steps that write blocks: who may have the block that is written. *)

(* The pointers that an acknowledged write goes by. *)
Place(lb) == IF lb < DirectPtrs THEN lb ELSE DirectPtrs + 1

(* The numbers of the pointers that logical blocks have. *)
LEMMA Places ==
    /\ \A lb \in Logical : Place(lb) \in PointerNo /\ Place(lb) # DirectPtrs
    /\ \A lb, m \in Logical : Place(lb) = Place(m) => lb = m
    /\ Place(0) = 0 /\ Place(DirectPtrs) = DirectPtrs + 1
    /\ DirectPtrs \in PointerNo /\ 0 \in PointerNo /\ DirectPtrs + 1 \in PointerNo
    /\ 0 # DirectPtrs /\ 0 # DirectPtrs + 1 /\ DirectPtrs # DirectPtrs + 1
    /\ 0 <= DirectPtrs /\ DirectPtrs <= DirectPtrs /\ ~(DirectPtrs + 1 <= DirectPtrs)
    /\ \A k \in PointerNo : k <= DirectPtrs \/ k = DirectPtrs + 1
    /\ \A k \in Direct : k \in PointerNo /\ k < DirectPtrs /\ k <= DirectPtrs /\ k # DirectPtrs
  BY Numbers DEF Place, Direct

(* An acknowledged block is reached by a pointer of its file. *)
LEMMA OnDiskRefs ==
    ASSUME Ext2Types, NEW n, NEW i \in Inode, NEW lb \in Logical, NEW p,
           NEW b \in Block, OnDisk(n, i, lb, p, b)
    PROVE  /\ Ref(i, Place(lb), b) /\ i # 0
           /\ ~(lb < DirectPtrs) => /\ disk.itab[i].ind \in Block
                                    /\ Ref(i, DirectPtrs, disk.itab[i].ind)
  <1>1. i # 0
    BY DEF OnDisk, Named, Used
  <1>2. CASE lb < DirectPtrs
    BY <1>1, <1>2, Numbers DEF OnDisk, Place, Ref, Holds, PtrOf
  <1>3. CASE ~(lb < DirectPtrs)
    <2>1. disk.itab[i].ind \in Block /\ disk.blk[disk.itab[i].ind].ptr = b
      BY <1>3, Parts DEF OnDisk, InodeSet, Ptr0
    <2>2. Holds(i, DirectPtrs, disk.itab[i].ind)
      BY Numbers DEF Holds, PtrOf
    <2>3. Ref(i, DirectPtrs, disk.itab[i].ind) /\ Ref(i, DirectPtrs + 1, b)
      BY <2>1, <2>2, Places DEF Ref
    <2>4. QED
      BY <1>1, <1>3, <2>1, <2>3 DEF Place
  <1>4. QED
    BY <1>2, <1>3

(* What is acknowledged stays on the disk, if the block that is written is *)
(* nobody's, or holds again what it held of the files that lead to it.     *)
LEMMA AcksStay ==
    ASSUME Ext2Inv, NEW w, NEW b0 \in Block, NEW x, BlockWritten(w, b0, x), SameFiles,
           \A n, i : WritesSound' /\ Named(n, i) => Named(n, i)',
           AcksSound' => \A i \in Inode \ {0}, lb \in Logical, p \in Part :
                            Ref(i, Place(lb), b0) /\ <<i, lb, p>> \in disk.blk[b0].of =>
                               <<i, lb, p>> \in x.of,
           WritesSound' => \A i \in Inode \ {0} :
                              Ref(i, DirectPtrs, b0) => disk.blk[b0].ptr = 0
    PROVE  Acks'
  <1>1. Ext2Types /\ Acks
    BY DEF Ext2Inv
  <1>2. /\ disk'.itab = disk.itab /\ failed \subseteq failed'
        /\ \A c \in Block : disk'.blk[c] = disk.blk[c] \/ (c = b0 /\ disk'.blk[c] = x)
    BY DEF BlockWritten
  <1>3. ASSUME AcksSound', NEW n \in Name0, NEW i \in Inode, NEW lb \in Logical,
               NEW p \in Part, <<n, i, lb, p>> \in acked, i \notin twice
        PROVE  \E b \in Block : OnDisk(n, i, lb, p, b)'
    <2>1. PICK b \in Block : OnDisk(n, i, lb, p, b)
      BY <1>1, <1>2, <1>3, SoundBefore DEF Acks
    <2>2. Named(n, i)' /\ WritesSound'
      BY <1>3, <2>1 DEF OnDisk, AcksSound
    <2>3. /\ Ref(i, Place(lb), b) /\ i # 0
          /\ ~(lb < DirectPtrs) => /\ disk.itab[i].ind \in Block
                                   /\ Ref(i, DirectPtrs, disk.itab[i].ind)
      BY <1>1, <2>1, OnDiskRefs
    <2>4. <<i, lb, p>> \in disk'.blk[b].of
      BY <1>2, <1>3, <2>1, <2>3 DEF OnDisk
    <2>5. ~(lb < DirectPtrs) => disk'.blk[disk.itab[i].ind].ptr = b
      <3>1. 0 \notin Block
        BY Numbers
      <3>2. QED
        BY <1>2, <2>1, <2>2, <2>3, <3>1 DEF OnDisk
    <2>6. OnDisk(n, i, lb, p, b)'
      BY <1>2, <2>1, <2>2, <2>4, <2>5 DEF OnDisk
    <2>7. QED
      BY <2>6
  <1>4. QED
    BY <1>3 DEF Acks, SameFiles

(* One new pointer to a block that is marked and nobody's. *)
LEMMA OneMoreRef ==
    ASSUME Owned, failed \subseteq failed', disk'.bbm = disk.bbm,
           NEW i0 \in Inode, NEW k0 \in PointerNo, NEW b0 \in Block,
           PointersSound' => /\ b0 \in disk.bbm
                             /\ \A i \in Inode, k \in PointerNo : ~Ref(i, k, b0),
           PointersSound' => \A i \in Inode, k \in PointerNo, b \in Block :
                                Ref(i, k, b)' => Ref(i, k, b) \/ (i = i0 /\ k = k0 /\ b = b0)
    PROVE  Owned'
  <1>1. PointersSound' => PointersSound
    BY SoundBefore
  <1>2. SUFFICES ASSUME PointersSound',
                        NEW i \in Inode, NEW j \in Inode, NEW k \in PointerNo,
                        NEW l \in PointerNo, NEW b \in Block, Ref(i, k, b)'
                 PROVE  b \in disk'.bbm /\ (Ref(j, l, b)' => i = j /\ k = l)
    BY DEF Owned
  <1>3. CASE b = b0
    BY <1>2, <1>3
  <1>4. CASE b # b0
    BY <1>1, <1>2, <1>4 DEF Owned
  <1>5. QED
    BY <1>3, <1>4

(* No pointer is new. *)
LEMMA NoNewRef ==
    ASSUME Owned, failed \subseteq failed', disk'.bbm = disk.bbm,
           PointersSound' => \A i \in Inode, k \in PointerNo, b \in Block :
                                Ref(i, k, b)' => Ref(i, k, b)
    PROVE  Owned'
  BY SoundBefore DEF Owned

(* The pointers behind those that inodes have, when a block is written     *)
(* that holds no pointer.                                                  *)
LEMMA RefsFromHolds ==
    ASSUME NEW i0 \in Inode, NEW k0 \in 0..DirectPtrs, NEW b0 \in Block,
           \A i \in Inode, k \in 0..DirectPtrs, b \in Block :
              Holds(i, k, b)' => Holds(i, k, b) \/ (i = i0 /\ k = k0 /\ b = b0),
           \A c \in Block : disk'.blk[c].ptr = disk.blk[c].ptr \/ disk'.blk[c].ptr = 0,
           k0 = DirectPtrs => disk'.blk[b0].ptr = 0
    PROVE  \A i \in Inode, k \in PointerNo, b \in Block :
              Ref(i, k, b)' => Ref(i, k, b) \/ (i = i0 /\ k = k0 /\ b = b0)
  <1>1. SUFFICES ASSUME NEW i \in Inode, NEW k \in PointerNo, NEW b \in Block, Ref(i, k, b)'
                 PROVE  Ref(i, k, b) \/ (i = i0 /\ k = k0 /\ b = b0)
    OBVIOUS
  <1>2. 0 \notin Block /\ DirectPtrs \in 0..DirectPtrs /\ (k <= DirectPtrs => k \in 0..DirectPtrs)
    BY Numbers
  <1>3. CASE k <= DirectPtrs
    BY <1>1, <1>2, <1>3 DEF Ref
  <1>4. CASE ~(k <= DirectPtrs)
    <2>1. PICK c \in Block : Holds(i, DirectPtrs, c)' /\ disk'.blk[c].ptr = b
      BY <1>1, <1>4 DEF Ref
    <2>2. disk.blk[c].ptr = b
      BY <1>2, <2>1
    <2>3. Holds(i, DirectPtrs, c)
      BY <1>2, <2>1
    <2>4. QED
      BY <1>4, <2>2, <2>3 DEF Ref
  <1>5. QED
    BY <1>3, <1>4

(* The blocks that hold pointers. *)
LEMMA KindsStay ==
    ASSUME Kinds, failed \subseteq failed',
           PointersSound' => \A i \in Inode, b \in Block :
              Holds(i, DirectPtrs, b)' => \/ Holds(i, DirectPtrs, b) /\ disk'.blk[b] = disk.blk[b]
                                          \/ disk'.blk[b].kind = "ptr"
    PROVE  Kinds'
  BY SoundBefore DEF Kinds

(* The vnodes, when no inode on the disk changes. *)
LEMMA VnodesStay ==
    ASSUME Ext2Inv, disk'.itab = disk.itab, failed \subseteq failed', twice' = twice,
           \A n, i : WritesSound' /\ Named(n, i) => Named(n, i)',
           \A v \in Vnode :
              /\ mem'.vnodes[v].ino = mem.vnodes[v].ino
              /\ mem'.vnodes[v].name = mem.vnodes[v].name
              /\ mem'.vnodes[v].inode.live = mem.vnodes[v].inode.live
              /\ mem.vnodes[v].ino # 0 /\ mem.vnodes[v].ino \notin twice =>
                    Ahead(mem'.vnodes[v].inode, disk.itab[mem.vnodes[v].ino])
    PROVE  Vnodes'
  <1>1. /\ WritesSound' => WritesSound
        /\ InodesSound' => InodesSound
    BY SoundBefore
  <1>2. ASSUME NEW v \in Vnode PROVE VnodeFits(v)'
    <2>1. VnodeFits(v)
      BY DEF Ext2Inv, Vnodes
    <2>2. PICK n, i : n = mem.vnodes[v].name /\ i = mem.vnodes[v].ino
      OBVIOUS
    <2>3. WritesSound' => (i # 0 => Named(n, i)')
      BY <1>1, <2>1, <2>2 DEF VnodeFits
    <2>4. QED
      BY <1>1, <2>1, <2>2, <2>3, SMTT(30) DEF VnodeFits, Ahead, PtrOf
  <1>3. QED
    BY <1>2 DEF Vnodes

(* The blocks of the directory. *)
LEMMA DirBlocks ==
    ASSUME Ext2Types, Roots
    PROVE  /\ \A k \in 0..(mem.root.size - 1) : k \in Direct /\ mem.root.direct[k] \in Block
           /\ \A k \in RootBlocks : /\ k \in Direct /\ k \in 0..(mem.root.size - 1)
                                    /\ disk.itab[0].direct[k] = mem.root.direct[k]
                                    /\ disk.itab[0].direct[k] \in Block
  <1>1. mem.root.direct \in [Direct -> Ptr0]
    BY Parts DEF InodeSet
  <1>2. mem.root.size \in 1..DirectPtrs /\ disk.itab[0].size \in 1..mem.root.size
    BY DEF Roots
  <1>3. \A k \in 0..(mem.root.size - 1) : k \in Direct
    BY <1>2, Numbers DEF Direct
  <1>4. \A k \in 0..(mem.root.size - 1) : mem.root.direct[k] \in Block
    BY <1>1, <1>3 DEF Roots, Ptr0
  <1>5. RootBlocks \subseteq 0..(mem.root.size - 1)
    BY <1>2, Numbers DEF RootBlocks
  <1>6. QED
    BY <1>3, <1>4, <1>5 DEF Roots

(* The directory's blocks, when no inode changes. *)
LEMMA RootsStay ==
    ASSUME Roots, mem'.root = mem.root, disk'.itab = disk.itab, disk'.bbm = disk.bbm,
           failed \subseteq failed'
    PROVE  Roots'
  <1>1. BitmapsSound' => BitmapsSound
    BY SoundBefore
  <1>2. QED
    BY <1>1 DEF Roots, RootBlocks, RootOwns

(* A block that is written without an entry takes none away that counts. *)
LEMMA DataWrite ==
    ASSUME Ext2Inv, NEW w, NEW b0 \in Block, NEW x, BlockWritten(w, b0, x),
           x.ino = 0, x.name = "", mem'.root = mem.root,
           PointersSound' => \A k \in Direct : ~Ref(0, k, b0)
    PROVE  /\ Roots' /\ Entered' /\ NamesOnce'
           /\ \A n, i : WritesSound' /\ Named(n, i) => Named(n, i)'
           /\ job.pc # "root" => RootSynced'
  <1>1. Ext2Types /\ Roots /\ Entered /\ NamesOnce /\ OpenFits
    BY DEF Ext2Inv, JobFits
  <1>2. /\ disk'.itab = disk.itab /\ disk'.bbm = disk.bbm /\ disk'.ibm = disk.ibm
        /\ failed \subseteq failed'
        /\ \A c \in Block : disk'.blk[c] = disk.blk[c] \/ (c = b0 /\ disk'.blk[c] = x)
    BY DEF BlockWritten
  <1>3. /\ BitmapsSound' => BitmapsSound
        /\ InodesSound' => InodesSound
        /\ WritesSound' => WritesSound /\ PointersSound'
        /\ ReadsSound' => ReadsSound
    BY <1>2, SoundBefore
  <1>4. Roots'
    BY <1>1, <1>2, RootsStay
  <1>5. ASSUME NEW k \in MemUsed' PROVE k \in MemUsed /\ EntryAt(k)' = EntryAt(k)
    <2>1. k \in 0..(mem.root.size - 1) /\ disk'.blk[mem.root.direct[k]].ino # 0
      BY DEF MemUsed, EntryAt
    <2>2. mem.root.direct[k] \in Block
      BY <1>1, <2>1, DirBlocks
    <2>3. disk'.blk[mem.root.direct[k]] = disk.blk[mem.root.direct[k]]
      BY <1>2, <2>1, <2>2
    <2>4. QED
      BY <2>1, <2>3 DEF MemUsed, EntryAt
  <1>6. Entered'
    <2>1. \A b \in Block : disk'.blk[b].ino = 0 <=> disk'.blk[b].name = ""
      BY <1>1, <1>2 DEF Entered
    <2>2. QED
      BY <1>1, <1>2, <1>3, <1>5, <2>1 DEF Entered
  <1>7. NamesOnce'
    BY <1>1, <1>3, <1>5 DEF NamesOnce
  <1>8. ASSUME WritesSound', NEW n, NEW i, Named(n, i) PROVE Named(n, i)'
    <2>1. PICK k \in Used : Entry(k).name = n /\ Entry(k).ino = i
      BY <1>8 DEF Named
    <2>2. k \in RootBlocks /\ k \in Direct /\ disk.itab[0].direct[k] \in Block
      BY <1>1, DirBlocks DEF Used
    <2>3. Ref(0, k, disk.itab[0].direct[k])
      BY <2>2, Places DEF Ref, Holds, PtrOf
    <2>4. disk.itab[0].direct[k] # b0
      BY <1>3, <1>8, <2>2, <2>3
    <2>5. Entry(k)' = Entry(k)
      BY <1>2, <2>2, <2>4 DEF Entry
    <2>6. k \in Used'
      BY <1>2, <2>2, <2>5 DEF Used, RootBlocks
    <2>7. QED
      BY <2>1, <2>5, <2>6 DEF Named
  <1>9. job.pc # "root" => RootSynced'
    BY <1>1, <1>2, <1>3 DEF OpenFits, RootSynced
  <1>10. QED
    BY <1>4, <1>6, <1>7, <1>8, <1>9

(* The block becomes the indirect one of a file that had none. *)
LEMMA ZeroPointersStep == ASSUME Ext2Inv, ZeroPointers PROVE Ext2Inv'
  <1>1. /\ job.pc = "zero" /\ job' = [job EXCEPT !.pc = "pointers"]
        /\ BlockWritten("pointer write", job.b, PtrBlock(0))
        /\ OneCopy /\ Copy' = [Copy EXCEPT !.ind = job.b]
        /\ SameFiles /\ Ext2Types'
    BY ZeroPointersDoes
  <1>2. PICK b0 \in Block : b0 = job.b
    BY ZeroPointersDoes
  <1>3. PICK v0 \in Vnode : v0 = job.v
    BY ZeroPointersDoes
  <1>4. PICK i0 \in Inode : i0 = job.ino
    BY DEF Ext2Inv, Ext2Types, JobSet
  <1>5. PICK x : x = PtrBlock(0)
    OBVIOUS
  <1>6. /\ BlockWritten("pointer write", b0, x)
        /\ x.ino = 0 /\ x.name = "" /\ x.ptr = 0 /\ x.kind = "ptr"
    BY <1>1, <1>2, <1>5, Written
  <1>7. /\ disk'.itab = disk.itab /\ disk'.bbm = disk.bbm /\ failed \subseteq failed'
        /\ \A c \in Block : disk'.blk[c] = disk.blk[c] \/ (c = b0 /\ disk'.blk[c] = x)
        /\ PointersSound' => disk'.blk[b0] = x
    BY <1>6 DEF BlockWritten, PointersSound
  <1>8. /\ Ext2Types /\ Owned /\ Kinds /\ Vnodes /\ Counts /\ WriteFits /\ GotFits
    BY DEF Ext2Inv, JobFits
  <1>9. /\ mem.vnodes[v0].ino = i0 /\ i0 # 0 /\ mem.vnodes[v0].name = job.name
        /\ job.lb = DirectPtrs /\ mem.vnodes[v0].inode.ind = 0 /\ BlockIsNew
    BY <1>1, <1>3, <1>4, <1>8 DEF WriteFits, GotFits, Writing, WritePcs, For, Copy
  <1>10. /\ PointersSound' => PointersSound /\ BitmapsSound
         /\ WritesSound' => PointersSound'
    BY <1>7, SoundBefore DEF PointersSound
  <1>11. PointersSound' => /\ b0 \in disk.bbm
                           /\ \A i \in Inode, k \in PointerNo : ~Ref(i, k, b0)
    BY <1>2, <1>9, <1>10 DEF BlockIsNew
  <1>12. /\ mem'.root = mem.root /\ mem'.fb = mem.fb /\ mem'.fi = mem.fi
         /\ \A v \in Vnode : /\ mem'.vnodes[v].ino = mem.vnodes[v].ino
                             /\ mem'.vnodes[v].name = mem.vnodes[v].name
                             /\ v # v0 => mem'.vnodes[v] = mem.vnodes[v]
    BY <1>1, <1>3 DEF OneCopy
  <1>13. /\ job'.pc = "pointers" /\ job'.v = v0 /\ job'.ino = i0 /\ job'.name = job.name
         /\ job'.lb = DirectPtrs
    BY <1>1, <1>3, <1>4, <1>8, <1>9, JobAt DEF WritePcs
  <1>14. mem.vnodes[v0].inode \in InodeSet
    BY <1>8, Parts DEF VnodeSet
  <1>15. /\ mem'.vnodes[v0].inode.live = mem.vnodes[v0].inode.live
         /\ mem'.vnodes[v0].inode.size = mem.vnodes[v0].inode.size
         /\ mem'.vnodes[v0].inode.direct = mem.vnodes[v0].inode.direct
         /\ mem'.vnodes[v0].inode.ind = b0
    <2>1. PICK c0 \in InodeSet : c0 = mem.vnodes[v0].inode
      BY <1>14
    <2>2. Copy' = mem'.vnodes[v0].inode /\ Copy = c0
      BY <1>3, <1>13, <2>1 DEF Copy
    <2>3. mem'.vnodes[v0].inode = [c0 EXCEPT !.ind = b0]
      BY <1>1, <1>2, <2>2
    <2>4. QED
      BY <2>1, <2>3 DEF InodeSet
  <1>16. /\ \A k \in 0..DirectPtrs : k < DirectPtrs =>
               PtrOf(mem'.vnodes[v0].inode, k) = PtrOf(mem.vnodes[v0].inode, k)
         /\ PtrOf(mem'.vnodes[v0].inode, DirectPtrs) = b0
         /\ PtrOf(mem.vnodes[v0].inode, DirectPtrs) = 0
         /\ \A k \in 0..DirectPtrs : k < DirectPtrs \/ k = DirectPtrs
    BY <1>9, <1>15, Numbers DEF PtrOf
  <1>17. /\ Roots' /\ Entered' /\ NamesOnce' /\ RootSynced'
         /\ \A n, i : WritesSound' /\ Named(n, i) => Named(n, i)'
    BY <1>1, <1>6, <1>11, <1>12, DataWrite, Places, Numbers
  <1>18. ASSUME NEW i \in Inode, NEW k \in 0..DirectPtrs, NEW b \in Block, Holds(i, k, b)'
         PROVE  Holds(i, k, b) \/ (i = i0 /\ k = DirectPtrs /\ b = b0)
    <2>1. CASE PtrOf(disk'.itab[i], k) = b \/ (i = 0 /\ PtrOf(mem'.root, k) = b)
      BY <1>7, <1>12, <2>1 DEF Holds, PtrOf
    <2>2. CASE \E v \in Vnode : /\ v # v0 /\ mem'.vnodes[v].ino # 0 /\ mem'.vnodes[v].ino = i
                                /\ PtrOf(mem'.vnodes[v].inode, k) = b
      BY <1>12, <2>2 DEF Holds
    <2>3. CASE mem'.vnodes[v0].ino = i /\ PtrOf(mem'.vnodes[v0].inode, k) = b
      <3>1. i = i0
        BY <1>9, <1>12, <2>3
      <3>2. k < DirectPtrs => Holds(i, k, b)
        BY <1>9, <1>16, <2>3, <3>1 DEF Holds
      <3>3. QED
        BY <1>16, <2>3, <3>1, <3>2
    <2>4. QED
      BY <1>18, <2>1, <2>2, <2>3 DEF Holds, PtrOf
  <1>19. DirectPtrs \in 0..DirectPtrs /\ DirectPtrs \in PointerNo
    BY Numbers
  <1>20. Owned'
    <2>1. ASSUME PointersSound'
          PROVE  \A i \in Inode, k \in PointerNo, b \in Block :
                    Ref(i, k, b)' => Ref(i, k, b) \/ (i = i0 /\ k = DirectPtrs /\ b = b0)
      <3>1. \A c \in Block : disk'.blk[c].ptr = disk.blk[c].ptr \/ disk'.blk[c].ptr = 0
        BY <1>6, <1>7
      <3>2. disk'.blk[b0].ptr = 0
        BY <1>6, <1>7, <2>1
      <3>3. QED
        BY <1>18, <1>19, <3>1, <3>2, RefsFromHolds
    <2>2. QED
      BY <1>7, <1>8, <1>11, <1>19, <2>1, OneMoreRef
  <1>21. Kinds'
    <2>1. ASSUME PointersSound', NEW i \in Inode, NEW b \in Block, Holds(i, DirectPtrs, b)'
          PROVE  \/ Holds(i, DirectPtrs, b) /\ disk'.blk[b] = disk.blk[b]
                 \/ disk'.blk[b].kind = "ptr"
      BY <1>6, <1>7, <1>18, <1>19, <2>1
    <2>2. QED
      BY <1>7, <1>8, <2>1, KindsStay
  <1>22. Vnodes'
    <2>1. ASSUME NEW v \in Vnode, mem.vnodes[v].ino # 0, mem.vnodes[v].ino \notin twice
          PROVE  Ahead(mem'.vnodes[v].inode, disk.itab[mem.vnodes[v].ino])
      <3>1. Ahead(mem.vnodes[v].inode, disk.itab[mem.vnodes[v].ino])
        BY <1>8, <2>1 DEF Vnodes, VnodeFits
      <3>2. CASE v # v0
        BY <1>12, <3>1, <3>2
      <3>3. CASE v = v0
        BY <1>15, <1>16, <3>1, <3>3 DEF Ahead
      <3>4. QED
        BY <3>2, <3>3
    <2>2. \A v \in Vnode : mem'.vnodes[v].inode.live = mem.vnodes[v].inode.live
      BY <1>12, <1>15
    <2>3. QED
      BY <1>1, <1>7, <1>12, <1>17, <2>1, <2>2, VnodesStay DEF SameFiles
  <1>23. Counts'
    BY <1>6, <1>8, <1>12, CountsKept DEF BlockWritten
  <1>24. Acks'
    BY <1>1, <1>6, <1>10, <1>11, <1>17, <1>19, Places, AcksStay DEF AcksSound
  <1>25. JobFits'
    <2>1. AllocFits' /\ MarkFits' /\ GotFits' /\ NewFileFits'
      BY <1>13 DEF AllocFits, Allocating, AllocPcs, MarkFits, GotFits, NewFileFits, NewFile,
                   NewPcs, For
    <2>2. OpenFits'
      BY <1>13, <1>17 DEF OpenFits, RootSynced
    <2>3. b0 # 0 /\ DirectPtrs \in Logical
      BY Numbers
    <2>4. mem'.vnodes[job'.v] = mem'.vnodes[v0]
      BY <1>13
    <2>5. WriteFits'
      BY <1>9, <1>12, <1>13, <1>15, <2>3, <2>4
         DEF WriteFits, Writing, WritePcs, Allocating, AllocPcs, For, Copy
    <2>6. QED
      BY <2>1, <2>2, <2>5 DEF JobFits
  <1>26. QED
    BY <1>1, <1>17, <1>20, <1>21, <1>22, <1>23, <1>24, <1>25 DEF Ext2Inv

(* A pointer is entered in the indirect block of a file. *)
LEMMA WritePointerStep == ASSUME Ext2Inv, WritePointer PROVE Ext2Inv'
  <1>1. /\ job.pc = "pointer" /\ job' = [job EXCEPT !.pc = "data"]
        /\ job.b \in Block /\ Copy.ind \in Block
        /\ BlockWritten("pointer write", Copy.ind, PtrBlock(job.b))
        /\ mem' = mem /\ SameFiles /\ Ext2Types'
    BY WritePointerDoes
  <1>2. PICK b0 \in Block : b0 = Copy.ind
    BY <1>1
  <1>3. PICK v0 \in Vnode : v0 = job.v
    BY WritePointerDoes
  <1>4. PICK i0 \in Inode : i0 = job.ino
    BY DEF Ext2Inv, Ext2Types, JobSet
  <1>5. PICK b1 \in Block : b1 = job.b
    BY <1>1
  <1>6. PICK x : x = PtrBlock(b1)
    OBVIOUS
  <1>7. /\ BlockWritten("pointer write", b0, x)
        /\ x.ino = 0 /\ x.name = "" /\ x.ptr = b1 /\ x.kind = "ptr"
    BY <1>1, <1>2, <1>5, <1>6, Written
  <1>8. /\ disk'.itab = disk.itab /\ disk'.bbm = disk.bbm /\ failed \subseteq failed'
        /\ \A c \in Block : disk'.blk[c] = disk.blk[c] \/ (c = b0 /\ disk'.blk[c] = x)
        /\ PointersSound' => disk'.blk[b0] = x
    BY <1>7 DEF BlockWritten, PointersSound
  <1>9. /\ Ext2Types /\ Owned /\ Kinds /\ Vnodes /\ Counts /\ WriteFits /\ GotFits
    BY DEF Ext2Inv, JobFits
  <1>10. /\ mem.vnodes[v0].ino = i0 /\ i0 # 0 /\ mem.vnodes[v0].name = job.name
         /\ job.lb = DirectPtrs /\ mem.vnodes[v0].inode.ind = b0 /\ BlockIsNew
         /\ PointersSound => disk.blk[b0].ptr = 0
    BY <1>1, <1>2, <1>3, <1>4, <1>9 DEF WriteFits, GotFits, Writing, WritePcs, For, Copy
  <1>11. /\ PointersSound' => PointersSound /\ BitmapsSound
         /\ WritesSound' => PointersSound'
    BY <1>8, SoundBefore DEF PointersSound
  <1>12. PointersSound' => /\ b1 \in disk.bbm
                           /\ \A i \in Inode, k \in PointerNo : ~Ref(i, k, b1)
    BY <1>5, <1>10, <1>11 DEF BlockIsNew
  <1>13. Holds(i0, DirectPtrs, b0) /\ Ref(i0, DirectPtrs, b0)
    <2>1. PtrOf(mem.vnodes[v0].inode, DirectPtrs) = b0
      BY <1>10, Numbers DEF PtrOf
    <2>2. QED
      BY <1>10, <2>1, Places DEF Ref, Holds
  <1>14. PointersSound' => \A i \in Inode, k \in PointerNo :
                              Ref(i, k, b0) => i = i0 /\ k = DirectPtrs
    BY <1>9, <1>11, <1>13, Places DEF Owned
  <1>15. /\ Roots' /\ Entered' /\ NamesOnce' /\ RootSynced'
         /\ \A n, i : WritesSound' /\ Named(n, i) => Named(n, i)'
    <2>1. PointersSound' => \A k \in Direct : ~Ref(0, k, b0)
      BY <1>10, <1>14, Places, Numbers
    <2>2. QED
      BY <1>1, <1>7, <2>1, DataWrite
  <1>16. \A i, k, b : Holds(i, k, b)' <=> Holds(i, k, b)
    <2>1. mem' = mem /\ disk'.itab = disk.itab
      BY <1>1, <1>8
    <2>2. QED
      BY <2>1 DEF Holds, PtrOf
  <1>17. Owned'
    <2>1. ASSUME PointersSound', NEW i \in Inode, NEW k \in PointerNo, NEW b \in Block,
                 Ref(i, k, b)'
          PROVE  Ref(i, k, b) \/ (i = i0 /\ k = DirectPtrs + 1 /\ b = b1)
      <3>1. CASE k <= DirectPtrs
        BY <1>16, <2>1, <3>1 DEF Ref
      <3>2. CASE ~(k <= DirectPtrs)
        <4>1. PICK c \in Block : Holds(i, DirectPtrs, c) /\ disk'.blk[c].ptr = b
          BY <1>16, <2>1, <3>2 DEF Ref
        <4>2. k = DirectPtrs + 1
          BY <3>2, Places
        <4>3. CASE c = b0
          <5>1. Ref(i, DirectPtrs, b0)
            BY <4>1, <4>3, Places DEF Ref
          <5>2. i = i0 /\ b = b1
            BY <1>7, <1>8, <1>14, <2>1, <4>1, <4>3, <5>1, Places
          <5>3. QED
            BY <4>2, <5>2
        <4>4. CASE c # b0
          BY <1>8, <3>2, <4>1, <4>4 DEF Ref
        <4>5. QED
          BY <4>3, <4>4
      <3>3. QED
        BY <3>1, <3>2
    <2>2. QED
      BY <1>8, <1>9, <1>12, <2>1, Places, OneMoreRef
  <1>18. Kinds'
    <2>1. ASSUME PointersSound', NEW i \in Inode, NEW b \in Block, Holds(i, DirectPtrs, b)'
          PROVE  \/ Holds(i, DirectPtrs, b) /\ disk'.blk[b] = disk.blk[b]
                 \/ disk'.blk[b].kind = "ptr"
      BY <1>7, <1>8, <1>16, <2>1
    <2>2. QED
      BY <1>8, <1>9, <2>1, KindsStay
  <1>19. Vnodes'
    <2>1. \A v \in Vnode : mem.vnodes[v].ino # 0 /\ mem.vnodes[v].ino \notin twice =>
             Ahead(mem.vnodes[v].inode, disk.itab[mem.vnodes[v].ino])
      BY <1>9 DEF Vnodes, VnodeFits
    <2>2. QED
      BY <1>1, <1>8, <1>15, <2>1, VnodesStay DEF SameFiles
  <1>20. Counts'
    BY <1>1, <1>7, <1>9, CountsKept DEF BlockWritten
  <1>21. Acks'
    <2>1. AcksSound' => \A i \in Inode \ {0}, lb \in Logical : ~Ref(i, Place(lb), b0)
      BY <1>11, <1>14, Places DEF AcksSound
    <2>2. WritesSound' => disk.blk[b0].ptr = 0
      BY <1>10, <1>11
    <2>3. QED
      BY <1>1, <1>7, <1>15, <2>1, <2>2, AcksStay
  <1>22. /\ job'.pc = "data" /\ job'.v = v0 /\ job'.ino = i0 /\ job'.name = job.name
         /\ job'.lb = DirectPtrs /\ job'.b = b1
    BY <1>1, <1>3, <1>4, <1>5, <1>9, <1>10, JobAt DEF WritePcs
  <1>23. JobFits'
    <2>1. AllocFits' /\ MarkFits' /\ GotFits' /\ NewFileFits'
      BY <1>22 DEF AllocFits, Allocating, AllocPcs, MarkFits, GotFits, NewFileFits, NewFile,
                   NewPcs, For
    <2>2. OpenFits'
      BY <1>15, <1>22 DEF OpenFits, RootSynced
    <2>3. b0 # 0 /\ DirectPtrs \in Logical
      BY Numbers
    <2>4. mem'.vnodes[job'.v] = mem.vnodes[v0]
      BY <1>1, <1>22
    <2>5. PointersSound' => disk'.blk[b0].ptr = b1
      BY <1>7, <1>8
    <2>6. WriteFits'
      BY <1>10, <1>22, <2>3, <2>4, <2>5
         DEF WriteFits, Writing, WritePcs, Allocating, AllocPcs, For, Copy
    <2>7. QED
      BY <2>1, <2>2, <2>6 DEF JobFits
  <1>24. QED
    BY <1>1, <1>15, <1>17, <1>18, <1>19, <1>20, <1>21, <1>23 DEF Ext2Inv

(* The data is written, to a block of the file's own or to a new one, that *)
(* its inode copy has from now on.                                         *)
LEMMA WriteDataStep == ASSUME Ext2Inv, WriteData PROVE Ext2Inv'
  <1>1. /\ (job.pc = "data" /\ Whole) \/ job.pc = "merged"
        /\ job.b \in Block /\ job.lb \in Logical
        /\ BlockWritten("other", job.b, Merged)
        /\ OneCopy /\ SameFiles /\ Ext2Types'
    BY WriteDataDoes
  <1>2. PICK b0 \in Block : b0 = job.b
    BY <1>1
  <1>3. PICK v0 \in Vnode : v0 = job.v
    BY WriteDataDoes
  <1>4. PICK i0 \in Inode : i0 = job.ino
    BY DEF Ext2Inv, Ext2Types, JobSet
  <1>5. PICK l0 \in Logical : l0 = job.lb
    BY <1>1
  <1>6. PICK x : x = Merged
    OBVIOUS
  <1>7. /\ BlockWritten("other", b0, x)
        /\ x.ino = 0 /\ x.name = "" /\ x.ptr = 0
        /\ \A p \in job.part : <<i0, l0, p>> \in x.of
        /\ AcksSound => \A p \in Part : <<i0, l0, p>> \in disk.blk[b0].of =>
                          <<i0, l0, p>> \in x.of
    <2>1. Ext2Types /\ WriteFits
      BY DEF Ext2Inv, JobFits
    <2>2. BlockWritten("other", b0, x)
      BY <1>1, <1>2, <1>6
    <2>3. QED
      BY <1>1, <1>2, <1>4, <1>5, <1>6, <2>1, <2>2, MergedDoes
  <1>8. /\ disk'.itab = disk.itab /\ disk'.bbm = disk.bbm /\ failed \subseteq failed'
        /\ \A c \in Block : disk'.blk[c] = disk.blk[c] \/ (c = b0 /\ disk'.blk[c] = x)
    BY <1>7 DEF BlockWritten
  <1>9. /\ Ext2Types /\ Owned /\ Kinds /\ Vnodes /\ Counts /\ WriteFits
    BY DEF Ext2Inv, JobFits
  <1>10. PICK c0 \in InodeSet : c0 = mem.vnodes[v0].inode
    BY <1>9, Parts DEF VnodeSet
  <1>11. Copy = c0
    BY <1>3, <1>10 DEF Copy
  <1>12. /\ mem.vnodes[v0].ino = i0 /\ i0 # 0 /\ mem.vnodes[v0].name = job.name
         /\ \/ l0 = 0 /\ c0.direct[0] = b0
            \/ l0 = 0 /\ c0.direct[0] = 0 /\ BlockIsNew
            \/ l0 = DirectPtrs /\ c0.ind # 0 /\ (PointersSound => disk.blk[c0.ind].ptr = b0)
    BY <1>1, <1>2, <1>3, <1>4, <1>5, <1>9, <1>11 DEF WriteFits, Writing, WritePcs
  <1>13. PICK c1 : c1 = mem'.vnodes[v0].inode
    OBVIOUS
  <1>14. /\ c1.live = c0.live /\ c1.ind = c0.ind
         /\ l0 = 0 => c1.direct = [c0.direct EXCEPT ![0] = b0]
         /\ l0 # 0 => c1.direct = c0.direct
         /\ c1.size >= c0.size
         /\ \/ job' = NoJob
            \/ /\ job' = [job EXCEPT !.pc = "inode"]
               /\ c1.size > l0
               /\ disk'.blk[b0] = x
    <2>1. mem'.vnodes[job.v].inode = c1
      BY <1>3, <1>13
    <2>2. QED
      BY <1>2, <1>4, <1>5, <1>6, <1>11, <2>1, WriteDataDoes
  <1>15. /\ PointersSound' => PointersSound /\ BitmapsSound
         /\ WritesSound' => PointersSound'
    BY <1>8, SoundBefore DEF PointersSound
  <1>16. /\ mem'.root = mem.root /\ mem'.fb = mem.fb /\ mem'.fi = mem.fi
         /\ \A v \in Vnode : /\ mem'.vnodes[v].ino = mem.vnodes[v].ino
                             /\ mem'.vnodes[v].name = mem.vnodes[v].name
                             /\ v # v0 => mem'.vnodes[v] = mem.vnodes[v]
    BY <1>1, <1>3 DEF OneCopy
  <1>17. /\ PtrOf(c1, DirectPtrs) = c0.ind /\ PtrOf(c0, DirectPtrs) = c0.ind
         /\ PtrOf(c0, 0) = c0.direct[0]
         /\ \A k \in 0..DirectPtrs : \/ PtrOf(c1, k) = PtrOf(c0, k)
                                     \/ l0 = 0 /\ k = 0 /\ PtrOf(c1, k) = b0
    <2>1. c0.direct \in [Direct -> Ptr0]
      BY DEF InodeSet
    <2>2. /\ 0 \in Direct /\ 0 < DirectPtrs /\ ~(DirectPtrs < DirectPtrs)
          /\ \A k \in 0..DirectPtrs : k < DirectPtrs => k \in Direct
      BY Numbers DEF Direct
    <2>3. \A k \in Direct : c1.direct[k] = c0.direct[k] \/ (l0 = 0 /\ k = 0 /\ c1.direct[k] = b0)
      BY <1>14, <2>1
    <2>4. QED
      BY <1>14, <2>2, <2>3 DEF PtrOf
  <1>18. PointersSound' => \A i \in Inode, k \in PointerNo :
                              Ref(i, k, b0) => i = i0 /\ k = Place(l0)
    <2>1. ASSUME PointersSound', NEW i \in Inode, NEW k \in PointerNo, Ref(i, k, b0)
          PROVE  i = i0 /\ k = Place(l0)
      <3>1. CASE l0 = 0 /\ c0.direct[0] = b0
        <4>1. Holds(i0, 0, b0)
          BY <1>10, <1>12, <1>17, <3>1 DEF Holds
        <4>2. Ref(i0, 0, b0)
          BY <4>1, Places DEF Ref
        <4>3. QED
          BY <1>9, <1>15, <2>1, <3>1, <4>2, Places DEF Owned
      <3>2. CASE BlockIsNew
        BY <1>2, <1>15, <2>1, <3>2 DEF BlockIsNew
      <3>3. CASE l0 = DirectPtrs /\ c0.ind # 0 /\ (PointersSound => disk.blk[c0.ind].ptr = b0)
        <4>1. Holds(i0, DirectPtrs, c0.ind)
          BY <1>10, <1>12, <1>17, <3>3 DEF Holds
        <4>2. c0.ind \in Block
          BY <3>3 DEF InodeSet, Ptr0
        <4>3. Ref(i0, DirectPtrs + 1, b0)
          BY <1>15, <2>1, <3>3, <4>1, <4>2, Places DEF Ref
        <4>4. QED
          BY <1>9, <1>15, <2>1, <3>3, <4>3, Places DEF Owned
      <3>4. QED
        BY <1>12, <3>1, <3>2, <3>3
    <2>2. QED
      BY <2>1
  <1>19. PointersSound' => \A i \in Inode : ~Ref(i, DirectPtrs, b0)
    BY <1>18, Places
  <1>20. /\ Roots' /\ Entered' /\ NamesOnce' /\ RootSynced'
         /\ \A n, i : WritesSound' /\ Named(n, i) => Named(n, i)'
    <2>1. PointersSound' => \A k \in Direct : ~Ref(0, k, b0)
      BY <1>12, <1>18, Places, Numbers
    <2>2. QED
      BY <1>1, <1>7, <1>16, <2>1, DataWrite
  <1>21. ASSUME NEW i \in Inode, NEW k \in 0..DirectPtrs, NEW b \in Block, Holds(i, k, b)'
         PROVE  Holds(i, k, b) \/ (l0 = 0 /\ i = i0 /\ k = 0 /\ b = b0)
    <2>1. CASE PtrOf(disk'.itab[i], k) = b \/ (i = 0 /\ PtrOf(mem'.root, k) = b)
      BY <1>8, <1>16, <2>1 DEF Holds, PtrOf
    <2>2. CASE \E v \in Vnode : /\ v # v0 /\ mem'.vnodes[v].ino # 0 /\ mem'.vnodes[v].ino = i
                                /\ PtrOf(mem'.vnodes[v].inode, k) = b
      BY <1>16, <2>2 DEF Holds
    <2>3. CASE mem'.vnodes[v0].ino = i /\ PtrOf(c1, k) = b
      <3>1. i = i0
        BY <1>12, <1>16, <2>3
      <3>2. PtrOf(c0, k) = b => Holds(i, k, b)
        BY <1>10, <1>12, <3>1 DEF Holds
      <3>3. QED
        BY <1>17, <2>3, <3>1, <3>2
    <2>4. QED
      BY <1>13, <1>21, <2>1, <2>2, <2>3 DEF Holds, PtrOf
  <1>22. \A c \in Block : disk'.blk[c].ptr = disk.blk[c].ptr \/ disk'.blk[c].ptr = 0
    BY <1>7, <1>8
  <1>23. /\ 0 \in 0..DirectPtrs /\ DirectPtrs \in 0..DirectPtrs /\ 0 \in PointerNo
         /\ 0 # DirectPtrs
    BY Numbers
  <1>24. \A i \in Inode, k \in PointerNo, b \in Block :
            Ref(i, k, b)' => Ref(i, k, b) \/ (i = i0 /\ k = 0 /\ b = b0)
    BY <1>21, <1>22, <1>23, RefsFromHolds
  <1>25. Owned'
    <2>1. CASE l0 = 0 /\ c0.direct[0] = 0 /\ BlockIsNew
      <3>1. PointersSound' => /\ b0 \in disk.bbm
                              /\ \A i \in Inode, k \in PointerNo : ~Ref(i, k, b0)
        BY <1>2, <1>15, <2>1 DEF BlockIsNew
      <3>2. QED
        BY <1>8, <1>9, <1>23, <1>24, <3>1, OneMoreRef
    <2>2. CASE l0 = 0 /\ c0.direct[0] = b0
      <3>1. Holds(i0, 0, b0)
        BY <1>10, <1>12, <1>17, <2>2 DEF Holds
      <3>2. Ref(i0, 0, b0)
        BY <3>1, Places DEF Ref
      <3>3. QED
        BY <1>8, <1>9, <1>24, <3>2, NoNewRef
    <2>3. CASE l0 = DirectPtrs
      <3>1. \A i \in Inode, k \in 0..DirectPtrs, b \in Block :
               Holds(i, k, b)' => Holds(i, k, b)
        BY <1>21, <1>23, <2>3
      <3>2. \A i \in Inode, k \in PointerNo, b \in Block : Ref(i, k, b)' => Ref(i, k, b)
        <4>1. ASSUME NEW i \in Inode, NEW k \in PointerNo, NEW b \in Block, Ref(i, k, b)'
              PROVE  Ref(i, k, b)
          <5>1. CASE k <= DirectPtrs
            <6>1. k \in 0..DirectPtrs
              BY <5>1, Numbers
            <6>2. QED
              BY <3>1, <4>1, <5>1, <6>1 DEF Ref
          <5>2. CASE ~(k <= DirectPtrs)
            <6>1. PICK c \in Block : Holds(i, DirectPtrs, c)' /\ disk'.blk[c].ptr = b
              BY <4>1, <5>2 DEF Ref
            <6>2. disk.blk[c].ptr = b
              BY <1>22, <6>1, Numbers
            <6>3. QED
              BY <1>23, <3>1, <5>2, <6>1, <6>2 DEF Ref
          <5>3. QED
            BY <5>1, <5>2
        <4>2. QED
          BY <4>1
      <3>3. QED
        BY <1>8, <1>9, <3>2, NoNewRef
    <2>4. QED
      BY <1>12, <2>1, <2>2, <2>3
  <1>26. Kinds'
    <2>1. ASSUME PointersSound', NEW i \in Inode, NEW b \in Block, Holds(i, DirectPtrs, b)'
          PROVE  Holds(i, DirectPtrs, b) /\ disk'.blk[b] = disk.blk[b]
      <3>1. Holds(i, DirectPtrs, b)
        BY <1>21, <1>23, <2>1
      <3>2. b # b0
        BY <1>19, <2>1, <3>1, Places DEF Ref
      <3>3. QED
        BY <1>8, <3>1, <3>2
    <2>2. QED
      BY <1>8, <1>9, <2>1, KindsStay
  <1>27. Vnodes'
    <2>1. ASSUME NEW v \in Vnode, mem.vnodes[v].ino # 0, mem.vnodes[v].ino \notin twice
          PROVE  Ahead(mem'.vnodes[v].inode, disk.itab[mem.vnodes[v].ino])
      <3>1. Ahead(mem.vnodes[v].inode, disk.itab[mem.vnodes[v].ino])
        BY <1>9, <2>1 DEF Vnodes, VnodeFits
      <3>2. CASE v # v0
        BY <1>16, <3>1, <3>2
      <3>3. CASE v = v0
        <4>1. PICK d \in InodeSet : d = disk.itab[i0]
          BY <1>9, Parts
        <4>2. Ahead(c0, d)
          BY <1>10, <1>12, <3>1, <3>3, <4>1
        <4>3. d.size <= c1.size
          <5>1. /\ d.size \in Nat /\ c0.size \in Nat /\ c1.size \in Nat
                /\ d.size <= c0.size /\ c0.size <= c1.size
            <6>1. c1 \in InodeSet
              BY <1>1, <1>13, Parts DEF Ext2Types, MemSet, VnodeSet
            <6>2. d.size <= c0.size
              BY <4>2 DEF Ahead
            <6>3. d.size \in Nat /\ c0.size \in Nat /\ c1.size \in Nat
              BY <6>1 DEF InodeSet
            <6>4. QED
              BY <1>14, <6>2, <6>3
          <5>2. QED
            BY <5>1
        <4>4. \A k \in 0..DirectPtrs : PtrOf(d, k) # 0 => PtrOf(c1, k) = PtrOf(d, k)
          <5>1. l0 = 0 => c0.direct[0] = b0 \/ c0.direct[0] = 0
            BY <1>12, <1>23
          <5>2. QED
            BY <1>17, <4>2, <5>1 DEF Ahead
        <4>5. Ahead(c1, d)
          BY <4>3, <4>4 DEF Ahead
        <4>6. QED
          BY <1>12, <1>13, <3>3, <4>1, <4>5
      <3>4. QED
        BY <3>2, <3>3
    <2>2. \A v \in Vnode : mem'.vnodes[v].inode.live = mem.vnodes[v].inode.live
      BY <1>10, <1>13, <1>14, <1>16
    <2>3. QED
      BY <1>1, <1>8, <1>16, <1>20, <2>1, <2>2, VnodesStay DEF SameFiles
  <1>28. Counts'
    BY <1>7, <1>9, <1>16, CountsKept DEF BlockWritten
  <1>29. Acks'
    <2>1. AcksSound' => \A i \in Inode \ {0}, lb \in Logical :
                           Ref(i, Place(lb), b0) => i = i0 /\ lb = l0
      BY <1>15, <1>18, Places DEF AcksSound
    <2>4. AcksSound' => AcksSound
      BY <1>8, SoundBefore
    <2>2. WritesSound' => \A i \in Inode \ {0} :
                             Ref(i, DirectPtrs, b0) => disk.blk[b0].ptr = 0
      BY <1>15, <1>19
    <2>3. QED
      BY <1>1, <1>7, <1>20, <2>1, <2>2, <2>4, AcksStay
  <1>30. CASE job' = NoJob
    BY <1>1, <1>20, <1>25, <1>26, <1>27, <1>28, <1>29, <1>30, NoJobFits DEF Ext2Inv
  <1>31. CASE /\ job' = [job EXCEPT !.pc = "inode"] /\ c1.size > l0 /\ disk'.blk[b0] = x
    <2>1. /\ job'.pc = "inode" /\ job'.v = v0 /\ job'.ino = i0 /\ job'.name = job.name
          /\ job'.lb = l0 /\ job'.b = b0 /\ job'.part = job.part
      BY <1>2, <1>3, <1>4, <1>5, <1>9, <1>31, JobAt DEF WritePcs
    <2>2. AllocFits' /\ MarkFits' /\ GotFits' /\ NewFileFits'
      BY <2>1 DEF AllocFits, Allocating, AllocPcs, MarkFits, GotFits, NewFileFits, NewFile,
                  NewPcs, For
    <2>3. OpenFits'
      BY <1>20, <2>1 DEF OpenFits, RootSynced
    <2>4. mem'.vnodes[job'.v].inode = c1
      BY <1>13, <2>1
    <2>5. l0 = 0 => c1.direct[0] = b0
      BY <1>14, Numbers DEF InodeSet
    <2>6. l0 = DirectPtrs => c1.ind # 0 /\ (PointersSound' => disk'.blk[c1.ind].ptr = b0)
      <3>1. SUFFICES ASSUME l0 = DirectPtrs
                     PROVE  c1.ind # 0 /\ (PointersSound' => disk'.blk[c1.ind].ptr = b0)
        OBVIOUS
      <3>2. c0.ind # 0 /\ (PointersSound => disk.blk[c0.ind].ptr = b0)
        BY <1>12, <1>23, <3>1
      <3>3. c0.ind \in Block /\ Holds(i0, DirectPtrs, c0.ind)
        BY <1>10, <1>12, <1>17, <3>2 DEF Holds, InodeSet, Ptr0
      <3>4. PointersSound' => c0.ind # b0
        BY <1>19, <3>3, Places DEF Ref
      <3>5. QED
        BY <1>8, <1>14, <1>15, <3>2, <3>3, <3>4
    <2>7. l0 < c1.size
      <3>1. c1 \in InodeSet
        BY <1>1, <1>13, Parts DEF Ext2Types, MemSet, VnodeSet
      <3>2. c1.size \in Nat /\ l0 \in Nat
        BY <3>1, Numbers DEF InodeSet
      <3>3. QED
        BY <1>31, <3>2
    <2>8. WriteFits'
      BY <1>7, <1>12, <1>16, <1>31, <2>1, <2>4, <2>5, <2>6, <2>7
         DEF WriteFits, Writing, WritePcs, Allocating, AllocPcs, For, Copy
    <2>9. JobFits'
      BY <2>2, <2>3, <2>8 DEF JobFits
    <2>10. QED
      BY <1>1, <1>20, <1>25, <1>26, <1>27, <1>28, <1>29, <2>9 DEF Ext2Inv
  <1>32. QED
    BY <1>14, <1>30, <1>31

(* The entry x, of a name n0 and an inode i0 that the directory has not,   *)
(* is written to block b0, at place k0, where there is none.               *)
EntryNew(b0, n0, i0, k0, x) ==
    /\ BlockWritten("directory write", b0, x) /\ x.name = n0 /\ x.ino = i0
    /\ UnusedInode(i0) /\ (InodesSound => disk.itab[i0].live)
    /\ ReadsSound => \A k \in MemUsed : EntryAt(k).name # n0
    /\ \A k \in MemUsed' : \/ k \in MemUsed /\ EntryAt(k)' = EntryAt(k)
                           \/ EntryAt(k)' = x /\ (BitmapsSound' => k = k0)
    /\ WritesSound' => \A k \in Used : disk.itab[0].direct[k] # b0
    /\ WritesSound' => \A i \in Inode \ {0}, k \in PointerNo : ~Ref(i, k, b0)
    /\ mem'.vnodes = mem.vnodes /\ SameFiles

(* Such an entry keeps what the invariant says of the directory, and what  *)
(* was acknowledged.                                                       *)
LEMMA EntryAdded ==
    ASSUME Ext2Inv, NEW b0 \in Block, NEW n0 \in Names, NEW i0 \in Inode, NEW k0, NEW x,
           EntryNew(b0, n0, i0, k0, x)
    PROVE  /\ Entered' /\ NamesOnce' /\ Vnodes' /\ Acks'
           /\ \A n, i : WritesSound' /\ Named(n, i) => Named(n, i)'
  <1>0. /\ BlockWritten("directory write", b0, x) /\ x.name = n0 /\ x.ino = i0
        /\ UnusedInode(i0) /\ (InodesSound => disk.itab[i0].live)
        /\ ReadsSound => \A k \in MemUsed : EntryAt(k).name # n0
        /\ \A k \in MemUsed' : \/ k \in MemUsed /\ EntryAt(k)' = EntryAt(k)
                               \/ EntryAt(k)' = x /\ (BitmapsSound' => k = k0)
        /\ WritesSound' => \A k \in Used : disk.itab[0].direct[k] # b0
        /\ WritesSound' => \A i \in Inode \ {0}, k \in PointerNo : ~Ref(i, k, b0)
        /\ mem'.vnodes = mem.vnodes /\ SameFiles
    BY DEF EntryNew
  <1>1. Ext2Types /\ Roots /\ Entered /\ NamesOnce /\ Vnodes
    BY DEF Ext2Inv
  <1>2. /\ disk'.itab = disk.itab /\ disk'.ibm = disk.ibm /\ failed \subseteq failed'
        /\ \A c \in Block : disk'.blk[c] = disk.blk[c] \/ (c = b0 /\ disk'.blk[c] = x)
    BY <1>0 DEF BlockWritten
  <1>3. /\ BitmapsSound' => BitmapsSound
        /\ InodesSound' => InodesSound /\ BitmapsSound'
        /\ ReadsSound' => ReadsSound /\ BitmapsSound'
    BY <1>2, SoundBefore
  <1>4. Entered'
    <2>1. i0 # 0 /\ n0 # ""
      BY <1>0, NoName DEF UnusedInode
    <2>2. \A b \in Block : disk'.blk[b].ino = 0 <=> disk'.blk[b].name = ""
      BY <1>0, <1>1, <1>2, <2>1 DEF Entered
    <2>3. ASSUME InodesSound', NEW k \in MemUsed'
          PROVE  /\ disk'.itab[EntryAt(k).ino'].live
                 /\ EntryAt(k).ino' \in disk'.ibm
                 /\ \A l \in MemUsed' : EntryAt(l).ino' = EntryAt(k).ino' => l = k
      <3>1. i0 \in disk.ibm /\ disk.itab[i0].live /\ \A l \in MemUsed : EntryAt(l).ino # i0
        BY <1>0, <1>2, <1>3, <2>3 DEF UnusedInode
      <3>2. \A l \in MemUsed : /\ disk.itab[EntryAt(l).ino].live
                               /\ EntryAt(l).ino \in disk.ibm
                               /\ \A m \in MemUsed : EntryAt(m).ino = EntryAt(l).ino => m = l
        BY <1>1, <1>3, <2>3 DEF Entered
      <3>3. CASE k \in MemUsed /\ EntryAt(k)' = EntryAt(k)
        <4>1. ASSUME NEW l \in MemUsed', EntryAt(l).ino' = EntryAt(k).ino' PROVE l = k
          BY <1>0, <3>1, <3>2, <3>3, <4>1
        <4>2. QED
          BY <1>2, <3>2, <3>3, <4>1
      <3>4. CASE EntryAt(k)' = x /\ (BitmapsSound' => k = k0)
        <4>1. ASSUME NEW l \in MemUsed', EntryAt(l).ino' = EntryAt(k).ino' PROVE l = k
          BY <1>0, <1>3, <2>3, <3>1, <3>4, <4>1
        <4>2. QED
          BY <1>0, <1>2, <3>1, <3>4, <4>1
      <3>5. QED
        BY <1>0, <2>3, <3>3, <3>4
    <2>4. QED
      BY <2>2, <2>3 DEF Entered
  <1>5. NamesOnce'
    <2>1. ASSUME ReadsSound', NEW k \in MemUsed', NEW l \in MemUsed',
                 EntryAt(k).name' = EntryAt(l).name'
          PROVE  k = l
      <3>1. \A m \in MemUsed : EntryAt(m).name # n0
        BY <1>0, <1>3, <2>1
      <3>2. \A m, o \in MemUsed : EntryAt(m).name = EntryAt(o).name => m = o
        BY <1>1, <1>3, <2>1 DEF NamesOnce
      <3>3. QED
        BY <1>0, <1>3, <2>1, <3>1, <3>2
    <2>2. QED
      BY <2>1 DEF NamesOnce
  <1>6. ASSUME WritesSound', NEW n, NEW i, Named(n, i) PROVE Named(n, i)'
    <2>1. PICK k \in Used : Entry(k).name = n /\ Entry(k).ino = i
      BY <1>6 DEF Named
    <2>2. k \in RootBlocks /\ disk.itab[0].direct[k] \in Block
      BY <1>1, DirBlocks DEF Used
    <2>3. Entry(k)' = Entry(k)
      BY <1>0, <1>2, <1>6, <2>2 DEF Entry
    <2>4. k \in Used'
      BY <1>2, <2>2, <2>3 DEF Used, RootBlocks
    <2>5. QED
      BY <2>1, <2>3, <2>4 DEF Named
  <1>7. Vnodes'
    <2>1. \A v \in Vnode : mem.vnodes[v].ino # 0 /\ mem.vnodes[v].ino \notin twice =>
             Ahead(mem.vnodes[v].inode, disk.itab[mem.vnodes[v].ino])
      BY <1>1 DEF Vnodes, VnodeFits
    <2>2. twice' = twice
      BY <1>0 DEF SameFiles
    <2>3. QED
      BY <1>0, <1>2, <1>6, <2>1, <2>2, VnodesStay
  <1>8. Acks'
    <2>1. AcksSound' => \A i \in Inode \ {0}, lb \in Logical : ~Ref(i, Place(lb), b0)
      BY <1>0, Places DEF AcksSound
    <2>2. WritesSound' => \A i \in Inode \ {0} :
                             Ref(i, DirectPtrs, b0) => disk.blk[b0].ptr = 0
      BY <1>0, Places
    <2>3. QED
      BY <1>0, <1>6, <2>1, <2>2, AcksStay
  <1>9. QED
    BY <1>4, <1>5, <1>6, <1>7, <1>8

(* The entry of a new file goes into a block of the directory. *)
LEMMA AddEntryStep == ASSUME Ext2Inv, AddEntry PROVE Ext2Inv'
  <1>1. /\ job.pc = "enter" /\ job' = [job EXCEPT !.pc = "vnode"]
        /\ BlockWritten("directory write", mem.root.direct[job.lb],
                        DirBlock(job.name, job.ino))
        /\ mem' = mem /\ SameFiles /\ Ext2Types'
    BY AddEntryDoes
  <1>2. /\ Ext2Types /\ Owned /\ Kinds /\ Roots /\ Counts /\ NewFileFits /\ OpenFits
    BY DEF Ext2Inv, JobFits
  <1>3. PICK b0 \in Block : b0 = mem.root.direct[job.lb]
    BY AddEntryDoes
  <1>4. PICK k0 \in 0..(mem.root.size - 1) : k0 = job.lb
    BY AddEntryDoes
  <1>5. PICK i0 \in Inode : i0 = job.ino
    BY <1>2 DEF Ext2Types, JobSet
  <1>6. PICK n0 \in Names : n0 = job.name
    BY <1>1, <1>2 DEF NewFileFits, NewFile, NewPcs
  <1>7. PICK x : x = DirBlock(n0, i0)
    OBVIOUS
  <1>8. BlockWritten("directory write", b0, x) /\ x.name = n0 /\ x.ino = i0 /\ x.ptr = 0
    <2>1. DirBlock(job.name, job.ino) = x
      BY <1>5, <1>6, <1>7
    <2>2. BlockWritten("directory write", b0, x)
      BY <1>1, <1>3, <2>1
    <2>3. LET d == DirBlock(n0, i0) IN d.name = n0 /\ d.ino = i0 /\ d.ptr = 0
      BY DEF DirBlock, NoBlock
    <2>4. QED
      BY <1>7, <2>2, <2>3
  <1>9. /\ disk'.itab = disk.itab /\ disk'.bbm = disk.bbm /\ disk'.ibm = disk.ibm
        /\ failed \subseteq failed'
        /\ \A c \in Block : disk'.blk[c] = disk.blk[c] \/ (c = b0 /\ disk'.blk[c] = x)
        /\ "directory write" \notin failed' => disk'.blk[b0] = x
    BY <1>8 DEF BlockWritten
  <1>10. /\ UnusedInode(i0) /\ (InodesSound => disk.itab[i0].live)
         /\ ReadsSound => \A k \in MemUsed : EntryAt(k).name # n0
         /\ EntryAt(k0).ino = 0
    BY <1>1, <1>2, <1>4, <1>5, <1>6 DEF NewFileFits, NewFile, NewPcs
  <1>11. k0 \in Direct /\ k0 \in 0..DirectPtrs /\ k0 # DirectPtrs /\ k0 \in PointerNo
    BY <1>2, DirBlocks, Places, Numbers
  <1>12. mem.root.direct[k0] = b0 /\ b0 # 0
    BY <1>3, <1>4, Numbers
  <1>13. /\ BitmapsSound' => BitmapsSound
         /\ PointersSound' => PointersSound
         /\ InodesSound' => InodesSound
         /\ WritesSound' => WritesSound /\ PointersSound' /\ InodesSound'
    BY <1>9, SoundBefore
  <1>14. BitmapsSound' => \A k \in Direct : mem.root.direct[k] = b0 => k = k0
    BY <1>2, <1>11, <1>12, <1>13 DEF Roots, RootOwns
  <1>15. Ref(0, k0, b0)
    BY <1>11, <1>12, Places DEF Ref, Holds, PtrOf
  <1>16. \A i, k, b : Holds(i, k, b)' <=> Holds(i, k, b)
    <2>1. mem' = mem /\ disk'.itab = disk.itab
      BY <1>1, <1>9
    <2>2. QED
      BY <2>1 DEF Holds, PtrOf
  <1>17. \A i \in Inode, k \in PointerNo, b \in Block : Ref(i, k, b)' => Ref(i, k, b)
    <2>1. \A c \in Block : disk'.blk[c].ptr = disk.blk[c].ptr \/ disk'.blk[c].ptr = 0
      BY <1>8, <1>9
    <2>2. 0 \in Inode
      BY Numbers
    <2>3. \A i \in Inode, k \in PointerNo, b \in Block :
             Ref(i, k, b)' => Ref(i, k, b) \/ (i = 0 /\ k = k0 /\ b = b0)
      BY <1>11, <1>16, <2>1, <2>2, RefsFromHolds
    <2>4. QED
      BY <1>15, <2>3
  <1>18. Owned'
    BY <1>2, <1>9, <1>17, NoNewRef
  <1>19. PointersSound' => \A i \in Inode, k \in PointerNo : Ref(i, k, b0) => i = 0 /\ k = k0
    BY <1>2, <1>11, <1>13, <1>15, Numbers DEF Owned
  <1>20. Kinds'
    <2>1. ASSUME PointersSound', NEW i \in Inode, NEW b \in Block, Holds(i, DirectPtrs, b)'
          PROVE  Holds(i, DirectPtrs, b) /\ disk'.blk[b] = disk.blk[b]
      <3>1. Ref(i, DirectPtrs, b)
        BY <1>16, <2>1, Places DEF Ref
      <3>2. b # b0
        BY <1>11, <1>19, <2>1, <3>1, Places
      <3>3. QED
        BY <1>9, <1>16, <2>1, <3>2
    <2>2. QED
      BY <1>2, <1>9, <2>1, KindsStay
  <1>21. Roots'
    BY <1>1, <1>2, <1>9, RootsStay
  <1>22. /\ Entered' /\ NamesOnce' /\ Vnodes' /\ Acks'
         /\ \A n, i : WritesSound' /\ Named(n, i) => Named(n, i)'
    <2>1. ASSUME NEW k \in MemUsed'
          PROVE  \/ k \in MemUsed /\ EntryAt(k)' = EntryAt(k)
                 \/ EntryAt(k)' = x /\ (BitmapsSound' => k = k0)
      <3>1. k \in 0..(mem.root.size - 1) /\ EntryAt(k)' = disk'.blk[mem.root.direct[k]]
        BY <1>1 DEF MemUsed, EntryAt
      <3>2. k \in Direct /\ mem.root.direct[k] \in Block
        BY <1>2, <3>1, DirBlocks
      <3>3. CASE disk'.blk[mem.root.direct[k]] = disk.blk[mem.root.direct[k]]
        BY <3>1, <3>3 DEF MemUsed, EntryAt
      <3>4. CASE mem.root.direct[k] = b0 /\ disk'.blk[mem.root.direct[k]] = x
        BY <1>14, <3>1, <3>2, <3>4
      <3>5. QED
        BY <1>9, <3>2, <3>3, <3>4
    <2>2. ASSUME WritesSound', NEW k \in Used PROVE disk.itab[0].direct[k] # b0
      <3>1. k \in RootBlocks /\ Entry(k).ino # 0
        BY DEF Used
      <3>2. k \in Direct /\ disk.itab[0].direct[k] = mem.root.direct[k]
        BY <1>2, <3>1, DirBlocks
      <3>3. BitmapsSound'
        BY <2>2 DEF WritesSound, PointersSound
      <3>4. k # k0
        BY <1>10, <3>1, <3>2 DEF Entry, EntryAt
      <3>5. QED
        BY <1>14, <3>2, <3>3, <3>4
    <2>3. WritesSound' => \A i \in Inode \ {0}, k \in PointerNo : ~Ref(i, k, b0)
      BY <1>13, <1>19
    <2>4. mem'.vnodes = mem.vnodes /\ SameFiles
      BY <1>1
    <2>5. \A k \in MemUsed' : \/ k \in MemUsed /\ EntryAt(k)' = EntryAt(k)
                              \/ EntryAt(k)' = x /\ (BitmapsSound' => k = k0)
      BY <2>1
    <2>6. WritesSound' => \A k \in Used : disk.itab[0].direct[k] # b0
      BY <2>2
    <2>7. EntryNew(b0, n0, i0, k0, x)
      BY <1>8, <1>10, <2>3, <2>4, <2>5, <2>6 DEF EntryNew
    <2>8. QED
      BY <2>7, EntryAdded
  <1>23. Counts'
    BY <1>1, <1>8, <1>2, CountsKept DEF BlockWritten
  <1>24. JobFits'
    <2>1. job'.pc = "vnode" /\ job'.name = n0 /\ job'.ino = i0
      BY <1>1, <1>2, <1>5, <1>6, JobAt
    <2>2. AllocFits' /\ MarkFits' /\ GotFits' /\ WriteFits' /\ NewFileFits'
      BY <2>1 DEF AllocFits, Allocating, AllocPcs, MarkFits, GotFits, WriteFits, Writing,
                  WritePcs, For, NewFileFits, NewFile, NewPcs
    <2>3. RootSynced'
      BY <1>1, <1>2, <1>9, <1>13 DEF OpenFits, RootSynced
    <2>4. WritesSound' => Named(n0, i0)'
      <3>1. SUFFICES ASSUME WritesSound' PROVE Named(n0, i0)'
        OBVIOUS
      <3>2. "directory write" \notin failed'
        BY <3>1 DEF WritesSound
      <3>3. mem.root.size = disk.itab[0].size
        BY <1>1, <1>2, <1>13, <3>1 DEF OpenFits
      <3>4. k0 \in RootBlocks /\ disk.itab[0].direct[k0] = b0
        BY <1>2, <1>12, <3>3 DEF RootBlocks, Roots
      <3>5. k0 \in RootBlocks' /\ Entry(k0)' = x
        BY <1>9, <3>2, <3>4 DEF RootBlocks, Entry
      <3>6. i0 # 0
        BY <1>10 DEF UnusedInode
      <3>7. QED
        BY <1>8, <3>5, <3>6 DEF Named, Used
    <2>5. OpenFits'
      <3>1. i0 # 0 /\ (InodesSound' => disk'.itab[i0].live)
        BY <1>9, <1>10, <1>13 DEF UnusedInode
      <3>2. QED
        BY <2>1, <2>3, <2>4, <3>1 DEF OpenFits, RootSynced
    <2>6. QED
      BY <2>2, <2>5 DEF JobFits
  <1>25. QED
    BY <1>1, <1>18, <1>20, <1>21, <1>22, <1>23, <1>24 DEF Ext2Inv

(* The directory gets a block, with the entry of a new file in it; the     *)
(* root knows it from then on, whether the write has succeeded or not.     *)
LEMMA AddBlockStep == ASSUME Ext2Inv, AddBlock PROVE Ext2Inv'
  <1>1. /\ job.pc = "grown"
        /\ BlockWritten("directory write", job.b, DirBlock(job.name, job.ino))
        /\ mem'.fb = mem.fb /\ mem'.fi = mem.fi /\ mem'.vnodes = mem.vnodes
        /\ mem'.root.ind = mem.root.ind
        /\ mem'.root.direct = [mem.root.direct EXCEPT ![mem.root.size] = job.b]
        /\ SameFiles /\ Ext2Types'
    BY AddBlockDoes
  <1>2. /\ Ext2Types /\ Owned /\ Kinds /\ Roots /\ Counts /\ NewFileFits /\ OpenFits
    BY DEF Ext2Inv, JobFits
  <1>3. PICK b0 \in Block : b0 = job.b
    BY AddBlockDoes
  <1>4. PICK s \in 1..(DirectPtrs - 1) : s = mem.root.size
    BY AddBlockDoes
  <1>5. PICK i0 \in Inode : i0 = job.ino
    BY <1>2 DEF Ext2Types, JobSet
  <1>6. PICK n0 \in Names : n0 = job.name
    BY <1>1, <1>2 DEF NewFileFits, NewFile, NewPcs
  <1>7. PICK x : x = DirBlock(n0, i0)
    OBVIOUS
  <1>8. BlockWritten("directory write", b0, x) /\ x.name = n0 /\ x.ino = i0 /\ x.ptr = 0
    <2>1. DirBlock(job.name, job.ino) = x
      BY <1>5, <1>6, <1>7
    <2>2. BlockWritten("directory write", b0, x)
      BY <1>1, <1>3, <2>1
    <2>3. LET d == DirBlock(n0, i0) IN d.name = n0 /\ d.ino = i0 /\ d.ptr = 0
      BY DEF DirBlock, NoBlock
    <2>4. QED
      BY <1>7, <2>2, <2>3
  <1>9. /\ disk'.itab = disk.itab /\ disk'.bbm = disk.bbm /\ disk'.ibm = disk.ibm
        /\ failed \subseteq failed'
        /\ \A c \in Block : disk'.blk[c] = disk.blk[c] \/ (c = b0 /\ disk'.blk[c] = x)
    BY <1>8 DEF BlockWritten
  <1>10. /\ UnusedInode(i0) /\ (InodesSound => disk.itab[i0].live)
         /\ ReadsSound => \A k \in MemUsed : EntryAt(k).name # n0
    BY <1>1, <1>2, <1>5, <1>6 DEF NewFileFits, NewFile, NewPcs, For
  <1>11. BlockIsNew \/ b0 = mem.root.direct[s]
    BY <1>1, <1>2, <1>3, <1>4 DEF NewFileFits
  <1>12. /\ s \in Direct /\ s \in 0..DirectPtrs /\ s # DirectPtrs /\ s \in PointerNo
         /\ s \in Nat /\ b0 # 0
    BY Numbers DEF Direct
  <1>13. /\ BitmapsSound' => BitmapsSound
         /\ PointersSound' => PointersSound /\ BitmapsSound'
         /\ InodesSound' => InodesSound
         /\ WritesSound' => WritesSound /\ PointersSound' /\ InodesSound'
    BY <1>9, SoundBefore
  <1>14. PICK d \in [Direct -> Ptr0] : d = mem.root.direct
    BY <1>2, Parts DEF InodeSet
  <1>15. PICK e : e = mem'.root.direct
    OBVIOUS
  <1>16. e[s] = b0 /\ \A k \in Direct : k # s => e[k] = d[k]
    BY <1>1, <1>3, <1>4, <1>12, <1>14, <1>15
  <1>17. BitmapsSound' => /\ b0 \in disk.bbm
                          /\ \A k \in Direct : k # s => d[k] # b0
    <2>1. CASE BlockIsNew
      BY <1>3, <1>13, <1>14, <2>1 DEF BlockIsNew
    <2>2. CASE b0 = d[s]
      <3>1. BitmapsSound' => RootOwns(mem.root, disk.bbm)
        BY <1>2, <1>13 DEF Roots
      <3>2. QED
        BY <1>12, <1>14, <2>2, <3>1 DEF RootOwns
    <2>3. QED
      BY <1>11, <1>14, <2>1, <2>2
  <1>18. b0 = d[s] => Ref(0, s, b0)
    BY <1>12, <1>14, Places DEF Ref, Holds, PtrOf
  <1>19. PointersSound' => \A i \in Inode, k \in PointerNo : Ref(i, k, b0) => i = 0 /\ k = s
    <2>1. CASE BlockIsNew
      BY <1>3, <1>13, <2>1 DEF BlockIsNew
    <2>2. CASE b0 = d[s]
      BY <1>2, <1>12, <1>13, <1>18, <2>2, Numbers DEF Owned
    <2>3. QED
      BY <1>11, <1>14, <2>1, <2>2
  <1>20. ASSUME NEW i \in Inode, NEW k \in 0..DirectPtrs, NEW b \in Block, Holds(i, k, b)'
         PROVE  Holds(i, k, b) \/ (i = 0 /\ k = s /\ b = b0)
    <2>1. CASE i = 0 /\ PtrOf(mem'.root, k) = b
      <3>1. CASE k < DirectPtrs
        <4>1. k \in Direct /\ e[k] = b
          BY <1>15, <2>1, <3>1, Numbers DEF PtrOf, Direct
        <4>2. k # s => Holds(i, k, b)
          BY <1>14, <1>16, <2>1, <3>1, <4>1 DEF Holds, PtrOf
        <4>3. QED
          BY <1>16, <2>1, <4>1, <4>2
      <3>2. CASE ~(k < DirectPtrs)
        BY <1>1, <2>1, <3>2 DEF Holds, PtrOf
      <3>3. QED
        BY <3>1, <3>2
    <2>2. CASE ~(i = 0 /\ PtrOf(mem'.root, k) = b)
      <3>1. mem'.vnodes = mem.vnodes /\ disk'.itab = disk.itab
        BY <1>1, <1>9
      <3>2. \/ PtrOf(disk'.itab[i], k) = b
            \/ \E v \in Vnode : /\ mem'.vnodes[v].ino # 0 /\ mem'.vnodes[v].ino = i
                                /\ PtrOf(mem'.vnodes[v].inode, k) = b
        BY <1>20, <2>2 DEF Holds, PtrOf
      <3>3. QED
        BY <3>1, <3>2 DEF Holds
    <2>3. QED
      BY <2>1, <2>2
  <1>21. \A i \in Inode, k \in PointerNo, b \in Block :
            Ref(i, k, b)' => Ref(i, k, b) \/ (i = 0 /\ k = s /\ b = b0)
    <2>1. \A c \in Block : disk'.blk[c].ptr = disk.blk[c].ptr \/ disk'.blk[c].ptr = 0
      BY <1>8, <1>9
    <2>2. 0 \in Inode
      BY Numbers
    <2>3. QED
      BY <1>12, <1>20, <2>1, <2>2, RefsFromHolds
  <1>22. Owned'
    <2>1. CASE BlockIsNew
      <3>1. PointersSound' => /\ b0 \in disk.bbm
                              /\ \A i \in Inode, k \in PointerNo : ~Ref(i, k, b0)
        BY <1>3, <1>13, <1>17, <2>1 DEF BlockIsNew
      <3>2. PICK z \in Inode : z = 0
        BY Numbers
      <3>3. PointersSound' => \A i \in Inode, k \in PointerNo, b \in Block :
                                 Ref(i, k, b)' => Ref(i, k, b) \/ (i = z /\ k = s /\ b = b0)
        BY <1>21, <3>2
      <3>4. Owned /\ failed \subseteq failed' /\ disk'.bbm = disk.bbm /\ s \in PointerNo
        BY <1>2, <1>9, <1>12
      <3>5. QED
        BY <3>1, <3>3, <3>4, OneMoreRef
    <2>2. CASE b0 = d[s]
      BY <1>2, <1>9, <1>18, <1>21, <2>2, NoNewRef
    <2>3. QED
      BY <1>11, <1>14, <2>1, <2>2
  <1>23. Kinds'
    <2>1. ASSUME PointersSound', NEW i \in Inode, NEW b \in Block, Holds(i, DirectPtrs, b)'
          PROVE  Holds(i, DirectPtrs, b) /\ disk'.blk[b] = disk.blk[b]
      <3>1. Holds(i, DirectPtrs, b)
        BY <1>12, <1>20, <2>1, Numbers
      <3>2. Ref(i, DirectPtrs, b)
        BY <3>1, Places DEF Ref
      <3>3. b # b0
        BY <1>12, <1>19, <2>1, <3>2, Places
      <3>4. QED
        BY <1>9, <3>1, <3>3
    <2>2. QED
      BY <1>2, <1>9, <2>1, KindsStay
  <1>24. PICK t : t = mem'.root.size
    OBVIOUS
  <1>25. \/ job' = NoJob /\ t = s
         \/ job' = [job EXCEPT !.pc = "root"] /\ t = s + 1 /\ disk'.blk[b0] = x
    <2>1. DirBlock(job.name, job.ino) = x
      BY <1>5, <1>6, <1>7
    <2>2. QED
      BY <1>3, <1>4, <1>24, <2>1, AddBlockDoes
  <1>26. /\ t \in 1..DirectPtrs /\ t \in Nat /\ s <= t
         /\ \A k \in 0..(t - 1) : k \in Direct /\ (k # s => k \in 0..(s - 1))
    BY <1>12, <1>25, Numbers DEF Direct
  <1>27. \A k \in 0..(s - 1) : k \in Direct /\ d[k] \in Block /\ d[k] # 0
    BY <1>2, <1>4, <1>14, DirBlocks, Numbers
  <1>28. Roots'
    <2>1. PICK r : r = disk.itab[0].size
      OBVIOUS
    <2>2. r \in 1..s /\ \A k \in 0..(r - 1) : disk.itab[0].direct[k] = d[k]
      BY <1>2, <1>4, <1>14, <2>1 DEF Roots, RootBlocks
    <2>3. r \in 1..t
      BY <1>12, <1>26, <2>2
    <2>4. \A k \in 0..(r - 1) : disk.itab[0].direct[k] = e[k]
      <3>1. \A k \in 0..(r - 1) : k \in Direct /\ k # s
        BY <1>12, <2>2, Numbers DEF Direct
      <3>2. QED
        BY <1>16, <2>2, <3>1
    <2>5. \A k \in 0..(t - 1) : e[k] # 0
      BY <1>12, <1>16, <1>26, <1>27
    <2>6. BitmapsSound' => RootOwns(mem'.root, disk.bbm)
      <3>1. SUFFICES ASSUME BitmapsSound', NEW k \in Direct, e[k] # 0
                     PROVE  /\ e[k] \in disk.bbm
                            /\ \A l \in Direct : e[k] = e[l] => k = l
        BY <1>15 DEF RootOwns
      <3>2. \A l \in Direct : d[l] # 0 => /\ d[l] \in disk.bbm
                                          /\ \A m \in Direct : d[l] = d[m] => l = m
        BY <1>2, <1>13, <1>14, <3>1 DEF Roots, RootOwns
      <3>3. QED
        BY <1>16, <1>17, <3>1, <3>2
    <2>7. BitmapsSound' => RootOwns(disk.itab[0], disk.bbm)
      BY <1>2, <1>13 DEF Roots
    <2>8. /\ mem'.root.size = t /\ mem'.root.direct = e /\ disk'.itab = disk.itab
          /\ disk'.bbm = disk.bbm
      BY <1>9, <1>15, <1>24
    <2>9. QED
      <3>1. mem'.root.size \in 1..DirectPtrs /\ disk'.itab[0].size \in 1..mem'.root.size
        BY <1>26, <2>1, <2>3, <2>8
      <3>2. \A k \in 0..(disk'.itab[0].size - 1) : disk'.itab[0].direct[k] = mem'.root.direct[k]
        BY <2>1, <2>4, <2>8
      <3>3. \A k \in 0..(mem'.root.size - 1) : mem'.root.direct[k] # 0
        BY <2>5, <2>8
      <3>4. BitmapsSound' => /\ RootOwns(mem'.root, disk'.bbm)
                             /\ RootOwns(disk'.itab[0], disk'.bbm)
        BY <2>6, <2>7, <2>8
      <3>5. QED
        BY <3>1, <3>2, <3>3, <3>4 DEF Roots, RootBlocks, RootOwns
  <1>29. /\ Entered' /\ NamesOnce' /\ Vnodes' /\ Acks'
         /\ \A n, i : WritesSound' /\ Named(n, i) => Named(n, i)'
    <2>1. ASSUME NEW k \in MemUsed'
          PROVE  \/ k \in MemUsed /\ EntryAt(k)' = EntryAt(k)
                 \/ EntryAt(k)' = x /\ (BitmapsSound' => k = s)
      <3>1. k \in 0..(t - 1) /\ EntryAt(k)' = disk'.blk[e[k]] /\ disk'.blk[e[k]].ino # 0
        BY <1>15, <1>24 DEF MemUsed, EntryAt
      <3>2. CASE k = s
        <4>1. t = s + 1
          BY <1>12, <1>25, <3>1, <3>2
        <4>2. disk'.blk[b0] = x
          BY <1>12, <1>25, <4>1
        <4>3. QED
          BY <1>16, <3>1, <3>2, <4>2
      <3>3. CASE k # s
        <4>1. k \in 0..(s - 1) /\ k \in Direct /\ d[k] \in Block /\ e[k] = d[k]
          BY <1>16, <1>26, <1>27, <3>1, <3>3
        <4>2. CASE disk'.blk[d[k]] = disk.blk[d[k]]
          BY <1>4, <1>14, <3>1, <4>1, <4>2 DEF MemUsed, EntryAt
        <4>3. CASE d[k] = b0 /\ disk'.blk[d[k]] = x
          BY <1>17, <3>1, <3>3, <4>1, <4>3
        <4>4. QED
          BY <1>9, <4>1, <4>2, <4>3
      <3>4. QED
        BY <3>2, <3>3
    <2>2. ASSUME WritesSound', NEW k \in Used PROVE disk.itab[0].direct[k] # b0
      <3>1. k \in RootBlocks
        BY DEF Used
      <3>2. k \in Direct /\ k \in 0..(s - 1) /\ disk.itab[0].direct[k] = d[k]
        BY <1>2, <1>4, <1>14, <3>1, DirBlocks
      <3>3. BitmapsSound'
        BY <2>2 DEF WritesSound, PointersSound
      <3>4. k # s
        BY <1>12, <3>2
      <3>5. QED
        BY <1>17, <3>2, <3>3, <3>4
    <2>3. WritesSound' => \A i \in Inode \ {0}, k \in PointerNo : ~Ref(i, k, b0)
      BY <1>13, <1>19
    <2>4. mem'.vnodes = mem.vnodes /\ SameFiles
      BY <1>1
    <2>5. \A k \in MemUsed' : \/ k \in MemUsed /\ EntryAt(k)' = EntryAt(k)
                              \/ EntryAt(k)' = x /\ (BitmapsSound' => k = s)
      BY <2>1
    <2>6. WritesSound' => \A k \in Used : disk.itab[0].direct[k] # b0
      BY <2>2
    <2>7. EntryNew(b0, n0, i0, s, x)
      BY <1>8, <1>10, <2>3, <2>4, <2>5, <2>6 DEF EntryNew
    <2>8. QED
      BY <2>7, EntryAdded
  <1>30. Counts'
    BY <1>1, <1>8, <1>2, CountsKept DEF BlockWritten
  <1>31. CASE job' = NoJob /\ t = s
    <2>1. RootSynced'
      BY <1>1, <1>2, <1>4, <1>9, <1>13, <1>24, <1>31 DEF OpenFits, RootSynced
    <2>2. JobFits'
      BY <1>31, <2>1, NoJobFits
    <2>3. QED
      BY <1>1, <1>22, <1>23, <1>28, <1>29, <1>30, <2>2 DEF Ext2Inv
  <1>32. CASE job' = [job EXCEPT !.pc = "root"] /\ t = s + 1 /\ disk'.blk[b0] = x
    <2>1. job'.pc = "root" /\ job'.name = n0 /\ job'.ino = i0
      BY <1>2, <1>5, <1>6, <1>32, JobAt
    <2>2. AllocFits' /\ MarkFits' /\ GotFits' /\ WriteFits' /\ NewFileFits'
      BY <2>1 DEF AllocFits, Allocating, AllocPcs, MarkFits, GotFits, WriteFits, Writing,
                  WritePcs, For, NewFileFits, NewFile, NewPcs
    <2>3. mem'.root.size - 1 = s
      BY <1>12, <1>24, <1>32
    <2>4. disk'.blk[mem'.root.direct[s]] = DirBlock(n0, i0)
      BY <1>7, <1>15, <1>16, <1>32
    <2>5. EntryAt(mem.root.size - 1)' = DirBlock(job'.name, job'.ino)
      BY <2>1, <2>3, <2>4 DEF EntryAt
    <2>6. i0 # 0 /\ (InodesSound' => disk'.itab[i0].live)
      BY <1>9, <1>10, <1>13 DEF UnusedInode
    <2>7. OpenFits'
      BY <2>1, <2>5, <2>6 DEF OpenFits
    <2>8. QED
      BY <1>1, <1>22, <1>23, <1>28, <1>29, <1>30, <2>2, <2>7 DEF Ext2Inv, JobFits
  <1>33. QED
    BY <1>25, <1>31, <1>32

(* The volume as it is made, and mounted for the first time. *)
LEMMA InitInv == ASSUME Ext2Init PROVE Ext2Inv
  <1>1. /\ disk = NewDisk /\ mem = Mounted(disk) /\ job = NoJob /\ failed = {}
        /\ acked = {} /\ twice = {}
    BY DEF Ext2Init
  <1> DEFINE root == [NewInode EXCEPT !.size = 1, !.direct[0] = 1]
  <1>2. /\ root \in InodeSet /\ root.size = 1 /\ root.direct[0] = 1 /\ root.ind = 0 /\ root.live
        /\ \A k \in Direct : k # 0 => root.direct[k] = 0
    <2>1. root = [NewInode EXCEPT !.size = 1, !.direct = [NewInode.direct EXCEPT ![0] = 1]]
      BY DEF NewInode
    <2>2. NewInode.direct \in [Direct -> Ptr0] /\ NewInode.direct = [k \in Direct |-> 0]
      BY NewTypes DEF InodeSet, NewInode, Direct
    <2>3. [NewInode.direct EXCEPT ![0] = 1] \in [Direct -> Ptr0]
      BY <2>2, Numbers DEF Ptr0
    <2>4. QED
      BY <2>1, <2>2, <2>3, NewTypes, Written, Numbers DEF InodeSet
  <1>3. /\ disk.bbm = {1} /\ disk.ibm = {0} /\ disk.fb = LastBlock - 1 /\ disk.fi = LastInode
        /\ disk.itab = [i \in Inode |-> IF i = 0 THEN root
                                        ELSE [NewInode EXCEPT !.live = FALSE]]
        /\ disk.blk = [b \in Block |-> IF b = 1 THEN DirBlock("", 0) ELSE NoBlock]
        /\ disk = [bbm |-> disk.bbm, ibm |-> disk.ibm, fb |-> disk.fb, fi |-> disk.fi,
                   itab |-> disk.itab, blk |-> disk.blk]
    BY <1>1 DEF NewDisk
  <1>3a. disk.bbm = {1} /\ disk.ibm = {0} /\ disk.fb = LastBlock - 1 /\ disk.fi = LastInode
    BY <1>3
  <1> HIDE DEF root
  <1>4. /\ disk.itab[0] = root
        /\ \A i \in Inode : i # 0 => /\ disk.itab[i] \in InodeSet
                                     /\ disk.itab[i].ind = 0
                                     /\ \A k \in Direct : disk.itab[i].direct[k] = 0
    <2>1. PICK n : n = [NewInode EXCEPT !.live = FALSE]
      OBVIOUS
    <2>2. n \in InodeSet /\ n.ind = 0 /\ \A k \in Direct : n.direct[k] = 0
      BY <2>1, NewTypes, Written DEF InodeSet
    <2>3. disk.itab[0] = root /\ \A i \in Inode : i # 0 => disk.itab[i] = n
      BY <1>3, <2>1, Numbers
    <2>4. QED
      BY <2>2, <2>3
  <1>5. \A b \in Block : /\ disk.blk[b] \in BlockSet /\ disk.blk[b].name = ""
                         /\ disk.blk[b].ino = 0 /\ disk.blk[b].ptr = 0
    <2>1. /\ DirBlock("", 0) \in BlockSet /\ DirBlock("", 0).name = ""
          /\ DirBlock("", 0).ino = 0 /\ DirBlock("", 0).ptr = 0
      <3>1. "" \in Name0 /\ 0 \in Inode
        BY Numbers DEF Name0
      <3>2. DirBlock("", 0) \in BlockSet
        BY <3>1, NewTypes
      <3>3. QED
        BY <3>2 DEF DirBlock, NoBlock
    <2>2. NoBlock \in BlockSet /\ NoBlock.name = "" /\ NoBlock.ino = 0 /\ NoBlock.ptr = 0
      BY NewTypes DEF NoBlock
    <2>3. \A b \in Block : disk.blk[b] \in {DirBlock("", 0), NoBlock}
      BY <1>3
    <2>4. QED
      BY <2>1, <2>2, <2>3
  <1>6. /\ mem.fb = disk.fb /\ mem.fi = disk.fi /\ mem.root = root
        /\ \A v \in Vnode : mem.vnodes[v].ino = 0
        /\ mem.vnodes = [v \in Vnode |-> NoVnode]
        /\ mem = [fb |-> mem.fb, fi |-> mem.fi, root |-> mem.root, vnodes |-> mem.vnodes]
    BY <1>1, <1>4 DEF Mounted, NoVnode
  <1>7. Ext2Types
    <2>1. disk.itab \in [Inode -> InodeSet]
      <3>1. \A i \in Inode : disk.itab[i] \in InodeSet
        BY <1>2, <1>4
      <3>2. QED
        BY <1>3, <3>1
    <2>2. disk.blk \in [Block -> BlockSet]
      BY <1>3, <1>5
    <2>3. disk.bbm \subseteq Block /\ disk.ibm \subseteq Inode /\ disk.fb \in Int /\ disk.fi \in Int
      BY <1>3a, Numbers
    <2>4. disk \in DiskSet
      BY <1>3, <2>1, <2>2, <2>3 DEF DiskSet
    <2>5. mem.vnodes \in [Vnode -> VnodeSet]
      BY <1>6, NewTypes
    <2>6. mem \in MemSet
      BY <1>2, <1>6, <2>3, <2>5 DEF MemSet
    <2>7. QED
      BY <1>1, <2>4, <2>6, NewTypes DEF Ext2Types
  <1>8. ASSUME NEW i \in Inode, NEW k \in 0..DirectPtrs, NEW b \in Block, Holds(i, k, b)
        PROVE  i = 0 /\ k = 0 /\ b = 1
    <2>1. k < DirectPtrs => k \in Direct
      BY Numbers DEF Direct
    <2>2. 0 \notin Block /\ 0 < DirectPtrs
      BY Numbers
    <2>3. PtrOf(disk.itab[i], k) = b \/ (i = 0 /\ PtrOf(mem.root, k) = b)
      BY <1>6, <1>8 DEF Holds
    <2>4. i = 0 => PtrOf(root, k) = b
      BY <1>4, <1>6, <2>3
    <2>5. i = 0
      BY <1>4, <2>1, <2>2, <2>3 DEF PtrOf
    <2>6. QED
      BY <1>2, <2>1, <2>2, <2>4, <2>5 DEF PtrOf
  <1>9. DirectPtrs \in 0..DirectPtrs /\ DirectPtrs # 0 /\ 0 \notin Block
    BY Numbers
  <1>10. ASSUME NEW i \in Inode, NEW k \in PointerNo, NEW b \in Block, Ref(i, k, b)
         PROVE  i = 0 /\ k = 0 /\ b = 1
    <2>1. CASE k <= DirectPtrs
      <3>1. k \in 0..DirectPtrs
        BY <2>1, Numbers
      <3>2. QED
        BY <1>8, <1>10, <2>1, <3>1 DEF Ref
    <2>2. CASE ~(k <= DirectPtrs)
      BY <1>5, <1>9, <1>10, <2>2 DEF Ref
    <2>3. QED
      BY <2>1, <2>2
  <1>11. Owned
    <2>1. 1 \in disk.bbm
      BY <1>3
    <2>2. QED
      BY <1>10, <2>1 DEF Owned
  <1>12. Kinds
    BY <1>8, <1>9 DEF Kinds
  <1>13. /\ 1 \in 1..DirectPtrs /\ 1 \in 1..1
         /\ \A k \in 0..(1 - 1) : k = 0
    BY Numbers
  <1>14. RootOwns(root, {1})
    BY <1>2 DEF RootOwns
  <1>15. Roots
    <2>1. PICK bm : bm = disk.bbm
      OBVIOUS
    <2>2. disk.itab[0] = root /\ mem.root = root /\ disk.bbm = {1}
      BY <1>3, <1>4, <1>6
    <2>3. root.size = 1 /\ root.direct[0] # 0
      BY <1>2
    <2>4. QED
      BY <1>13, <1>14, <2>2, <2>3 DEF Roots, RootBlocks
  <1>16. MemUsed = {}
    <2>1. ASSUME NEW k \in 0..(mem.root.size - 1) PROVE EntryAt(k).ino = 0
      <3>1. k = 0
        BY <1>2, <1>6, <1>13
      <3>2. EntryAt(k) = disk.blk[1]
        BY <1>2, <1>6, <3>1 DEF EntryAt
      <3>3. QED
        BY <1>5, <3>2, Numbers
    <2>2. QED
      BY <2>1 DEF MemUsed
  <1>17. Entered
    BY <1>5, <1>16 DEF Entered
  <1>18. NamesOnce
    BY <1>16 DEF NamesOnce
  <1>19. Vnodes
    BY <1>6 DEF Vnodes, VnodeFits
  <1>20. Counts
    <2>1. Cardinality(Block) = LastBlock /\ Cardinality(Inode) = LastInode + 1
      <3>1. Cardinality(1..LastBlock) = LastBlock - 1 + 1
        BY Numbers, FS_Interval
      <3>2. Cardinality(0..LastInode) = LastInode - 0 + 1
        BY Numbers, FS_Interval
      <3>3. QED
        BY <3>1, <3>2, Numbers DEF Block, Inode
    <2>2. /\ Cardinality(Block \ {1}) = Cardinality(Block) - 1
          /\ Cardinality(Inode \ {0}) = Cardinality(Inode) - 1
      BY FiniteVolume, Numbers, FS_RemoveElement
    <2>3. \A m \in {disk, mem} : m.fb = LastBlock - 1 /\ m.fi = LastInode
      BY <1>6, <1>3a
    <2>4. /\ Cardinality(Block \ disk.bbm) = LastBlock - 1
          /\ Cardinality(Inode \ disk.ibm) = LastInode
      <3>1. Block \ disk.bbm = Block \ {1} /\ Inode \ disk.ibm = Inode \ {0}
        BY <1>3a
      <3>2. LastBlock \in Nat /\ LastInode \in Nat
        BY Numbers
      <3>3. QED
        BY <2>1, <2>2, <3>1, <3>2
    <2>5. NoneHidden
      <3>1. LastBlock - 1 >= LastBlock - 1 /\ LastInode >= LastInode
        BY Numbers
      <3>2. QED
        BY <2>3, <2>4, <3>1 DEF NoneHidden
    <2>6. QED
      BY <1>3, <2>5 DEF Counts
  <1>21. Acks
    BY <1>1 DEF Acks
  <1>22. JobFits
    <2>1. job.pc = "idle"
      BY <1>1 DEF NoJob
    <2>2. AllocFits /\ MarkFits /\ GotFits
      BY <2>1 DEF AllocFits, Allocating, AllocPcs, MarkFits, GotFits
    <2>3. NewFileFits
      BY <2>1 DEF NewFileFits, NewFile, NewPcs, Allocating, AllocPcs, For
    <2>4. OpenFits
      BY <1>4, <1>6, <2>1 DEF OpenFits
    <2>5. WriteFits
      BY <2>1 DEF WriteFits, Writing, WritePcs, Allocating, AllocPcs, For
    <2>6. QED
      BY <2>2, <2>3, <2>4, <2>5 DEF JobFits
  <1>23. QED
    BY <1>7, <1>11, <1>12, <1>15, <1>17, <1>18, <1>19, <1>20, <1>21, <1>22 DEF Ext2Inv

(* A step that changes nothing. *)
LEMMA StutterStep == ASSUME Ext2Inv, UNCHANGED ext2Vars PROVE Ext2Inv'
  <1>1. Quiet /\ job' = job
    BY DEF ext2Vars, histVars, Quiet, SameFiles
  <1>2. Frame /\ Counts' /\ Ext2Types'
    BY <1>1, QuietKeeps DEF Ext2Inv, Ext2Types
  <1>3. JobFits'
    <2>1. disk' = disk /\ mem' = mem /\ job' = job /\ failed' = failed
      BY DEF ext2Vars, histVars
    <2>2. AllocFits' /\ MarkFits'
      BY <2>1 DEF Ext2Inv, JobFits, AllocFits, Allocating, MarkFits
    <2>3. GotFits'
      BY <1>2, <2>1, NewStays DEF Ext2Inv, JobFits, GotFits
    <2>4. NewFileFits'
      BY <2>1, <1>2, NewStays, FrameSame, SoundBefore
         DEF Ext2Inv, JobFits, NewFileFits, NewFile, Allocating, For
    <2>5. OpenFits'
      BY <2>1, <1>2, FrameSame, SoundBefore DEF Ext2Inv, JobFits, OpenFits
    <2>6. WriteFits'
      <3>1. WriteFits /\ (BlockIsNew => BlockIsNew')
        BY <2>1, <1>2, NewStays DEF Ext2Inv, JobFits
      <3>2. Kept' = Kept /\ Copy' = Copy /\ (AcksSound' <=> AcksSound)
            /\ (PointersSound' <=> PointersSound)
        BY <2>1 DEF Kept, Copy, AcksSound, WritesSound, PointersSound, InodesSound,
                    BitmapsSound
      <3>3. QED
        BY <2>1, <3>1, <3>2 DEF WriteFits, Writing, Allocating, For
    <2>7. QED
      BY <2>2, <2>3, <2>4, <2>5, <2>6 DEF JobFits
  <1>4. QED
    BY <1>2, <1>3, FrameKeeps DEF Ext2Inv

(* Whatever the step, what holds of the volume and the call holds after it. *)
LEMMA NextInv == ASSUME Ext2Inv, [Ext2Next]_ext2Vars PROVE Ext2Inv'
  <1>1. CASE \/ \E n \in Names : vfs_open(n)
             \/ \E v \in Vnode, lb \in Logical, part \in (SUBSET Part) \ {{}} : vfs_write(v, lb, part)
             \/ ReadBitmap \/ SyncSuper \/ ext2_vfs_lookup \/ FindRoom
             \/ ReadPointers \/ ReadData
    BY <1>1, QuietStep
  <1>2. CASE \E v \in Vnode : vfs_close(v)
    BY <1>2, CloseStep
  <1>3. CASE WriteBitmap \/ SyncGroup
    BY <1>3, WriteBitmapStep, SyncGroupStep
  <1>4. CASE ext2_vfs_create \/ WriteRoot \/ WriteInode
    BY <1>4, CreateStep, WriteRootStep, WriteInodeStep
  <1>5. CASE AddEntry \/ AddBlock
    BY <1>5, AddEntryStep, AddBlockStep
  <1>6. CASE ext2_make_vnode \/ PowerCut
    BY <1>6, MakeVnodeStep, PowerCutStep
  <1>7. CASE ZeroPointers \/ WritePointer \/ WriteData
    BY <1>7, ZeroPointersStep, WritePointerStep, WriteDataStep
  <1>8. CASE UNCHANGED ext2Vars
    BY <1>8, StutterStep
  <1>9. QED
    BY <1>1, <1>2, <1>3, <1>4, <1>5, <1>6, <1>7, <1>8, Zenon DEF Ext2Next

(* The invariant: the pointers, the bitmaps and the counts of the volume,  *)
(* its directory on the disk and in memory, the open files' copies of      *)
(* their inodes, and what the call under way has in hand fit each other,   *)
(* after every request and every power cut.                                *)
THEOREM Ext2Invariant == Ext2Spec => []Ext2Inv
  <1>1. Ext2Init => Ext2Inv
    BY InitInv
  <1>2. Ext2Inv /\ [Ext2Next]_ext2Vars => Ext2Inv'
    BY NextInv
  <1>3. QED
    BY <1>1, <1>2, PTL DEF Ext2Spec

-----------------------------------------------------------------------------
(* What a pointer of one of the copies leads to, the invariant speaks of.  *)
LEMMA PointerIsRef ==
    ASSUME Ext2Types, NEW c \in Copies, NEW k \in PointerNo, Pointer(c[2], k) # 0
    PROVE  c[1] \in Inode /\ Pointer(c[2], k) \in Block /\ Ref(c[1], k, Pointer(c[2], k))
  <1>1. /\ disk.itab \in [Inode -> InodeSet] /\ mem.root \in InodeSet
        /\ mem.vnodes \in [Vnode -> VnodeSet] /\ disk.blk \in [Block -> BlockSet]
    BY Parts
  <1>2. PICK i, n : c = <<i, n>> /\ \/ i \in Inode /\ n = disk.itab[i]
                                    \/ i = 0 /\ n = mem.root
                                    \/ \E v \in Vnode \ Unused : /\ i = mem.vnodes[v].ino
                                                                 /\ n = mem.vnodes[v].inode
    BY DEF Copies
  <1>3. i \in Inode /\ n \in InodeSet
    <2>1. CASE i \in Inode /\ n = disk.itab[i]
      BY <1>1, <2>1
    <2>2. CASE i = 0 /\ n = mem.root
      BY <1>1, <2>2, Numbers
    <2>3. CASE \E v \in Vnode \ Unused : i = mem.vnodes[v].ino /\ n = mem.vnodes[v].inode
      <3>1. PICK v \in Vnode : i = mem.vnodes[v].ino /\ n = mem.vnodes[v].inode
        BY <2>3
      <3>2. mem.vnodes[v] \in VnodeSet
        BY <1>1
      <3>3. QED
        BY <3>1, <3>2 DEF VnodeSet
    <2>4. QED
      BY <1>2, <2>1, <2>2, <2>3
  <1>4. \A l, b : PtrOf(n, l) = b => Holds(i, l, b)
    BY <1>2 DEF Holds, Unused
  <1>5. PICK b : b = Pointer(n, k)
    OBVIOUS
  <1>6. b # 0
    BY <1>2, <1>5
  <1>7. CASE k <= DirectPtrs
    <2>1. b = PtrOf(n, k)
      BY <1>5, <1>7, Numbers DEF Pointer, PtrOf
    <2>2. PtrOf(n, k) \in Ptr0
      BY <1>3, <1>7, Numbers DEF PtrOf, InodeSet, Direct
    <2>3. b \in Block /\ Ref(i, k, b)
      BY <1>4, <1>6, <1>7, <2>1, <2>2 DEF Ref, Ptr0
    <2>4. QED
      BY <1>2, <1>3, <1>5, <2>3
  <1>8. CASE ~(k <= DirectPtrs)
    <2>1. n.ind # 0 /\ b = disk.blk[n.ind].ptr
      BY <1>5, <1>6, <1>8, Numbers DEF Pointer
    <2>2. n.ind \in Block
      BY <1>3, <2>1 DEF InodeSet, Ptr0
    <2>3. b \in Block
      BY <1>1, <1>6, <2>1, <2>2 DEF BlockSet, Ptr0
    <2>4. Holds(i, DirectPtrs, n.ind)
      <3>1. PtrOf(n, DirectPtrs) = n.ind
        BY Numbers DEF PtrOf
      <3>2. QED
        BY <1>4, <3>1
    <2>5. Ref(i, k, b)
      BY <1>8, <2>1, <2>2, <2>4 DEF Ref
    <2>6. QED
      BY <1>2, <1>3, <1>5, <2>3, <2>5
  <1>9. QED
    BY <1>7, <1>8

(* No block has two owners, on the disk or in memory, and each that has    *)
(* one is marked as used: set_file_block, ext2_vfs_write and               *)
(* ext2_add_dirent allocate before they enter a block anywhere.            *)
THEOREM BlocksHaveOneOwner == Ext2Spec => []OneOwner
  <1>1. Ext2Inv => OneOwner
    <2>1. SUFFICES ASSUME Ext2Types, Owned, PointersSound,
                          NEW c \in Copies, NEW d \in Copies, NEW k \in PointerNo,
                          NEW l \in PointerNo, Pointer(c[2], k) # 0
                   PROVE  /\ Pointer(c[2], k) \in disk.bbm
                          /\ Pointer(c[2], k) = Pointer(d[2], l) => c[1] = d[1] /\ k = l
      BY DEF OneOwner, Ext2Inv, PointersSound, BitmapsSound
    <2>2. PICK i \in Inode, b \in Block : i = c[1] /\ b = Pointer(c[2], k) /\ Ref(i, k, b)
      BY <2>1, PointerIsRef
    <2>3. b \in disk.bbm
      BY <2>1, <2>2 DEF Owned
    <2>4. ASSUME b = Pointer(d[2], l) PROVE i = d[1] /\ k = l
      <3>1. Pointer(d[2], l) # 0
        BY <2>4, Numbers
      <3>2. PICK j \in Inode : j = d[1] /\ Ref(j, l, b)
        BY <2>1, <2>4, <3>1, PointerIsRef
      <3>3. QED
        BY <2>1, <2>2, <3>2 DEF Owned
    <2>5. QED
      BY <2>2, <2>3, <2>4
  <1>2. QED
    BY <1>1, Ext2Invariant, PTL

(* A name leads to a file, its own, that has been filled in and is marked: *)
(* vfs_open writes the inode before the entry, and marks it before both.   *)
THEOREM NamesHaveFiles == Ext2Spec => []NameHasFile
  <1>1. Ext2Inv => NameHasFile
    <2>1. SUFFICES ASSUME Roots, Entered, InodesSound, NEW k \in Used
                   PROVE  /\ disk.itab[Entry(k).ino].live
                          /\ Entry(k).ino \in disk.ibm
                          /\ \A l \in Used : Entry(l).ino = Entry(k).ino => l = k
      BY DEF NameHasFile, Ext2Inv, InodesSound, BitmapsSound
    <2>2. Used \subseteq MemUsed /\ \A l \in Used : Entry(l) = EntryAt(l)
      BY <2>1, UsedInMem
    <2>3. QED
      BY <2>1, <2>2 DEF Entered
  <1>2. QED
    BY <1>1, Ext2Invariant, PTL

(* The counts never fall below what is free, in memory or on the disk:     *)
(* alloc_block and alloc_inode take one off after the bit has been set,    *)
(* and write the descriptor after the bitmap.                              *)
THEOREM NoRoomIsHidden == Ext2Spec => []NoneHidden
  <1>1. Ext2Inv => NoneHidden
    BY DEF Ext2Inv, Counts
  <1>2. QED
    BY <1>1, Ext2Invariant, PTL

(* What ext2_vfs_write has returned success for stays on the disk, where   *)
(* its name leads, through power cuts, the writes of others, and later     *)
(* writes to other parts of its block; but not if the file was open twice, *)
(* a write failed that nobody looked at, or the read did that comes before *)
(* the write of a part.                                                    *)
THEOREM AckedStaysOnDisk == Ext2Spec => []AckedIsOnDisk
  <1>1. Ext2Inv => AckedIsOnDisk
    <2>1. SUFFICES ASSUME Ext2Types, Acks, AcksSound, NEW w \in acked, w[2] \notin twice
                   PROVE  /\ \E lb \in Used : Entry(lb).name = w[1] /\ Entry(lb).ino = w[2]
                          /\ LET inode == disk.itab[w[2]]
                                 b == Pointer(inode, IF w[3] < DirectPtrs THEN w[3]
                                                     ELSE DirectPtrs + 1)
                             IN /\ b # 0 /\ <<w[2], w[3], w[4]>> \in disk.blk[b].of
                                /\ inode.size > w[3]
      BY DEF AckedIsOnDisk, Ext2Inv, AcksSound, WritesSound, PointersSound, InodesSound, BitmapsSound
    <2>2. PICK n \in Name0, i \in Inode, lb \in Logical, p \in Part : w = <<n, i, lb, p>>
      BY <2>1 DEF Ext2Types
    <2>3. w[1] = n /\ w[2] = i /\ w[3] = lb /\ w[4] = p
      BY <2>2
    <2>4. PICK b \in Block : OnDisk(n, i, lb, p, b)
      BY <2>1, <2>2, <2>3 DEF Acks
    <2>5. Pointer(disk.itab[i], IF lb < DirectPtrs THEN lb ELSE DirectPtrs + 1) = b
      <3>1. CASE lb < DirectPtrs
        BY <2>4, <3>1 DEF OnDisk, Pointer
      <3>2. CASE ~(lb < DirectPtrs)
        <4>1. ~(DirectPtrs + 1 < DirectPtrs) /\ DirectPtrs + 1 # DirectPtrs
          BY Numbers
        <4>2. disk.itab[i].ind # 0 /\ disk.blk[disk.itab[i].ind].ptr = b
          BY <2>4, <3>2 DEF OnDisk
        <4>3. QED
          BY <3>2, <4>1, <4>2 DEF Pointer
      <3>3. QED
        BY <3>1, <3>2
    <2>6. /\ b # 0 /\ Named(n, i) /\ <<i, lb, p>> \in disk.blk[b].of
          /\ disk.itab[i].size > lb
      BY <2>4, Numbers DEF OnDisk
    <2>7. QED
      BY <2>3, <2>5, <2>6 DEF Named
  <1>2. QED
    BY <1>1, Ext2Invariant, PTL

(* The directory of the disk has a name once, as long as the reads of the  *)
(* lookup succeed: only then does vfs_open know that a file is not there.  *)
THEOREM NamesAreUnique == Ext2Spec => []OneName
  <1>1. Ext2Inv => OneName
    <2>1. SUFFICES ASSUME Roots, NamesOnce, ReadsSound,
                          NEW k \in Used, NEW l \in Used, Entry(k).name = Entry(l).name
                   PROVE  k = l
      BY DEF OneName, Ext2Inv, ReadsSound, BitmapsSound
    <2>2. Used \subseteq MemUsed /\ \A m \in Used : Entry(m) = EntryAt(m)
      BY <2>1, UsedInMem
    <2>3. QED
      BY <2>1, <2>2 DEF NamesOnce
  <1>2. QED
    BY <1>1, Ext2Invariant, PTL
=============================================================================
