# RaxKernel: models and proofs

RaxKernel is a small x86_64 kernel in C for one processor, with a C library and
a few user programs.  It has preemptive round-robin tasks, processes with
copied address spaces, futexes and the pthread mutex on top of them, pipes and
one descriptor table, a page and a heap allocator, and ext2 on a virtio disk.
This directory holds TLA+ modules of its concurrent core, its memory, its disk
file system and the buffers of its C library, the TLC configurations that check
them, and theorems checked by TLAPS.

`tlc -config X.cfg M` runs one check, `tlapm M.tla` one module of proofs;
`PROJECT.json` lists the runs, which source lines each definition stands for,
the hazards, the findings and the theorems.

## 1. Who runs when

All models rest on the same three facts about the kernel, so they come first.

* There is one CPU and no lock anywhere in the kernel.
* `syscall_entry` masks interrupts (FMASK clears IF, `syscall.c`), so a system
  call is one atomic step.  It gives the CPU away only by calling
  `sched_yield`, `task_block` or `task_exit`, or in `pit_sleep_ms`, which
  opens interrupts around `hlt`.
* User code and the two kernel tasks run with interrupts on; IRQ0 may preempt
  them between any two instructions.

So the hard behaviours are: user threads that race on shared words and meet
the kernel's queues (futex, pthread); system calls that loop over
`sched_yield` while others change what they looked at (wait4, pipes); state
that belongs to a task but sits in one register or one per-CPU word (context
switch); and tables that any process may change under a call that is parked
(descriptors, processes).  The memory calls and ext2 are never interrupted; there
the hard part is a call that fails or loses power half way, and long sequences
of calls whose leftovers meet.

## 2. Inventory

| Component | State | Operations | Talks to | What makes it correct |
|---|---|---|---|---|
| Scheduler, `sched.c`, `pit.c`, `switch.asm` | circular list, task states, `current`, ids | tick, yield, block, unblock, exit, mark dead, insert | everybody calls it; IRQ0 drives it | one RUNNING task; the list is one cycle; READY tasks are found and not starved; the dead stay dead |
| Context switch, `do_switch_to`, `syscall_entry.asm` | per-CPU user RSP, TSS and syscall stack, FS base, CR3, and the task fields | save and restore, syscall entry and exit, `arch_prctl`, fork, clone | scheduler | a task finds its own registers and address space again |
| Futex, `futex.c` | one list of waiters | wait, wake | pthread above, `task_block`/`task_unblock` below | the queue is the set of sleepers; a wake reaches one of them |
| pthread, `libc/.../pthread.c` | mutex word, condition sequence number | lock, trylock, unlock, cond wait, signal, broadcast (create, join: see section 8) | futex | mutual exclusion, no lost wake |
| Processes, `process.c`, parts of `sys_impl.c`, `signal.c` | table of 32 slots, the task's pointer into it | fork, clone, exit, wait4, kill | scheduler, `vmm.c` | a zombie has exited; a slot is not reused under a live task; wait4 reports each child to its parent, and ends |
| Pipes, `pipe.c` | 16 rings with counts | create, read, write | `sched_yield`; VFS vnodes | a queue; a blocked end goes on when it can |
| VFS, `vfs.c`, parts of `sys_impl.c` | one descriptor table, vnodes | open, close, read, write, lseek, dup, dup2, pipe | pipes, ext2, ramfs, tarfs, devfs | a parked call keeps its vnode; no descriptor dangles |
| Heap, `heap.c` | free list of blocks | kmalloc, kfree, krealloc | page tables, all of the kernel | blocks tile the heap; no overlap; no adjacent free blocks |
| Pages, `pmm.c` | bitmap | alloc, free, reserve | page tables | no page is handed out while it is in use |
| Page tables, `vmm.c`; brk, mmap, execve in `sys_impl.c` | page tables, process brk and mmap_top | map, unmap, translate, clone | pages, fork | a page or table is in one place of one space; what a program was given stays there |
| Disk driver, `virtio_blk.c` | one request slot, used index | read, write with a polling time-out | device, ext2 | an answer is taken for its own request |
| ext2, `ext2.c` | on the disk: bitmaps, counters, inodes, blocks; in memory: counters, the root's inode, a copy of an inode per vnode | mount, lookup, create, read, write (nothing is ever removed) | disk, VFS | no block in use marked free, a name leads to a file, an acknowledged write is there; also after a failed request or a power cut |
| ramfs, tarfs, devfs | trees in memory | lookup, read, write | VFS | sequential data structures |
| Keyboard and mouse | rings | interrupt pushes, reader pops | IRQ1, IRQ12 | no key lost or repeated while there is room |
| stdio, `libc/.../stdio.c` | buffers, `FILE` table | fopen, fread, fwrite, fflush, ungetc, printf | system calls | what is written comes out once and in order |
| Network card, boot, console, descriptor tables, C++ runtime | set-up code, output | | | not modelled |
| nuklear | vendored library | | | not modelled |

The hazards of each, at their lines, are in `PROJECT.json`; a hazard no
property covers says why.

## 3. Modules

```
              Sched                     Lock      <- Pthread  (ImplementsLock)
            /   |   \                   Channel   <- Vfs      (PipesAreChannels)
     Context  Futex  Process            Stream    <- Stdio    (ImplementsStream)
                |                       Allocator <- Heap     (ImplementsAllocator)
             Pthread
                |                       Vfs extends Pipe
            MCPthread                   Stdio and Stream extend Bytes
                                        MCMemory extends Memory, MCExt2 Ext2

  SchedProofs    extends Sched; ContextProofs, PthreadProofs and ProcessProofs
                 extend it and the model they are about
  MemoryProofs   extends Heap and Memory
  Ext2Proofs, VfsProofs, StdioProofs   extend Ext2, Vfs, Stdio
```

**Sched.**  A task is its id, the list is the function `next` from task to
task, `task_list_head` is always the boot task (ids 1 boot, 2 idle, 3 first
user program).  `mode` says where a task executes: its own code, a system call
with interrupts off, or the `hlt` of `pit_sleep_ms`.  `pick_next` is the search of
`sched.c:195-205` with its limit of 1024 nodes as the constant `ScanLimit` and its
fallback on idle.  One action per way to enter or leave: `Tick`, `SyscallEnter`,
`SyscallExit`, `SleepBegin`, `SleepEnd`, `Yield`, `Block`, `Unblock`, `Exit`,
`Kill`, `Fork`.  A kernel path calls these in any order the modules above
choose.  `Unblock` may name several tasks because a futex wake does.

**Context** repeats each action with its effect on what `do_switch_to` handles
beside the kernel stack.  Pointers, FS bases and spaces are named by the task
they belong to, 0 is the struct field's null.  `space` is a history variable:
the address space a task was created in.

**Futex** has the words of every address space and the list of waiters, newest
first.  The list is keyed by virtual address alone, as `fwaiter_t` is.
A call may also fail (EAGAIN, no memory for the node).

**Pthread** adds the program counter of each thread.  A step is one atomic
operation on a shared word, or the entry, the work or the return of a futex call;
the timer may come between any two.  Each thread is a client that uses one mutex
and one condition variable as POSIX asks, in any order.  `sys_kill` is kill by another
thread: the victim stays in the futex queue if it slept there, and keeps what it held.

**Lock** is the abstract mutex: a set of holders that is empty or a singleton.

**Process** adds the table, the tasks' pointers into it, and the locals of a
`wait4` that is in its loop.  Freeing a slot leaves stale pointers, as in the code.
Pids and task ids are different numbers, mixed where the code mixes them.
Four history variables (`attached`, `forker`, `reaper`, `threads`) exist for the
properties only.

**Pipe** is the table of rings, **Vfs** the descriptor table and the system
calls on it.  A call is atomic unless it loops over `sched_yield`; such a call
is parked in `calls` with the vnode and descriptor it fetched before the loop.
Bytes are their numbers in the order they entered; the ring is kept with
head, tail and count as in the code.  Of an offset the model keeps whether it is at
the beginning.  Using a descriptor whose vnode has been released is undefined in
the code and left out (`Holds`); `NothingDangles` says when it can arise.

**Channel** is the abstract pipe: a bounded queue.

**Heap** is one record: where the headers are, which carry MAGIC_USED, and the
four links and the size of each.  The unit is ALIGN_TO (16 bytes), to which requests are
rounded up, so a header is 3 units and a rest is cut off when it is larger than
3 + 1.  `kmalloc` and `kfree` are functions from one heap to the next, built in the
order of the code from `freelist_push`, `freelist_remove`, `Split` and `Absorb`;
`krealloc` is one after the other.  `FirstFit` is the walk along `next_free`.  After boot
only system calls use the heap, so a call is one step.

**Memory** is the page bitmap, the page tables of every process and the calls that
change them.  A frame is a physical page; an item is a place in an address space
that holds one: its PML4, its directories (one item for them all), a page table, a
page, numbered in the order in which `vmm_clone_address_space` walks them.
`MapNew` is `pmm_alloc_page` and `vmm_map` with their two failures, `UnmapRange`
the loop of munmap and brk, which works on the tables of the first process as the
code does, `Clone` the copy that skips what it has no frame for.  A call that maps
pages is a `job` that maps one page per step, so that memory can end at any of them.
`owned` and `told` remember what the programs were given.

**Ext2** is the disk (bitmaps, counts, inode table, blocks), what the driver keeps in
memory, and the call under way, one block read or written per step (`read_block` and
`write_block`, which are several requests to the disk each).  A step may fail, a
failed write may have happened or not, and the power may be cut between any two steps.
The bytes of a block are abstracted to whose they are: which parts of which block of
which file.  A write is to a whole block, or to parts of one: then the block is read
first (`ReadData`), what the others hold is kept (`Kept`), and the block is written with
both (`Merged`, `WriteData`); if the read fails, they are written as zeros, as
`ext2_write_file` does.  A write of several blocks is a series of writes of one.

**Stdio** is a `FILE`: its buffer, the file behind its descriptor, and a `fread` or
`fwrite` in its loop.  **Stream** is what a program expects of it: bytes read and
written in order from where it stands.  **Bytes** has the one helper both use.

**Allocator** is what a heap promises: a set of pieces in use, disjoint, each
at most `Slack` larger than asked for.

Definitions called "Faulty variant" are single plausible bugs of a definition.
Nothing refers to them; each property is known to fail when one takes the place of
its original.

## 4. Runs that pass

| Run | Question | Bounds |
|---|---|---|
| `Context.cfg` | list and states of the tasks; whose registers and space does one run with | 5 tasks: boot, idle, first program and two forks or threads; `ScanLimit` 4 |
| `MCPthread.cfg` | mutex and condition variable, safety and liveness | 3 threads, 4 calls in all, 1 signal or broadcast, one killable thread |
| `Process.cfg` | process table, wait4(-1), fairness of round robin | 4 user tasks, 3 slots, 3 pids, one killable task |
| `Vfs.cfg` | descriptors and pipes | 2 processes, 5 descriptors (2 of them free), 4 vnodes, 1 pipe of 2 bytes, 3 bytes in all, 1 duplication |
| `Heap.cfg` | blocks, free list and pieces handed out | a region of 26 units, headers of 3, requests of 1 to 5 |
| `MCMemory.cfg` | frames, page tables and what the calls do to them | 3 processes, 16 frames, an image and a stack page, 1 mmap page, 2 pages of break |
| `MCExt2.cfg` | what is on the disk after failures and power cuts | 2 names, 2 inodes, 4 blocks of 2 parts, 2 direct pointers, 2 vnodes, 1 failed request, 1 power cut |
| `Stdio.cfg` | a buffered file against a stream; memory streams | a buffer of 2 bytes, files and calls of up to 3, 2 values, 1 failed read or write |

*context*, the scheduler.  `OneRunning`: exactly `current` is RUNNING.  `RingIsCycle`: insertion
behind the head, at any moment, keeps one cycle through all tasks.
`ReadyIsFound`: while a READY task waits, `pick_next` returns one.  It needs the list to
be no longer than `ScanLimit + 1`; 5 tasks and limit 4 are that case exactly, and
dead tasks are never unlinked, so in the code it ends after about a thousand
forks (recorded as a hazard).  `DeadStaysDead`: no wake or switch revives a
killed task; idle is the exception, because `pick_next` returns it whatever
its state.

*context*, the registers.  `UserStackOwn`, `KernelStackOwn`, `FsOwn`, `Cr3Own`: the four
registers are those of the task on the CPU.  `OwnSpaceWithoutThreads`: as long as
processes come from fork, each runs in its own address space, although the
first program's `cr3` field is 0 until it forks and kernel tasks and exits leave
CR3 alone.

*pthread.*  `ImplementsLock` (refinement), `NoLostWakeup` (a sleeper on the
mutex implies the word 2, or a wake on its way, or a woken thread about to mark
it again), `QueueIsSleepers` (list and BLOCKED states agree, one node each),
`BroadcastMissesNobody` (nobody who loaded the sequence number before a
broadcast sleeps after it).  `GetsTheMutex`: a thread that wants the mutex gets it.
A kill leaves its victim's node in the queue, where the next wake may be spent on it,
and a mutex held by the dead stays locked: `QueueIsSleepers` allows nodes of the dead,
and `NoLostWakeup` and `GetsTheMutex` except a space with a `Casualty`.  Three threads are the
smallest number with a holder, a sleeper and a third that overtakes, and four calls
let a sleeper be woken, overtaken, put to sleep again and served.  `MaxRounds` bounds
the calls of all threads together: with unboundedly many calls of others
`GetsTheMutex` would be false of the code, the mutex is not fair.

*process.*  `OnePidEach` (no two slots in use have one pid, whichever call filled
them), `OwnProcess` (a live task's slot is its own, and a zombie process
has no live task), `ReapedByParent`, `WaiterHasChild` (the question wait4 asks
once stays answered), `AnyChildIsReaped`, and `NoStarvation`: a READY task gets the CPU,
while others loop in system calls.  `OwnProcess` is conditional on
no thread having been made: clone shares the process, and one thread's exit
turns it into a zombie under the others, which the code accepts (a hazard
without property).

*files.*  `PipesAreChannels` (refinement, through two readers or writers with
half-done calls), `ParkedVnodeLives`, `NothingDangles` (until the first dup,
after which close frees a vnode others use), `WriterGoesOn`.  A ring
of 2 with calls of up to 3 bytes makes head and tail wrap and every writer
wait; 4 vnodes are a pipe and a file, or three files opened and closed.
This run switches deadlock checking off because both processes may be gone.

*heap.*  `BlocksTile`, `FreeListIsWhole` (the walk meets each free block once and
ends), `FreeIsMerged`, `ImplementsAllocator` (a piece is large enough, inside the
region, and overlaps none in use; krealloc finds the new one while the old one
is still in use).  26 units hold six of the smallest blocks, so a block can be
released between two used, two free or one of each; requests up to 5 leave rests below,
at and above the threshold of 4 where a block is cut; and the region does run out.

*memory.*  `OnePlace`: no two pages or tables, of one space or of two, share a frame,
and none is on the bitmap - although unmapping works on the first process's tables
whoever calls.  `InUseIsMapped`: what a program was given is mapped, through tables
that are there.  `PagesStay`: such a page keeps its frame, whatever others call.
`NothingLost`: a frame is free or in some space.  The last three name what the code is
known to do otherwise: `spoilt` (a clone ran out of frames, or another process unmapped
pages of the first), `restarted` (the first program's break starts anew at its first
fork) and `leaky` (exit, execve and failed calls give nothing back).  16 frames are
fewer than three processes need, so every call meets the end of memory at every
page.  `MemView` leaves the numbers of frames out of the state: two states that differ
in them only have the same successors up to the numbers as long as no frame is in two
places, which is `OnePlace`, checked in the same run and proved.

*ext2.*  `OneOwner` (a block is reached by one pointer of one file, and marked),
`NameHasFile` (an entry leads to an inode that has been filled in and has no other name),
`NoneHidden` (no count is below the clear bits), `AckedIsOnDisk` (what a write has returned
success for survives power cuts and later writes to other parts of its block), `OneName` (no name twice; not after a failed lookup, nor after a
failed write of a bitmap, when the directory may get the same block twice).  Each names the failed requests
after which the code does not keep it (`failed`), and `AckedIsOnDisk` files that were open
twice (`twice`): the driver looks at few results, and every vnode has its own copy of the
inode.  One of these failures is a read: the block that cannot be read before a part of it is
written (`ext2.c:401`) is filled with zeros and written, and the call returns success, so
what earlier calls had put in the rest of the block is lost ("data read").  One fault and one cut are enough for each pair of half-done calls; four blocks are
a directory that grows once, a data block, and an indirect block with another behind it.
Names, vnodes and parts are only compared, so each is symmetric (`Symmetry`; the run checks no
liveness).  `Ext2View` leaves out of the state what no action reads and no property can be
about any more: after a failure that ends all properties, everything; after one that ends
`AckedIsOnDisk`, or for a file that was open twice, which parts its blocks hold and which of its
writes were acknowledged.  `failed` and `twice` never shrink, and no action reads these, so
states with the same view have successors with the same views.  Calls may stop because the bounds are used up: deadlock checking is off.

*stdio.*  `ImplementsStream` (refinement): a program reads each byte once and in order and
what it writes reaches the file in order, but for the steps that `slip` names (opening an
old file with "w" or "a", a short write, fseek, freopen and exit over output that
waits, SEEK_CUR and a refused fseek over input read ahead).  `EofAtEnd`: feof means that
nothing is left.  `MemStreamShown`: the pointer and length `open_memstream` has shown are
those of the present buffer.  A buffer of 2 with calls of 3 makes each call refill or flush
in its middle.

The bounds `MaxTasks`, `MaxPid`, `MaxRounds`, `MaxSeq`, `MaxVnodes`, `MaxBytes`,
`MaxDups`, `MaxRequest`, `BrkPages`, `MaxFaults`, `MaxCuts`, `MaxSize`, `MaxCall`, `MaxMem`,
`Named` and `Killable` are guards of single actions, named where they are
declared.  In `Sched`, `Context` and `Pthread` nothing is
lost by them beyond the size: an action past its bound is disabled, everything
else goes on.  Outside Ext2 no symmetry is used: ids order the list and the slots.

## 5. Runs that fail, and what they show

Each checks one claim that a comment of the code makes (quoted in
`PROJECT.json`, findings).

* `ContextSpace.cfg`, `OwnSpace`.  A thread shares its creator's address space. 
  `sys_clone` sets the thread's `cr3` only; the first program's own field stays 0
  until it forks.  If the thread forks and blocks or exits, so that after the child no
  task with a field of its own comes before the first program, the first program
  continues in the child's space, because `do_switch_to` skips a zero field.
* `MCPthreadProcesses.cfg`, `NoLostWakeup`.  FUTEX_WAKE compares virtual addresses
  alone: an unlock in one process is spent on the sleeper of another whose mutex
  has the same address, and its own sleeper stays on a free mutex.
* `ProcessWait.cfg`, `WantedChildIsReaped`.  `wait4(pid)` says it skips another
  child's zombie and looks again; looking again finds the same zombie, and
  the wait never ends.
* `VfsEof.cfg`, `ReaderSeesEof`.  `refs_write` is said to count descriptors, and a
  read returns 0 when there is none; nothing ever lowers it, so a reader whose
  writers have all closed yields for ever.

## 6. Fairness

* `SF(Tick)`: IRQ0 stays pending in the PIC while interrupts are off and is
  delivered as soon as they are on.  Strong, because interrupts go off again and
  again.
* `WF(LeaveKernel)` (`Sched`), `WF(Return \/ ...)` (`Process`): a system call is
  finite code; it returns, exits or calls the scheduler.
* `SF(Advance(t))` (`Pthread`): a time slice is thousands of instructions, so a
  thread that has the CPU again and again makes its next step between two
  ticks.  Beginning a new call is never owed.
* `WF(Turn(p))` (`Vfs`): a parked process gets the CPU back.  That is
  `NoStarvation`, checked in *process*.

Memory, Ext2 and Stdio promise nothing that must happen and state no fairness.

## 7. Theorems

Those of Sched, Context, Pthread and Process are for any number of tasks (at least 3)
and any positive `ScanLimit` (`SchedAssumption`), any set of addresses with a mutex and
a condition variable, any assignment of threads to address spaces, any bounds and any
set of killable threads (`PthreadAssumption`).

* **SchedProofs.**  `SchedInvariant` proves the inductive `SchedInv`: types,
  `OneRunning`, ids handed out in order, and kernel tasks never inside a system
  call.  The last is why the proof goes through: if idle could block or exit,
  `pick_next` would hand out a task that must not run.  From it `SchedTyping`,
  `OneTaskRuns` and, as an action property, `NoResurrection`.  The lemma
  `PickNext` says all these need of the search.  `OneRing` proves
  `RingIsCycle` from `Ring`, which gives every link in closed form: the head points to the
  newest task, each later task to the one before it, the oldest back to the head; a walk along
  them is then known at every length (`WalkTo`).  `SearchIsWide` proves `ReadyIsFound`
  from it when `MaxTasks <= ScanLimit + 1`.  With more tasks it is false,
  which is the hazard of `sched.c:198`.
* **ContextProofs.**  `ContextImplementsSched` drops the registers; so the
  scheduler's theorems hold (`ContextOneTaskRuns`).  `CtxInvariant` proves
  `CtxInv`, whose addition to the checked properties is `ParkedStacks`: the
  saved user RSP of every task off the CPU inside a system call is its own.
  From it `ReturnsOnOwnStack`, `StackAndFsFollowTask`, `FsFollowsTask`,
  `Cr3FollowsField`.
  `ForksKeepTheirSpace` proves `OwnSpaceWithoutThreads` from `SpaceInv`: each set
  `cr3` field is the task's own space, only the first program's may be unset while it
  lives, and until the first fork CR3 is still the kernel's.
* **PthreadProofs.**  `MutualExclusion` proves `LockInv`: the word is 0 exactly
  when nobody holds the mutex, and it has one holder.  Each step acquires,
  releases or keeps the holders (`Effect`); `PthreadImplementsLock` maps these
  to the steps of `Lock`.  `PthreadInvariant` adds the queue (`QueueInv`: a node belongs
  to a thread asleep at that word, or killed there, and no thread has two), the shape of a
  call at each label (`CallShape`), and that no finished broadcast is ahead of the
  sequence number or has left a waiter from before it (`SweptInv`).  What a wake takes out of the list is a fold; that the
  rest is the old list without the woken is shown along its length (`IsLeft`).  From it
  `SleepersAreQueued` and `BroadcastIsHeard`.  `WakeupsAreNotLost` goes by steps: with
  somebody asleep on the mutex of a space, the space is `Prompt` (word 2, a wake under
  way, or a woken thread about to mark the word), and each step of each thread keeps
  that.  Its hypothesis, all threads in one address space, is what the code
  needs: `MCPthreadProcesses.cfg` shows it fail with two.
* **ProcessProofs.**  `ProcessImplementsSched`: fork, clone, exit, kill and wait4
  are steps of the scheduler or leave it alone; hence `ProcessOneTaskRuns`.
  `ProcessInvariant` proves `ProcInv` for any number of tasks, pids and killable tasks and
  at least two slots (`ProcessAssumption`; the code has 32, and one alone would keep
  the first program from ever having a process).  It holds `TableInv` (types and
  `OnePidEach`) and, as long as no thread was made, `FamilyInv`: no two tasks were given
  one pid (`PidEach`); a live task's slot is its own and no zombie's (`SlotIsOwn`), so
  that wait4 frees nobody's slot; the parent in a slot is the process of the task that
  forked it (`ParentForked`); a waiting task looks for its own process's children, and
  no other task can take the last one (`WaitsForOwn`).  That the table is empty until the
  first program's first fork is what makes its wait4, which looks for children of
  process 1, harmless.  From it `PidsAreUnique`, `SlotsStayOwned`,
  `ChildrenGoToTheirParent` and `WaitersHaveChildren`.
* **MemoryProofs**, the heap.  For a region, a header and requests of any size
  (`HeapAssumption`: the region is larger than a header).  The inductive
  `HeapInv` adds to `BlocksTile` that blocks do not overlap in the order of their
  addresses (`InOrder`) and stay inside the region (`Inside`): the links alone do not
  say that a cut falls on no other header.  It also contains `FreeIsMerged`, with the weaker
  `MergedButAround` and `MergedButLeft` between the steps of `kfree`.  From it
  `HeapTiles`, `HeapMerges` and `HeapIsAllocator`, the refinement.  `HeapListIsWhole` adds
  `FreeListed`: there is an order of the free blocks along which `next_free` and
  `prev_free` link them, from `free_head` to Null (`Chain`).  Pushing, removing, cutting
  and merging change that order by one block, and the walk of any chain ends.
* **MemoryProofs**, the frames.  For any number of frames and processes and regions of any
  size, as long as the first image fits (`MemAssumption`).  `MemInvariant` proves
  `MemInv`: the types, `JobFits` (a call under way stays inside its region) and
  `OnePlace`.  Every step that maps or copies is an instance of `FramesTaken`: one
  space gains items, each from the bitmap and no two alike, the bitmap loses them, so
  no frame gets a second place (`TakenKeepsPlaces`).  For a mapped page that is one or
  two minima of the bitmap (`MinIn`); for a clone it is that frames are handed out by
  rank, and ranks grow strictly (`RankGrows`).  From it `FramesAreInOnePlace`, on which
  the view of the run rests too.  `GivenInvariant` proves the second invariant: pages in use
  are mapped, the part of a region that a call has gone through is (`JobRuns`), what the
  next mmap or brk will map is not (`OwnedBelowTop`, `BreakIsTold`, `Vacant`), and a
  process that is not there has no page but First's (`NoSpace`).  Without `Vacant` a page
  could be mapped twice and its first frame lost.  From it `GivenPagesAreMapped`,
  `FramesComeBack` and, step by step (`AllStay`), the action property of `ContentsStay`.
* **Ext2Proofs.**  For any number of blocks, inodes, names and vnodes, any number of direct
  pointers, and any number of failed requests and power cuts (`Ext2Assumption`).
  None of the five properties is inductive: the disk lags behind the
  memory, and the call under way has blocks in hand that nothing leads to yet.  `Ext2Inv`
  therefore speaks of a pointer wherever it is, on the disk, in an open file's copy or in
  the root's (`Owned`, `Kinds`, `Roots`); of the directory as the driver sees it, of which the
  one on the disk is a part (`Entered`, `NamesOnce`); of the copies, which know all that the
  disk does (`Vnodes`); of the counts and of what was acknowledged (`Counts`, `Acks`); and
  of the call at each of its steps (`JobFits`).  Each part is conditional on the kinds of
  requests whose failure the code does not survive (`PointersSound` and its like; `AcksSound`
  adds the read before a partial write), and has to be kept by the very step that fails.  A
  partial write keeps what was acknowledged because between its read and its write the parts it
  has kept are those on the disk (`Kept \subseteq job.kept` in `WriteFits`; `MergedDoes`), and no
  other file has a pointer to the block.  From it `BlocksHaveOneOwner`,
  `NamesHaveFiles`, `NoRoomIsHidden`, `AckedStaysOnDisk`, `NamesAreUnique`.
* **VfsProofs.**  For rings of any size, any number of pipes, processes, vnodes, and at
  least four descriptors (`PipeAssumption`, `VfsAssumption`).  `PipeInv` reads a ring as a
  sequence, `Queue`, whose head is `count` places behind the tail; taking and putting are
  those of a sequence, at the wrap too.  `VfsInv` adds that the two ends of a pipe belong to a
  pipe in use and are never freed (`EndsAreGood`; pipe vnodes have no release), that a
  parked call waits at the pipe whose vnode it holds (`ParkedAtEnd`), and that before
  the first dup a file is held by one descriptor (`OneHolder`), without which
  `NothingDangles` is not inductive.  From it `ParkedCallsKeepTheirVnode`,
  `DescriptorsDoNotDangle` and `PipesImplementChannels`, the refinement.
* **StdioProofs.**  For any set of bytes and buffers, files and calls of any size
  (`StdioAssumption`).  `StdioInv` says that what is read ahead is the file in front of the
  descriptor (`ReadAhead`), that what waits to be written fits the file (`InBounds`), where the
  flag of the end may be set (`AtEof`), and what a memory stream has shown
  (`MemShown`).  From it `EndOfFileIsTrue` and `ShownIsTheStream`.  `StdioIsAStream` is the
  refinement: a program sees the file with the buffer laid over it, and two
  pieces laid over it one behind the other are one (`OverlayTwice`), so a flush is a stutter.

Every invariant, action property and refinement of a passing run is a theorem.  Only
model-checked is liveness: `NoStarvation`, `GetsTheMutex`, `AnyChildIsReaped` and
`WriterGoesOn`, since neither fairness nor ENABLED is in the prover's reach.  The
exceptions the properties name (`spoilt`, `leaky`, `failed`, `twice`, `slip`, a
`Casualty`) are exceptions of the theorems too.  No module uses RECURSIVE operators.

## 8. Not modelled

* General registers, FPU, `swapgs`, interrupt stubs: straight-line assembly below
  the level of a step.
* `pthread_create` and `pthread_join`: create calls clone without CLONE_VM, which
  the kernel turns into a fork, so the new "thread" shares no memory; join polls
  `kill(tid, 0)`, up to a thousand times, until it fails.  Mutex and condition variable are modelled
  for tasks that do share memory (clone with CLONE_VM).
* Of the heap: a request so large that rounding it up overflows, pointers the heap
  never handed out, and a boot that finds no page at all for it.
* Of memory: the lower GiB, which belongs to the kernel; the contents of pages; the TLB;
  the arguments and the entry point of execve.
* Of ext2: subdirectories, directory listing, reading of file contents, double
  indirect blocks, which the driver does not write either, and a power cut or a failure
  between the requests of one `write_block`, which would tear the block.
* Of the disk driver: its ring.  To Ext2 a request succeeds, fails, or fails after it
  has happened.  A completion that arrives after the time-out and is taken for the next
  request's is not covered.
* Of stdio: formatting and scanning, and the table of open files.
* Path lookup, stat, readdir, ramfs, tarfs and devfs: sequential data structures without
  a failure path of their own.
* The rings of keyboard and mouse: one producer in an interrupt, one consumer with
  interrupts off, and no promise when a ring is full.
* Network card, boot, console, C++ runtime, math and string functions: set-up code,
  output and pure functions.
* nuklear and `nuklear_rawfb.h` are vendored; with 32 000 lines they are about three
  quarters of the C code under `src/`.

## 9. Plan

Done, in this order: Sched and its proofs; Context; Futex and Pthread with Lock;
Process and its proofs; Pipe and Vfs with Channel; Heap with Allocator and its proofs; Memory and
its proofs; Ext2; Stdio with Stream; the kill of a thread that sleeps on a futex; theorems
for every safety property and refinement of the runs.

Next, by weight:

1. The ring of the disk driver, with a completion that comes after the time-out.
2. Task ids against pids in `kill`, and a killed task's parent in wait4.
