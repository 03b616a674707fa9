-------------------------------- MODULE Vfs --------------------------------
(***************************************************************************)
(* The one descriptor table of kernel/vfs.c, shared by every process, and  *)
(* the system calls that work on it: open, close, read, write, lseek, dup, *)
(* dup2 and pipe.  A system call runs to its end without interruption,     *)
(* except that reading an empty pipe and writing a full one call the       *)
(* scheduler in a loop: such a call is parked in calls, holding the vnode  *)
(* and the descriptor it was given.  Any process may run next; Sched shows *)
(* that each gets its turn.                                                *)
(***************************************************************************)
EXTENDS Pipe

CONSTANTS Proc,       \* the tasks that make system calls
          MAX_FDS,    \* descriptors (32)
          MaxVnodes,  \* bound: vnodes made
          MaxBytes,   \* bound: bytes written to a pipe
          MaxDups     \* bound: descriptors duplicated

ASSUME VfsAssumption == /\ MAX_FDS \in Nat /\ MAX_FDS >= 4
                        /\ MaxVnodes \in Nat /\ MaxBytes \in Nat
                        /\ MaxDups \in Nat

Fd      == 0..(MAX_FDS - 1)
FreeFd  == 3..(MAX_FDS - 1)      \* the descriptors open, dup and pipe look at
Console == 1                     \* static; descriptors 0 to 2 start with it

VARIABLES fd_table,   \* the vnode of each descriptor; 0 is NULL
          fd_offset,  \* 0 at the beginning of a file, 1 elsewhere; 0 for
                      \* everything else: only files look at their offset
          vnodes,     \* the vnodes made so far, by number
          calls,      \* the parked call of each process
          gone,       \* processes that have exited or been killed
          dups        \* history: how often dup or dup2 has succeeded

tableVars == <<fd_table, fd_offset>>
vfsVars   == <<pipeVars, tableVars, vnodes, calls, gone, dups>>

Idle == [kind |-> "none", fd |-> 0, vnode |-> 0, left |-> 0, moved |-> 0]

VfsInit == /\ PipeInit
           /\ fd_table = [fd \in Fd |-> IF fd < 3 THEN Console ELSE 0]
           /\ fd_offset = [fd \in Fd |-> 0]
           /\ vnodes = <<[kind |-> "console", pipe |-> 0, live |-> TRUE]>>
           /\ calls = [p \in Proc |-> Idle]
           /\ gone = {}
           /\ dups = 0

May(p) == calls[p] = Idle /\ p \notin gone

MakeVnode(kind, pipe) == Append(vnodes, [kind |-> kind, pipe |-> pipe, live |-> TRUE])

(* The first free descriptor from 3 on; 0 when there is none. *)
Unused == {fd \in FreeFd : fd_table[fd] = 0}
vfs_install_fd(table, v) ==
    LET free == {fd \in FreeFd : table[fd] = 0}
    IN [table EXCEPT ![Min(free)] = v]

-----------------------------------------------------------------------------
(* The descriptor stands for a vnode that has not been released.  What a   *)
(* use of a released one does is undefined and left out of the model.      *)
Holds(fd) == fd_table[fd] # 0 /\ vnodes[fd_table[fd]].live

(* vfs_open after its path lookup: the console's vnode is the only one, a  *)
(* file of ext2 has a new one each time.  When the table is full, it is    *)
(* left behind.                                                            *)
vfs_open(p) == /\ May(p)
               /\ \E v \in {Console} \cup ((Len(vnodes) + 1)..MaxVnodes) :
                     /\ v <= Len(vnodes) + 1
                     /\ vnodes' = IF v = Console THEN vnodes ELSE MakeVnode("file", 0)
                     /\ IF Unused = {}
                        THEN UNCHANGED tableVars
                        ELSE /\ fd_table' = vfs_install_fd(fd_table, v)
                             /\ fd_offset' = [fd_offset EXCEPT ![Min(Unused)] = 0]
               /\ UNCHANGED <<pipeVars, calls, gone, dups>>

(* Faulty variant: pipe ends are freed like files. *)
ReleaseAll(v) == IF vnodes[v].kind # "console"
                 THEN [vnodes EXCEPT ![v].live = FALSE]
                 ELSE vnodes

(* vnode_release: only file systems with a release operation free. *)
vnode_release(v) == IF vnodes[v].kind = "file"
                    THEN [vnodes EXCEPT ![v].live = FALSE]
                    ELSE vnodes

(* Faulty variant: the slot keeps its vnode. *)
vfs_close_keeps(p, fd) == /\ May(p)
                          /\ fd >= 3 /\ Holds(fd)
                          /\ fd_offset' = [fd_offset EXCEPT ![fd] = 0]
                          /\ vnodes' = vnode_release(fd_table[fd])
                          /\ UNCHANGED <<pipeVars, fd_table, calls, gone, dups>>

vfs_close(p, fd) == /\ May(p)
                    /\ fd >= 3 /\ Holds(fd)
                    /\ fd_table' = [fd_table EXCEPT ![fd] = 0]
                    /\ fd_offset' = [fd_offset EXCEPT ![fd] = 0]
                    /\ vnodes' = vnode_release(fd_table[fd])
                    /\ UNCHANGED <<pipeVars, calls, gone, dups>>

IsFile(fd) == fd_table[fd] # 0 /\ vnodes[fd_table[fd]].kind = "file"

vfs_lseek(p, fd) == /\ May(p)
                    /\ fd >= 3 /\ IsFile(fd)
                    /\ \E off \in 0..1 : fd_offset' = [fd_offset EXCEPT ![fd] = off]
                    /\ UNCHANGED <<pipeVars, fd_table, vnodes, calls, gone, dups>>

vfs_dup(p, old) == /\ May(p)
                   /\ fd_table[old] # 0
                   /\ Unused # {}
                   /\ fd_table' = vfs_install_fd(fd_table, fd_table[old])
                   /\ fd_offset' = [fd_offset EXCEPT ![Min(Unused)] = 0]
                   /\ dups < MaxDups /\ dups' = dups + 1
                   /\ UNCHANGED <<pipeVars, vnodes, calls, gone>>

(* What the new descriptor held before is neither closed nor released. *)
vfs_dup2(p, old, new) == /\ May(p)
                         /\ fd_table[old] # 0
                         /\ old # new
                         /\ fd_table' = [fd_table EXCEPT ![new] = fd_table[old]]
                         /\ fd_offset' = [fd_offset EXCEPT ![new] = 0]
                         /\ dups < MaxDups /\ dups' = dups + 1
                         /\ UNCHANGED <<pipeVars, vnodes, calls, gone>>

(* sys_pipe: two vnodes and two descriptors.  When the descriptors run     *)
(* out, nothing is undone.                                                 *)
sys_pipe(p) ==
    LET q == Min(FreePipes)
        r == Len(vnodes) + 1
        one == vfs_install_fd(fd_table, r)
        both == vfs_install_fd(one, r + 1)
    IN /\ May(p)
       /\ FreePipes # {}
       /\ r + 1 <= MaxVnodes
       /\ pipe_create
       /\ vnodes' = Append(MakeVnode("read", q), [kind |-> "write", pipe |-> q, live |-> TRUE])
       /\ fd_table' = CASE Unused = {}             -> fd_table
                        [] Cardinality(Unused) = 1 -> one
                        [] OTHER                   -> both
       /\ fd_offset' = [fd \in Fd |-> IF fd_table'[fd] # fd_table[fd] THEN 0 ELSE fd_offset[fd]]
       /\ UNCHANGED <<calls, gone, dups>>

-----------------------------------------------------------------------------
(* The call returns with moved bytes.  The offset it sets is that of the   *)
(* descriptor it was given, whatever the descriptor stands for now.        *)
Finish(p, c, moved) ==
    /\ calls' = [calls EXCEPT ![p] = Idle]
    /\ fd_offset' = IF moved > 0 /\ IsFile(c.fd) THEN [fd_offset EXCEPT ![c.fd] = 1]
                                                ELSE fd_offset

(* sys_yield inside the loop. *)
Park(p, c) == /\ calls' = [calls EXCEPT ![p] = c]
              /\ UNCHANGED <<fd_offset, pipeVars>>

(* pipe_read from the head of its loop. *)
pipe_read(p, c) ==
    LET q == vnodes[c.vnode].pipe
        n == Min({c.left, pipes[q].count})
    IN \/ /\ pipes[q].count = 0
          /\ IF pipes[q].refs_write # 0
             THEN Park(p, c)
             ELSE Finish(p, c, 0) /\ UNCHANGED pipeVars
       \/ /\ pipes[q].count > 0
          /\ pipes' = Take(q, n)
          /\ Finish(p, c, n)
          /\ UNCHANGED written

(* Faulty variant: the writer waits until all it has left fits. *)
pipe_write_whole(p, c) ==
    LET q == vnodes[c.vnode].pipe
    IN \/ /\ pipes[q].count + c.left > PIPE_BUF_SIZE
          /\ Park(p, c)
       \/ /\ pipes[q].count + c.left <= PIPE_BUF_SIZE
          /\ pipes' = Put(q, c.left)
          /\ written' = [written EXCEPT ![q] = @ + c.left]
          /\ Finish(p, c, c.moved + c.left)

(* pipe_write from the head of its inner loop. *)
pipe_write(p, c) ==
    LET q == vnodes[c.vnode].pipe
        n == Min({c.left, PIPE_BUF_SIZE - pipes[q].count})
        d == [c EXCEPT !.left = @ - n, !.moved = @ + n]
    IN \/ /\ pipes[q].count = PIPE_BUF_SIZE
          /\ IF pipes[q].refs_read # 0
             THEN Park(p, c)
             ELSE Finish(p, c, 0) /\ UNCHANGED pipeVars
       \/ /\ pipes[q].count < PIPE_BUF_SIZE
          /\ pipes' = Put(q, n)
          /\ written' = [written EXCEPT ![q] = @ + n]
          /\ IF d.left = 0
             THEN Finish(p, c, d.moved)
             ELSE calls' = [calls EXCEPT ![p] = d] /\ UNCHANGED fd_offset

Call(kind, fd, n) == [kind |-> kind, fd |-> fd, vnode |-> fd_table[fd],
                      left |-> n, moved |-> 0]

(* sys_read and vfs_read: descriptor 0 is always at its end.               *)
sys_read(p, fd) ==
    /\ May(p)
    /\ fd # 0 /\ Holds(fd)
    /\ \/ /\ vnodes[fd_table[fd]].kind = "file"
          /\ Finish(p, Call("read", fd, 1), 1)
          /\ UNCHANGED pipeVars
       \/ /\ vnodes[fd_table[fd]].kind = "read"
          /\ \E n \in 1..PIPE_BUF_SIZE : pipe_read(p, Call("read", fd, n))
    /\ UNCHANGED <<fd_table, vnodes, gone, dups>>

(* sys_write and vfs_write: 1 and 2 go to the screen, whatever the table   *)
(* says.                                                                   *)
sys_write(p, fd) ==
    /\ May(p)
    /\ fd \notin {1, 2} /\ Holds(fd)
    /\ \/ /\ vnodes[fd_table[fd]].kind = "file"
          /\ Finish(p, Call("write", fd, 1), 1)
          /\ UNCHANGED pipeVars
       \/ /\ vnodes[fd_table[fd]].kind = "write"
          /\ \E n \in 1..(PIPE_BUF_SIZE + 1) :
                /\ written[vnodes[fd_table[fd]].pipe] + n <= MaxBytes
                /\ pipe_write(p, Call("write", fd, n))
    /\ UNCHANGED <<fd_table, vnodes, gone, dups>>

(* A parked process gets the CPU back. *)
Turn(p) == /\ p \notin gone
           /\ \/ calls[p].kind = "read" /\ pipe_read(p, calls[p])
              \/ calls[p].kind = "write" /\ pipe_write(p, calls[p])
           /\ UNCHANGED <<fd_table, vnodes, gone, dups>>

(* Exit, or a kill at any point where the process is not running: the      *)
(* descriptors stay open.                                                  *)
Die(p) == /\ p \notin gone
          /\ gone' = gone \cup {p}
          /\ UNCHANGED <<pipeVars, tableVars, vnodes, calls, dups>>

VfsNext == \E p \in Proc :
              \/ vfs_open(p)
              \/ sys_pipe(p)
              \/ Turn(p)
              \/ Die(p)
              \/ \E fd \in Fd : \/ vfs_close(p, fd)
                                \/ vfs_lseek(p, fd)
                                \/ sys_read(p, fd)
                                \/ sys_write(p, fd)
                                \/ vfs_dup(p, fd)
                                \/ \E new \in Fd : vfs_dup2(p, fd, new)

VfsSpec == VfsInit /\ [][VfsNext]_vfsVars

(* Each process in the loop gets the CPU again and again (NoStarvation). *)
FairVfsSpec == VfsSpec /\ \A p \in Proc : WF_vfsVars(Turn(p))

-----------------------------------------------------------------------------
(* A pipe is a queue, however many readers and writers take turns in its   *)
(* loops, through whatever descriptors, and whatever is closed or          *)
(* redirected meanwhile (pipe.c:44-89).                                    *)
PipesAreChannels == Channels!ChannelSpec

(* vfs_read and vfs_write fetch the vnode before the loop and use it after *)
(* it (vfs.c:134-154): a close of the descriptor by another process never  *)
(* frees it under the call.                                                *)
ParkedVnodeLives == \A p \in Proc : calls[p] # Idle => vnodes[calls[p].vnode].live

(* While nothing has been duplicated, no descriptor stands for a released  *)
(* vnode: close frees without counting (vfs.c:125-132, ext2.c:588-593).    *)
NothingDangles ==
    dups = 0 => \A fd \in Fd : fd_table[fd] # 0 => vnodes[fd_table[fd]].live

PipeOf(p) == vnodes[calls[p].vnode].pipe

(* "write to a full pipe blocks until somebody reads" (pipe.c:6): a writer *)
(* in the loop goes on once there is room, unless the room is taken again. *)
WriterGoesOn ==
    \A p \in Proc, n \in 1..(PIPE_BUF_SIZE + 1), q \in PipeId :
        calls[p].kind = "write" /\ calls[p].left = n /\ PipeOf(p) = q
                                /\ pipes[q].count < PIPE_BUF_SIZE
            ~> \/ calls[p].kind # "write" \/ calls[p].left # n \/ p \in gone
               \/ pipes[q].count = PIPE_BUF_SIZE

(* refs_write counts the "FDs that hold the write end" and a read of an    *)
(* empty pipe without any is at the end of the file (pipe.c:29-30, 51): a  *)
(* reader does not wait for writers that no longer exist.                  *)
Writable(q) == \/ \E fd \in Fd : fd_table[fd] # 0 /\ vnodes[fd_table[fd]].kind = "write"
                                                 /\ vnodes[fd_table[fd]].pipe = q
               \/ \E w \in Proc : calls[w].kind = "write" /\ PipeOf(w) = q

ReaderSeesEof ==
    \A p \in Proc, q \in PipeId :
        calls[p].kind = "read" /\ PipeOf(p) = q /\ ~Writable(q)
            ~> calls[p].kind # "read" \/ p \in gone
=============================================================================
