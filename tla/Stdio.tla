-------------------------------- MODULE Stdio --------------------------------
(***************************************************************************)
(* One FILE of the C library (libc/src/common/stdio.c), its buffer, and    *)
(* the file behind its descriptor.  fread and fwrite loop: each turn that  *)
(* moves bytes between the program and the buffer, or the buffer and the   *)
(* file, is a step.  As C asks, a program reads only what it opened for    *)
(* reading and writes only the rest.  The FILE of open_memstream, whose    *)
(* bytes go to memory that grows, is here too.                             *)
(***************************************************************************)
EXTENDS Bytes

CONSTANTS Byte,       \* the values a program writes
          BUFSIZ,     \* bytes of the buffer (1024)
          MaxSize,    \* bound: bytes of the file, and positions in it
          MaxCall,    \* bound: bytes of one fread or fwrite
          MaxFaults,  \* bound: reads and writes of the descriptor that fail
          MemStart,   \* bytes a memory stream starts with (256)
          MaxMem      \* bound: bytes it grows to

ASSUME StdioAssumption == /\ BUFSIZ \in Nat \ {0} /\ MaxSize \in Nat /\ MaxCall \in Nat
                          /\ MaxFaults \in Nat /\ MemStart \in Nat \ {0} /\ MaxMem \in Nat

VARIABLES file,      \* the bytes of the file
          off,       \* the offset of its descriptor
          f,         \* the FILE: mode, buf, buf_pos, eof and the memory buffer
          call,      \* the fread or fwrite under way, and what is left of it
          faults,
          req,       \* history: what the last step did for the program
          slip       \* history: the last step was one that the C library of
                     \* this system is known to do otherwise

stdioVars == <<file, off, f, call, faults, req, slip>>

NoMem   == [buf |-> 0, cap |-> 0, len |-> 0, bufp |-> 0, sizep |-> 0, short |-> FALSE]
Fresh(m) == [mode |-> m, buf |-> <<>>, buf_pos |-> 0, eof |-> FALSE, mem |-> NoMem]
Closed  == Fresh("closed")
NoCall  == [op |-> "none", n |-> 0, bytes |-> <<>>]

StdioInit == /\ file = <<>>
             /\ off = 0
             /\ f = Closed
             /\ call = NoCall
             /\ faults = 0
             /\ req = <<"none">>
             /\ slip = FALSE

Writing == f.mode \in {"w", "a"}
Free    == call.op = "none"
Idle    == f.mode # "closed" /\ Free
Unread  == Len(f.buf) - f.buf_pos
Pending == Writing /\ f.buf # <<>>

Least2(a, b) == IF a <= b THEN a ELSE b

-----------------------------------------------------------------------------
(* The descriptor starts at 0: vfs_open looks neither at O_TRUNC nor at    *)
(* O_APPEND.                                                               *)
Misopened(m) == m \in {"w", "a"} /\ file # <<>>

fopen(m) == /\ f = Closed
            /\ f' = Fresh(m)
            /\ off' = 0
            /\ req' = <<"open", m>>
            /\ slip' = Misopened(m)
            /\ UNCHANGED <<file, call, faults>>

(* A stream over a descriptor that stands at o. *)
fdopen(m, o) == /\ f = Closed
                /\ f' = Fresh(m)
                /\ off' = o
                /\ req' = <<"attach", m, o>>
                /\ slip' = FALSE
                /\ UNCHANGED <<file, call, faults>>

(* The old descriptor is closed and the FILE overwritten, its buffer with  *)
(* it; or nothing can be opened, and the stream is gone.                   *)
freopen(m) == /\ Idle /\ f.mode # "m"
              /\ \/ /\ f' = Fresh(m)
                    /\ req' = <<"open", m>>
                    /\ slip' = (Pending \/ Misopened(m))
                 \/ /\ f' = Closed
                    /\ req' = <<"none">>
                    /\ slip' = Pending
              /\ off' = 0
              /\ UNCHANGED <<file, call, faults>>

(* Faulty variant: the buffer is written from the start of the file. *)
FlushToStart(k) == /\ file' = Overlay(file, 0, SubSeq(f.buf, 1, k))
                   /\ off' = k

(* The first k bytes of the buffer reach the file. *)
FlushTo(k) == /\ file' = Overlay(file, off, SubSeq(f.buf, 1, k))
              /\ off' = off + k

(* file_flush_write does not look at what write returns: what has not been *)
(* written is dropped.                                                     *)
file_flush_write ==
    \E k \in 0..Len(f.buf) :
       /\ k = Len(f.buf) \/ faults < MaxFaults
       /\ FlushTo(k)
       /\ slip' = (k < Len(f.buf))
       /\ faults' = IF k < Len(f.buf) THEN faults + 1 ELSE faults

Flushed == IF Pending THEN file_flush_write
           ELSE slip' = FALSE /\ UNCHANGED <<file, off, faults>>

fflush == /\ Idle /\ Pending
          /\ file_flush_write
          /\ f' = [f EXCEPT !.buf = <<>>]
          /\ UNCHANGED <<call, req>>

fclose == /\ Idle
          /\ Flushed
          /\ f' = Closed
          /\ req' = IF f.mode = "m" THEN req ELSE <<"none">>
          /\ UNCHANGED call

(* The program ends, or dies: exit closes and writes nothing. *)
exit == /\ Idle
        /\ f' = Closed
        /\ off' = 0
        /\ req' = IF f.mode = "m" THEN req ELSE <<"none">>
        /\ slip' = Pending
        /\ UNCHANGED <<file, call, faults>>

-----------------------------------------------------------------------------
fread(n) == /\ Idle /\ f.mode = "r"
            /\ call' = [NoCall EXCEPT !.op = "read", !.n = n]
            /\ slip' = FALSE
            /\ UNCHANGED <<file, off, f, faults, req>>

Taken(n) == SubSeq(f.buf, f.buf_pos + 1, f.buf_pos + n)

(* What the buffer has is handed out. *)
ReadCopy ==
    LET n == Least2(Unread, call.n) IN
    /\ call.op = "read" /\ Unread > 0
    /\ f' = [f EXCEPT !.buf_pos = @ + n]
    /\ call' = IF n = call.n THEN NoCall ELSE [call EXCEPT !.n = @ - n]
    /\ req' = <<"read", Taken(n)>>
    /\ slip' = FALSE
    /\ UNCHANGED <<file, off, faults>>

(* The buffer is empty: a portion is read.  At the end of the file, and on *)
(* an error, the call returns what it has.                                 *)
ReadFill ==
    LET r == Max({0, Least2(BUFSIZ, Len(file) - off)}) IN
    /\ call.op = "read" /\ Unread = 0
    /\ \/ /\ r > 0
          /\ f' = [f EXCEPT !.buf = SubSeq(file, off + 1, off + r), !.buf_pos = 0]
          /\ off' = off + r
          /\ UNCHANGED <<call, faults>>
       \/ /\ r = 0
          /\ f' = [f EXCEPT !.eof = TRUE]
          /\ call' = NoCall
          /\ UNCHANGED <<off, faults>>
       \/ /\ faults < MaxFaults
          /\ faults' = faults + 1
          /\ call' = NoCall
          /\ UNCHANGED <<f, off>>
    /\ slip' = FALSE
    /\ UNCHANGED <<file, req>>

-----------------------------------------------------------------------------
fwrite(s) == /\ Idle /\ f.mode # "r"
             /\ IF f.mode = "m" THEN f.mem.len + Len(s) < MaxMem
                ELSE off + Len(f.buf) + Len(s) <= MaxSize
             /\ call' = [op |-> "write", n |-> Len(s), bytes |-> s]
             /\ slip' = FALSE
             /\ UNCHANGED <<file, off, f, faults, req>>

(* As many bytes as there is room for. *)
WriteCopy ==
    LET n == Least2(BUFSIZ - Len(f.buf), call.n) IN
    /\ call.op = "write" /\ Writing /\ n > 0
    /\ f' = [f EXCEPT !.buf = @ \o SubSeq(call.bytes, 1, n)]
    /\ call' = IF n = call.n THEN NoCall
               ELSE [call EXCEPT !.n = @ - n, !.bytes = SubSeq(@, n + 1, Len(@))]
    /\ req' = <<"write", SubSeq(call.bytes, 1, n)>>
    /\ slip' = FALSE
    /\ UNCHANGED <<file, off, faults>>

WriteFlush == /\ call.op = "write" /\ Writing /\ Len(f.buf) = BUFSIZ
              /\ file_flush_write
              /\ f' = [f EXCEPT !.buf = <<>>]
              /\ UNCHANGED <<call, req>>

-----------------------------------------------------------------------------
(* Faulty variant: the flag of the end of the file stays. *)
SeekKeeps == [f EXCEPT !.buf = <<>>, !.buf_pos = 0]

SeekDrops == [f EXCEPT !.buf = <<>>, !.buf_pos = 0, !.eof = FALSE]

(* The buffer is dropped, output that waits in it too, and the descriptor  *)
(* moved.  SEEK_CUR counts from where the descriptor stands, which is      *)
(* behind what has been read ahead; an offset in front of the file is      *)
(* refused, after the buffer is gone.                                      *)
fseek(whence, d) ==
    LET to == d + (CASE whence = "set" -> 0
                     [] whence = "cur" -> off
                     [] OTHER -> Len(file))
    IN /\ Idle /\ f.mode # "m"
       /\ to <= MaxSize
       /\ f' = SeekDrops
       /\ IF to >= 0 THEN off' = to /\ req' = <<"seek", whence, d>>
          ELSE UNCHANGED <<off, req>>
       /\ slip' = (Pending \/ (Unread > 0 /\ (whence = "cur" \/ to < 0)))
       /\ UNCHANGED <<file, call, faults>>

-----------------------------------------------------------------------------
(* A memory stream (its first buffer is always had).  What the program was *)
(* given, bufp and sizep, is a number for the buffer and the length.       *)
open_memstream ==
    /\ f = Closed
    /\ f' = [Fresh("m") EXCEPT !.mem = [NoMem EXCEPT !.buf = 1, !.cap = MemStart,
                                                     !.bufp = 1]]
    /\ slip' = FALSE
    /\ UNCHANGED <<file, off, call, faults, req>>

(* Faulty variant: no room for the NUL behind the bytes. *)
MemFitsBare(n) == f.mem.len + n <= f.mem.cap

MemFits(n) == f.mem.len + n + 1 <= f.mem.cap

(* The buffer doubles, and may move; without memory the call returns 0.    *)
MemGrow ==
    /\ call.op = "write" /\ f.mode = "m" /\ ~MemFits(call.n)
    /\ \/ /\ \E moved \in BOOLEAN :
                f' = [f EXCEPT !.mem.cap = 2 * @, !.mem.buf = IF moved THEN 3 - @ ELSE @]
          /\ UNCHANGED <<call, faults>>
       \/ /\ faults < MaxFaults
          /\ faults' = faults + 1
          /\ f' = [f EXCEPT !.mem.short = TRUE]
          /\ call' = NoCall
    /\ slip' = FALSE
    /\ UNCHANGED <<file, off, req>>

MemCopy ==
    LET len == f.mem.len + call.n IN
    /\ call.op = "write" /\ f.mode = "m" /\ MemFits(call.n)
    /\ f' = [f EXCEPT !.mem.len = len, !.mem.bufp = f.mem.buf, !.mem.sizep = len]
    /\ call' = NoCall
    /\ slip' = FALSE
    /\ UNCHANGED <<file, off, faults, req>>

StdioNext ==
    \/ \E m \in {"r", "w", "a"} : \/ fopen(m) \/ freopen(m)
                                  \/ \E o \in 0..Len(file) : fdopen(m, o)
    \/ fclose \/ fflush \/ exit \/ open_memstream
    \/ \E n \in 1..MaxCall : fread(n)
    \/ \E s \in Upto(Byte, MaxCall) : fwrite(s)
    \/ ReadCopy \/ ReadFill \/ WriteCopy \/ WriteFlush \/ MemGrow \/ MemCopy
    \/ \E whence \in {"set", "cur", "end"}, d \in (-MaxSize)..MaxSize : fseek(whence, d)

StdioSpec == StdioInit /\ [][StdioNext]_stdioVars

-----------------------------------------------------------------------------
(* ftell of a stream that is read: where the descriptor stands, less what  *)
(* has been read ahead.                                                    *)
ftell == off - Unread

S == INSTANCE Stream WITH
        content <- IF Writing THEN Overlay(file, off, f.buf) ELSE file,
        pos <- IF f.mode \in {"closed", "m"} THEN 0
               ELSE IF Writing THEN off + Len(f.buf) ELSE ftell,
        mode <- IF f.mode = "m" THEN "closed" ELSE f.mode

(* Whatever is in the buffer, a program sees a stream: it reads each byte  *)
(* once and in order, also across refills and after fseek; what it writes  *)
(* ends up in the file in order; ftell of a stream that is read is where   *)
(* it stands.  Excepted are the steps that slip names: opening a file that *)
(* has bytes for writing, a write that falls short, fseek, freopen and     *)
(* exit over output that waits, SEEK_CUR and a refused fseek over input    *)
(* read ahead.                                                             *)
ImplementsStream == S!StreamInit /\ [][slip' \/ S!StreamNext]_(S!streamVars)

(* feof means that the program has read to the end: no byte is left when   *)
(* the flag is set, and fseek takes it back.                               *)
EofAtEnd == f.eof => ftell >= Len(file)

(* Between calls, what open_memstream has shown the program is the stream: *)
(* its present buffer, with all bytes and room for the NUL behind them -   *)
(* unless memory ran out.                                                  *)
MemStreamShown ==
    f.mode = "m" /\ Free /\ ~f.mem.short =>
       /\ f.mem.bufp = f.mem.buf
       /\ f.mem.sizep = f.mem.len
       /\ f.mem.len < f.mem.cap
=============================================================================
