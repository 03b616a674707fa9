---------------------------- MODULE StdioProofs ----------------------------
(***************************************************************************)
(* Theorems about a FILE of the C library, for any set of bytes, buffers,  *)
(* files and calls of any size, and any number of failing reads and        *)
(* writes.  The invariant says what the buffer is: of a stream that is     *)
(* read, the part of the file in front of the descriptor; of one that is   *)
(* written, bytes that still fit the file.  What the program sees is the   *)
(* file with the buffer laid over it; two pieces laid over one behind the  *)
(* other are one piece (OverlayTwice), and so no step that only moves      *)
(* bytes between buffer and file is seen.                                  *)
(***************************************************************************)
EXTENDS Stdio, SequenceTheorems, TLAPS

(* The larger of two numbers. *)
LEMMA MaxOfTwo ==
    ASSUME NEW a \in Int, NEW b \in Int
    PROVE  Max({a, b}) = IF a >= b THEN a ELSE b
  <1> DEFINE m == IF a >= b THEN a ELSE b
  <1>1. m \in {a, b} /\ \A y \in {a, b} : m >= y
    OBVIOUS
  <1>2. \A x \in {a, b} : (\A y \in {a, b} : x >= y) => x = m
    OBVIOUS
  <1> HIDE DEF m
  <1>3. Max({a, b}) = m
    BY <1>1, <1>2 DEF Max
  <1>4. QED
    BY <1>3 DEF m

(* What is in a file: bytes, and the 0 of gaps. *)
Cell == Byte \cup {0}

(* The length and the bytes of an overlay. *)
LEMMA OverlayIs ==
    ASSUME NEW s \in Seq(Cell), NEW o \in Nat, NEW t \in Seq(Cell), t # <<>>
    PROVE  /\ Overlay(s, o, t) \in Seq(Cell)
           /\ Len(Overlay(s, o, t)) = IF Len(s) >= o + Len(t) THEN Len(s) ELSE o + Len(t)
           /\ \A i \in 1..Len(Overlay(s, o, t)) :
                 Overlay(s, o, t)[i] = IF i > o /\ i <= o + Len(t) THEN t[i - o]
                                       ELSE IF i <= Len(s) THEN s[i] ELSE 0
  <1> DEFINE m == IF Len(s) >= o + Len(t) THEN Len(s) ELSE o + Len(t)
             e(i) == IF i > o /\ i <= o + Len(t) THEN t[i - o]
                     ELSE IF i <= Len(s) THEN s[i] ELSE 0
             v == [i \in 1..m |-> e(i)]
  <1>1. Len(s) \in Nat /\ Len(t) \in Nat /\ m \in Nat
    BY LenProperties
  <1>2. Max({Len(s), o + Len(t)}) = m
    BY <1>1, MaxOfTwo
  <1>3. Overlay(s, o, t) = v
    BY <1>2 DEF Overlay
  <1>4. ASSUME NEW i \in 1..m PROVE e(i) \in Cell
    <2>1. i > o /\ i <= o + Len(t) => i - o \in 1..Len(t)
      BY <1>1
    <2>2. \A j \in 1..Len(t) : t[j] \in Cell
      BY ElementOfSeq
    <2>3. i <= Len(s) => i \in 1..Len(s)
      BY <1>1
    <2>4. \A j \in 1..Len(s) : s[j] \in Cell
      BY ElementOfSeq
    <2>5. 0 \in Cell
      BY DEF Cell
    <2>6. QED
      BY <2>1, <2>2, <2>3, <2>4, <2>5
  <1> HIDE DEF m, e
  <1>5. v \in [1..m -> Cell]
    BY <1>4
  <1>6. v \in Seq(Cell) /\ Len(v) = m
    BY <1>1, <1>5
  <1>7. \A i \in 1..m : v[i] = e(i)
    OBVIOUS
  <1> HIDE DEF v
  <1>8. QED
    BY <1>3, <1>6, <1>7 DEF m, e

(* Also when nothing is laid over. *)
LEMMA OverlayType ==
    ASSUME NEW s \in Seq(Cell), NEW o \in Nat, NEW t \in Seq(Cell), NEW n \in Nat,
           Len(s) <= n, o + Len(t) <= n
    PROVE  Overlay(s, o, t) \in Seq(Cell) /\ Len(Overlay(s, o, t)) <= n
  <1>1. CASE t = <<>>
    BY <1>1 DEF Overlay
  <1>2. CASE t # <<>>
    BY <1>2, OverlayIs
  <1>3. QED
    BY <1>1, <1>2

(* Two pieces laid over one behind the other are one piece. *)
LEMMA OverlayTwice ==
    ASSUME NEW s \in Seq(Cell), NEW o \in Nat, NEW t \in Seq(Cell), NEW u \in Seq(Cell)
    PROVE  Overlay(s, o, t \o u) = Overlay(Overlay(s, o, t), o + Len(t), u)
  <1>1. CASE u = <<>>
    <2>1. t \o u = t
      BY <1>1, ConcatEmptySeq
    <2>2. QED
      BY <1>1, <2>1 DEF Overlay
  <1>2. CASE t = <<>> /\ u # <<>>
    <2>1. t \o u = u /\ Len(t) = 0 /\ Overlay(s, o, t) = s
      BY <1>2, ConcatEmptySeq DEF Overlay
    <2>2. QED
      BY <2>1
  <1>3. CASE t # <<>> /\ u # <<>>
    <2> DEFINE a == Overlay(s, o, t \o u)
               b == Overlay(s, o, t)
               c == Overlay(b, o + Len(t), u)
               m(x, y) == IF x >= y THEN x ELSE y
    <2>1. /\ Len(s) \in Nat /\ Len(t) \in Nat /\ Len(u) \in Nat /\ Len(t) # 0 /\ Len(u) # 0
      BY <1>3, EmptySeq, LenProperties
    <2>2. /\ t \o u \in Seq(Cell) /\ Len(t \o u) = Len(t) + Len(u)
          /\ \A i \in 1..(Len(t) + Len(u)) :
                (t \o u)[i] = IF i <= Len(t) THEN t[i] ELSE u[i - Len(t)]
      BY ConcatProperties
    <2>3. t \o u # <<>>
      BY <2>1, <2>2, EmptySeq
    <2>4. /\ a \in Seq(Cell) /\ Len(a) = m(Len(s), o + (Len(t) + Len(u)))
          /\ \A i \in 1..Len(a) :
                a[i] = IF i > o /\ i <= o + (Len(t) + Len(u)) THEN (t \o u)[i - o]
                       ELSE IF i <= Len(s) THEN s[i] ELSE 0
      <3> DEFINE w == t \o u
      <3>1. w \in Seq(Cell) /\ w # <<>> /\ Len(w) = Len(t) + Len(u)
        BY <2>2, <2>3
      <3> HIDE DEF w
      <3>2. /\ Overlay(s, o, w) \in Seq(Cell)
            /\ Len(Overlay(s, o, w)) = m(Len(s), o + Len(w))
            /\ \A i \in 1..Len(Overlay(s, o, w)) :
                  Overlay(s, o, w)[i] = IF i > o /\ i <= o + Len(w) THEN w[i - o]
                                        ELSE IF i <= Len(s) THEN s[i] ELSE 0
        BY <3>1, OverlayIs
      <3>3. QED
        BY <3>1, <3>2 DEF w
    <2>5. /\ b \in Seq(Cell) /\ Len(b) = m(Len(s), o + Len(t))
          /\ \A i \in 1..Len(b) :
                b[i] = IF i > o /\ i <= o + Len(t) THEN t[i - o]
                       ELSE IF i <= Len(s) THEN s[i] ELSE 0
      BY <1>3, OverlayIs
    <2> HIDE DEF a, b
    <2>6. /\ c \in Seq(Cell) /\ Len(c) = m(Len(b), o + Len(t) + Len(u))
          /\ \A i \in 1..Len(c) :
                c[i] = IF i > o + Len(t) /\ i <= o + Len(t) + Len(u) THEN u[i - (o + Len(t))]
                       ELSE IF i <= Len(b) THEN b[i] ELSE 0
      BY <1>3, <2>1, <2>5, OverlayIs
    <2> HIDE DEF c
    <2>7. Len(a) = Len(c) /\ Len(a) \in Nat
      BY <2>1, <2>4, <2>5, <2>6
    <2>8. ASSUME NEW i \in 1..Len(a) PROVE a[i] = c[i]
      <3>1. i \in Nat /\ i >= 1 /\ i \in 1..Len(c)
        BY <2>7
      <3>2. CASE i <= o
        <4>1. i <= Len(b) => b[i] = IF i <= Len(s) THEN s[i] ELSE 0
          BY <2>1, <2>5, <3>1, <3>2
        <4>2. i <= Len(b)
          BY <2>1, <2>5, <3>2, <3>1
        <4>3. c[i] = b[i]
          BY <2>1, <2>6, <3>1, <3>2, <4>2
        <4>4. a[i] = IF i <= Len(s) THEN s[i] ELSE 0
          BY <2>4, <3>1, <3>2
        <4>5. QED
          BY <4>1, <4>2, <4>3, <4>4
      <3>3. CASE i > o /\ i <= o + Len(t)
        <4>1. i - o \in 1..(Len(t) + Len(u)) /\ i - o <= Len(t) /\ i <= o + (Len(t) + Len(u))
          BY <2>1, <3>1, <3>3
        <4>2. a[i] = t[i - o]
          BY <2>2, <2>4, <3>3, <4>1
        <4>3. i <= Len(b) /\ i \in 1..Len(b)
          BY <2>1, <2>5, <3>1, <3>3
        <4>4. b[i] = t[i - o]
          BY <2>5, <3>3, <4>3
        <4>5. c[i] = b[i]
          BY <2>1, <2>6, <3>1, <3>3, <4>3
        <4>6. QED
          BY <4>2, <4>4, <4>5
      <3>4. CASE i > o + Len(t) /\ i <= o + Len(t) + Len(u)
        <4>1. /\ i - o \in 1..(Len(t) + Len(u)) /\ ~(i - o <= Len(t))
              /\ i > o /\ i <= o + (Len(t) + Len(u)) /\ (i - o) - Len(t) = i - (o + Len(t))
          BY <2>1, <3>1, <3>4
        <4>2. a[i] = u[i - (o + Len(t))]
          BY <2>2, <2>4, <4>1
        <4>3. c[i] = u[i - (o + Len(t))]
          BY <2>6, <3>1, <3>4
        <4>4. QED
          BY <4>2, <4>3
      <3>5. CASE i > o + Len(t) + Len(u)
        <4>1. i <= Len(s)
          BY <2>1, <2>4, <3>1, <3>5
        <4>2. a[i] = s[i]
          BY <2>1, <2>4, <3>1, <3>5, <4>1
        <4>3. i <= Len(b) /\ i \in 1..Len(b)
          BY <2>1, <2>5, <3>1, <4>1
        <4>4. b[i] = s[i]
          BY <2>1, <2>5, <3>1, <3>5, <4>1, <4>3
        <4>5. c[i] = b[i]
          BY <2>1, <2>6, <3>1, <3>5, <4>3
        <4>6. QED
          BY <4>2, <4>4, <4>5
      <3>6. QED
        BY <2>1, <3>1, <3>2, <3>3, <3>4, <3>5
    <2>9. a = c
      BY <2>4, <2>6, <2>7, <2>8, SeqEqual
    <2>10. QED
      BY <2>9 DEF a, b, c
  <1>4. QED
    BY <1>1, <1>2, <1>3

-----------------------------------------------------------------------------
(* Types. *)
Memory == [buf : 0..3, cap : Nat, len : Nat, bufp : 0..3, sizep : Nat, short : BOOLEAN]

FILE == [mode : {"closed", "r", "w", "a", "m"}, buf : Seq(Cell), buf_pos : Nat,
         eof : BOOLEAN, mem : Memory]

StdioType == /\ file \in Seq(Cell)
             /\ off \in Nat
             /\ f \in FILE
             /\ call \in [op : {"none", "read", "write"}, n : Nat, bytes : Seq(Byte)]
             /\ faults \in Nat

(* A call under way fits the stream it is made on. *)
CallFits == /\ call.op = "none" => call = NoCall
            /\ call.op = "read" => f.mode = "r" /\ call.n > 0
            /\ call.op = "write" => f.mode \in {"w", "a", "m"} /\ Len(call.bytes) = call.n

(* Nothing goes past the bound of the file. *)
InBounds == /\ Len(file) <= MaxSize /\ off <= MaxSize
            /\ Writing => off + Len(f.buf) + call.n <= MaxSize

(* What has been read ahead is the part of the file in front of the        *)
(* descriptor.                                                             *)
ReadAhead ==
    f.mode = "r" => /\ f.buf_pos <= Len(f.buf) /\ Len(f.buf) <= off
                    /\ f.buf # <<>> => off <= Len(file)
                    /\ \A i \in 1..Len(f.buf) : f.buf[i] = file[(off - Len(f.buf)) + i]

(* The flag of the end is set when all has been read, and the descriptor   *)
(* stands at the end or behind it.                                         *)
AtEof == f.eof => f.mode = "r" /\ f.buf_pos = Len(f.buf) /\ off >= Len(file)

(* A memory stream has room for the NUL at any time, and shows its buffer  *)
(* between calls.                                                          *)
MemShown == f.mode = "m" =>
               /\ f.mem.len < f.mem.cap
               /\ Free /\ ~f.mem.short => f.mem.bufp = f.mem.buf /\ f.mem.sizep = f.mem.len

StdioInv == StdioType /\ CallFits /\ InBounds /\ ReadAhead /\ AtEof /\ MemShown

(* A stream whose buffer is empty, between calls. *)
Empty == /\ f \in FILE /\ f.buf = <<>> /\ ~f.eof
         /\ f.buf_pos = 0 \/ f.mode # "r"
         /\ call = NoCall

(* Such a stream is a good one, whatever file it stands for. *)
LEMMA EmptyKeeps ==
    ASSUME file' \in Seq(Cell), Len(file') <= MaxSize, off' \in 0..MaxSize, faults' \in Nat,
           Empty', MemShown'
    PROVE  StdioInv'
  <1>1. call' \in [op : {"none", "read", "write"}, n : Nat, bytes : Seq(Byte)]
    BY DEF NoCall, Empty
  <1>2. off' \in Nat /\ Len(file') \in Nat /\ off' <= MaxSize
    BY StdioAssumption, LenProperties
  <1>3. StdioType'
    BY <1>1, <1>2 DEF StdioType, Empty
  <1>4. CallFits'
    BY DEF CallFits, NoCall, Empty
  <1>5. InBounds'
    <2>1. call'.n = 0 /\ Len(f'.buf) = 0
      BY DEF NoCall, Empty
    <2>2. PICK o \in Nat : o = off'
      BY <1>2
    <2>3. o + Len(f'.buf) + call'.n = o
      BY <2>1
    <2>4. QED
      BY <1>2, <2>2, <2>3 DEF InBounds
  <1>6. ReadAhead'
    BY <1>2 DEF ReadAhead, Empty
  <1>7. AtEof'
    BY DEF AtEof, Empty
  <1>8. QED
    BY <1>3, <1>4, <1>5, <1>6, <1>7 DEF StdioInv

(* Fresh streams are streams. *)
LEMMA FreshIs ==
    ASSUME NEW m \in {"closed", "r", "w", "a", "m"}
    PROVE  /\ Fresh(m) \in FILE /\ Fresh(m).mode = m /\ Fresh(m).buf = <<>>
           /\ Fresh(m).buf_pos = 0 /\ ~Fresh(m).eof /\ Fresh(m).mem = NoMem
           /\ NoMem \in Memory
  <1>1. NoMem \in Memory
    BY DEF NoMem, Memory
  <1>2. <<>> \in Seq(Cell)
    OBVIOUS
  <1>3. QED
    BY <1>1, <1>2 DEF Fresh, FILE

(* The fields of the stream and of a call. *)
LEMMA StdioFields ==
    ASSUME StdioType
    PROVE  /\ f.buf \in Seq(Cell) /\ Len(f.buf) \in Nat /\ f.buf_pos \in Nat
           /\ f.mode \in {"closed", "r", "w", "a", "m"} /\ f.eof \in BOOLEAN
           /\ f.mem \in Memory
           /\ Len(file) \in Nat /\ off \in Nat /\ file \in Seq(Cell)
           /\ call.n \in Nat /\ call.op \in {"none", "read", "write"}
           /\ call.bytes \in Seq(Byte) /\ call.bytes \in Seq(Cell)
  <1>1. f.buf \in Seq(Cell) /\ f.buf_pos \in Nat
        /\ f.mode \in {"closed", "r", "w", "a", "m"} /\ f.eof \in BOOLEAN
        /\ f.mem \in Memory
    BY DEF StdioType, FILE
  <1>2. call.n \in Nat /\ call.op \in {"none", "read", "write"} /\ call.bytes \in Seq(Byte)
    BY DEF StdioType
  <1>3. Byte \subseteq Cell
    BY DEF Cell
  <1>4. call.bytes \in Seq(Cell)
    BY <1>2, <1>3, SeqMonotonic
  <1>5. Len(f.buf) \in Nat
    BY <1>1, LenProperties
  <1>6. file \in Seq(Cell) /\ off \in Nat /\ Len(file) \in Nat
    BY LenProperties DEF StdioType
  <1>7. QED
    BY <1>1, <1>2, <1>4, <1>5, <1>6

(* A flush that is not short writes the whole buffer; a short one drops    *)
(* the rest.                                                               *)
LEMMA FlushWrites ==
    ASSUME StdioInv, Writing, file_flush_write
    PROVE  /\ file' \in Seq(Cell) /\ Len(file') <= MaxSize /\ faults' \in Nat
           /\ off' \in 0..MaxSize /\ off' <= off + Len(f.buf)
           /\ slip' \/ (file' = Overlay(file, off, f.buf) /\ off' = off + Len(f.buf))
  <1>1. /\ file \in Seq(Cell) /\ off \in Nat /\ f.buf \in Seq(Cell) /\ Len(f.buf) \in Nat
        /\ Len(file) \in Nat /\ faults \in Nat /\ call.n \in Nat
        /\ Len(file) <= MaxSize /\ off + Len(f.buf) + call.n <= MaxSize
    BY StdioFields DEF StdioInv, InBounds, StdioType
  <1>2. PICK k \in 0..Len(f.buf) :
           /\ file' = Overlay(file, off, SubSeq(f.buf, 1, k))
           /\ off' = off + k
           /\ slip' = (k < Len(f.buf))
           /\ faults' = IF k < Len(f.buf) THEN faults + 1 ELSE faults
    BY Zenon DEF file_flush_write, FlushTo
  <1> DEFINE t == SubSeq(f.buf, 1, k)
  <1>3. t \in Seq(Cell) /\ Len(t) = k
    <2>1. \A i \in 1..k : f.buf[i] \in Cell
      BY <1>1, ElementOfSeq
    <2>2. k \in Int /\ 1 \in Int
      BY <1>1
    <2>3. t \in Seq(Cell) /\ Len(t) = IF 1 <= k THEN k - 1 + 1 ELSE 0
      BY <2>1, <2>2, SubSeqProperties
    <2>4. QED
      BY <1>1, <2>3
  <1>4. k \in Nat /\ k <= Len(f.buf) /\ off + k <= MaxSize
    BY <1>1, StdioAssumption
  <1>5. file' \in Seq(Cell) /\ Len(file') <= MaxSize
    <2> HIDE DEF t
    <2>1. Overlay(file, off, t) \in Seq(Cell) /\ Len(Overlay(file, off, t)) <= MaxSize
      BY <1>1, <1>3, <1>4, StdioAssumption, OverlayType
    <2>2. QED
      BY <1>2, <2>1 DEF t
  <1>6. off' \in 0..MaxSize /\ off' <= off + Len(f.buf) /\ faults' \in Nat
    BY <1>1, <1>2, <1>4, StdioAssumption
  <1>7. CASE k = Len(f.buf)
    <2>1. t = f.buf
      BY <1>1, <1>7, SubSeqFull
    <2>2. QED
      BY <1>2, <1>5, <1>6, <1>7, <2>1
  <1>8. CASE k # Len(f.buf)
    <2>1. k < Len(f.buf)
      BY <1>1, <1>4, <1>8
    <2>2. slip' = (k < Len(f.buf))
      BY <1>2
    <2>3. slip'
      BY <2>1, <2>2, Zenon
    <2>4. QED
      BY <1>5, <1>6, <2>3
  <1>9. QED
    BY <1>7, <1>8

-----------------------------------------------------------------------------
(* The calls that end with an empty buffer. *)
LEMMA QuietStreams ==
    ASSUME StdioInv, Free \/ f.mode = "closed"
    PROVE  call = NoCall
  BY StdioFields DEF StdioInv, CallFits, Free

(* Opening, by name or over a descriptor. *)
LEMMA OpenKeeps ==
    ASSUME StdioInv, NEW m \in {"closed", "r", "w", "a"}, f' = Fresh(m), file' = file,
           off' \in 0..MaxSize, call' = NoCall, faults' \in Nat
    PROVE  StdioInv'
  <1>1. /\ Fresh(m) \in FILE /\ Fresh(m).mode = m /\ Fresh(m).buf = <<>>
        /\ Fresh(m).buf_pos = 0 /\ ~Fresh(m).eof
    BY FreshIs
  <1>2. file' \in Seq(Cell) /\ Len(file') <= MaxSize
    BY DEF StdioInv, StdioType, InBounds
  <1>3. MemShown'
    BY <1>1 DEF MemShown
  <1>4. QED
    BY <1>1, <1>2, <1>3, EmptyKeeps DEF Empty

(* What open, close, freopen and exit leave is a fresh stream. *)
LEMMA OpeningKeeps ==
    ASSUME StdioInv,
           \/ \E m \in {"r", "w", "a"} : \/ fopen(m) \/ freopen(m)
                                         \/ \E o \in 0..Len(file) : fdopen(m, o)
           \/ exit
    PROVE  StdioInv'
  <1>1. /\ faults \in Nat /\ 0 \in 0..MaxSize /\ Len(file) \in Nat /\ Len(file) <= MaxSize
    BY StdioAssumption, StdioFields DEF StdioInv, StdioType, InBounds
  <1>2. ASSUME NEW m \in {"r", "w", "a"}, fopen(m) PROVE StdioInv'
    <2>1. f.mode = "closed"
      BY <1>2 DEF fopen, Closed, Fresh
    <2>2. f' = Fresh(m) /\ off' = 0 /\ file' = file /\ call' = NoCall /\ faults' = faults
      BY <1>2, <2>1, QuietStreams DEF fopen
    <2>3. QED
      BY <1>1, <2>2, OpenKeeps
  <1>3. ASSUME NEW m \in {"r", "w", "a"}, freopen(m) PROVE StdioInv'
    <2>1. /\ f' = Fresh(m) \/ f' = Fresh("closed")
          /\ off' = 0 /\ file' = file /\ faults' = faults /\ call' = call
      BY <1>3, Zenon DEF freopen, Closed
    <2>2. call' = NoCall
      BY <1>3, <2>1, QuietStreams DEF freopen, Idle
    <2>3. QED
      BY <1>1, <2>1, <2>2, OpenKeeps
  <1>4. ASSUME NEW m \in {"r", "w", "a"}, NEW o \in 0..Len(file), fdopen(m, o) PROVE StdioInv'
    <2>1. f.mode = "closed"
      BY <1>4 DEF fdopen, Closed, Fresh
    <2>2. f' = Fresh(m) /\ off' = o /\ file' = file /\ call' = NoCall /\ faults' = faults
      BY <1>4, <2>1, QuietStreams DEF fdopen
    <2>3. off' \in 0..MaxSize
      BY <1>1, <2>2, StdioAssumption
    <2>4. QED
      BY <1>1, <2>2, <2>3, OpenKeeps
  <1>5. ASSUME exit PROVE StdioInv'
    <2>1. /\ f' = Fresh("closed") /\ off' = 0 /\ file' = file /\ faults' = faults
          /\ call' = call /\ Free
      BY <1>5 DEF exit, Closed, Idle
    <2>2. call' = NoCall
      BY <2>1, QuietStreams
    <2>3. QED
      BY <1>1, <2>1, <2>2, OpenKeeps
  <1>6. QED
    BY <1>2, <1>3, <1>4, <1>5

(* Closing and flushing, what waits being written first. *)
LEMMA FlushingKeeps ==
    ASSUME StdioInv, fclose \/ fflush
    PROVE  StdioInv'
  <1>1. /\ faults \in Nat /\ off \in 0..MaxSize /\ file \in Seq(Cell) /\ Len(file) <= MaxSize
        /\ f \in FILE
    BY StdioAssumption DEF StdioInv, StdioType, InBounds
  <1>2. call = NoCall
    BY QuietStreams DEF fclose, fflush, Idle
  <1>3. CASE fclose
    <2>1. Flushed /\ f' = Fresh("closed") /\ call' = NoCall
      BY <1>2, <1>3 DEF fclose, Closed
    <2>2. /\ file' \in Seq(Cell) /\ Len(file') <= MaxSize /\ off' \in 0..MaxSize /\ faults' \in Nat
      BY <1>1, <2>1, FlushWrites DEF Flushed, Pending
    <2>3. /\ Fresh("closed") \in FILE /\ Fresh("closed").mode = "closed"
          /\ Fresh("closed").buf = <<>> /\ Fresh("closed").buf_pos = 0 /\ ~Fresh("closed").eof
      BY FreshIs
    <2>4. MemShown'
      BY <2>1, <2>3 DEF MemShown
    <2>5. QED
      BY <2>1, <2>2, <2>3, <2>4, EmptyKeeps DEF Empty
  <1>4. CASE fflush
    <2>1. Writing /\ file_flush_write /\ f' = [f EXCEPT !.buf = <<>>] /\ call' = NoCall
      BY <1>2, <1>4 DEF fflush, Pending
    <2>2. /\ file' \in Seq(Cell) /\ Len(file') <= MaxSize /\ off' \in 0..MaxSize /\ faults' \in Nat
      BY <2>1, FlushWrites
    <2>3. /\ f' \in FILE /\ f'.buf = <<>> /\ f'.mode = f.mode /\ f'.eof = f.eof
      <3>1. <<>> \in Seq(Cell)
        OBVIOUS
      <3>2. QED
        BY <1>1, <2>1, <3>1 DEF FILE
    <2>4. f.mode \in {"w", "a"} /\ ~f.eof
      BY <2>1 DEF Writing, StdioInv, AtEof
    <2>5. MemShown'
      BY <2>3, <2>4 DEF MemShown
    <2>6. QED
      BY <2>1, <2>2, <2>3, <2>4, <2>5, EmptyKeeps DEF Empty
  <1>5. QED
    BY <1>3, <1>4

(* Where fseek goes. *)
SeekBase(whence) == CASE whence = "set" -> 0
                      [] whence = "cur" -> off
                      [] OTHER -> Len(file)

(* fseek drops the buffer and the flag. *)
LEMMA SeekingKeeps ==
    ASSUME StdioInv, NEW whence \in {"set", "cur", "end"}, NEW d \in (-MaxSize)..MaxSize,
           fseek(whence, d)
    PROVE  StdioInv'
  <1>1. /\ faults \in Nat /\ off \in 0..MaxSize /\ off \in Nat /\ file \in Seq(Cell)
        /\ Len(file) <= MaxSize /\ Len(file) \in Nat /\ f \in FILE
    BY StdioAssumption, StdioFields DEF StdioInv, StdioType, InBounds
  <1>2. /\ d + SeekBase(whence) <= MaxSize /\ f.mode # "m" /\ Free /\ f' = SeekDrops
        /\ IF d + SeekBase(whence) >= 0 THEN off' = d + SeekBase(whence) ELSE off' = off
        /\ file' = file /\ call' = call /\ faults' = faults
    BY DEF fseek, Idle, SeekBase
  <1>3. d + SeekBase(whence) \in Int
    <2>1. d \in Int
      BY StdioAssumption
    <2>2. SeekBase(whence) \in Int
      BY <1>1 DEF SeekBase
    <2>3. QED
      BY <2>1, <2>2
  <1>4. off' \in 0..MaxSize
    BY <1>1, <1>2, <1>3, StdioAssumption
  <1>5. call' = NoCall
    BY <1>2, QuietStreams
  <1>6. /\ f' \in FILE /\ f'.buf = <<>> /\ f'.buf_pos = 0 /\ ~f'.eof /\ f'.mode = f.mode
    <2>1. <<>> \in Seq(Cell) /\ 0 \in Nat
      OBVIOUS
    <2>2. f \in FILE /\ f' = SeekDrops
      BY <1>1, <1>2
    <2>3. QED
      BY <2>1, <2>2 DEF SeekDrops, FILE
  <1>7. MemShown'
    BY <1>2, <1>6 DEF MemShown
  <1>8. file' \in Seq(Cell) /\ Len(file') <= MaxSize /\ faults' \in Nat
    BY <1>1, <1>2
  <1>9. Empty'
    BY <1>5, <1>6 DEF Empty
  <1>10. QED
    BY <1>4, <1>7, <1>8, <1>9, EmptyKeeps

(* A memory stream starts with room. *)
LEMMA MemOpenKeeps ==
    ASSUME StdioInv, open_memstream PROVE StdioInv'
  <1> DEFINE g == [NoMem EXCEPT !.buf = 1, !.cap = MemStart, !.bufp = 1]
  <1>1. /\ faults \in Nat /\ off \in 0..MaxSize /\ file \in Seq(Cell) /\ Len(file) <= MaxSize
    BY StdioAssumption DEF StdioInv, StdioType, InBounds
  <1>2. /\ f.mode = "closed" /\ f' = [Fresh("m") EXCEPT !.mem = g]
        /\ file' = file /\ off' = off /\ call' = call /\ faults' = faults
    BY DEF open_memstream, Closed, Fresh
  <1>3. call' = NoCall
    BY <1>2, QuietStreams
  <1>4. /\ g \in Memory /\ g.len = 0 /\ g.cap = MemStart /\ g.bufp = g.buf /\ g.sizep = g.len
    <2>1. NoMem \in Memory /\ NoMem.len = 0 /\ NoMem.sizep = 0
      BY DEF NoMem, Memory
    <2>2. MemStart \in Nat /\ 1 \in 0..3
      BY StdioAssumption
    <2>3. QED
      BY <2>1, <2>2 DEF Memory
  <1> HIDE DEF g
  <1>5. /\ Fresh("m") \in FILE /\ Fresh("m").mode = "m" /\ Fresh("m").buf = <<>>
        /\ Fresh("m").buf_pos = 0 /\ ~Fresh("m").eof
    BY FreshIs
  <1>6. /\ f' \in FILE /\ f'.mode = "m" /\ f'.buf = <<>> /\ f'.buf_pos = 0 /\ ~f'.eof
        /\ f'.mem = g
    BY <1>2, <1>4, <1>5 DEF FILE
  <1>7. MemShown'
    BY <1>4, <1>6, StdioAssumption DEF MemShown
  <1>8. QED
    BY <1>1, <1>2, <1>3, <1>6, <1>7, EmptyKeeps DEF Empty

-----------------------------------------------------------------------------
(* The smaller of two numbers. *)
LEMMA LeastIs ==
    ASSUME NEW a \in Int, NEW b \in Int
    PROVE  /\ Least2(a, b) \in Int /\ Least2(a, b) <= a /\ Least2(a, b) <= b
           /\ Least2(a, b) = a \/ Least2(a, b) = b
  BY DEF Least2

(* The beginning of fread and of fwrite. *)
LEMMA BeginKeeps ==
    ASSUME StdioInv, \/ \E n \in 1..MaxCall : fread(n)
                     \/ \E s \in Upto(Byte, MaxCall) : fwrite(s)
    PROVE  StdioInv'
  <1>1. StdioType /\ CallFits /\ InBounds /\ ReadAhead /\ AtEof /\ MemShown
    BY DEF StdioInv
  <1>2. ASSUME NEW n \in 1..MaxCall, fread(n) PROVE StdioInv'
    <2> DEFINE c == [NoCall EXCEPT !.op = "read", !.n = n]
    <2>1. /\ f.mode = "r" /\ call' = c /\ file' = file /\ off' = off /\ f' = f
          /\ faults' = faults
      BY <1>2 DEF fread
    <2>2. n \in Nat /\ n > 0
      BY StdioAssumption
    <2>3. c.op = "read" /\ c.n = n /\ c \in [op : {"none", "read", "write"}, n : Nat, bytes : Seq(Byte)]
      <3>1. <<>> \in Seq(Byte)
        OBVIOUS
      <3>2. QED
        BY <2>2, <3>1 DEF NoCall
    <2> HIDE DEF c
    <2>4. StdioType'
      BY <1>1, <2>1, <2>3 DEF StdioType
    <2>5. CallFits'
      BY <2>1, <2>2, <2>3 DEF CallFits
    <2>6. InBounds'
      BY <1>1, <2>1 DEF InBounds, Writing
    <2>7. ReadAhead' /\ AtEof'
      BY <1>1, <2>1 DEF ReadAhead, AtEof
    <2>8. MemShown'
      BY <2>1 DEF MemShown
    <2>9. QED
      BY <2>4, <2>5, <2>6, <2>7, <2>8 DEF StdioInv
  <1>3. ASSUME NEW s \in Upto(Byte, MaxCall), fwrite(s) PROVE StdioInv'
    <2> DEFINE c == [op |-> "write", n |-> Len(s), bytes |-> s]
    <2>1. /\ f.mode # "r" /\ f.mode # "closed" /\ call' = c /\ file' = file /\ off' = off
          /\ f' = f /\ faults' = faults
          /\ f.mode = "m" \/ off + Len(f.buf) + Len(s) <= MaxSize
      BY <1>3 DEF fwrite, Idle
    <2>2. s \in Seq(Byte) /\ Len(s) \in Nat
      <3>1. PICK k \in 1..MaxCall : s \in [1..k -> Byte]
        BY DEF Upto
      <3>2. k \in Nat
        BY StdioAssumption
      <3>3. QED
        BY <3>1, <3>2
    <2>3. /\ c.op = "write" /\ c.n = Len(s) /\ c.bytes = s
          /\ c \in [op : {"none", "read", "write"}, n : Nat, bytes : Seq(Byte)]
      BY <2>2
    <2> HIDE DEF c
    <2>4. StdioType'
      BY <1>1, <2>1, <2>3 DEF StdioType
    <2>5. CallFits'
      <3>1. f.mode \in {"w", "a", "m"}
        BY <1>1, <2>1, StdioFields
      <3>2. QED
        BY <2>1, <2>3, <3>1 DEF CallFits
    <2>6. InBounds'
      <3>1. Writing => off + Len(f.buf) + Len(s) <= MaxSize
        BY <2>1 DEF Writing
      <3>2. QED
        BY <1>1, <2>1, <2>3, <3>1 DEF InBounds, Writing
    <2>7. ReadAhead' /\ AtEof'
      BY <1>1, <2>1 DEF ReadAhead, AtEof
    <2>8. MemShown'
      BY <1>1, <2>1, <2>3 DEF MemShown, Free
    <2>9. QED
      BY <2>4, <2>5, <2>6, <2>7, <2>8 DEF StdioInv
  <1>4. QED
    BY <1>2, <1>3

(* What ReadCopy hands out is what stands in the file from where the       *)
(* program is.                                                             *)
LEMMA CopyReads ==
    ASSUME StdioInv, ReadCopy
    PROVE  \E n \in Nat \ {0} :
              /\ n <= Unread /\ n <= call.n
              /\ f' = [f EXCEPT !.buf_pos = f.buf_pos + n]
              /\ call' = IF n = call.n THEN NoCall ELSE [call EXCEPT !.n = call.n - n]
              /\ req' = <<"read", SubSeq(file, ftell + 1, ftell + n)>>
              /\ off' = off /\ file' = file /\ faults' = faults
              /\ f.mode = "r" /\ ftell \in Nat /\ ftell + n <= Len(file)
  <1>1. /\ StdioType /\ call.op = "read" /\ f.mode = "r" /\ call.n > 0
        /\ f.buf_pos <= Len(f.buf) /\ Len(f.buf) <= off
        /\ \A i \in 1..Len(f.buf) : f.buf[i] = file[(off - Len(f.buf)) + i]
        /\ f.buf # <<>> => off <= Len(file)
    BY DEF StdioInv, CallFits, ReadAhead, ReadCopy
  <1>2. /\ f.buf \in Seq(Cell) /\ Len(f.buf) \in Nat /\ f.buf_pos \in Nat /\ off \in Nat
        /\ call.n \in Nat /\ Len(file) \in Nat /\ file \in Seq(Cell)
        /\ Unread = Len(f.buf) - f.buf_pos /\ Unread \in Nat /\ Unread > 0
    BY <1>1, StdioFields DEF Unread, ReadCopy
  <1>3. f.buf # <<>> /\ off <= Len(file)
    BY <1>1, <1>2
  <1>4. PICK n \in Int : n = Least2(Unread, call.n) /\ n <= Unread /\ n <= call.n /\ n > 0
    <2>1. Unread \in Int /\ call.n \in Int
      BY <1>2
    <2>2. /\ Least2(Unread, call.n) \in Int
          /\ Least2(Unread, call.n) <= Unread /\ Least2(Unread, call.n) <= call.n
          /\ Least2(Unread, call.n) = Unread \/ Least2(Unread, call.n) = call.n
      BY <2>1, LeastIs, Zenon
    <2>3. Least2(Unread, call.n) > 0
      BY <1>1, <1>2, <2>2
    <2>4. QED
      BY <2>2, <2>3
  <1>5. /\ f' = [f EXCEPT !.buf_pos = f.buf_pos + n]
        /\ call' = IF n = call.n THEN NoCall ELSE [call EXCEPT !.n = call.n - n]
        /\ req' = <<"read", Taken(n)>>
        /\ off' = off /\ file' = file /\ faults' = faults
    BY <1>4 DEF ReadCopy
  <1>6. PICK L \in Nat, P \in Nat, O \in Nat, F \in Nat :
           L = Len(f.buf) /\ P = f.buf_pos /\ O = off /\ F = Len(file)
    BY <1>2
  <1>7. /\ P <= L /\ L <= O /\ O <= F /\ n \in Nat \ {0} /\ P + n <= L
    BY <1>1, <1>2, <1>3, <1>4, <1>6
  <1>8. PICK t \in Nat : t = ftell /\ t = (O - L) + P
    <2>1. ftell = O - (L - P)
      BY <1>6 DEF ftell, Unread
    <2>2. O - (L - P) = (O - L) + P /\ (O - L) + P \in Nat
      BY <1>7
    <2>3. QED
      BY <2>1, <2>2
  <1>9. t + n <= F
    BY <1>7, <1>8
  <1>10. Taken(n) = SubSeq(file, t + 1, t + n)
    <2> DEFINE b == P + 1
               e == P + n
               x == t + 1
               y == t + n
    <2>1. \A i \in b..e : f.buf[i] \in Cell
      <3>1. \A i \in b..e : i \in 1..L
        BY <1>7
      <3>2. QED
        BY <1>2, <1>6, <3>1, ElementOfSeq
    <2>2. \A i \in x..y : file[i] \in Cell
      <3>1. \A i \in x..y : i \in 1..F
        BY <1>9
      <3>2. QED
        BY <1>2, <1>6, <3>1, ElementOfSeq
    <2>3. b \in Int /\ e \in Int /\ x \in Int /\ y \in Int /\ b <= e /\ x <= y
          /\ e - b + 1 = n /\ y - x + 1 = n
      BY <1>7
    <2>4. \A i \in 1..n : f.buf[b + i - 1] = file[x + i - 1]
      <3> TAKE i \in 1..n
      <3>1. b + i - 1 \in 1..L /\ (O - L) + (b + i - 1) = x + i - 1
        BY <1>7, <1>8
      <3>2. f.buf[b + i - 1] = file[(O - L) + (b + i - 1)]
        BY <1>1, <1>6, <3>1
      <3>3. QED
        BY <3>1, <3>2
    <2> HIDE DEF b, e, x, y
    <2>5. /\ SubSeq(f.buf, b, e) \in Seq(Cell) /\ Len(SubSeq(f.buf, b, e)) = n
          /\ \A i \in 1..n : SubSeq(f.buf, b, e)[i] = f.buf[b + i - 1]
      BY <2>1, <2>3, SubSeqProperties
    <2>6. /\ SubSeq(file, x, y) \in Seq(Cell) /\ Len(SubSeq(file, x, y)) = n
          /\ \A i \in 1..n : SubSeq(file, x, y)[i] = file[x + i - 1]
      BY <2>2, <2>3, SubSeqProperties
    <2>7. \A i \in 1..n : SubSeq(f.buf, b, e)[i] = SubSeq(file, x, y)[i]
      BY <2>4, <2>5, <2>6
    <2>8. SubSeq(f.buf, b, e) = SubSeq(file, x, y)
      BY <2>5, <2>6, <2>7, SeqEqual
    <2>9. QED
      BY <1>6, <2>8 DEF Taken, b, e, x, y
  <1>11. QED
    BY <1>1, <1>4, <1>5, <1>6, <1>7, <1>8, <1>9, <1>10

(* fread hands out from the buffer. *)
LEMMA CopyKeeps ==
    ASSUME StdioInv, ReadCopy PROVE StdioInv'
  <1>1. StdioType /\ CallFits /\ InBounds /\ ReadAhead /\ AtEof /\ MemShown
    BY DEF StdioInv
  <1>2. PICK n \in Nat \ {0} :
           /\ n <= Unread /\ n <= call.n
           /\ f' = [f EXCEPT !.buf_pos = f.buf_pos + n]
           /\ call' = IF n = call.n THEN NoCall ELSE [call EXCEPT !.n = call.n - n]
           /\ off' = off /\ file' = file /\ faults' = faults
           /\ f.mode = "r"
    BY CopyReads
  <1>3. PICK L \in Nat, P \in Nat, C \in Nat : L = Len(f.buf) /\ P = f.buf_pos /\ C = call.n
    BY <1>1, StdioFields
  <1>4. P + n <= L /\ P + n \in Nat /\ n <= C /\ (n # C => C - n \in Nat /\ C - n > 0)
    BY <1>2, <1>3 DEF Unread
  <1>5. /\ f' \in FILE /\ f'.buf_pos = P + n /\ f'.buf = f.buf /\ f'.mode = "r"
        /\ f'.eof = f.eof /\ f'.mem = f.mem
    <2>1. f \in FILE /\ f' = [f EXCEPT !.buf_pos = P + n]
      BY <1>1, <1>2, <1>3 DEF StdioType
    <2>2. QED
      BY <1>2, <1>4, <2>1 DEF FILE
  <1>6. /\ call' \in [op : {"none", "read", "write"}, n : Nat, bytes : Seq(Byte)]
        /\ call' = NoCall \/ (call'.op = "read" /\ call'.n = C - n /\ n # C)
    <2>1. call \in [op : {"none", "read", "write"}, n : Nat, bytes : Seq(Byte)]
          /\ call.op = "read"
      BY <1>1 DEF StdioType, ReadCopy
    <2>2. CASE n = C
      <3>1. call' = NoCall
        BY <1>2, <1>3, <2>2
      <3>2. <<>> \in Seq(Byte)
        OBVIOUS
      <3>3. QED
        BY <3>1, <3>2 DEF NoCall
    <2>3. CASE n # C
      <3>1. call' = [call EXCEPT !.n = C - n]
        BY <1>2, <1>3, <2>3
      <3>2. C - n \in Nat
        BY <1>4, <2>3
      <3>3. QED
        BY <2>1, <2>3, <3>1, <3>2
    <2>4. QED
      BY <2>2, <2>3
  <1>7. StdioType'
    BY <1>1, <1>2, <1>5, <1>6 DEF StdioType
  <1>8. CallFits'
    <2>1. CASE call' = NoCall
      BY <2>1 DEF CallFits, NoCall
    <2>2. CASE call'.op = "read" /\ call'.n = C - n /\ n # C
      <3>1. call'.n > 0
        BY <1>4, <2>2
      <3>2. QED
        BY <1>5, <2>2, <3>1 DEF CallFits
    <2>3. QED
      BY <1>6, <2>1, <2>2
  <1>9. InBounds'
    BY <1>1, <1>2, <1>5 DEF InBounds, Writing
  <1>10. ReadAhead'
    <2>1. f'.buf_pos <= Len(f'.buf)
      BY <1>3, <1>4, <1>5
    <2>2. QED
      BY <1>1, <1>2, <1>5, <2>1 DEF ReadAhead
  <1>11. AtEof'
    <2>1. ~f.eof
      <3>1. P # L
        BY <1>4
      <3>2. QED
        BY <1>1, <1>3, <3>1 DEF AtEof
    <2>2. QED
      BY <1>5, <2>1 DEF AtEof
  <1>12. MemShown'
    BY <1>5 DEF MemShown
  <1>13. QED
    BY <1>7, <1>8, <1>9, <1>10, <1>11, <1>12 DEF StdioInv

(* The end of a call on a stream that may have seen the end of its file. *)
LEMMA EndKeeps ==
    ASSUME StdioInv, file' = file, off' = off, faults' \in Nat, call' = NoCall,
           f.mode = "r", f' = f \/ (f' = [f EXCEPT !.eof = TRUE] /\ Unread = 0 /\ off >= Len(file))
    PROVE  StdioInv'
  <1>1. StdioType /\ CallFits /\ InBounds /\ ReadAhead /\ AtEof
    BY DEF StdioInv
  <1>2. /\ f' \in FILE /\ f'.buf = f.buf /\ f'.buf_pos = f.buf_pos /\ f'.mode = "r"
        /\ f'.eof = f.eof \/ (Unread = 0 /\ off >= Len(file))
    <2>1. f \in FILE
      BY <1>1 DEF StdioType
    <2>2. QED
      BY <2>1 DEF FILE
  <1>3. call' \in [op : {"none", "read", "write"}, n : Nat, bytes : Seq(Byte)]
    <2>1. <<>> \in Seq(Byte)
      OBVIOUS
    <2>2. QED
      BY <2>1 DEF NoCall
  <1>4. StdioType'
    BY <1>1, <1>2, <1>3 DEF StdioType
  <1>5. CallFits'
    BY DEF CallFits, NoCall
  <1>6. InBounds'
    BY <1>1, <1>2 DEF InBounds, Writing
  <1>7. ReadAhead'
    BY <1>1, <1>2 DEF ReadAhead
  <1>8. AtEof'
    <2>1. Unread = 0 => f.buf_pos = Len(f.buf)
      BY <1>1, StdioFields DEF Unread
    <2>2. QED
      BY <1>1, <1>2, <2>1 DEF AtEof
  <1>9. MemShown'
    BY <1>2 DEF MemShown
  <1>10. QED
    BY <1>4, <1>5, <1>6, <1>7, <1>8, <1>9 DEF StdioInv

(* A portion of the file. *)
LEMMA PortionIs ==
    ASSUME StdioType, NEW r \in Nat \ {0}, off + r <= Len(file)
    PROVE  /\ SubSeq(file, off + 1, off + r) \in Seq(Cell)
           /\ Len(SubSeq(file, off + 1, off + r)) = r
           /\ \A i \in 1..r : SubSeq(file, off + 1, off + r)[i] = file[off + i]
  <1>1. file \in Seq(Cell)
    BY DEF StdioType
  <1>2. PICK o \in Nat, F \in Nat : o = off /\ F = Len(file)
    BY StdioFields
  <1>3. o + r <= F /\ o + 1 \in Int /\ o + r \in Int /\ o + 1 <= o + r
        /\ (o + r) - (o + 1) + 1 = r
    BY <1>2
  <1>4. \A i \in (o + 1)..(o + r) : file[i] \in Cell
    <2>1. \A i \in (o + 1)..(o + r) : i \in 1..F
      BY <1>3
    <2>2. QED
      BY <1>1, <1>2, <2>1, ElementOfSeq
  <1>5. /\ SubSeq(file, o + 1, o + r) \in Seq(Cell) /\ Len(SubSeq(file, o + 1, o + r)) = r
        /\ \A i \in 1..r : SubSeq(file, o + 1, o + r)[i] = file[(o + 1) + i - 1]
    <2>1. PICK m \in Int, n \in Int : m = o + 1 /\ n = o + r
      BY <1>3, Zenon
    <2>2. /\ SubSeq(file, m, n) \in Seq(Cell)
          /\ Len(SubSeq(file, m, n)) = IF m <= n THEN n - m + 1 ELSE 0
          /\ \A i \in 1..(n - m + 1) : SubSeq(file, m, n)[i] = file[m + i - 1]
      <3>1. \A i \in m..n : file[i] \in Cell
        BY <1>4, <2>1, Zenon
      <3>2. QED
        BY <3>1, SubSeqProperties
    <2>3. m <= n /\ n - m + 1 = r
      BY <1>3, <2>1
    <2>4. QED
      BY <2>1, <2>2, <2>3, Zenon
  <1>6. \A i \in 1..r : (o + 1) + i - 1 = o + i
    OBVIOUS
  <1>7. QED
    BY <1>2, <1>5, <1>6

(* What ReadFill does: a portion of the file, or the end of the call. *)
LEMMA FillReads ==
    ASSUME StdioInv, ReadFill
    PROVE  /\ f.mode = "r" /\ Unread = 0 /\ file' = file /\ req' = req /\ faults' \in Nat
           /\ \/ \E r \in Nat \ {0} :
                    /\ off + r <= Len(file)
                    /\ f' = [f EXCEPT !.buf = SubSeq(file, off + 1, off + r), !.buf_pos = 0]
                    /\ off' = off + r /\ call' = call
              \/ /\ off' = off /\ call' = NoCall
                 /\ f' = f \/ (f' = [f EXCEPT !.eof = TRUE] /\ off >= Len(file))
  <1> DEFINE r == Max({0, Least2(BUFSIZ, Len(file) - off)})
  <1>1. /\ StdioType /\ f.mode = "r" /\ Unread = 0 /\ file' = file /\ req' = req
        /\ faults \in Nat
    BY DEF StdioInv, CallFits, ReadFill, StdioType
  <1>2. Len(file) \in Nat /\ off \in Nat /\ BUFSIZ \in Nat \ {0} /\ Len(file) - off \in Int
    BY <1>1, StdioFields, StdioAssumption
  <1>3. PICK l \in Int : /\ l = Least2(BUFSIZ, Len(file) - off)
                         /\ l <= Len(file) - off /\ (l = BUFSIZ \/ l = Len(file) - off)
    <2>1. BUFSIZ \in Int /\ Len(file) - off \in Int
      BY <1>2
    <2>2. /\ Least2(BUFSIZ, Len(file) - off) \in Int
          /\ Least2(BUFSIZ, Len(file) - off) <= Len(file) - off
          /\ \/ Least2(BUFSIZ, Len(file) - off) = BUFSIZ
             \/ Least2(BUFSIZ, Len(file) - off) = Len(file) - off
      BY <2>1, LeastIs, Zenon
    <2>3. QED
      BY <2>2, Zenon
  <1>4. r = IF 0 >= l THEN 0 ELSE l
    BY <1>3, MaxOfTwo
  <1> HIDE DEF r
  <1>5. /\ r \in Nat /\ (r > 0 => off + r <= Len(file)) /\ (r = 0 => off >= Len(file))
    BY <1>2, <1>3, <1>4
  <1>6. \/ /\ r > 0
           /\ f' = [f EXCEPT !.buf = SubSeq(file, off + 1, off + r), !.buf_pos = 0]
           /\ off' = off + r
           /\ call' = call /\ faults' = faults
        \/ /\ r = 0
           /\ f' = [f EXCEPT !.eof = TRUE]
           /\ call' = NoCall
           /\ off' = off /\ faults' = faults
        \/ /\ faults' = faults + 1
           /\ call' = NoCall
           /\ f' = f /\ off' = off
    BY DEF ReadFill, r
  <1>7. faults' \in Nat
    BY <1>1, <1>6
  <1>8. r > 0 => r \in Nat \ {0}
    BY <1>5
  <1>9. QED
    BY <1>1, <1>5, <1>6, <1>7, <1>8

(* fread reads ahead, or ends. *)
LEMMA FillKeeps ==
    ASSUME StdioInv, ReadFill PROVE StdioInv'
  <1>1. StdioType /\ CallFits /\ InBounds /\ ReadAhead /\ AtEof
    BY DEF StdioInv
  <1>2. f.mode = "r" /\ Unread = 0 /\ file' = file /\ faults' \in Nat
    BY FillReads
  <1>3. ASSUME off' = off, call' = NoCall,
               f' = f \/ (f' = [f EXCEPT !.eof = TRUE] /\ off >= Len(file))
        PROVE  StdioInv'
    BY <1>2, <1>3, EndKeeps
  <1>4. ASSUME NEW r \in Nat \ {0}, off + r <= Len(file), off' = off + r, call' = call,
               f' = [f EXCEPT !.buf = SubSeq(file, off + 1, off + r), !.buf_pos = 0]
        PROVE  StdioInv'
    <2> DEFINE b == SubSeq(file, off + 1, off + r)
    <2>1. /\ f \in FILE /\ file \in Seq(Cell) /\ Len(file) \in Nat /\ off \in Nat
          /\ Len(file) <= MaxSize
      BY <1>1, StdioFields DEF StdioType, InBounds
    <2>2. PICK o \in Nat, F \in Nat : o = off /\ F = Len(file)
      BY <2>1
    <2>3. /\ b \in Seq(Cell) /\ Len(b) = r /\ \A i \in 1..r : b[i] = file[o + i]
      BY <1>1, <1>4, <2>2, PortionIs
    <2>4. /\ f' \in FILE /\ f'.buf = b /\ f'.buf_pos = 0 /\ f'.mode = "r" /\ f'.eof = f.eof
      <3>1. f' = [f EXCEPT !.buf = b, !.buf_pos = 0] /\ 0 \in Nat
        BY <1>4
      <3> HIDE DEF b
      <3>2. QED
        BY <1>2, <2>1, <2>3, <3>1 DEF FILE
    <2> HIDE DEF b
    <2>5. off' = o + r /\ o + r \in Nat /\ o + r <= F
      BY <1>4, <2>2
    <2>6. StdioType'
      BY <1>1, <1>2, <1>4, <2>4, <2>5 DEF StdioType
    <2>7. CallFits'
      BY <1>1, <1>2, <1>4, <2>4 DEF CallFits
    <2>8. InBounds'
      <3>1. off' <= MaxSize
        BY <2>1, <2>2, <2>5, StdioAssumption
      <3>2. QED
        BY <1>1, <1>2, <2>4, <3>1 DEF InBounds, Writing
    <2>9. ReadAhead'
      <3>1. 0 <= r /\ r <= o + r /\ (o + r) - r = o
        BY <2>5
      <3>2. f'.buf_pos <= Len(f'.buf) /\ Len(f'.buf) <= off' /\ off' - Len(f'.buf) = o
        BY <2>3, <2>4, <2>5, <3>1
      <3>3. off' <= Len(file')
        BY <1>2, <2>2, <2>5
      <3>4. \A i \in 1..Len(f'.buf) : f'.buf[i] = file'[(off' - Len(f'.buf)) + i]
        BY <1>2, <2>3, <2>4, <3>2
      <3>5. QED
        BY <3>2, <3>3, <3>4 DEF ReadAhead
    <2>10. AtEof'
      <3>1. ~f.eof
        <4>1. ~(o >= F)
          BY <1>4, <2>2
        <4>2. QED
          BY <1>1, <2>2, <4>1 DEF AtEof
      <3>2. QED
        BY <2>4, <3>1 DEF AtEof
    <2>11. MemShown'
      BY <2>4 DEF MemShown
    <2>12. QED
      BY <2>6, <2>7, <2>8, <2>9, <2>10, <2>11 DEF StdioInv
  <1>5. QED
    BY <1>3, <1>4, FillReads


-----------------------------------------------------------------------------
(* What WriteCopy does: the next bytes of the call go to the buffer.       *)
LEMMA CopyWrites ==
    ASSUME StdioInv, WriteCopy
    PROVE  \E n \in Nat \ {0} :
              LET s == SubSeq(call.bytes, 1, n) IN
              /\ n <= call.n /\ s \in Seq(Byte) /\ Len(s) = n
              /\ f' = [f EXCEPT !.buf = f.buf \o s]
              /\ call' = IF n = call.n THEN NoCall
                         ELSE [call EXCEPT !.n = call.n - n,
                                           !.bytes = SubSeq(call.bytes, n + 1, Len(call.bytes))]
              /\ req' = <<"write", s>>
              /\ off' = off /\ file' = file /\ faults' = faults
  <1> DEFINE l == Least2(BUFSIZ - Len(f.buf), call.n)
  <1>1. /\ StdioType /\ Len(call.bytes) = call.n
    BY DEF StdioInv, CallFits, WriteCopy
  <1>2. /\ call.n \in Nat /\ call.bytes \in Seq(Byte) /\ Len(f.buf) \in Nat /\ BUFSIZ \in Nat
    BY <1>1, StdioFields, StdioAssumption
  <1>3. BUFSIZ - Len(f.buf) \in Int /\ call.n \in Int
    BY <1>2
  <1>4. l \in Int /\ l <= call.n
    BY <1>3, LeastIs, Zenon
  <1>5. /\ l > 0
        /\ f' = [f EXCEPT !.buf = f.buf \o SubSeq(call.bytes, 1, l)]
        /\ call' = IF l = call.n THEN NoCall
                   ELSE [call EXCEPT !.n = call.n - l,
                                     !.bytes = SubSeq(call.bytes, l + 1, Len(call.bytes))]
        /\ req' = <<"write", SubSeq(call.bytes, 1, l)>>
        /\ off' = off /\ file' = file /\ faults' = faults
    BY DEF WriteCopy
  <1> HIDE DEF l
  <1>6. l \in Nat \ {0} /\ 1 <= l /\ l - 1 + 1 = l
    BY <1>4, <1>5
  <1>7. SubSeq(call.bytes, 1, l) \in Seq(Byte) /\ Len(SubSeq(call.bytes, 1, l)) = l
    <2>1. \A i \in 1..l : i \in 1..Len(call.bytes)
      BY <1>1, <1>2, <1>4, <1>6
    <2>2. \A i \in 1..l : call.bytes[i] \in Byte
      BY <1>2, <2>1, ElementOfSeq
    <2>3. QED
      BY <1>6, <2>2, SubSeqProperties
  <1>8. QED
    BY <1>4, <1>5, <1>6, <1>7

(* fwrite fills the buffer. *)
LEMMA WriteKeeps ==
    ASSUME StdioInv, WriteCopy PROVE StdioInv'
  <1>1. StdioType /\ CallFits /\ InBounds /\ ReadAhead /\ AtEof /\ MemShown
    BY DEF StdioInv
  <1>2. Writing /\ call.op = "write" /\ f.mode # "r" /\ f.mode # "m" /\ ~f.eof
        /\ Len(call.bytes) = call.n
    BY <1>1 DEF WriteCopy, Writing, AtEof, CallFits
  <1>3. PICK n \in Nat \ {0} :
           LET s == SubSeq(call.bytes, 1, n) IN
           /\ n <= call.n /\ s \in Seq(Byte) /\ Len(s) = n
           /\ f' = [f EXCEPT !.buf = f.buf \o s]
           /\ call' = IF n = call.n THEN NoCall
                      ELSE [call EXCEPT !.n = call.n - n,
                                        !.bytes = SubSeq(call.bytes, n + 1, Len(call.bytes))]
           /\ off' = off /\ file' = file /\ faults' = faults
    BY CopyWrites
  <1> DEFINE s == SubSeq(call.bytes, 1, n)
  <1>4. s \in Seq(Byte) /\ Len(s) = n /\ s \in Seq(Cell)
    <2>1. Byte \subseteq Cell
      BY DEF Cell
    <2>2. QED
      BY <1>3, <2>1, SeqMonotonic
  <1>5. f' = [f EXCEPT !.buf = f.buf \o s]
    BY <1>3
  <1> HIDE DEF s
  <1>6. PICK L \in Nat, C \in Nat, O \in Nat : L = Len(f.buf) /\ C = call.n /\ O = off
    BY <1>1, StdioFields
  <1>7. f.buf \o s \in Seq(Cell) /\ Len(f.buf \o s) = L + n
    <2>1. f.buf \in Seq(Cell)
      BY <1>1, StdioFields
    <2>2. QED
      BY <1>4, <1>6, <2>1, ConcatProperties
  <1>8. /\ f' \in FILE /\ f'.buf = f.buf \o s /\ f'.mode = f.mode /\ f'.eof = f.eof
        /\ f'.mem = f.mem /\ f'.buf_pos = f.buf_pos
    <2>1. f \in FILE
      BY <1>1 DEF StdioType
    <2>2. QED
      BY <1>5, <1>7, <2>1 DEF FILE
  <1>9. /\ call' \in [op : {"none", "read", "write"}, n : Nat, bytes : Seq(Byte)]
        /\ call'.n = C - n /\ C - n \in Nat
        /\ call' = NoCall \/ (call'.op = "write" /\ Len(call'.bytes) = call'.n)
    <2>1. CASE n = C
      <3>1. call' = NoCall /\ C - n = 0
        BY <1>3, <1>6, <2>1
      <3>2. <<>> \in Seq(Byte)
        OBVIOUS
      <3>3. QED
        BY <3>1, <3>2 DEF NoCall
    <2>2. CASE n # C
      <3> DEFINE b == SubSeq(call.bytes, n + 1, C)
      <3>1. call' = [call EXCEPT !.n = C - n, !.bytes = b]
        BY <1>2, <1>3, <1>6, <2>2
      <3>2. n <= C /\ C - n \in Nat /\ n + 1 <= C /\ n + 1 \in Int /\ C \in Int
            /\ C - (n + 1) + 1 = C - n
        BY <1>3, <1>6, <2>2
      <3>3. b \in Seq(Byte) /\ Len(b) = C - n
        <4>1. call.bytes \in Seq(Byte)
          BY <1>1, StdioFields
        <4>2. \A i \in (n + 1)..C : i \in 1..Len(call.bytes)
          BY <1>2, <1>6, <3>2
        <4>3. \A i \in (n + 1)..C : call.bytes[i] \in Byte
          BY <4>1, <4>2, ElementOfSeq
        <4>4. QED
          BY <3>2, <4>3, SubSeqProperties
      <3> HIDE DEF b
      <3>4. call \in [op : {"none", "read", "write"}, n : Nat, bytes : Seq(Byte)]
        BY <1>1 DEF StdioType
      <3>5. QED
        BY <1>2, <3>1, <3>2, <3>3, <3>4
    <2>3. QED
      BY <2>1, <2>2
  <1>10. StdioType'
    BY <1>1, <1>3, <1>8, <1>9 DEF StdioType
  <1>11. CallFits'
    <2>1. CASE call' = NoCall
      BY <2>1 DEF CallFits, NoCall
    <2>2. CASE call'.op = "write" /\ Len(call'.bytes) = call'.n
      BY <1>2, <1>8, <2>2 DEF CallFits, Writing
    <2>3. QED
      BY <1>9, <2>1, <2>2
  <1>12. InBounds'
    <2>1. O + L + C <= MaxSize
      BY <1>1, <1>2, <1>6 DEF InBounds
    <2>2. O + (L + n) + (C - n) <= MaxSize
      BY <1>9, <2>1, StdioAssumption
    <2>3. off' + Len(f'.buf) + call'.n <= MaxSize
      BY <1>3, <1>6, <1>7, <1>8, <1>9, <2>2
    <2>4. QED
      BY <1>1, <1>3, <2>3 DEF InBounds
  <1>13. ReadAhead' /\ AtEof' /\ MemShown'
    BY <1>2, <1>8 DEF ReadAhead, AtEof, MemShown
  <1>14. QED
    BY <1>10, <1>11, <1>12, <1>13 DEF StdioInv

(* A full buffer is written; what is left of the call fits behind it.      *)
LEMMA WriteFlushKeeps ==
    ASSUME StdioInv, WriteFlush PROVE StdioInv'
  <1>1. StdioType /\ CallFits /\ InBounds /\ AtEof
    BY DEF StdioInv
  <1>2. /\ Writing /\ file_flush_write /\ f' = [f EXCEPT !.buf = <<>>] /\ call' = call
        /\ f.mode # "r" /\ f.mode # "m" /\ ~f.eof
    BY <1>1 DEF WriteFlush, Writing, AtEof
  <1>3. /\ file' \in Seq(Cell) /\ Len(file') <= MaxSize /\ faults' \in Nat
        /\ off' \in 0..MaxSize /\ off' <= off + Len(f.buf)
    BY <1>2, FlushWrites
  <1>4. /\ f' \in FILE /\ f'.buf = <<>> /\ f'.mode = f.mode /\ f'.eof = f.eof
    <2>1. f \in FILE /\ <<>> \in Seq(Cell)
      BY <1>1 DEF StdioType
    <2>2. QED
      BY <1>2, <2>1 DEF FILE
  <1>5. off' \in Nat /\ off' <= MaxSize
    BY <1>3, StdioAssumption
  <1>6. StdioType'
    BY <1>1, <1>2, <1>3, <1>4, <1>5 DEF StdioType
  <1>7. CallFits'
    BY <1>1, <1>2, <1>4 DEF CallFits
  <1>8. InBounds'
    <2>1. PICK L \in Nat, C \in Nat, O \in Nat, P \in Nat :
             L = Len(f.buf) /\ C = call.n /\ O = off /\ P = off'
      BY <1>1, <1>5, StdioFields
    <2>2. O + L + C <= MaxSize /\ P <= O + L
      BY <1>1, <1>2, <1>3, <2>1 DEF InBounds
    <2>3. P + 0 + C <= MaxSize
      BY <2>2, StdioAssumption
    <2>4. Len(f'.buf) = 0 /\ call'.n = C
      BY <1>2, <1>4, <2>1
    <2>5. off' + Len(f'.buf) + call'.n <= MaxSize
      BY <2>1, <2>3, <2>4
    <2>6. QED
      BY <1>3, <1>5, <2>5 DEF InBounds
  <1>9. ReadAhead' /\ AtEof' /\ MemShown'
    BY <1>2, <1>4 DEF ReadAhead, AtEof, MemShown
  <1>10. QED
    BY <1>6, <1>7, <1>8, <1>9 DEF StdioInv

-----------------------------------------------------------------------------
(* What the steps of a memory stream have in common.                       *)
LEMMA MemStreamKeeps ==
    ASSUME StdioInv, call.op = "write", f.mode = "m", file' = file, off' = off, faults' \in Nat,
           call' = call \/ call' = NoCall,
           NEW g \in Memory, f' = [f EXCEPT !.mem = g], g.len < g.cap,
           call' = NoCall /\ ~g.short => g.bufp = g.buf /\ g.sizep = g.len
    PROVE  StdioInv'
  <1>1. StdioType /\ CallFits /\ InBounds /\ AtEof
    BY DEF StdioInv
  <1>2. /\ f' \in FILE /\ f'.buf = f.buf /\ f'.mode = "m" /\ f'.eof = f.eof /\ f'.mem = g
    <2>1. f \in FILE
      BY <1>1 DEF StdioType
    <2>2. QED
      BY <2>1 DEF FILE
  <1>3. call' \in [op : {"none", "read", "write"}, n : Nat, bytes : Seq(Byte)]
    <2>1. <<>> \in Seq(Byte)
      OBVIOUS
    <2>2. QED
      <3>1. NoCall \in [op : {"none", "read", "write"}, n : Nat, bytes : Seq(Byte)]
        BY <2>1 DEF NoCall
      <3>2. call \in [op : {"none", "read", "write"}, n : Nat, bytes : Seq(Byte)]
        BY <1>1 DEF StdioType
      <3>3. QED
        BY <3>1, <3>2
  <1>4. StdioType'
    BY <1>1, <1>2, <1>3 DEF StdioType
  <1>5. CallFits'
    BY <1>1, <1>2 DEF CallFits, NoCall
  <1>6. InBounds'
    BY <1>1, <1>2 DEF InBounds, Writing
  <1>7. ReadAhead' /\ AtEof'
    BY <1>1, <1>2 DEF ReadAhead, AtEof
  <1>8. MemShown'
    <2>1. call'.op = "none" => call' = NoCall
      BY DEF NoCall
    <2>2. QED
      BY <1>2, <2>1 DEF MemShown, Free
  <1>9. QED
    BY <1>4, <1>5, <1>6, <1>7, <1>8 DEF StdioInv

(* Growing and copying. *)
LEMMA MemKeeps ==
    ASSUME StdioInv, MemGrow \/ MemCopy PROVE StdioInv'
  <1>1. StdioType /\ CallFits /\ MemShown /\ f \in FILE /\ faults \in Nat
    BY DEF StdioInv, StdioType
  <1>2. /\ f.mem \in Memory /\ f.mem.buf \in 0..3 /\ f.mem.cap \in Nat /\ f.mem.len \in Nat
        /\ f.mem.bufp \in 0..3 /\ f.mem.sizep \in Nat /\ f.mem.short \in BOOLEAN
        /\ call.n \in Nat
    BY <1>1, StdioFields DEF Memory
  <1>3. call.op = "write" /\ f.mode = "m" /\ f.mem.len < f.mem.cap
        /\ file' = file /\ off' = off /\ call # NoCall
    <2>1. call.op = "write" /\ f.mode = "m" /\ file' = file /\ off' = off
      BY DEF MemGrow, MemCopy
    <2>2. call # NoCall
      BY <2>1 DEF NoCall
    <2>3. QED
      BY <1>1, <2>1, <2>2 DEF MemShown
  <1>4. ASSUME NEW moved \in BOOLEAN, call' = call, faults' = faults,
               f' = [f EXCEPT !.mem.cap = 2 * @, !.mem.buf = IF moved THEN 3 - @ ELSE @]
        PROVE  StdioInv'
    <2> DEFINE b == IF moved THEN 3 - f.mem.buf ELSE f.mem.buf
               g == [f.mem EXCEPT !.cap = 2 * f.mem.cap, !.buf = b]
    <2>1. b \in 0..3 /\ 2 * f.mem.cap \in Nat /\ f.mem.len < 2 * f.mem.cap
      BY <1>2, <1>3
    <2>2. f' = [f EXCEPT !.mem = g]
      <3>1. DOMAIN f = {"mode", "buf", "buf_pos", "eof", "mem"} /\ f \in FILE
        BY <1>1 DEF FILE
      <3>2. QED
        BY <1>1, <1>4 DEF FILE
    <2> HIDE DEF b
    <2>3. g \in Memory /\ g.len < g.cap
      BY <1>2, <2>1 DEF Memory
    <2> HIDE DEF g
    <2>4. QED
      BY <1>1, <1>3, <1>4, <2>2, <2>3, MemStreamKeeps
  <1>5. ASSUME faults' = faults + 1, call' = NoCall, f' = [f EXCEPT !.mem.short = TRUE]
        PROVE  StdioInv'
    <2> DEFINE g == [f.mem EXCEPT !.short = TRUE]
    <2>1. f' = [f EXCEPT !.mem = g]
      BY <1>1, <1>5 DEF FILE
    <2>2. g \in Memory /\ g.len < g.cap /\ g.short
      BY <1>2, <1>3 DEF Memory
    <2>3. faults' \in Nat
      BY <1>1, <1>5
    <2> HIDE DEF g
    <2>4. QED
      BY <1>3, <1>5, <2>1, <2>2, <2>3, MemStreamKeeps
  <1>6. ASSUME MemCopy PROVE StdioInv'
    <2> DEFINE len == f.mem.len + call.n
               g == [f.mem EXCEPT !.len = len, !.bufp = f.mem.buf, !.sizep = len]
    <2>1. f' = [f EXCEPT !.mem = g] /\ call' = NoCall /\ faults' = faults
      BY <1>1, <1>6 DEF MemCopy, FILE
    <2>2. len \in Nat /\ len < f.mem.cap
      BY <1>2, <1>6 DEF MemCopy, MemFits
    <2> HIDE DEF len
    <2>3. g \in Memory /\ g.len < g.cap /\ g.bufp = g.buf /\ g.sizep = g.len
      BY <1>2, <2>2 DEF Memory
    <2> HIDE DEF g
    <2>4. QED
      BY <1>1, <1>3, <2>1, <2>3, MemStreamKeeps
  <1>7. CASE MemGrow
    <2>1. \/ \E moved \in BOOLEAN :
                /\ f' = [f EXCEPT !.mem.cap = 2 * @, !.mem.buf = IF moved THEN 3 - @ ELSE @]
                /\ call' = call /\ faults' = faults
          \/ /\ faults' = faults + 1 /\ call' = NoCall
             /\ f' = [f EXCEPT !.mem.short = TRUE]
      BY <1>7 DEF MemGrow
    <2>2. QED
      BY <1>4, <1>5, <2>1
  <1>8. QED
    BY <1>6, <1>7

-----------------------------------------------------------------------------
(* Every step keeps the invariant. *)
LEMMA StdioStep ==
    ASSUME StdioInv, [StdioNext]_stdioVars PROVE StdioInv'
  <1>1. CASE StdioNext
    <2>1. \/ \/ \E m \in {"r", "w", "a"} : \/ fopen(m) \/ freopen(m)
                                           \/ \E o \in 0..Len(file) : fdopen(m, o)
             \/ exit
          \/ fclose \/ fflush \/ open_memstream
          \/ \/ \E n \in 1..MaxCall : fread(n)
             \/ \E s \in Upto(Byte, MaxCall) : fwrite(s)
          \/ ReadCopy \/ ReadFill \/ WriteCopy \/ WriteFlush \/ MemGrow \/ MemCopy
          \/ \E whence \in {"set", "cur", "end"}, d \in (-MaxSize)..MaxSize : fseek(whence, d)
      BY <1>1, Zenon DEF StdioNext
    <2>2. QED
      BY <2>1, OpeningKeeps, FlushingKeeps, MemOpenKeeps, BeginKeeps, CopyKeeps, FillKeeps,
         WriteKeeps, WriteFlushKeeps, MemKeeps, SeekingKeeps
  <1>2. CASE UNCHANGED stdioVars
    BY <1>2 DEF stdioVars, StdioInv, StdioType, CallFits, InBounds, ReadAhead, AtEof, MemShown,
                Writing, Free
  <1>3. QED
    BY <1>1, <1>2

(* It holds at the start. *)
LEMMA StdioStart == StdioInit => StdioInv
  <1>1. SUFFICES ASSUME StdioInit PROVE StdioInv
    OBVIOUS
  <1>2. /\ file = <<>> /\ off = 0 /\ f = Fresh("closed") /\ call = NoCall /\ faults = 0
    BY <1>1 DEF StdioInit, Closed
  <1>3. /\ f \in FILE /\ f.mode = "closed" /\ f.buf = <<>> /\ f.buf_pos = 0 /\ ~f.eof
    BY <1>2, FreshIs
  <1>4. call \in [op : {"none", "read", "write"}, n : Nat, bytes : Seq(Byte)]
    <2>1. <<>> \in Seq(Byte)
      OBVIOUS
    <2>2. QED
      BY <1>2, <2>1 DEF NoCall
  <1>5. StdioType
    <2>1. <<>> \in Seq(Cell)
      OBVIOUS
    <2>2. QED
      BY <1>2, <1>3, <1>4, <2>1 DEF StdioType
  <1>6. Len(file) = 0 /\ Len(file) <= MaxSize /\ off <= MaxSize /\ ~Writing
    BY <1>2, <1>3, StdioAssumption DEF Writing
  <1>7. CallFits /\ InBounds /\ ReadAhead /\ AtEof /\ MemShown
    BY <1>2, <1>3, <1>6 DEF CallFits, NoCall, InBounds, ReadAhead, AtEof, MemShown
  <1>8. QED
    BY <1>5, <1>7 DEF StdioInv

(* The invariant: the bytes read ahead are those of the file in front of   *)
(* the descriptor, the flag of the end is set only there, what waits fits  *)
(* the file, and a memory stream has room for its NUL.                     *)
THEOREM StdioInvariant == StdioSpec => []StdioInv
  BY StdioStart, StdioStep, PTL DEF StdioSpec

(* feof is set only when the program has read to the end: fread sets it    *)
(* when read returns 0, fseek clears it (stdio.c:534-561, 672-680).        *)
THEOREM EndOfFileIsTrue == StdioSpec => []EofAtEnd
  <1>1. ASSUME StdioInv PROVE EofAtEnd
    <2>1. StdioType /\ AtEof
      BY <1>1 DEF StdioInv
    <2>2. PICK L \in Nat, P \in Nat, O \in Nat, F \in Nat :
             L = Len(f.buf) /\ P = f.buf_pos /\ O = off /\ F = Len(file)
      BY <2>1, StdioFields
    <2>3. f.eof => P = L /\ O >= F
      BY <2>1, <2>2 DEF AtEof
    <2>4. P = L /\ O >= F => O - (L - P) >= F
      OBVIOUS
    <2>5. ftell = O - (L - P)
      BY <2>2 DEF ftell, Unread
    <2>6. QED
      BY <2>2, <2>3, <2>4, <2>5 DEF EofAtEnd
  <1>2. QED
    BY <1>1, StdioInvariant, PTL

(* What open_memstream shows between calls is the stream, with room for    *)
(* the NUL, unless memory ran out (stdio.c:586-629).                       *)
THEOREM ShownIsTheStream == StdioSpec => []MemStreamShown
  <1>1. ASSUME StdioInv PROVE MemStreamShown
    BY <1>1 DEF StdioInv, MemShown, MemStreamShown
  <1>2. QED
    BY <1>1, StdioInvariant, PTL

-----------------------------------------------------------------------------
(* The stream that the program sees: S is Stream over these.               *)
Content == IF Writing THEN Overlay(file, off, f.buf) ELSE file
Pos     == IF f.mode \in {"closed", "m"} THEN 0
           ELSE IF Writing THEN off + Len(f.buf) ELSE ftell
Mode    == IF f.mode = "m" THEN "closed" ELSE f.mode

View == <<Content, Pos, Mode, req>>

(* It is what Stream calls its state. *)
LEMMA ViewIs == S!streamVars = View /\ (S!streamVars)' = View'
  BY DEF S!streamVars, View, Content, Pos, Mode

(* The actions of Stream, over the view: a file that is opened. *)
LEMMA ViewOpens ==
    ASSUME NEW m \in {"r", "w", "a"}, Mode' = m, Content' = IF m = "w" THEN <<>> ELSE Content,
           Pos' = IF m = "a" THEN Len(Content) ELSE 0, req' = <<"open", m>>
    PROVE  S!StreamNext
  <1>1. S!Open(m)
    BY DEF S!Open, Content, Pos, Mode
  <1>2. QED
    BY <1>1 DEF S!StreamNext

(* A stream over a descriptor. *)
LEMMA ViewAttaches ==
    ASSUME NEW m \in {"r", "w", "a"}, NEW p \in 0..MaxSize, Mode = "closed", Mode' = m,
           Pos' = p, req' = <<"attach", m, p>>, Content' = Content
    PROVE  S!StreamNext
  <1>1. S!Attach(m, p)
    BY DEF S!Attach, Content, Pos, Mode
  <1>2. QED
    BY <1>1 DEF S!StreamNext

(* Bytes that are read. *)
LEMMA ViewReads ==
    ASSUME NEW n \in 1..MaxSize, Mode = "r", Pos + n <= Len(Content), Pos' = Pos + n,
           req' = <<"read", SubSeq(Content, Pos + 1, Pos + n)>>, Content' = Content, Mode' = Mode
    PROVE  S!StreamNext
  <1>1. S!Read(n)
    BY DEF S!Read, Content, Pos, Mode
  <1>2. QED
    BY <1>1 DEF S!StreamNext

(* Bytes that are written. *)
LEMMA ViewWrites ==
    ASSUME NEW s \in Upto(Byte, MaxSize), Mode \in {"w", "a"},
           Content' = Overlay(Content, Pos, s), Pos' = Pos + Len(s),
           req' = <<"write", s>>, Mode' = Mode
    PROVE  S!StreamNext
  <1>1. \A x, y, z : S!Overlay(x, y, z) = Overlay(x, y, z)
    BY DEF S!Overlay, Overlay, S!Max, Max
  <1>2. s \in S!Upto(Byte, MaxSize)
    BY DEF S!Upto, Upto
  <1>3. S!Write(s)
    BY <1>1 DEF S!Write, Content, Pos, Mode
  <1>4. QED
    BY <1>2, <1>3 DEF S!StreamNext

(* A move. *)
LEMMA ViewSeeks ==
    ASSUME NEW whence \in {"set", "cur", "end"}, NEW d \in (-MaxSize)..MaxSize, NEW t,
           t = d + (CASE whence = "set" -> 0 [] whence = "cur" -> Pos [] OTHER -> Len(Content)),
           t >= 0, Mode # "closed", Pos' = t, req' = <<"seek", whence, d>>,
           Content' = Content, Mode' = Mode
    PROVE  S!StreamNext
  <1>1. S!Target(whence, d) = t
    BY DEF S!Target, Content, Pos
  <1>2. S!Seek(whence, d)
    BY <1>1 DEF S!Seek, Content, Pos, Mode
  <1>3. QED
    BY <1>2 DEF S!StreamNext

(* The end of a stream. *)
LEMMA ViewCloses ==
    ASSUME Mode' = "closed", Pos' = 0, req' = <<"none">>, Content' = Content
    PROVE  S!StreamNext
  <1>1. S!Close
    BY DEF S!Close, Content, Pos, Mode
  <1>2. QED
    BY <1>1 DEF S!StreamNext

-----------------------------------------------------------------------------
(* When nothing waits, the file is what the program sees. *)
LEMMA QuietContent ==
    ASSUME ~Pending PROVE Content = file
  BY DEF Pending, Content, Overlay

(* The view of a fresh stream. *)
LEMMA FreshView ==
    ASSUME NEW m \in {"closed", "r", "w", "a"}, f' = Fresh(m), off' \in Nat
    PROVE  Content' = file' /\ Mode' = m /\ Pos' = IF m = "closed" THEN 0 ELSE off'
  <1>1. f'.mode = m /\ f'.buf = <<>> /\ f'.buf_pos = 0 /\ Len(f'.buf) = 0
    BY DEF Fresh
  <1>2. Content' = file'
    BY <1>1 DEF Content, Overlay
  <1>3. ftell' = off' /\ off' + Len(f'.buf) = off'
    <2>1. PICK o \in Nat : o = off'
      OBVIOUS
    <2>2. o - (0 - 0) = o /\ o + 0 = o
      OBVIOUS
    <2>3. QED
      BY <1>1, <2>1, <2>2 DEF ftell, Unread
  <1>4. QED
    BY <1>1, <1>2, <1>3 DEF Mode, Pos, Writing

(* Opening: a file that has bytes is not emptied, nor written at its end.  *)
LEMMA OpeningIsSeen ==
    ASSUME NEW m \in {"r", "w", "a"}, f' = Fresh(m), off' = 0, file' = file, ~Misopened(m),
           req' = <<"open", m>>, Content = file
    PROVE  S!StreamNext
  <1>1. Content' = file /\ Mode' = m /\ Pos' = 0
    BY FreshView
  <1>2. m # "r" => file = <<>>
    BY DEF Misopened
  <1>3. Content' = IF m = "w" THEN <<>> ELSE Content
    BY <1>1, <1>2
  <1>4. Pos' = IF m = "a" THEN Len(Content) ELSE 0
    BY <1>1, <1>2
  <1>5. QED
    BY <1>1, <1>3, <1>4, ViewOpens

(* A closed stream, and a memory stream, are no stream of the program.     *)
LEMMA NoView ==
    ASSUME f.mode \in {"closed", "m"} PROVE Content = file /\ Pos = 0 /\ Mode = "closed"
  BY DEF Content, Pos, Mode, Writing

(* fopen, fdopen and freopen. *)
LEMMA OpenIsSeen ==
    ASSUME StdioInv, NEW m \in {"r", "w", "a"},
           \/ fopen(m) \/ freopen(m)
           \/ \E o \in 0..Len(file) : fdopen(m, o)
    PROVE  slip' \/ S!StreamNext
  <1>1. CASE fopen(m)
    <2>1. /\ f.mode = "closed" /\ f' = Fresh(m) /\ off' = 0 /\ req' = <<"open", m>>
          /\ slip' = Misopened(m) /\ file' = file
      BY <1>1 DEF fopen, Closed, Fresh
    <2>2. Content = file
      BY <2>1, NoView
    <2>3. CASE Misopened(m)
      BY <2>1, <2>3, Zenon
    <2>4. CASE ~Misopened(m)
      BY <2>1, <2>2, <2>4, OpeningIsSeen
    <2>5. QED
      BY <2>3, <2>4
  <1>2. CASE freopen(m)
    <2>1. /\ off' = 0 /\ file' = file
          /\ \/ /\ f' = Fresh(m) /\ req' = <<"open", m>> /\ slip' = (Pending \/ Misopened(m))
             \/ /\ f' = Fresh("closed") /\ req' = <<"none">> /\ slip' = Pending
      BY <1>2 DEF freopen, Closed
    <2>2. CASE Pending
      BY <2>1, <2>2, Zenon
    <2>3. CASE ~Pending /\ f' = Fresh(m) /\ req' = <<"open", m>> /\ slip' = (Pending \/ Misopened(m))
      <3>1. Content = file
        BY <2>3, QuietContent
      <3>2. CASE Misopened(m)
        BY <2>3, <3>2, Zenon
      <3>3. CASE ~Misopened(m)
        BY <2>1, <2>3, <3>1, <3>3, OpeningIsSeen
      <3>4. QED
        BY <3>2, <3>3
    <2>4. CASE ~Pending /\ f' = Fresh("closed") /\ req' = <<"none">>
      <3>1. Content = file /\ Content' = file /\ Mode' = "closed" /\ Pos' = 0
        BY <2>1, <2>4, QuietContent, FreshView
      <3>2. QED
        BY <2>4, <3>1, ViewCloses
    <2>5. QED
      BY <2>1, <2>2, <2>3, <2>4
  <1>3. ASSUME NEW o \in 0..Len(file), fdopen(m, o) PROVE S!StreamNext
    <2>1. /\ f.mode = "closed" /\ f' = Fresh(m) /\ off' = o /\ req' = <<"attach", m, o>>
          /\ file' = file
      BY <1>3 DEF fdopen, Closed, Fresh
    <2>2. Len(file) \in Nat /\ Len(file) <= MaxSize
      BY StdioFields DEF StdioInv, InBounds
    <2>3. o \in 0..MaxSize /\ o \in Nat
      BY <2>2, StdioAssumption
    <2>4. Content = file /\ Mode = "closed"
      BY <2>1, NoView
    <2>5. Content' = file /\ Mode' = m /\ Pos' = o
      BY <2>1, <2>3, FreshView
    <2>6. QED
      BY <2>1, <2>3, <2>4, <2>5, ViewAttaches
  <1>4. QED
    BY <1>1, <1>2, <1>3

(* fclose and exit: what waits is written, or lost. *)
LEMMA CloseIsSeen ==
    ASSUME StdioInv, fclose \/ exit
    PROVE  slip' \/ S!StreamNext \/ View' = View
  <1>1. f' = Fresh("closed") /\ req' = IF f.mode = "m" THEN req ELSE <<"none">>
    BY DEF fclose, exit, Closed
  <1>2. file' = Content \/ slip'
    <2>1. CASE fclose /\ Pending
      <3>1. Writing /\ file_flush_write
        BY <2>1 DEF fclose, Flushed, Pending
      <3>2. slip' \/ file' = Overlay(file, off, f.buf)
        BY <3>1, FlushWrites
      <3>3. QED
        BY <3>1, <3>2 DEF Content
    <2>2. CASE fclose /\ ~Pending
      BY <2>2, QuietContent DEF fclose, Flushed
    <2>3. CASE exit /\ Pending
      <3>1. slip' = Pending
        BY <2>3 DEF exit
      <3>2. QED
        BY <2>3, <3>1, Zenon
    <2>4. CASE exit /\ ~Pending
      BY <2>4, QuietContent DEF exit
    <2>5. QED
      BY <2>1, <2>2, <2>3, <2>4
  <1>3. Content' = file' /\ Mode' = "closed" /\ Pos' = 0
    <2>1. f'.mode = "closed"
      BY <1>1 DEF Fresh
    <2>2. QED
      BY <2>1 DEF Content, Pos, Mode, Writing
  <1>4. CASE slip'
    BY <1>4
  <1>5. CASE file' = Content /\ f.mode = "m"
    BY <1>1, <1>3, <1>5, NoView DEF View
  <1>6. CASE file' = Content /\ f.mode # "m"
    BY <1>1, <1>3, <1>6, ViewCloses
  <1>7. QED
    BY <1>2, <1>4, <1>5, <1>6

(* A flush that is not short is not seen. *)
LEMMA FlushIsHidden ==
    ASSUME StdioInv, Writing, file_flush_write, f' = [f EXCEPT !.buf = <<>>], req' = req
    PROVE  slip' \/ View' = View
  <1>1. CASE slip'
    BY <1>1
  <1>2. CASE ~slip'
    <2>1. file' = Overlay(file, off, f.buf) /\ off' = off + Len(f.buf)
      BY <1>2, FlushWrites
    <2>2. f \in FILE /\ off \in Nat /\ Len(f.buf) \in Nat
      BY StdioFields DEF StdioInv, StdioType
    <2>3. f'.buf = <<>> /\ f'.mode = f.mode /\ f.mode \in {"w", "a"}
      BY <2>2 DEF FILE, Writing
    <2>4. Content' = Content
      BY <2>1, <2>3 DEF Content, Writing, Overlay
    <2>5. Pos' = Pos
      <3>1. PICK o \in Nat, l \in Nat : o = off /\ l = Len(f.buf)
        BY <2>2
      <3>2. off' + Len(f'.buf) = o + l
        BY <2>1, <2>3, <3>1
      <3>3. QED
        BY <2>3, <3>1, <3>2 DEF Pos, Writing
    <2>6. QED
      BY <2>3, <2>4, <2>5 DEF View, Mode
  <1>3. QED
    BY <1>1, <1>2

(* fread hands out the next bytes of the file. *)
LEMMA ReadIsSeen ==
    ASSUME StdioInv, ReadCopy PROVE S!StreamNext
  <1>1. PICK n \in Nat \ {0} :
           /\ n <= Unread
           /\ f' = [f EXCEPT !.buf_pos = f.buf_pos + n]
           /\ req' = <<"read", SubSeq(file, ftell + 1, ftell + n)>>
           /\ off' = off /\ file' = file
           /\ f.mode = "r" /\ ftell \in Nat /\ ftell + n <= Len(file)
    BY CopyReads
  <1>2. Content = file /\ Pos = ftell /\ Mode = "r"
    BY <1>1 DEF Content, Pos, Mode, Writing
  <1>3. f \in FILE /\ Len(file) \in Nat /\ Len(file) <= MaxSize
    BY StdioFields DEF StdioInv, StdioType, InBounds
  <1>4. PICK L \in Nat, P \in Nat, O \in Nat, T \in Nat :
           L = Len(f.buf) /\ P = f.buf_pos /\ O = off /\ T = ftell
    BY <1>1, StdioFields DEF StdioInv
  <1>5. f'.buf_pos = P + n /\ f'.buf = f.buf /\ f'.mode = "r"
    BY <1>1, <1>3, <1>4 DEF FILE
  <1>6. ftell' = T + n
    <2>1. T = O - (L - P)
      BY <1>4 DEF ftell, Unread
    <2>2. O - (L - (P + n)) = T + n
      BY <2>1
    <2>3. QED
      BY <1>1, <1>4, <1>5, <2>2 DEF ftell, Unread
  <1>7. Content' = file /\ Pos' = T + n /\ Mode' = "r"
    BY <1>1, <1>5, <1>6 DEF Content, Pos, Mode, Writing
  <1>8. n \in 1..MaxSize
    BY <1>1, <1>3, <1>4, StdioAssumption, SMTT(30)
  <1>9. QED
    BY <1>1, <1>2, <1>4, <1>7, <1>8, ViewReads

(* Reading ahead is not seen. *)
LEMMA FillIsHidden ==
    ASSUME StdioInv, ReadFill PROVE View' = View
  <1>1. /\ f.mode = "r" /\ Unread = 0 /\ file' = file /\ req' = req /\ f \in FILE
        /\ off \in Nat /\ Len(f.buf) \in Nat /\ f.buf_pos \in Nat
    BY FillReads, StdioFields DEF StdioInv, StdioType
  <1>2. PICK o \in Nat : o = off /\ ftell = o
    BY <1>1 DEF ftell
  <1>3. ASSUME NEW r \in Nat \ {0}, off + r <= Len(file), off' = off + r,
               f' = [f EXCEPT !.buf = SubSeq(file, off + 1, off + r), !.buf_pos = 0]
        PROVE  f'.mode = "r" /\ ftell' = o
    <2> DEFINE b == SubSeq(file, off + 1, off + r)
    <2>1. Len(b) = r
      BY <1>3, PortionIs DEF StdioInv
    <2>2. f' = [f EXCEPT !.buf = b, !.buf_pos = 0]
      BY <1>3
    <2> HIDE DEF b
    <2>3. f'.buf = b /\ f'.buf_pos = 0 /\ f'.mode = "r"
      BY <1>1, <2>2 DEF FILE
    <2>4. (o + r) - (r - 0) = o
      OBVIOUS
    <2>5. QED
      BY <1>2, <1>3, <2>1, <2>3, <2>4 DEF ftell, Unread
  <1>4. ASSUME off' = off, f' = f \/ f' = [f EXCEPT !.eof = TRUE]
        PROVE  f'.mode = "r" /\ ftell' = o
    <2>1. f'.mode = "r" /\ f'.buf = f.buf /\ f'.buf_pos = f.buf_pos
      BY <1>1, <1>4 DEF FILE
    <2>2. ftell' = ftell
      BY <1>4, <2>1 DEF ftell, Unread
    <2>3. QED
      BY <1>2, <2>1, <2>2
  <1>5. f'.mode = "r" /\ ftell' = o
    BY <1>3, <1>4, FillReads
  <1>6. Content' = Content /\ Pos' = Pos /\ Mode' = Mode
    BY <1>1, <1>2, <1>5 DEF Content, Pos, Mode, Writing
  <1>7. QED
    BY <1>1, <1>6 DEF View

(* fwrite adds its next bytes. *)
LEMMA WriteIsSeen ==
    ASSUME StdioInv, WriteCopy PROVE S!StreamNext
  <1>1. Writing /\ f.mode \in {"w", "a"}
    BY DEF WriteCopy, Writing
  <1>2. PICK n \in Nat \ {0} :
           LET s == SubSeq(call.bytes, 1, n) IN
           /\ n <= call.n /\ s \in Seq(Byte) /\ Len(s) = n
           /\ f' = [f EXCEPT !.buf = f.buf \o s]
           /\ req' = <<"write", s>>
           /\ off' = off /\ file' = file
    BY CopyWrites
  <1> DEFINE s == SubSeq(call.bytes, 1, n)
  <1>3. /\ s \in Seq(Byte) /\ Len(s) = n /\ f' = [f EXCEPT !.buf = f.buf \o s]
        /\ req' = <<"write", s>>
    BY <1>2
  <1> HIDE DEF s
  <1>4. s \in Seq(Cell) /\ f.buf \in Seq(Cell) /\ file \in Seq(Cell) /\ f \in FILE
    <2>1. Byte \subseteq Cell
      BY DEF Cell
    <2>2. s \in Seq(Cell)
      BY <1>3, <2>1, SeqMonotonic
    <2>3. QED
      BY <2>2, StdioFields DEF StdioInv, StdioType
  <1>5. PICK L \in Nat, C \in Nat, O \in Nat : L = Len(f.buf) /\ C = call.n /\ O = off
    BY StdioFields DEF StdioInv
  <1>6. n \in 1..MaxSize
    <2>1. O + L + C <= MaxSize /\ n <= C
      BY <1>1, <1>2, <1>5 DEF StdioInv, InBounds
    <2>2. QED
      BY <2>1, StdioAssumption
  <1>7. s \in Upto(Byte, MaxSize)
    <2>1. s \in [1..n -> Byte]
      BY <1>3
    <2>2. QED
      BY <1>6, <2>1 DEF Upto
  <1>8. Len(f.buf \o s) = L + n
    BY <1>3, <1>4, <1>5, ConcatProperties
  <1>9. f'.buf = f.buf \o s /\ f'.mode = f.mode
    BY <1>3, <1>4 DEF FILE
  <1>10. Content = Overlay(file, off, f.buf) /\ Pos = O + L /\ Mode = f.mode
    BY <1>1, <1>5 DEF Content, Pos, Mode
  <1>11. /\ Content' = Overlay(file, off, f.buf \o s) /\ Pos' = O + (L + n)
         /\ Mode' = Mode
    BY <1>1, <1>2, <1>5, <1>8, <1>9 DEF Content, Pos, Mode, Writing
  <1>12. Content' = Overlay(Content, Pos, s)
    <2>1. \A x \in Seq(Cell), o \in Nat, y \in Seq(Cell), z \in Seq(Cell) :
             Overlay(x, o, y \o z) = Overlay(Overlay(x, o, y), o + Len(y), z)
      BY OverlayTwice, Zenon
    <2>2. PICK F \in Seq(Cell), b \in Seq(Cell) : F = file /\ b = f.buf
      BY <1>4
    <2>3. PICK u \in Seq(Cell) : u = s
      BY <1>4
    <2>4. Overlay(F, O, b \o u) = Overlay(Overlay(F, O, b), O + Len(b), u)
      BY ONLY <2>1, O \in Nat, F \in Seq(Cell), b \in Seq(Cell), u \in Seq(Cell), ZenonT(30)
    <2>5. Content' = Overlay(F, O, b \o u)
      BY <1>5, <1>11, <2>2, <2>3
    <2>6. Content = Overlay(F, O, b)
      BY <1>5, <1>10, <2>2
    <2>7. Pos = O + Len(b)
      BY <1>5, <1>10, <2>2
    <2>8. QED
      BY <2>3, <2>4, <2>5, <2>6, <2>7, Zenon
  <1>13. Pos' = Pos + Len(s)
    BY <1>3, <1>10, <1>11
  <1>14. QED
    BY <1>1, <1>3, <1>7, <1>10, <1>11, <1>12, <1>13, ViewWrites

(* fseek over an empty buffer. *)
LEMMA SeekIsSeen ==
    ASSUME StdioInv, NEW whence \in {"set", "cur", "end"}, NEW d \in (-MaxSize)..MaxSize,
           fseek(whence, d)
    PROVE  slip' \/ S!StreamNext \/ View' = View
  <1> DEFINE to == d + SeekBase(whence)
  <1>1. /\ f.mode # "m" /\ f.mode # "closed" /\ f' = SeekDrops /\ file' = file
        /\ IF to >= 0 THEN off' = to /\ req' = <<"seek", whence, d>>
           ELSE off' = off /\ req' = req
        /\ slip' = (Pending \/ (Unread > 0 /\ (whence = "cur" \/ to < 0)))
    BY DEF fseek, Idle, SeekBase
  <1>2. /\ f \in FILE /\ off \in Nat /\ Len(file) \in Nat /\ Len(f.buf) \in Nat
        /\ f.buf_pos \in Nat /\ f.mode \in {"r", "w", "a"} /\ d \in Int
        /\ f.mode = "r" => f.buf_pos <= Len(f.buf)
    <2>1. d \in Int
      BY StdioAssumption
    <2>2. QED
      BY <1>1, <2>1, StdioFields DEF StdioInv, StdioType, ReadAhead
  <1>3. to \in Int
    BY <1>2 DEF SeekBase
  <1>4. CASE Pending \/ (Unread > 0 /\ (whence = "cur" \/ to < 0))
    BY <1>1, <1>4, Zenon
  <1>5. CASE ~(Pending \/ (Unread > 0 /\ (whence = "cur" \/ to < 0)))
    <2>1. Content = file
      BY <1>5, QuietContent
    <2>2. whence = "cur" \/ to < 0 => Pos = off
      <3>1. CASE f.mode = "r"
        <4>1. PICK L \in Nat, P \in Nat, O \in Nat : L = Len(f.buf) /\ P = f.buf_pos /\ O = off
          BY <1>2
        <4>2. Pos = O - (L - P)
          BY <3>1, <4>1 DEF Pos, Writing, ftell, Unread
        <4>3. whence = "cur" \/ to < 0 => ~(L - P > 0) /\ P <= L
          BY <1>2, <1>5, <3>1, <4>1 DEF Unread
        <4>4. ~(L - P > 0) /\ P <= L => O - (L - P) = O
          OBVIOUS
        <4>5. QED
          BY <4>1, <4>2, <4>3, <4>4
      <3>2. CASE f.mode # "r"
        <4>1. f.buf = <<>> /\ f.mode \in {"w", "a"}
          BY <1>2, <1>5, <3>2 DEF Pending, Writing
        <4>2. Pos = off + 0
          BY <4>1 DEF Pos, Writing
        <4>3. QED
          BY <1>2, <4>2
      <3>3. QED
        BY <3>1, <3>2
    <2>3. f'.buf = <<>> /\ f'.buf_pos = 0 /\ f'.mode = f.mode
      BY <1>1, <1>2 DEF SeekDrops, FILE
    <2>4. off' \in Nat
      BY <1>1, <1>2, <1>3
    <2>5. /\ Content' = file /\ Pos' = off' /\ Mode' = Mode /\ Mode # "closed"
      <3>1. PICK o \in Nat : o = off'
        BY <2>4
      <3>2. ftell' = o - (0 - 0) /\ off' + Len(f'.buf) = o + 0
        BY <2>3, <3>1 DEF ftell, Unread
      <3>3. o - (0 - 0) = o /\ o + 0 = o
        OBVIOUS
      <3>4. Content' = file
        BY <1>1, <2>3 DEF Content, Overlay
      <3>5. QED
        BY <1>1, <1>2, <2>3, <3>1, <3>2, <3>3, <3>4 DEF Pos, Mode, Writing
    <2>6. CASE to >= 0
      <3>1. off' = to /\ req' = <<"seek", whence, d>>
        BY <1>1, <2>6
      <3>2. to = d + (CASE whence = "set" -> 0 [] whence = "cur" -> Pos [] OTHER -> Len(Content))
        BY <2>1, <2>2 DEF SeekBase
      <3> HIDE DEF to
      <3>3. QED
        BY <2>1, <2>5, <2>6, <3>1, <3>2, ViewSeeks
    <2>7. CASE ~(to >= 0)
      <3>1. off' = off /\ req' = req /\ to < 0
        BY <1>1, <1>3, <2>7
      <3>2. QED
        BY <2>1, <2>2, <2>5, <3>1 DEF View
    <2>8. QED
      BY <2>6, <2>7
  <1>6. QED
    BY <1>4, <1>5

(* The steps that the program does not see: the beginning of a call, and   *)
(* what happens to a memory stream.                                        *)
LEMMA QuietIsHidden ==
    ASSUME StdioInv,
           \/ \E n \in 1..MaxCall : fread(n)
           \/ \E s \in Upto(Byte, MaxCall) : fwrite(s)
           \/ open_memstream \/ MemGrow \/ MemCopy
           \/ UNCHANGED stdioVars
    PROVE  View' = View
  <1>1. \/ f' = f /\ off' = off /\ file' = file /\ req' = req
        \/ f.mode = "closed" /\ f'.mode = "m" /\ file' = file /\ req' = req
        \/ f.mode = "m" /\ f'.mode = "m" /\ file' = file /\ req' = req
    <2>1. f \in FILE /\ Fresh("m") \in FILE /\ Fresh("m").mode = "m"
      BY FreshIs DEF StdioInv, StdioType
    <2>2. ASSUME open_memstream PROVE f.mode = "closed" /\ f'.mode = "m" /\ file' = file /\ req' = req
      BY <2>1, <2>2 DEF open_memstream, Closed, Fresh
    <2>3. ASSUME MemGrow \/ MemCopy
          PROVE  f.mode = "m" /\ f'.mode = "m" /\ file' = file /\ req' = req
      BY <2>1, <2>3 DEF MemGrow, MemCopy, FILE
    <2>4. QED
      BY <2>2, <2>3 DEF fread, fwrite, stdioVars
  <1>2. QED
    BY <1>1 DEF View, Content, Pos, Mode, Writing, ftell, Unread

-----------------------------------------------------------------------------
(* Every step is one of the stream, or none that it sees, or a slip.       *)
LEMMA StreamStep ==
    ASSUME StdioInv, [StdioNext]_stdioVars
    PROVE  [slip' \/ S!StreamNext]_(S!streamVars)
  <1>1. slip' \/ S!StreamNext \/ View' = View
    <2>1. CASE StdioNext
      <3>1. \/ \E m \in {"r", "w", "a"} : \/ fopen(m) \/ freopen(m)
                                          \/ \E o \in 0..Len(file) : fdopen(m, o)
            \/ fclose \/ exit
            \/ fflush
            \/ \/ \E n \in 1..MaxCall : fread(n)
               \/ \E s \in Upto(Byte, MaxCall) : fwrite(s)
               \/ open_memstream \/ MemGrow \/ MemCopy
            \/ ReadCopy \/ ReadFill \/ WriteCopy \/ WriteFlush
            \/ \E whence \in {"set", "cur", "end"}, d \in (-MaxSize)..MaxSize : fseek(whence, d)
        BY <2>1, Zenon DEF StdioNext
      <3>2. ASSUME fflush \/ WriteFlush PROVE slip' \/ View' = View
        <4>1. Writing /\ file_flush_write /\ f' = [f EXCEPT !.buf = <<>>] /\ req' = req
          BY <3>2 DEF fflush, WriteFlush, Pending
        <4>2. QED
          BY <4>1, FlushIsHidden
      <3>3. QED
        BY <3>1, <3>2, OpenIsSeen, CloseIsSeen, QuietIsHidden, ReadIsSeen, FillIsHidden,
           WriteIsSeen, SeekIsSeen
    <2>2. CASE UNCHANGED stdioVars
      BY <2>2, QuietIsHidden
    <2>3. QED
      BY <2>1, <2>2
  <1>2. QED
    BY <1>1, ViewIs

(* It starts as a stream. *)
LEMMA StreamStart == StdioInit => S!StreamInit
  <1>1. SUFFICES ASSUME StdioInit PROVE S!StreamInit
    OBVIOUS
  <1>2. f.mode = "closed" /\ file = <<>> /\ req = <<"none">>
    BY <1>1 DEF StdioInit, Closed, Fresh
  <1>3. QED
    BY <1>2 DEF S!StreamInit, Writing

(* Whatever is in the buffer, fread, fwrite, fseek and fclose are those of *)
(* a stream without one, except in the steps that slip names.              *)
THEOREM StdioIsAStream == StdioSpec => ImplementsStream
  <1>1. StdioInit => S!StreamInit
    BY StreamStart
  <1>2. StdioInv /\ [StdioNext]_stdioVars => [slip' \/ S!StreamNext]_(S!streamVars)
    BY StreamStep
  <1>3. QED
    BY <1>1, <1>2, StdioInvariant, PTL DEF StdioSpec, ImplementsStream
=============================================================================
