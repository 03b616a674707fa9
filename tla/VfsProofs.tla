----------------------------- MODULE VfsProofs -----------------------------
(***************************************************************************)
(* Theorems about pipes and the descriptor table, for rings of any size    *)
(* and any number of pipes, descriptors, vnodes and processes.  A ring is  *)
(* a sequence (Queue): taking from it and putting into it, at the wrap     *)
(* too, are those of a sequence.  For the vnodes the invariant adds that   *)
(* the ends of a pipe belong to a pipe in use and are never released, that *)
(* a parked call waits at the pipe whose vnode it holds, and that without  *)
(* dup a file is held by one descriptor.                                   *)
(***************************************************************************)
EXTENDS Vfs, FiniteSetTheorems, SequenceTheorems, WellFoundedInduction, TLAPS

(* The least element of a set of numbers is one of its members. *)
LEMMA MinIn == ASSUME NEW S \in SUBSET Nat, S # {}
               PROVE  Min(S) \in S /\ \A y \in S : Min(S) <= y
  <1>1. PICK x \in S : \A y \in S : ~(<<y, x>> \in OpToRel(<, Nat))
    BY NatLessThanWellFounded, WFMin, Zenon
  <1>2. \A y \in S : ~(y < x)
    BY <1>1 DEF OpToRel
  <1>3. \A y \in S : x <= y
    BY <1>2
  <1>4. QED
    BY <1>3 DEF Min

-----------------------------------------------------------------------------
(* A ring: the head is count places behind the tail. *)
Ring == [in_use : BOOLEAN, buf : [Index -> Nat], head : Index, tail : Index,
         count : 0..PIPE_BUF_SIZE, refs_read : 0..1, refs_write : 0..1]

RingOk(r) == /\ r \in Ring
             /\ r.head = (r.tail + r.count) % PIPE_BUF_SIZE
             /\ ~r.in_use => r.count = 0

Queue(r) == [i \in 1..r.count |-> r.buf[(r.tail + i - 1) % PIPE_BUF_SIZE]]

(* Places of the ring, counted from any of them. *)
LEMMA Place ==
    ASSUME NEW t \in Index, NEW a \in 0..PIPE_BUF_SIZE
    PROVE  /\ (t + a) % PIPE_BUF_SIZE \in Index
           /\ \/ (t + a) % PIPE_BUF_SIZE = t + a
              \/ (t + a) % PIPE_BUF_SIZE = t + a - PIPE_BUF_SIZE
  BY PipeAssumption DEF Index

(* Going on from a place that was reached. *)
LEMMA PlaceAgain ==
    ASSUME NEW t \in Index, NEW a \in 0..PIPE_BUF_SIZE, NEW b \in 0..PIPE_BUF_SIZE,
           a + b <= PIPE_BUF_SIZE
    PROVE  (((t + a) % PIPE_BUF_SIZE) + b) % PIPE_BUF_SIZE = (t + (a + b)) % PIPE_BUF_SIZE
  <1> DEFINE u == (t + a) % PIPE_BUF_SIZE
  <1>1. u \in Index /\ (u = t + a \/ u = t + a - PIPE_BUF_SIZE)
    BY Place
  <1>2. (u + b) % PIPE_BUF_SIZE \in Index
        /\ ((u + b) % PIPE_BUF_SIZE = u + b \/ (u + b) % PIPE_BUF_SIZE = u + b - PIPE_BUF_SIZE)
    BY <1>1, Place
  <1>3. a + b \in 0..PIPE_BUF_SIZE
    BY PipeAssumption
  <1>4. (t + (a + b)) % PIPE_BUF_SIZE \in Index
        /\ ((t + (a + b)) % PIPE_BUF_SIZE = t + (a + b)
              \/ (t + (a + b)) % PIPE_BUF_SIZE = t + (a + b) - PIPE_BUF_SIZE)
    BY <1>3, Place
  <1> HIDE DEF u
  <1>5. (u + b) % PIPE_BUF_SIZE = (t + (a + b)) % PIPE_BUF_SIZE
    <2> DEFINE x == (u + b) % PIPE_BUF_SIZE
               y == (t + (a + b)) % PIPE_BUF_SIZE
    <2>1. x \in Index /\ (x = u + b \/ x = u + b - PIPE_BUF_SIZE)
      BY <1>2
    <2>2. y \in Index /\ (y = t + (a + b) \/ y = t + (a + b) - PIPE_BUF_SIZE)
      BY <1>4
    <2> HIDE DEF x, y
    <2>3. x = y
      BY <1>1, <2>1, <2>2, PipeAssumption DEF Index
    <2>4. QED
      BY <2>3 DEF x, y
  <1>6. QED
    BY <1>5 DEF u

(* How far one place is behind another, going round. *)
LEMMA Distance ==
    ASSUME NEW t \in Index, NEW a \in 0..(PIPE_BUF_SIZE - 1), NEW b \in 0..PIPE_BUF_SIZE
    PROVE  (((t + a) % PIPE_BUF_SIZE) - ((t + b) % PIPE_BUF_SIZE)) % PIPE_BUF_SIZE
             = IF a >= b THEN a - b ELSE PIPE_BUF_SIZE + a - b
  <1> DEFINE u == (t + a) % PIPE_BUF_SIZE
             v == (t + b) % PIPE_BUF_SIZE
  <1>1. u \in Index /\ (u = t + a \/ u = t + a - PIPE_BUF_SIZE)
    BY Place, PipeAssumption
  <1>2. v \in Index /\ (v = t + b \/ v = t + b - PIPE_BUF_SIZE)
    BY Place
  <1> HIDE DEF u, v
  <1>3. \/ u - v = a - b \/ u - v = a - b - PIPE_BUF_SIZE \/ u - v = a - b + PIPE_BUF_SIZE
    BY <1>1, <1>2, PipeAssumption DEF Index
  <1>4. u - v \in (-PIPE_BUF_SIZE)..(PIPE_BUF_SIZE - 1)
    BY <1>1, <1>2, PipeAssumption DEF Index
  <1>5. \A d \in (-PIPE_BUF_SIZE)..(PIPE_BUF_SIZE - 1) :
           d % PIPE_BUF_SIZE = IF d >= 0 THEN d ELSE d + PIPE_BUF_SIZE
    BY PipeAssumption
  <1>6. (u - v) % PIPE_BUF_SIZE = IF u - v >= 0 THEN u - v ELSE u - v + PIPE_BUF_SIZE
    BY <1>4, <1>5
  <1>7. (u - v) % PIPE_BUF_SIZE = IF a >= b THEN a - b ELSE PIPE_BUF_SIZE + a - b
    <2> DEFINE m == (u - v) % PIPE_BUF_SIZE
    <2>1. m = IF u - v >= 0 THEN u - v ELSE u - v + PIPE_BUF_SIZE
      BY <1>6
    <2> HIDE DEF m
    <2>2. m = IF a >= b THEN a - b ELSE PIPE_BUF_SIZE + a - b
      BY <1>1, <1>2, <1>3, <1>4, <2>1, PipeAssumption DEF Index
    <2>3. QED
      BY <2>2 DEF m
  <1>8. QED
    BY <1>7 DEF u, v

-----------------------------------------------------------------------------
Taken(r, n) == [r EXCEPT !.tail = (@ + n) % PIPE_BUF_SIZE, !.count = @ - n]

Filled(r, w, n) ==
    [r EXCEPT !.buf = [i \in Index |->
                          LET k == (i - r.head) % PIPE_BUF_SIZE
                          IN IF k < n THEN w + 1 + k ELSE @[i]],
              !.head = (@ + n) % PIPE_BUF_SIZE,
              !.count = @ + n]

(* The queue of a ring is as long as its count says. *)
LEMMA QueueIsSeq ==
    ASSUME NEW r, RingOk(r)
    PROVE  Queue(r) \in Seq(Nat) /\ Len(Queue(r)) = r.count
  <1>1. r.count \in 0..PIPE_BUF_SIZE /\ r.count \in Nat /\ r.tail \in Index
        /\ r.buf \in [Index -> Nat]
    BY PipeAssumption DEF RingOk, Ring
  <1>2. \A i \in 1..r.count : (r.tail + i - 1) % PIPE_BUF_SIZE \in Index
    <2> TAKE i \in 1..r.count
    <2>1. r.tail + i - 1 \in Int
      BY <1>1 DEF Index
    <2>2. QED
      BY <2>1, PipeAssumption DEF Index
  <1>3. \A i \in 1..r.count : r.buf[(r.tail + i - 1) % PIPE_BUF_SIZE] \in Nat
    BY <1>1, <1>2
  <1>4. Queue(r) \in [1..r.count -> Nat]
    BY <1>3 DEF Queue
  <1>5. QED
    BY <1>1, <1>4

(* Reading takes the first n bytes of the queue. *)
LEMMA TakenRing ==
    ASSUME NEW r, RingOk(r), r.in_use, NEW n \in 1..r.count
    PROVE  /\ RingOk(Taken(r, n)) /\ Taken(r, n).in_use
           /\ Queue(Taken(r, n)) = SubSeq(Queue(r), n + 1, r.count)
  <1> DEFINE g == Taken(r, n)
  <1>1. /\ r \in Ring /\ r.tail \in Index /\ r.count \in 0..PIPE_BUF_SIZE /\ r.count \in Nat
        /\ n \in 0..PIPE_BUF_SIZE /\ r.count - n \in 0..PIPE_BUF_SIZE /\ n \in Nat
    BY PipeAssumption DEF RingOk, Ring
  <1>2. (r.tail + n) % PIPE_BUF_SIZE \in Index
    BY <1>1, Place
  <1>3. /\ g.tail = (r.tail + n) % PIPE_BUF_SIZE /\ g.count = r.count - n
        /\ g.head = r.head /\ g.buf = r.buf /\ g.in_use = r.in_use
    BY <1>1 DEF Taken, Ring
  <1>4. g \in Ring
    BY <1>1, <1>2 DEF Taken, Ring
  <1>5. (g.tail + g.count) % PIPE_BUF_SIZE = (r.tail + (n + (r.count - n))) % PIPE_BUF_SIZE
    BY <1>1, <1>3, PlaceAgain
  <1>6. n + (r.count - n) = r.count
    BY <1>1
  <1>7. g.head = (g.tail + g.count) % PIPE_BUF_SIZE
    BY <1>3, <1>5, <1>6 DEF RingOk
  <1>8. RingOk(g)
    BY <1>3, <1>4, <1>7 DEF RingOk
  <1>9. Queue(g) = SubSeq(Queue(r), n + 1, r.count)
    <2>1. /\ SubSeq(Queue(r), n + 1, r.count) \in Seq(Nat)
          /\ Len(SubSeq(Queue(r), n + 1, r.count)) = r.count - n
          /\ \A i \in 1..(r.count - n) : SubSeq(Queue(r), n + 1, r.count)[i] = Queue(r)[i + n]
      <3>1. Queue(r) \in Seq(Nat) /\ Len(Queue(r)) = r.count
        BY QueueIsSeq
      <3>2. \A i \in (n + 1)..r.count : Queue(r)[i] \in Nat
        BY <1>1, <3>1, ElementOfSeq
      <3>3. n + 1 \in Int /\ r.count \in Int /\ n + 1 <= r.count + 1
        BY <1>1
      <3>4. /\ SubSeq(Queue(r), n + 1, r.count) \in Seq(Nat)
            /\ Len(SubSeq(Queue(r), n + 1, r.count))
                 = IF n + 1 <= r.count THEN r.count - (n + 1) + 1 ELSE 0
            /\ \A i \in 1..(r.count - (n + 1) + 1) :
                  SubSeq(Queue(r), n + 1, r.count)[i] = Queue(r)[n + 1 + i - 1]
        BY <3>2, <3>3, SubSeqProperties
      <3>5. r.count - (n + 1) + 1 = r.count - n /\ \A i \in Nat : n + 1 + i - 1 = i + n
        BY <1>1
      <3>6. \A i \in 1..(r.count - n) : i \in Nat
        BY <1>1
      <3>7. (IF n + 1 <= r.count THEN r.count - (n + 1) + 1 ELSE 0) = r.count - n
        BY <1>1
      <3>8. QED
        BY <3>4, <3>5, <3>6, <3>7
    <2>2. \A i \in 1..(r.count - n) : Queue(r)[i + n] = r.buf[(r.tail + (i + n) - 1) % PIPE_BUF_SIZE]
      BY <1>1 DEF Queue
    <2>3. \A i \in 1..(r.count - n) :
             (g.tail + i - 1) % PIPE_BUF_SIZE = (r.tail + (i + n) - 1) % PIPE_BUF_SIZE
      <3> TAKE i \in 1..(r.count - n)
      <3>1. i - 1 \in 0..PIPE_BUF_SIZE /\ n + (i - 1) <= PIPE_BUF_SIZE
        BY <1>1, PipeAssumption
      <3>2. (((r.tail + n) % PIPE_BUF_SIZE) + (i - 1)) % PIPE_BUF_SIZE
              = (r.tail + (n + (i - 1))) % PIPE_BUF_SIZE
        BY <1>1, <3>1, PlaceAgain
      <3>3. r.tail + (n + (i - 1)) = r.tail + (i + n) - 1 /\ g.tail + (i - 1) = g.tail + i - 1
        BY <1>1, <1>2, <1>3, PipeAssumption DEF Index
      <3>4. QED
        BY <1>3, <3>2, <3>3
    <2>4. Queue(g) = [i \in 1..(r.count - n) |-> r.buf[(g.tail + i - 1) % PIPE_BUF_SIZE]]
      BY <1>3 DEF Queue
    <2>5. Queue(g) \in Seq(Nat) /\ Len(Queue(g)) = r.count - n
      BY <1>3, <1>8, QueueIsSeq
    <2>6. \A i \in 1..(r.count - n) : Queue(g)[i] = SubSeq(Queue(r), n + 1, r.count)[i]
      BY <2>1, <2>2, <2>3, <2>4
    <2>7. QED
      BY <2>1, <2>5, <2>6, SeqEqual
  <1>10. QED
    BY <1>3, <1>8, <1>9

(* Writing appends the next n numbers to it. *)
LEMMA FilledRing ==
    ASSUME NEW r, RingOk(r), r.in_use, NEW w \in Nat, NEW n \in 1..(PIPE_BUF_SIZE - r.count)
    PROVE  /\ RingOk(Filled(r, w, n)) /\ Filled(r, w, n).in_use
           /\ Queue(Filled(r, w, n)) = Queue(r) \o [i \in 1..n |-> w + i]
  <1> DEFINE g == Filled(r, w, n)
             Far(i) == (i - r.head) % PIPE_BUF_SIZE
             bytes == [i \in Index |-> IF Far(i) < n THEN w + 1 + Far(i) ELSE r.buf[i]]
             at(i) == (r.tail + i - 1) % PIPE_BUF_SIZE
  <1>1. /\ r \in Ring /\ r.tail \in Index /\ r.head \in Index
        /\ r.count \in 0..PIPE_BUF_SIZE /\ r.count \in Nat /\ r.buf \in [Index -> Nat]
        /\ n \in 0..PIPE_BUF_SIZE /\ r.count + n \in 0..PIPE_BUF_SIZE /\ n \in Nat
        /\ r.count < PIPE_BUF_SIZE
    BY PipeAssumption DEF RingOk, Ring
  <1>2. (r.head + n) % PIPE_BUF_SIZE \in Index
    BY <1>1, Place
  <1>3. /\ g.tail = r.tail /\ g.count = r.count + n
        /\ g.head = (r.head + n) % PIPE_BUF_SIZE /\ g.buf = bytes /\ g.in_use = r.in_use
    BY <1>1 DEF Filled, Ring
  <1>4. bytes \in [Index -> Nat]
    <2>1. \A i \in Index : Far(i) \in Nat
      BY <1>1, PipeAssumption DEF Index
    <2> HIDE DEF Far
    <2>2. QED
      BY <1>1, <2>1
  <1>5. g \in Ring
    BY <1>1, <1>2, <1>4 DEF Filled, Ring
  <1>6. (r.head + n) % PIPE_BUF_SIZE = (r.tail + (r.count + n)) % PIPE_BUF_SIZE
    BY <1>1, PlaceAgain DEF RingOk
  <1>7. RingOk(g)
    BY <1>3, <1>5, <1>6 DEF RingOk
  <1>8. ASSUME NEW i \in 1..(r.count + n)
        PROVE  /\ at(i) \in Index
               /\ Far(at(i)) = IF i > r.count THEN i - 1 - r.count
                               ELSE PIPE_BUF_SIZE + i - 1 - r.count
    <2>1. i - 1 \in 0..(PIPE_BUF_SIZE - 1) /\ i - 1 \in 0..PIPE_BUF_SIZE /\ i \in Nat
      BY <1>1, PipeAssumption
    <2>2. at(i) = (r.tail + (i - 1)) % PIPE_BUF_SIZE
      <3>1. r.tail + i - 1 = r.tail + (i - 1)
        BY <1>1, <2>1, PipeAssumption DEF Index
      <3>2. QED
        BY <3>1
    <2>3. (((r.tail + (i - 1)) % PIPE_BUF_SIZE) - ((r.tail + r.count) % PIPE_BUF_SIZE)) % PIPE_BUF_SIZE
             = IF (i - 1) >= r.count THEN (i - 1) - r.count ELSE PIPE_BUF_SIZE + (i - 1) - r.count
      BY <1>1, <2>1, Distance
    <2>4. Far(at(i)) = IF (i - 1) >= r.count THEN (i - 1) - r.count
                       ELSE PIPE_BUF_SIZE + (i - 1) - r.count
      BY <2>2, <2>3 DEF RingOk
    <2>5. at(i) \in Index
      BY <1>1, <2>1, <2>2, Place
    <2> HIDE DEF Far, at
    <2>6. QED
      BY <1>1, <2>1, <2>4, <2>5, PipeAssumption
  <1> HIDE DEF Far, bytes
  <1>9. \A i \in 1..(r.count + n) :
           bytes[at(i)] = IF i > r.count THEN w + (i - r.count) ELSE r.buf[at(i)]
    <2> SUFFICES ASSUME NEW i \in 1..(r.count + n)
                 PROVE  bytes[at(i)] = IF i > r.count THEN w + (i - r.count) ELSE r.buf[at(i)]
      OBVIOUS
    <2>1. /\ at(i) \in Index
          /\ Far(at(i)) = IF i > r.count THEN i - 1 - r.count
                          ELSE PIPE_BUF_SIZE + i - 1 - r.count
      BY <1>8
    <2> HIDE DEF at
    <2>2. bytes[at(i)] = IF Far(at(i)) < n THEN w + 1 + Far(at(i)) ELSE r.buf[at(i)]
      BY <2>1 DEF bytes
    <2>3. ASSUME i > r.count PROVE bytes[at(i)] = w + (i - r.count)
      <3>1. Far(at(i)) = i - 1 - r.count
        BY <2>1, <2>3
      <3>2. Far(at(i)) < n /\ w + 1 + Far(at(i)) = w + (i - r.count)
        BY <1>1, <3>1, <2>3
      <3>3. QED
        BY <2>2, <3>2
    <2>4. ASSUME ~(i > r.count) PROVE bytes[at(i)] = r.buf[at(i)]
      <3>1. Far(at(i)) = PIPE_BUF_SIZE + i - 1 - r.count
        BY <2>1, <2>4
      <3>2. ~(Far(at(i)) < n)
        BY <1>1, <3>1, <2>4, PipeAssumption
      <3>3. QED
        BY <2>2, <3>2
    <2>5. QED
      BY <2>3, <2>4
  <1>10. Queue(g) = [i \in 1..(r.count + n) |-> bytes[at(i)]]
    BY <1>3 DEF Queue
  <1>11. Queue(g) = Queue(r) \o [i \in 1..n |-> w + i]
    <2> DEFINE new == [i \in 1..n |-> w + i]
    <2>1. /\ Queue(r) \in Seq(Nat) /\ Len(Queue(r)) = r.count
      BY QueueIsSeq
    <2>2. new \in Seq(Nat) /\ Len(new) = n
      BY <1>1
    <2>3. /\ Queue(r) \o new \in Seq(Nat) /\ Len(Queue(r) \o new) = r.count + n
          /\ \A i \in 1..(r.count + n) : (Queue(r) \o new)[i]
                = IF i <= r.count THEN Queue(r)[i] ELSE new[i - r.count]
      <3> HIDE DEF new
      <3>1. /\ Queue(r) \o new \in Seq(Nat)
            /\ Len(Queue(r) \o new) = Len(Queue(r)) + Len(new)
            /\ \A i \in 1..(Len(Queue(r)) + Len(new)) : (Queue(r) \o new)[i]
                  = IF i <= Len(Queue(r)) THEN Queue(r)[i] ELSE new[i - Len(Queue(r))]
        BY <2>1, <2>2, ConcatProperties, Zenon
      <3>2. QED
        BY <2>1, <2>2, <3>1
    <2>4. \A i \in 1..(r.count + n) :
             (IF i <= r.count THEN Queue(r)[i] ELSE new[i - r.count]) = bytes[at(i)]
      <3> SUFFICES ASSUME NEW i \in 1..(r.count + n)
                   PROVE (IF i <= r.count THEN Queue(r)[i] ELSE new[i - r.count]) = bytes[at(i)]
        OBVIOUS
      <3>1. ASSUME i <= r.count PROVE Queue(r)[i] = r.buf[at(i)]
        BY <1>1, <3>1 DEF Queue
      <3>2. ASSUME ~(i <= r.count) PROVE new[i - r.count] = w + (i - r.count)
        BY <1>1, <3>2
      <3> HIDE DEF at, new
      <3>3. QED
        BY <1>1, <1>9, <3>1, <3>2
    <2> HIDE DEF at, new, g
    <2>5. Queue(g) \in Seq(Nat) /\ Len(Queue(g)) = r.count + n
      BY <1>3, <1>7, QueueIsSeq
    <2>6. \A i \in 1..(r.count + n) : Queue(g)[i] = (Queue(r) \o new)[i]
      BY <1>10, <2>3, <2>4
    <2>7. Queue(g) = Queue(r) \o new
      BY <2>3, <2>5, <2>6, SeqEqual
    <2>8. QED
      BY <2>7 DEF new
  <1>12. QED
    BY <1>3, <1>7, <1>11

-----------------------------------------------------------------------------
(* The table of pipes: every ring is sound, and only pipes in use hold     *)
(* anything.                                                               *)
PipeInv == /\ pipes \in [PipeId -> Ring]
           /\ \A q \in PipeId : RingOk(pipes[q])
           /\ written \in [PipeId -> Nat]

(* The contents of a pipe are the queue of its ring. *)
LEMMA ContentsAre ==
    ASSUME NEW p \in PipeId PROVE Contents(p) = Queue(pipes[p])
  BY DEF Contents, Queue

(* What one step may do to the pipes: make one, read from one, write into  *)
(* one.                                                                    *)
Created    == \E q \in FreePipes : /\ pipes' = [pipes EXCEPT ![q] = Emptied(TRUE)]
                                   /\ written' = written
ReadFrom(q, n)  == /\ pipes[q].in_use /\ n \in 1..pipes[q].count
                   /\ pipes' = [pipes EXCEPT ![q] = Taken(pipes[q], n)]
                   /\ written' = written
WroteInto(q, n) == /\ pipes[q].in_use /\ n \in 1..(PIPE_BUF_SIZE - pipes[q].count)
                   /\ pipes' = [pipes EXCEPT ![q] = Filled(pipes[q], written[q], n)]
                   /\ written' = [written EXCEPT ![q] = @ + n]

PipeStep == \/ pipes' = pipes /\ written' = written
            \/ Created
            \/ \E q \in PipeId, n \in Nat : ReadFrom(q, n)
            \/ \E q \in PipeId, n \in Nat : WroteInto(q, n)

(* An empty ring is sound. *)
LEMMA EmptiedRing ==
    ASSUME NEW used \in BOOLEAN
    PROVE  /\ RingOk(Emptied(used)) /\ Queue(Emptied(used)) = <<>>
           /\ Emptied(used).in_use = used
  <1>1. 0 \in Index /\ 0 \in 0..PIPE_BUF_SIZE
    BY PipeAssumption DEF Index
  <1>2. Emptied(used) \in Ring
    BY <1>1 DEF Emptied, Ring
  <1>3. /\ Emptied(used).head = 0 /\ Emptied(used).tail = 0 /\ Emptied(used).count = 0
        /\ Emptied(used).in_use = used
    BY DEF Emptied
  <1>4. (0 + 0) % PIPE_BUF_SIZE = 0
    BY PipeAssumption
  <1>5. RingOk(Emptied(used))
    BY <1>2, <1>3, <1>4 DEF RingOk
  <1>6. Queue(Emptied(used)) \in Seq(Nat) /\ Len(Queue(Emptied(used))) = 0
    BY <1>3, <1>5, QueueIsSeq
  <1>7. Queue(Emptied(used)) = <<>>
    BY <1>6, EmptySeq
  <1>8. QED
    BY <1>3, <1>5, <1>7

(* Reading and writing a ring, as they are written in the model. *)
LEMMA TakeIs ==
    ASSUME PipeInv, NEW q \in PipeId, NEW n \in Nat
    PROVE  Take(q, n) = [pipes EXCEPT ![q] = Taken(pipes[q], n)]
  BY DEF PipeInv, Ring, Take, Taken

(* The same of what a writer puts there. *)
LEMMA PutIs ==
    ASSUME PipeInv, NEW q \in PipeId, NEW n \in Nat
    PROVE  Put(q, n) = [pipes EXCEPT ![q] = Filled(pipes[q], written[q], n)]
  BY DEF PipeInv, Ring, Put, Filled

(* Every such step keeps the rings sound and the pipes in use. *)
LEMMA PipeStepKeeps ==
    ASSUME PipeInv, PipeStep
    PROVE  /\ PipeInv'
           /\ \A q \in PipeId : pipes[q].in_use => pipes'[q].in_use
  <1>1. /\ pipes \in [PipeId -> Ring] /\ written \in [PipeId -> Nat]
        /\ \A q \in PipeId : RingOk(pipes[q])
    BY DEF PipeInv
  <1>2. ASSUME NEW q \in PipeId, NEW r \in Ring, RingOk(r), r.in_use, NEW w \in Nat,
               pipes' = [pipes EXCEPT ![q] = r],
               written' = [written EXCEPT ![q] = w] \/ written' = written
        PROVE  /\ PipeInv'
               /\ \A p \in PipeId : pipes[p].in_use => pipes'[p].in_use
    <2>1. pipes' \in [PipeId -> Ring] /\ written' \in [PipeId -> Nat]
      BY <1>1, <1>2
    <2>2. \A p \in PipeId : pipes'[p] = IF p = q THEN r ELSE pipes[p]
      BY <1>1, <1>2
    <2>3. \A p \in PipeId : RingOk(pipes'[p])
      BY <1>1, <1>2, <2>2
    <2>4. QED
      BY <1>2, <2>1, <2>2, <2>3 DEF PipeInv
  <1>3. CASE pipes' = pipes /\ written' = written
    BY <1>1, <1>3 DEF PipeInv
  <1>4. CASE Created
    <2>1. PICK q \in FreePipes : pipes' = [pipes EXCEPT ![q] = Emptied(TRUE)] /\ written' = written
      BY <1>4 DEF Created
    <2>2. q \in PipeId
      BY DEF FreePipes
    <2>3. RingOk(Emptied(TRUE)) /\ Emptied(TRUE).in_use /\ Emptied(TRUE) \in Ring
      BY EmptiedRing DEF RingOk
    <2>4. 0 \in Nat
      OBVIOUS
    <2>5. QED
      BY <1>2, <2>1, <2>2, <2>3, <2>4
  <1>5. ASSUME NEW q \in PipeId, NEW n \in Nat, ReadFrom(q, n)
        PROVE  /\ PipeInv'
               /\ \A p \in PipeId : pipes[p].in_use => pipes'[p].in_use
    <2>1. RingOk(Taken(pipes[q], n)) /\ Taken(pipes[q], n).in_use /\ Taken(pipes[q], n) \in Ring
      BY <1>1, <1>5, TakenRing DEF ReadFrom, RingOk
    <2>2. 0 \in Nat
      OBVIOUS
    <2>3. QED
      BY <1>2, <1>5, <2>1, <2>2 DEF ReadFrom
  <1>6. ASSUME NEW q \in PipeId, NEW n \in Nat, WroteInto(q, n)
        PROVE  /\ PipeInv'
               /\ \A p \in PipeId : pipes[p].in_use => pipes'[p].in_use
    <2> DEFINE r == Filled(pipes[q], written[q], n)
    <2>1. written[q] \in Nat /\ written[q] + n \in Nat
      BY <1>1
    <2>2. RingOk(r) /\ r.in_use /\ r \in Ring
      BY <1>1, <1>6, <2>1, FilledRing DEF WroteInto, RingOk
    <2>3. pipes' = [pipes EXCEPT ![q] = r]
      BY <1>6 DEF WroteInto
    <2>4. written' = [written EXCEPT ![q] = written[q] + n]
      BY <1>6 DEF WroteInto
    <2> HIDE DEF r
    <2>5. QED
      BY <1>2, <2>1, <2>2, <2>3, <2>4
  <1>7. QED
    BY <1>3, <1>4, <1>5, <1>6 DEF PipeStep

(* What every pipe holds. *)
Queues == [p \in PipeId |-> Contents(p)]

(* One ring replaced by another: the other queues stay. *)
LEMMA QueuesAfter ==
    ASSUME PipeInv, NEW q \in PipeId, NEW r, pipes' = [pipes EXCEPT ![q] = r]
    PROVE  Queues' = [Queues EXCEPT ![q] = Queue(r)] /\ Queues[q] = Queue(pipes[q])
  <1>1. \A p \in PipeId : pipes'[p] = IF p = q THEN r ELSE pipes[p]
    BY DEF PipeInv
  <1>2. \A p \in PipeId : Contents(p)' = Queue(pipes'[p])
    BY DEF Contents, Queue
  <1>3. Queues' = [p \in PipeId |-> Queue(pipes'[p])]
    BY <1>2 DEF Queues
  <1>4. Queues = [p \in PipeId |-> Queue(pipes[p])]
    BY ContentsAre DEF Queues
  <1>5. QED
    BY <1>1, <1>3, <1>4

(* Every step of the pipes is one of the channels: a new pipe is empty, as *)
(* it was; what is read leaves at the front, what is written enters at the *)
(* back.                                                                   *)
LEMMA PipeStepIsChannels ==
    ASSUME PipeInv, PipeStep
    PROVE  [\E c \in PipeId : Channels!Send(c) \/ Channels!Receive(c)]_<<Queues, written>>
  <1>1. /\ pipes \in [PipeId -> Ring] /\ written \in [PipeId -> Nat]
        /\ \A q \in PipeId : RingOk(pipes[q])
    BY DEF PipeInv
  <1>2. CASE pipes' = pipes /\ written' = written
    <2>1. Queues' = Queues
      BY <1>2 DEF Queues, Contents
    <2>2. QED
      BY <1>2, <2>1
  <1>3. CASE Created
    <2>1. PICK q \in FreePipes : pipes' = [pipes EXCEPT ![q] = Emptied(TRUE)] /\ written' = written
      BY <1>3 DEF Created
    <2>2. q \in PipeId /\ ~pipes[q].in_use
      BY DEF FreePipes
    <2>3. Queues' = [Queues EXCEPT ![q] = <<>>] /\ Queues[q] = Queue(pipes[q])
      BY <2>1, <2>2, QueuesAfter, EmptiedRing
    <2>4. Queue(pipes[q]) \in Seq(Nat) /\ Len(Queue(pipes[q])) = 0
      BY <1>1, <2>2, QueueIsSeq DEF RingOk
    <2>5. Queue(pipes[q]) = <<>>
      BY <2>4, EmptySeq
    <2>6. Queues' = Queues
      BY <2>3, <2>5 DEF Queues
    <2>7. QED
      BY <2>1, <2>6
  <1>4. ASSUME NEW q \in PipeId, NEW n \in Nat, ReadFrom(q, n)
        PROVE  Channels!Receive(q)
    <2>1. Queue(Taken(pipes[q], n)) = SubSeq(Queue(pipes[q]), n + 1, pipes[q].count)
      BY <1>1, <1>4, TakenRing DEF ReadFrom
    <2>2. Len(Queue(pipes[q])) = pipes[q].count
      BY <1>1, QueueIsSeq
    <2>3. /\ Queues' = [Queues EXCEPT ![q] = Queue(Taken(pipes[q], n))]
          /\ Queues[q] = Queue(pipes[q])
      BY <1>4, QueuesAfter DEF ReadFrom
    <2>4. /\ n \in 1..Len(Queues[q])
          /\ Queues' = [Queues EXCEPT ![q] = SubSeq(Queues[q], n + 1, Len(Queues[q]))]
          /\ written' = written
      BY <1>4, <2>1, <2>2, <2>3 DEF ReadFrom
    <2>5. /\ n \in 1..Len(Queues[q])
          /\ Queues' = [Queues EXCEPT ![q] = SubSeq(@, n + 1, Len(@))]
          /\ written' = written
      BY <2>4 DEF Queues
    <2>6. QED
      BY <2>5, Zenon DEF Channels!Receive, Queues
  <1>5. ASSUME NEW q \in PipeId, NEW n \in Nat, WroteInto(q, n)
        PROVE  Channels!Send(q)
    <2>1. Queue(Filled(pipes[q], written[q], n)) = Queue(pipes[q]) \o [i \in 1..n |-> written[q] + i]
      BY <1>1, <1>5, FilledRing DEF WroteInto
    <2>2. Len(Queue(pipes[q])) = pipes[q].count
      BY <1>1, QueueIsSeq
    <2>3. /\ Queues' = [Queues EXCEPT ![q] = Queue(Filled(pipes[q], written[q], n))]
          /\ Queues[q] = Queue(pipes[q])
      BY <1>5, QueuesAfter DEF WroteInto
    <2>4. /\ n \in 1..(PIPE_BUF_SIZE - Len(Queues[q]))
          /\ Queues' = [Queues EXCEPT ![q] = Queues[q] \o [i \in 1..n |-> written[q] + i]]
          /\ written' = [written EXCEPT ![q] = @ + n]
      BY <1>5, <2>1, <2>2, <2>3 DEF WroteInto
    <2>5. /\ n \in 1..(PIPE_BUF_SIZE - Len(Queues[q]))
          /\ Queues' = [Queues EXCEPT ![q] = @ \o [i \in 1..n |-> written[q] + i]]
          /\ written' = [written EXCEPT ![q] = @ + n]
      BY <2>4 DEF Queues
    <2>6. QED
      BY <2>5, Zenon DEF Channels!Send, Queues
  <1>6. QED
    BY <1>2, <1>3, <1>4, <1>5, Zenon DEF PipeStep

-----------------------------------------------------------------------------
(* Types. *)
Vnode == [kind : {"console", "file", "read", "write"}, pipe : 0..MaxPipes, live : BOOLEAN]

Parked == [kind : {"read", "write"}, fd : Fd, vnode : Nat, left : Nat \ {0}, moved : Nat]

VfsType == /\ vnodes \in Seq(Vnode)
           /\ fd_table \in [Fd -> 0..Len(vnodes)]
           /\ fd_offset \in [Fd -> 0..1]
           /\ calls \in [Proc -> Parked \cup {Idle}]
           /\ gone \subseteq Proc
           /\ dups \in Nat

(* The two ends of a pipe belong to a pipe in use and, as the console, are *)
(* never released.                                                         *)
EndsAreGood ==
    /\ 1 \in 1..Len(vnodes) /\ vnodes[1].kind = "console"
    /\ \A v \in 1..Len(vnodes) :
          /\ vnodes[v].kind # "file" => vnodes[v].live
          /\ vnodes[v].kind \in {"read", "write"} =>
                vnodes[v].pipe \in PipeId /\ pipes[vnodes[v].pipe].in_use

(* A parked call waits at its end of a pipe: no call on a file parks. *)
ParkedAtEnd ==
    \A p \in Proc : calls[p] # Idle =>
        calls[p].vnode \in 1..Len(vnodes) /\ vnodes[calls[p].vnode].kind = calls[p].kind

(* Without dup, a file is held by one descriptor. *)
OneHolder ==
    dups = 0 => \A d, e \in Fd :
        d # e /\ fd_table[d] # 0 /\ fd_table[d] = fd_table[e] => vnodes[fd_table[d]].kind # "file"

VfsInv == PipeInv /\ VfsType /\ EndsAreGood /\ ParkedAtEnd /\ NothingDangles /\ OneHolder

-----------------------------------------------------------------------------
(* Vnodes come in at the end of the list; of those there only a file's can *)
(* change, when it is released.                                            *)
VnodesKept == /\ vnodes' \in Seq(Vnode)
              /\ Len(vnodes) <= Len(vnodes')
              /\ \A v \in 1..Len(vnodes) :
                    /\ vnodes'[v].kind = vnodes[v].kind
                    /\ vnodes'[v].pipe = vnodes[v].pipe
                    /\ vnodes'[v].live = vnodes[v].live \/ vnodes[v].kind = "file"

NewVnodesGood ==
    \A v \in (Len(vnodes) + 1)..Len(vnodes') :
       /\ vnodes'[v].live
       /\ vnodes'[v].kind \in {"read", "write"} =>
             vnodes'[v].pipe \in PipeId /\ pipes'[vnodes'[v].pipe].in_use

(* The lists of vnodes before and after, in numbers. *)
LEMMA Lengths ==
    ASSUME VfsType, EndsAreGood
    PROVE  /\ Len(vnodes) \in Nat /\ Len(vnodes) >= 1
           /\ \A v \in 1..Len(vnodes) : vnodes[v] \in Vnode /\ v \in Nat /\ v # 0
  <1>1. Len(vnodes) \in Nat /\ \A v \in 1..Len(vnodes) : vnodes[v] \in Vnode
    BY LenProperties, ElementOfSeq DEF VfsType
  <1>2. Len(vnodes) >= 1
    BY <1>1 DEF EndsAreGood
  <1>3. QED
    BY <1>1, <1>2

(* Ends of pipes stay good under such a change. *)
LEMMA EndsKept ==
    ASSUME VfsType, EndsAreGood, VnodesKept, NewVnodesGood,
           \A q \in PipeId : pipes[q].in_use => pipes'[q].in_use
    PROVE  EndsAreGood'
  <1>1. /\ Len(vnodes) \in Nat /\ Len(vnodes) >= 1
        /\ Len(vnodes') \in Nat /\ Len(vnodes) <= Len(vnodes')
    BY Lengths, LenProperties DEF VnodesKept
  <1>2. 1 \in 1..Len(vnodes) /\ 1 \in 1..Len(vnodes') /\ vnodes'[1].kind = "console"
    BY <1>1 DEF EndsAreGood, VnodesKept
  <1>3. ASSUME NEW v \in 1..Len(vnodes')
        PROVE  /\ vnodes'[v].kind # "file" => vnodes'[v].live
               /\ vnodes'[v].kind \in {"read", "write"} =>
                     vnodes'[v].pipe \in PipeId /\ pipes'[vnodes'[v].pipe].in_use
    <2>1. v \in 1..Len(vnodes) \/ v \in (Len(vnodes) + 1)..Len(vnodes')
      BY <1>1
    <2>2. CASE v \in 1..Len(vnodes)
      <3>1. /\ vnodes[v].kind # "file" => vnodes[v].live
            /\ vnodes[v].kind \in {"read", "write"} =>
                  vnodes[v].pipe \in PipeId /\ pipes[vnodes[v].pipe].in_use
        BY <2>2 DEF EndsAreGood
      <3>2. /\ vnodes'[v].kind = vnodes[v].kind
            /\ vnodes'[v].pipe = vnodes[v].pipe
            /\ vnodes'[v].live = vnodes[v].live \/ vnodes[v].kind = "file"
        BY <2>2 DEF VnodesKept
      <3>3. QED
        BY <3>1, <3>2
    <2>3. CASE v \in (Len(vnodes) + 1)..Len(vnodes')
      BY <2>3 DEF NewVnodesGood
    <2>4. QED
      BY <2>1, <2>2, <2>3
  <1>4. QED
    BY <1>2, <1>3 DEF EndsAreGood

(* Parked calls stay at their ends. *)
LEMMA ParkedKept ==
    ASSUME VfsType, EndsAreGood, ParkedAtEnd, VnodesKept, calls' = calls
    PROVE  ParkedAtEnd'
  <1>1. /\ Len(vnodes) \in Nat /\ Len(vnodes') \in Nat /\ Len(vnodes) <= Len(vnodes')
    BY Lengths, LenProperties DEF VnodesKept
  <1>2. \A v \in 1..Len(vnodes) : v \in 1..Len(vnodes') /\ vnodes'[v].kind = vnodes[v].kind
    BY <1>1 DEF VnodesKept
  <1>3. QED
    BY <1>2 DEF ParkedAtEnd

(* A table that changes only where a descriptor gets the console or a new  *)
(* vnode, two descriptors no new file, has no dangling descriptor.         *)
LEMMA TableKept ==
    ASSUME VfsType, EndsAreGood, NothingDangles, OneHolder, VnodesKept, NewVnodesGood,
           dups' = dups,
           \A v \in 1..Len(vnodes) : vnodes'[v] = vnodes[v],
           fd_table' \in [Fd -> 0..Len(vnodes')],
           \A d \in Fd : \/ fd_table'[d] = fd_table[d]
                         \/ fd_table'[d] = Console
                         \/ fd_table'[d] > Len(vnodes),
           \A d, e \in Fd : d # e /\ fd_table'[d] = fd_table'[e] /\ fd_table'[d] > Len(vnodes)
                               => vnodes'[fd_table'[d]].kind # "file"
    PROVE  NothingDangles' /\ OneHolder'
  <1>1. /\ Len(vnodes) \in Nat /\ Len(vnodes') \in Nat /\ Len(vnodes) <= Len(vnodes')
        /\ Len(vnodes) >= 1
    BY Lengths, LenProperties DEF VnodesKept
  <1>2. ASSUME dups = 0, NEW d \in Fd, fd_table'[d] # 0
        PROVE  vnodes'[fd_table'[d]].live
    <2>1. fd_table'[d] \in 0..Len(vnodes') /\ fd_table[d] \in 0..Len(vnodes)
      BY DEF VfsType
    <2>2. CASE fd_table'[d] > Len(vnodes)
      <3>1. fd_table'[d] \in (Len(vnodes) + 1)..Len(vnodes')
        BY <1>1, <2>1, <2>2
      <3>2. QED
        BY <3>1 DEF NewVnodesGood
    <2>3. CASE fd_table'[d] = fd_table[d]
      <3>1. vnodes[fd_table[d]].live /\ fd_table[d] \in 1..Len(vnodes)
        BY <1>1, <1>2, <2>1, <2>3 DEF NothingDangles
      <3>2. QED
        BY <2>3, <3>1
    <2>4. CASE fd_table'[d] = Console
      <3>1. vnodes[1].live /\ 1 \in 1..Len(vnodes)
        BY DEF EndsAreGood
      <3>2. QED
        BY <2>4, <3>1 DEF Console
    <2>5. QED
      BY <2>2, <2>3, <2>4
  <1>3. ASSUME dups = 0, NEW d \in Fd, NEW e \in Fd, d # e,
               fd_table'[d] # 0, fd_table'[d] = fd_table'[e]
        PROVE  vnodes'[fd_table'[d]].kind # "file"
    <2>1. /\ fd_table[d] \in 0..Len(vnodes) /\ fd_table[e] \in 0..Len(vnodes)
          /\ fd_table'[d] \in 0..Len(vnodes')
      BY DEF VfsType
    <2>2. CASE fd_table'[d] > Len(vnodes)
      BY <1>3, <2>2
    <2>3. CASE fd_table'[d] = Console
      <3>1. vnodes[1].kind = "console" /\ 1 \in 1..Len(vnodes)
        BY DEF EndsAreGood
      <3>2. QED
        BY <2>3, <3>1 DEF Console
    <2>4. CASE fd_table'[d] = fd_table[d] /\ fd_table'[e] = fd_table[e]
      <3>1. fd_table[d] # 0 /\ fd_table[d] = fd_table[e]
        BY <1>3, <2>4
      <3>2. vnodes[fd_table[d]].kind # "file"
        BY <1>3, <3>1 DEF OneHolder
      <3>3. fd_table[d] \in 1..Len(vnodes)
        BY <1>1, <2>1, <3>1
      <3>4. QED
        BY <2>4, <3>2, <3>3
    <2>5. QED
      BY <1>3, <2>2, <2>3, <2>4
  <1>4. QED
    BY <1>2, <1>3 DEF NothingDangles, OneHolder

(* Vnodes that do not change. *)
LEMMA SameVnodes ==
    ASSUME VfsType, EndsAreGood, vnodes' = vnodes
    PROVE  VnodesKept /\ NewVnodesGood /\ \A v \in 1..Len(vnodes) : vnodes'[v] = vnodes[v]
  <1>1. vnodes \in Seq(Vnode) /\ Len(vnodes) \in Nat
    BY Lengths DEF VfsType
  <1>2. VnodesKept
    BY <1>1 DEF VnodesKept
  <1>3. NewVnodesGood
    BY <1>1 DEF NewVnodesGood
  <1>4. QED
    BY <1>2, <1>3

(* One more vnode. *)
LEMMA OneMore ==
    ASSUME VfsType, EndsAreGood, NEW x \in Vnode, vnodes' = Append(vnodes, x), x.live,
           x.kind \in {"read", "write"} => x.pipe \in PipeId /\ pipes'[x.pipe].in_use
    PROVE  /\ VnodesKept /\ NewVnodesGood /\ Len(vnodes') = Len(vnodes) + 1
           /\ \A v \in 1..Len(vnodes) : vnodes'[v] = vnodes[v]
           /\ vnodes'[Len(vnodes) + 1] = x
  <1>1. vnodes \in Seq(Vnode) /\ Len(vnodes) \in Nat
    BY Lengths DEF VfsType
  <1>2. /\ vnodes' \in Seq(Vnode) /\ Len(vnodes') = Len(vnodes) + 1
        /\ \A v \in 1..Len(vnodes) : vnodes'[v] = vnodes[v]
        /\ vnodes'[Len(vnodes) + 1] = x
    BY <1>1
  <1>3. VnodesKept
    BY <1>1, <1>2 DEF VnodesKept
  <1>4. NewVnodesGood
    <2>1. \A v \in (Len(vnodes) + 1)..Len(vnodes') : v = Len(vnodes) + 1
      BY <1>1, <1>2
    <2>2. QED
      BY <1>2, <2>1 DEF NewVnodesGood
  <1>5. QED
    BY <1>2, <1>3, <1>4

(* The first free descriptor. *)
LEMMA InstallAt ==
    ASSUME NEW n \in Nat, NEW table \in [Fd -> 0..n], NEW v,
           {fd \in FreeFd : table[fd] = 0} # {}
    PROVE  \E m \in FreeFd : /\ m \in Fd /\ table[m] = 0
                             /\ m = Min({fd \in FreeFd : table[fd] = 0})
                             /\ vfs_install_fd(table, v) = [table EXCEPT ![m] = v]
  <1>1. {fd \in FreeFd : table[fd] = 0} \in SUBSET Nat /\ FreeFd \subseteq Fd
    BY VfsAssumption DEF FreeFd, Fd
  <1>2. Min({fd \in FreeFd : table[fd] = 0}) \in {fd \in FreeFd : table[fd] = 0}
    BY <1>1, MinIn
  <1>3. QED
    BY <1>1, <1>2 DEF vfs_install_fd

-----------------------------------------------------------------------------
(* The vnode a read or write works on. *)
AtEnd(c, kind) == /\ c \in Parked /\ c.kind = kind
                  /\ c.vnode \in 1..Len(vnodes) /\ vnodes[c.vnode].kind = kind

(* How a call that may wait leaves the tables: it has returned, or it      *)
(* waits on at the same vnode.                                             *)
CallStep(p, c) == /\ fd_offset' \in [Fd -> 0..1]
                  /\ \/ calls' = [calls EXCEPT ![p] = Idle]
                     \/ \E d \in Parked : /\ d.kind = c.kind /\ d.vnode = c.vnode
                                          /\ calls' = [calls EXCEPT ![p] = d]

(* Returning and waiting are such steps. *)
LEMMA FinishIs ==
    ASSUME VfsType, NEW p \in Proc, NEW c, c.fd \in Fd, NEW k, Finish(p, c, k)
    PROVE  calls' = [calls EXCEPT ![p] = Idle] /\ fd_offset' \in [Fd -> 0..1]
  BY DEF Finish, VfsType

(* The smaller of two numbers. *)
LEMMA MinOfTwo ==
    ASSUME NEW a \in Nat, NEW b \in Nat
    PROVE  Min({a, b}) \in {a, b} /\ Min({a, b}) <= a /\ Min({a, b}) <= b
  <1>1. {a, b} \in SUBSET Nat /\ {a, b} # {}
    OBVIOUS
  <1>2. QED
    BY <1>1, MinIn

(* pipe_read takes bytes off the ring, waits, or finds the end. *)
LEMMA ReadStep ==
    ASSUME VfsInv, NEW p \in Proc, NEW c, AtEnd(c, "read"), pipe_read(p, c)
    PROVE  PipeStep /\ CallStep(p, c)
  <1> DEFINE q == vnodes[c.vnode].pipe
             n == Min({c.left, pipes[q].count})
  <1>1. /\ c \in Parked /\ c.fd \in Fd /\ c.left \in Nat \ {0}
        /\ q \in PipeId /\ pipes[q].in_use
    BY DEF AtEnd, Parked, VfsInv, EndsAreGood
  <1>2. pipes[q].count \in Nat /\ PipeInv /\ VfsType
    BY <1>1, PipeAssumption DEF VfsInv, PipeInv, RingOk, Ring
  <1> HIDE DEF q
  <1>3. CASE pipes[q].count = 0
    <2>1. pipe_read(p, c) => Park(p, c) \/ (Finish(p, c, 0) /\ UNCHANGED pipeVars)
      BY <1>3 DEF pipe_read, q
    <2>2. ASSUME Park(p, c) PROVE PipeStep /\ CallStep(p, c)
      <3>1. /\ calls' = [calls EXCEPT ![p] = c] /\ fd_offset' = fd_offset
            /\ pipes' = pipes /\ written' = written
        BY <2>2 DEF Park, pipeVars
      <3>2. fd_offset' \in [Fd -> 0..1]
        BY <1>2, <3>1 DEF VfsType
      <3>3. QED
        BY <1>1, <3>1, <3>2 DEF PipeStep, CallStep
    <2>3. ASSUME Finish(p, c, 0) /\ UNCHANGED pipeVars PROVE PipeStep /\ CallStep(p, c)
      BY <1>1, <1>2, <2>3, FinishIs DEF PipeStep, CallStep, pipeVars
    <2>4. QED
      BY <2>1, <2>2, <2>3
  <1>4. CASE pipes[q].count # 0
    <2>1. pipes' = Take(q, n) /\ Finish(p, c, n) /\ written' = written
      BY <1>4 DEF pipe_read, q
    <2>2. n \in {c.left, pipes[q].count} /\ n <= pipes[q].count /\ n \in Nat
      BY <1>1, <1>2, MinOfTwo
    <2>3. n \in 1..pipes[q].count
      BY <1>1, <1>2, <1>4, <2>2
    <2> HIDE DEF n
    <2>4. pipes' = [pipes EXCEPT ![q] = Taken(pipes[q], n)]
      BY <1>1, <1>2, <2>1, <2>2, TakeIs
    <2>5. ReadFrom(q, n)
      BY <1>1, <2>1, <2>3, <2>4 DEF ReadFrom
    <2>6. QED
      BY <1>1, <1>2, <2>1, <2>2, <2>5, FinishIs DEF PipeStep, CallStep
  <1>5. QED
    BY <1>3, <1>4

(* pipe_write puts bytes into the ring and goes on, waits, or returns. *)
LEMMA WriteStep ==
    ASSUME VfsInv, NEW p \in Proc, NEW c, AtEnd(c, "write"), pipe_write(p, c)
    PROVE  PipeStep /\ CallStep(p, c)
  <1> DEFINE q == vnodes[c.vnode].pipe
             n == Min({c.left, PIPE_BUF_SIZE - pipes[q].count})
             d == [c EXCEPT !.left = @ - n, !.moved = @ + n]
  <1>1. /\ c \in Parked /\ c.fd \in Fd /\ c.left \in Nat \ {0} /\ c.moved \in Nat
        /\ q \in PipeId /\ pipes[q].in_use
    BY DEF AtEnd, Parked, VfsInv, EndsAreGood
  <1>2. /\ PipeInv /\ VfsType /\ pipes[q].count \in 0..PIPE_BUF_SIZE
        /\ PIPE_BUF_SIZE - pipes[q].count \in Nat
    BY <1>1, PipeAssumption DEF VfsInv, PipeInv, RingOk, Ring
  <1> HIDE DEF q
  <1>3. CASE pipes[q].count = PIPE_BUF_SIZE
    <2>1. pipe_write(p, c) => Park(p, c) \/ (Finish(p, c, 0) /\ UNCHANGED pipeVars)
      BY <1>3, PipeAssumption DEF pipe_write, q
    <2>2. ASSUME Park(p, c) PROVE PipeStep /\ CallStep(p, c)
      <3>1. /\ calls' = [calls EXCEPT ![p] = c] /\ fd_offset' = fd_offset
            /\ pipes' = pipes /\ written' = written
        BY <2>2 DEF Park, pipeVars
      <3>2. fd_offset' \in [Fd -> 0..1]
        BY <1>2, <3>1 DEF VfsType
      <3>3. QED
        BY <1>1, <3>1, <3>2 DEF PipeStep, CallStep
    <2>3. ASSUME Finish(p, c, 0) /\ UNCHANGED pipeVars PROVE PipeStep /\ CallStep(p, c)
      BY <1>1, <1>2, <2>3, FinishIs DEF PipeStep, CallStep, pipeVars
    <2>4. QED
      BY <2>1, <2>2, <2>3
  <1>4. CASE pipes[q].count # PIPE_BUF_SIZE
    <2>1. /\ pipes' = Put(q, n)
          /\ written' = [written EXCEPT ![q] = @ + n]
          /\ IF d.left = 0
             THEN Finish(p, c, d.moved)
             ELSE calls' = [calls EXCEPT ![p] = d] /\ UNCHANGED fd_offset
      BY <1>4 DEF pipe_write, q
    <2>2. /\ n \in {c.left, PIPE_BUF_SIZE - pipes[q].count} /\ n \in Nat
          /\ n <= PIPE_BUF_SIZE - pipes[q].count /\ n <= c.left
      BY <1>1, <1>2, MinOfTwo
    <2>3. n \in 1..(PIPE_BUF_SIZE - pipes[q].count)
      BY <1>1, <1>2, <1>4, <2>2, PipeAssumption
    <2> HIDE DEF n
    <2>4. pipes' = [pipes EXCEPT ![q] = Filled(pipes[q], written[q], n)]
      BY <1>1, <1>2, <2>1, <2>2, PutIs
    <2>5. WroteInto(q, n)
      BY <1>1, <2>1, <2>3, <2>4 DEF WroteInto
    <2>6. /\ d.left = c.left - n /\ d.kind = c.kind /\ d.vnode = c.vnode
          /\ c.left - n \in Nat /\ c.moved + n \in Nat
      BY <1>1, <2>2 DEF Parked
    <2>7. d.left # 0 => d \in Parked
      BY <1>1, <2>6 DEF Parked
    <2> HIDE DEF d
    <2>8. CASE d.left = 0
      <3>1. Finish(p, c, d.moved)
        BY <2>1, <2>8
      <3>2. QED
        BY <1>1, <1>2, <2>2, <2>5, <3>1, FinishIs DEF PipeStep, CallStep
    <2>9. CASE d.left # 0
      <3>1. calls' = [calls EXCEPT ![p] = d] /\ fd_offset' = fd_offset
        BY <2>1, <2>9
      <3>2. fd_offset' \in [Fd -> 0..1]
        BY <1>2, <3>1 DEF VfsType
      <3>3. CallStep(p, c)
        BY <2>6, <2>7, <2>9, <3>1, <3>2 DEF CallStep
      <3>4. QED
        BY <1>1, <2>2, <2>5, <3>3 DEF PipeStep
    <2>10. QED
      BY <2>8, <2>9
  <1>5. QED
    BY <1>3, <1>4

(* A step that moves bytes and touches one call, its vnodes and            *)
(* descriptors staying, keeps the invariant.                               *)
LEMMA CallStepKeeps ==
    ASSUME VfsInv, PipeStep, NEW p \in Proc, NEW c, CallStep(p, c),
           c.vnode \in 1..Len(vnodes), vnodes[c.vnode].kind = c.kind,
           vnodes' = vnodes, fd_table' = fd_table, dups' = dups, gone' = gone
    PROVE  VfsInv'
  <1>1. /\ PipeInv /\ VfsType /\ EndsAreGood /\ ParkedAtEnd /\ NothingDangles /\ OneHolder
    BY DEF VfsInv
  <1>2. PipeInv' /\ \A q \in PipeId : pipes[q].in_use => pipes'[q].in_use
    BY <1>1, PipeStepKeeps
  <1>3. EndsAreGood'
    BY <1>1, <1>2, SameVnodes, EndsKept
  <1>4. calls \in [Proc -> Parked \cup {Idle}] /\ fd_offset' \in [Fd -> 0..1]
    BY <1>1 DEF VfsType, CallStep
  <1>5. calls' \in [Proc -> Parked \cup {Idle}]
    BY <1>4 DEF CallStep
  <1>6. VfsType'
    BY <1>1, <1>4, <1>5 DEF VfsType
  <1>7. ASSUME NEW s \in Proc, calls'[s] # Idle
        PROVE  calls'[s].vnode \in 1..Len(vnodes) /\ vnodes[calls'[s].vnode].kind = calls'[s].kind
    <2>1. CASE s # p
      <3>1. calls'[s] = calls[s]
        BY <1>4, <2>1 DEF CallStep
      <3>2. QED
        BY <1>1, <1>7, <3>1 DEF ParkedAtEnd
    <2>2. CASE s = p
      <3>1. PICK d \in Parked : d.kind = c.kind /\ d.vnode = c.vnode
                                 /\ calls' = [calls EXCEPT ![p] = d]
        BY <1>4, <1>7, <2>2 DEF CallStep
      <3>2. calls'[s] = d
        BY <1>4, <2>2, <3>1
      <3>3. QED
        BY <3>1, <3>2
    <2>3. QED
      BY <2>1, <2>2
  <1>8. ParkedAtEnd'
    BY <1>7 DEF ParkedAtEnd
  <1>9. NothingDangles' /\ OneHolder'
    BY <1>1 DEF NothingDangles, OneHolder
  <1>10. QED
    BY <1>2, <1>3, <1>6, <1>8, <1>9 DEF VfsInv

-----------------------------------------------------------------------------
(* The calls that wait for nothing keep the pipes and the parked calls;    *)
(* it is left to show what they do to the tables.                          *)
LEMMA QuietKeeps ==
    ASSUME VfsInv, PipeStep, calls' = calls, VnodesKept, NewVnodesGood,
           VfsType', NothingDangles', OneHolder'
    PROVE  VfsInv'
  <1>1. PipeInv' /\ \A q \in PipeId : pipes[q].in_use => pipes'[q].in_use
    BY PipeStepKeeps DEF VfsInv
  <1>2. EndsAreGood'
    BY <1>1, EndsKept DEF VfsInv
  <1>3. ParkedAtEnd'
    BY ParkedKept DEF VfsInv
  <1>4. QED
    BY <1>1, <1>2, <1>3 DEF VfsInv

(* The table with one more descriptor for one vnode. *)
LEMMA OneInstalled ==
    ASSUME VfsInv, NEW v \in Nat, v = Console \/ v = Len(vnodes) + 1,
           VnodesKept, NewVnodesGood, v <= Len(vnodes'),
           \A x \in 1..Len(vnodes) : vnodes'[x] = vnodes[x], dups' = dups,
           NEW m \in Fd, fd_table' = [fd_table EXCEPT ![m] = v]
    PROVE  /\ fd_table' \in [Fd -> 0..Len(vnodes')]
           /\ NothingDangles' /\ OneHolder'
  <1>1. VfsType /\ EndsAreGood /\ NothingDangles /\ OneHolder
    BY DEF VfsInv
  <1>2. /\ Len(vnodes) \in Nat /\ Len(vnodes') \in Nat /\ Len(vnodes) <= Len(vnodes')
        /\ fd_table \in [Fd -> 0..Len(vnodes)]
    BY <1>1, Lengths, LenProperties DEF VnodesKept, VfsType
  <1>3. \A d \in Fd : fd_table[d] \in 0..Len(vnodes) /\ fd_table[d] \in 0..Len(vnodes')
    BY <1>2
  <1>4. v \in 0..Len(vnodes')
    BY <1>2
  <1>5. \A d \in Fd : fd_table'[d] = IF d = m THEN v ELSE fd_table[d]
    BY <1>2
  <1>6. fd_table' \in [Fd -> 0..Len(vnodes')]
    BY <1>2, <1>3, <1>4, <1>5
  <1>7. \A d \in Fd : \/ fd_table'[d] = fd_table[d]
                      \/ fd_table'[d] = Console
                      \/ fd_table'[d] > Len(vnodes)
    BY <1>2, <1>5
  <1>8. \A d \in Fd : d # m => ~(fd_table'[d] > Len(vnodes))
    BY <1>2, <1>3, <1>5
  <1>9. \A d, e \in Fd : d # e /\ fd_table'[d] = fd_table'[e] /\ fd_table'[d] > Len(vnodes)
                            => vnodes'[fd_table'[d]].kind # "file"
    BY <1>8
  <1>10. QED
    BY <1>1, <1>6, <1>7, <1>9, TableKept

(* vfs_open *)
LEMMA OpenKeeps ==
    ASSUME VfsInv, NEW p \in Proc, vfs_open(p) PROVE VfsInv'
  <1>1. VfsType /\ EndsAreGood /\ NothingDangles /\ OneHolder
    BY DEF VfsInv
  <1>2. PICK v \in {Console} \cup ((Len(vnodes) + 1)..MaxVnodes) :
           /\ v <= Len(vnodes) + 1
           /\ vnodes' = IF v = Console THEN vnodes ELSE MakeVnode("file", 0)
           /\ IF Unused = {}
              THEN UNCHANGED tableVars
              ELSE /\ fd_table' = vfs_install_fd(fd_table, v)
                   /\ fd_offset' = [fd_offset EXCEPT ![Min(Unused)] = 0]
    BY DEF vfs_open
  <1>3. /\ pipes' = pipes /\ written' = written /\ calls' = calls /\ gone' = gone
        /\ dups' = dups
    BY DEF vfs_open, pipeVars
  <1>4. /\ Len(vnodes) \in Nat /\ Len(vnodes) >= 1
        /\ fd_table \in [Fd -> 0..Len(vnodes)] /\ fd_offset \in [Fd -> 0..1]
    BY <1>1, Lengths DEF VfsType
  <1>5. v = Console \/ v = Len(vnodes) + 1
    BY <1>2, <1>4, VfsAssumption
  <1>6. v \in Nat
    BY <1>4, <1>5 DEF Console
  <1>7. /\ VnodesKept /\ NewVnodesGood /\ v <= Len(vnodes')
        /\ \A x \in 1..Len(vnodes) : vnodes'[x] = vnodes[x]
    <2>1. CASE v = Console
      <3>1. vnodes' = vnodes
        BY <1>2, <2>1
      <3>2. VnodesKept /\ NewVnodesGood /\ \A x \in 1..Len(vnodes) : vnodes'[x] = vnodes[x]
        BY <1>1, <3>1, SameVnodes
      <3>3. QED
        BY <1>4, <2>1, <3>1, <3>2 DEF Console
    <2>2. CASE v # Console
      <3> DEFINE x == [kind |-> "file", pipe |-> 0, live |-> TRUE]
      <3>1. vnodes' = Append(vnodes, x)
        BY <1>2, <2>2 DEF MakeVnode
      <3>2. x \in Vnode /\ x.live /\ x.kind \notin {"read", "write"}
        BY PipeAssumption DEF Vnode
      <3> HIDE DEF x
      <3>3. /\ VnodesKept /\ NewVnodesGood /\ Len(vnodes') = Len(vnodes) + 1
            /\ \A y \in 1..Len(vnodes) : vnodes'[y] = vnodes[y]
        BY <1>1, <3>1, <3>2, OneMore
      <3>4. QED
        BY <1>4, <1>5, <2>2, <3>3
    <2>3. QED
      BY <2>1, <2>2
  <1>8. VfsType' /\ NothingDangles' /\ OneHolder'
    <2>1. CASE Unused = {}
      <3>1. fd_table' = fd_table /\ fd_offset' = fd_offset
        BY <1>2, <2>1 DEF tableVars
      <3>2. Len(vnodes') \in Nat /\ Len(vnodes) <= Len(vnodes') /\ vnodes' \in Seq(Vnode)
        BY <1>7, LenProperties DEF VnodesKept
      <3>3. \A d \in Fd : fd_table[d] \in 0..Len(vnodes) /\ fd_table[d] \in 0..Len(vnodes')
                          /\ ~(fd_table[d] > Len(vnodes))
        BY <1>4, <3>2
      <3>4. fd_table' \in [Fd -> 0..Len(vnodes')]
        BY <1>4, <3>1, <3>3
      <3>5. NothingDangles' /\ OneHolder'
        BY <1>1, <1>3, <1>7, <3>1, <3>3, <3>4, TableKept
      <3>6. QED
        BY <1>1, <1>3, <3>1, <3>2, <3>4, <3>5 DEF VfsType
    <2>2. CASE Unused # {}
      <3>1. PICK m \in FreeFd : /\ m \in Fd /\ m = Min({fd \in FreeFd : fd_table[fd] = 0})
                                /\ vfs_install_fd(fd_table, v) = [fd_table EXCEPT ![m] = v]
        BY <1>4, <2>2, InstallAt DEF Unused
      <3>2. fd_table' = [fd_table EXCEPT ![m] = v] /\ fd_offset' = [fd_offset EXCEPT ![m] = 0]
        BY <1>2, <2>2, <3>1 DEF Unused
      <3>3. fd_table' \in [Fd -> 0..Len(vnodes')] /\ NothingDangles' /\ OneHolder'
        BY <1>3, <1>5, <1>6, <1>7, <3>1, <3>2, OneInstalled
      <3>4. fd_offset' \in [Fd -> 0..1]
        <4>1. 0 \in 0..1
          OBVIOUS
        <4>2. QED
          BY <1>4, <3>2, <4>1
      <3>5. QED
        BY <1>1, <1>3, <1>7, <3>3, <3>4 DEF VfsType, VnodesKept
    <2>3. QED
      BY <2>1, <2>2
  <1>9. PipeStep
    BY <1>3 DEF PipeStep
  <1>10. QED
    BY <1>3, <1>7, <1>8, <1>9, QuietKeeps

(* vfs_close: a file that is released was held by this descriptor only. *)
LEMMA CloseKeeps ==
    ASSUME VfsInv, NEW p \in Proc, NEW fd \in Fd, vfs_close(p, fd) PROVE VfsInv'
  <1>1. VfsType /\ EndsAreGood /\ NothingDangles /\ OneHolder
    BY DEF VfsInv
  <1>2. /\ fd_table[fd] # 0 /\ fd_table' = [fd_table EXCEPT ![fd] = 0]
        /\ fd_offset' = [fd_offset EXCEPT ![fd] = 0]
        /\ vnodes' = vnode_release(fd_table[fd])
        /\ pipes' = pipes /\ written' = written /\ calls' = calls /\ gone' = gone
        /\ dups' = dups
    BY DEF vfs_close, Holds, pipeVars
  <1>3. /\ Len(vnodes) \in Nat /\ vnodes \in Seq(Vnode)
        /\ fd_table \in [Fd -> 0..Len(vnodes)] /\ fd_offset \in [Fd -> 0..1]
    BY <1>1, Lengths DEF VfsType
  <1>4. PICK v \in 1..Len(vnodes) : v = fd_table[fd]
    <2>1. fd_table[fd] \in 0..Len(vnodes)
      BY <1>3
    <2>2. fd_table[fd] \in 1..Len(vnodes)
      BY <1>2, <1>3, <2>1
    <2>3. QED
      BY <2>2
  <1>5. /\ vnodes' \in Seq(Vnode) /\ Len(vnodes') = Len(vnodes)
        /\ \A x \in 1..Len(vnodes) :
              /\ vnodes'[x].kind = vnodes[x].kind /\ vnodes'[x].pipe = vnodes[x].pipe
              /\ vnodes'[x].live = vnodes[x].live \/ (x = v /\ vnodes[x].kind = "file")
    <2>1. CASE vnodes[v].kind = "file"
      <3> DEFINE y == [vnodes[v] EXCEPT !.live = FALSE]
      <3>1. vnodes[v] \in Vnode
        BY <1>3, ElementOfSeq
      <3>2. y \in Vnode /\ y.kind = vnodes[v].kind /\ y.pipe = vnodes[v].pipe
        BY <3>1 DEF Vnode
      <3>3. vnodes' = [vnodes EXCEPT ![v] = y]
        BY <1>2, <1>4, <2>1 DEF vnode_release
      <3> HIDE DEF y
      <3>4. /\ vnodes' \in Seq(Vnode) /\ Len(vnodes') = Len(vnodes)
            /\ \A x \in 1..Len(vnodes) : vnodes'[x] = IF x = v THEN y ELSE vnodes[x]
        BY <1>3, <3>2, <3>3, ExceptSeq
      <3>5. QED
        BY <2>1, <3>2, <3>4
    <2>2. CASE vnodes[v].kind # "file"
      BY <1>2, <1>3, <1>4, <2>2 DEF vnode_release
    <2>3. QED
      BY <2>1, <2>2
  <1>6. VnodesKept
    <2>1. Len(vnodes) <= Len(vnodes')
      BY <1>3, <1>5
    <2>2. QED
      BY <1>5, <2>1 DEF VnodesKept
  <1>7. NewVnodesGood
    <2>1. (Len(vnodes) + 1)..Len(vnodes') = {}
      BY <1>3, <1>5
    <2>2. QED
      BY <2>1 DEF NewVnodesGood
  <1>8. VfsType'
    <2>1. 0 \in 0..Len(vnodes)
      BY <1>3
    <2>2. fd_table' \in [Fd -> 0..Len(vnodes')] /\ fd_offset' \in [Fd -> 0..1]
      BY <1>2, <1>3, <1>5, <2>1
    <2>3. QED
      BY <1>1, <1>2, <1>5, <2>2 DEF VfsType
  <1>9. ASSUME dups = 0 PROVE
           /\ \A d \in Fd : fd_table'[d] # 0 => vnodes'[fd_table'[d]].live
           /\ \A d, e \in Fd : d # e /\ fd_table'[d] # 0 /\ fd_table'[d] = fd_table'[e]
                 => vnodes'[fd_table'[d]].kind # "file"
    <2>1. \A d \in Fd : fd_table'[d] = IF d = fd THEN 0 ELSE fd_table[d]
      BY <1>2, <1>3
    <2>2. \A d \in Fd : fd_table[d] # 0 => fd_table[d] \in 1..Len(vnodes)
      <3>1. \A d \in Fd : fd_table[d] \in 0..Len(vnodes)
        BY <1>3
      <3>2. QED
        BY <1>3, <3>1
    <2>3. ASSUME NEW d \in Fd, fd_table'[d] # 0
          PROVE  vnodes'[fd_table'[d]].live
      <3>1. fd_table'[d] = fd_table[d] /\ d # fd
        BY <2>1, <2>3
      <3>2. PICK x \in 1..Len(vnodes) : x = fd_table[d]
        BY <2>2, <2>3, <3>1
      <3>3. vnodes[x].live
        BY <1>1, <1>9, <2>3, <3>1, <3>2 DEF NothingDangles
      <3>4. x = v => vnodes[x].kind # "file"
        BY <1>1, <1>4, <1>9, <2>3, <3>1, <3>2 DEF OneHolder
      <3>5. vnodes'[x].live
        BY <1>5, <3>3, <3>4
      <3>6. QED
        BY <3>1, <3>2, <3>5
    <2>4. ASSUME NEW d \in Fd, NEW e \in Fd, d # e, fd_table'[d] # 0, fd_table'[d] = fd_table'[e]
          PROVE  vnodes'[fd_table'[d]].kind # "file"
      <3>1. fd_table'[d] = fd_table[d] /\ fd_table'[e] = fd_table[e]
        BY <2>1, <2>4
      <3>2. PICK x \in 1..Len(vnodes) : x = fd_table[d]
        BY <2>2, <2>4, <3>1
      <3>3. vnodes[x].kind # "file"
        BY <1>1, <1>9, <2>4, <3>1, <3>2 DEF OneHolder
      <3>4. vnodes'[x].kind # "file"
        BY <1>5, <3>3
      <3>5. QED
        BY <3>1, <3>2, <3>4
    <2>5. QED
      BY <2>3, <2>4
  <1>10. NothingDangles' /\ OneHolder'
    BY <1>2, <1>9 DEF NothingDangles, OneHolder
  <1>11. PipeStep
    BY <1>2 DEF PipeStep
  <1>12. QED
    BY <1>2, <1>6, <1>7, <1>8, <1>10, <1>11, QuietKeeps

(* sys_pipe: a pipe, its two ends, and up to two descriptors. *)
LEMMA PipeKeeps ==
    ASSUME VfsInv, NEW p \in Proc, sys_pipe(p) PROVE VfsInv'
  <1>1. PipeInv /\ VfsType /\ EndsAreGood /\ NothingDangles /\ OneHolder
    BY DEF VfsInv
  <1> DEFINE q == Min(FreePipes)
             r == Len(vnodes) + 1
             x == [kind |-> "read", pipe |-> q, live |-> TRUE]
             y == [kind |-> "write", pipe |-> q, live |-> TRUE]
             one == vfs_install_fd(fd_table, r)
             both == vfs_install_fd(one, r + 1)
             mid == Append(vnodes, x)
  <1>2. /\ FreePipes # {}
        /\ pipes' = [pipes EXCEPT ![q] = Emptied(TRUE)] /\ written' = written
        /\ vnodes' = Append(mid, y)
        /\ fd_table' = CASE Unused = {}             -> fd_table
                         [] Cardinality(Unused) = 1 -> one
                         [] OTHER                   -> both
        /\ fd_offset' = [fd \in Fd |-> IF fd_table'[fd] # fd_table[fd] THEN 0 ELSE fd_offset[fd]]
        /\ calls' = calls /\ gone' = gone /\ dups' = dups
    BY DEF sys_pipe, pipe_create, MakeVnode
  <1>3. /\ Len(vnodes) \in Nat /\ vnodes \in Seq(Vnode) /\ Len(vnodes) >= 1
        /\ fd_table \in [Fd -> 0..Len(vnodes)] /\ fd_offset \in [Fd -> 0..1]
    BY <1>1, Lengths DEF VfsType
  <1>4. q \in FreePipes /\ q \in PipeId /\ q \in 0..MaxPipes
    <2>1. FreePipes \in SUBSET Nat /\ FreePipes \subseteq PipeId
      BY DEF FreePipes, PipeId
    <2>2. q \in FreePipes
      BY <1>2, <2>1, MinIn
    <2> HIDE DEF q
    <2>3. q \in 1..MaxPipes /\ MaxPipes \in Nat
      BY <2>1, <2>2, PipeAssumption DEF PipeId
    <2>4. QED
      BY <2>1, <2>2, <2>3
  <1>5. Created /\ PipeStep
    BY <1>2, <1>4 DEF Created, PipeStep
  <1>6. pipes'[q].in_use
    <2>1. pipes \in [PipeId -> Ring]
      BY <1>1 DEF PipeInv
    <2>2. QED
      BY <1>2, <1>4, <2>1, EmptiedRing
  <1>7. /\ x \in Vnode /\ x.live /\ x.kind = "read" /\ x.pipe = q
        /\ y \in Vnode /\ y.live /\ y.kind = "write" /\ y.pipe = q
    BY <1>4 DEF Vnode
  <1> HIDE DEF x, y, q
  <1>8. /\ vnodes' \in Seq(Vnode) /\ Len(vnodes') = r + 1
        /\ \A v \in 1..Len(vnodes) : vnodes'[v] = vnodes[v]
        /\ vnodes'[r] = x /\ vnodes'[r + 1] = y
    <2>1. /\ mid \in Seq(Vnode) /\ Len(mid) = r /\ mid[r] = x
          /\ \A v \in 1..Len(vnodes) : mid[v] = vnodes[v]
      BY <1>3, <1>7
    <2> HIDE DEF mid
    <2>2. /\ vnodes' \in Seq(Vnode) /\ Len(vnodes') = Len(mid) + 1
          /\ vnodes'[Len(mid) + 1] = y /\ \A v \in 1..Len(mid) : vnodes'[v] = mid[v]
      BY <1>2, <1>7, <2>1
    <2>3. r \in 1..Len(mid) /\ \A v \in 1..Len(vnodes) : v \in 1..Len(mid)
      BY <1>3, <2>1
    <2>4. QED
      BY <2>1, <2>2, <2>3
  <1> HIDE DEF mid
  <1>9. VnodesKept
    <2>1. Len(vnodes) <= Len(vnodes')
      BY <1>3, <1>8
    <2>2. QED
      BY <1>8, <2>1 DEF VnodesKept
  <1>10. \A v \in (Len(vnodes) + 1)..Len(vnodes') : vnodes'[v] = x \/ vnodes'[v] = y
    <2>1. \A v \in (Len(vnodes) + 1)..Len(vnodes') : v = r \/ v = r + 1
      BY <1>3, <1>8
    <2>2. QED
      BY <1>8, <2>1
  <1>11. NewVnodesGood
    BY <1>4, <1>6, <1>7, <1>10 DEF NewVnodesGood
  <1>12. /\ fd_table' \in [Fd -> 0..Len(vnodes')]
         /\ \A d \in Fd : fd_table'[d] = fd_table[d] \/ fd_table'[d] > Len(vnodes)
    <2>1. \A d \in Fd : fd_table[d] \in 0..Len(vnodes) /\ fd_table[d] \in 0..(r + 1)
      BY <1>3
    <2>2. CASE Unused = {}
      <3>1. fd_table' = fd_table
        BY <1>2, <2>2, FS_EmptySet
      <3>2. QED
        BY <1>3, <1>8, <2>1, <3>1
    <2>3. ASSUME Unused # {}
          PROVE  \E m \in FreeFd : /\ m \in Fd /\ one = [fd_table EXCEPT ![m] = r]
                                   /\ fd_table[m] = 0 /\ m \in Unused
      <3>1. {fd \in FreeFd : fd_table[fd] = 0} # {}
        BY <2>3 DEF Unused
      <3>2. QED
        BY <1>3, <3>1, InstallAt DEF Unused
    <2>4. CASE Unused # {} /\ Cardinality(Unused) = 1
      <3>1. fd_table' = one
        BY <1>2, <2>4
      <3>2. PICK m \in FreeFd : m \in Fd /\ one = [fd_table EXCEPT ![m] = r]
        BY <2>3, <2>4
      <3> HIDE DEF one
      <3>3. \A d \in Fd : fd_table'[d] = IF d = m THEN r ELSE fd_table[d]
        BY <1>3, <3>1, <3>2
      <3>4. r \in 0..(r + 1) /\ r > Len(vnodes)
        BY <1>3
      <3>5. fd_table' \in [Fd -> 0..(r + 1)]
        BY <1>3, <2>1, <3>1, <3>2, <3>4
      <3>6. QED
        BY <1>8, <3>3, <3>4, <3>5
    <2>5. CASE Unused # {} /\ Cardinality(Unused) # 1
      <3>1. fd_table' = both
        BY <1>2, <2>5
      <3>2. PICK m \in FreeFd : m \in Fd /\ one = [fd_table EXCEPT ![m] = r] /\ m \in Unused
        BY <2>3, <2>5
      <3> HIDE DEF one
      <3>3. \A d \in Fd : one[d] = IF d = m THEN r ELSE fd_table[d]
        BY <1>3, <3>2
      <3>4. /\ r \in 0..(r + 1) /\ r > Len(vnodes) /\ r + 1 \in 0..(r + 1)
            /\ r + 1 > Len(vnodes) /\ r + 1 \in Nat
        BY <1>3
      <3>5. one \in [Fd -> 0..(r + 1)]
        BY <1>3, <2>1, <3>2, <3>4
      <3>6. PICK e \in Unused : e # m
        <4>1. Unused # {m}
          BY <2>5, FS_Singleton
        <4>2. QED
          BY <3>2, <4>1
      <3>7. e \in FreeFd /\ e \in Fd /\ one[e] = 0
        <4>1. e \in FreeFd /\ fd_table[e] = 0
          BY DEF Unused
        <4>2. e \in Fd
          BY <4>1 DEF FreeFd, Fd
        <4>3. QED
          BY <3>3, <3>6, <4>1, <4>2
      <3>8. {fd \in FreeFd : one[fd] = 0} # {}
        BY <3>7
      <3>9. PICK k \in FreeFd : k \in Fd /\ both = [one EXCEPT ![k] = r + 1]
        BY <3>4, <3>5, <3>8, InstallAt
      <3> HIDE DEF both
      <3>10. \A d \in Fd : fd_table'[d] = IF d = k THEN r + 1 ELSE one[d]
        BY <3>1, <3>5, <3>9
      <3>11. fd_table' \in [Fd -> 0..(r + 1)]
        BY <3>1, <3>4, <3>5, <3>9
      <3>12. QED
        BY <1>8, <3>3, <3>4, <3>10, <3>11
    <2>6. QED
      BY <2>2, <2>4, <2>5
  <1> HIDE DEF one, both
  <1>13. \A d, e \in Fd : d # e /\ fd_table'[d] = fd_table'[e] /\ fd_table'[d] > Len(vnodes)
                             => vnodes'[fd_table'[d]].kind # "file"
    <2> SUFFICES ASSUME NEW d \in Fd, fd_table'[d] > Len(vnodes)
                 PROVE  vnodes'[fd_table'[d]].kind # "file"
      OBVIOUS
    <2>1. fd_table'[d] \in (Len(vnodes) + 1)..Len(vnodes')
      <3>1. fd_table'[d] \in 0..Len(vnodes') /\ Len(vnodes') \in Nat
        BY <1>3, <1>8, <1>12
      <3>2. QED
        BY <1>3, <3>1
    <2>2. QED
      BY <1>7, <1>10, <2>1
  <1>14. NothingDangles' /\ OneHolder'
    BY <1>1, <1>2, <1>8, <1>9, <1>11, <1>12, <1>13, TableKept
  <1>15. VfsType'
    <2>1. 0 \in 0..1
      OBVIOUS
    <2>2. fd_offset' \in [Fd -> 0..1]
      BY <1>2, <1>3, <2>1
    <2>3. QED
      BY <1>1, <1>2, <1>8, <1>12, <2>2 DEF VfsType
  <1>16. QED
    BY <1>2, <1>5, <1>9, <1>11, <1>14, <1>15, QuietKeeps

(* dup and dup2: from then on a descriptor may dangle. *)
LEMMA DupKeeps ==
    ASSUME VfsInv, NEW m \in Fd, NEW old \in Fd, fd_table' = [fd_table EXCEPT ![m] = fd_table[old]],
           fd_offset' = [fd_offset EXCEPT ![m] = 0], dups' = dups + 1,
           UNCHANGED <<pipeVars, vnodes, calls, gone>>
    PROVE  VfsInv'
  <1>1. VfsType /\ EndsAreGood
    BY DEF VfsInv
  <1>2. /\ fd_table \in [Fd -> 0..Len(vnodes)] /\ fd_offset \in [Fd -> 0..1] /\ dups \in Nat
        /\ pipes' = pipes /\ written' = written /\ vnodes' = vnodes /\ calls' = calls
        /\ gone' = gone /\ 0 \in 0..1
    BY <1>1 DEF VfsType, pipeVars
  <1>3. /\ fd_table' \in [Fd -> 0..Len(vnodes)] /\ fd_offset' \in [Fd -> 0..1]
        /\ dups' \in Nat /\ dups' # 0
    BY <1>2
  <1>4. VfsType' /\ NothingDangles' /\ OneHolder'
    BY <1>1, <1>2, <1>3 DEF VfsType, NothingDangles, OneHolder
  <1>5. VnodesKept /\ NewVnodesGood
    BY <1>1, <1>2, SameVnodes
  <1>6. QED
    BY <1>2, <1>4, <1>5, QuietKeeps DEF PipeStep

(* vfs_lseek, and the end of a process. *)
LEMMA OffsetKeeps ==
    ASSUME VfsInv, fd_offset' \in [Fd -> 0..1], gone' \subseteq Proc,
           UNCHANGED <<pipeVars, fd_table, vnodes, calls, dups>>
    PROVE  VfsInv'
  <1>1. VfsType /\ EndsAreGood /\ NothingDangles /\ OneHolder
    BY DEF VfsInv
  <1>2. /\ pipes' = pipes /\ written' = written /\ vnodes' = vnodes /\ calls' = calls
        /\ fd_table' = fd_table /\ dups' = dups
    BY DEF pipeVars
  <1>3. VfsType' /\ NothingDangles' /\ OneHolder'
    BY <1>1, <1>2 DEF VfsType, NothingDangles, OneHolder
  <1>4. VnodesKept /\ NewVnodesGood
    BY <1>1, <1>2, SameVnodes
  <1>5. QED
    BY <1>2, <1>3, <1>4, QuietKeeps DEF PipeStep

(* Reading and writing files: the call returns at once. *)
LEMMA FileKeeps ==
    ASSUME VfsInv, NEW p \in Proc, NEW c, c.fd \in Fd, NEW k, calls[p] = Idle, Finish(p, c, k),
           UNCHANGED <<pipeVars, fd_table, vnodes, gone, dups>>
    PROVE  VfsInv'
  <1>1. VfsType
    BY DEF VfsInv
  <1>2. calls' = [calls EXCEPT ![p] = Idle] /\ fd_offset' \in [Fd -> 0..1]
    BY <1>1, FinishIs
  <1>3. calls' = calls
    BY <1>1, <1>2 DEF VfsType
  <1>4. gone' \subseteq Proc
    BY <1>1 DEF VfsType
  <1>5. QED
    BY <1>2, <1>3, <1>4, OffsetKeeps

(* A new call on an end of a pipe works on that end. *)
LEMMA CallAtEnd ==
    ASSUME VfsInv, NEW fd \in Fd, NEW kind \in {"read", "write"}, fd_table[fd] # 0,
           vnodes[fd_table[fd]].kind = kind, NEW n \in Nat \ {0}
    PROVE  AtEnd(Call(kind, fd, n), kind)
  <1>1. VfsType /\ EndsAreGood
    BY DEF VfsInv
  <1>2. Len(vnodes) \in Nat /\ fd_table[fd] \in 0..Len(vnodes)
    BY <1>1, Lengths DEF VfsType
  <1>3. PICK v \in Nat : v = fd_table[fd] /\ v \in 1..Len(vnodes)
    BY <1>2
  <1> DEFINE c == [kind |-> kind, fd |-> fd, vnode |-> v, left |-> n, moved |-> 0]
  <1>4. c \in Parked /\ c.kind = kind /\ c.vnode = v
    BY DEF Parked
  <1>5. Call(kind, fd, n) = c
    BY <1>3 DEF Call
  <1> HIDE DEF c
  <1>6. vnodes[v].kind = kind
    BY <1>3
  <1>7. QED
    BY <1>3, <1>4, <1>5, <1>6 DEF AtEnd

-----------------------------------------------------------------------------
(* The system starts with empty pipes and three descriptors of the console. *)
LEMMA InitVfsInv == VfsInit => VfsInv
  <1> SUFFICES ASSUME VfsInit PROVE VfsInv
    OBVIOUS
  <1>1. PipeInv
    <2>1. /\ pipes = [p \in PipeId |-> Emptied(FALSE)] /\ written = [p \in PipeId |-> 0]
      BY DEF VfsInit, PipeInit
    <2>2. RingOk(Emptied(FALSE)) /\ Emptied(FALSE) \in Ring
      BY EmptiedRing DEF RingOk
    <2>3. QED
      BY <2>1, <2>2 DEF PipeInv
  <1> DEFINE x == [kind |-> "console", pipe |-> 0, live |-> TRUE]
  <1>2. /\ x \in Vnode /\ x.kind = "console" /\ x.live
    BY PipeAssumption DEF Vnode
  <1>3. vnodes = <<x>>
    BY DEF VfsInit
  <1> HIDE DEF x
  <1>4. /\ vnodes \in Seq(Vnode) /\ Len(vnodes) = 1 /\ vnodes[1] = x
    BY <1>2, <1>3
  <1>5. /\ fd_table \in [Fd -> 0..1] /\ \A fd \in Fd : fd_table[fd] \in {0, 1}
    BY DEF VfsInit, Console
  <1>6. VfsType
    BY <1>4, <1>5 DEF VfsInit, VfsType
  <1>7. \A v \in 1..Len(vnodes) : vnodes[v] = x
    BY <1>4
  <1>8. 1 \in 1..Len(vnodes)
    BY <1>4
  <1>9. EndsAreGood
    BY <1>2, <1>4, <1>7, <1>8 DEF EndsAreGood
  <1>10. ParkedAtEnd
    BY DEF ParkedAtEnd, VfsInit
  <1>11. \A fd \in Fd : fd_table[fd] # 0 => vnodes[fd_table[fd]] = x
    BY <1>4, <1>5
  <1>12. NothingDangles /\ OneHolder
    BY <1>2, <1>11 DEF NothingDangles, OneHolder
  <1>13. QED
    BY <1>1, <1>6, <1>9, <1>10, <1>12 DEF VfsInv

(* What a step does to the pipes, and that it keeps the invariant. *)
LEMMA VfsStep ==
    ASSUME VfsInv, [VfsNext]_vfsVars
    PROVE  VfsInv' /\ PipeStep
  <1>1. PipeInv /\ VfsType /\ EndsAreGood /\ ParkedAtEnd
    BY DEF VfsInv
  <1>2. CASE UNCHANGED vfsVars
    <2>1. /\ UNCHANGED <<pipeVars, fd_table, vnodes, calls, dups>>
          /\ fd_offset' = fd_offset /\ gone' = gone
      BY <1>2 DEF vfsVars, tableVars
    <2>2. fd_offset' \in [Fd -> 0..1] /\ gone' \subseteq Proc
      BY <1>1, <2>1 DEF VfsType
    <2>3. QED
      BY <2>1, <2>2, OffsetKeeps DEF PipeStep, pipeVars
  <1>3. ASSUME NEW p \in Proc, vfs_open(p) PROVE VfsInv' /\ PipeStep
    BY <1>3, OpenKeeps DEF vfs_open, PipeStep, pipeVars
  <1>4. ASSUME NEW p \in Proc, sys_pipe(p) PROVE VfsInv' /\ PipeStep
    <2>1. FreePipes \in SUBSET Nat /\ FreePipes # {}
      BY <1>4 DEF FreePipes, PipeId, sys_pipe
    <2>2. Min(FreePipes) \in FreePipes
      BY <2>1, MinIn
    <2>3. Created
      BY <1>4, <2>2 DEF sys_pipe, pipe_create, Created
    <2>4. QED
      BY <1>4, <2>3, PipeKeeps DEF PipeStep
  <1>5. ASSUME NEW p \in Proc, Turn(p) PROVE VfsInv' /\ PipeStep
    <2>1. vnodes' = vnodes /\ fd_table' = fd_table /\ dups' = dups /\ gone' = gone
      BY <1>5 DEF Turn
    <2>2. CASE calls[p].kind = "read" /\ pipe_read(p, calls[p])
      <3>1. calls[p] # Idle
        BY <2>2 DEF Idle
      <3>2. PICK c \in Parked : c = calls[p]
        BY <1>1, <3>1 DEF VfsType
      <3>3. AtEnd(c, "read")
        BY <1>1, <2>2, <3>1, <3>2 DEF AtEnd, ParkedAtEnd
      <3>4. pipe_read(p, c)
        BY <2>2, <3>2
      <3>5. PipeStep /\ CallStep(p, c)
        BY <3>3, <3>4, ReadStep
      <3>6. c.vnode \in 1..Len(vnodes) /\ vnodes[c.vnode].kind = c.kind
        BY <3>3 DEF AtEnd
      <3>7. QED
        BY <2>1, <3>5, <3>6, CallStepKeeps
    <2>3. CASE calls[p].kind = "write" /\ pipe_write(p, calls[p])
      <3>1. calls[p] # Idle
        BY <2>3 DEF Idle
      <3>2. PICK c \in Parked : c = calls[p]
        BY <1>1, <3>1 DEF VfsType
      <3>3. AtEnd(c, "write")
        BY <1>1, <2>3, <3>1, <3>2 DEF AtEnd, ParkedAtEnd
      <3>4. pipe_write(p, c)
        BY <2>3, <3>2
      <3>5. PipeStep /\ CallStep(p, c)
        BY <3>3, <3>4, WriteStep
      <3>6. c.vnode \in 1..Len(vnodes) /\ vnodes[c.vnode].kind = c.kind
        BY <3>3 DEF AtEnd
      <3>7. QED
        BY <2>1, <3>5, <3>6, CallStepKeeps
    <2>4. QED
      BY <1>5, <2>2, <2>3 DEF Turn
  <1>6. ASSUME NEW p \in Proc, Die(p) PROVE VfsInv' /\ PipeStep
    <2>1. UNCHANGED <<pipeVars, fd_table, vnodes, calls, dups>> /\ fd_offset' = fd_offset
      BY <1>6 DEF Die, tableVars
    <2>2. fd_offset' \in [Fd -> 0..1] /\ gone' \subseteq Proc
      BY <1>1, <1>6, <2>1 DEF VfsType, Die
    <2>3. QED
      BY <2>1, <2>2, OffsetKeeps DEF PipeStep, pipeVars
  <1>7. ASSUME NEW p \in Proc, NEW fd \in Fd, vfs_close(p, fd) PROVE VfsInv' /\ PipeStep
    BY <1>7, CloseKeeps DEF vfs_close, PipeStep, pipeVars
  <1>8. ASSUME NEW p \in Proc, NEW fd \in Fd, vfs_lseek(p, fd) PROVE VfsInv' /\ PipeStep
    <2>1. UNCHANGED <<pipeVars, fd_table, vnodes, calls, dups>> /\ gone' = gone
      BY <1>8 DEF vfs_lseek
    <2>2. fd_offset' \in [Fd -> 0..1] /\ gone' \subseteq Proc
      BY <1>1, <1>8, <2>1 DEF VfsType, vfs_lseek
    <2>3. QED
      BY <2>1, <2>2, OffsetKeeps DEF PipeStep, pipeVars
  <1>9. ASSUME NEW p \in Proc, NEW fd \in Fd, sys_read(p, fd) PROVE VfsInv' /\ PipeStep
    <2>1. /\ vnodes' = vnodes /\ fd_table' = fd_table /\ dups' = dups /\ gone' = gone
          /\ calls[p] = Idle /\ fd_table[fd] # 0
      BY <1>9 DEF sys_read, May, Holds
    <2>2. CASE Finish(p, Call("read", fd, 1), 1) /\ UNCHANGED pipeVars
      <3>1. Call("read", fd, 1).fd \in Fd
        BY DEF Call
      <3>2. QED
        BY <2>1, <2>2, <3>1, FileKeeps DEF PipeStep, pipeVars
    <2>3. ASSUME vnodes[fd_table[fd]].kind = "read", NEW n \in 1..PIPE_BUF_SIZE,
                 pipe_read(p, Call("read", fd, n))
          PROVE  VfsInv' /\ PipeStep
      <3>1. n \in Nat \ {0}
        BY PipeAssumption
      <3>2. PICK c : c = Call("read", fd, n)
        OBVIOUS
      <3>3. AtEnd(c, "read") /\ pipe_read(p, c)
        BY <2>1, <2>3, <3>1, <3>2, CallAtEnd
      <3>4. PipeStep /\ CallStep(p, c)
        BY <3>3, ReadStep
      <3>5. c.vnode \in 1..Len(vnodes) /\ vnodes[c.vnode].kind = c.kind
        BY <3>3 DEF AtEnd
      <3>6. QED
        BY <2>1, <3>4, <3>5, CallStepKeeps
    <2>4. QED
      BY <1>9, <2>2, <2>3 DEF sys_read
  <1>10. ASSUME NEW p \in Proc, NEW fd \in Fd, sys_write(p, fd) PROVE VfsInv' /\ PipeStep
    <2>1. /\ vnodes' = vnodes /\ fd_table' = fd_table /\ dups' = dups /\ gone' = gone
          /\ calls[p] = Idle /\ fd_table[fd] # 0
      BY <1>10 DEF sys_write, May, Holds
    <2>2. CASE Finish(p, Call("write", fd, 1), 1) /\ UNCHANGED pipeVars
      <3>1. Call("write", fd, 1).fd \in Fd
        BY DEF Call
      <3>2. QED
        BY <2>1, <2>2, <3>1, FileKeeps DEF PipeStep, pipeVars
    <2>3. ASSUME vnodes[fd_table[fd]].kind = "write", NEW n \in 1..(PIPE_BUF_SIZE + 1),
                 pipe_write(p, Call("write", fd, n))
          PROVE  VfsInv' /\ PipeStep
      <3>1. n \in Nat \ {0}
        BY PipeAssumption
      <3>2. PICK c : c = Call("write", fd, n)
        OBVIOUS
      <3>3. AtEnd(c, "write") /\ pipe_write(p, c)
        BY <2>1, <2>3, <3>1, <3>2, CallAtEnd
      <3>4. PipeStep /\ CallStep(p, c)
        BY <3>3, WriteStep
      <3>5. c.vnode \in 1..Len(vnodes) /\ vnodes[c.vnode].kind = c.kind
        BY <3>3 DEF AtEnd
      <3>6. QED
        BY <2>1, <3>4, <3>5, CallStepKeeps
    <2>4. QED
      BY <1>10, <2>2, <2>3 DEF sys_write
  <1>11. ASSUME NEW p \in Proc, NEW fd \in Fd, vfs_dup(p, fd) PROVE VfsInv' /\ PipeStep
    <2>1. /\ fd_table' = vfs_install_fd(fd_table, fd_table[fd])
          /\ fd_offset' = [fd_offset EXCEPT ![Min(Unused)] = 0]
          /\ dups' = dups + 1 /\ Unused # {}
          /\ UNCHANGED <<pipeVars, vnodes, calls, gone>>
      BY <1>11 DEF vfs_dup
    <2>2. Len(vnodes) \in Nat /\ fd_table \in [Fd -> 0..Len(vnodes)]
      BY <1>1, Lengths DEF VfsType
    <2>3. PICK m \in FreeFd :
             /\ m \in Fd /\ m = Min({d \in FreeFd : fd_table[d] = 0})
             /\ vfs_install_fd(fd_table, fd_table[fd]) = [fd_table EXCEPT ![m] = fd_table[fd]]
      BY <2>1, <2>2, InstallAt DEF Unused
    <2>4. /\ fd_table' = [fd_table EXCEPT ![m] = fd_table[fd]]
          /\ fd_offset' = [fd_offset EXCEPT ![m] = 0]
      BY <2>1, <2>3 DEF Unused
    <2>5. QED
      BY <2>1, <2>3, <2>4, DupKeeps DEF PipeStep, pipeVars
  <1>12. ASSUME NEW p \in Proc, NEW fd \in Fd, NEW new \in Fd, vfs_dup2(p, fd, new)
         PROVE  VfsInv' /\ PipeStep
    BY <1>12, DupKeeps DEF vfs_dup2, PipeStep, pipeVars
  <1>13. QED
    BY <1>2, <1>3, <1>4, <1>5, <1>6, <1>7, <1>8, <1>9, <1>10, <1>11, <1>12 DEF VfsNext

(* The invariant of pipes, vnodes, descriptors and parked calls. *)
THEOREM VfsInvariant == VfsSpec => []VfsInv
  BY InitVfsInv, VfsStep, PTL DEF VfsSpec

(* The vnode a parked read or write fetched before its loop is never freed *)
(* under it, whoever closes or redirects the descriptor (vfs.c:134-154).   *)
THEOREM ParkedCallsKeepTheirVnode == VfsSpec => []ParkedVnodeLives
  <1>1. VfsInv => ParkedVnodeLives
    <2> SUFFICES ASSUME VfsInv, NEW p \in Proc, calls[p] # Idle
                 PROVE  vnodes[calls[p].vnode].live
      BY DEF ParkedVnodeLives
    <2>1. calls[p] \in Parked /\ calls[p].kind \in {"read", "write"}
      BY DEF VfsInv, VfsType, Parked
    <2>2. /\ calls[p].vnode \in 1..Len(vnodes)
          /\ vnodes[calls[p].vnode].kind = calls[p].kind
      BY DEF VfsInv, ParkedAtEnd
    <2>3. vnodes[calls[p].vnode].kind # "file"
      BY <2>1, <2>2
    <2>4. QED
      BY <2>2, <2>3 DEF VfsInv, EndsAreGood
  <1>2. QED
    BY <1>1, VfsInvariant, PTL

(* Until something is duplicated, every descriptor stands for a vnode that *)
(* has not been released (vfs.c:125-132, ext2.c:588-593).                  *)
THEOREM DescriptorsDoNotDangle == VfsSpec => []NothingDangles
  BY VfsInvariant, PTL DEF VfsInv

(* Pipes are bounded queues: no byte is lost, repeated or reordered,       *)
(* however many tasks read and write (pipe.c:44-89).                       *)
THEOREM PipesImplementChannels == VfsSpec => PipesAreChannels
  <1>1. VfsInit => Channels!ChannelInit
    <2> SUFFICES ASSUME VfsInit PROVE Channels!ChannelInit
      OBVIOUS
    <2>1. pipes = [p \in PipeId |-> Emptied(FALSE)] /\ written = [p \in PipeId |-> 0]
      BY DEF VfsInit, PipeInit
    <2>2. \A p \in PipeId : Contents(p) = <<>>
      BY <2>1, ContentsAre, EmptiedRing
    <2>3. QED
      BY <2>1, <2>2 DEF Channels!ChannelInit
  <1>2. VfsInv /\ [VfsNext]_vfsVars
          => [\E c \in PipeId : Channels!Send(c) \/ Channels!Receive(c)]_(Channels!chanVars)
    <2> SUFFICES ASSUME VfsInv, [VfsNext]_vfsVars
                 PROVE  [\E c \in PipeId : Channels!Send(c) \/ Channels!Receive(c)]_(Channels!chanVars)
      OBVIOUS
    <2>1. PipeInv /\ PipeStep
      BY VfsStep DEF VfsInv
    <2>2. [\E c \in PipeId : Channels!Send(c) \/ Channels!Receive(c)]_<<Queues, written>>
      BY <2>1, PipeStepIsChannels
    <2>3. QED
      BY <2>2 DEF Queues, Channels!chanVars
  <1>3. QED
    BY <1>1, <1>2, VfsInvariant, PTL DEF VfsSpec, PipesAreChannels, Channels!ChannelSpec
=============================================================================
