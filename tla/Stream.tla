------------------------------- MODULE Stream -------------------------------
(***************************************************************************)
(* What a program expects of a file that it opens with fopen and works on  *)
(* with fread, fwrite and fseek: it reads the bytes in order from where it *)
(* stands, and what it writes is in the file in order, whatever the        *)
(* library keeps in a buffer.                                              *)
(***************************************************************************)
EXTENDS Bytes

CONSTANTS Byte,      \* what can be written
          MaxSize    \* bound: the longest file, the farthest position

VARIABLES content,   \* the file
          pos,       \* where the program stands in it
          mode,      \* "closed", "r", "w" or "a"
          req        \* the last thing done, with the bytes or the place

streamVars == <<content, pos, mode, req>>

StreamInit == content = <<>> /\ pos = 0 /\ mode = "closed" /\ req = <<"none">>

Open(m) == /\ mode' = m
           /\ content' = IF m = "w" THEN <<>> ELSE content
           /\ pos' = IF m = "a" THEN Len(content) ELSE 0
           /\ req' = <<"open", m>>

(* A stream over a descriptor that stands at position p. *)
Attach(m, p) == /\ mode = "closed" /\ mode' = m
                /\ pos' = p
                /\ req' = <<"attach", m, p>>
                /\ UNCHANGED content

Read(n) == /\ mode = "r"
           /\ pos + n <= Len(content)
           /\ pos' = pos + n
           /\ req' = <<"read", SubSeq(content, pos + 1, pos + n)>>
           /\ UNCHANGED <<content, mode>>

Write(s) == /\ mode \in {"w", "a"}
            /\ content' = Overlay(content, pos, s)
            /\ pos' = pos + Len(s)
            /\ req' = <<"write", s>>
            /\ UNCHANGED mode

(* The place that an offset d means. *)
Target(whence, d) == d + (CASE whence = "set" -> 0
                            [] whence = "cur" -> pos
                            [] OTHER -> Len(content))

Seek(whence, d) == /\ mode # "closed"
                   /\ Target(whence, d) >= 0
                   /\ pos' = Target(whence, d)
                   /\ req' = <<"seek", whence, d>>
                   /\ UNCHANGED <<content, mode>>

Close == /\ mode' = "closed"
         /\ pos' = 0
         /\ req' = <<"none">>
         /\ UNCHANGED content

StreamNext == \/ \E m \in {"r", "w", "a"} : Open(m) \/ \E p \in 0..MaxSize : Attach(m, p)
              \/ \E n \in 1..MaxSize : Read(n)
              \/ \E s \in Upto(Byte, MaxSize) : Write(s)
              \/ \E whence \in {"set", "cur", "end"}, d \in (-MaxSize)..MaxSize :
                    Seek(whence, d)
              \/ Close
=============================================================================
