------------------------------ MODULE FileBytes ------------------------------
(***************************************************************************)
(* What a file promises about its bytes.  A byte that was written is read  *)
(* back until it is written again or cut off.  Bytes that come to lie      *)
(* between the end of the file and a write, or that a truncation adds, may *)
(* have any value, but the one value until they are written.               *)
(***************************************************************************)
EXTENDS Naturals, Sequences

CONSTANTS
  Bytes,    \* the values of a byte
  Calls,    \* the requests
  NoCall,   \* the value of call before the first request
  MaxLen    \* the most bytes the file can hold

VARIABLES
  content,  \* the bytes of the file
  call,     \* the last request
  data,     \* the bytes it read
  failed    \* whether it failed

vars == <<content, call, data, failed>>

\* All contents of length n that have buf behind the first `off' bytes, and
\* elsewhere what c has.
Contents(c, n, off, buf) ==
  {d \in [1 .. n -> Bytes] :
     \A i \in 1 .. n :
       IF off < i /\ i <= off + Len(buf) THEN d[i] = buf[i - off]
       ELSE i <= Len(c) => d[i] = c[i]}

Init ==
  /\ content = <<>>
  /\ call = NoCall
  /\ data = <<>>
  /\ failed = FALSE

Answers(q, bytes, failure) ==
  /\ call' = q
  /\ data' = bytes
  /\ failed' = failure

\* A file without bytes may refuse to be read.
Read(q) ==
  /\ q.op = "read"
  /\ LET end == IF q.off + q.len < Len(content)
                THEN q.off + q.len ELSE Len(content)
     IN  \/ Answers(q, SubSeq(content, q.off + 1, end), FALSE)
         \/ content = <<>> /\ Answers(q, <<>>, TRUE)
  /\ UNCHANGED content

Write(q) ==
  LET end == q.off + Len(q.buf)
      n   == IF end > Len(content) THEN end ELSE Len(content)
  IN  /\ q.op = "write"
      /\ end <= MaxLen
      /\ content' \in Contents(content, n, q.off, q.buf)
      /\ Answers(q, <<>>, FALSE)

\* A truncation past the end adds all the bytes or none.
Truncate(q) ==
  /\ q.op = "truncate"
  /\ IF q.off <= Len(content)
     THEN content' = SubSeq(content, 1, q.off)
     ELSE \/ content' = content
          \/ q.off <= MaxLen /\ content' \in Contents(content, q.off, 0, <<>>)
  /\ Answers(q, <<>>, FALSE)

\* A request for more than a file holds fails; so may the truncation of a file
\* without bytes.  What fails changes nothing.
Refuse(q) ==
  /\ \/ q.op = "write" /\ q.off + Len(q.buf) > MaxLen
     \/ q.op = "truncate" /\ (q.off > MaxLen \/ content = <<>>)
  /\ Answers(q, <<>>, TRUE)
  /\ UNCHANGED content

Next == \E q \in Calls : Read(q) \/ Write(q) \/ Truncate(q) \/ Refuse(q)

Spec == Init /\ [][Next]_vars

=============================================================================
