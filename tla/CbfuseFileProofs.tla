--------------------------- MODULE CbfuseFileProofs ---------------------------
(***************************************************************************)
(* Proofs that data.c keeps the promises of FileBytes for files, offsets   *)
(* and lengths of any size, and that stats.c stamps a file with times      *)
(* only.                                                                   *)
(***************************************************************************)
EXTENDS CbfuseFile, SequenceTheorems, TLAPS

\* The block a file may have: none, or bytes that fit into a document.
BlockFits ==
  block \in {Absent} \cup UNION {[1 .. n -> Bytes] : n \in 0 .. MAX_DOC_LEN}

\* Every stamp is a time.
StatTyped ==
  /\ stat \in [mode : Modes, atime : Stamps, mtime : Stamps, ctime : Stamps,
               size : 0 .. MAX_FILE_LEN]
  /\ clock \in 0 .. MaxTime

-----------------------------------------------------------------------------
(***************************************************************************)
(* Buffers.                                                                *)
(***************************************************************************)

\* What malloc(n) returns is n bytes long.
LEMMA BufferLength ==
  ASSUME NEW n \in Nat, NEW d \in malloc(n)
  PROVE  d \in Seq(Bytes) /\ Len(d) = n /\ \A i \in 1 .. n : d[i] \in Bytes
<1>1. d \in Seq(Bytes)
  BY SeqDef DEF malloc
<1>2. DOMAIN d = 1 .. n
  BY DEF malloc
<1>3. Len(d) \in Nat /\ DOMAIN d = 1 .. Len(d)
  BY <1>1, LenProperties
<1> QED
  BY <1>1, <1>2, <1>3 DEF malloc

\* A block is a buffer, and fits.
LEMMA BlockLength ==
  ASSUME BlockFits, block # Absent
  PROVE  /\ Len(block) \in 0 .. MAX_DOC_LEN
         /\ block \in malloc(Len(block))
         /\ block \in Seq(Bytes)
<1>1. PICK n \in 0 .. MAX_DOC_LEN : block \in malloc(n)
  BY DEF BlockFits, malloc
<1> QED
  BY <1>1, BufferLength, DataAssumption

\* A buffer that fits is no reason to take a file for one without a block.
LEMMA StoredBlock ==
  ASSUME NEW n \in 0 .. MAX_DOC_LEN, NEW d \in malloc(n)
  PROVE  /\ d # Absent
         /\ d \in UNION {[1 .. k -> Bytes] : k \in 0 .. MAX_DOC_LEN}
BY DataAssumption DEF malloc

\* memcpy writes src where it is told to and leaves the rest of dst alone.
LEMMA MemcpyResult ==
  ASSUME NEW n \in Nat, NEW dst \in malloc(n),
         NEW off \in Nat, NEW src \in Seq(Bytes), off + Len(src) <= n
  PROVE  /\ memcpy(dst, off, src) \in malloc(n)
         /\ \A i \in 1 .. n :
              memcpy(dst, off, src)[i] =
                IF off < i /\ i <= off + Len(src) THEN src[i - off] ELSE dst[i]
<1>1. Len(dst) = n /\ \A i \in 1 .. n : dst[i] \in Bytes
  BY BufferLength
<1>2. Len(src) \in Nat
  BY LenProperties
<1>3. \A i \in off + 1 .. off + Len(src) : src[i - off] \in Bytes
  <2> TAKE i \in off + 1 .. off + Len(src)
  <2>1. i - off \in 1 .. Len(src)
    BY <1>2
  <2> QED
    BY <2>1, ElementOfSeq
<1>4. \A i \in 1 .. n : i \in off + 1 .. off + Len(src) <=>
                          off < i /\ i <= off + Len(src)
  BY <1>2
<1> QED
  BY <1>1, <1>3, <1>4 DEF memcpy, malloc

\* A slice is as long as it says.
LEMMA SliceLength ==
  ASSUME NEW s \in Seq(Bytes), NEW m \in Nat, NEW k \in Nat, m + k <= Len(s)
  PROVE  Len(SubSeq(s, m + 1, m + k)) = k
<1>1. \A i \in m + 1 .. m + k : s[i] \in Bytes
  BY LenProperties, ElementOfSeq
<1>2. m + 1 \in Int /\ m + k \in Int
  OBVIOUS
<1>3. Len(SubSeq(s, m + 1, m + k)) =
        IF m + 1 <= m + k THEN m + k - (m + 1) + 1 ELSE 0
  BY <1>1, <1>2, SubSeqProperties
<1> QED
  BY <1>3

-----------------------------------------------------------------------------
(***************************************************************************)
(* Requests: each one is the request of FileBytes of that name, or is      *)
(* refused.                                                                *)
(***************************************************************************)

\* The file's bytes are those of the block, and none if there is no block.
Content == IF block = Absent THEN <<>> ELSE block

LEMMA ReadCall ==
  ASSUME NEW q \in DataCalls, q.op = "read"
  PROVE  q.off \in Nat /\ q.len \in Nat \ {0}
BY DataAssumption DEF DataCalls, ReadCalls, WriteCalls, TruncateCalls

LEMMA WriteCall ==
  ASSUME NEW q \in DataCalls, q.op = "write"
  PROVE  q.off \in Nat /\ q.buf \in Seq(Bytes) /\ Len(q.buf) \in Nat \ {0}
<1>1. q \in WriteCalls
  BY DEF DataCalls, ReadCalls, WriteCalls, TruncateCalls
<1>2. q.off \in Nat /\ q.buf \in UNION {[1 .. n -> Bytes] : n \in Lengths}
  BY <1>1, DataAssumption DEF WriteCalls
<1>3. PICK n \in Lengths : q.buf \in malloc(n)
  BY <1>2 DEF malloc
<1> QED
  BY <1>2, <1>3, BufferLength, DataAssumption

LEMMA TruncateCall ==
  ASSUME NEW q \in DataCalls, q.op = "truncate"
  PROVE  q.off \in Nat
BY DataAssumption DEF DataCalls, ReadCalls, WriteCalls, TruncateCalls

LEMMA ReadRefines ==
  ASSUME BlockFits, NEW q \in DataCalls, read_data(q)
  PROVE  File!Read(q) /\ BlockFits'
<1>1. q.op = "read" /\ UNCHANGED block /\ q.off \in Nat /\ q.len \in Nat \ {0}
  BY ReadCall DEF read_data
<1>2. BlockFits' /\ UNCHANGED Content
  BY <1>1 DEF BlockFits, Content
<1>3. CASE block = Absent
  BY <1>1, <1>2, <1>3 DEF read_data, Returns, File!Read, File!Answers
<1>4. CASE block # Absent
  <2> DEFINE nbuf == IF q.off + q.len > Len(block)
                     THEN Len(block) - q.off ELSE q.len
             end == IF q.off + q.len < Len(block)
                    THEN q.off + q.len ELSE Len(block)
  <2>1. Len(block) \in Nat
    BY <1>4, BlockLength, DataAssumption
  <2>2. \E ret \in Nat :
          Returns(q, ret, SubSeq(block, q.off + 1, end))
    <3>1. CASE q.off >= Len(block)
      <4>1. SubSeq(block, q.off + 1, end) = <<>>
        BY <1>1, <2>1, <3>1, SubSeqEmpty
      <4>2. Returns(q, 0, <<>>)
        BY <1>1, <1>4, <2>1, <3>1 DEF read_data
      <4> QED
        BY <4>1, <4>2
    <3>2. CASE q.off < Len(block)
      <4>1. q.off + nbuf = end /\ nbuf \in Nat
        BY <1>1, <2>1, <3>2
      <4>2. Returns(q, nbuf, SubSeq(block, q.off + 1, q.off + nbuf))
        BY <1>1, <1>4, <2>1, <3>2 DEF read_data
      <4> QED
        BY <4>1, <4>2
    <3> QED
      BY <1>1, <2>1, <3>1, <3>2
  <2> HIDE DEF end
  <2>3. /\ last'.call = q
        /\ last'.data = SubSeq(block, q.off + 1, end)
        /\ ~(last'.ret < 0)
    <3>1. PICK ret \in Nat : Returns(q, ret, SubSeq(block, q.off + 1, end))
      BY <2>2
    <3>2. last'.ret = ret /\ last'.call = q
      BY <3>1 DEF Returns
    <3>3. last'.data = SubSeq(block, q.off + 1, end)
      BY <3>1, Zenon DEF Returns
    <3> QED
      BY <3>2, <3>3
  <2>4. File!Answers(q, SubSeq(block, q.off + 1, end), FALSE)
    BY <2>3 DEF File!Answers
  <2> QED
    BY <1>1, <1>2, <1>4, <2>4 DEF File!Read, end, Content
<1> QED
  BY <1>3, <1>4

\* The buffer update_block copies the data into begins with what it got.
LEMMA BufferKeeps ==
  ASSUME BlockFits, NEW n \in Nat,
         NEW m, m = IF n > Len(Content) THEN n ELSE Len(Content),
         NEW b \in Buffers(n)
  PROVE  /\ b \in malloc(m)
         /\ \A i \in 1 .. m : i <= Len(Content) => b[i] = Content[i]
<1>1. CASE block = Absent
  <2>1. Content = <<>> /\ Len(Content) = 0
    BY <1>1, EmptySeq DEF Content
  <2>2. b \in malloc(n)
    BY <1>1 DEF Buffers, Grows
  <2> QED
    BY <2>1, <2>2 DEF malloc
<1>2. CASE block # Absent
  <2>1. Content = block /\ Len(block) \in Nat /\ block \in malloc(Len(block))
    BY <1>2, BlockLength, DataAssumption DEF Content
  <2>2. CASE n > Len(block)
    <3>1. b \in memdupm(block, n)
      BY <1>2, <2>1, <2>2 DEF Buffers, Grows
    <3> QED
      BY <2>1, <2>2, <3>1 DEF memdupm
  <2>3. CASE ~(n > Len(block))
    <3>1. b = block
      BY <1>2, <2>1, <2>3 DEF Buffers, Grows
    <3> QED
      BY <2>1, <2>3, <3>1
  <2> QED
    BY <2>2, <2>3
<1> QED
  BY <1>1, <1>2

\* What fails changes nothing, and tells so.
LEMMA RefusedCall ==
  ASSUME BlockFits, NEW q, Returns(q, -1, <<>>), UNCHANGED block
  PROVE  /\ File!Answers(q, <<>>, TRUE)
         /\ UNCHANGED Content
         /\ BlockFits'
<1>1. last'.call = q /\ last'.data = <<>> /\ last'.ret < 0
  BY DEF Returns
<1> QED
  BY <1>1 DEF File!Answers, Content, BlockFits

LEMMA WriteRefines ==
  ASSUME BlockFits, NEW q \in DataCalls, write_data(q)
  PROVE  (File!Write(q) \/ File!Refuse(q)) /\ BlockFits'
<1> DEFINE end == q.off + Len(q.buf)
           m == IF end > Len(Content) THEN end ELSE Len(Content)
<1>1. /\ q.op = "write"
      /\ q.off \in Nat /\ q.buf \in Seq(Bytes) /\ Len(q.buf) \in Nat \ {0}
      /\ end \in Nat
  BY WriteCall DEF write_data
<1>2. /\ Len(Content) \in 0 .. MAX_DOC_LEN
      /\ Grows(end) <=> end > Len(Content)
  BY <1>1, BlockLength, EmptySeq, DataAssumption DEF Content, Grows
<1>3. CASE Grows(end) /\ TooLong(end)
  <2>1. Returns(q, -1, <<>>) /\ UNCHANGED block
    BY <1>3 DEF write_data
  <2>2. File!Answers(q, <<>>, TRUE) /\ UNCHANGED Content /\ BlockFits'
    BY <2>1, RefusedCall
  <2>3. end > IF MAX_DOC_LEN < MAX_FILE_LEN THEN MAX_DOC_LEN ELSE MAX_FILE_LEN
    BY <1>1, <1>3, DataAssumption DEF TooLong
  <2> QED
    BY <1>1, <2>2, <2>3 DEF File!Refuse, Content
<1>4. CASE ~(Grows(end) /\ TooLong(end))
  <2>1. PICK b \in Buffers(end) : block' = memcpy(b, q.off, q.buf)
    BY <1>4 DEF write_data
  <2>2. m \in 0 .. MAX_DOC_LEN /\ end <= m
    BY <1>1, <1>2, <1>4, DataAssumption DEF TooLong
  <2> HIDE DEF m
  <2>3. /\ b \in malloc(m)
        /\ \A i \in 1 .. m : i <= Len(Content) => b[i] = Content[i]
    BY <1>1, <2>1, BufferKeeps DEF m
  <2>4. /\ block' \in malloc(m)
        /\ \A i \in 1 .. m :
             block'[i] = IF q.off < i /\ i <= end THEN q.buf[i - q.off] ELSE b[i]
    <3>1. m \in Nat /\ q.off + Len(q.buf) <= m
      BY <2>2
    <3>2. b \in malloc(m)
      BY <2>3
    <3>3. LET d == memcpy(b, q.off, q.buf)
          IN  /\ d \in malloc(m)
              /\ \A i \in 1 .. m :
                   d[i] = IF q.off < i /\ i <= q.off + Len(q.buf)
                          THEN q.buf[i - q.off] ELSE b[i]
      BY <1>1, <3>1, <3>2, MemcpyResult
    <3> QED
      BY <2>1, <3>3
  <2>5. block' # Absent /\ BlockFits'
    BY <2>2, <2>4, StoredBlock DEF BlockFits
  <2>6. block' \in File!Contents(Content, m, q.off, q.buf)
    BY <1>1, <1>2, <2>2, <2>3, <2>4 DEF File!Contents, malloc
  <2>7. end <= IF MAX_DOC_LEN < MAX_FILE_LEN THEN MAX_DOC_LEN ELSE MAX_FILE_LEN
    BY <1>1, <2>2, DataAssumption
  <2>8. Returns(q, Len(q.buf), <<>>)
    BY <1>4 DEF write_data
  <2>9. last'.call = q /\ last'.data = <<>> /\ last'.ret = Len(q.buf)
    BY <2>8 DEF Returns
  <2>10. File!Answers(q, <<>>, FALSE)
    BY <1>1, <2>9 DEF File!Answers
  <2>11. File!Write(q)
    BY <1>1, <2>5, <2>6, <2>7, <2>10 DEF File!Write, Content, m
  <2> QED
    BY <2>5, <2>11
<1> QED
  BY <1>3, <1>4

LEMMA TruncateToZeroRefines ==
  ASSUME BlockFits, NEW q \in DataCalls, truncate_to_zero(q)
  PROVE  (File!Truncate(q) \/ File!Refuse(q)) /\ BlockFits'
<1>1. q.op = "truncate" /\ q.off = 0
  BY DEF truncate_to_zero
<1>2. CASE block = Absent
  <2>1. Returns(q, -1, <<>>) /\ UNCHANGED block
    BY <1>2 DEF truncate_to_zero
  <2>2. File!Answers(q, <<>>, TRUE) /\ UNCHANGED Content /\ BlockFits'
    BY <2>1, RefusedCall
  <2> QED
    BY <1>1, <1>2, <2>2 DEF File!Refuse, Content
<1>3. CASE block # Absent
  <2>1. Returns(q, 0, <<>>) /\ block' = Absent
    BY <1>3 DEF truncate_to_zero
  <2>2. last'.call = q /\ last'.data = <<>> /\ last'.ret = 0
    BY <2>1 DEF Returns
  <2>3. File!Answers(q, <<>>, FALSE)
    BY <2>2 DEF File!Answers
  <2>4. SubSeq(block, 1, q.off) = <<>>
    BY <1>1, SubSeqEmpty
  <2>5. q.off <= Len(block)
    BY <1>1, <1>3, BlockLength, DataAssumption
  <2> QED
    BY <1>1, <1>3, <2>1, <2>3, <2>4, <2>5 DEF File!Truncate, BlockFits
<1> QED
  BY <1>2, <1>3

LEMMA TruncateRefines ==
  ASSUME BlockFits, NEW q \in DataCalls, truncate_data(q)
  PROVE  (File!Truncate(q) \/ File!Refuse(q)) /\ BlockFits'
<1> DEFINE MaxLen == IF MAX_DOC_LEN < MAX_FILE_LEN
                     THEN MAX_DOC_LEN ELSE MAX_FILE_LEN
           refused == \/ q.off > MAX_FILE_LEN
                      \/ block # Absent /\ q.off > MAX_DOC_LEN
<1>1. q.op = "truncate" /\ q.off \in Nat /\ q.off > 0
  BY TruncateCall DEF truncate_data
<1>2. CASE refused
  <2>1. Returns(q, -1, <<>>) /\ UNCHANGED block
    BY <1>2 DEF truncate_data
  <2>2. File!Answers(q, <<>>, TRUE) /\ UNCHANGED Content /\ BlockFits'
    BY <2>1, RefusedCall
  <2>3. q.off > MaxLen
    BY <1>1, <1>2, DataAssumption
  <2> QED
    BY <1>1, <2>2, <2>3 DEF File!Refuse, Content
<1>3. CASE ~refused
  <2>1. Returns(q, 0, <<>>)
    BY <1>3 DEF truncate_data
  <2>2. last'.call = q /\ last'.data = <<>> /\ last'.ret = 0
    BY <2>1 DEF Returns
  <2>3. File!Answers(q, <<>>, FALSE)
    BY <2>2 DEF File!Answers
  <2>4. CASE block = Absent
    <3>1. UNCHANGED block
      BY <1>3, <2>4 DEF truncate_data
    <3>2. ~(q.off <= Len(<<>>))
      BY <1>1, EmptySeq
    <3> QED
      BY <1>1, <2>3, <2>4, <3>1, <3>2 DEF File!Truncate, BlockFits
  <2>5. CASE block # Absent /\ q.off <= Len(block)
    <3>1. Len(block) \in 0 .. MAX_DOC_LEN /\ block \in Seq(Bytes)
      BY <2>5, BlockLength
    <3>2. block' = SubSeq(block, 1, q.off)
      BY <1>3, <2>5 DEF truncate_data, Truncated
    <3>3. q.off \in 0 .. MAX_DOC_LEN
      BY <1>1, <2>5, <3>1, DataAssumption
    <3>4. block' \in malloc(q.off)
      <4>1. \A i \in 1 .. q.off : block[i] \in Bytes
        BY <1>1, <2>5, <3>1, ElementOfSeq, DataAssumption
      <4>2. block' \in Seq(Bytes) /\ Len(block') = q.off
        BY <1>1, <3>2, <4>1, SubSeqProperties
      <4> QED
        BY <4>2, LenProperties DEF malloc
    <3>5. block' # Absent /\ BlockFits'
      BY <3>3, <3>4, StoredBlock DEF BlockFits
    <3> QED
      BY <1>1, <2>3, <2>5, <3>2, <3>5 DEF File!Truncate
  <2>6. CASE block # Absent /\ ~(q.off <= Len(block))
    <3>1. block' \in memdupm(block, q.off)
      BY <1>3, <2>6 DEF truncate_data, Truncated
    <3>2. /\ block' \in malloc(q.off)
          /\ \A i \in 1 .. Len(block) : block'[i] = block[i]
      BY <3>1 DEF memdupm
    <3>3. q.off \in 0 .. MAX_DOC_LEN
      BY <1>1, <1>3, <2>6, DataAssumption
    <3>4. block' # Absent /\ BlockFits'
      BY <3>2, <3>3, StoredBlock DEF BlockFits
    <3>5. Len(block) \in Nat
      BY <2>6, BlockLength, DataAssumption
    <3>6. block' \in File!Contents(block, q.off, 0, <<>>)
      <4>1. \A i \in 1 .. q.off : ~(0 < i /\ i <= 0 + Len(<<>>))
        BY EmptySeq
      <4> QED
        BY <1>1, <3>2, <3>5, <4>1 DEF File!Contents, malloc
    <3>7. q.off <= MaxLen
      BY <1>3, <2>6, <3>3, DataAssumption
    <3> QED
      BY <1>1, <2>3, <2>6, <3>4, <3>6, <3>7 DEF File!Truncate
  <2> QED
    BY <2>4, <2>5, <2>6
<1> QED
  BY <1>2, <1>3

\* The bytes of a block of any size are what FileBytes says: data.c's splice of
\* a write into the block, its growth, the trimming of a read and the cut of a
\* truncation lose, move and invent no byte that was written, whatever malloc
\* returned and whatever lies behind the end of a buffer.
THEOREM FileBytesImplemented == Spec => ImplementsFileBytes
<1>1. Init => BlockFits /\ File!Init
  <2> SUFFICES ASSUME Init
               PROVE  BlockFits /\ File!Init
    OBVIOUS
  <2>1. block = Absent /\ last = [call |-> NoCall, ret |-> 0, data |-> <<>>]
    BY DEF Init
  <2> QED
    BY <2>1 DEF BlockFits, File!Init
<1>2. BlockFits /\ [Next]_vars => BlockFits' /\ [File!Next]_File!vars
  <2> SUFFICES ASSUME BlockFits, [Next]_vars
               PROVE  BlockFits' /\ [File!Next]_File!vars
    OBVIOUS
  <2>1. ASSUME NEW q \in DataCalls,
               read_data(q) \/ write_data(q) \/ truncate_to_zero(q)
                 \/ truncate_data(q)
        PROVE  BlockFits' /\ File!Next
    BY <2>1, ReadRefines, WriteRefines, TruncateToZeroRefines, TruncateRefines
    DEF File!Next
  <2>2. CASE UNCHANGED <<block, last>>
    BY <2>2 DEF BlockFits, File!vars
  <2>3. CASE Next /\ ~UNCHANGED <<block, last>>
    BY <2>1, <2>3 DEF Next, Tick, update_stat_utimens, update_stat_mode
  <2> QED
    BY <2>2, <2>3 DEF vars
<1> QED
  BY <1>1, <1>2, PTL DEF Spec, ImplementsFileBytes, File!Spec

-----------------------------------------------------------------------------
(***************************************************************************)
(* Stamps.                                                                 *)
(***************************************************************************)

\* A stamp to which a time, or the request for one, is applied is a time.
LEMMA StampIsTime ==
  ASSUME NEW t \in Timespecs, NEW old \in Stamps, NEW now,
         t = UTIME_NOW => now \in Stamps
  PROVE  Stamp(t, old, now) \in Stamps
BY TimeAssumption DEF Timespecs, Stamp, Stamps

\* update_stat_utimens reads the clock if either stamp needs it.
LEMMA ClockWasRead ==
  ASSUME NEW tv \in TimePairs
  PROVE  /\ tv = NULL => ts_now(tv) = clock
         /\ tv # NULL => /\ tv[1] \in Timespecs /\ tv[2] \in Timespecs
                         /\ tv[1] = UTIME_NOW => ts_now(tv) = clock
                         /\ tv[2] = UTIME_NOW => ts_now(tv) = clock
BY DEF TimePairs, ts_now, ReadsClock

\* Storing a size that fits stamps the file with the present.
LEMMA SizeStamped ==
  ASSUME StatTyped, NEW n \in 0 .. MAX_FILE_LEN, update_stat_size(n),
         UNCHANGED clock
  PROVE  StatTyped'
<1>1. clock \in Stamps
  BY DEF StatTyped, Stamps
<1> QED
  BY <1>1 DEF update_stat_size, StatTyped

LEMMA StatTypedInductive == StatTyped /\ [Next]_vars => StatTyped'
<1> SUFFICES ASSUME StatTyped, [Next]_vars
             PROVE  StatTyped'
  OBVIOUS
<1>1. clock \in Stamps /\ clock \in 0 .. MaxTime
  BY DEF StatTyped, Stamps
<1>2. CASE UNCHANGED <<stat, clock>>
  BY <1>2 DEF StatTyped
<1>3. ASSUME NEW tv \in TimePairs, update_stat_utimens(tv)
      PROVE  StatTyped'
  <2>1. CASE tv = NULL
    BY <1>1, <1>3, <2>1, ClockWasRead DEF update_stat_utimens, StatTyped
  <2>2. CASE tv # NULL
    <3> DEFINE atime == Stamp(tv[1], stat.atime, ts_now(tv))
               mtime == Stamp(tv[2], stat.mtime, ts_now(tv))
    <3>1. stat' = [stat EXCEPT !.atime = atime, !.mtime = mtime]
      BY <1>3, <2>2 DEF update_stat_utimens
    <3>2. atime \in Stamps /\ mtime \in Stamps
      BY <1>1, <1>3, <2>2, ClockWasRead, StampIsTime DEF StatTyped
    <3>3. clock' = clock
      BY <1>3 DEF update_stat_utimens
    <3> HIDE DEF atime, mtime
    <3> QED
      BY <3>1, <3>2, <3>3 DEF StatTyped
  <2> QED
    BY <2>1, <2>2
<1>4. ASSUME NEW w \in Modes, update_stat_mode(w)
      PROVE  StatTyped'
  BY <1>4 DEF update_stat_mode, StatTyped
<1>5. CASE Tick
  BY <1>5, TimeAssumption DEF Tick, StatTyped
<1>6. ASSUME NEW q \in DataCalls, read_data(q)
      PROVE  StatTyped'
  <2>1. update_stat_atime \/ UNCHANGED stat
    BY <1>6 DEF read_data
  <2>2. clock' = clock
    BY <1>6 DEF read_data, Returns
  <2> QED
    BY <1>1, <2>1, <2>2 DEF update_stat_atime, StatTyped
<1>7. ASSUME NEW q \in DataCalls, write_data(q)
      PROVE  StatTyped'
  <2> DEFINE end == q.off + Len(q.buf)
  <2>1. \/ update_stat_size(end) /\ end <= MAX_FILE_LEN
        \/ UNCHANGED stat
    BY <1>7, WriteCall, DataAssumption DEF write_data, TooLong
  <2>2. end \in Nat /\ clock' = clock
    BY <1>7, WriteCall DEF write_data, Returns
  <2>3. UNCHANGED stat => StatTyped'
    BY <2>2 DEF StatTyped
  <2>4. end <= MAX_FILE_LEN => end \in 0 .. MAX_FILE_LEN
    BY <2>2, DataAssumption
  <2> HIDE DEF end
  <2> QED
    BY <2>1, <2>2, <2>3, <2>4, SizeStamped
<1>8. ASSUME NEW q \in DataCalls, truncate_to_zero(q) \/ truncate_data(q)
      PROVE  StatTyped'
  <2>1. \/ update_stat_size(q.off) /\ q.off <= MAX_FILE_LEN
        \/ UNCHANGED stat
    BY <1>8, TruncateCall, DataAssumption DEF truncate_to_zero, truncate_data
  <2>2. q.off \in Nat /\ clock' = clock
    BY <1>8, TruncateCall DEF truncate_to_zero, truncate_data, Returns
  <2>3. UNCHANGED stat => StatTyped'
    BY <2>2 DEF StatTyped
  <2> QED
    BY <2>1, <2>2, <2>3, SizeStamped, DataAssumption
<1> QED
  BY <1>2, <1>3, <1>4, <1>5, <1>6, <1>7, <1>8 DEF Next, vars

\* No request, and no pair of times given to utimens, leaves a stamp with the
\* value the variable ts_now of update_stat_utimens had before the clock was read.
THEOREM StampsHoldTimes == Spec => []StampsAreTimes
<1>1. Init => StatTyped
  BY DataAssumption, TimeAssumption DEF Init, StatTyped, Stamps
<1>2. StatTyped => StampsAreTimes
  BY TimeAssumption DEF StatTyped, StampsAreTimes
<1> QED
  BY <1>1, <1>2, StatTypedInductive, PTL DEF Spec

-----------------------------------------------------------------------------
(***************************************************************************)
(* Results.                                                                *)
(***************************************************************************)
ResultTyped ==
  /\ last.call \in DataCalls \cup {NoCall}
  /\ last.ret \in -1 .. MAX_FILE_LEN
  /\ Len(last.data) <= MAX_DOC_LEN

LEMMA ReturnsTyped ==
  ASSUME NEW q \in DataCalls, NEW ret \in -1 .. MAX_FILE_LEN, NEW data,
         Len(data) <= MAX_DOC_LEN, Returns(q, ret, data)
  PROVE  ResultTyped'
<1>1. last'.call = q /\ last'.ret = ret /\ last'.data = data
  BY Zenon DEF Returns
<1> QED
  BY <1>1 DEF ResultTyped

LEMMA RequestsTyped ==
  ASSUME BlockFits, NEW q \in DataCalls,
         read_data(q) \/ write_data(q) \/ truncate_to_zero(q) \/ truncate_data(q)
  PROVE  ResultTyped'
<1> DEFINE Typed == \E ret \in -1 .. MAX_FILE_LEN : Returns(q, ret, <<>>)
<1>1. Typed => ResultTyped'
  BY ReturnsTyped, EmptySeq, DataAssumption
<1>2. ASSUME Returns(q, -1, <<>>) \/ Returns(q, 0, <<>>)
      PROVE  Typed
  BY <1>2, DataAssumption
<1>3. CASE read_data(q)
  <2>1. CASE block # Absent /\ q.off < Len(block)
    <3> DEFINE nbuf == IF q.off + q.len > Len(block)
                       THEN Len(block) - q.off ELSE q.len
               data == SubSeq(block, q.off + 1, q.off + nbuf)
    <3>1. /\ Len(block) \in 0 .. MAX_DOC_LEN /\ block \in Seq(Bytes)
          /\ q.off \in Nat /\ q.len \in Nat
      BY <1>3, <2>1, BlockLength, ReadCall DEF read_data
    <3>2. nbuf \in 0 .. MAX_DOC_LEN /\ q.off + nbuf <= Len(block)
      BY <2>1, <3>1, DataAssumption
    <3>3. Returns(q, nbuf, data)
      BY <1>3, <2>1, <3>1, DataAssumption DEF read_data
    <3> HIDE DEF nbuf
    <3>4. Len(data) = nbuf
      BY <3>1, <3>2, SliceLength
    <3> HIDE DEF data
    <3> QED
      BY <3>2, <3>3, <3>4, ReturnsTyped, DataAssumption
  <2>2. CASE ~(block # Absent /\ q.off < Len(block))
    BY <1>1, <1>2, <1>3, <2>2 DEF read_data
  <2> QED
    BY <2>1, <2>2
<1>4. CASE write_data(q)
  <2> DEFINE end == q.off + Len(q.buf)
  <2>1. q.off \in Nat /\ Len(q.buf) \in Nat
    BY <1>4, WriteCall DEF write_data
  <2>2. CASE Grows(end) /\ TooLong(end)
    BY <1>1, <1>2, <1>4, <2>2 DEF write_data
  <2>3. CASE ~(Grows(end) /\ TooLong(end))
    <3>1. Returns(q, Len(q.buf), <<>>)
      BY <1>4, <2>3 DEF write_data
    <3>2. end <= MAX_FILE_LEN
      BY <2>1, <2>3, BlockLength, DataAssumption DEF Grows, TooLong
    <3> QED
      BY <1>1, <2>1, <3>1, <3>2, DataAssumption
  <2> QED
    BY <2>2, <2>3
<1>5. CASE truncate_to_zero(q) \/ truncate_data(q)
  BY <1>1, <1>2, <1>5 DEF truncate_to_zero, truncate_data
<1> QED
  BY <1>3, <1>4, <1>5, <1>1

\* The block fits into a document, the size into a file, and what a request
\* returns into what was asked for, whatever the limits.
THEOREM FileTypeCorrect == Spec => []TypeOK
<1> DEFINE Inv == BlockFits /\ StatTyped /\ ResultTyped
<1>1. Init => Inv
  <2> SUFFICES ASSUME Init
               PROVE  Inv
    OBVIOUS
  <2>1. last.call = NoCall /\ last.ret = 0 /\ last.data = <<>>
    BY DEF Init
  <2> QED
    BY <2>1, EmptySeq, DataAssumption, TimeAssumption
    DEF Init, BlockFits, StatTyped, ResultTyped, Stamps
<1>2. Inv /\ [Next]_vars => Inv'
  <2> SUFFICES ASSUME Inv, [Next]_vars
               PROVE  Inv'
    OBVIOUS
  <2>1. ASSUME NEW q \in DataCalls,
               read_data(q) \/ write_data(q) \/ truncate_to_zero(q)
                 \/ truncate_data(q)
        PROVE  BlockFits' /\ ResultTyped'
    BY <2>1, RequestsTyped, ReadRefines, WriteRefines, TruncateToZeroRefines,
       TruncateRefines
  <2>2. CASE UNCHANGED <<block, last>>
    BY <2>2, StatTypedInductive DEF BlockFits, ResultTyped
  <2>3. CASE Next /\ ~UNCHANGED <<block, last>>
    BY <2>1, <2>3, StatTypedInductive
    DEF Next, Tick, update_stat_utimens, update_stat_mode
  <2> QED
    BY <2>2, <2>3 DEF vars
<1>3. Inv => TypeOK
  BY DEF BlockFits, StatTyped, ResultTyped, TypeOK
<1> QED
  BY <1>1, <1>2, <1>3, PTL DEF Spec

=============================================================================
