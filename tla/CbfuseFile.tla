----------------------------- MODULE CbfuseFile -----------------------------
(***************************************************************************)
(* The bytes and the time stamps of one file: what data.c does with the    *)
(* block between getting and storing it, and what stats.c does with the    *)
(* stamps.  One process, whose calls do not fail, serves one request after *)
(* the other, so that a request is one step; the steps inside a request,   *)
(* crashes and failures are the business of module Cbfuse.                 *)
(*                                                                         *)
(* Memory that malloc returns holds any bytes.  So does what lies behind   *)
(* the end of a buffer, and a variable that was not assigned a time holds  *)
(* Garbage.                                                                *)
(***************************************************************************)
EXTENDS Integers, Sequences

CONSTANTS
  Bytes,         \* the values of a byte
  Absent,        \* "no block"
  Garbage,       \* a time that was never stored where it is read
  NULL,          \* no array of times
  UTIME_NOW,     \* in place of a time: the clock's
  UTIME_OMIT,    \* in place of a time: leave the stamp alone
  Modes,         \* the permission bits chmod sets
  Offsets,       \* offsets of reads, writes and truncations
  Lengths,       \* lengths of reads and writes
  UserTimes,     \* the times users pass to utimens
  MaxTime,       \* bound on the clock
  MAX_DOC_LEN,   \* the size limit of one Couchbase document
  MAX_FILE_LEN   \* the size limit the code enforces on a file

VARIABLES
  block,   \* the file's only block, a sequence of bytes, or Absent
  stat,    \* the file's stat document
  clock,   \* CLOCK_REALTIME
  last     \* the last request for data: the request, its return, what it read

vars == <<block, stat, clock, last>>

NoCall == [op |-> "none"]

ReadCalls == [op : {"read"}, off : Offsets, len : Lengths]
WriteCalls ==
  [op : {"write"}, off : Offsets, buf : UNION {[1 .. n -> Bytes] : n \in Lengths}]
TruncateCalls == [op : {"truncate"}, off : Offsets]

DataCalls == ReadCalls \cup WriteCalls \cup TruncateCalls

\* What utimens gets: nothing, or for atime and mtime each a time or a request.
Timespecs == UserTimes \cup {UTIME_NOW, UTIME_OMIT}
TimePairs == {NULL} \cup (Timespecs \X Timespecs)

Stamps == 0 .. MaxTime \cup UserTimes

ASSUME DataAssumption ==
  /\ Offsets \subseteq Nat
  /\ Lengths \subseteq Nat \ {0}
  /\ MAX_DOC_LEN \in Nat /\ MAX_FILE_LEN \in Nat
  /\ MAX_DOC_LEN <= MAX_FILE_LEN
  /\ \A n \in 0 .. MAX_DOC_LEN : Absent \notin [1 .. n -> Bytes]

ASSUME TimeAssumption ==
  /\ MaxTime \in Nat
  /\ Garbage \notin Stamps
  /\ NULL \notin Timespecs \X Timespecs
  /\ UTIME_NOW \notin UserTimes \cup {UTIME_OMIT}
  /\ UTIME_OMIT \notin UserTimes

TypeOK ==
  /\ block \in {Absent} \cup UNION {[1 .. n -> Bytes] : n \in 0 .. MAX_DOC_LEN}
  /\ stat \in [mode : Modes, atime : Stamps \cup {Garbage},
               mtime : Stamps \cup {Garbage}, ctime : Stamps,
               size : 0 .. MAX_FILE_LEN]
  /\ clock \in 0 .. MaxTime
  /\ last.call \in DataCalls \cup {NoCall}
  /\ last.ret \in -1 .. MAX_FILE_LEN
  /\ Len(last.data) <= MAX_DOC_LEN

-----------------------------------------------------------------------------
(***************************************************************************)
(* Buffers.                                                                *)
(***************************************************************************)
malloc(n) == [1 .. n -> Bytes]

\* The first Len(src) bytes of m new ones are those of src.
memdupm(src, m) ==
  {d \in malloc(m) : \A i \in 1 .. Len(src) : d[i] = src[i]}

\* Mutant: the offset is forgotten.
memcpy_start(dst, off, src) ==
  [i \in 1 .. Len(dst) |-> IF i <= Len(src) THEN src[i] ELSE dst[i]]

memcpy(dst, off, src) ==
  [i \in 1 .. Len(dst) |->
     IF i \in off + 1 .. off + Len(src) THEN src[i - off] ELSE dst[i]]

\* update_block enlarges what it got, or starts a block.
Grows(nupdate) == block = Absent \/ nupdate > Len(block)

\* The buffers update_block may find itself with before it copies the data.
Buffers(nupdate) ==
  CASE block = Absent                     -> malloc(nupdate)
    [] block # Absent /\ Grows(nupdate)   -> memdupm(block, nupdate)
    [] ~Grows(nupdate)                    -> {block}

\* What it stores for a truncation: nvalue set to the offset, no more.
Truncated(off) ==
  IF off <= Len(block) THEN {SubSeq(block, 1, off)} ELSE memdupm(block, off)

\* insert_stat, and no block.
Init ==
  /\ block = Absent
  /\ \E w \in Modes :
       stat = [mode |-> w, atime |-> 0, mtime |-> 0, ctime |-> 0, size |-> 0]
  /\ clock = 0
  /\ last = [call |-> NoCall, ret |-> 0, data |-> <<>>]

Returns(q, ret, data) ==
  /\ last' = [call |-> q, ret |-> ret, data |-> data]
  /\ clock' = clock

update_stat_atime == stat' = [stat EXCEPT !.atime = clock]

update_stat_size(size) == stat' = [stat EXCEPT !.mtime = clock, !.size = size]

-----------------------------------------------------------------------------
(***************************************************************************)
(* The requests.  read_data and write_data return -1 for every error, the  *)
(* others a negative error code, which is -1 here.                         *)
(***************************************************************************)
read_data(q) ==
  /\ q.op = "read"
  /\ \/ block = Absent /\ Returns(q, -1, <<>>) /\ UNCHANGED stat
     \/ /\ block # Absent /\ q.off >= Len(block)
        /\ Returns(q, 0, <<>>) /\ UNCHANGED stat
     \/ /\ block # Absent /\ q.off < Len(block)
        /\ LET nbuf == IF q.off + q.len > Len(block)
                       THEN Len(block) - q.off ELSE q.len
           IN  Returns(q, nbuf, SubSeq(block, q.off + 1, q.off + nbuf))
        /\ update_stat_atime
  /\ UNCHANGED block

\* Mutant: the code's own limit only, for a server without one.
TooLongForFile(n) == n > MAX_FILE_LEN

\* Either limit: the code's own, or the server's on what is stored.
TooLong(n) == n > MAX_FILE_LEN \/ n > MAX_DOC_LEN

write_data(q) ==
  LET nupdate == q.off + Len(q.buf)
  IN  /\ q.op = "write"
      /\ IF Grows(nupdate) /\ TooLong(nupdate)
         THEN Returns(q, -1, <<>>) /\ UNCHANGED <<block, stat>>
         ELSE /\ \E b \in Buffers(nupdate) : block' = memcpy(b, q.off, q.buf)
              /\ IF Grows(nupdate) THEN update_stat_size(nupdate)
                 ELSE UNCHANGED stat
              /\ Returns(q, Len(q.buf), <<>>)

\* To zero: remove_data, which fails if there is no block.
truncate_to_zero(q) ==
  /\ q.op = "truncate" /\ q.off = 0
  /\ IF block = Absent
     THEN Returns(q, -1, <<>>) /\ UNCHANGED <<block, stat>>
     ELSE Returns(q, 0, <<>>) /\ block' = Absent /\ update_stat_size(0)

\* To anything else: update_block, which does nothing if there is no block.
truncate_data(q) ==
  /\ q.op = "truncate" /\ q.off > 0
  /\ IF q.off > MAX_FILE_LEN \/ (block # Absent /\ q.off > MAX_DOC_LEN)
     THEN Returns(q, -1, <<>>) /\ UNCHANGED <<block, stat>>
     ELSE /\ IF block = Absent THEN UNCHANGED block
             ELSE block' \in Truncated(q.off)
          /\ update_stat_size(q.off)
          /\ Returns(q, 0, <<>>)

\* Mutant: the clock is read for atime only.
ReadsClockOnce(tv) == tv # NULL => tv[1] = UTIME_NOW

\* update_stat_utimens reads the clock only if a stamp is set to it.
ReadsClock(tv) == tv # NULL => UTIME_NOW \in {tv[1], tv[2]}

ts_now(tv) == IF ReadsClock(tv) THEN clock ELSE Garbage

\* The stamp `old' once t, a time or a request, is applied to it.
Stamp(t, old, now) ==
  CASE t = UTIME_NOW  -> now
    [] t = UTIME_OMIT -> old
    [] t \in UserTimes  -> t

update_stat_utimens(tv) ==
  /\ stat' = IF tv = NULL
             THEN [stat EXCEPT !.atime = ts_now(tv), !.mtime = ts_now(tv)]
             ELSE [stat EXCEPT !.atime = Stamp(tv[1], @, ts_now(tv)),
                               !.mtime = Stamp(tv[2], @, ts_now(tv))]
  /\ UNCHANGED <<block, clock, last>>

update_stat_mode(w) ==
  /\ stat' = [stat EXCEPT !.mode = w]
  /\ UNCHANGED <<block, clock, last>>

Tick ==
  /\ clock < MaxTime
  /\ clock' = clock + 1
  /\ UNCHANGED <<block, stat, last>>

Next ==
  \/ \E q \in DataCalls :
       read_data(q) \/ write_data(q) \/ truncate_to_zero(q) \/ truncate_data(q)
  \/ \E tv \in TimePairs : update_stat_utimens(tv)
  \/ \E w \in Modes : update_stat_mode(w)
  \/ Tick

Spec == Init /\ [][Next]_vars

-----------------------------------------------------------------------------
File == INSTANCE FileBytes WITH
  Calls   <- DataCalls,
  MaxLen  <- IF MAX_DOC_LEN < MAX_FILE_LEN THEN MAX_DOC_LEN ELSE MAX_FILE_LEN,
  content <- IF block = Absent THEN <<>> ELSE block,
  call    <- last.call,
  data    <- last.data,
  failed  <- last.ret < 0

\* update_block and read_data keep what was written, whatever malloc returns:
\* the splice of a write into the block, its growth, the trimming of a read and
\* the cut of a truncation are FileBytes' requests.
ImplementsFileBytes == File!Spec

\* A stamp is a time the clock showed or a user gave, never what the variable
\* ts_now of update_stat_utimens held before it was assigned.
StampsAreTimes == Garbage \notin {stat.atime, stat.mtime}

\* data.c:195 "must return 0 on EOF or -1 when an error happens": reading a
\* file at its end, a file without data included, does not fail.
ReadFailsOnlyOnError == [][last'.call \in ReadCalls => last'.ret >= 0]_last

\* stats.h:28 "Last data modification time": a request that changes the data
\* leaves its time in mtime.
MtimeIsLastChange == [][block' # block => stat'.mtime = clock]_vars

\* stats.h:30 "Time of last status change": so does a change of the permission
\* bits in ctime.
CtimeIsLastChange == [][stat'.mode # stat.mode => stat'.ctime = clock]_vars

=============================================================================
