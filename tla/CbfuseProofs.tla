---------------------------- MODULE CbfuseProofs ----------------------------
(***************************************************************************)
(* Proofs about Cbfuse for every value of its constants.                   *)
(***************************************************************************)
EXTENDS CbfuseProperties, TLAPS

\* What a call reports to the control tables.
Reports == {"ok", "grew", "eof", "EIO", "ENOENT", "EFBIG", "+ENAMETOOLONG"}

-----------------------------------------------------------------------------
(***************************************************************************)
(* The control tables.                                                     *)
(***************************************************************************)

\* Every handler goes from one call to a call or comes to rest.
LEMMA AfterTyped ==
  ASSUME NEW op, NEW at, NEW r
  PROVE  After(op, at, r) \in Calls \cup Rest
<1>1. insert_root(at, r) \in Calls \cup Rest
  BY DEF insert_root, Calls, Rest
<1>2. cbfuse_create(at, r) \in Calls \cup Rest
  BY DEF cbfuse_create, Calls, Rest
<1>3. cbfuse_mkdir(at, r) \in Calls \cup Rest
  BY DEF cbfuse_mkdir, Calls, Rest
<1>4. cbfuse_unlink(at, r) \in Calls \cup Rest
  BY DEF cbfuse_unlink, Calls, Rest
<1>5. cbfuse_rmdir(at, r) \in Calls \cup Rest
  BY DEF cbfuse_rmdir, Calls, Rest
<1>6. update_stat(at, r) \in Calls \cup Rest
  BY DEF update_stat, Calls, Rest
<1>7. read_data(at, r) \in Calls \cup Rest
  BY <1>6 DEF read_data, Calls, Rest
<1>8. write_data(at, r) \in Calls \cup Rest
  BY <1>6 DEF write_data, Calls, Rest
<1>9. truncate_data(at, r) \in Calls \cup Rest
  BY <1>6 DEF truncate_data, Calls, Rest
<1>10. cbfuse_open(op, r) \in Calls \cup Rest
  BY DEF cbfuse_open, Calls, Rest
<1> QED
  BY <1>1, <1>2, <1>3, <1>4, <1>5, <1>6, <1>7, <1>8, <1>9, <1>10
  DEF After, Rest

\* A handler stores a document back only right after the get that filled its
\* buffer: a stat document or directory entry it did get, a block or none.
LEMMA AfterStores ==
  ASSUME NEW op, NEW at, NEW r
  PROVE  /\ After(op, at, r) = "replace_stat" => at = "get_stat" /\ r = "ok"
         /\ After(op, at, r) = "replace_dentry" => at = "get_dentry" /\ r = "ok"
         /\ After(op, at, r) = "store_block" => at = "get_block"
<1> DEFINE Fits(next) ==
      /\ next = "replace_stat" => at = "get_stat" /\ r = "ok"
      /\ next = "replace_dentry" => at = "get_dentry" /\ r = "ok"
      /\ next = "store_block" => at = "get_block"
<1>1. Fits(insert_root(at, r))
  <2>1. insert_root(at, r) \in {"down", "add_new_dentry", "idle"}
    BY DEF insert_root
  <2> QED
    BY <2>1
<1>2. Fits(cbfuse_create(at, r))
  <2>1. cbfuse_create(at, r) \in {"idle", "get_dentry", "replace_dentry"}
    BY DEF cbfuse_create
  <2>2. cbfuse_create(at, r) = "replace_dentry" => at = "get_dentry" /\ r = "ok"
    BY DEF cbfuse_create
  <2> QED
    BY <2>1, <2>2
<1>3. Fits(cbfuse_mkdir(at, r))
  BY DEF cbfuse_mkdir
<1>4. Fits(cbfuse_unlink(at, r))
  BY DEF cbfuse_unlink
<1>5. Fits(cbfuse_rmdir(at, r))
  BY DEF cbfuse_rmdir
<1>6. Fits(update_stat(at, r))
  BY DEF update_stat
<1>7. Fits(read_data(at, r))
  BY <1>6 DEF read_data
<1>8. Fits(write_data(at, r))
  BY <1>6 DEF write_data
<1>9. Fits(truncate_data(at, r))
  BY <1>6 DEF truncate_data
<1>10. Fits(cbfuse_open(op, r))
  BY DEF cbfuse_open
<1>11. Fits("idle")
  OBVIOUS
<1>12. Fits(After(op, at, r))
  <2> HIDE DEF Fits
  <2> QED
    BY <1>1, <1>2, <1>3, <1>4, <1>5, <1>6, <1>7, <1>8, <1>9, <1>10, <1>11
    DEF After
<1> QED
  BY <1>12

\* The look-up is never followed by the second half of a read-modify-write.
LEMMA AfterLookupTyped ==
  ASSUME NEW q, NEW r, NEW type
  PROVE  /\ AfterLookup(q, r, type) \in Calls \cup Rest
         /\ AfterLookup(q, r, type)
              \notin {"replace_stat", "replace_dentry", "store_block"}
<1> DEFINE Fits(next) ==
      /\ next \in Calls \cup Rest
      /\ next \notin {"replace_stat", "replace_dentry", "store_block"}
<1>1. Fits(verify_root(r, type))
  BY DEF verify_root, Calls, Rest
<1>2. Fits(FirstCall(q))
  BY DEF FirstCall, Calls, Rest
<1>3. Fits("idle")
  BY DEF Calls, Rest
<1>4. Fits(AfterLookup(q, r, type))
  <2> HIDE DEF Fits
  <2> QED
    BY <1>1, <1>2, <1>3 DEF AfterLookup
<1> QED
  BY <1>4

\* What a handler returns is one of the codes.
LEMMA ReturnedTyped ==
  ASSUME NEW q, NEW at, NEW next, NEW r \in Reports
  PROVE  Returned(q, at, next, r) \in Codes
BY DEF Returned, Reports, Codes

LEMMA ReplyTyped ==
  ASSUME NEW o, NEW good
  PROVE  Reply(o, good) \in {"ok", "EIO", "ENOENT"}
BY DEF Reply

LEMMA NoRequestTyped == NoRequest \in RequestDocs
BY PathAssumption, DataAssumption DEF NoRequest, Request, RequestDocs, Types

\* A mount that makes a step, and the others that stand still.
LEMMA ResumeTyped ==
  ASSUME NEW m \in Mounts, NEW q \in RequestDocs, NEW next \in Calls \cup Rest,
         NEW r \in Reports, TypeOK, Resume(m, q, next, r)
  PROVE  /\ pc' \in [Mounts -> Calls \cup Rest]
         /\ req' \in [Mounts -> RequestDocs]
         /\ fresult' \in [Mounts -> Codes]
         /\ pc'[m] = next
         /\ \A n \in Mounts \ {m} : pc'[n] = pc[n]
<1>1. Returned(q, pc[m], next, r) \in Codes
  BY ReturnedTyped
<1>2. (IF next \in Rest THEN NoRequest ELSE q) \in RequestDocs
  BY NoRequestTyped
<1> QED
  BY <1>1, <1>2 DEF Resume, TypeOK

\* The local part of TypeOK, mount by mount.
BufferOK(m) ==
  /\ result[m] \in Buffered(pc[m])
  /\ casValid[m] => pc[m] = "replace_stat"

\* A call of m that leaves a suiting buffer keeps every mount's buffer right.
LEMMA BuffersKept ==
  ASSUME NEW m \in Mounts, NEW doc, TypeOK,
         pc' \in [Mounts -> Calls \cup Rest],
         \A n \in Mounts \ {m} : pc'[n] = pc[n],
         result' = [result EXCEPT ![m] = doc],
         doc \in Buffered(pc'[m]),
         casValid' \in [Mounts -> BOOLEAN],
         \A n \in Mounts \ {m} : casValid'[n] => casValid[n],
         casValid'[m] => pc'[m] = "replace_stat"
  PROVE  /\ result' = [n \in Mounts |-> result'[n]]
         /\ \A n \in Mounts : BufferOK(n)'
<1>1. result' = [n \in Mounts |-> result'[n]]
  BY DEF TypeOK
<1>2. ASSUME NEW n \in Mounts PROVE BufferOK(n)'
  <2>1. CASE n = m
    <3>1. result'[m] = doc
      BY DEF TypeOK
    <3> QED
      BY <2>1, <3>1 DEF BufferOK
  <2>2. CASE n # m
    <3>1. /\ result'[n] = result[n]
          /\ pc'[n] = pc[n]
          /\ casValid'[n] => casValid[n]
      BY <2>2 DEF TypeOK
    <3> QED
      BY <3>1 DEF BufferOK, TypeOK
  <2> QED
    BY <2>1, <2>2
<1> QED
  BY <1>1, <1>2

\* ExpireCas takes validity away and gives none.
LEMMA ExpireCasTyped ==
  ASSUME TypeOK, NEW p
  PROVE  /\ ExpireCas(p) \in [Mounts -> BOOLEAN]
         /\ \A n \in Mounts : ExpireCas(p)[n] => casValid[n]
BY DEF ExpireCas, TypeOK

-----------------------------------------------------------------------------
(***************************************************************************)
(* Type correctness, action by action.                                     *)
(***************************************************************************)

\* A call that fills no buffer, stores none, and is followed by a call that
\* needs none, leaves the buffers right.
LEMMA NoBufferKept ==
  ASSUME NEW m \in Mounts, TypeOK,
         pc' \in [Mounts -> Calls \cup Rest],
         \A n \in Mounts \ {m} : pc'[n] = pc[n],
         result' = [result EXCEPT ![m] = Absent],
         pc'[m] \notin {"replace_stat", "replace_dentry", "store_block"},
         casValid' \in [Mounts -> BOOLEAN],
         \A n \in Mounts : casValid'[n] => casValid[n],
         ~casValid'[m]
  PROVE  /\ result' = [n \in Mounts |-> result'[n]]
         /\ \A n \in Mounts : BufferOK(n)'
<1>1. Absent \in Buffered(pc'[m])
  BY DEF Buffered
<1> QED
  BY <1>1, BuffersKept

\* Between two handlers' read-modify-writes the buffer holds nothing.
LEMMA EmptyBuffer ==
  ASSUME NEW m \in Mounts, TypeOK,
         pc[m] \notin {"replace_stat", "replace_dentry", "store_block"}
  PROVE  /\ result = [result EXCEPT ![m] = Absent]
         /\ ~casValid[m]
<1>1. result[m] = Absent
  BY DEF TypeOK, Buffered
<1>2. [result EXCEPT ![m] = Absent] = [n \in Mounts |-> result[n]]
  BY <1>1 DEF TypeOK
<1> QED
  BY <1>2 DEF TypeOK

LEMMA GetattrTyped ==
  ASSUME NEW m \in Mounts, TypeOK, getattr(m)
  PROVE  TypeOK'
<1> DEFINE q == req[m]
<1>1. q \in RequestDocs
  BY DEF TypeOK
<1>2. PICK o \in Outcomes :
        LET r    == IF q.path \in LongPaths THEN "+ENAMETOOLONG"
                    ELSE Reply(o, Exists(stats, q.path))
            type == IF r = "ok" THEN stats[q.path].type ELSE "none"
            seen == IF q.op = "chmod" THEN [q EXCEPT !.type = type] ELSE q
        IN  Resume(m, seen, AfterLookup(q, r, type), r)
  BY DEF getattr
<1> DEFINE r    == IF q.path \in LongPaths THEN "+ENAMETOOLONG"
                   ELSE Reply(o, Exists(stats, q.path))
           type == IF r = "ok" THEN stats[q.path].type ELSE "none"
           seen == IF q.op = "chmod" THEN [q EXCEPT !.type = type] ELSE q
           next == AfterLookup(q, r, type)
<1>3. r \in Reports /\ (r = "ok" => Exists(stats, q.path))
  <2>1. Reply(o, Exists(stats, q.path)) = "ok" => Exists(stats, q.path)
    BY DEF Reply
  <2> QED
    BY <2>1, ReplyTyped DEF Reports
<1>4. type \in Types
  BY <1>1, <1>3 DEF TypeOK, Exists, StatDocs, RequestDocs, Types
<1>5. seen \in RequestDocs
  BY <1>1, <1>4 DEF RequestDocs
<1>6. /\ next \in Calls \cup Rest
      /\ next \notin {"replace_stat", "replace_dentry", "store_block"}
  BY AfterLookupTyped
<1>7. Resume(m, seen, next, r)
  BY <1>2
<1> HIDE DEF seen, next, r
<1>8. /\ pc' \in [Mounts -> Calls \cup Rest]
      /\ req' \in [Mounts -> RequestDocs]
      /\ fresult' \in [Mounts -> Codes]
      /\ pc'[m] = next
      /\ \A n \in Mounts \ {m} : pc'[n] = pc[n]
  BY <1>3, <1>5, <1>6, <1>7, ResumeTyped
<1>9. /\ result' = [n \in Mounts |-> result'[n]]
      /\ \A n \in Mounts : BufferOK(n)'
  BY <1>6, <1>8, EmptyBuffer, NoBufferKept DEF getattr, TypeOK
<1> QED
  BY <1>8, <1>9 DEF TypeOK, getattr, store, BufferOK

\* The common part of the calls that follow the table After.
LEMMA CallResumes ==
  ASSUME NEW m \in Mounts, NEW at, NEW r \in Reports, TypeOK,
         Resume(m, req[m], After(req[m].op, at, r), r)
  PROVE  /\ pc' \in [Mounts -> Calls \cup Rest]
         /\ req' \in [Mounts -> RequestDocs]
         /\ fresult' \in [Mounts -> Codes]
         /\ pc'[m] = After(req[m].op, at, r)
         /\ \A n \in Mounts \ {m} : pc'[n] = pc[n]
<1>1. req[m] \in RequestDocs
  BY DEF TypeOK
<1>2. After(req[m].op, at, r) \in Calls \cup Rest
  BY AfterTyped
<1> QED
  BY <1>1, <1>2, ResumeTyped

LEMMA OpenTyped ==
  ASSUME NEW m \in Mounts, TypeOK, open(m)
  PROVE  TypeOK'
<1>1. PICK r \in Reports : Resume(m, req[m], After(req[m].op, "open", r), r)
  BY ReplyTyped DEF open, Reports
<1>2. After(req[m].op, "open", r)
        \notin {"replace_stat", "replace_dentry", "store_block"}
  BY AfterStores
<1>3. /\ pc' \in [Mounts -> Calls \cup Rest]
      /\ req' \in [Mounts -> RequestDocs]
      /\ fresult' \in [Mounts -> Codes]
      /\ pc'[m] = After(req[m].op, "open", r)
      /\ \A n \in Mounts \ {m} : pc'[n] = pc[n]
  BY <1>1, CallResumes
<1>4. /\ result' = [n \in Mounts |-> result'[n]]
      /\ \A n \in Mounts : BufferOK(n)'
  BY <1>2, <1>3, EmptyBuffer, NoBufferKept DEF open, TypeOK
<1> QED
  BY <1>3, <1>4 DEF TypeOK, open, store, BufferOK

LEMMA GetStatTyped ==
  ASSUME NEW m \in Mounts, TypeOK, get_stat(m)
  PROVE  TypeOK'
<1> DEFINE p == req[m].path
           next(r) == After(req[m].op, "get_stat", r)
<1>1. p \in Paths
  BY DEF TypeOK, RequestDocs
<1>2. PICK r \in Reports :
        /\ r = "ok" => Exists(stats, p)
        /\ Resume(m, req[m], next(r), r)
        /\ result' = [result EXCEPT ![m] =
                        IF next(r) = "replace_stat" THEN stats[p] ELSE Absent]
        /\ casValid' = [casValid EXCEPT ![m] = (next(r) = "replace_stat")]
  BY ReplyTyped DEF get_stat, Reports, Reply
<1>3. /\ pc' \in [Mounts -> Calls \cup Rest]
      /\ req' \in [Mounts -> RequestDocs]
      /\ fresult' \in [Mounts -> Codes]
      /\ pc'[m] = next(r)
      /\ \A n \in Mounts \ {m} : pc'[n] = pc[n]
  BY <1>2, CallResumes
<1> DEFINE doc == IF next(r) = "replace_stat" THEN stats[p] ELSE Absent
<1>4. doc \in Buffered(pc'[m])
  <2>1. CASE next(r) = "replace_stat"
    <3>1. r = "ok"
      BY <2>1, AfterStores
    <3>2. stats[p] \in StatDocs
      BY <1>1, <1>2, <3>1 DEF TypeOK, Exists
    <3> QED
      BY <1>3, <2>1, <3>2 DEF Buffered
  <2>2. CASE next(r) # "replace_stat"
    <3>1. next(r) \notin {"replace_dentry", "store_block"}
      BY AfterStores
    <3> QED
      BY <1>3, <2>2, <3>1 DEF Buffered
  <2> QED
    BY <2>1, <2>2
<1>5. /\ casValid' \in [Mounts -> BOOLEAN]
      /\ \A n \in Mounts \ {m} : casValid'[n] => casValid[n]
      /\ casValid'[m] => pc'[m] = "replace_stat"
  BY <1>2, <1>3 DEF TypeOK
<1>6. /\ result' = [n \in Mounts |-> result'[n]]
      /\ \A n \in Mounts : BufferOK(n)'
  <2>1. result' = [result EXCEPT ![m] = doc]
    BY <1>2
  <2> HIDE DEF doc, next
  <2> QED
    BY <1>3, <1>4, <1>5, <2>1, BuffersKept
<1> QED
  BY <1>3, <1>5, <1>6 DEF TypeOK, get_stat, store, BufferOK

\* The documents that are stored back are documents.
LEMMA UpdatedStatTyped ==
  ASSUME NEW q \in RequestDocs, NEW s \in StatDocs
  PROVE  UpdatedStat(q, s) \in StatDocs
<1>1. /\ q.type \in Types
      /\ q.perm \in Perms
      /\ q.off + q.len \in Nat
  BY DEF RequestDocs
<1>2. /\ [s EXCEPT !.type = q.type, !.perm = q.perm] \in StatDocs
      /\ [s EXCEPT !.size = q.off + q.len] \in StatDocs
  BY <1>1 DEF StatDocs
<1> QED
  BY <1>2 DEF UpdatedStat

LEMMA UpdatedChildrenTyped ==
  ASSUME NEW q \in RequestDocs, NEW children \in ChildBags
  PROVE  UpdatedChildren(q, children) \in ChildBags
<1>1. q.path \in Paths
  BY DEF RequestDocs
<1>2. \A n \in 0 .. MaxCopies :
        (IF n < MaxCopies THEN n + 1 ELSE n) \in 0 .. MaxCopies
  BY DataAssumption
<1>3. 0 \in 0 .. MaxCopies
  BY DataAssumption
<1> QED
  BY <1>1, <1>2, <1>3 DEF UpdatedChildren, ChildBags

LEMMA UpdatedLengthTyped ==
  ASSUME NEW q \in RequestDocs, NEW len \in Nat \cup {Absent}
  PROVE  UpdatedLength(q, len) \in Nat \cup {Absent}
BY DEF UpdatedLength, Grows, Nupdate, RequestDocs

LEMMA NoChildrenTyped == NoChildren \in ChildBags
BY DataAssumption DEF NoChildren, ChildBags

LEMMA ReplaceStatTyped ==
  ASSUME NEW m \in Mounts, TypeOK, replace_stat(m)
  PROVE  TypeOK'
<1> DEFINE p == req[m].path
<1>1. p \in Paths /\ req[m] \in RequestDocs
  BY DEF TypeOK, RequestDocs
<1>2. PICK r \in Reports :
        Resume(m, req[m], After(req[m].op, "replace_stat", r), r)
  BY ReplyTyped DEF replace_stat, Reports
<1>3. /\ pc' \in [Mounts -> Calls \cup Rest]
      /\ req' \in [Mounts -> RequestDocs]
      /\ fresult' \in [Mounts -> Codes]
      /\ pc'[m] = After(req[m].op, "replace_stat", r)
      /\ \A n \in Mounts \ {m} : pc'[n] = pc[n]
  BY <1>2, CallResumes
<1>4. After(req[m].op, "replace_stat", r)
        \notin {"replace_stat", "replace_dentry", "store_block"}
  BY AfterStores
<1>5. /\ casValid' \in [Mounts -> BOOLEAN]
      /\ \A n \in Mounts : casValid'[n] => casValid[n]
      /\ ~casValid'[m]
  <2>1. \/ casValid' = [ExpireCas(p) EXCEPT ![m] = FALSE]
        \/ casValid' = [casValid EXCEPT ![m] = FALSE]
    BY DEF replace_stat
  <2>2. /\ ExpireCas(p) \in [Mounts -> BOOLEAN]
        /\ \A n \in Mounts : ExpireCas(p)[n] => casValid[n]
    BY ExpireCasTyped
  <2>3. casValid \in [Mounts -> BOOLEAN]
    BY DEF TypeOK
  <2> QED
    BY <2>1, <2>2, <2>3
<1>6. result' = [result EXCEPT ![m] = Absent]
  BY DEF replace_stat
<1>7. /\ result' = [n \in Mounts |-> result'[n]]
      /\ \A n \in Mounts : BufferOK(n)'
  BY <1>3, <1>4, <1>5, <1>6, NoBufferKept
<1>8. stats' \in [Paths -> StatDocs \cup {Absent}]
  <2>1. result[m] \in StatDocs
    BY DEF TypeOK, Buffered, replace_stat
  <2>2. UpdatedStat(req[m], result[m]) \in StatDocs
    BY <1>1, <2>1, UpdatedStatTyped
  <2>3. \/ stats' = [stats EXCEPT ![p] = UpdatedStat(req[m], result[m])]
        \/ stats' = stats
    BY DEF replace_stat
  <2> QED
    BY <1>1, <2>2, <2>3 DEF TypeOK
<1> QED
  BY <1>3, <1>5, <1>7, <1>8 DEF TypeOK, replace_stat, BufferOK

LEMMA InsertStatTyped ==
  ASSUME NEW m \in Mounts, TypeOK, insert_stat(m)
  PROVE  TypeOK'
<1> DEFINE p == req[m].path
<1>1. p \in Paths
  BY DEF TypeOK, RequestDocs
<1>2. PICK r \in Reports : Resume(m, req[m], After(req[m].op, "insert_stat", r), r)
  BY ReplyTyped DEF insert_stat, Reports
<1>3. /\ pc' \in [Mounts -> Calls \cup Rest]
      /\ req' \in [Mounts -> RequestDocs]
      /\ fresult' \in [Mounts -> Codes]
      /\ pc'[m] = After(req[m].op, "insert_stat", r)
      /\ \A n \in Mounts \ {m} : pc'[n] = pc[n]
  BY <1>2, CallResumes
<1>4. After(req[m].op, "insert_stat", r)
        \notin {"replace_stat", "replace_dentry", "store_block"}
  BY AfterStores
<1>5. /\ casValid' \in [Mounts -> BOOLEAN]
      /\ \A n \in Mounts : casValid'[n] => casValid[n]
      /\ ~casValid'[m]
  BY EmptyBuffer, ExpireCasTyped DEF insert_stat, TypeOK
<1>6. result' = [result EXCEPT ![m] = Absent]
  BY EmptyBuffer DEF insert_stat
<1>7. /\ result' = [n \in Mounts |-> result'[n]]
      /\ \A n \in Mounts : BufferOK(n)'
  BY <1>3, <1>4, <1>5, <1>6, NoBufferKept
<1>8. stats' \in [Paths -> StatDocs \cup {Absent}]
  <2>1. [type |-> req[m].type, perm |-> req[m].perm, size |-> 0] \in StatDocs
    BY DEF TypeOK, RequestDocs, StatDocs
  <2> QED
    BY <1>1, <2>1 DEF TypeOK, insert_stat
<1> QED
  BY <1>3, <1>5, <1>7, <1>8 DEF TypeOK, insert_stat, BufferOK

LEMMA RemoveStatTyped ==
  ASSUME NEW m \in Mounts, TypeOK, remove_stat(m)
  PROVE  TypeOK'
<1> DEFINE p == req[m].path
<1>1. p \in Paths
  BY DEF TypeOK, RequestDocs
<1>2. PICK r \in Reports : Resume(m, req[m], After(req[m].op, "remove_stat", r), r)
  BY ReplyTyped DEF remove_stat, Reports
<1>3. /\ pc' \in [Mounts -> Calls \cup Rest]
      /\ req' \in [Mounts -> RequestDocs]
      /\ fresult' \in [Mounts -> Codes]
      /\ pc'[m] = After(req[m].op, "remove_stat", r)
      /\ \A n \in Mounts \ {m} : pc'[n] = pc[n]
  BY <1>2, CallResumes
<1>4. After(req[m].op, "remove_stat", r)
        \notin {"replace_stat", "replace_dentry", "store_block"}
  BY AfterStores
<1>5. /\ casValid' \in [Mounts -> BOOLEAN]
      /\ \A n \in Mounts : casValid'[n] => casValid[n]
      /\ ~casValid'[m]
  BY EmptyBuffer, ExpireCasTyped DEF remove_stat, TypeOK
<1>6. result' = [result EXCEPT ![m] = Absent]
  BY EmptyBuffer DEF remove_stat
<1>7. /\ result' = [n \in Mounts |-> result'[n]]
      /\ \A n \in Mounts : BufferOK(n)'
  BY <1>3, <1>4, <1>5, <1>6, NoBufferKept
<1>8. stats' \in [Paths -> StatDocs \cup {Absent}]
  BY <1>1 DEF TypeOK, remove_stat
<1> QED
  BY <1>3, <1>5, <1>7, <1>8 DEF TypeOK, remove_stat, BufferOK

LEMMA AddNewDentryTyped ==
  ASSUME NEW m \in Mounts, TypeOK, add_new_dentry(m)
  PROVE  TypeOK'
<1> DEFINE p == req[m].path
<1>1. p \in Paths
  BY DEF TypeOK, RequestDocs
<1>2. PICK r \in Reports : Resume(m, req[m], After(req[m].op, "add_new_dentry", r), r)
  BY ReplyTyped DEF add_new_dentry, Reports
<1>3. /\ pc' \in [Mounts -> Calls \cup Rest]
      /\ req' \in [Mounts -> RequestDocs]
      /\ fresult' \in [Mounts -> Codes]
      /\ pc'[m] = After(req[m].op, "add_new_dentry", r)
      /\ \A n \in Mounts \ {m} : pc'[n] = pc[n]
  BY <1>2, CallResumes
<1>4. After(req[m].op, "add_new_dentry", r)
        \notin {"replace_stat", "replace_dentry", "store_block"}
  BY AfterStores
<1>5. /\ casValid' \in [Mounts -> BOOLEAN]
      /\ \A n \in Mounts : casValid'[n] => casValid[n]
      /\ ~casValid'[m]
  BY EmptyBuffer DEF add_new_dentry, TypeOK
<1>6. result' = [result EXCEPT ![m] = Absent]
  BY EmptyBuffer DEF add_new_dentry
<1>7. /\ result' = [n \in Mounts |-> result'[n]]
      /\ \A n \in Mounts : BufferOK(n)'
  BY <1>3, <1>4, <1>5, <1>6, NoBufferKept
<1>8. dentries' \in [Paths -> ChildBags \cup {Absent}]
  BY <1>1, NoChildrenTyped DEF TypeOK, add_new_dentry
<1> QED
  BY <1>3, <1>5, <1>7, <1>8 DEF TypeOK, add_new_dentry, BufferOK

LEMMA RemoveDentryTyped ==
  ASSUME NEW m \in Mounts, TypeOK, remove_dentry(m)
  PROVE  TypeOK'
<1> DEFINE p == req[m].path
<1>1. p \in Paths
  BY DEF TypeOK, RequestDocs
<1>2. PICK r \in Reports : Resume(m, req[m], After(req[m].op, "remove_dentry", r), r)
  BY ReplyTyped DEF remove_dentry, Reports
<1>3. /\ pc' \in [Mounts -> Calls \cup Rest]
      /\ req' \in [Mounts -> RequestDocs]
      /\ fresult' \in [Mounts -> Codes]
      /\ pc'[m] = After(req[m].op, "remove_dentry", r)
      /\ \A n \in Mounts \ {m} : pc'[n] = pc[n]
  BY <1>2, CallResumes
<1>4. After(req[m].op, "remove_dentry", r)
        \notin {"replace_stat", "replace_dentry", "store_block"}
  BY AfterStores
<1>5. /\ casValid' \in [Mounts -> BOOLEAN]
      /\ \A n \in Mounts : casValid'[n] => casValid[n]
      /\ ~casValid'[m]
  BY EmptyBuffer DEF remove_dentry, TypeOK
<1>6. result' = [result EXCEPT ![m] = Absent]
  BY EmptyBuffer DEF remove_dentry
<1>7. /\ result' = [n \in Mounts |-> result'[n]]
      /\ \A n \in Mounts : BufferOK(n)'
  BY <1>3, <1>4, <1>5, <1>6, NoBufferKept
<1>8. dentries' \in [Paths -> ChildBags \cup {Absent}]
  BY <1>1 DEF TypeOK, remove_dentry
<1> QED
  BY <1>3, <1>5, <1>7, <1>8 DEF TypeOK, remove_dentry, BufferOK

LEMMA RemoveDataTyped ==
  ASSUME NEW m \in Mounts, TypeOK, remove_data(m)
  PROVE  TypeOK'
<1> DEFINE p == req[m].path
<1>1. p \in Paths
  BY DEF TypeOK, RequestDocs
<1>2. PICK r \in Reports : Resume(m, req[m], After(req[m].op, "remove_data", r), r)
  BY ReplyTyped DEF remove_data, Reports
<1>3. /\ pc' \in [Mounts -> Calls \cup Rest]
      /\ req' \in [Mounts -> RequestDocs]
      /\ fresult' \in [Mounts -> Codes]
      /\ pc'[m] = After(req[m].op, "remove_data", r)
      /\ \A n \in Mounts \ {m} : pc'[n] = pc[n]
  BY <1>2, CallResumes
<1>4. After(req[m].op, "remove_data", r)
        \notin {"replace_stat", "replace_dentry", "store_block"}
  BY AfterStores
<1>5. /\ casValid' \in [Mounts -> BOOLEAN]
      /\ \A n \in Mounts : casValid'[n] => casValid[n]
      /\ ~casValid'[m]
  BY EmptyBuffer DEF remove_data, TypeOK
<1>6. result' = [result EXCEPT ![m] = Absent]
  BY EmptyBuffer DEF remove_data
<1>7. /\ result' = [n \in Mounts |-> result'[n]]
      /\ \A n \in Mounts : BufferOK(n)'
  BY <1>3, <1>4, <1>5, <1>6, NoBufferKept
<1>8. blocks' \in [Paths -> Nat \cup {Absent}]
  BY <1>1 DEF TypeOK, remove_data
<1> QED
  BY <1>3, <1>5, <1>7, <1>8 DEF TypeOK, remove_data, BufferOK

LEMMA ReplaceDentryTyped ==
  ASSUME NEW m \in Mounts, TypeOK, replace_dentry(m)
  PROVE  TypeOK'
<1> DEFINE p == req[m].path
<1>1. p \in Paths
  BY DEF TypeOK, RequestDocs
<1>2. PICK r \in Reports : Resume(m, req[m], After(req[m].op, "replace_dentry", r), r)
  BY ReplyTyped DEF replace_dentry, Reports
<1>3. /\ pc' \in [Mounts -> Calls \cup Rest]
      /\ req' \in [Mounts -> RequestDocs]
      /\ fresult' \in [Mounts -> Codes]
      /\ pc'[m] = After(req[m].op, "replace_dentry", r)
      /\ \A n \in Mounts \ {m} : pc'[n] = pc[n]
  BY <1>2, CallResumes
<1>4. After(req[m].op, "replace_dentry", r)
        \notin {"replace_stat", "replace_dentry", "store_block"}
  BY AfterStores
<1>5. /\ casValid' \in [Mounts -> BOOLEAN]
      /\ \A n \in Mounts : casValid'[n] => casValid[n]
      /\ ~casValid'[m]
  BY DEF replace_dentry, TypeOK
<1>6. result' = [result EXCEPT ![m] = Absent]
  BY DEF replace_dentry
<1>7. /\ result' = [n \in Mounts |-> result'[n]]
      /\ \A n \in Mounts : BufferOK(n)'
  BY <1>3, <1>4, <1>5, <1>6, NoBufferKept
<1>8. dentries' \in [Paths -> ChildBags \cup {Absent}]
  <2>1. result[m] \in ChildBags /\ req[m] \in RequestDocs
    BY DEF TypeOK, Buffered, replace_dentry
  <2>2. UpdatedChildren(req[m], result[m]) \in ChildBags
    BY <2>1, UpdatedChildrenTyped
  <2>3. DirOf(req[m]) \in Paths
    BY <1>1, PathAssumption DEF DirOf
  <2> QED
    BY <2>2, <2>3 DEF TypeOK, replace_dentry
<1> QED
  BY <1>3, <1>5, <1>7, <1>8 DEF TypeOK, replace_dentry, BufferOK

LEMMA StoreBlockTyped ==
  ASSUME NEW m \in Mounts, TypeOK, store_block(m)
  PROVE  TypeOK'
<1> DEFINE p == req[m].path
<1>1. p \in Paths
  BY DEF TypeOK, RequestDocs
<1>2. PICK r \in Reports : Resume(m, req[m], After(req[m].op, "store_block", r), r)
  BY ReplyTyped DEF store_block, Reports
<1>3. /\ pc' \in [Mounts -> Calls \cup Rest]
      /\ req' \in [Mounts -> RequestDocs]
      /\ fresult' \in [Mounts -> Codes]
      /\ pc'[m] = After(req[m].op, "store_block", r)
      /\ \A n \in Mounts \ {m} : pc'[n] = pc[n]
  BY <1>2, CallResumes
<1>4. After(req[m].op, "store_block", r)
        \notin {"replace_stat", "replace_dentry", "store_block"}
  BY AfterStores
<1>5. /\ casValid' \in [Mounts -> BOOLEAN]
      /\ \A n \in Mounts : casValid'[n] => casValid[n]
      /\ ~casValid'[m]
  BY DEF store_block, TypeOK
<1>6. result' = [result EXCEPT ![m] = Absent]
  BY DEF store_block
<1>7. /\ result' = [n \in Mounts |-> result'[n]]
      /\ \A n \in Mounts : BufferOK(n)'
  BY <1>3, <1>4, <1>5, <1>6, NoBufferKept
<1>8. blocks' \in [Paths -> Nat \cup {Absent}]
  <2>1. result[m] \in Nat \cup {Absent} /\ req[m] \in RequestDocs
    BY DEF TypeOK, Buffered, store_block
  <2>2. UpdatedLength(req[m], result[m]) \in Nat \cup {Absent}
    BY <2>1, UpdatedLengthTyped
  <2>3. \/ blocks' = [blocks EXCEPT ![p] = UpdatedLength(req[m], result[m])]
        \/ blocks' = blocks
    BY DEF store_block
  <2> QED
    BY <1>1, <2>2, <2>3 DEF TypeOK
<1> QED
  BY <1>3, <1>5, <1>7, <1>8 DEF TypeOK, store_block, BufferOK

LEMMA GetDentryTyped ==
  ASSUME NEW m \in Mounts, TypeOK, get_dentry(m)
  PROVE  TypeOK'
<1> DEFINE d == DirOf(req[m])
           next(r) == After(req[m].op, "get_dentry", r)
<1>1. d \in Paths
  BY PathAssumption DEF TypeOK, RequestDocs, DirOf
<1>2. PICK r \in Reports :
        /\ r = "ok" => Exists(dentries, d)
        /\ Resume(m, req[m], next(r), r)
        /\ result' = [result EXCEPT ![m] =
              IF next(r) = "replace_dentry" THEN dentries[d] ELSE Absent]
  BY ReplyTyped DEF get_dentry, Reports, Reply
<1>3. /\ pc' \in [Mounts -> Calls \cup Rest]
      /\ req' \in [Mounts -> RequestDocs]
      /\ fresult' \in [Mounts -> Codes]
      /\ pc'[m] = next(r)
      /\ \A n \in Mounts \ {m} : pc'[n] = pc[n]
  BY <1>2, CallResumes
<1> DEFINE doc == IF next(r) = "replace_dentry" THEN dentries[d] ELSE Absent
<1>4. doc \in Buffered(pc'[m])
  <2>1. CASE next(r) = "replace_dentry"
    <3>1. r = "ok"
      BY <2>1, AfterStores
    <3>2. dentries[d] \in ChildBags
      BY <1>1, <1>2, <3>1 DEF TypeOK, Exists
    <3> QED
      BY <1>3, <2>1, <3>2 DEF Buffered
  <2>2. CASE next(r) # "replace_dentry"
    <3>1. next(r) \notin {"replace_stat", "store_block"}
      BY AfterStores
    <3> QED
      BY <1>3, <2>2, <3>1 DEF Buffered
  <2> QED
    BY <2>1, <2>2
<1>5. casValid' = casValid /\ ~casValid[m]
  BY EmptyBuffer DEF get_dentry
<1>6. /\ result' = [n \in Mounts |-> result'[n]]
      /\ \A n \in Mounts : BufferOK(n)'
  <2>1. result' = [result EXCEPT ![m] = doc]
    BY <1>2
  <2>2. casValid' \in [Mounts -> BOOLEAN]
    BY <1>5 DEF TypeOK
  <2> HIDE DEF doc, next
  <2> QED
    BY <1>3, <1>4, <1>5, <2>1, <2>2, BuffersKept
<1> QED
  BY <1>3, <1>5, <1>6 DEF TypeOK, get_dentry, store, BufferOK

LEMMA GetBlockTyped ==
  ASSUME NEW m \in Mounts, TypeOK, get_block(m)
  PROVE  TypeOK'
<1> DEFINE p == req[m].path
           next(r) == After(req[m].op, "get_block", r)
           doc(r) == IF next(r) = "store_block" /\ r = "ok"
                     THEN blocks[p] ELSE Absent
<1>1. p \in Paths
  BY DEF TypeOK, RequestDocs
<1>2. PICK r \in Reports :
        /\ Resume(m, req[m], next(r), r)
        /\ result' = [result EXCEPT ![m] = doc(r)]
  <2> DEFINE report(o) == BlockReport(req[m], Reply(o, Exists(blocks, p)))
  <2>1. \A o : report(o) \in Reports
    BY ReplyTyped DEF Reports, BlockReport
  <2>2. \E o \in Outcomes :
          /\ Resume(m, req[m], next(report(o)), report(o))
          /\ result' = [result EXCEPT ![m] = doc(report(o))]
    BY DEF get_block
  <2> HIDE DEF next, doc, report
  <2> QED
    BY <2>1, <2>2
<1>3. /\ pc' \in [Mounts -> Calls \cup Rest]
      /\ req' \in [Mounts -> RequestDocs]
      /\ fresult' \in [Mounts -> Codes]
      /\ pc'[m] = next(r)
      /\ \A n \in Mounts \ {m} : pc'[n] = pc[n]
  BY <1>2, CallResumes
<1>4. doc(r) \in Buffered(pc'[m])
  <2>1. CASE next(r) = "store_block"
    <3>1. blocks[p] \in Nat \cup {Absent}
      BY <1>1 DEF TypeOK
    <3> QED
      BY <1>3, <2>1, <3>1 DEF Buffered
  <2>2. CASE next(r) # "store_block"
    <3>1. next(r) \notin {"replace_stat", "replace_dentry"}
      BY AfterStores
    <3> QED
      BY <1>3, <2>2, <3>1 DEF Buffered
  <2> QED
    BY <2>1, <2>2
<1>5. casValid' = casValid /\ ~casValid[m]
  BY EmptyBuffer DEF get_block
<1>6. /\ result' = [n \in Mounts |-> result'[n]]
      /\ \A n \in Mounts : BufferOK(n)'
  <2>1. casValid' \in [Mounts -> BOOLEAN]
    BY <1>5 DEF TypeOK
  <2> HIDE DEF doc, next
  <2> QED
    BY <1>2, <1>3, <1>4, <1>5, <2>1, BuffersKept
<1> QED
  BY <1>3, <1>5, <1>6 DEF TypeOK, get_block, store, BufferOK

LEMMA RefuseBlockTyped ==
  ASSUME NEW m \in Mounts, TypeOK, refuse_block(m)
  PROVE  TypeOK'
<1>1. "idle" \in Calls \cup Rest /\ "EFBIG" \in Reports
  BY DEF Rest, Reports
<1>2. req[m] \in RequestDocs
  BY DEF TypeOK
<1>3. /\ pc' \in [Mounts -> Calls \cup Rest]
      /\ req' \in [Mounts -> RequestDocs]
      /\ fresult' \in [Mounts -> Codes]
      /\ pc'[m] = "idle"
      /\ \A n \in Mounts \ {m} : pc'[n] = pc[n]
  BY <1>1, <1>2, ResumeTyped DEF refuse_block
<1>4. /\ result' = [n \in Mounts |-> result'[n]]
      /\ \A n \in Mounts : BufferOK(n)'
  BY <1>3, EmptyBuffer, NoBufferKept DEF refuse_block, TypeOK
<1> QED
  BY <1>3, <1>4 DEF TypeOK, refuse_block, store, BufferOK

-----------------------------------------------------------------------------
(***************************************************************************)
(* Requests, mounts, unmounts and deaths.                                  *)
(***************************************************************************)

LEMMA RequestTyped ==
  ASSUME NEW op \in OpNames \cup {"mount", "none"}, NEW p \in Paths,
         NEW n \in Nat, NEW k \in Nat, NEW t \in Types, NEW w \in Perms
  PROVE  Request(op, p, n, k, t, w) \in RequestDocs
BY DEF Request, RequestDocs

LEMMA RequestsTyped == Requests \subseteq RequestDocs
<1>1. /\ Offsets \subseteq Nat /\ Lengths \subseteq Nat
      /\ MkdirTypes \subseteq Types /\ "reg" \in Types /\ "none" \in Types
      /\ DefaultPerm \in Perms
  BY DataAssumption DEF Types
<1>2. PlainRequests \subseteq RequestDocs
  BY <1>1, RequestTyped DEF PlainRequests, PlainOps, OpNames
<1>3. TransferRequests \subseteq RequestDocs
  BY <1>1, RequestTyped DEF TransferRequests, OpNames
<1>4. TruncateRequests \subseteq RequestDocs
  BY <1>1, RequestTyped DEF TruncateRequests, OpNames
<1>5. ModeRequests \subseteq RequestDocs
  BY <1>1, RequestTyped DEF ModeRequests, OpNames
<1> QED
  BY <1>2, <1>3, <1>4, <1>5 DEF Requests

LEMMA BeginTyped ==
  ASSUME NEW m \in Mounts, TypeOK, Begin(m)
  PROVE  TypeOK'
<1>1. /\ pc' \in [Mounts -> Calls \cup Rest]
      /\ req' \in [Mounts -> RequestDocs]
      /\ fresult' \in [Mounts -> Codes]
      /\ pc'[m] = "getattr"
      /\ \A n \in Mounts \ {m} : pc'[n] = pc[n]
  BY RequestsTyped DEF Begin, TypeOK, Calls, Codes
<1>2. /\ result' = [n \in Mounts |-> result'[n]]
      /\ \A n \in Mounts : BufferOK(n)'
  BY <1>1, EmptyBuffer, NoBufferKept DEF Begin, TypeOK
<1> QED
  BY <1>1, <1>2 DEF TypeOK, Begin, store, BufferOK

LEMMA MountTyped ==
  ASSUME NEW m \in Mounts, TypeOK, Mount(m)
  PROVE  TypeOK'
<1>1. MountRequest \in RequestDocs
  BY PathAssumption, DataAssumption, RequestTyped DEF MountRequest, Types
<1>2. /\ pc' \in [Mounts -> Calls \cup Rest]
      /\ req' \in [Mounts -> RequestDocs]
      /\ fresult' \in [Mounts -> Codes]
      /\ pc'[m] = "getattr"
      /\ \A n \in Mounts \ {m} : pc'[n] = pc[n]
  BY <1>1 DEF Mount, TypeOK, Calls, Codes
<1>3. /\ result' = [n \in Mounts |-> result'[n]]
      /\ \A n \in Mounts : BufferOK(n)'
  BY <1>2, EmptyBuffer, NoBufferKept DEF Mount, TypeOK
<1> QED
  BY <1>2, <1>3 DEF TypeOK, Mount, store, BufferOK

LEMMA UnmountTyped ==
  ASSUME NEW m \in Mounts, TypeOK, Unmount(m)
  PROVE  TypeOK'
<1>1. /\ pc' \in [Mounts -> Calls \cup Rest]
      /\ fresult' \in [Mounts -> Codes]
      /\ pc'[m] = "down"
      /\ \A n \in Mounts \ {m} : pc'[n] = pc[n]
  BY DEF Unmount, TypeOK, Rest, Codes
<1>2. /\ result' = [n \in Mounts |-> result'[n]]
      /\ \A n \in Mounts : BufferOK(n)'
  BY <1>1, EmptyBuffer, NoBufferKept DEF Unmount, TypeOK
<1> QED
  BY <1>1, <1>2 DEF TypeOK, Unmount, store, BufferOK

LEMMA DieTyped ==
  ASSUME NEW m \in Mounts, TypeOK, Die(m)
  PROVE  TypeOK'
<1>1. /\ pc' \in [Mounts -> Calls \cup Rest]
      /\ req' \in [Mounts -> RequestDocs]
      /\ fresult' \in [Mounts -> Codes]
      /\ pc'[m] = "down"
      /\ \A n \in Mounts \ {m} : pc'[n] = pc[n]
  BY NoRequestTyped DEF Die, TypeOK, Rest, Codes
<1>2. /\ casValid' \in [Mounts -> BOOLEAN]
      /\ \A n \in Mounts : casValid'[n] => casValid[n]
      /\ ~casValid'[m]
  BY DEF Die, TypeOK
<1>3. /\ result' = [n \in Mounts |-> result'[n]]
      /\ \A n \in Mounts : BufferOK(n)'
  BY <1>1, <1>2, NoBufferKept DEF Die
<1> QED
  BY <1>1, <1>2, <1>3 DEF TypeOK, Die, store, BufferOK

LEMMA InitTyped == Init => TypeOK
BY NoRequestTyped DEF Init, TypeOK, Rest, Codes, Buffered

\* One step per action.
LEMMA NextTyped == TypeOK /\ [Next]_vars => TypeOK'
<1> SUFFICES ASSUME TypeOK, [Next]_vars
             PROVE  TypeOK'
  OBVIOUS
<1>1. CASE UNCHANGED vars
  BY <1>1 DEF vars, TypeOK
<1>2. ASSUME NEW m \in Mounts, StatsCall(m)
      PROVE  TypeOK'
  BY <1>2, GetattrTyped, OpenTyped, GetStatTyped, ReplaceStatTyped,
     InsertStatTyped, RemoveStatTyped DEF StatsCall
<1>3. ASSUME NEW m \in Mounts, DentriesCall(m)
      PROVE  TypeOK'
  BY <1>3, GetDentryTyped, ReplaceDentryTyped, AddNewDentryTyped,
     RemoveDentryTyped DEF DentriesCall
<1>4. ASSUME NEW m \in Mounts, BlocksCall(m)
      PROVE  TypeOK'
  BY <1>4, RefuseBlockTyped, GetBlockTyped, StoreBlockTyped,
     RemoveDataTyped DEF BlocksCall
<1>5. ASSUME NEW m \in Mounts, Crash(m) \/ update_block_overrun(m)
      PROVE  TypeOK'
  BY <1>5, DieTyped DEF Crash, update_block_overrun
<1> QED
  BY <1>1, <1>2, <1>3, <1>4, <1>5, BeginTyped, MountTyped, UnmountTyped
  DEF Next, Serve

\* Every reachable state is well typed; in particular a mount holds a document
\* only between the two halves of a read-modify-write, and then one of the
\* kind it is going to store.
THEOREM TypeCorrect == Spec => []TypeOK
<1>1. Init => TypeOK
  BY InitTyped
<1>2. TypeOK /\ [Next]_vars => TypeOK'
  BY NextTyped
<1> QED
  BY <1>1, <1>2, PTL DEF Spec

-----------------------------------------------------------------------------
(***************************************************************************)
(* No update of a stat document is lost, for any number of mounts and any  *)
(* faults.  The inductive invariant: a mount whose CAS is still valid has  *)
(* the stat document as it stands in its buffer.                           *)
(***************************************************************************)
CasHolds == \A m \in Mounts : casValid[m] => stats[req[m].path] = result[m]

\* What a step of m leaves alone of another mount.
Undisturbed(m) ==
  \A n \in Mounts \ {m} :
    /\ req'[n] = req[n]
    /\ result'[n] = result[n]
    /\ casValid'[n] =>
         casValid[n] /\ stats'[req[n].path] = stats[req[n].path]

LEMMA CasKept ==
  ASSUME NEW m \in Mounts, CasHolds, Undisturbed(m),
         casValid'[m] => stats'[req'[m].path] = result'[m]
  PROVE  CasHolds'
BY DEF CasHolds, Undisturbed

LEMMA RequestsApart ==
  ASSUME NEW m \in Mounts, NEW q, TypeOK, req' = [req EXCEPT ![m] = q]
  PROVE  \A n \in Mounts \ {m} : req'[n] = req[n]
BY DEF TypeOK

\* A step of m that leaves the stat documents and the CAS alone.
LEMMA CasKeptQuietly ==
  ASSUME NEW m \in Mounts, NEW q, NEW doc, TypeOK, CasHolds,
         pc[m] # "replace_stat",
         req' = [req EXCEPT ![m] = q],
         result' = [result EXCEPT ![m] = doc] \/ UNCHANGED result,
         UNCHANGED <<stats, casValid>>
  PROVE  CasHolds'
<1>1. \A n \in Mounts \ {m} : result'[n] = result[n]
  BY DEF TypeOK
<1>2. Undisturbed(m)
  BY <1>1, RequestsApart DEF Undisturbed
<1>3. ~casValid'[m]
  BY DEF TypeOK
<1> QED
  BY <1>2, <1>3, CasKept

\* A stat document is written or removed by m without a CAS of m's own.
LEMMA CasKeptByExpiry ==
  ASSUME NEW m \in Mounts, NEW q, NEW p \in Paths, NEW doc, TypeOK, CasHolds,
         pc[m] # "replace_stat",
         req' = [req EXCEPT ![m] = q],
         UNCHANGED result,
         stats' = [stats EXCEPT ![p] = doc],
         casValid' = ExpireCas(p)
  PROVE  CasHolds'
<1>1. \A n \in Mounts : casValid'[n] => casValid[n] /\ req[n].path # p
  BY DEF ExpireCas
<1>2. \A n \in Mounts : casValid'[n] => stats'[req[n].path] = stats[req[n].path]
  BY <1>1 DEF TypeOK, RequestDocs
<1>3. Undisturbed(m)
  BY <1>1, <1>2, RequestsApart DEF Undisturbed
<1>4. ~casValid'[m]
  BY <1>1 DEF TypeOK
<1> QED
  BY <1>3, <1>4, CasKept

LEMMA GetStatKeepsCas ==
  ASSUME NEW m \in Mounts, TypeOK, CasHolds, get_stat(m)
  PROVE  CasHolds'
<1> DEFINE p == req[m].path
           next(r) == After(req[m].op, "get_stat", r)
<1>1. PICK r :
        /\ Resume(m, req[m], next(r), r)
        /\ result' = [result EXCEPT ![m] =
                        IF next(r) = "replace_stat" THEN stats[p] ELSE Absent]
        /\ casValid' = [casValid EXCEPT ![m] = (next(r) = "replace_stat")]
  BY DEF get_stat
<1> HIDE DEF next
<1>2. req' = [req EXCEPT ![m] = IF next(r) \in Rest THEN NoRequest ELSE req[m]]
  BY <1>1 DEF Resume
<1>3. Undisturbed(m)
  <2>1. \A n \in Mounts \ {m} : req'[n] = req[n]
    BY <1>2, RequestsApart
  <2>2. \A n \in Mounts \ {m} : result'[n] = result[n] /\ casValid'[n] = casValid[n]
    BY <1>1 DEF TypeOK
  <2> QED
    BY <2>1, <2>2 DEF Undisturbed, get_stat, store
<1>4. ASSUME casValid'[m]
      PROVE  stats'[req'[m].path] = result'[m]
  <2>1. next(r) = "replace_stat"
    BY <1>1, <1>4 DEF TypeOK
  <2>2. req'[m] = req[m]
    BY <1>2, <2>1 DEF TypeOK, Rest
  <2>3. result'[m] = stats[p]
    BY <1>1, <2>1 DEF TypeOK
  <2> QED
    BY <2>2, <2>3 DEF get_stat, store
<1> QED
  BY <1>3, <1>4, CasKept

LEMMA ReplaceStatKeepsCas ==
  ASSUME NEW m \in Mounts, TypeOK, CasHolds, replace_stat(m)
  PROVE  CasHolds'
<1> DEFINE p == req[m].path
<1>1. PICK q : req' = [req EXCEPT ![m] = q]
  BY DEF replace_stat, Resume
<1>2. result' = [result EXCEPT ![m] = Absent]
  BY DEF replace_stat
<1>3. \/ /\ stats' = [stats EXCEPT ![p] = UpdatedStat(req[m], result[m])]
         /\ casValid' = [ExpireCas(p) EXCEPT ![m] = FALSE]
      \/ /\ stats' = stats
         /\ casValid' = [casValid EXCEPT ![m] = FALSE]
  BY DEF replace_stat
<1>4. ~casValid'[m]
  BY <1>3, ExpireCasTyped DEF TypeOK
<1>5. \A n \in Mounts \ {m} :
        casValid'[n] => casValid[n] /\ stats'[req[n].path] = stats[req[n].path]
  <2>1. CASE /\ stats' = [stats EXCEPT ![p] = UpdatedStat(req[m], result[m])]
             /\ casValid' = [ExpireCas(p) EXCEPT ![m] = FALSE]
    <3>1. \A n \in Mounts \ {m} : casValid'[n] => casValid[n] /\ req[n].path # p
      BY <2>1, ExpireCasTyped DEF ExpireCas
    <3>2. \A n \in Mounts : req[n].path \in Paths
      BY DEF TypeOK, RequestDocs
    <3> QED
      BY <2>1, <3>1, <3>2 DEF TypeOK
  <2>2. CASE stats' = stats /\ casValid' = [casValid EXCEPT ![m] = FALSE]
    BY <2>2 DEF TypeOK
  <2> QED
    BY <1>3, <2>1, <2>2
<1>6. Undisturbed(m)
  BY <1>1, <1>2, <1>5, RequestsApart DEF Undisturbed, TypeOK
<1> QED
  BY <1>4, <1>6, CasKept

LEMMA InsertStatKeepsCas ==
  ASSUME NEW m \in Mounts, TypeOK, CasHolds, insert_stat(m)
  PROVE  CasHolds'
<1> DEFINE p == req[m].path
           doc == [type |-> req[m].type, perm |-> req[m].perm, size |-> 0]
<1>1. PICK q : req' = [req EXCEPT ![m] = q]
  BY DEF insert_stat, Resume
<1>2. pc[m] # "replace_stat" /\ UNCHANGED result
  BY DEF insert_stat
<1>3. \/ stats' = [stats EXCEPT ![p] = doc] /\ casValid' = ExpireCas(p)
      \/ UNCHANGED <<stats, casValid>>
  BY DEF insert_stat
<1>4. p \in Paths
  BY DEF TypeOK, RequestDocs
<1> HIDE DEF p, doc
<1> QED
  BY <1>1, <1>2, <1>3, <1>4, CasKeptByExpiry, CasKeptQuietly

LEMMA RemoveStatKeepsCas ==
  ASSUME NEW m \in Mounts, TypeOK, CasHolds, remove_stat(m)
  PROVE  CasHolds'
<1> DEFINE p == req[m].path
<1>1. PICK q : req' = [req EXCEPT ![m] = q]
  BY DEF remove_stat, Resume
<1>2. pc[m] # "replace_stat" /\ UNCHANGED result
  BY DEF remove_stat
<1>3. \/ stats' = [stats EXCEPT ![p] = Absent] /\ casValid' = ExpireCas(p)
      \/ UNCHANGED <<stats, casValid>>
  BY DEF remove_stat
<1>4. p \in Paths
  BY DEF TypeOK, RequestDocs
<1> HIDE DEF p
<1> QED
  BY <1>1, <1>2, <1>3, <1>4, CasKeptByExpiry, CasKeptQuietly

\* Calls that do not touch a stat document.
LEMMA OtherCallsKeepCas ==
  ASSUME NEW m \in Mounts, TypeOK, CasHolds,
         getattr(m) \/ open(m) \/ DentriesCall(m) \/ BlocksCall(m)
  PROVE  CasHolds'
<1>1. /\ pc[m] # "replace_stat"
      /\ UNCHANGED <<stats, casValid>>
      /\ \E q : req' = [req EXCEPT ![m] = q]
      /\ UNCHANGED result \/ \E doc : result' = [result EXCEPT ![m] = doc]
  <2>1. CASE getattr(m)
    BY <2>1 DEF getattr, Resume, store
  <2>2. CASE open(m)
    BY <2>2 DEF open, Resume, store
  <2>3. CASE get_dentry(m)
    BY <2>3 DEF get_dentry, Resume, store
  <2>4. CASE replace_dentry(m)
    BY <2>4 DEF replace_dentry, Resume
  <2>5. CASE add_new_dentry(m)
    BY <2>5 DEF add_new_dentry, Resume
  <2>6. CASE remove_dentry(m)
    BY <2>6 DEF remove_dentry, Resume
  <2>7. CASE refuse_block(m)
    BY <2>7 DEF refuse_block, Resume, store
  <2>8. CASE get_block(m)
    BY <2>8 DEF get_block, Resume, store
  <2>9. CASE store_block(m)
    BY <2>9 DEF store_block, Resume
  <2>10. CASE remove_data(m)
    BY <2>10 DEF remove_data, Resume
  <2> QED
    BY <2>1, <2>2, <2>3, <2>4, <2>5, <2>6, <2>7, <2>8, <2>9, <2>10
    DEF DentriesCall, BlocksCall
<1> QED
  BY <1>1, CasKeptQuietly

LEMMA EnvironmentKeepsCas ==
  ASSUME NEW m \in Mounts, TypeOK, CasHolds,
         Mount(m) \/ Begin(m) \/ Unmount(m) \/ Die(m)
  PROVE  CasHolds'
<1>1. CASE Mount(m)
  BY <1>1, CasKeptQuietly DEF Mount, store
<1>2. CASE Begin(m)
  BY <1>2, CasKeptQuietly DEF Begin, store
<1>3. CASE Unmount(m)
  BY <1>3 DEF Unmount, store, CasHolds
<1>4. CASE Die(m)
  <2>1. \A n \in Mounts \ {m} : result'[n] = result[n] /\ casValid'[n] = casValid[n]
    BY <1>4 DEF Die, TypeOK
  <2>2. Undisturbed(m)
    BY <1>4, <2>1, RequestsApart DEF Undisturbed, Die, store
  <2>3. ~casValid'[m]
    BY <1>4 DEF Die, TypeOK
  <2> QED
    BY <2>2, <2>3, CasKept
<1> QED
  BY <1>1, <1>2, <1>3, <1>4

LEMMA NextKeepsCas == TypeOK /\ CasHolds /\ [Next]_vars => CasHolds'
<1> SUFFICES ASSUME TypeOK, CasHolds, [Next]_vars
             PROVE  CasHolds'
  OBVIOUS
<1>1. CASE UNCHANGED vars
  BY <1>1 DEF vars, CasHolds
<1>2. ASSUME NEW m \in Mounts, Serve(m)
      PROVE  CasHolds'
  BY <1>2, OtherCallsKeepCas, GetStatKeepsCas, ReplaceStatKeepsCas,
     InsertStatKeepsCas, RemoveStatKeepsCas DEF Serve, StatsCall
<1>3. ASSUME NEW m \in Mounts,
             Mount(m) \/ Begin(m) \/ Unmount(m)
               \/ Crash(m) \/ update_block_overrun(m)
      PROVE  CasHolds'
  BY <1>3, EnvironmentKeepsCas DEF Crash, update_block_overrun
<1> QED
  BY <1>1, <1>2, <1>3 DEF Next

\* A step that changes a stat document is a replace that applied its update
\* to the document as it stood.
LEMMA StepKeepsStatUpdates ==
  TypeOK /\ CasHolds /\ [Next]_vars => [KeepsStatUpdates]_vars
<1> SUFFICES ASSUME TypeOK, CasHolds, Next
             PROVE  KeepsStatUpdates
  BY DEF vars
<1>1. ASSUME stats' = stats
      PROVE  KeepsStatUpdates
  BY <1>1 DEF KeepsStatUpdates
<1>2. ASSUME NEW m \in Mounts, replace_stat(m)
      PROVE  KeepsStatUpdates
  <2> DEFINE p == req[m].path
  <2>1. CASE /\ ReplaceAllowed(m)
             /\ stats' = [stats EXCEPT ![p] = UpdatedStat(req[m], result[m])]
    <3>1. result[m] = stats[p]
      BY <2>1 DEF ReplaceAllowed, CasHolds
    <3>2. stats'[p] = UpdatedStat(req[m], stats[p])
      BY <2>1, <3>1 DEF TypeOK, RequestDocs
    <3>3. \A x \in Paths \ {p} : stats'[x] = stats[x]
      BY <2>1 DEF TypeOK
    <3> QED
      BY <1>2, <3>2, <3>3 DEF KeepsStatUpdates, replace_stat
  <2> QED
    BY <1>1, <1>2, <2>1 DEF replace_stat, Takes
<1>3. ASSUME NEW m \in Mounts, insert_stat(m)
      PROVE  KeepsStatUpdates
  <2>1. CASE /\ ~Exists(stats, req[m].path)
             /\ \A x \in Paths \ {req[m].path} : stats'[x] = stats[x]
    BY <2>1 DEF KeepsStatUpdates, Exists
  <2>2. \/ stats' = stats
        \/ /\ ~Exists(stats, req[m].path)
           /\ \A x \in Paths \ {req[m].path} : stats'[x] = stats[x]
    BY <1>3 DEF insert_stat, Takes, InsertAllowed, TypeOK
  <2> QED
    BY <1>1, <2>1, <2>2
<1>4. ASSUME NEW m \in Mounts, remove_stat(m)
      PROVE  KeepsStatUpdates
  <2>1. \A x \in Paths : stats'[x] \in {Absent, stats[x]}
    BY <1>4 DEF remove_stat, TypeOK
  <2> QED
    BY <2>1 DEF KeepsStatUpdates
<1>5. ASSUME NEW m \in Mounts,
             \/ getattr(m) \/ open(m) \/ get_stat(m)
             \/ DentriesCall(m) \/ BlocksCall(m)
             \/ Mount(m) \/ Begin(m) \/ Unmount(m) \/ Die(m)
      PROVE  stats' = stats
  BY <1>5 DEF getattr, open, get_stat, DentriesCall, get_dentry,
     replace_dentry, add_new_dentry, remove_dentry, BlocksCall, refuse_block,
     get_block, store_block, remove_data, Mount, Begin, Unmount, Die, store
<1> QED
  BY <1>1, <1>2, <1>3, <1>4, <1>5
  DEF Next, Serve, StatsCall, Crash, update_block_overrun

\* However many mounts share the bucket and whatever calls fail or processes
\* die, the update_stat functions lose no update of a stat document: the CAS
\* they set is enough.
THEOREM StatUpdatesKept == Spec => NoLostStatUpdate
<1>1. Init => TypeOK /\ CasHolds
  BY InitTyped DEF Init, CasHolds
<1>2. TypeOK /\ CasHolds /\ [Next]_vars => (TypeOK /\ CasHolds)'
  BY NextTyped, NextKeepsCas
<1>3. TypeOK /\ CasHolds /\ [Next]_vars => [KeepsStatUpdates]_vars
  BY StepKeepsStatUpdates
<1> QED
  BY <1>1, <1>2, <1>3, PTL DEF Spec, NoLostStatUpdate

-----------------------------------------------------------------------------
(***************************************************************************)
(* Starting a process.                                                     *)
(***************************************************************************)

\* All that main does before it serves requests.
StartCalls == {"getattr", "insert_stat", "add_new_dentry"}

StartsOnly ==
  \A m \in Mounts : req[m].op = "mount" => pc[m] \in StartCalls \cup Rest

\* A step of a handler goes by one of the tables.
LEMMA ServeResumes ==
  ASSUME NEW m \in Mounts, TypeOK, Serve(m)
  PROVE  \E q, next, r :
           /\ Resume(m, q, next, r)
           /\ q.op = req[m].op
           /\ \/ /\ pc[m] = "getattr"
                 /\ \E type : next = AfterLookup(req[m], r, type)
              \/ next = After(req[m].op, pc[m], r)
              \/ next = "idle"
<1> DEFINE Goes(q, next, r) ==
      /\ Resume(m, q, next, r)
      /\ q.op = req[m].op
      /\ \/ /\ pc[m] = "getattr"
            /\ \E type : next = AfterLookup(req[m], r, type)
         \/ next = After(req[m].op, pc[m], r)
         \/ next = "idle"
<1>1. CASE getattr(m)
  <2> DEFINE q == req[m]
  <2>1. q \in RequestDocs
    BY DEF TypeOK
  <2>2. \A type : [q EXCEPT !.type = type].op = q.op
    BY <2>1 DEF RequestDocs
  <2>3. PICK seen, r, type :
          /\ Resume(m, seen, AfterLookup(q, r, type), r)
          /\ seen = q \/ seen = [q EXCEPT !.type = type]
    BY <1>1 DEF getattr
  <2>4. seen.op = q.op
    BY <2>2, <2>3
  <2>5. Goes(seen, AfterLookup(q, r, type), r)
    BY <1>1, <2>3, <2>4 DEF getattr
  <2> HIDE DEF Goes
  <2>6. \E seen1, next1, r1 : Goes(seen1, next1, r1)
    BY <2>5
  <2> QED
    BY <2>6 DEF Goes
<1>2. CASE open(m) \/ get_stat(m) \/ replace_stat(m) \/ insert_stat(m) \/ remove_stat(m)
  <2>1. PICK r : Resume(m, req[m], After(req[m].op, pc[m], r), r)
    BY <1>2 DEF open, get_stat, replace_stat, insert_stat, remove_stat
  <2> QED
    BY <2>1
<1>3. CASE DentriesCall(m)
  <2>1. PICK r : Resume(m, req[m], After(req[m].op, pc[m], r), r)
    BY <1>3 DEF DentriesCall, get_dentry, replace_dentry, add_new_dentry,
       remove_dentry
  <2> QED
    BY <2>1
<1>4. CASE get_block(m) \/ store_block(m) \/ remove_data(m)
  <2>1. PICK r : Resume(m, req[m], After(req[m].op, pc[m], r), r)
    BY <1>4 DEF get_block, store_block, remove_data
  <2> QED
    BY <2>1
<1>5. CASE refuse_block(m)
  <2>1. Resume(m, req[m], "idle", "EFBIG")
    BY <1>5 DEF refuse_block
  <2> QED
    BY <2>1
<1> QED
  BY <1>1, <1>2, <1>3, <1>4, <1>5 DEF Serve, StatsCall, BlocksCall

LEMMA NextStartsOnly == TypeOK /\ StartsOnly /\ [Next]_vars => StartsOnly'
<1> SUFFICES ASSUME TypeOK, StartsOnly, [Next]_vars
             PROVE  StartsOnly'
  OBVIOUS
<1>1. CASE UNCHANGED vars
  BY <1>1 DEF vars, StartsOnly
\* A step that only moves mount m, to where it may be.
<1>2. ASSUME NEW m \in Mounts, NEW q, NEW next,
             pc' = [pc EXCEPT ![m] = next], req' = [req EXCEPT ![m] = q],
             q.op = "mount" => next \in StartCalls \cup Rest
      PROVE  StartsOnly'
  BY <1>2 DEF StartsOnly, TypeOK
<1>3. ASSUME NEW m \in Mounts, Serve(m)
      PROVE  StartsOnly'
  <2>1. PICK q, next, r :
          /\ Resume(m, q, next, r)
          /\ q.op = req[m].op
          /\ \/ /\ pc[m] = "getattr"
                /\ \E type : next = AfterLookup(req[m], r, type)
             \/ next = After(req[m].op, pc[m], r)
             \/ next = "idle"
    BY <1>3, ServeResumes
  <2>2. q.op = "mount" => next \in StartCalls \cup Rest
    <3> SUFFICES ASSUME q.op = "mount"
                 PROVE  next \in StartCalls \cup Rest
      OBVIOUS
    <3>1. pc[m] \in StartCalls \cup Rest
      BY <2>1 DEF StartsOnly
    <3>2. After("mount", pc[m], r) \in StartCalls \cup Rest
      <4>1. After("mount", pc[m], r) = insert_root(pc[m], r)
        BY <3>1 DEF After, StartCalls, Rest
      <4>2. insert_root(pc[m], r) \in {"add_new_dentry", "idle", "down"}
        BY DEF insert_root
      <4> QED
        BY <4>1, <4>2 DEF StartCalls, Rest
    <3>3. ASSUME NEW type
          PROVE  AfterLookup(req[m], r, type) \in StartCalls \cup Rest
      <4>1. AfterLookup(req[m], r, type) = verify_root(r, type)
        BY <2>1 DEF AfterLookup, LookupAdmits
      <4>2. verify_root(r, type) \in {"idle", "insert_stat", "down"}
        BY DEF verify_root
      <4> QED
        BY <4>1, <4>2 DEF StartCalls, Rest
    <3> QED
      BY <2>1, <3>2, <3>3 DEF Rest
  <2>3. /\ pc' = [pc EXCEPT ![m] = next]
        /\ req' = [req EXCEPT ![m] = IF next \in Rest THEN NoRequest ELSE q]
    BY <2>1 DEF Resume
  <2>4. CASE next \in Rest
    BY <1>2, <2>3, <2>4
  <2>5. CASE next \notin Rest
    BY <1>2, <2>2, <2>3, <2>5
  <2> QED
    BY <2>4, <2>5
<1>4. ASSUME NEW m \in Mounts, Mount(m) \/ Begin(m) \/ Die(m)
      PROVE  StartsOnly'
  <2>1. "getattr" \in StartCalls \cup Rest /\ "down" \in StartCalls \cup Rest
    BY DEF StartCalls, Rest
  <2>2. \/ pc' = [pc EXCEPT ![m] = "getattr"]
        \/ pc' = [pc EXCEPT ![m] = "down"]
    BY <1>4 DEF Mount, Begin, Die
  <2>3. PICK q : req' = [req EXCEPT ![m] = q]
    BY <1>4 DEF Mount, Begin, Die
  <2> QED
    BY <1>2, <2>1, <2>2, <2>3
<1>5. ASSUME NEW m \in Mounts, Unmount(m)
      PROVE  StartsOnly'
  BY <1>5 DEF Unmount, StartsOnly, TypeOK, Rest
<1> QED
  BY <1>1, <1>3, <1>4, <1>5 DEF Next, Crash, update_block_overrun

\* What BootstrapNeverClobbers asks of a step of mount m.
ClobbersNothing ==
  /\ \A p \in Paths :
       /\ Exists(stats, p) => stats'[p] = stats[p]
       /\ Exists(dentries, p) => dentries'[p] = dentries[p]
  /\ blocks' = blocks

LEMMA StepClobbersNothing ==
  ASSUME NEW m \in Mounts, TypeOK, StartsOnly, [Next]_vars,
         req[m].op = "mount", Moves(m)
  PROVE  ClobbersNothing
<1>1. PICK n \in Mounts :
        \/ Mount(n) \/ Begin(n) \/ Serve(n) \/ Unmount(n)
        \/ Crash(n) \/ update_block_overrun(n)
  BY DEF Moves, Next, vars
<1>2. CASE Serve(n)
  <2>1. n = m
    <3>1. PICK next : pc' = [pc EXCEPT ![n] = next]
      BY <1>2, ServeResumes DEF Resume
    <3> QED
      BY <3>1 DEF Moves, TypeOK
  <2>2. pc[m] \in StartCalls \cup Rest
    BY DEF StartsOnly
  <2>3. getattr(m) \/ insert_stat(m) \/ add_new_dentry(m)
    BY <1>2, <2>1, <2>2 DEF Serve, StatsCall, DentriesCall, BlocksCall,
       StartCalls, Rest, open, get_stat, replace_stat, remove_stat, get_dentry,
       replace_dentry, remove_dentry, refuse_block, get_block, store_block,
       remove_data
  <2>4. CASE getattr(m)
    BY <2>4 DEF getattr, store, ClobbersNothing
  <2>5. CASE insert_stat(m)
    <3>1. /\ UNCHANGED <<dentries, blocks>>
          /\ \/ UNCHANGED stats
             \/ /\ ~Exists(stats, req[m].path)
                /\ \A x \in Paths \ {req[m].path} : stats'[x] = stats[x]
      BY <2>5 DEF insert_stat, Takes, InsertAllowed, TypeOK
    <3> QED
      BY <3>1 DEF ClobbersNothing
  <2>6. CASE add_new_dentry(m)
    <3>1. /\ UNCHANGED <<stats, blocks>>
          /\ \/ UNCHANGED dentries
             \/ /\ ~Exists(dentries, req[m].path)
                /\ \A x \in Paths \ {req[m].path} : dentries'[x] = dentries[x]
      BY <2>6 DEF add_new_dentry, Takes, TypeOK
    <3> QED
      BY <3>1 DEF ClobbersNothing
  <2> QED
    BY <2>3, <2>4, <2>5, <2>6
<1>3. CASE ~Serve(n)
  BY <1>1, <1>3 DEF Mount, Begin, Unmount, Crash, update_block_overrun, Die,
     store, ClobbersNothing
<1> QED
  BY <1>2, <1>3

\* However many processes start on one bucket, and whatever others do to it
\* meanwhile, main and insert_root change no document there is: both of their
\* stores are inserts.
THEOREM StartClobbersNothing == Spec => BootstrapNeverClobbers
<1> DEFINE Keeps == \A m \in Mounts :
             req[m].op = "mount" /\ Moves(m) =>
               /\ \A p \in Paths :
                    /\ Exists(stats, p) => stats'[p] = stats[p]
                    /\ Exists(dentries, p) => dentries'[p] = dentries[p]
               /\ blocks' = blocks
<1>1. Init => TypeOK /\ StartsOnly
  BY InitTyped DEF Init, StartsOnly, Rest
<1>2. TypeOK /\ StartsOnly /\ [Next]_vars => (TypeOK /\ StartsOnly)'
  BY NextTyped, NextStartsOnly
<1>3. TypeOK /\ StartsOnly /\ [Next]_vars => [Keeps]_vars
  <2> SUFFICES ASSUME TypeOK, StartsOnly, [Next]_vars
               PROVE  Keeps
    OBVIOUS
  <2> QED
    BY StepClobbersNothing DEF ClobbersNothing
<1> QED
  BY <1>1, <1>2, <1>3, PTL DEF Spec, BootstrapNeverClobbers

=============================================================================
