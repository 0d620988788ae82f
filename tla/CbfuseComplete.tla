--------------------------- MODULE CbfuseComplete ---------------------------
(***************************************************************************)
(* Proofs that requests leave nothing half done, for a single mount: that  *)
(* sizes and blocks agree and a directory tree is complete, if no call     *)
(* fails and the process is not killed; and that a handler which returns 0 *)
(* has done its work, whatever fails.                                      *)
(***************************************************************************)
EXTENDS CbfuseAnchors

-----------------------------------------------------------------------------
(***************************************************************************)
(* st_size and the block.                                                  *)
(***************************************************************************)

Sized(x) == Exists(blocks, x) => stats[x].size = blocks[x]

\* The block has been changed, and update_stat_size has yet to say so.
SettingSize(m) ==
  /\ req[m].op \in {"write", "truncate"}
  /\ pc[m] \in {"get_stat", "replace_stat"}

\* The sizes agree with the blocks, but for the one that is being set: there
\* the block is as long as the size will be.
SizeStage(m) ==
  LET q == req[m]
      p == q.path
  IN  /\ \A x \in Paths \ {p} : Sized(x)
      /\ ~SettingSize(m) => Sized(p)
      /\ SettingSize(m) =>
           /\ Exists(blocks, p) => blocks[p] = Nupdate(q)
           /\ q.op = "write" => Exists(blocks, p)
      /\ q.op = "truncate" => q.len = 0
      /\ q.op = "write" => pc[m] # "remove_data"
      /\ pc[m] = "store_block" =>
           q.op \in {"write", "truncate"} /\ result[m] = blocks[p]
      /\ pc[m] = "replace_stat" => casValid[m]

SizesKept == \A m \in Mounts : SizeStage(m)

SizeInv == AnchorInv /\ SizesKept

\* Unless a size is being set, all of them are right.
LEMMA AllSized ==
  ASSUME NEW m \in Mounts, SizesKept, ~SettingSize(m)
  PROVE  \A x \in Paths : Sized(x)
BY DEF SizesKept, SizeStage

\* A step to a call that sets no size must leave them all right.
LEMMA SizesSettled ==
  ASSUME NEW m \in Mounts, Alone, TypeOK,
         pc'[m] \notin {"store_block", "replace_stat", "remove_data"},
         pc'[m] = "get_stat" => req'[m].op \notin {"write", "truncate"},
         req'[m].op = "truncate" => req'[m].len = 0,
         (\A x \in Paths : Sized(x))',
         req'[m] \in RequestDocs
  PROVE  SizesKept'
<1>1. req'[m].path \in Paths
  BY DEF RequestDocs
<1>2. (~SettingSize(m))'
  BY DEF SettingSize
<1>3. SizeStage(m)'
  BY <1>1, <1>2 DEF SizeStage
<1> QED
  BY <1>3 DEF SizesKept, Alone

\* What Resume leaves of the request.
LEMMA ResumeRequest ==
  ASSUME NEW m \in Mounts, NEW q, NEW next, NEW r, TypeOK, Resume(m, q, next, r)
  PROVE  /\ pc'[m] = next
         /\ next \in Rest => req'[m] = NoRequest
         /\ next \notin Rest => req'[m] = q
         /\ fresult'[m] = Returned(q, pc[m], next, r)
BY DEF Resume, TypeOK

\* The same for a step of a handler that goes on or comes to rest.
LEMMA SizesSettledByCall ==
  ASSUME NEW m \in Mounts, NEW q \in RequestDocs, NEW next, NEW r,
         Alone, TypeOK, Resume(m, q, next, r),
         next \notin {"store_block", "replace_stat", "remove_data"},
         next = "get_stat" => q.op \notin {"write", "truncate"},
         q.op = "truncate" => q.len = 0,
         (\A x \in Paths : Sized(x))'
  PROVE  SizesKept'
<1>1. /\ pc'[m] = next
      /\ req'[m] = IF next \in Rest THEN NoRequest ELSE q
  BY ResumeRequest
<1>2. NoRequest \in RequestDocs /\ NoRequest.op = "none"
  BY NoRequestTyped DEF NoRequest, Request
<1>3. /\ req'[m] \in RequestDocs
      /\ req'[m].op = "truncate" => req'[m].len = 0
      /\ pc'[m] = "get_stat" => req'[m].op \notin {"write", "truncate"}
  BY <1>1, <1>2
<1> HIDE DEF SizesKept
<1> QED
  BY <1>1, <1>3, SizesSettled

\* The look-up goes on to no call that stores a block or a size.
LEMMA GetattrSized ==
  ASSUME NEW m \in Mounts, Alone, SizeInv, getattr(m)
  PROVE  SizesKept'
<1> SUFFICES ASSUME NEW q, q = req[m]
             PROVE  SizesKept'
  OBVIOUS
<1>1. q \in RequestDocs /\ Asked(q)
  BY ServedOnCourse DEF getattr, Rest, SizeInv
<1>2. PICK seen, r, type :
        /\ Resume(m, seen, AfterLookup(q, r, type), r)
        /\ seen.op = q.op /\ seen.len = q.len
  BY <1>1 DEF getattr, RequestDocs
<1> DEFINE next == AfterLookup(q, r, type)
<1>3. /\ next \notin {"store_block", "replace_stat"}
      /\ next = "get_stat" => q.op \notin {"write", "truncate"}
      /\ next = "remove_data" => q.op # "write"
  BY DEF AfterLookup, verify_root, FirstCall
<1>4. q.op = "truncate" => q.len = 0
  BY DEF SizeInv, SizesKept, SizeStage
<1>5. /\ pc'[m] = next
      /\ next \in Rest => req'[m] = NoRequest
      /\ next \notin Rest => req'[m] = seen
  BY <1>2, ResumeRequest DEF SizeInv, AnchorInv
<1>6. (\A x \in Paths : Sized(x))'
  <2>1. \A x \in Paths : Sized(x)
    BY AllSized DEF getattr, SettingSize, SizeInv
  <2> QED
    BY <2>1 DEF getattr, store, Sized, Exists
<1>7. NoRequest.op = "none" /\ NoRequest.path \in Paths
  BY PathAssumption DEF NoRequest, Request
<1> HIDE DEF next
<1>8. req'[m].path \in Paths
  <2>1. TypeOK'
    BY NextTyped DEF SizeInv, AnchorInv, Next, Serve, StatsCall
  <2> QED
    BY <2>1 DEF TypeOK, RequestDocs
<1>9. SizeStage(m)'
  <2>1. /\ (~SettingSize(m))'
        /\ pc'[m] \notin {"store_block", "replace_stat"}
        /\ req'[m].op = "truncate" => req'[m].len = 0
        /\ req'[m].op = "write" => pc'[m] # "remove_data"
    BY <1>2, <1>3, <1>4, <1>5, <1>7 DEF SettingSize
  <2> QED
    BY <1>6, <1>8, <2>1 DEF SizeStage
<1> QED
  BY <1>9 DEF SizesKept, Alone

\* cbfuse_open, for itself or for a read or a write.
LEMMA OpenSized ==
  ASSUME NEW m \in Mounts, Alone, SizeInv, open(m)
  PROVE  SizesKept'
<1> DEFINE q == req[m]
           next(r) == After(q.op, "open", r)
<1>1. PICK r : Resume(m, q, next(r), r)
  BY DEF open
<1>2. q \in RequestDocs
  BY ServedOnCourse DEF open, Rest, SizeInv
<1>3. next(r) \in {"get_block", "idle"}
  BY DEF After, cbfuse_open
<1>4. (\A x \in Paths : Sized(x))'
  <2>1. \A x \in Paths : Sized(x)
    BY AllSized DEF open, SettingSize, SizeInv
  <2> QED
    BY <2>1 DEF open, store, Sized, Exists
<1>5. q.op = "truncate" => q.len = 0
  BY DEF SizeInv, SizesKept, SizeStage
<1> HIDE DEF next, SizesKept
<1> QED
  BY <1>1, <1>2, <1>3, <1>4, <1>5, SizesSettledByCall DEF SizeInv, AnchorInv

\* A directory entry is nobody's size.
LEMMA DentriesCallSized ==
  ASSUME NEW m \in Mounts, Alone, SizeInv, DentriesCall(m)
  PROVE  SizesKept'
<1> DEFINE q == req[m]
           next(r) == After(q.op, pc[m], r)
<1>1. /\ pc[m] \in {"get_dentry", "replace_dentry", "add_new_dentry", "remove_dentry"}
      /\ UNCHANGED <<stats, blocks>>
      /\ \E r : Resume(m, q, next(r), r)
  BY DEF DentriesCall, get_dentry, replace_dentry, add_new_dentry,
     remove_dentry, store
<1>2. PICK r : Resume(m, q, next(r), r)
  BY <1>1
<1>3. q \in RequestDocs /\ Stage(q, pc[m])
  BY <1>1, ServedOnCourse DEF Rest, SizeInv
<1>4. q.op \in {"mount", "create", "mkdir", "unlink", "rmdir", "readdir"}
  BY <1>1, <1>3 DEF Stage, DataStage, MetaStage
<1>5. next(r) \notin {"store_block", "replace_stat", "remove_data", "get_stat"}
  BY <1>1, <1>4 DEF After, insert_root, cbfuse_create, cbfuse_mkdir, cbfuse_unlink,
     cbfuse_rmdir
<1>6. (\A x \in Paths : Sized(x))'
  <2>1. \A x \in Paths : Sized(x)
    BY <1>1, AllSized DEF SettingSize, SizeInv
  <2> QED
    BY <1>1, <2>1 DEF Sized, Exists
<1> HIDE DEF next, SizesKept
<1> QED
  BY <1>2, <1>3, <1>4, <1>5, <1>6, SizesSettledByCall DEF SizeInv, AnchorInv

\* A stat document that comes or goes has no block beside it.
LEMMA StatsCallSized ==
  ASSUME NEW m \in Mounts, Alone, SizeInv, insert_stat(m) \/ remove_stat(m)
  PROVE  SizesKept'
<1> DEFINE q == req[m]
           p == q.path
           next(r) == After(q.op, pc[m], r)
<1>1. /\ pc[m] \in {"insert_stat", "remove_stat"}
      /\ UNCHANGED blocks
      /\ \E r : Resume(m, q, next(r), r)
  BY DEF insert_stat, remove_stat
<1>2. PICK r : Resume(m, q, next(r), r)
  BY <1>1
<1>3. q \in RequestDocs /\ p \in Paths /\ Stage(q, pc[m])
  BY <1>1, ServedOnCourse DEF Rest, SizeInv
<1>4. q.op \in {"mount", "create", "mkdir", "unlink", "rmdir"}
  BY <1>1, <1>3 DEF Stage, DataStage, MetaStage
<1>5. next(r) \notin {"store_block", "replace_stat", "remove_data", "get_stat"}
  BY <1>1, <1>4 DEF After, insert_root, cbfuse_create, cbfuse_mkdir, cbfuse_unlink,
     cbfuse_rmdir
<1>6. \A x \in Paths : stats'[x] = stats[x] \/ (x = p /\ ~Exists(blocks, p))
  <2>1. CASE insert_stat(m)
    <3>1. ~Exists(stats, p) => ~Exists(blocks, p)
      BY <1>3 DEF SizeInv, AnchorInv, StatAnchors, BlocksHaveStat, IsReg
    <3> QED
      BY <2>1, <3>1 DEF insert_stat, Takes, InsertAllowed, SizeInv, AnchorInv, TypeOK
  <2>2. CASE remove_stat(m)
    <3>1. ~Exists(blocks, p)
      BY <1>3, <1>4, <2>2 DEF remove_stat, Stage, MountStage, CreateStage, MkdirStage,
         UnlinkStage, RmdirStage, SizeInv, AnchorInv, StatAnchors, BlocksHaveStat,
         IsReg, IsDir
    <3> QED
      BY <2>2, <3>1 DEF remove_stat, SizeInv, AnchorInv, TypeOK
  <2> QED
    BY <2>1, <2>2
<1>7. (\A x \in Paths : Sized(x))'
  <2>1. \A x \in Paths : Sized(x)
    BY <1>1, AllSized DEF SettingSize, SizeInv
  <2> QED
    BY <1>1, <1>6, <2>1 DEF Sized, Exists
<1> HIDE DEF next, SizesKept
<1> QED
  BY <1>2, <1>3, <1>4, <1>5, <1>7, SizesSettledByCall DEF SizeInv, AnchorInv

\* get_stat finds the document of a handler that updates it, and its CAS.
LEMMA GetStatSized ==
  ASSUME NEW m \in Mounts, Alone, SizeInv, get_stat(m)
  PROVE  SizesKept'
<1> DEFINE q == req[m]
           p == q.path
           next(r) == After(q.op, "get_stat", r)
<1>1. /\ q \in RequestDocs /\ p \in Paths
      /\ Stage(q, "get_stat")
  BY ServedOnCourse DEF get_stat, Rest, SizeInv
<1>2. /\ q.op \in {"open", "read", "write", "truncate", "chmod", "utimens"}
      /\ Exists(stats, p)
  BY <1>1 DEF Stage, MountStage, CreateStage, MkdirStage, UnlinkStage,
     RmdirStage, DataStage, MetaStage, IsReg
<1>3. PICK r :
        /\ r = "ok"
        /\ Resume(m, q, next(r), r)
        /\ casValid' = [casValid EXCEPT ![m] = (next(r) = "replace_stat")]
  BY <1>2, Answered DEF get_stat
<1>4. next(r) = IF q.op = "open" THEN "idle" ELSE "replace_stat"
  BY <1>2, <1>3 DEF After, read_data, write_data, truncate_data, update_stat
<1>5. UNCHANGED <<stats, blocks>>
  BY DEF get_stat, store
<1> HIDE DEF next
<1>6. CASE q.op = "open"
  <2>1. (\A x \in Paths : Sized(x))'
    BY <1>5, <1>6, AllSized DEF SettingSize, SizeInv, Sized, Exists
  <2> HIDE DEF SizesKept
  <2> QED
    BY <1>1, <1>3, <1>4, <1>6, <2>1, SizesSettledByCall DEF SizeInv, AnchorInv
<1>7. CASE q.op # "open"
  <2>1. pc'[m] = "replace_stat" /\ req'[m] = q
    BY <1>3, <1>4, <1>7, ResumeRequest DEF SizeInv, AnchorInv, Rest
  <2>2. casValid'[m]
    BY <1>3, <1>4, <1>7 DEF SizeInv, AnchorInv, TypeOK
  <2>3. SettingSize(m)' <=> SettingSize(m)
    BY <2>1 DEF SettingSize, get_stat
  <2>4. SizeStage(m)
    BY DEF SizeInv, SizesKept
  <2>5. SizeStage(m)'
    BY <1>5, <2>1, <2>2, <2>3, <2>4 DEF SizeStage, Sized, Exists
  <2> QED
    BY <2>5 DEF SizesKept, Alone
<1> QED
  BY <1>6, <1>7

\* update_stat_size stores the length of the block; the other updates leave
\* the size as it is.
LEMMA ReplaceStatSized ==
  ASSUME NEW m \in Mounts, Alone, SizeInv, replace_stat(m)
  PROVE  SizesKept'
<1> SUFFICES ASSUME NEW q, q = req[m]
             PROVE  SizesKept'
  OBVIOUS
<1> DEFINE p == q.path
           next(r) == After(q.op, "replace_stat", r)
<1>1. /\ q \in RequestDocs /\ p \in Paths
      /\ Stage(q, "replace_stat")
  BY ServedOnCourse DEF replace_stat, Rest, SizeInv
<1>2. /\ q.op \in {"open", "read", "write", "truncate", "chmod", "utimens"}
      /\ Exists(stats, p)
  BY <1>1 DEF Stage, MountStage, CreateStage, MkdirStage, UnlinkStage,
     RmdirStage, DataStage, MetaStage, IsReg
<1>3. SizeStage(m) /\ casValid[m]
  BY DEF SizeInv, SizesKept, SizeStage, replace_stat
<1>4. result[m] = stats[p] /\ stats[p] \in StatDocs
  BY <1>1, <1>2, <1>3 DEF SizeInv, AnchorInv, CasHolds, TypeOK, Exists
<1>5. PICK r :
        /\ Resume(m, q, next(r), r)
        /\ stats' = [stats EXCEPT ![p] = UpdatedStat(q, stats[p])]
  BY <1>2, <1>3, <1>4, Answered DEF replace_stat, ReplaceAllowed
<1>6. /\ UNCHANGED blocks
      /\ stats'[p] = UpdatedStat(q, stats[p])
      /\ \A x \in Paths \ {p} : stats'[x] = stats[x]
  BY <1>1, <1>5 DEF replace_stat, SizeInv, AnchorInv, TypeOK
<1>7. Sized(p)'
  <2>1. CASE SettingSize(m)
    <3>1. UpdatedStat(q, stats[p]).size = Nupdate(q)
      BY <1>4, <2>1 DEF UpdatedStat, SettingSize, Nupdate, StatDocs
    <3>2. Exists(blocks, p) => blocks[p] = Nupdate(q)
      BY <1>3, <2>1 DEF SizeStage
    <3> QED
      BY <1>6, <3>1, <3>2 DEF Sized, Exists
  <2>2. CASE ~SettingSize(m)
    <3>1. UpdatedStat(q, stats[p]).size = stats[p].size
      BY <1>4, <2>2 DEF UpdatedStat, SettingSize, replace_stat, StatDocs
    <3> QED
      BY <1>3, <1>6, <2>2, <3>1 DEF SizeStage, Sized, Exists
  <2> QED
    BY <2>1, <2>2
<1>8. (\A x \in Paths : Sized(x))'
  BY <1>3, <1>6, <1>7 DEF SizeStage, Sized, Exists
<1>9. next(r) = "idle"
  BY <1>2 DEF After, read_data, write_data, truncate_data, update_stat
<1>10. q.op = "truncate" => q.len = 0
  BY <1>3 DEF SizeStage
<1> HIDE DEF next, SizesKept
<1> QED
  BY <1>1, <1>5, <1>8, <1>9, <1>10, SizesSettledByCall DEF SizeInv, AnchorInv

\* A step that goes on to store the block that was read, or to set the size of
\* a block that suits.
LEMMA SizesUnderway ==
  ASSUME NEW m \in Mounts, NEW q, NEW next, NEW r,
         Alone, TypeOK, Resume(m, q, next, r),
         next \in {"store_block", "get_stat"},
         \A x \in Paths \ {q.path} : Sized(x)',
         q.op = "truncate" => q.len = 0,
         q.op \in {"write", "truncate"},
         next = "store_block" => Sized(q.path)' /\ result'[m] = blocks'[q.path],
         next = "get_stat" =>
           /\ Exists(blocks, q.path)' => blocks'[q.path] = Nupdate(q)
           /\ q.op = "write" => Exists(blocks, q.path)'
  PROVE  SizesKept'
<1>1. pc'[m] = next /\ req'[m] = q
  BY ResumeRequest DEF Rest
<1>2. SettingSize(m)' <=> next = "get_stat"
  BY <1>1 DEF SettingSize
<1>3. SizeStage(m)'
  BY <1>1, <1>2 DEF SizeStage, Sized, Exists
<1> QED
  BY <1>3 DEF SizesKept, Alone

\* update_block and truncate_data hold the block as it stands; without one
\* truncate_data goes on to the size at once.
LEMMA GetBlockSized ==
  ASSUME NEW m \in Mounts, Alone, SizeInv, get_block(m)
  PROVE  SizesKept'
<1> SUFFICES ASSUME NEW q, q = req[m]
             PROVE  SizesKept'
  OBVIOUS
<1> DEFINE p == q.path
           next(r) == After(q.op, "get_block", r)
<1>1. /\ q \in RequestDocs /\ p \in Paths
      /\ Stage(q, "get_block")
  BY ServedOnCourse DEF get_block, Rest, SizeInv
<1>2. q.op \in {"open", "read", "write", "truncate"}
  BY <1>1 DEF Stage, MountStage, CreateStage, MkdirStage, UnlinkStage,
     RmdirStage, MetaStage
<1>3. PICK r :
        /\ r = BlockReport(q, IF Exists(blocks, p) THEN "ok" ELSE "ENOENT")
        /\ Resume(m, q, next(r), r)
        /\ result' = [result EXCEPT ![m] =
             IF next(r) = "store_block" /\ r = "ok" THEN blocks[p] ELSE Absent]
  BY Answered DEF get_block, Exists
<1>4. UNCHANGED <<stats, blocks>>
  BY DEF get_block, store
<1>5. (\A x \in Paths : Sized(x))'
  <2>1. \A x \in Paths : Sized(x)
    BY AllSized DEF SizeInv, SettingSize, get_block
  <2> QED
    BY <1>4, <2>1 DEF Sized, Exists
<1>6. q.op = "truncate" => q.len = 0
  BY DEF SizeInv, SizesKept, SizeStage
<1>7. CASE q.op \in {"open", "read"}
  <2>1. next(r) \in {"get_stat", "idle"}
    BY <1>7 DEF After, read_data, update_stat
  <2> HIDE DEF next, SizesKept
  <2> QED
    BY <1>1, <1>3, <1>5, <1>7, <2>1, SizesSettledByCall DEF SizeInv, AnchorInv
<1>8. CASE q.op \in {"write", "truncate"}
  <2>1. r = IF Exists(blocks, p) THEN "ok" ELSE "ENOENT"
    BY <1>3, <1>8 DEF BlockReport
  <2>2. next(r) = IF q.op = "write" \/ r = "ok" THEN "store_block" ELSE "get_stat"
    BY <1>8, <2>1 DEF After, write_data, truncate_data
  <2>3. next(r) = "store_block" => result'[m] = blocks'[p]
    BY <1>3, <1>4, <2>1 DEF SizeInv, AnchorInv, TypeOK, Exists
  <2>4. next(r) = "get_stat" => q.op = "truncate" /\ ~Exists(blocks, p)'
    BY <1>4, <1>8, <2>1, <2>2 DEF Exists
  <2> HIDE DEF next, SizesKept
  <2> QED
    BY <1>1, <1>3, <1>5, <1>6, <1>8, <2>2, <2>3, <2>4, SizesUnderway
    DEF SizeInv, AnchorInv
<1> QED
  BY <1>2, <1>7, <1>8

LEMMA RefuseBlockSized ==
  ASSUME NEW m \in Mounts, Alone, SizeInv, refuse_block(m)
  PROVE  SizesKept'
<1>1. Resume(m, req[m], "idle", "EFBIG")
  BY DEF refuse_block
<1>2. req[m] \in RequestDocs
  BY ServedOnCourse DEF refuse_block, Rest, SizeInv
<1>3. (\A x \in Paths : Sized(x))'
  <2>1. \A x \in Paths : Sized(x)
    BY AllSized DEF SizeInv, SettingSize, refuse_block
  <2> QED
    BY <2>1 DEF refuse_block, store, Sized, Exists
<1>4. req[m].op = "truncate" => req[m].len = 0
  BY DEF SizeInv, SizesKept, SizeStage
<1> HIDE DEF SizesKept
<1> QED
  BY <1>1, <1>2, <1>3, <1>4, SizesSettledByCall DEF SizeInv, AnchorInv

\* The block update_block stores reaches as far as the size that write_data or
\* truncate_data sets next; write_data sets none if the block is as it was.
LEMMA StoreBlockSized ==
  ASSUME NEW m \in Mounts, Alone, SizeInv, store_block(m)
  PROVE  SizesKept'
<1> SUFFICES ASSUME NEW q, q = req[m]
             PROVE  SizesKept'
  OBVIOUS
<1> DEFINE p == q.path
           len == UpdatedLength(q, blocks[p])
           next(r) == After(q.op, "store_block", r)
<1>1. /\ q \in RequestDocs /\ p \in Paths
      /\ Stage(q, "store_block")
  BY ServedOnCourse DEF store_block, Rest, SizeInv
<1>2. q.op \in {"write", "truncate"}
  BY DEF SizeInv, SizesKept, SizeStage, store_block
<1>3. /\ result[m] = blocks[p]
      /\ q.op = "truncate" => q.len = 0
  BY DEF SizeInv, SizesKept, SizeStage, store_block
<1>4. \A x \in Paths : Sized(x)
  BY AllSized DEF SizeInv, SettingSize, store_block
<1>5. len \in Nat /\ Nupdate(q) \in Nat
  <2>1. blocks[p] \in Nat \cup {Absent}
    BY <1>1 DEF SizeInv, AnchorInv, TypeOK
  <2> QED
    BY <1>1, <1>2, <2>1 DEF UpdatedLength, Grows, Nupdate, RequestDocs
<1>6. PICK r :
        /\ r = IF ~(len <= MAX_DOC_LEN) THEN "EIO"
               ELSE IF Grows(q, blocks[p]) THEN "grew" ELSE "ok"
        /\ Resume(m, q, next(r), r)
        /\ blocks' = IF len <= MAX_DOC_LEN
                     THEN [blocks EXCEPT ![p] = len] ELSE blocks
  <2>1. (len <= MAX_DOC_LEN) \in BOOLEAN
    BY <1>5, DataAssumption
  <2> QED
    BY <1>3, <2>1, Answered DEF store_block
<1>7. /\ UNCHANGED stats
      /\ \A x \in Paths \ {p} : blocks'[x] = blocks[x]
      /\ blocks'[p] = IF len <= MAX_DOC_LEN THEN len ELSE blocks[p]
  BY <1>1, <1>6 DEF store_block, SizeInv, AnchorInv, TypeOK
<1>8. \A x \in Paths \ {p} : Sized(x)'
  BY <1>4, <1>7 DEF Sized, Exists
<1> DEFINE sets == q.op = "truncate" \/ Grows(q, blocks[p])
<1>9. CASE sets /\ len <= MAX_DOC_LEN
  <2>1. len = Nupdate(q)
    BY <1>1, <1>3, <1>9 DEF UpdatedLength, Nupdate, RequestDocs
  <2>2. next(r) = "get_stat"
    BY <1>6, <1>9 DEF After, write_data, truncate_data, Grows
  <2>3. Exists(blocks, p)' /\ blocks'[p] = Nupdate(q)
    BY <1>7, <1>5, <1>9, <2>1, DataAssumption DEF Exists
  <2> HIDE DEF next, SizesKept, sets, len
  <2> QED
    BY <1>1, <1>2, <1>3, <1>6, <1>8, <2>2, <2>3, SizesUnderway DEF SizeInv, AnchorInv
<1>10. CASE ~(sets /\ len <= MAX_DOC_LEN)
  <2>1. blocks'[p] = blocks[p]
    BY <1>7, <1>10 DEF UpdatedLength, Grows
  <2>2. (\A x \in Paths : Sized(x))'
    BY <1>4, <1>7, <1>8, <2>1 DEF Sized, Exists
  <2>3. next(r) = "idle"
    BY <1>2, <1>6, <1>10 DEF After, read_data, write_data, truncate_data, update_stat
  <2> HIDE DEF next, SizesKept, sets, len
  <2> QED
    BY <1>1, <1>3, <1>6, <2>2, <2>3, SizesSettledByCall DEF SizeInv, AnchorInv
<1> QED
  BY <1>9, <1>10

LEMMA RemoveDataSized ==
  ASSUME NEW m \in Mounts, Alone, SizeInv, remove_data(m)
  PROVE  SizesKept'
<1> SUFFICES ASSUME NEW q, q = req[m]
             PROVE  SizesKept'
  OBVIOUS
<1> DEFINE p == q.path
           next(r) == After(q.op, "remove_data", r)
<1>1. /\ q \in RequestDocs /\ p \in Paths
      /\ Stage(q, "remove_data")
  BY ServedOnCourse DEF remove_data, Rest, SizeInv
<1>2. q.op \in {"unlink", "open", "read", "truncate"}
  BY <1>1 DEF Stage, MountStage, CreateStage, MkdirStage, RmdirStage,
     MetaStage, SizeInv, SizesKept, SizeStage, remove_data
<1>3. PICK r :
        /\ Resume(m, q, next(r), r)
        /\ blocks' = IF Exists(blocks, p)
                     THEN [blocks EXCEPT ![p] = Absent] ELSE blocks
  BY Answered DEF remove_data, Exists
<1>4. /\ UNCHANGED stats
      /\ ~Exists(blocks, p)'
      /\ \A x \in Paths \ {p} : blocks'[x] = blocks[x]
  BY <1>1, <1>3 DEF remove_data, SizeInv, AnchorInv, TypeOK, Exists
<1>5. (\A x \in Paths : Sized(x))'
  <2>1. \A x \in Paths : Sized(x)
    BY AllSized DEF SizeInv, SettingSize, remove_data
  <2> QED
    BY <1>4, <2>1 DEF Sized, Exists
<1>6. q.op = "truncate" => q.len = 0
  BY DEF SizeInv, SizesKept, SizeStage
<1>7. CASE q.op = "truncate" /\ r = "ok"
  <2>1. next(r) = "get_stat"
    BY <1>7 DEF After, truncate_data
  <2> HIDE DEF next, SizesKept
  <2> QED
    BY <1>1, <1>3, <1>4, <1>5, <1>6, <1>7, <2>1, SizesUnderway
    DEF SizeInv, AnchorInv
<1>8. CASE ~(q.op = "truncate" /\ r = "ok")
  <2>1. next(r) \in {"get_dentry", "idle"}
    BY <1>2, <1>8 DEF After, cbfuse_unlink, read_data, truncate_data, update_stat
  <2> HIDE DEF next, SizesKept
  <2> QED
    BY <1>1, <1>3, <1>5, <1>6, <2>1, SizesSettledByCall DEF SizeInv, AnchorInv
<1> QED
  BY <1>7, <1>8

\* Between requests, and when main starts, no size is being set.  Killed at
\* its overrun, update_block has stored nothing yet.
LEMMA EnvironmentSized ==
  ASSUME NEW m \in Mounts, Alone, ~CanCrash, SizeInv,
         Mount(m) \/ Begin(m) \/ Unmount(m) \/ Crash(m) \/ update_block_overrun(m)
  PROVE  SizesKept'
<1>1. ~Crash(m)
  BY DEF Crash
<1>2. /\ pc[m] \in {"idle", "down", "store_block"}
      /\ UNCHANGED store
      /\ pc'[m] \in {"getattr", "down"}
  BY <1>1 DEF Mount, Begin, Unmount, update_block_overrun, Die, SizeInv, AnchorInv,
     TypeOK
<1>3. (\A x \in Paths : Sized(x))'
  <2>1. \A x \in Paths : Sized(x)
    BY <1>2, AllSized DEF SettingSize, SizeInv
  <2> QED
    BY <1>2, <2>1 DEF store, Sized, Exists
<1>4. req'[m] \in RequestDocs
  <2>1. TypeOK'
    BY NextTyped DEF SizeInv, AnchorInv, Next
  <2> QED
    BY <2>1 DEF TypeOK
<1>5. req'[m].op = "truncate" => req'[m].len = 0
  <2>1. CASE Mount(m)
    BY <2>1 DEF Mount, MountRequest, Request, SizeInv, AnchorInv, TypeOK
  <2>2. CASE Begin(m)
    <3>1. PICK q \in Requests : req' = [req EXCEPT ![m] = q]
      BY <2>2 DEF Begin
    <3>2. q.op = "truncate" => q.len = 0
      BY <3>1 DEF Requests, PlainRequests, PlainOps, TransferRequests,
         TruncateRequests, ModeRequests, Request
    <3> QED
      BY <3>1, <3>2 DEF SizeInv, AnchorInv, TypeOK
  <2>3. CASE Unmount(m)
    BY <2>3 DEF Unmount, SizeInv, SizesKept, SizeStage
  <2>4. CASE update_block_overrun(m)
    BY <2>4 DEF update_block_overrun, Die, NoRequest, Request, SizeInv, AnchorInv,
       TypeOK
  <2> QED
    BY <1>1, <2>1, <2>2, <2>3, <2>4
<1> HIDE DEF SizesKept
<1> QED
  BY <1>2, <1>3, <1>4, <1>5, SizesSettled DEF SizeInv, AnchorInv

LEMMA InitSized == Init => SizeInv
<1> SUFFICES ASSUME Init
             PROVE  SizeInv
  OBVIOUS
<1>1. \A x \in Paths : Sized(x)
  BY DEF Init, Sized, Exists
<1>2. SizesKept
  <2> SUFFICES ASSUME NEW m \in Mounts
               PROVE  SizeStage(m)
    BY DEF SizesKept
  <2>1. pc[m] = "down" /\ req[m] = NoRequest
    BY DEF Init
  <2>2. req[m].op = "none" /\ req[m].path \in Paths
    BY <2>1, PathAssumption DEF NoRequest, Request
  <2> QED
    BY <1>1, <2>1, <2>2 DEF SizeStage, SettingSize
<1> QED
  BY <1>2, InitAnchored DEF SizeInv

LEMMA NextSized == Alone /\ ~CanCrash /\ SizeInv /\ [Next]_vars => SizeInv'
<1> SUFFICES ASSUME Alone, ~CanCrash, SizeInv, [Next]_vars
             PROVE  SizeInv'
  OBVIOUS
<1>1. AnchorInv'
  BY NextAnchored DEF SizeInv
<1>2. SizesKept'
  <2>1. CASE UNCHANGED vars
    BY <2>1 DEF vars, SizeInv, SizesKept, SizeStage, SettingSize, Sized, Exists
  <2>2. ASSUME NEW m \in Mounts, StatsCall(m)
        PROVE  SizesKept'
    BY <2>2, GetattrSized, OpenSized, GetStatSized, ReplaceStatSized,
       StatsCallSized DEF StatsCall
  <2>3. ASSUME NEW m \in Mounts, BlocksCall(m)
        PROVE  SizesKept'
    BY <2>3, RefuseBlockSized, GetBlockSized, StoreBlockSized, RemoveDataSized
    DEF BlocksCall
  <2> QED
    BY <2>1, <2>2, <2>3, DentriesCallSized, EnvironmentSized DEF Next, Serve
<1> QED
  BY <1>1, <1>2 DEF SizeInv

\* With no call failing and the process left alive, the st_size that getattr
\* reports between requests is the length of the block read_data and
\* update_block go by, for files, offsets and limits of any size: a single
\* mount, whose users may remove what they like.
THEOREM SizesMatchBlocks ==
  ASSUME Alone, Mounts # {}, ~CanCrash
  PROVE  Spec => []SizeMatchesBlock
<1>1. SizeInv => SizeMatchesBlock
  <2> SUFFICES ASSUME SizeInv, AtRest, NEW p \in Paths
               PROVE  Sized(p)
    BY DEF SizeMatchesBlock, Sized
  <2>1. PICK m \in Mounts : pc[m] \in Rest
    BY DEF AtRest
  <2> QED
    BY <2>1, AllSized DEF Rest, SettingSize, SizeInv
<1> QED
  BY <1>1, InitSized, NextSized, PTL DEF Spec

-----------------------------------------------------------------------------
(***************************************************************************)
(* What a successful write leaves.                                         *)
(***************************************************************************)

\* A handler that comes to rest returns 0 only if its last call succeeded.
LEMMA ReturnedOk ==
  ASSUME NEW q, NEW at, NEW r, NEW next, Returned(q, at, next, r) = "ok",
         next = "idle"
  PROVE  /\ r \in {"ok", "grew", "eof"}
         /\ at = "getattr" /\ r = "ok" => q.op \in {"getattr", "mount"}
BY DEF Returned, Rest

\* What a mount does while it serves a request: a call, or it is killed.
LEMMA EndsByServing ==
  ASSUME NEW m \in Mounts, NEW op, op # "none", TypeOK, [Next]_vars,
         \A n \in Mounts : n = m, Ends(m, op)
  PROVE  Serve(m) /\ pc[m] \notin Rest
<1>1. pc'[m] # pc[m]
  BY DEF Ends
<1>2. PICK n \in Mounts : \/ Mount(n) \/ Begin(n) \/ Serve(n) \/ Unmount(n)
                          \/ Crash(n) \/ update_block_overrun(n)
  BY <1>1 DEF Next, vars
<1>3. n = m
  OBVIOUS
<1>4. Serve(m)
  BY <1>2, <1>3 DEF Ends, Mount, Begin, Unmount, Crash, update_block_overrun, Die,
     TypeOK
<1>5. pc[m] \notin Rest
  BY <1>4 DEF Serve, StatsCall, DentriesCall, BlocksCall, Rest, getattr, open,
     get_stat, replace_stat, insert_stat, remove_stat, get_dentry, replace_dentry,
     add_new_dentry, remove_dentry, refuse_block, get_block, store_block, remove_data
<1> QED
  BY <1>4, <1>5

\* The look-up, cbfuse_open and the calls in the middle of write_data do not
\* end a write successfully.
LEMMA WriteEndsLate ==
  ASSUME NEW m \in Mounts, Alone, SizeInv, [Next]_vars,
         Ends(m, "write"), fresult'[m] = "ok"
  PROVE  store_block(m) \/ replace_stat(m)
<1> DEFINE q == req[m]
<1>1. Serve(m) /\ pc[m] \notin Rest
  BY EndsByServing DEF SizeInv, AnchorInv, Alone
<1>2. q.op = "write" /\ pc'[m] = "idle"
  BY DEF Ends
<1>3. /\ pc[m] # "getattr" => DataStage(q.path, pc[m])
      /\ pc[m] # "remove_data"
  BY <1>1, <1>2, ServedOnCourse DEF Stage, SizeInv, SizesKept, SizeStage
<1>4. ~getattr(m)
  <2> SUFFICES ASSUME getattr(m)
               PROVE  FALSE
    OBVIOUS
  <2>1. q \in RequestDocs
    BY <1>1, ServedOnCourse DEF SizeInv
  <2>2. PICK next, r : Resume(m, q, next, r) /\ r \notin {"grew", "eof"}
    BY <1>2, <2>1 DEF getattr, Reply
  <2>3. next = "idle" /\ Returned(q, "getattr", next, r) = "ok"
    BY <1>2, <2>2, ResumeRequest DEF SizeInv, AnchorInv, getattr
  <2> QED
    BY <1>2, <2>2, <2>3, ReturnedOk
<1>5. ~open(m)
  <2> SUFFICES ASSUME open(m)
               PROVE  FALSE
    OBVIOUS
  <2>1. PICK r : /\ r \in {"ok", "EIO", "ENOENT"}
                 /\ Resume(m, q, After(q.op, "open", r), r)
    BY ReplyTyped DEF open
  <2>2. /\ After(q.op, "open", r) = "idle"
        /\ Returned(q, "open", "idle", r) = "ok"
    BY <1>2, <2>1, ResumeRequest DEF SizeInv, AnchorInv, open
  <2>3. r = "ok"
    BY <2>1, <2>2, ReturnedOk
  <2> QED
    BY <1>2, <2>2, <2>3 DEF After, cbfuse_open
<1>6. ~get_block(m) /\ ~refuse_block(m)
  <2>1. ASSUME get_block(m)
        PROVE  FALSE
    <3>1. PICK r : /\ r \in {"ok", "ENOENT"}
                   /\ Resume(m, q, After(q.op, "get_block", r), r)
      BY <1>2, <2>1, Answered DEF get_block, BlockReport, Exists
    <3>2. After(q.op, "get_block", r) = "store_block"
      BY <1>2, <3>1 DEF After, write_data
    <3> QED
      BY <1>2, <3>1, <3>2, ResumeRequest DEF SizeInv, AnchorInv
  <2>2. ASSUME refuse_block(m)
        PROVE  FALSE
    <3>1. Returned(q, "get_block", "idle", "EFBIG") = "ok"
      BY <2>2, ResumeRequest DEF refuse_block, SizeInv, AnchorInv
    <3> QED
      BY <3>1, ReturnedOk
  <2> QED
    BY <2>1, <2>2
<1>7. ~get_stat(m)
  <2> SUFFICES ASSUME get_stat(m)
               PROVE  FALSE
    OBVIOUS
  <2>1. PICK r : /\ r \in {"ok", "EIO", "ENOENT"}
                 /\ Resume(m, q, After(q.op, "get_stat", r), r)
    BY ReplyTyped DEF get_stat
  <2>2. /\ After(q.op, "get_stat", r) = "idle"
        /\ Returned(q, "get_stat", "idle", r) = "ok"
    BY <1>2, <2>1, ResumeRequest DEF SizeInv, AnchorInv, get_stat
  <2>3. r = "ok"
    BY <2>1, <2>2, ReturnedOk
  <2> QED
    BY <1>2, <2>2, <2>3 DEF After, write_data, update_stat
<1> QED
  BY <1>1, <1>3, <1>4, <1>5, <1>6, <1>7 DEF Serve, StatsCall, DentriesCall,
     BlocksCall, DataStage, insert_stat, remove_stat, get_dentry, replace_dentry,
     add_new_dentry, remove_dentry, remove_data

\* What WriteVisible says of one step.
Visible(m) ==
  LET p == req[m].path
  IN  /\ blocks'[p] # Absent /\ blocks'[p] >= Nupdate(req[m])
      /\ stats'[p] # Absent /\ stats'[p].size >= Nupdate(req[m])

\* Ended by update_block, the write fitted into the block there was.
LEMMA StoredBlockVisible ==
  ASSUME NEW m \in Mounts, Alone, SizeInv, store_block(m),
         Ends(m, "write"), fresult'[m] = "ok"
  PROVE  Visible(m)
<1> DEFINE q == req[m]
           p == q.path
           len == UpdatedLength(q, blocks[p])
<1>1. /\ q \in RequestDocs /\ p \in Paths /\ q.op = "write"
      /\ DataStage(p, "store_block")
  BY ServedOnCourse DEF store_block, Rest, SizeInv, Stage, Ends
<1>2. result[m] = blocks[p] /\ Sized(p)
  BY DEF SizeInv, SizesKept, SizeStage, SettingSize, store_block
<1>3. blocks[p] \in Nat \cup {Absent} /\ Nupdate(q) \in Nat
  BY <1>1 DEF SizeInv, AnchorInv, TypeOK, RequestDocs, Nupdate
<1>4. len \in Nat
  BY <1>1, <1>3 DEF UpdatedLength, Grows
<1>5. PICK r :
        /\ r = IF ~(len <= MAX_DOC_LEN) THEN "EIO"
               ELSE IF Grows(q, blocks[p]) THEN "grew" ELSE "ok"
        /\ Resume(m, q, After(q.op, "store_block", r), r)
        /\ blocks' = IF len <= MAX_DOC_LEN
                     THEN [blocks EXCEPT ![p] = len] ELSE blocks
  <2>1. (len <= MAX_DOC_LEN) \in BOOLEAN
    BY <1>4, DataAssumption
  <2> QED
    BY <1>2, <2>1, Answered DEF store_block
<1>6. r = "ok"
  <2>1. /\ After(q.op, "store_block", r) = "idle"
        /\ Returned(q, "store_block", "idle", r) = "ok"
    BY <1>5, ResumeRequest DEF SizeInv, AnchorInv, store_block, Ends
  <2>2. r # "grew"
    BY <1>1, <2>1 DEF After, write_data
  <2> QED
    BY <1>5, <2>1, <2>2, ReturnedOk
<1>7. blocks[p] \in Nat /\ blocks[p] >= Nupdate(q) /\ blocks'[p] = blocks[p]
  <2>1. ~Grows(q, blocks[p]) /\ len <= MAX_DOC_LEN
    BY <1>5, <1>6
  <2> QED
    BY <1>1, <1>3, <1>5, <2>1 DEF Grows, UpdatedLength, SizeInv, AnchorInv, TypeOK
<1>8. stats'[p] = stats[p] /\ stats[p] # Absent /\ stats[p].size = blocks[p]
  BY <1>1, <1>2, <1>7, DataAssumption
  DEF store_block, DataStage, IsReg, Exists, Sized
<1> QED
  BY <1>7, <1>8, DataAssumption DEF Visible

\* Ended by update_stat_size, it has set the size to the end of the block.
LEMMA StoredSizeVisible ==
  ASSUME NEW m \in Mounts, Alone, SizeInv, replace_stat(m),
         Ends(m, "write"), fresult'[m] = "ok"
  PROVE  Visible(m)
<1> DEFINE q == req[m]
           p == q.path
<1>1. /\ q \in RequestDocs /\ p \in Paths /\ q.op = "write"
      /\ DataStage(p, "replace_stat")
  BY ServedOnCourse DEF replace_stat, Rest, SizeInv, Stage, Ends
<1>2. casValid[m] /\ Exists(blocks, p) /\ blocks[p] = Nupdate(q)
  BY <1>1 DEF SizeInv, SizesKept, SizeStage, SettingSize, replace_stat
<1>3. Exists(stats, p) /\ result[m] = stats[p] /\ stats[p] \in StatDocs
  BY <1>1, <1>2 DEF DataStage, IsReg, SizeInv, AnchorInv, CasHolds, TypeOK, Exists
<1>4. stats'[p] = UpdatedStat(q, stats[p]) /\ UNCHANGED blocks
  BY <1>1, <1>2, <1>3, Answered DEF replace_stat, ReplaceAllowed, SizeInv, AnchorInv,
     TypeOK
<1>5. UpdatedStat(q, stats[p]) \in StatDocs
  BY <1>1, <1>3, UpdatedStatTyped
<1>6. UpdatedStat(q, stats[p]).size = Nupdate(q)
  BY <1>1, <1>3 DEF UpdatedStat, Nupdate, StatDocs
<1>7. Nupdate(q) \in Nat
  BY <1>1 DEF Nupdate, RequestDocs
<1> QED
  BY <1>2, <1>4, <1>5, <1>6, <1>7, DataAssumption DEF Visible, Exists

\* Under the same assumptions a write_data that reports success has left a
\* block and an st_size that reach as far as the data written.
THEOREM WritesVisible ==
  ASSUME Alone, ~CanCrash
  PROVE  Spec => WriteVisible
<1> DEFINE Shown == \A m \in Mounts : Ends(m, "write") /\ fresult'[m] = "ok" => Visible(m)
<1>1. SizeInv /\ [Next]_vars => [Shown]_vars
  BY WriteEndsLate, StoredBlockVisible, StoredSizeVisible
<1>2. [Shown]_vars <=>
        [\A m \in Mounts :
           Ends(m, "write") /\ fresult'[m] = "ok" =>
             LET p == req[m].path
             IN  /\ blocks'[p] # Absent /\ blocks'[p] >= Nupdate(req[m])
                 /\ stats'[p] # Absent /\ stats'[p].size >= Nupdate(req[m])]_vars
  BY DEF Visible
<1> QED
  BY <1>1, <1>2, InitSized, NextSized, PTL DEF Spec, WriteVisible

-----------------------------------------------------------------------------
(***************************************************************************)
(* The tree.                                                               *)
(***************************************************************************)

\* ancestors is what its recursive definition says, whatever dirname is: the
\* ancestors of p are what every set closed under dirname contains that
\* contains the parent of p.
LEMMA AncestorsOf ==
  ASSUME NEW p \in Paths
  PROVE  ancestors[p] =
           IF p = Root THEN {} ELSE {dirname[p]} \cup ancestors[dirname[p]]
<1> DEFINE Step(f) == [x \in Paths |->
             IF x = Root THEN {} ELSE {dirname[x]} \cup f[dirname[x]]]
           Closed(S) == \A x \in S : x # Root => dirname[x] \in S
           Above(x) == {d \in Paths : \A S \in SUBSET Paths :
                          Closed(S) /\ (x # Root => dirname[x] \in S) => d \in S}
           above == [x \in Paths |-> Above(x)]
<1>1. Above(Root) = {}
  <2>1. {} \in SUBSET Paths /\ Closed({})
    OBVIOUS
  <2> QED
    BY <2>1
<1>2. ASSUME NEW x \in Paths, x # Root
      PROVE  Above(x) = {dirname[x]} \cup Above(dirname[x])
  <2>1. dirname[x] \in Above(x)
    BY <1>2, PathAssumption
  <2>2. Above(dirname[x]) \subseteq Above(x)
    <3> SUFFICES ASSUME NEW d \in Above(dirname[x]), NEW S \in SUBSET Paths,
                        Closed(S), dirname[x] \in S
                 PROVE  d \in S
      BY <1>2
    <3>1. dirname[x] # Root => dirname[dirname[x]] \in S
      OBVIOUS
    <3> QED
      BY <3>1
  <2>3. Above(x) \subseteq {dirname[x]} \cup Above(dirname[x])
    <3> SUFFICES ASSUME NEW d \in Above(x), d # dirname[x], NEW S \in SUBSET Paths,
                        Closed(S), dirname[x] # Root => dirname[dirname[x]] \in S
                 PROVE  d \in S
      OBVIOUS
    <3>1. S \cup {dirname[x]} \in SUBSET Paths
      BY PathAssumption
    <3>2. Closed(S \cup {dirname[x]})
      OBVIOUS
    <3>3. d \in S \cup {dirname[x]}
      <4> HIDE DEF Closed
      <4> QED
        BY <3>1, <3>2
    <3> QED
      BY <3>3
  <2> QED
    BY <2>1, <2>2, <2>3
<1>3. above = Step(above)
  <2> HIDE DEF Above
  <2> QED
    BY <1>1, <1>2, PathAssumption
<1>4. ancestors = Step(ancestors)
  <2> HIDE DEF above
  <2>1. \E f : f = Step(f)
    BY <1>3
  <2>2. ancestors = CHOOSE f : f = Step(f)
    BY DEF ancestors
  <2> HIDE DEF Step
  <2> QED
    BY <2>1, <2>2
<1> QED
  BY <1>4

Complete(x) ==
  Exists(stats, x) =>
    /\ x # Root => Lists(dirname[x], x)
    /\ IsDir(x) => Exists(dentries, x)

\* While it makes these calls a handler that serves q has its path half made
\* or half removed.
Unfinished(q, call) ==
  \/ call = "add_new_dentry"
  \/ /\ q.op \in {"create", "mkdir", "unlink", "rmdir"}
     /\ call \in {"get_dentry", "replace_dentry", "remove_stat"}

\* What the kernel's walk has found, and a user who calls rmdir sees to.
Prepared(q) ==
  /\ q.op \in {"create", "mkdir"} => Exists(dentries, dirname[q.path])
  /\ q.op = "rmdir" => \A c \in Paths : ~Lists(q.path, c)

\* What has been made of a new path so far.
Made(q, call) ==
  LET naming == call \in {"get_dentry", "replace_dentry"}
  IN  /\ call = "add_new_dentry" => ~Exists(dentries, q.path)
      /\ q.op = "mkdir" /\ naming => Exists(dentries, q.path)
      /\ q.op = "create" /\ naming => ~IsDir(q.path)

TreeStage(m) ==
  /\ \A x \in Paths \ {req[m].path} : Complete(x)
  /\ ~Unfinished(req[m], pc[m]) => Complete(req[m].path)
  /\ Prepared(req[m])
  /\ Made(req[m], pc[m])

TreeKept == \A m \in Mounts : TreeStage(m)

TreeInv == AnchorInv /\ TreeKept

LEMMA AllComplete ==
  ASSUME NEW m \in Mounts, TreeKept, ~Unfinished(req[m], pc[m])
  PROVE  \A x \in Paths : Complete(x)
BY DEF TreeKept, TreeStage

\* A step to a call that suits what has been made so far, or to rest with
\* nothing half made.
LEMMA TreeStep ==
  ASSUME NEW m \in Mounts, NEW q, NEW next, NEW r,
         Alone, TypeOK, Resume(m, q, next, r), q.path \in Paths,
         \A x \in Paths \ {q.path} : Complete(x)',
         ~Unfinished(q, next) => Complete(q.path)',
         next \notin Rest => Prepared(q)' /\ Made(q, next)'
  PROVE  TreeKept'
<1>1. CASE next \in Rest
  <2>1. pc'[m] = next /\ req'[m] = NoRequest
    BY <1>1, ResumeRequest
  <2>2. NoRequest.op = "none" /\ NoRequest.path \in Paths
    BY PathAssumption DEF NoRequest, Request
  <2>3. \A x \in Paths : Complete(x)'
    BY <1>1 DEF Unfinished, Rest
  <2>4. Prepared(req[m])' /\ Made(req[m], pc[m])'
    BY <1>1, <2>1, <2>2 DEF Prepared, Made, Rest
  <2>5. TreeStage(m)'
    BY <2>1, <2>2, <2>3, <2>4 DEF TreeStage, Complete, IsDir, Lists, Exists
  <2> QED
    BY <2>5 DEF TreeKept, Alone
<1>2. CASE next \notin Rest
  <2>1. pc'[m] = next /\ req'[m] = q
    BY <1>2, ResumeRequest
  <2>2. Unfinished(req[m], pc[m])' <=> Unfinished(q, next)
    BY <2>1 DEF Unfinished
  <2>3. Prepared(req[m])' /\ Made(req[m], pc[m])'
    BY <1>2, <2>1 DEF Prepared, Made, IsDir, Lists, Exists
  <2>4. TreeStage(m)'
    BY <2>1, <2>2, <2>3 DEF TreeStage, Complete, IsDir, Lists, Exists
  <2> QED
    BY <2>4 DEF TreeKept, Alone
<1> QED
  BY <1>1, <1>2

\* A step that changes no directory entry, and of the stat documents neither
\* which there are nor their types.
LEMMA TreeQuietStep ==
  ASSUME NEW m \in Mounts, NEW q, NEW next, NEW r,
         Alone, TreeInv, Resume(m, q, next, r), pc[m] \notin Rest,
         q.op = req[m].op, q.path = req[m].path,
         UNCHANGED dentries,
         \A x \in Paths : /\ Exists(stats, x)' <=> Exists(stats, x)
                          /\ Exists(stats, x) => stats'[x].type = stats[x].type,
         ~Unfinished(q, next) => ~Unfinished(req[m], pc[m]),
         next \notin Rest => Made(q, next)
  PROVE  TreeKept'
<1>1. q.path \in Paths
  BY ServedOnCourse DEF TreeInv
<1>2. \A x \in Paths : Complete(x) => Complete(x)'
  BY DEF Complete, IsDir, Lists, Exists
<1>3. TreeStage(m)
  BY DEF TreeInv, TreeKept
<1>4. \A x \in Paths \ {q.path} : Complete(x)'
  BY <1>2, <1>3 DEF TreeStage
<1>5. ~Unfinished(q, next) => Complete(q.path)'
  BY <1>1, <1>2, <1>3 DEF TreeStage
<1>6. Prepared(q)'
  BY <1>3 DEF TreeStage, Prepared, Lists, Exists
<1>7. Made(q, next) => Made(q, next)'
  BY <1>1 DEF Made, IsDir, Exists
<1> QED
  BY <1>1, <1>4, <1>5, <1>6, <1>7, TreeStep DEF TreeInv, AnchorInv

\* The look-up and cbfuse_open change nothing, and come first.
LEMMA GetattrTree ==
  ASSUME NEW m \in Mounts, Alone, TreeInv, getattr(m)
  PROVE  TreeKept'
<1> SUFFICES ASSUME NEW q, q = req[m]
             PROVE  TreeKept'
  OBVIOUS
<1>1. q \in RequestDocs
  BY ServedOnCourse DEF getattr, Rest, TreeInv
<1>2. PICK seen, r, type :
        /\ Resume(m, seen, AfterLookup(q, r, type), r)
        /\ seen.op = q.op /\ seen.path = q.path
  BY <1>1 DEF getattr, RequestDocs
<1> DEFINE next == AfterLookup(q, r, type)
<1>3. ~Unfinished(q, pc[m])
  BY DEF Unfinished, getattr
<1>4. next \notin Rest => Made(seen, next)
  BY <1>2 DEF AfterLookup, verify_root, FirstCall, Made, Rest
<1>5. /\ UNCHANGED dentries
      /\ \A x \in Paths : /\ Exists(stats, x)' <=> Exists(stats, x)
                          /\ Exists(stats, x) => stats'[x].type = stats[x].type
  BY DEF getattr, store, Exists
<1>6. pc[m] \notin Rest
  BY DEF getattr, Rest
<1>7. Resume(m, seen, next, r)
  BY <1>2
<1> HIDE DEF next, TreeKept
<1> QED
  BY <1>2, <1>3, <1>4, <1>5, <1>6, <1>7, TreeQuietStep

\* The calls on an open file, and the updates of a stat document, keep every
\* name and every type.
LEMMA FileCallsTree ==
  ASSUME NEW m \in Mounts, Alone, TreeInv,
         \/ open(m) \/ get_stat(m) \/ replace_stat(m)
         \/ refuse_block(m) \/ get_block(m) \/ store_block(m)
  PROVE  TreeKept'
<1> SUFFICES ASSUME NEW q, q = req[m]
             PROVE  TreeKept'
  OBVIOUS
<1> DEFINE calls == {"open", "get_stat", "replace_stat", "get_block", "store_block"}
<1>1. /\ pc[m] \in calls
      /\ UNCHANGED dentries
      /\ \E r, next : /\ Resume(m, q, next, r)
                      /\ next = After(q.op, pc[m], r) \/ next = "idle"
  BY DEF open, get_stat, replace_stat, refuse_block, get_block, store_block, store
<1>2. PICK r, next : /\ Resume(m, q, next, r)
                     /\ next = After(q.op, pc[m], r) \/ next = "idle"
  BY <1>1
<1>3. q.op \in {"open", "read", "write", "truncate", "chmod", "utimens"}
  <2>1. Stage(q, pc[m])
    BY <1>1, ServedOnCourse DEF Rest, TreeInv
  <2> QED
    BY <1>1, <2>1 DEF Stage, MountStage, CreateStage, MkdirStage, UnlinkStage,
       RmdirStage
<1>4. ~Unfinished(q, pc[m])
  BY <1>1, <1>3 DEF Unfinished
<1>5. next \in calls \cup Rest
  BY <1>1, <1>2, <1>3 DEF After, cbfuse_open, read_data, write_data, truncate_data,
     update_stat, Rest
<1>6. Made(q, next)
  BY <1>3, <1>5 DEF Made, Rest
<1>7. \A x \in Paths : /\ Exists(stats, x)' <=> Exists(stats, x)
                       /\ Exists(stats, x) => stats'[x].type = stats[x].type
  BY ReplaceKeepsTypes DEF open, get_stat, refuse_block, get_block, store_block,
     store, Exists, TreeInv
<1> HIDE DEF TreeKept, calls
<1> QED
  BY <1>1, <1>2, <1>4, <1>6, <1>7, TreeQuietStep DEF Rest, calls

LEMMA RemoveDataTree ==
  ASSUME NEW m \in Mounts, Alone, TreeInv, remove_data(m)
  PROVE  TreeKept'
<1> SUFFICES ASSUME NEW q, q = req[m]
             PROVE  TreeKept'
  OBVIOUS
<1> DEFINE next(r) == After(q.op, "remove_data", r)
<1>1. PICK r : Resume(m, q, next(r), r)
  BY DEF remove_data
<1>2. q.op \in {"unlink", "open", "read", "write", "truncate"}
  <2>1. Stage(q, "remove_data")
    BY ServedOnCourse DEF remove_data, Rest, TreeInv
  <2> QED
    BY <2>1 DEF Stage, MountStage, CreateStage, MkdirStage, RmdirStage, MetaStage
<1>3. ~Unfinished(q, pc[m])
  BY DEF Unfinished, remove_data
<1>4. Made(q, next(r))
  BY <1>2 DEF Made, After, cbfuse_unlink, read_data, write_data, truncate_data,
     update_stat
<1> HIDE DEF TreeKept, next
<1> QED
  BY <1>1, <1>3, <1>4, TreeQuietStep DEF remove_data, Exists, Rest

\* The parent of a new path has its directory entry.
LEMMA GetDentryTree ==
  ASSUME NEW m \in Mounts, Alone, TreeInv, get_dentry(m)
  PROVE  TreeKept'
<1> SUFFICES ASSUME NEW q, q = req[m]
             PROVE  TreeKept'
  OBVIOUS
<1> DEFINE next(r) == After(q.op, "get_dentry", r)
<1>1. PICK r :
        /\ r = IF Exists(dentries, DirOf(q)) THEN "ok" ELSE "ENOENT"
        /\ Resume(m, q, next(r), r)
  BY Answered DEF get_dentry, Exists
<1>2. q.op \in {"create", "mkdir", "unlink", "rmdir", "readdir"}
  <2>1. Stage(q, "get_dentry")
    BY ServedOnCourse DEF get_dentry, Rest, TreeInv
  <2> QED
    BY <2>1 DEF Stage, MountStage, DataStage, MetaStage
<1>3. Prepared(q) /\ Made(q, "get_dentry")
  BY DEF TreeInv, TreeKept, TreeStage, get_dentry
<1>4. q.op \in {"create", "mkdir"} => r = "ok"
  BY <1>1, <1>3 DEF Prepared, DirOf
<1>5. next(r) \in IF q.op = "readdir" THEN {"idle"}
                  ELSE {"replace_dentry", "remove_stat"}
  BY <1>2, <1>4 DEF After, cbfuse_create, cbfuse_mkdir, cbfuse_unlink, cbfuse_rmdir
<1>6. ~Unfinished(q, next(r)) => ~Unfinished(q, pc[m])
  BY <1>2, <1>5 DEF Unfinished, get_dentry
<1>7. Made(q, next(r))
  BY <1>3, <1>5 DEF Made
<1> HIDE DEF TreeKept, next
<1> QED
  BY <1>1, <1>6, <1>7, TreeQuietStep DEF get_dentry, store, Exists, Rest

\* A new stat document has its name and its directory entry to come.
LEMMA InsertStatTree ==
  ASSUME NEW m \in Mounts, Alone, TreeInv, insert_stat(m)
  PROVE  TreeKept'
<1> SUFFICES ASSUME NEW q, q = req[m]
             PROVE  TreeKept'
  OBVIOUS
<1> DEFINE p == q.path
           next(r) == After(q.op, "insert_stat", r)
           doc == [type |-> q.type, perm |-> q.perm, size |-> 0]
<1>1. /\ q \in RequestDocs /\ p \in Paths /\ Asked(q)
      /\ Stage(q, "insert_stat")
  BY ServedOnCourse DEF insert_stat, Rest, TreeInv
<1>2. q.op \in {"mount", "create", "mkdir"}
  BY <1>1 DEF Stage, UnlinkStage, RmdirStage, DataStage, MetaStage
<1>3. PICK r :
        /\ r = IF ~Exists(stats, p) THEN "ok" ELSE "ENOENT"
        /\ Resume(m, q, next(r), r)
        /\ stats' = IF ~Exists(stats, p) THEN [stats EXCEPT ![p] = doc] ELSE stats
  BY Answered DEF insert_stat, InsertAllowed, Exists
<1>4. /\ UNCHANGED dentries
      /\ TreeStage(m)
  BY DEF insert_stat, TreeInv, TreeKept
<1>5. CASE Exists(stats, p)
  <2>1. next(r) \in Rest
    BY <1>2, <1>3, <1>5 DEF After, insert_root, cbfuse_create, cbfuse_mkdir, Rest
  <2>2. ~Unfinished(q, pc[m])
    BY DEF Unfinished, insert_stat
  <2> HIDE DEF TreeKept, next
  <2> QED
    BY <1>3, <1>4, <1>5, <2>1, <2>2, TreeQuietStep DEF insert_stat, Exists, Rest
<1>6. CASE ~Exists(stats, p)
  <2>1. stats'[p] = doc /\ \A x \in Paths \ {p} : stats'[x] = stats[x]
    BY <1>1, <1>3, <1>6 DEF TreeInv, AnchorInv, TypeOK
  <2>2. \A x \in Paths \ {p} : Complete(x)'
    BY <1>4, <2>1 DEF TreeStage, Complete, IsDir, Lists, Exists
  <2>3. next(r) = IF q.op = "create" THEN "get_dentry" ELSE "add_new_dentry"
    BY <1>2, <1>3, <1>6 DEF After, insert_root, cbfuse_create, cbfuse_mkdir
  <2>4. Unfinished(q, next(r))
    BY <1>2, <2>3 DEF Unfinished
  <2>5. Prepared(q)'
    BY <1>4 DEF TreeStage, Prepared, Lists, Exists
  <2>6. Made(q, next(r))'
    <3>1. ~Exists(dentries, p)'
      BY <1>1, <1>4, <1>6 DEF TreeInv, AnchorInv, StatAnchors, DentriesHaveStat, Exists
    <3>2. q.op = "create" => ~IsDir(p)'
      BY <1>1, <2>1 DEF Asked, IsDir
    <3> QED
      BY <1>2, <2>3, <3>1, <3>2 DEF Made
  <2> HIDE DEF TreeKept, next
  <2> QED
    BY <1>1, <1>3, <2>2, <2>4, <2>5, <2>6, TreeStep DEF TreeInv, AnchorInv
<1> QED
  BY <1>5, <1>6

\* With its stat document the last of a path is gone.
LEMMA RemoveStatTree ==
  ASSUME NEW m \in Mounts, Alone, TreeInv, remove_stat(m)
  PROVE  TreeKept'
<1> SUFFICES ASSUME NEW q, q = req[m]
             PROVE  TreeKept'
  OBVIOUS
<1> DEFINE p == q.path
           next(r) == After(q.op, "remove_stat", r)
<1>1. /\ q \in RequestDocs /\ p \in Paths
      /\ Stage(q, "remove_stat")
  BY ServedOnCourse DEF remove_stat, Rest, TreeInv
<1>2. q.op \in {"unlink", "rmdir"}
  BY <1>1 DEF Stage, MountStage, CreateStage, MkdirStage, DataStage, MetaStage
<1>3. PICK r :
        /\ Resume(m, q, next(r), r)
        /\ stats' = IF Exists(stats, p)
                    THEN [stats EXCEPT ![p] = Absent] ELSE stats
  BY Answered DEF remove_stat, Exists
<1>4. /\ UNCHANGED dentries
      /\ TreeStage(m)
  BY DEF remove_stat, TreeInv, TreeKept
<1>5. /\ ~Exists(stats, p)'
      /\ \A x \in Paths \ {p} : stats'[x] = stats[x]
  BY <1>1, <1>3 DEF TreeInv, AnchorInv, TypeOK, Exists
<1>6. /\ Complete(p)'
      /\ \A x \in Paths \ {p} : Complete(x)'
  BY <1>4, <1>5 DEF TreeStage, Complete, IsDir, Lists, Exists
<1>7. next(r) \in Rest
  BY <1>2 DEF After, cbfuse_unlink, cbfuse_rmdir, Rest
<1> HIDE DEF TreeKept, next
<1> QED
  BY <1>1, <1>3, <1>6, <1>7, TreeStep DEF TreeInv, AnchorInv

\* A new directory has no children to name, and nobody's parent gets a new
\* entry: a path whose parent has none does not exist.
LEMMA AddNewDentryTree ==
  ASSUME NEW m \in Mounts, Alone, TreeInv, add_new_dentry(m)
  PROVE  TreeKept'
<1> SUFFICES ASSUME NEW q, q = req[m]
             PROVE  TreeKept'
  OBVIOUS
<1> DEFINE p == q.path
           next(r) == After(q.op, "add_new_dentry", r)
<1>1. /\ q \in RequestDocs /\ p \in Paths /\ Asked(q)
      /\ Stage(q, "add_new_dentry")
  BY ServedOnCourse DEF add_new_dentry, Rest, TreeInv
<1>2. q.op \in {"mount", "mkdir"}
  BY <1>1 DEF Stage, CreateStage, UnlinkStage, RmdirStage, DataStage, MetaStage
<1>3. TreeStage(m) /\ ~Exists(dentries, p)
  BY DEF TreeInv, TreeKept, TreeStage, Made, add_new_dentry
<1>4. PICK r :
        /\ r = "ok"
        /\ Resume(m, q, next(r), r)
        /\ dentries' = [dentries EXCEPT ![p] = NoChildren]
  BY <1>3, Answered DEF add_new_dentry
<1>5. /\ UNCHANGED stats
      /\ \A x \in Paths \ {p} : dentries'[x] = dentries[x]
      /\ Exists(dentries, p)'
  <2>1. NoChildren # Absent
    BY NoChildrenTyped, DataAssumption
  <2> QED
    BY <1>1, <1>4, <2>1 DEF add_new_dentry, TreeInv, AnchorInv, TypeOK, Exists
<1>6. \A x \in Paths \ {p} : Complete(x)'
  BY <1>3, <1>5, PathAssumption DEF TreeStage, Complete, IsDir, Lists, Exists
<1>7. Prepared(q)'
  BY <1>1, <1>2, <1>3, <1>5, PathAssumption DEF TreeStage, Prepared, Exists
<1>8. next(r) = IF q.op = "mkdir" THEN "get_dentry" ELSE "idle"
  BY <1>2, <1>4 DEF After, insert_root, cbfuse_mkdir
<1>9. ~Unfinished(q, next(r)) => Complete(p)'
  <2>1. q.op = "mount" => Complete(p)'
    BY <1>1, <1>5 DEF Asked, Complete
  <2> QED
    BY <1>2, <1>8, <2>1 DEF Unfinished
<1>10. next(r) \notin Rest => Made(q, next(r))'
  BY <1>2, <1>5, <1>8 DEF Made, Rest
<1> HIDE DEF TreeKept, next
<1> QED
  BY <1>1, <1>4, <1>6, <1>7, <1>9, <1>10, TreeStep DEF TreeInv, AnchorInv

\* An empty directory's entry names no path that exists.
LEMMA RemoveDentryTree ==
  ASSUME NEW m \in Mounts, Alone, TreeInv, remove_dentry(m)
  PROVE  TreeKept'
<1> SUFFICES ASSUME NEW q, q = req[m]
             PROVE  TreeKept'
  OBVIOUS
<1> DEFINE p == q.path
           next(r) == After(q.op, "remove_dentry", r)
<1>1. /\ q \in RequestDocs /\ p \in Paths
      /\ Stage(q, "remove_dentry")
  BY ServedOnCourse DEF remove_dentry, Rest, TreeInv
<1>2. q.op = "rmdir"
  BY <1>1 DEF Stage, MountStage, CreateStage, MkdirStage, UnlinkStage, DataStage,
     MetaStage
<1>3. TreeStage(m) /\ \A c \in Paths : ~Lists(p, c)
  BY <1>2 DEF TreeInv, TreeKept, TreeStage, Prepared
<1>4. PICK r :
        /\ Resume(m, q, next(r), r)
        /\ dentries' = IF Exists(dentries, p)
                       THEN [dentries EXCEPT ![p] = Absent] ELSE dentries
  BY Answered DEF remove_dentry, Exists
<1>5. /\ UNCHANGED stats
      /\ \A x \in Paths \ {p} : dentries'[x] = dentries[x]
      /\ ~Exists(dentries, p)'
  BY <1>1, <1>4 DEF remove_dentry, TreeInv, AnchorInv, TypeOK, Exists
<1>6. \A x \in Paths \ {p} : Complete(x)'
  BY <1>3, <1>5, PathAssumption DEF TreeStage, Complete, IsDir, Lists, Exists
<1>7. next(r) = "get_dentry"
  BY <1>2 DEF After, cbfuse_rmdir
<1>8. Unfinished(q, next(r))
  BY <1>2, <1>7 DEF Unfinished
<1>9. Prepared(q)'
  BY <1>2, <1>5 DEF Prepared, Lists, Exists
<1>10. Made(q, next(r))'
  BY <1>2, <1>7 DEF Made
<1> HIDE DEF TreeKept, next
<1> QED
  BY <1>1, <1>4, <1>6, <1>8, <1>9, <1>10, TreeStep DEF TreeInv, AnchorInv

\* The parent's entry gains or loses the one name.
LEMMA ReplaceDentryTree ==
  ASSUME NEW m \in Mounts, Alone, TreeInv, replace_dentry(m)
  PROVE  TreeKept'
<1> SUFFICES ASSUME NEW q, q = req[m]
             PROVE  TreeKept'
  OBVIOUS
<1> DEFINE p == q.path
           d == dirname[p]
           updated == UpdatedChildren(q, dentries[d])
           next(r) == After(q.op, "replace_dentry", r)
<1>1. /\ q \in RequestDocs /\ p \in Paths /\ Asked(q)
      /\ Stage(q, "replace_dentry")
      /\ HoldsDentry(m)
  BY ServedOnCourse DEF replace_dentry, Rest, TreeInv
<1>2. q.op \in {"create", "mkdir", "unlink", "rmdir"}
  BY <1>1 DEF Stage, MountStage, DataStage, MetaStage
<1>3. DirOf(q) = d /\ d \in Paths
  BY <1>1, <1>2, PathAssumption DEF DirOf
<1>4. result[m] = dentries[d] /\ dentries[d] \in ChildBags
  <2>1. result[m] = dentries[d]
    BY <1>1, <1>3 DEF HoldsDentry, replace_dentry
  <2>2. result[m] \in ChildBags
    BY DEF TreeInv, AnchorInv, TypeOK, Buffered, replace_dentry
  <2> QED
    BY <2>1, <2>2
<1>5. Exists(dentries, d)
  BY <1>4, DataAssumption DEF Exists
<1>6. PICK r :
        /\ Resume(m, q, next(r), r)
        /\ dentries' = [dentries EXCEPT ![d] = updated]
  BY <1>3, <1>4, <1>5, Answered DEF replace_dentry
<1>7. updated \in ChildBags
  BY <1>1, <1>4, UpdatedChildrenTyped
<1>8. /\ \A c \in Paths \ {p} : updated[c] = dentries[d][c]
      /\ q.op \in {"unlink", "rmdir"} => updated[p] = 0
      /\ q.op \in {"create", "mkdir"} => updated[p] = 1
  <2>1. q.op \in {"create", "mkdir"} => ~(dentries[d][p] > 0)
    BY <1>1, <1>5 DEF Stage, CreateStage, MkdirStage, Unlisted, Lists
  <2> QED
    BY <1>1, <1>2, <1>4, <2>1, UpdatedChildrenCounts
<1>9. /\ UNCHANGED stats
      /\ dentries'[d] = updated
      /\ \A x \in Paths \ {d} : dentries'[x] = dentries[x]
  BY <1>3, <1>6 DEF replace_dentry, TreeInv, AnchorInv, TypeOK
<1> HIDE DEF updated
<1>10. /\ \A x \in Paths : Exists(dentries, x)' <=> Exists(dentries, x)
       /\ \A x \in Paths, c \in Paths \ {p} : Lists(x, c)' <=> Lists(x, c)
  BY <1>5, <1>7, <1>8, <1>9, DataAssumption DEF Exists, Lists
<1>11. TreeStage(m)
  BY DEF TreeInv, TreeKept
<1>12. \A x \in Paths \ {p} : Complete(x)'
  <2>1. \A x \in Paths \ {p} : dirname[x] \in Paths
    BY PathAssumption
  <2> QED
    BY <1>9, <1>10, <1>11, <2>1 DEF TreeStage, Complete, IsDir, Exists
<1>13. Prepared(q)'
  <2>1. q.op \in {"create", "mkdir"} => Exists(dentries, d)'
    BY <1>3, <1>5, <1>10
  <2>2. q.op = "rmdir" => \A c \in Paths : ~Lists(p, c)'
    BY <1>1, <1>8, <1>9, <1>10, <1>11 DEF TreeStage, Prepared, Lists
  <2> QED
    BY <2>1, <2>2 DEF Prepared
<1>14. CASE q.op \in {"unlink", "rmdir"}
  <2>1. next(r) = "remove_stat"
    BY <1>14 DEF After, cbfuse_unlink, cbfuse_rmdir
  <2>2. Unfinished(q, next(r)) /\ Made(q, next(r))'
    BY <1>14, <2>1 DEF Unfinished, Made
  <2> HIDE DEF TreeKept, next
  <2> QED
    BY <1>1, <1>6, <1>12, <1>13, <2>2, TreeStep DEF TreeInv, AnchorInv
<1>15. CASE q.op \in {"create", "mkdir"}
  <2>1. next(r) \in Rest
    BY <1>15 DEF After, cbfuse_create, cbfuse_mkdir, Rest
  <2>2. Lists(d, p)'
    BY <1>3, <1>5, <1>8, <1>9, <1>10, <1>15 DEF Lists
  <2>3. IsDir(p) => Exists(dentries, p)
    BY <1>11, <1>15 DEF TreeStage, Made, replace_dentry
  <2>4. Complete(p)'
    BY <1>1, <1>9, <1>10, <2>2, <2>3 DEF Complete, IsDir, Exists
  <2> HIDE DEF TreeKept, next
  <2> QED
    BY <1>1, <1>6, <1>12, <2>1, <2>4, TreeStep DEF TreeInv, AnchorInv
<1> QED
  BY <1>2, <1>14, <1>15

\* The walk has found the parent of a new path, a directory and so complete.
LEMMA IssuedPrepared ==
  ASSUME NEW q \in Requests, Issues(q), RmdirEmptyOnly, TypeOK,
         \A x \in Paths : Complete(x)
  PROVE  q.path \in Paths /\ Prepared(q)
<1>1. q.path \in Paths
  BY RequestsTyped DEF RequestDocs
<1>2. ASSUME q.op \in {"create", "mkdir"}
      PROVE  Exists(dentries, dirname[q.path])
  <2>1. q.path # Root
    BY <1>2 DEF Issues
  <2>2. dirname[q.path] \in ancestors[q.path]
    BY <1>1, <2>1, AncestorsOf
  <2> QED
    BY <1>1, <2>2, PathAssumption DEF Issues, Complete, IsDir
<1> QED
  BY <1>1, <1>2 DEF Issues, Prepared

LEMMA EnvironmentTree ==
  ASSUME NEW m \in Mounts, Alone, ~CanCrash, RmdirEmptyOnly, TreeInv,
         Mount(m) \/ Begin(m) \/ Unmount(m) \/ Crash(m) \/ update_block_overrun(m)
  PROVE  TreeKept'
<1>1. ~Crash(m)
  BY DEF Crash
<1>2. /\ pc[m] \in {"idle", "down", "store_block"}
      /\ UNCHANGED store
      /\ pc'[m] \in {"getattr", "down"}
  BY <1>1 DEF Mount, Begin, Unmount, update_block_overrun, Die, TreeInv, AnchorInv,
     TypeOK
<1>3. /\ \A x \in Paths : Complete(x)
      /\ (\A x \in Paths : Complete(x))'
  <2>1. \A x \in Paths : Complete(x)
    BY <1>2, AllComplete DEF Unfinished, TreeInv
  <2> QED
    BY <1>2, <2>1 DEF store, Complete, IsDir, Lists, Exists
<1>4. req'[m].path \in Paths /\ Prepared(req[m])'
  <2>1. CASE Mount(m) \/ update_block_overrun(m)
    <3>1. /\ req'[m].op \in {"mount", "none"}
          /\ req'[m].path = Root
      BY <2>1 DEF Mount, MountRequest, update_block_overrun, Die, NoRequest, Request,
         TreeInv, AnchorInv, TypeOK
    <3> QED
      BY <3>1, PathAssumption DEF Prepared
  <2>2. CASE Begin(m)
    <3>1. PICK q \in Requests : Issues(q) /\ req' = [req EXCEPT ![m] = q]
      BY <2>2 DEF Begin
    <3>2. req'[m] = q /\ q.path \in Paths /\ Prepared(q)
      BY <1>3, <3>1, IssuedPrepared DEF TreeInv, AnchorInv, TypeOK
    <3> QED
      BY <1>2, <3>2 DEF store, Prepared, Lists, Exists
  <2>3. CASE Unmount(m)
    BY <2>3 DEF Unmount, store, TreeInv, TreeKept, TreeStage, Prepared, Lists, Exists,
       AnchorInv, TypeOK, RequestDocs
  <2> QED
    BY <1>1, <2>1, <2>2, <2>3
<1>5. Made(req[m], pc[m])'
  BY <1>2 DEF Made
<1>6. TreeStage(m)'
  BY <1>3, <1>4, <1>5 DEF TreeStage
<1> QED
  BY <1>6 DEF TreeKept, Alone

LEMMA InitTree == Init => TreeInv
<1> SUFFICES ASSUME Init
             PROVE  TreeInv
  OBVIOUS
<1>1. \A x \in Paths : Complete(x)
  BY DEF Init, Complete, Exists
<1>2. TreeKept
  <2> SUFFICES ASSUME NEW m \in Mounts
               PROVE  TreeStage(m)
    BY DEF TreeKept
  <2>1. pc[m] = "down" /\ req[m] = NoRequest
    BY DEF Init
  <2>2. req[m].op = "none" /\ req[m].path \in Paths
    BY <2>1, PathAssumption DEF NoRequest, Request
  <2> QED
    BY <1>1, <2>1, <2>2 DEF TreeStage, Prepared, Made
<1> QED
  BY <1>2, InitAnchored DEF TreeInv

LEMMA NextTree ==
  Alone /\ ~CanCrash /\ RmdirEmptyOnly /\ TreeInv /\ [Next]_vars => TreeInv'
<1> SUFFICES ASSUME Alone, ~CanCrash, RmdirEmptyOnly, TreeInv, [Next]_vars
             PROVE  TreeInv'
  OBVIOUS
<1>1. AnchorInv'
  BY NextAnchored DEF TreeInv
<1>2. TreeKept'
  <2>1. CASE UNCHANGED vars
    BY <2>1 DEF vars, TreeInv, TreeKept, TreeStage, Unfinished, Prepared, Made,
       Complete, IsDir, Lists, Exists
  <2>2. ASSUME NEW m \in Mounts, Serve(m)
        PROVE  TreeKept'
    BY <2>2, GetattrTree, FileCallsTree, InsertStatTree, RemoveStatTree, GetDentryTree,
       ReplaceDentryTree, AddNewDentryTree, RemoveDentryTree, RemoveDataTree
    DEF Serve, StatsCall, DentriesCall, BlocksCall
  <2> QED
    BY <2>1, <2>2, EnvironmentTree DEF Next
<1> QED
  BY <1>1, <1>2 DEF TreeInv

\* However large the tree, between requests each stat document but the root's
\* is named by its parent's directory entry, and each directory has a directory
\* entry: nothing is lost that a user made.  A single mount with no call failing
\* and the process left alive, whose users remove empty directories only.
THEOREM TreeIsComplete ==
  ASSUME Alone, Mounts # {}, ~CanCrash, RmdirEmptyOnly
  PROVE  Spec => []TreeComplete
<1>1. TreeInv => TreeComplete
  <2> SUFFICES ASSUME TreeInv, AtRest, NEW p \in Paths
               PROVE  Complete(p)
    BY DEF TreeComplete, Complete
  <2>1. PICK m \in Mounts : pc[m] \in Rest
    BY DEF AtRest
  <2> QED
    BY <2>1, AllComplete DEF Rest, Unfinished, TreeInv
<1> QED
  BY <1>1, InitTree, NextTree, PTL DEF Spec

-----------------------------------------------------------------------------
(***************************************************************************)
(* What a handler that returns 0 has done, whichever of its calls fail and *)
(* whether or not the server carries the failed ones out.                  *)
(***************************************************************************)

CreateCourse(p, call) ==
  /\ call \in {"insert_stat", "get_dentry", "replace_dentry"}
  /\ call # "insert_stat" => Exists(stats, p)

MkdirCourse(p, call) ==
  /\ call \in {"insert_stat", "add_new_dentry", "get_dentry", "replace_dentry"}
  /\ call # "insert_stat" => Exists(stats, p)
  /\ call \in {"get_dentry", "replace_dentry"} => Exists(dentries, p)

\* The block reaches the end of what q writes.
Reached(q) == blocks[q.path] # Absent /\ blocks[q.path] >= Nupdate(q)

WriteCourse(q, call) ==
  /\ call \in {"open", "get_block", "store_block", "get_stat", "replace_stat"}
  /\ call \in {"get_stat", "replace_stat"} => Reached(q)

TruncateCourse(q, call) ==
  /\ q.off # 0 => call \in {"get_block", "store_block", "get_stat", "replace_stat"}
  /\ q.off = 0 => call \in {"remove_data", "get_stat", "replace_stat"}
  /\ q.off = 0 /\ call # "remove_data" => ~Exists(blocks, q.path)

\* Where a handler that serves q can be, and what it has made if it is there.
\* It would have returned an error if a call that makes something had failed.
Course(q, call) ==
  /\ q.op = "create" => CreateCourse(q.path, call)
  /\ q.op = "mkdir" => MkdirCourse(q.path, call)
  /\ q.op = "unlink" => call \in {"remove_data", "get_dentry", "replace_dentry",
                                  "remove_stat"}
  /\ q.op = "rmdir" => call \in {"remove_dentry", "get_dentry", "replace_dentry",
                                 "remove_stat"}
  /\ q.op = "chmod" => call \in {"get_stat", "replace_stat"}
  /\ q.op = "write" => WriteCourse(q, call)
  /\ q.op = "truncate" => TruncateCourse(q, call)

Promising(m) ==
  /\ req[m].op = "truncate" => req[m].len = 0
  /\ pc[m] \notin Rest \cup {"getattr"} => Course(req[m], pc[m])

PromiseInv == TypeOK /\ \A m \in Mounts : Promising(m)

\* What SuccessIsStored says of a step.
NewStored(p) ==
  /\ stats'[p] # Absent
  /\ dentries'[dirname[p]] # Absent
  /\ dentries'[dirname[p]][p] > 0

Stored(m) ==
  LET p == req[m].path
  IN  /\ Ends(m, "create") \/ Ends(m, "mkdir") => NewStored(p)
      /\ Ends(m, "mkdir") => dentries'[p] # Absent
      /\ Ends(m, "unlink") \/ Ends(m, "rmdir") => stats'[p] = Absent
      /\ Ends(m, "chmod") => stats'[p] # Absent /\ stats'[p].perm = req[m].perm
      /\ Ends(m, "write") => blocks'[p] # Absent /\ blocks'[p] >= Nupdate(req[m])
      /\ Ends(m, "truncate") =>
           /\ stats'[p] # Absent /\ stats'[p].size = req[m].off
           /\ req[m].off = 0 => blocks'[p] = Absent

\* A call that succeeds was granted and carried out.
LEMMA OkTaken ==
  ASSUME NEW o \in Outcomes, NEW good, Reply(o, good) = "ok"
  PROVE  good /\ Takes(o, good)
BY DEF Reply, Takes

\* The calls as their handlers see them.
RepliesTo(m) == {r \in {"ok", "EIO", "ENOENT"} :
                 Resume(m, req[m], After(req[m].op, pc[m], r), r)}

LEMMA InsertStatReport ==
  ASSUME NEW m \in Mounts, TypeOK, insert_stat(m)
  PROVE  \E r \in RepliesTo(m) : r = "ok" => stats'[req[m].path] # Absent
<1> DEFINE p == req[m].path
           doc == [type |-> req[m].type, perm |-> req[m].perm, size |-> 0]
<1>1. p \in Paths /\ doc \in StatDocs
  BY DEF TypeOK, RequestDocs, StatDocs
<1>2. PICK o \in Outcomes :
        LET r == Reply(o, InsertAllowed(p))
        IN  /\ Resume(m, req[m], After(req[m].op, "insert_stat", r), r)
            /\ Takes(o, InsertAllowed(p)) => stats' = [stats EXCEPT ![p] = doc]
  BY DEF insert_stat
<1> DEFINE r == Reply(o, InsertAllowed(p))
<1>3. r \in RepliesTo(m)
  BY <1>2, ReplyTyped DEF RepliesTo, insert_stat
<1>4. r = "ok" => stats'[p] = doc
  BY <1>1, <1>2, OkTaken DEF TypeOK
<1> QED
  BY <1>1, <1>3, <1>4, DataAssumption

LEMMA AddNewDentryReport ==
  ASSUME NEW m \in Mounts, TypeOK, add_new_dentry(m)
  PROVE  \E r \in RepliesTo(m) : r = "ok" => dentries'[req[m].path] # Absent
<1> DEFINE p == req[m].path
<1>1. p \in Paths /\ NoChildren # Absent
  BY NoChildrenTyped, DataAssumption DEF TypeOK, RequestDocs
<1>2. PICK o \in Outcomes :
        LET r == Reply(o, ~Exists(dentries, p))
        IN  /\ Resume(m, req[m], After(req[m].op, "add_new_dentry", r), r)
            /\ Takes(o, ~Exists(dentries, p)) =>
                 dentries' = [dentries EXCEPT ![p] = NoChildren]
  BY DEF add_new_dentry
<1> DEFINE r == Reply(o, ~Exists(dentries, p))
<1>3. r \in RepliesTo(m)
  BY <1>2, ReplyTyped DEF RepliesTo, add_new_dentry
<1>4. r = "ok" => dentries'[p] = NoChildren
  BY <1>1, <1>2, OkTaken DEF TypeOK
<1> QED
  BY <1>1, <1>3, <1>4

\* add_child_to_dentry has added the name if it returns 0.
LEMMA ReplaceDentryReport ==
  ASSUME NEW m \in Mounts, TypeOK, replace_dentry(m), req[m].op # "readdir"
  PROVE  /\ \A x \in Paths : Exists(dentries, x) => dentries'[x] # Absent
         /\ \E r \in RepliesTo(m) :
              r = "ok" /\ req[m].op \in {"create", "mkdir"} =>
                LET p == req[m].path
                IN  /\ dentries'[dirname[p]] # Absent
                    /\ dentries'[dirname[p]][p] > 0
<1> DEFINE q == req[m]
           p == q.path
           d == dirname[p]
           updated == UpdatedChildren(q, result[m])
<1>1. q \in RequestDocs /\ p \in Paths /\ d \in Paths /\ DirOf(q) = d
  BY PathAssumption DEF TypeOK, RequestDocs, DirOf
<1>2. result[m] \in ChildBags
  BY DEF TypeOK, Buffered, replace_dentry
<1>3. updated \in ChildBags
  BY <1>1, <1>2, UpdatedChildrenTyped
<1>4. q.op \in {"create", "mkdir"} => updated[p] > 0
  <2>1. result[m][p] \in 0 .. MaxCopies
    BY <1>1, <1>2 DEF ChildBags
  <2>2. (IF result[m][p] < MaxCopies THEN result[m][p] + 1 ELSE result[m][p]) > 0
    BY <2>1, DataAssumption
  <2> QED
    BY <1>1, <1>2, <2>2 DEF UpdatedChildren, ChildBags
<1>5. PICK o \in Outcomes :
        LET r == Reply(o, Exists(dentries, d))
        IN  /\ Resume(m, q, After(q.op, "replace_dentry", r), r)
            /\ dentries' = IF Takes(o, Exists(dentries, d))
                           THEN [dentries EXCEPT ![d] = updated] ELSE dentries
  BY <1>1 DEF replace_dentry
<1> DEFINE r == Reply(o, Exists(dentries, d))
<1> HIDE DEF updated
<1>6. r \in RepliesTo(m)
  BY <1>5, ReplyTyped DEF RepliesTo, replace_dentry
<1>7. r = "ok" => dentries'[d] = updated
  BY <1>1, <1>5, OkTaken DEF TypeOK
<1>8. \A x \in Paths : dentries'[x] \in {dentries[x], updated}
  BY <1>1, <1>5 DEF TypeOK
<1> QED
  BY <1>3, <1>4, <1>6, <1>7, <1>8, DataAssumption DEF Exists

LEMMA RemoveStatReport ==
  ASSUME NEW m \in Mounts, TypeOK, remove_stat(m)
  PROVE  \E r \in RepliesTo(m) : r = "ok" => stats'[req[m].path] = Absent
<1> DEFINE p == req[m].path
<1>1. p \in Paths
  BY DEF TypeOK, RequestDocs
<1>2. PICK o \in Outcomes :
        LET r == Reply(o, Exists(stats, p))
        IN  /\ Resume(m, req[m], After(req[m].op, "remove_stat", r), r)
            /\ Takes(o, Exists(stats, p)) => stats' = [stats EXCEPT ![p] = Absent]
  BY DEF remove_stat
<1> DEFINE r == Reply(o, Exists(stats, p))
<1>3. r \in RepliesTo(m)
  BY <1>2, ReplyTyped DEF RepliesTo, remove_stat
<1>4. r = "ok" => stats'[p] = Absent
  BY <1>1, <1>2, OkTaken DEF TypeOK
<1> QED
  BY <1>3, <1>4

LEMMA ReplaceStatReport ==
  ASSUME NEW m \in Mounts, TypeOK, replace_stat(m)
  PROVE  \E r \in RepliesTo(m), s \in StatDocs :
           r = "ok" => stats'[req[m].path] = UpdatedStat(req[m], s)
<1> DEFINE p == req[m].path
<1>1. p \in Paths /\ result[m] \in StatDocs
  BY DEF TypeOK, RequestDocs, Buffered, replace_stat
<1>2. PICK o \in Outcomes :
        LET r == Reply(o, ReplaceAllowed(m))
        IN  /\ Resume(m, req[m], After(req[m].op, "replace_stat", r), r)
            /\ Takes(o, ReplaceAllowed(m)) =>
                 stats' = [stats EXCEPT ![p] = UpdatedStat(req[m], result[m])]
  BY DEF replace_stat
<1> DEFINE r == Reply(o, ReplaceAllowed(m))
<1>3. r \in RepliesTo(m)
  BY <1>2, ReplyTyped DEF RepliesTo, replace_stat
<1>4. r = "ok" => stats'[p] = UpdatedStat(req[m], result[m])
  BY <1>1, <1>2, OkTaken DEF TypeOK
<1> QED
  BY <1>1, <1>3, <1>4

LEMMA QuietReport ==
  ASSUME NEW m \in Mounts, TypeOK,
         get_dentry(m) \/ remove_dentry(m) \/ remove_data(m) \/ get_stat(m)
  PROVE  /\ UNCHANGED stats
         /\ get_dentry(m) => UNCHANGED dentries
         /\ get_stat(m) => UNCHANGED blocks
         /\ \E r \in RepliesTo(m) : TRUE
<1>1. \E r \in {"ok", "EIO", "ENOENT"} :
        Resume(m, req[m], After(req[m].op, pc[m], r), r)
  BY ReplyTyped DEF get_dentry, remove_dentry, remove_data, get_stat
<1> QED
  BY <1>1 DEF RepliesTo, get_dentry, remove_dentry, remove_data, get_stat, store

LEMMA RemoveDataReport ==
  ASSUME NEW m \in Mounts, TypeOK, remove_data(m)
  PROVE  \E r \in RepliesTo(m) : r = "ok" => blocks'[req[m].path] = Absent
<1> DEFINE p == req[m].path
<1>1. p \in Paths
  BY DEF TypeOK, RequestDocs
<1>2. PICK o \in Outcomes :
        LET r == Reply(o, Exists(blocks, p))
        IN  /\ Resume(m, req[m], After(req[m].op, "remove_data", r), r)
            /\ Takes(o, Exists(blocks, p)) => blocks' = [blocks EXCEPT ![p] = Absent]
  BY DEF remove_data
<1> DEFINE r == Reply(o, Exists(blocks, p))
<1>3. r \in RepliesTo(m)
  BY <1>2, ReplyTyped DEF RepliesTo, remove_data
<1>4. r = "ok" => blocks'[p] = Absent
  BY <1>1, <1>2, OkTaken DEF TypeOK
<1> QED
  BY <1>3, <1>4

\* The whole block update_block stores reaches the end of what is written.
LEMMA StoreBlockReport ==
  ASSUME NEW m \in Mounts, NEW q, q = req[m], q.op = "write", TypeOK, store_block(m)
  PROVE  \E r \in {"ok", "grew", "EIO"} :
           /\ Resume(m, q, After("write", "store_block", r), r)
           /\ r # "EIO" => Reached(q)'
<1> DEFINE p == q.path
           len == UpdatedLength(q, result[m])
           good == len <= MAX_DOC_LEN
<1>1. p \in Paths /\ result[m] \in Nat \cup {Absent} /\ Nupdate(q) \in Nat
  BY DEF TypeOK, RequestDocs, Buffered, store_block, Nupdate
<1>2. len # Absent /\ len >= Nupdate(q)
  BY <1>1, DataAssumption DEF UpdatedLength, Grows
<1>3. PICK o \in Outcomes :
        LET r == IF Reply(o, good) # "ok" THEN "EIO"
                 ELSE IF Grows(q, result[m]) THEN "grew" ELSE "ok"
        IN  /\ Resume(m, q, After(q.op, "store_block", r), r)
            /\ Takes(o, good) => blocks' = [blocks EXCEPT ![p] = len]
  BY DEF store_block
<1> HIDE DEF len
<1> DEFINE r == IF Reply(o, good) # "ok" THEN "EIO"
                ELSE IF Grows(q, result[m]) THEN "grew" ELSE "ok"
<1>4. r # "EIO" => blocks'[p] = len
  <2> SUFFICES ASSUME Reply(o, good) = "ok"
               PROVE  blocks'[p] = len
    OBVIOUS
  <2>1. Takes(o, good)
    BY OkTaken
  <2> QED
    BY <1>1, <1>3, <2>1 DEF TypeOK
<1> QED
  BY <1>2, <1>3, <1>4 DEF Reached

\* A handler makes the call it is at.
LEMMA CallMade ==
  ASSUME NEW m \in Mounts, Serve(m)
  PROVE  /\ pc[m] \in Calls
         /\ pc[m] = "getattr" => getattr(m)
         /\ pc[m] = "open" => open(m)
         /\ pc[m] = "insert_stat" => insert_stat(m)
         /\ pc[m] = "get_stat" => get_stat(m)
         /\ pc[m] = "replace_stat" => replace_stat(m)
         /\ pc[m] = "remove_stat" => remove_stat(m)
         /\ pc[m] = "add_new_dentry" => add_new_dentry(m)
         /\ pc[m] = "get_dentry" => get_dentry(m)
         /\ pc[m] = "replace_dentry" => replace_dentry(m)
         /\ pc[m] = "remove_dentry" => remove_dentry(m)
         /\ pc[m] = "get_block" => get_block(m) \/ refuse_block(m)
         /\ pc[m] = "store_block" => store_block(m)
         /\ pc[m] = "remove_data" => remove_data(m)
BY DEF Serve, StatsCall, DentriesCall, BlocksCall, Calls, getattr, open, get_stat,
   replace_stat, insert_stat, remove_stat, get_dentry, replace_dentry, add_new_dentry,
   remove_dentry, refuse_block, get_block, store_block, remove_data

\* How a handler goes on from a reply, and that it returns 0 after a good one.
LEMMA ReplyEnds ==
  ASSUME NEW m \in Mounts, TypeOK, pc[m] # "getattr", NEW r \in RepliesTo(m)
  PROVE  /\ r \in {"ok", "EIO", "ENOENT"}
         /\ pc'[m] = After(req[m].op, pc[m], r)
         /\ req'[m] = IF pc'[m] \in Rest THEN NoRequest ELSE req[m]
         /\ pc'[m] = "idle" /\ fresult'[m] = "ok" => r = "ok"
<1>1. Resume(m, req[m], After(req[m].op, pc[m], r), r) /\ r \in {"ok", "EIO", "ENOENT"}
  BY DEF RepliesTo
<1> QED
  BY <1>1, ResumeRequest, ReturnedOk

LEMMA CreatePromise ==
  ASSUME NEW m \in Mounts, NEW q, q = req[m], q.op = "create", TypeOK,
         CreateCourse(q.path, pc[m]), Serve(m)
  PROVE  /\ pc'[m] \notin Rest => req'[m] = q /\ CreateCourse(q.path, pc[m])'
         /\ pc'[m] = "idle" /\ fresult'[m] = "ok" => NewStored(q.path)
<1> DEFINE p == q.path
<1>1. p \in Paths
  BY DEF TypeOK, RequestDocs
<1>2. CASE pc[m] = "insert_stat"
  <2>1. PICK r \in RepliesTo(m) : r = "ok" => stats'[p] # Absent
    BY <1>2, CallMade, InsertStatReport
  <2>2. pc'[m] = IF r = "ok" THEN "get_dentry" ELSE "idle"
    BY <1>2, <2>1, ReplyEnds DEF After, cbfuse_create
  <2> QED
    BY <1>2, <2>1, <2>2, ReplyEnds DEF CreateCourse, Exists, Rest
<1>3. CASE pc[m] = "get_dentry"
  <2>1. PICK r \in RepliesTo(m) : UNCHANGED stats
    BY <1>3, CallMade, QuietReport
  <2>2. pc'[m] = IF r = "ok" THEN "replace_dentry" ELSE "idle"
    BY <1>3, <2>1, ReplyEnds DEF After, cbfuse_create
  <2> QED
    BY <1>3, <2>1, <2>2, ReplyEnds DEF CreateCourse, Exists, Rest
<1>4. CASE pc[m] = "replace_dentry"
  <2>1. replace_dentry(m)
    BY <1>4, CallMade
  <2>2. PICK r \in RepliesTo(m) :
          r = "ok" => /\ dentries'[dirname[p]] # Absent
                      /\ dentries'[dirname[p]][p] > 0
    BY <2>1, ReplaceDentryReport
  <2>3. pc'[m] = "idle"
    BY <1>4, <2>2, ReplyEnds DEF After, cbfuse_create
  <2>4. stats'[p] # Absent
    BY <1>4, <2>1 DEF replace_dentry, CreateCourse, Exists
  <2> QED
    BY <1>4, <2>2, <2>3, <2>4, ReplyEnds DEF NewStored, Rest
<1> QED
  BY <1>2, <1>3, <1>4 DEF CreateCourse

LEMMA MkdirPromise ==
  ASSUME NEW m \in Mounts, NEW q, q = req[m], q.op = "mkdir", TypeOK,
         MkdirCourse(q.path, pc[m]), Serve(m)
  PROVE  /\ pc'[m] \notin Rest => req'[m] = q /\ MkdirCourse(q.path, pc[m])'
         /\ pc'[m] = "idle" /\ fresult'[m] = "ok" =>
              NewStored(q.path) /\ dentries'[q.path] # Absent
<1> DEFINE p == q.path
<1>1. p \in Paths
  BY DEF TypeOK, RequestDocs
<1>2. CASE pc[m] = "insert_stat"
  <2>1. PICK r \in RepliesTo(m) : r = "ok" => stats'[p] # Absent
    BY <1>2, CallMade, InsertStatReport
  <2>2. pc'[m] = IF r = "ok" THEN "add_new_dentry" ELSE "idle"
    BY <1>2, <2>1, ReplyEnds DEF After, cbfuse_mkdir
  <2> QED
    BY <1>2, <2>1, <2>2, ReplyEnds DEF MkdirCourse, Exists, Rest
<1>3. CASE pc[m] = "add_new_dentry"
  <2>1. add_new_dentry(m)
    BY <1>3, CallMade
  <2>2. PICK r \in RepliesTo(m) : r = "ok" => dentries'[p] # Absent
    BY <2>1, AddNewDentryReport
  <2>3. pc'[m] = IF r = "ok" THEN "get_dentry" ELSE "idle"
    BY <1>3, <2>2, ReplyEnds DEF After, cbfuse_mkdir
  <2>4. stats'[p] # Absent
    BY <1>3, <2>1 DEF add_new_dentry, MkdirCourse, Exists
  <2> QED
    BY <1>3, <2>2, <2>3, <2>4, ReplyEnds DEF MkdirCourse, Exists, Rest
<1>4. CASE pc[m] = "get_dentry"
  <2>1. PICK r \in RepliesTo(m) : UNCHANGED <<stats, dentries>>
    BY <1>4, CallMade, QuietReport
  <2>2. pc'[m] = IF r = "ok" THEN "replace_dentry" ELSE "idle"
    BY <1>4, <2>1, ReplyEnds DEF After, cbfuse_mkdir
  <2> QED
    BY <1>4, <2>1, <2>2, ReplyEnds DEF MkdirCourse, Exists, Rest
<1>5. CASE pc[m] = "replace_dentry"
  <2>1. replace_dentry(m)
    BY <1>5, CallMade
  <2>2. PICK r \in RepliesTo(m) :
          r = "ok" => /\ dentries'[dirname[p]] # Absent
                      /\ dentries'[dirname[p]][p] > 0
    BY <2>1, ReplaceDentryReport
  <2>3. pc'[m] = "idle"
    BY <1>5, <2>2, ReplyEnds DEF After, cbfuse_mkdir
  <2>4. stats'[p] # Absent /\ dentries'[p] # Absent
    <3>1. Exists(stats, p) /\ Exists(dentries, p)
      BY <1>5 DEF MkdirCourse
    <3> QED
      BY <1>1, <2>1, <3>1, ReplaceDentryReport DEF replace_dentry, Exists
  <2> QED
    BY <1>5, <2>2, <2>3, <2>4, ReplyEnds DEF NewStored, Rest
<1> QED
  BY <1>2, <1>3, <1>4, <1>5 DEF MkdirCourse

\* cbfuse_unlink and cbfuse_rmdir return what the removal of the stat document
\* returned.
LEMMA RemovalPromise ==
  ASSUME NEW m \in Mounts, NEW q, q = req[m], q.op \in {"unlink", "rmdir"}, TypeOK,
         Course(q, pc[m]), Serve(m)
  PROVE  /\ pc'[m] \notin Rest => req'[m] = q /\ Course(q, pc[m])'
         /\ pc'[m] = "idle" /\ fresult'[m] = "ok" => stats'[q.path] = Absent
<1>1. CASE pc[m] \in {"remove_data", "remove_dentry", "get_dentry", "replace_dentry"}
  <2>1. PICK r \in RepliesTo(m) : TRUE
    BY <1>1, CallMade, QuietReport, ReplaceDentryReport
  <2>2. pc'[m] \in {"get_dentry", "replace_dentry", "remove_stat"}
    BY <1>1, <2>1, ReplyEnds DEF Course, After, cbfuse_unlink, cbfuse_rmdir
  <2> QED
    BY <1>1, <2>1, <2>2, ReplyEnds DEF Course, Rest
<1>2. CASE pc[m] = "remove_stat"
  <2>1. PICK r \in RepliesTo(m) : r = "ok" => stats'[q.path] = Absent
    BY <1>2, CallMade, RemoveStatReport
  <2>2. pc'[m] = "idle"
    BY <1>2, <2>1, ReplyEnds DEF After, cbfuse_unlink, cbfuse_rmdir
  <2> QED
    BY <1>2, <2>1, <2>2, ReplyEnds DEF Rest
<1> QED
  BY <1>1, <1>2 DEF Course

\* What update_stat_mode and update_stat_size have stored if they return 0.
LEMMA UpdatePromise ==
  ASSUME NEW m \in Mounts, NEW q, q = req[m], q.op \in {"chmod", "write", "truncate"},
         TypeOK, pc[m] \in {"get_stat", "replace_stat"}, Serve(m)
  PROVE  /\ UNCHANGED blocks
         /\ pc'[m] \notin Rest => req'[m] = q /\ pc'[m] = "replace_stat"
         /\ pc'[m] = "idle" /\ fresult'[m] = "ok" =>
              \E s \in StatDocs : stats'[q.path] = UpdatedStat(q, s)
<1>1. CASE pc[m] = "get_stat"
  <2>1. PICK r \in RepliesTo(m) : UNCHANGED blocks
    BY <1>1, CallMade, QuietReport
  <2>2. pc'[m] = IF r = "ok" THEN "replace_stat" ELSE "idle"
    BY <1>1, <2>1, ReplyEnds DEF After, write_data, truncate_data, update_stat
  <2> QED
    BY <1>1, <2>1, <2>2, ReplyEnds DEF Rest
<1>2. CASE pc[m] = "replace_stat"
  <2>1. PICK r \in RepliesTo(m), s \in StatDocs :
          /\ r = "ok" => stats'[q.path] = UpdatedStat(q, s)
          /\ UNCHANGED blocks
    BY <1>2, CallMade, ReplaceStatReport DEF replace_stat
  <2>2. pc'[m] = "idle"
    BY <1>2, <2>1, ReplyEnds DEF After, write_data, truncate_data, update_stat
  <2> QED
    BY <1>2, <2>1, <2>2, ReplyEnds DEF Rest
<1> QED
  BY <1>1, <1>2

\* truncate_data ends well only by setting the size, and cbfuse_truncate to zero
\* gets there only from a removal of the block that succeeded.
LEMMA TruncateCallPromise ==
  ASSUME NEW m \in Mounts, NEW q, q = req[m], q.op = "truncate", TypeOK,
         TruncateCourse(q, pc[m]), pc[m] \notin {"get_stat", "replace_stat"}, Serve(m)
  PROVE  /\ pc'[m] \notin Rest => req'[m] = q /\ TruncateCourse(q, pc[m])'
         /\ ~(pc'[m] = "idle" /\ fresult'[m] = "ok")
<1>1. CASE q.off # 0
  <2>1. PICK r, next :
          /\ Resume(m, q, next, r)
          /\ \/ next = After("truncate", pc[m], r) /\ r \in {"ok", "EIO", "ENOENT"}
             \/ next = "idle" /\ r = "EFBIG"
    <3>1. pc[m] \in {"get_block", "store_block"}
      BY <1>1 DEF TruncateCourse
    <3>2. CASE get_block(m)
      BY <3>2, ReplyTyped DEF get_block, BlockReport
    <3>3. CASE refuse_block(m)
      BY <3>3 DEF refuse_block
    <3>4. CASE store_block(m)
      BY <3>4, ReplyTyped DEF store_block, Grows
    <3> QED
      BY <3>1, <3>2, <3>3, <3>4, CallMade
  <2>2. pc[m] \in {"get_block", "store_block"}
    BY <1>1 DEF TruncateCourse
  <2>3. /\ pc'[m] = next
        /\ next \notin Rest => req'[m] = q
        /\ fresult'[m] = Returned(q, pc[m], next, r)
    BY <2>1, ResumeRequest
  <2>4. next \in {"get_stat", "store_block"} \/ (next = "idle" /\ r # "ok")
    BY <2>1, <2>2 DEF After, truncate_data
  <2>5. next = "idle" => fresult'[m] # "ok"
    BY <2>1, <2>3, <2>4, ReturnedOk
  <2> QED
    BY <1>1, <2>3, <2>4, <2>5 DEF Rest, TruncateCourse
<1>2. CASE q.off = 0
  <2>1. pc[m] = "remove_data"
    BY <1>2 DEF TruncateCourse
  <2>2. PICK r \in RepliesTo(m) : r = "ok" => blocks'[q.path] = Absent
    BY <2>1, CallMade, RemoveDataReport
  <2>3. pc'[m] = IF r = "ok" THEN "get_stat" ELSE "idle"
    BY <2>1, <2>2, ReplyEnds DEF After, truncate_data
  <2>4. r = "ok" => ~Exists(blocks, q.path)'
    BY <2>2 DEF Exists
  <2> QED
    BY <1>2, <2>1, <2>2, <2>3, <2>4, ReplyEnds DEF TruncateCourse, Rest
<1> QED
  BY <1>1, <1>2

\* write_data goes on from a block that reaches far enough.
LEMMA WriteCallPromise ==
  ASSUME NEW m \in Mounts, NEW q, q = req[m], q.op = "write", TypeOK,
         WriteCourse(q, pc[m]), pc[m] \notin {"get_stat", "replace_stat"}, Serve(m)
  PROVE  /\ pc'[m] \notin Rest => req'[m] = q /\ WriteCourse(q, pc[m])'
         /\ pc'[m] = "idle" /\ fresult'[m] = "ok" => Reached(q)'
<1>1. CASE pc[m] = "store_block"
  <2>1. PICK r \in {"ok", "grew", "EIO"} :
          /\ Resume(m, q, After("write", "store_block", r), r)
          /\ r # "EIO" => Reached(q)'
    BY <1>1, CallMade, StoreBlockReport
  <2> DEFINE next == After("write", "store_block", r)
  <2>2. /\ pc'[m] = next
        /\ next \notin Rest => req'[m] = q
        /\ fresult'[m] = Returned(q, pc[m], next, r)
    BY <2>1, ResumeRequest
  <2>3. next = IF r = "grew" THEN "get_stat" ELSE "idle"
    BY DEF After, write_data
  <2>4. r = "EIO" => next = "idle" /\ fresult'[m] # "ok"
    BY <2>2, <2>3, ReturnedOk
  <2> QED
    BY <2>1, <2>2, <2>3, <2>4 DEF WriteCourse, Rest
<1>2. CASE pc[m] \in {"open", "get_block"}
  <2>1. PICK r, next :
          /\ Resume(m, q, next, r)
          /\ \/ next \in {"get_block", "store_block"}
             \/ next = "idle" /\ r \in {"EIO", "ENOENT", "EFBIG"}
    <3>1. CASE pc[m] = "open"
      BY <3>1, CallMade, ReplyTyped DEF open, After, cbfuse_open
    <3>2. CASE get_block(m)
      BY <3>2, ReplyTyped DEF get_block, BlockReport, After, write_data
    <3>3. CASE refuse_block(m)
      BY <3>3 DEF refuse_block
    <3> QED
      BY <1>2, <3>1, <3>2, <3>3, CallMade
  <2>2. /\ pc'[m] = next
        /\ next \notin Rest => req'[m] = q
        /\ fresult'[m] = Returned(q, pc[m], next, r)
    BY <2>1, ResumeRequest
  <2>3. next = "idle" => fresult'[m] # "ok"
    BY <2>1, <2>2, ReturnedOk
  <2> QED
    BY <2>1, <2>2, <2>3 DEF WriteCourse, Rest
<1> QED
  BY <1>1, <1>2 DEF WriteCourse

\* A look-up that ends a request reports that it was not admitted.
LEMMA LookupPromise ==
  ASSUME NEW m \in Mounts, TypeOK, Promising(m), getattr(m)
  PROVE  /\ Promising(m)'
         /\ pc'[m] = "idle" /\ fresult'[m] = "ok" => req[m].op \in {"getattr", "mount"}
<1> SUFFICES ASSUME NEW q, q = req[m]
             PROVE  /\ Promising(m)'
                    /\ pc'[m] = "idle" /\ fresult'[m] = "ok" =>
                         q.op \in {"getattr", "mount"}
  OBVIOUS
<1>1. PICK seen, r, type :
        /\ Resume(m, seen, AfterLookup(q, r, type), r)
        /\ r \notin {"grew", "eof"}
        /\ seen.op = q.op /\ seen.len = q.len /\ seen.off = q.off
  <2>1. q \in RequestDocs
    BY DEF TypeOK
  <2> QED
    BY <2>1, ReplyTyped DEF getattr, RequestDocs
<1> DEFINE next == AfterLookup(q, r, type)
<1>2. /\ pc'[m] = next
      /\ next \in Rest => req'[m] = NoRequest
      /\ next \notin Rest => req'[m] = seen
      /\ fresult'[m] = Returned(seen, "getattr", next, r)
  BY <1>1, ResumeRequest DEF getattr
<1>3. Course(seen, next)' \/ next \in Rest
  BY <1>1 DEF AfterLookup, verify_root, FirstCall, Course, CreateCourse, MkdirCourse,
     WriteCourse, TruncateCourse, Rest
<1>4. NoRequest.op = "none"
  BY DEF NoRequest, Request
<1>5. Promising(m)'
  <2>1. CASE next \in Rest
    BY <1>2, <1>4, <2>1 DEF Promising
  <2>2. CASE next \notin Rest
    BY <1>1, <1>2, <1>3, <2>2 DEF Promising, Course, CreateCourse, MkdirCourse, WriteCourse,
     TruncateCourse, Reached, Exists
  <2> QED
    BY <2>1, <2>2
<1>6. next = "idle" /\ fresult'[m] = "ok" => q.op \in {"getattr", "mount"}
  BY <1>1, <1>2, ReturnedOk
<1> QED
  BY <1>2, <1>5, <1>6

LEMMA ServePromise ==
  ASSUME NEW m \in Mounts, TypeOK, Promising(m), Serve(m)
  PROVE  /\ Promising(m)'
         /\ fresult'[m] = "ok" => Stored(m)
<1> SUFFICES ASSUME NEW q, q = req[m]
             PROVE  /\ Promising(m)'
                    /\ fresult'[m] = "ok" => Stored(m)
  OBVIOUS
<1> DEFINE p == q.path
           ended == pc'[m] = "idle" /\ fresult'[m] = "ok"
<1>1. CASE pc[m] = "getattr"
  BY <1>1, CallMade, LookupPromise DEF Stored, Ends
<1>2. CASE pc[m] # "getattr"
  <2>1. pc[m] \notin Rest
    BY CallMade DEF Calls, Rest
  <2>2. Course(q, pc[m]) /\ (q.op = "truncate" => q.len = 0)
    BY <1>2, <2>1 DEF Promising
  <2>3. pc'[m] \in Rest => req'[m].op = "none"
    <3>1. PICK seen, next, r : Resume(m, seen, next, r)
      BY ServeResumes
    <3> QED
      BY <3>1, ResumeRequest DEF NoRequest, Request
  <2>4. ASSUME pc'[m] \notin Rest => req'[m] = q /\ Course(q, pc[m])'
        PROVE  Promising(m)'
    <3>1. CASE pc'[m] \in Rest
      BY <2>3, <3>1 DEF Promising
    <3>2. CASE pc'[m] \notin Rest
      BY <2>2, <2>4, <3>2 DEF Promising, Course, CreateCourse, MkdirCourse, WriteCourse,
     TruncateCourse, Reached, Exists
    <3> QED
      BY <3>1, <3>2
  <2>5. CASE q.op = "create"
    <3>1. CreateCourse(p, pc[m])
      BY <2>2, <2>5 DEF Course
    <3>2. /\ pc'[m] \notin Rest => req'[m] = q /\ CreateCourse(p, pc[m])'
          /\ ended => NewStored(p)
      BY <2>5, <3>1, CreatePromise
    <3> QED
      BY <2>4, <2>5, <3>2 DEF Course, Stored, Ends
  <2>6. CASE q.op = "mkdir"
    <3>1. MkdirCourse(p, pc[m])
      BY <2>2, <2>6 DEF Course
    <3>2. /\ pc'[m] \notin Rest => req'[m] = q /\ MkdirCourse(p, pc[m])'
          /\ ended => NewStored(p) /\ dentries'[p] # Absent
      BY <2>6, <3>1, MkdirPromise
    <3> QED
      BY <2>4, <2>6, <3>2 DEF Course, Stored, Ends
  <2>7. CASE q.op \in {"unlink", "rmdir"}
    <3>1. /\ pc'[m] \notin Rest => req'[m] = q /\ Course(q, pc[m])'
          /\ ended => stats'[p] = Absent
      BY <2>2, <2>7, RemovalPromise
    <3> QED
      BY <2>4, <2>7, <3>1 DEF Stored, Ends
  <2>8. CASE q.op \in {"chmod", "write", "truncate"}
    <3>1. q \in RequestDocs
      BY DEF TypeOK
    <3>2. CASE pc[m] \in {"get_stat", "replace_stat"}
      <4>1. /\ UNCHANGED blocks
            /\ pc'[m] \notin Rest => req'[m] = q /\ pc'[m] = "replace_stat"
            /\ ended => \E s \in StatDocs : stats'[p] = UpdatedStat(q, s)
        BY <2>8, <3>2, UpdatePromise
      <4>2. /\ q.op = "write" => Reached(q)'
            /\ q.op = "truncate" /\ q.off = 0 => blocks'[p] = Absent
        BY <2>2, <3>2, <4>1 DEF Course, WriteCourse, TruncateCourse, Reached, Exists
      <4>3. pc'[m] \notin Rest => Course(q, pc[m])'
        BY <2>8, <4>1, <4>2 DEF Course, WriteCourse, TruncateCourse, Exists
      <4>4. Promising(m)'
        BY <2>4, <4>1, <4>3
      <4>5. \A s \in StatDocs :
              /\ UpdatedStat(q, s) # Absent
              /\ q.op = "chmod" => UpdatedStat(q, s).perm = q.perm
              /\ q.op = "truncate" => UpdatedStat(q, s).size = q.off
        <5> SUFFICES ASSUME NEW s \in StatDocs
                     PROVE  /\ UpdatedStat(q, s) # Absent
                            /\ q.op = "chmod" => UpdatedStat(q, s).perm = q.perm
                            /\ q.op = "truncate" => UpdatedStat(q, s).size = q.off
          OBVIOUS
        <5>1. UpdatedStat(q, s) # Absent
          BY <3>1, UpdatedStatTyped, DataAssumption
        <5>2. q.off + q.len = q.off \/ q.op # "truncate"
          BY <2>2, <3>1 DEF RequestDocs
        <5> QED
          BY <5>1, <5>2 DEF UpdatedStat, StatDocs
      <4>6. ended => Stored(m)
        BY <2>8, <4>1, <4>2, <4>5 DEF Stored, Ends, Reached
      <4> QED
        BY <4>4, <4>6 DEF Stored, Ends
    <3>3. CASE pc[m] \notin {"get_stat", "replace_stat"} /\ q.op = "truncate"
      <4>1. TruncateCourse(q, pc[m])
        BY <2>2, <3>3 DEF Course
      <4>2. /\ pc'[m] \notin Rest => req'[m] = q /\ TruncateCourse(q, pc[m])'
            /\ ~ended
        BY <3>3, <4>1, TruncateCallPromise
      <4> QED
        BY <2>4, <3>3, <4>2 DEF Course, Stored, Ends
    <3>4. CASE pc[m] \notin {"get_stat", "replace_stat"} /\ q.op = "write"
      <4>1. WriteCourse(q, pc[m])
        BY <2>2, <3>4 DEF Course
      <4>2. /\ pc'[m] \notin Rest => req'[m] = q /\ WriteCourse(q, pc[m])'
            /\ ended => Reached(q)'
        BY <3>4, <4>1, WriteCallPromise
      <4> QED
        BY <2>4, <3>4, <4>2 DEF Course, Stored, Ends, Reached
    <3> QED
      BY <2>2, <2>8, <3>2, <3>3, <3>4 DEF Course
  <2>9. CASE q.op \notin {"create", "mkdir", "unlink", "rmdir", "chmod", "write", "truncate"}
    <3>1. PICK seen, next, r : Resume(m, seen, next, r) /\ seen.op = q.op
      BY ServeResumes
    <3>2. req'[m].op \in {q.op, "none"}
      BY <2>3, <3>1, ResumeRequest
    <3> QED
      BY <2>9, <3>2 DEF Promising, Course, Stored, Ends
  <2> QED
    BY <2>5, <2>6, <2>7, <2>8, <2>9
<1> QED
  BY <1>1, <1>2

LEMMA EnvironmentPromise ==
  ASSUME NEW m \in Mounts, PromiseInv,
         Mount(m) \/ Begin(m) \/ Unmount(m) \/ Crash(m) \/ update_block_overrun(m)
  PROVE  Promising(m)' /\ pc'[m] # "idle"
<1>1. pc'[m] \in {"getattr", "down"}
  BY DEF Mount, Begin, Unmount, Crash, update_block_overrun, Die, PromiseInv, TypeOK
<1>2. req'[m].op = "truncate" => req'[m].len = 0
  <2>1. CASE Mount(m)
    BY <2>1 DEF Mount, MountRequest, Request, PromiseInv, TypeOK
  <2>2. CASE Begin(m)
    <3>1. PICK q \in Requests : req' = [req EXCEPT ![m] = q]
      BY <2>2 DEF Begin
    <3>2. q.op = "truncate" => q.len = 0
      BY <3>1 DEF Requests, PlainRequests, PlainOps, TransferRequests,
         TruncateRequests, ModeRequests, Request
    <3> QED
      BY <3>1, <3>2 DEF PromiseInv, TypeOK
  <2>3. CASE Unmount(m)
    BY <2>3 DEF Unmount, PromiseInv, Promising
  <2>4. CASE Crash(m) \/ update_block_overrun(m)
    BY <2>4 DEF Crash, update_block_overrun, Die, NoRequest, Request, PromiseInv, TypeOK
  <2> QED
    BY <2>1, <2>2, <2>3, <2>4
<1> QED
  BY <1>1, <1>2 DEF Promising, Rest

LEMMA NextPromise ==
  ASSUME \A m, n \in Mounts : m = n, PromiseInv, [Next]_vars
  PROVE  /\ PromiseInv'
         /\ UNCHANGED vars \/ \A m \in Mounts : fresult'[m] = "ok" => Stored(m)
<1>1. TypeOK'
  BY NextTyped DEF PromiseInv
<1>2. CASE UNCHANGED vars
  BY <1>1, <1>2 DEF vars, PromiseInv, Promising, Course, CreateCourse, MkdirCourse, WriteCourse,
     TruncateCourse, Reached, Exists
<1>3. ASSUME NEW m \in Mounts, Serve(m)
      PROVE  Promising(m)' /\ (fresult'[m] = "ok" => Stored(m))
  BY <1>3, ServePromise DEF PromiseInv
<1>4. ASSUME NEW m \in Mounts,
             \/ Mount(m) \/ Begin(m) \/ Unmount(m)
             \/ Crash(m) \/ update_block_overrun(m)
      PROVE  Promising(m)' /\ Stored(m)
  BY <1>4, EnvironmentPromise DEF Stored, Ends
<1> QED
  BY <1>1, <1>2, <1>3, <1>4 DEF Next, PromiseInv

\* What a return value of 0 vouches for (SuccessIsStored says of each request
\* what that is and what it is not), whichever calls fail, in the library or at
\* the server, carried out or not, and wherever the process is killed: a single
\* mount.
THEOREM SuccessStored ==
  ASSUME \A m, n \in Mounts : m = n
  PROVE  Spec => SuccessIsStored
<1>1. Init => PromiseInv
  <2>1. NoRequest.op = "none"
    BY DEF NoRequest, Request
  <2> QED
    BY <2>1, InitTyped DEF Init, PromiseInv, Promising, Rest
<1>2. PromiseInv /\ [Next]_vars => PromiseInv'
  BY NextPromise
<1>3. PromiseInv /\ [Next]_vars =>
        [\A m \in Mounts : fresult'[m] = "ok" => Stored(m)]_vars
  BY NextPromise
<1>4. [\A m \in Mounts : fresult'[m] = "ok" => Stored(m)]_vars =>
        [\A m \in Mounts :
           LET p == req[m].path
           IN  fresult'[m] = "ok" =>
                 /\ Ends(m, "create") \/ Ends(m, "mkdir") =>
                      /\ stats'[p] # Absent
                      /\ dentries'[dirname[p]] # Absent
                      /\ dentries'[dirname[p]][p] > 0
                 /\ Ends(m, "mkdir") => dentries'[p] # Absent
                 /\ Ends(m, "unlink") \/ Ends(m, "rmdir") => stats'[p] = Absent
                 /\ Ends(m, "chmod") =>
                      stats'[p] # Absent /\ stats'[p].perm = req[m].perm
                 /\ Ends(m, "write") =>
                      blocks'[p] # Absent /\ blocks'[p] >= Nupdate(req[m])
                 /\ Ends(m, "truncate") =>
                      /\ stats'[p] # Absent /\ stats'[p].size = req[m].off
                      /\ req[m].off = 0 => blocks'[p] = Absent]_vars
  BY DEF Stored, NewStored
<1> QED
  BY <1>1, <1>2, <1>3, <1>4, PTL DEF Spec, SuccessIsStored

=============================================================================
