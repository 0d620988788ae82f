---------------------------- MODULE CbfuseAnchors ----------------------------
(***************************************************************************)
(* Proofs that the documents one mount leaves behind belong together,      *)
(* wherever it is stopped: StatAnchors and NoDuplicateChildren, for a      *)
(* single mount whose calls do not fail.                                   *)
(***************************************************************************)
EXTENDS CbfuseProofs

\* One process, every call of which is answered by the server.
Alone == (\A m, n \in Mounts : m = n) /\ Faults = {}

\* What Requests and Issues say of a request.
Asked(q) ==
  /\ q.op \in {"create", "mkdir", "unlink", "rmdir"} => q.path # Root
  /\ q.op = "mount" => q.path = Root /\ q.type = "dir"
  /\ q.op = "create" => q.type = "reg"
  /\ q.op = "mkdir" => q.type # "reg"

\* The parent's entry does not name p.
Unlisted(p) == ~Lists(dirname[p], p)

(***************************************************************************)
(* What a handler that serves q has achieved when it makes its next call:  *)
(* the stat document is there from insert_stat to remove_stat, and what it *)
(* anchors comes later and goes earlier.                                   *)
(***************************************************************************)
MountStage(p, call) ==
  \/ call = "insert_stat"
  \/ call = "add_new_dentry" /\ IsDir(p)

CreateStage(p, call) ==
  \/ call = "insert_stat"
  \/ /\ call \in {"get_dentry", "replace_dentry"}
     /\ Exists(stats, p)
     /\ Unlisted(p)

MkdirStage(p, call) ==
  \/ call = "insert_stat"
  \/ /\ call \in {"add_new_dentry", "get_dentry", "replace_dentry"}
     /\ Exists(stats, p) /\ stats[p].type # "reg"
     /\ Unlisted(p)

UnlinkStage(p, call) ==
  /\ IsReg(p)
  /\ \/ call = "remove_data"
     \/ /\ call \in {"get_dentry", "replace_dentry", "remove_stat"}
        /\ ~Exists(blocks, p)
        /\ call = "remove_stat" => Unlisted(p)

RmdirStage(p, call) ==
  /\ IsDir(p)
  /\ \/ call = "remove_dentry"
     \/ /\ call \in {"get_dentry", "replace_dentry", "remove_stat"}
        /\ ~Exists(dentries, p)
        /\ call = "remove_stat" => Unlisted(p)

DataStage(p, call) ==
  /\ IsReg(p)
  /\ call \in {"open", "get_block", "store_block", "remove_data",
               "get_stat", "replace_stat"}

MetaStage(q, call) ==
  /\ call \in {"get_stat", "replace_stat"}
  /\ Exists(stats, q.path)
  /\ q.op = "chmod" => q.type = stats[q.path].type

Stage(q, call) ==
  /\ q.op \in {"mount", "create", "mkdir", "unlink", "rmdir", "open", "read",
               "write", "truncate", "chmod", "utimens", "readdir"}
  /\ q.op = "mount" => MountStage(q.path, call)
  /\ q.op = "create" => CreateStage(q.path, call)
  /\ q.op = "mkdir" => MkdirStage(q.path, call)
  /\ q.op = "unlink" => UnlinkStage(q.path, call)
  /\ q.op = "rmdir" => RmdirStage(q.path, call)
  /\ q.op \in {"open", "read", "write", "truncate"} => DataStage(q.path, call)
  /\ q.op \in {"chmod", "utimens"} => MetaStage(q, call)
  /\ q.op = "readdir" => call = "get_dentry"

\* A handler that is about to store a directory entry holds the one stored.
HoldsDentry(m) == pc[m] = "replace_dentry" => result[m] = dentries[DirOf(req[m])]

OnCourse(m) ==
  /\ Asked(req[m])
  /\ pc[m] \notin Rest \cup {"getattr"} => Stage(req[m], pc[m])
  /\ HoldsDentry(m)

AnchorInv ==
  /\ TypeOK
  /\ CasHolds
  /\ StatAnchors
  /\ NoDuplicateChildren
  /\ \A m \in Mounts : OnCourse(m)

\* Its part that is proved action by action.
Anchored == StatAnchors /\ NoDuplicateChildren /\ \A m \in Mounts : OnCourse(m)

-----------------------------------------------------------------------------
(***************************************************************************)
(* One mount and no faults.                                                *)
(***************************************************************************)

\* Every call is answered, and what the server grants it carries out.
LEMMA Answered ==
  ASSUME Alone, NEW o \in Outcomes, NEW good \in BOOLEAN
  PROVE  /\ Reply(o, good) = IF good THEN "ok" ELSE "ENOENT"
         /\ Takes(o, good) = good
BY DEF Alone, Outcomes, Reply, Takes

\* A step of a call to the next one keeps the mount on course if the request's
\* handler may make the next call.
LEMMA ResumeOnCourse ==
  ASSUME NEW m \in Mounts, NEW q \in RequestDocs, NEW next, NEW r,
         Alone, TypeOK, Asked(q), Resume(m, q, next, r),
         next \notin Rest => Stage(q, next)',
         next = "replace_dentry" => result'[m] = dentries'[DirOf(q)]
  PROVE  (\A n \in Mounts : OnCourse(n))'
<1>1. /\ pc'[m] = next
      /\ req'[m] = IF next \in Rest THEN NoRequest ELSE q
  BY DEF Resume, TypeOK
<1>2. Asked(NoRequest)
  BY DEF Asked, NoRequest, Request
<1>3. Asked(req'[m])
  BY <1>1, <1>2
<1>4. pc'[m] \notin Rest \cup {"getattr"} => Stage(req[m], pc[m])'
  <2>1. CASE next \in Rest
    BY <1>1, <2>1
  <2>2. CASE next \notin Rest
    <3>1. req'[m] = q
      BY <1>1, <2>2
    <3>2. Stage(q, next)'
      BY <2>2
    <3> QED
      BY <1>1, <3>1, <3>2 DEF Stage, MountStage, CreateStage, MkdirStage, UnlinkStage,
         RmdirStage, DataStage, MetaStage
  <2> QED
    BY <2>1, <2>2
<1>5. HoldsDentry(m)'
  <2>1. "replace_dentry" \notin Rest
    BY DEF Rest
  <2> QED
    BY <1>1, <2>1 DEF HoldsDentry, DirOf
<1>6. Asked(req[m])'
  BY <1>3 DEF Asked
<1>7. OnCourse(m)'
  BY <1>4, <1>5, <1>6 DEF OnCourse
<1> QED
  BY <1>7 DEF Alone

\* What is known of a mount that makes a call.
LEMMA ServedOnCourse ==
  ASSUME NEW m \in Mounts, AnchorInv, pc[m] \notin Rest
  PROVE  /\ req[m] \in RequestDocs
         /\ req[m].path \in Paths
         /\ Asked(req[m])
         /\ pc[m] # "getattr" => Stage(req[m], pc[m])
         /\ HoldsDentry(m)
BY DEF AnchorInv, TypeOK, OnCourse, RequestDocs

\* Stat documents that keep their type, and new ones, disturb nothing.
LEMMA TypesKept ==
  ASSUME StatAnchors, NoDuplicateChildren, UNCHANGED <<dentries, blocks>>,
         \A x \in Paths : Exists(stats, x) =>
           Exists(stats, x)' /\ stats'[x].type = stats[x].type
  PROVE  (StatAnchors /\ NoDuplicateChildren)'
<1>1. ListedHaveStat'
  BY DEF StatAnchors, ListedHaveStat, Lists, Exists
<1>2. DentriesHaveStat'
  BY DEF StatAnchors, DentriesHaveStat, Exists
<1>3. BlocksHaveStat'
  BY DEF StatAnchors, BlocksHaveStat, IsReg, Exists
<1> QED
  BY <1>1, <1>2, <1>3 DEF StatAnchors, NoDuplicateChildren, Lists, Exists

\* So does a step that leaves the collections alone and goes on to a call that
\* the handler may make.
LEMMA QuietStep ==
  ASSUME NEW m \in Mounts, NEW q \in RequestDocs, NEW next, NEW r,
         Alone, AnchorInv, Asked(q), Resume(m, q, next, r), UNCHANGED store,
         next \notin Rest => Stage(q, next),
         next = "replace_dentry" => result'[m] = dentries[DirOf(q)]
  PROVE  Anchored'
<1>1. (StatAnchors /\ NoDuplicateChildren)'
  BY TypesKept DEF AnchorInv, store, Exists
<1>2. next \notin Rest => Stage(q, next)'
  BY DEF store, Stage, MountStage, CreateStage, MkdirStage, UnlinkStage,
     RmdirStage, DataStage, MetaStage, Exists, IsReg, IsDir, Unlisted, Lists
<1>3. next = "replace_dentry" => result'[m] = dentries'[DirOf(q)]
  BY DEF store
<1>4. (\A n \in Mounts : OnCourse(n))'
  BY <1>2, <1>3, ResumeOnCourse DEF AnchorInv
<1> QED
  BY <1>1, <1>4 DEF Anchored

-----------------------------------------------------------------------------
(***************************************************************************)
(* The calls that change no document.                                      *)
(***************************************************************************)

\* What the look-up found is what the first call of the handler relies on.
LEMMA LookupStage ==
  ASSUME NEW q, NEW seen, NEW r, NEW type,
         seen.op = q.op, seen.path = q.path,
         q.op = "chmod" => seen.type = type,
         r = "ok" => Exists(stats, q.path) /\ type = stats[q.path].type,
         AfterLookup(q, r, type) \notin Rest
  PROVE  /\ Stage(seen, AfterLookup(q, r, type))
         /\ AfterLookup(q, r, type) # "replace_dentry"
<1>1. CASE q.op = "mount"
  <2>1. AfterLookup(q, r, type) = "insert_stat"
    <3>1. AfterLookup(q, r, type) = verify_root(r, type)
      BY <1>1 DEF AfterLookup, LookupAdmits
    <3>2. verify_root(r, type) \in {"idle", "insert_stat", "down"}
      BY DEF verify_root
    <3> QED
      BY <3>1, <3>2 DEF Rest
  <2> QED
    BY <1>1, <2>1 DEF Stage, MountStage
<1>2. CASE q.op # "mount"
  <2>1. /\ LookupAdmits(q.op, r, type)
        /\ AfterLookup(q, r, type) = FirstCall(q)
    BY <1>2 DEF AfterLookup, Rest
  <2>2. CASE q.op \in {"create", "mkdir"}
    BY <2>1, <2>2 DEF FirstCall, Stage, CreateStage, MkdirStage
  <2>3. CASE q.op = "unlink"
    BY <2>1, <2>3 DEF LookupAdmits, FirstCall, Stage, UnlinkStage, IsReg
  <2>4. CASE q.op = "rmdir"
    BY <2>1, <2>4 DEF LookupAdmits, FirstCall, Stage, RmdirStage, IsDir
  <2>5. CASE q.op \in {"open", "read", "write"}
    BY <2>1, <2>5 DEF LookupAdmits, FirstCall, Stage, DataStage, IsReg
  <2>6. CASE q.op = "truncate"
    <3>1. FirstCall(q) \in {"remove_data", "get_block"}
      BY <2>6 DEF FirstCall
    <3> QED
      BY <2>1, <2>6, <3>1 DEF LookupAdmits, Stage, DataStage, IsReg
  <2>7. CASE q.op = "readdir"
    BY <2>1, <2>7 DEF FirstCall, Stage
  <2>8. CASE q.op \in {"chmod", "utimens"}
    BY <2>1, <2>8 DEF LookupAdmits, FirstCall, Stage, MetaStage
  <2> QED
    BY <2>1, <2>2, <2>3, <2>4, <2>5, <2>6, <2>7, <2>8 DEF LookupAdmits
<1> QED
  BY <1>1, <1>2

LEMMA GetattrAnchored ==
  ASSUME NEW m \in Mounts, Alone, AnchorInv, getattr(m)
  PROVE  Anchored'
<1> SUFFICES ASSUME NEW q, q = req[m]
             PROVE  Anchored'
  OBVIOUS
<1>1. PICK o \in Outcomes :
        LET r    == IF q.path \in LongPaths THEN "+ENAMETOOLONG"
                    ELSE Reply(o, Exists(stats, q.path))
            type == IF r = "ok" THEN stats[q.path].type ELSE "none"
            seen == IF q.op = "chmod" THEN [q EXCEPT !.type = type] ELSE q
        IN  Resume(m, seen, AfterLookup(q, r, type), r)
  BY DEF getattr
<1> DEFINE r    == IF q.path \in LongPaths THEN "+ENAMETOOLONG"
                   ELSE Reply(o, Exists(stats, q.path))
           type == IF r = "ok" THEN stats[q.path].type ELSE "none"
           seen == IF q.op = "chmod" THEN [q EXCEPT !.type = type] ELSE q
           next == AfterLookup(q, r, type)
<1>2. q \in RequestDocs /\ q.path \in Paths /\ Asked(q)
  BY ServedOnCourse DEF getattr, Rest
<1>3. r = "ok" => Exists(stats, q.path)
  BY DEF Reply
<1>4. type \in Types
  BY <1>2, <1>3 DEF AnchorInv, TypeOK, Exists, StatDocs, Types
<1>5. /\ seen \in RequestDocs
      /\ seen.op = q.op /\ seen.path = q.path
      /\ q.op = "chmod" => seen.type = type
      /\ q.op # "chmod" => seen = q
  BY <1>2, <1>4 DEF RequestDocs
<1>6. Asked(seen)
  BY <1>2, <1>5 DEF Asked
<1>7. Resume(m, seen, next, r)
  BY <1>1
<1>8. r = "ok" => type = stats[q.path].type
  OBVIOUS
<1> HIDE DEF seen, r, type
<1>9. next \notin Rest => Stage(seen, next) /\ next # "replace_dentry"
  BY <1>3, <1>5, <1>8, LookupStage
<1>10. next = "replace_dentry" => next \notin Rest
  BY DEF Rest
<1> HIDE DEF next
<1> QED
  BY <1>5, <1>6, <1>7, <1>9, <1>10, QuietStep DEF getattr

LEMMA OpenAnchored ==
  ASSUME NEW m \in Mounts, Alone, AnchorInv, open(m)
  PROVE  Anchored'
<1> SUFFICES ASSUME NEW q, q = req[m]
             PROVE  Anchored'
  OBVIOUS
<1> DEFINE next(r) == After(q.op, "open", r)
<1>1. PICK r : Resume(m, q, next(r), r)
  BY DEF open
<1>2. /\ q \in RequestDocs /\ Asked(q)
      /\ Stage(q, "open")
  BY ServedOnCourse DEF open, Rest
<1>3. next(r) \in {"get_block", "idle"}
  BY DEF After, cbfuse_open
<1>4. next(r) \notin Rest => Stage(q, next(r))
  <2>1. Stage(q, "get_block")
    BY <1>2 DEF Stage, MountStage, CreateStage, MkdirStage, UnlinkStage,
       RmdirStage, DataStage, MetaStage
  <2> QED
    BY <1>3, <2>1 DEF Rest
<1> HIDE DEF next
<1> QED
  BY <1>1, <1>2, <1>3, <1>4, QuietStep DEF open

LEMMA GetStatAnchored ==
  ASSUME NEW m \in Mounts, Alone, AnchorInv, get_stat(m)
  PROVE  Anchored'
<1> SUFFICES ASSUME NEW q, q = req[m]
             PROVE  Anchored'
  OBVIOUS
<1> DEFINE next(r) == After(q.op, "get_stat", r)
<1>1. PICK r : Resume(m, q, next(r), r)
  BY DEF get_stat
<1>2. /\ q \in RequestDocs /\ Asked(q)
      /\ Stage(q, "get_stat")
  BY ServedOnCourse DEF get_stat, Rest
<1>3. q.op \in {"open", "read", "write", "truncate", "chmod", "utimens"}
  BY <1>2 DEF Stage, MountStage, CreateStage, MkdirStage, UnlinkStage, RmdirStage
<1>4. next(r) \in {"replace_stat", "idle"}
  BY <1>3 DEF After, read_data, write_data, truncate_data, update_stat
<1>5. next(r) \notin Rest => Stage(q, next(r))
  <2>1. Stage(q, "replace_stat")
    BY <1>2, <1>3 DEF Stage, DataStage, MetaStage
  <2> QED
    BY <1>4, <2>1 DEF Rest
<1> HIDE DEF next
<1> QED
  BY <1>1, <1>2, <1>4, <1>5, QuietStep DEF get_stat

\* A removal that finds no directory entry to change has no name to remove.
LEMMA GetDentryAnchored ==
  ASSUME NEW m \in Mounts, Alone, AnchorInv, get_dentry(m)
  PROVE  Anchored'
<1> SUFFICES ASSUME NEW q, q = req[m]
             PROVE  Anchored'
  OBVIOUS
<1> DEFINE next(r) == After(q.op, "get_dentry", r)
<1>1. /\ q \in RequestDocs /\ Asked(q)
      /\ Stage(q, "get_dentry")
  BY ServedOnCourse DEF get_dentry, Rest
<1>2. q.op \in {"create", "mkdir", "unlink", "rmdir", "readdir"}
  BY <1>1 DEF Stage, MountStage, DataStage, MetaStage
<1>3. PICK r :
        /\ r = IF Exists(dentries, DirOf(q)) THEN "ok" ELSE "ENOENT"
        /\ Resume(m, q, next(r), r)
        /\ result' = [result EXCEPT ![m] =
                        IF next(r) = "replace_dentry"
                        THEN dentries[DirOf(q)] ELSE Absent]
  BY Answered DEF get_dentry, Exists
<1>4. next(r) = "replace_dentry" => result'[m] = dentries[DirOf(q)]
  BY <1>3 DEF AnchorInv, TypeOK
<1>5. CASE r = "ok"
  <2>1. next(r) = IF q.op = "readdir" THEN "idle" ELSE "replace_dentry"
    BY <1>2, <1>5 DEF After, cbfuse_create, cbfuse_mkdir, cbfuse_unlink, cbfuse_rmdir
  <2>2. q.op # "readdir" => Stage(q, "replace_dentry")
    BY <1>1, <1>2 DEF Stage, CreateStage, MkdirStage, UnlinkStage, RmdirStage
  <2>3. next(r) \notin Rest => Stage(q, next(r))
    BY <2>1, <2>2 DEF Rest
  <2> HIDE DEF next
  <2> QED
    BY <1>1, <1>3, <1>4, <2>3, QuietStep DEF get_dentry
<1>6. CASE r # "ok"
  <2>1. next(r) = IF q.op \in {"unlink", "rmdir"} THEN "remove_stat" ELSE "idle"
    BY <1>2, <1>3, <1>6
    DEF After, cbfuse_create, cbfuse_mkdir, cbfuse_unlink, cbfuse_rmdir
  <2>2. q.op \in {"unlink", "rmdir"} => Stage(q, "remove_stat")
    BY <1>1, <1>3, <1>6 DEF Stage, UnlinkStage, RmdirStage, Unlisted, Lists, DirOf
  <2>3. next(r) \notin Rest => Stage(q, next(r))
    BY <2>1, <2>2 DEF Rest
  <2> HIDE DEF next
  <2> QED
    BY <1>1, <1>3, <1>4, <2>3, QuietStep DEF get_dentry
<1> QED
  BY <1>5, <1>6

\* Where a handler of an open file goes from a call on its block.
LEMMA DataNext ==
  ASSUME NEW q, NEW r, NEW at \in {"get_block", "store_block", "remove_data"},
         q.op \in {"open", "read", "write", "truncate"}
  PROVE  After(q.op, at, r) \in {"get_stat", "store_block", "replace_stat", "idle"}
BY DEF After, read_data, write_data, truncate_data, update_stat

\* Its stage asks for no more than a regular file and one of those calls.
LEMMA DataQuietNext ==
  ASSUME NEW q, NEW at, NEW r, DataStage(q.path, at),
         q.op \in {"open", "read", "write", "truncate"},
         at \in {"get_block", "store_block", "remove_data"}
  PROVE  After(q.op, at, r) \notin Rest => Stage(q, After(q.op, at, r))
<1>1. \A next \in {"get_stat", "store_block", "replace_stat"} : Stage(q, next)
  BY DEF Stage, DataStage
<1>2. After(q.op, at, r) \in {"get_stat", "store_block", "replace_stat", "idle"}
  BY DataNext
<1> QED
  BY <1>1, <1>2 DEF Rest

LEMMA GetBlockAnchored ==
  ASSUME NEW m \in Mounts, Alone, AnchorInv, get_block(m)
  PROVE  Anchored'
<1> SUFFICES ASSUME NEW q, q = req[m]
             PROVE  Anchored'
  OBVIOUS
<1> DEFINE next(r) == After(q.op, "get_block", r)
<1>1. PICK r : Resume(m, q, next(r), r)
  BY DEF get_block
<1>2. /\ q \in RequestDocs /\ Asked(q)
      /\ Stage(q, "get_block")
  BY ServedOnCourse DEF get_block, Rest
<1>3. q.op \in {"open", "read", "write", "truncate"} /\ DataStage(q.path, "get_block")
  BY <1>2 DEF Stage, MountStage, CreateStage, MkdirStage, UnlinkStage,
     RmdirStage, MetaStage
<1>4. next(r) \notin Rest => Stage(q, next(r))
  BY <1>3, DataQuietNext
<1>5. next(r) # "replace_dentry"
  BY AfterStores
<1> HIDE DEF next
<1> QED
  BY <1>1, <1>2, <1>4, <1>5, QuietStep DEF get_block

LEMMA RefuseBlockAnchored ==
  ASSUME NEW m \in Mounts, Alone, AnchorInv, refuse_block(m)
  PROVE  Anchored'
<1>1. Resume(m, req[m], "idle", "EFBIG") /\ UNCHANGED store
  BY DEF refuse_block
<1>2. req[m] \in RequestDocs /\ Asked(req[m])
  BY ServedOnCourse DEF refuse_block, Rest
<1>3. "idle" \in Rest
  BY DEF Rest
<1> QED
  BY <1>1, <1>2, <1>3, QuietStep

-----------------------------------------------------------------------------
(***************************************************************************)
(* The calls that change a stat document.                                  *)
(***************************************************************************)

\* Every update keeps the type: update_stat_mode's is the one looked up.
LEMMA ReplaceKeepsTypes ==
  ASSUME NEW m \in Mounts, AnchorInv, replace_stat(m)
  PROVE  \A x \in Paths :
           /\ Exists(stats, x)' <=> Exists(stats, x)
           /\ Exists(stats, x) => stats'[x].type = stats[x].type
<1> DEFINE q == req[m]
           p == q.path
<1>1. /\ q \in RequestDocs /\ p \in Paths
      /\ Stage(q, "replace_stat")
  BY ServedOnCourse DEF replace_stat, Rest
<1>2. CASE stats' = stats
  BY <1>2 DEF Exists
<1>3. CASE /\ ReplaceAllowed(m)
           /\ stats' = [stats EXCEPT ![p] = UpdatedStat(q, result[m])]
  <2>1. result[m] = stats[p] /\ stats[p] \in StatDocs
    BY <1>1, <1>3 DEF ReplaceAllowed, AnchorInv, CasHolds, TypeOK, Exists
  <2>2. UpdatedStat(q, stats[p]) \in StatDocs
    BY <1>1, <2>1, UpdatedStatTyped
  <2>3. q.op = "chmod" => q.type = stats[p].type
    BY <1>1 DEF Stage, MetaStage
  <2>4. UpdatedStat(q, stats[p]).type = stats[p].type
    BY <2>1, <2>3 DEF UpdatedStat, StatDocs
  <2>5. /\ stats'[p] = UpdatedStat(q, stats[p])
        /\ \A x \in Paths \ {p} : stats'[x] = stats[x]
    BY <1>1, <1>3, <2>1 DEF AnchorInv, TypeOK
  <2>6. stats'[p] # Absent /\ stats[p] # Absent
    BY <2>1, <2>2, <2>5, DataAssumption
  <2> QED
    BY <2>4, <2>5, <2>6 DEF Exists
<1> QED
  BY <1>2, <1>3 DEF replace_stat, Takes

LEMMA ReplaceStatAnchored ==
  ASSUME NEW m \in Mounts, Alone, AnchorInv, replace_stat(m)
  PROVE  Anchored'
<1> SUFFICES ASSUME NEW q, q = req[m]
             PROVE  Anchored'
  OBVIOUS
<1> DEFINE next(r) == After(q.op, "replace_stat", r)
<1>1. PICK r : Resume(m, q, next(r), r)
  BY DEF replace_stat
<1>2. q \in RequestDocs /\ Asked(q) /\ Stage(q, "replace_stat")
  BY ServedOnCourse DEF replace_stat, Rest
<1>3. q.op \in {"open", "read", "write", "truncate", "chmod", "utimens"}
  BY <1>2 DEF Stage, MountStage, CreateStage, MkdirStage, UnlinkStage, RmdirStage
<1>4. next(r) = "idle"
  BY <1>3 DEF After, read_data, write_data, truncate_data, update_stat
<1>5. \A x \in Paths : Exists(stats, x) =>
        Exists(stats, x)' /\ stats'[x].type = stats[x].type
  BY ReplaceKeepsTypes
<1>6. (StatAnchors /\ NoDuplicateChildren)'
  BY <1>5, TypesKept DEF replace_stat, AnchorInv
<1>7. (\A n \in Mounts : OnCourse(n))'
  <2>1. next(r) \in Rest /\ next(r) # "replace_dentry"
    BY <1>4 DEF Rest
  <2> HIDE DEF next
  <2> QED
    BY <1>1, <1>2, <2>1, ResumeOnCourse DEF AnchorInv
<1> QED
  BY <1>6, <1>7 DEF Anchored

\* What comes first: nothing else is stored for the path yet.
LEMMA InsertStatAnchored ==
  ASSUME NEW m \in Mounts, Alone, AnchorInv, insert_stat(m)
  PROVE  Anchored'
<1> SUFFICES ASSUME NEW q, q = req[m]
             PROVE  Anchored'
  OBVIOUS
<1> DEFINE p == q.path
           next(r) == After(q.op, "insert_stat", r)
           doc == [type |-> q.type, perm |-> q.perm, size |-> 0]
<1>1. /\ q \in RequestDocs /\ p \in Paths /\ Asked(q)
      /\ Stage(q, "insert_stat")
  BY ServedOnCourse DEF insert_stat, Rest
<1>2. q.op \in {"mount", "create", "mkdir"}
  BY <1>1 DEF Stage, UnlinkStage, RmdirStage, DataStage, MetaStage
<1>3. PICK r :
        /\ r = IF ~Exists(stats, p) THEN "ok" ELSE "ENOENT"
        /\ Resume(m, q, next(r), r)
        /\ IF ~Exists(stats, p) THEN stats' = [stats EXCEPT ![p] = doc]
                                ELSE UNCHANGED stats
  BY Answered DEF insert_stat, InsertAllowed, Exists
<1>4. UNCHANGED <<dentries, blocks>>
  BY DEF insert_stat
<1>5. CASE Exists(stats, p)
  <2>1. next(r) \in Rest /\ next(r) # "replace_dentry"
    BY <1>2, <1>3, <1>5 DEF After, insert_root, cbfuse_create, cbfuse_mkdir, Rest
  <2>2. UNCHANGED store
    BY <1>3, <1>4, <1>5 DEF store
  <2> HIDE DEF next
  <2> QED
    BY <1>1, <1>3, <2>1, <2>2, QuietStep
<1>6. CASE ~Exists(stats, p)
  <2>1. stats'[p] = doc /\ \A x \in Paths \ {p} : stats'[x] = stats[x]
    BY <1>1, <1>3, <1>6 DEF AnchorInv, TypeOK
  <2>2. doc \in StatDocs
    BY <1>1 DEF RequestDocs, StatDocs
  <2>3. (StatAnchors /\ NoDuplicateChildren)'
    BY <1>4, <1>6, <2>1, TypesKept DEF AnchorInv, Exists
  <2>4. Exists(stats, p)' /\ stats'[p].type = q.type
    BY <2>1, <2>2, DataAssumption DEF Exists
  <2>5. Unlisted(p)'
    BY <1>1, <1>4, <1>6, PathAssumption
    DEF AnchorInv, StatAnchors, ListedHaveStat, Unlisted, Lists, Exists
  <2>6. next(r) = IF q.op = "create" THEN "get_dentry" ELSE "add_new_dentry"
    BY <1>2, <1>3, <1>6 DEF After, insert_root, cbfuse_create, cbfuse_mkdir
  <2>7. Stage(q, next(r))'
    <3>1. CASE q.op = "mount"
      BY <1>1, <2>4, <2>6, <3>1 DEF Stage, MountStage, IsDir, Asked
    <3>2. CASE q.op = "create"
      BY <2>4, <2>5, <2>6, <3>2 DEF Stage, CreateStage
    <3>3. CASE q.op = "mkdir"
      BY <1>1, <2>4, <2>5, <2>6, <3>3 DEF Stage, MkdirStage, Asked
    <3> QED
      BY <1>2, <3>1, <3>2, <3>3
  <2>8. next(r) # "replace_dentry"
    BY <2>6
  <2>9. (\A n \in Mounts : OnCourse(n))'
    <3> HIDE DEF next
    <3> QED
      BY <1>1, <1>3, <2>7, <2>8, ResumeOnCourse DEF AnchorInv
  <2> QED
    BY <2>3, <2>9 DEF Anchored
<1> QED
  BY <1>5, <1>6

\* What goes last: nothing else is stored for the path any more.
LEMMA RemoveStatAnchored ==
  ASSUME NEW m \in Mounts, Alone, AnchorInv, remove_stat(m)
  PROVE  Anchored'
<1> SUFFICES ASSUME NEW q, q = req[m]
             PROVE  Anchored'
  OBVIOUS
<1> DEFINE p == q.path
           next(r) == After(q.op, "remove_stat", r)
<1>1. /\ q \in RequestDocs /\ p \in Paths /\ Asked(q)
      /\ Stage(q, "remove_stat")
  BY ServedOnCourse DEF remove_stat, Rest
<1>2. q.op \in {"unlink", "rmdir"}
  BY <1>1 DEF Stage, MountStage, CreateStage, MkdirStage, DataStage, MetaStage
<1>3. PICK r : Resume(m, q, next(r), r)
  BY DEF remove_stat
<1>4. next(r) = "idle"
  BY <1>2 DEF After, cbfuse_unlink, cbfuse_rmdir
<1>5. UNCHANGED <<dentries, blocks>> /\ \A x \in Paths \ {p} : stats'[x] = stats[x]
  BY DEF remove_stat, AnchorInv, TypeOK
<1>6. Unlisted(p) /\ ~Exists(dentries, p) /\ ~Exists(blocks, p)
  BY <1>1, <1>2 DEF Stage, UnlinkStage, RmdirStage, AnchorInv, StatAnchors,
     DentriesHaveStat, BlocksHaveStat, IsReg, IsDir
<1>7. StatAnchors'
  <2>1. ListedHaveStat'
    BY <1>5, <1>6 DEF AnchorInv, StatAnchors, ListedHaveStat, Unlisted, Lists, Exists
  <2>2. DentriesHaveStat' /\ BlocksHaveStat'
    BY <1>5, <1>6 DEF AnchorInv, StatAnchors, DentriesHaveStat, BlocksHaveStat,
       IsReg, Exists
  <2> QED
    BY <2>1, <2>2 DEF StatAnchors
<1>8. NoDuplicateChildren'
  BY <1>5 DEF AnchorInv, NoDuplicateChildren, Lists, Exists
<1>9. (\A n \in Mounts : OnCourse(n))'
  <2>1. next(r) \in Rest /\ next(r) # "replace_dentry"
    BY <1>4 DEF Rest
  <2> HIDE DEF next
  <2> QED
    BY <1>1, <1>3, <2>1, ResumeOnCourse DEF AnchorInv
<1> QED
  BY <1>7, <1>8, <1>9 DEF Anchored

-----------------------------------------------------------------------------
(***************************************************************************)
(* The calls that change a directory entry.                                *)
(***************************************************************************)

\* How add_child_to_dentry and remove_child_from_dentry change a listing that
\* suits the handler's stage: the name's count alone, to one or to none.
LEMMA UpdatedChildrenCounts ==
  ASSUME NEW q \in RequestDocs, NEW children \in ChildBags, q.path \in Paths
  PROVE  LET updated == UpdatedChildren(q, children)
         IN  /\ \A c \in Paths \ {q.path} : updated[c] = children[c]
             /\ q.op \notin {"create", "mkdir"} => updated[q.path] = 0
             /\ q.op \in {"create", "mkdir"} /\ ~(children[q.path] > 0)
                  => updated[q.path] = 1
<1>1. children[q.path] \in 0 .. MaxCopies
  BY DEF ChildBags
<1> QED
  BY <1>1, DataAssumption DEF UpdatedChildren, ChildBags

LEMMA ReplaceDentryAnchored ==
  ASSUME NEW m \in Mounts, Alone, AnchorInv, replace_dentry(m)
  PROVE  Anchored'
<1> SUFFICES ASSUME NEW q, q = req[m]
             PROVE  Anchored'
  OBVIOUS
<1> DEFINE p == q.path
           d == dirname[p]
           next(r) == After(q.op, "replace_dentry", r)
<1>1. /\ q \in RequestDocs /\ p \in Paths /\ Asked(q)
      /\ Stage(q, "replace_dentry")
      /\ HoldsDentry(m)
  BY ServedOnCourse DEF replace_dentry, Rest
<1>2. q.op \in {"create", "mkdir", "unlink", "rmdir"}
  BY <1>1 DEF Stage, MountStage, DataStage, MetaStage
<1>3. DirOf(q) = d /\ d \in Paths
  BY <1>1, <1>2, PathAssumption DEF DirOf
<1>4. result[m] = dentries[d] /\ dentries[d] \in ChildBags
  <2>1. result[m] = dentries[d]
    BY <1>1, <1>3 DEF HoldsDentry, replace_dentry
  <2>2. result[m] \in ChildBags
    BY DEF AnchorInv, TypeOK, Buffered, replace_dentry
  <2> QED
    BY <2>1, <2>2
<1>5. Exists(dentries, d)
  BY <1>4, DataAssumption DEF Exists
<1>6. PICK r :
        /\ Resume(m, q, next(r), r)
        /\ dentries' = [dentries EXCEPT ![d] = UpdatedChildren(q, dentries[d])]
  BY <1>3, <1>4, <1>5, Answered DEF replace_dentry, Exists
<1> DEFINE updated == UpdatedChildren(q, dentries[d])
<1>7. updated \in ChildBags
  BY <1>1, <1>4, UpdatedChildrenTyped
<1>8. /\ \A c \in Paths \ {p} : updated[c] = dentries[d][c]
      /\ q.op \in {"unlink", "rmdir"} => updated[p] = 0
      /\ q.op \in {"create", "mkdir"} => updated[p] = 1
  <2>1. q.op \in {"create", "mkdir"} => ~(dentries[d][p] > 0)
    BY <1>1, <1>5 DEF Stage, CreateStage, MkdirStage, Unlisted, Lists
  <2> QED
    BY <1>1, <1>2, <1>4, <2>1, UpdatedChildrenCounts
<1>9. /\ UNCHANGED <<stats, blocks>>
      /\ dentries'[d] = updated
      /\ \A x \in Paths \ {d} : dentries'[x] = dentries[x]
  BY <1>3, <1>6 DEF replace_dentry, AnchorInv, TypeOK
<1>10. \A x \in Paths : Exists(dentries, x)' <=> Exists(dentries, x)
  BY <1>5, <1>7, <1>9, DataAssumption DEF Exists
<1> HIDE DEF updated
<1>11. ListedHaveStat'
  <2> SUFFICES ASSUME NEW x \in Paths, NEW c \in Paths, Lists(x, c)'
               PROVE  x = dirname[c] /\ c # Root /\ Exists(stats, c)
    BY <1>9 DEF ListedHaveStat, Exists
  <2>1. CASE Lists(x, c)
    BY <2>1 DEF AnchorInv, StatAnchors, ListedHaveStat
  <2>2. CASE ~Lists(x, c)
    <3>1. x = d /\ c = p /\ q.op \in {"create", "mkdir"}
      BY <1>2, <1>5, <1>8, <1>9, <1>10, <2>2 DEF Lists
    <3> QED
      BY <1>1, <3>1 DEF Asked, Stage, CreateStage, MkdirStage
  <2> QED
    BY <2>1, <2>2
<1>12. DentriesHaveStat' /\ BlocksHaveStat'
  BY <1>9, <1>10 DEF AnchorInv, StatAnchors, DentriesHaveStat, BlocksHaveStat,
     IsReg, Exists
<1>13. NoDuplicateChildren'
  <2> SUFFICES ASSUME NEW x \in Paths, NEW c \in Paths, Lists(x, c)'
               PROVE  dentries'[x][c] = 1
    BY DEF NoDuplicateChildren
  <2>1. CASE x = d /\ c = p
    BY <1>2, <1>8, <1>9, <2>1 DEF Lists
  <2>2. CASE ~(x = d /\ c = p)
    <3>1. dentries'[x][c] = dentries[x][c]
      BY <1>8, <1>9, <2>2
    <3>2. Lists(x, c)
      BY <1>10, <3>1 DEF Lists
    <3> QED
      BY <3>1, <3>2 DEF AnchorInv, NoDuplicateChildren
  <2> QED
    BY <2>1, <2>2
<1>14. next(r) = IF q.op \in {"unlink", "rmdir"} THEN "remove_stat" ELSE "idle"
  BY <1>2 DEF After, cbfuse_create, cbfuse_mkdir, cbfuse_unlink, cbfuse_rmdir
<1>15. next(r) \notin Rest => Stage(q, next(r))'
  <2>1. q.op \in {"unlink", "rmdir"} => Unlisted(p)'
    BY <1>8, <1>9 DEF Unlisted, Lists
  <2>2. CASE q.op = "unlink"
    BY <1>1, <1>9, <1>14, <2>1, <2>2 DEF Stage, UnlinkStage, IsReg, Exists
  <2>3. CASE q.op = "rmdir"
    BY <1>1, <1>9, <1>10, <1>14, <2>1, <2>3 DEF Stage, RmdirStage, IsDir, Exists
  <2> QED
    BY <1>2, <1>14, <2>2, <2>3 DEF Rest
<1>16. (\A n \in Mounts : OnCourse(n))'
  <2>1. next(r) # "replace_dentry"
    BY <1>14
  <2> HIDE DEF next
  <2> QED
    BY <1>1, <1>6, <1>15, <2>1, ResumeOnCourse DEF AnchorInv
<1> QED
  BY <1>11, <1>12, <1>13, <1>16 DEF Anchored, StatAnchors

\* A new directory entry names nobody.
LEMMA AddNewDentryAnchored ==
  ASSUME NEW m \in Mounts, Alone, AnchorInv, add_new_dentry(m)
  PROVE  Anchored'
<1> SUFFICES ASSUME NEW q, q = req[m]
             PROVE  Anchored'
  OBVIOUS
<1> DEFINE p == q.path
           next(r) == After(q.op, "add_new_dentry", r)
<1>1. /\ q \in RequestDocs /\ p \in Paths /\ Asked(q)
      /\ Stage(q, "add_new_dentry")
  BY ServedOnCourse DEF add_new_dentry, Rest
<1>2. q.op \in {"mount", "mkdir"}
  BY <1>1 DEF Stage, CreateStage, UnlinkStage, RmdirStage, DataStage, MetaStage
<1>3. PICK r :
        /\ r = IF ~Exists(dentries, p) THEN "ok" ELSE "ENOENT"
        /\ Resume(m, q, next(r), r)
        /\ dentries' = IF ~Exists(dentries, p)
                       THEN [dentries EXCEPT ![p] = NoChildren] ELSE dentries
  BY Answered DEF add_new_dentry, Exists
<1>4. UNCHANGED <<stats, blocks>>
  BY DEF add_new_dentry
<1>5. Exists(stats, p) /\ stats[p].type # "reg"
  BY <1>1, <1>2 DEF Stage, MountStage, MkdirStage, IsDir
<1>6. \A x, c \in Paths : Lists(x, c)' => Lists(x, c) /\ dentries'[x][c] = dentries[x][c]
  <2>1. \A x \in Paths : dentries'[x] = dentries[x] \/ dentries'[x] = NoChildren
    BY <1>3 DEF AnchorInv, TypeOK
  <2>2. \A c \in Paths : ~(NoChildren[c] > 0)
    BY DEF NoChildren
  <2> QED
    BY <2>1, <2>2 DEF Lists, Exists
<1>7. \A x \in Paths \ {p} : dentries'[x] = dentries[x]
  BY <1>3 DEF AnchorInv, TypeOK
<1>8. (StatAnchors /\ NoDuplicateChildren)'
  <2>1. ListedHaveStat' /\ NoDuplicateChildren'
    BY <1>4, <1>6 DEF AnchorInv, StatAnchors, ListedHaveStat,
       NoDuplicateChildren, Exists
  <2>2. DentriesHaveStat' /\ BlocksHaveStat'
    BY <1>4, <1>5, <1>7 DEF AnchorInv, StatAnchors, DentriesHaveStat,
       BlocksHaveStat, IsReg, Exists
  <2> QED
    BY <2>1, <2>2 DEF StatAnchors
<1>9. next(r) = IF q.op = "mkdir" /\ r = "ok" THEN "get_dentry"
                ELSE IF q.op = "mkdir" \/ r = "ok" THEN "idle" ELSE "down"
  BY <1>2 DEF After, insert_root, cbfuse_mkdir
<1>10. next(r) \notin Rest => Stage(q, next(r))'
  <2>1. q.op = "mkdir" => Unlisted(p)'
    BY <1>1, <1>6, PathAssumption DEF Stage, MkdirStage, Unlisted
  <2>2. q.op = "mkdir" => Stage(q, "get_dentry")'
    BY <1>4, <1>5, <2>1 DEF Stage, MkdirStage, Exists
  <2> QED
    BY <1>9, <2>2 DEF Rest
<1>11. (\A n \in Mounts : OnCourse(n))'
  <2>1. next(r) # "replace_dentry"
    BY <1>9
  <2> HIDE DEF next
  <2> QED
    BY <1>1, <1>3, <1>10, <2>1, ResumeOnCourse DEF AnchorInv
<1> QED
  BY <1>8, <1>11 DEF Anchored

LEMMA RemoveDentryAnchored ==
  ASSUME NEW m \in Mounts, Alone, AnchorInv, remove_dentry(m)
  PROVE  Anchored'
<1> SUFFICES ASSUME NEW q, q = req[m]
             PROVE  Anchored'
  OBVIOUS
<1> DEFINE p == q.path
           next(r) == After(q.op, "remove_dentry", r)
<1>1. /\ q \in RequestDocs /\ p \in Paths /\ Asked(q)
      /\ Stage(q, "remove_dentry")
  BY ServedOnCourse DEF remove_dentry, Rest
<1>2. q.op = "rmdir" /\ IsDir(p)
  BY <1>1 DEF Stage, MountStage, CreateStage, MkdirStage, UnlinkStage,
     RmdirStage, DataStage, MetaStage
<1>3. PICK r :
        /\ Resume(m, q, next(r), r)
        /\ dentries' = IF Exists(dentries, p)
                       THEN [dentries EXCEPT ![p] = Absent] ELSE dentries
  BY Answered DEF remove_dentry, Exists
<1>4. /\ UNCHANGED <<stats, blocks>>
      /\ dentries'[p] = Absent
      /\ \A x \in Paths : dentries'[x] \in {dentries[x], Absent}
  BY <1>1, <1>3 DEF remove_dentry, AnchorInv, TypeOK, Exists
<1>5. (StatAnchors /\ NoDuplicateChildren)'
  <2>1. ListedHaveStat' /\ NoDuplicateChildren'
    BY <1>4 DEF AnchorInv, StatAnchors, ListedHaveStat, NoDuplicateChildren,
       Lists, Exists
  <2>2. DentriesHaveStat' /\ BlocksHaveStat'
    BY <1>4 DEF AnchorInv, StatAnchors, DentriesHaveStat, BlocksHaveStat,
       IsReg, Exists
  <2> QED
    BY <2>1, <2>2 DEF StatAnchors
<1>6. next(r) = "get_dentry"
  BY <1>2 DEF After, cbfuse_rmdir
<1>7. Stage(q, next(r))'
  BY <1>2, <1>4, <1>6 DEF Stage, RmdirStage, IsDir, Exists
<1>8. (\A n \in Mounts : OnCourse(n))'
  <2>1. next(r) # "replace_dentry"
    BY <1>6
  <2> HIDE DEF next
  <2> QED
    BY <1>1, <1>3, <1>7, <2>1, ResumeOnCourse DEF AnchorInv
<1> QED
  BY <1>5, <1>8 DEF Anchored

-----------------------------------------------------------------------------
(***************************************************************************)
(* The calls that change a block.                                          *)
(***************************************************************************)

\* A block may come where there is a regular file, and go anywhere.
LEMMA BlocksMayChange ==
  ASSUME NEW p \in Paths, StatAnchors, NoDuplicateChildren,
         UNCHANGED <<stats, dentries>>,
         \A x \in Paths \ {p} : blocks'[x] = blocks[x],
         IsReg(p) \/ ~Exists(blocks, p)'
  PROVE  (StatAnchors /\ NoDuplicateChildren)'
<1>1. ListedHaveStat' /\ DentriesHaveStat' /\ NoDuplicateChildren'
  BY DEF StatAnchors, ListedHaveStat, DentriesHaveStat, NoDuplicateChildren,
     Lists, Exists
<1>2. BlocksHaveStat'
  BY DEF StatAnchors, BlocksHaveStat, IsReg, Exists
<1> QED
  BY <1>1, <1>2 DEF StatAnchors

LEMMA StoreBlockAnchored ==
  ASSUME NEW m \in Mounts, Alone, AnchorInv, store_block(m)
  PROVE  Anchored'
<1> SUFFICES ASSUME NEW q, q = req[m]
             PROVE  Anchored'
  OBVIOUS
<1> DEFINE next(r) == After(q.op, "store_block", r)
<1>1. PICK r : Resume(m, q, next(r), r)
  BY DEF store_block
<1>2. /\ q \in RequestDocs /\ q.path \in Paths /\ Asked(q)
      /\ Stage(q, "store_block")
  BY ServedOnCourse DEF store_block, Rest
<1>3. q.op \in {"open", "read", "write", "truncate"} /\ DataStage(q.path, "store_block")
  BY <1>2 DEF Stage, MountStage, CreateStage, MkdirStage, UnlinkStage,
     RmdirStage, MetaStage
<1>4. /\ UNCHANGED <<stats, dentries>>
      /\ \A x \in Paths \ {q.path} : blocks'[x] = blocks[x]
  BY DEF store_block, AnchorInv, TypeOK
<1>5. (StatAnchors /\ NoDuplicateChildren)'
  BY <1>2, <1>3, <1>4, BlocksMayChange DEF AnchorInv, DataStage
<1>6. next(r) \notin Rest => Stage(q, next(r))'
  <2>1. DataStage(q.path, "store_block")'
    BY <1>3, <1>4 DEF DataStage, IsReg, Exists
  <2>2. \A call \in {"get_stat", "store_block", "replace_stat"} : Stage(q, call)'
    BY <1>3, <2>1 DEF Stage, DataStage
  <2>3. next(r) \in {"get_stat", "store_block", "replace_stat", "idle"}
    BY <1>3, DataNext
  <2> QED
    BY <2>2, <2>3 DEF Rest
<1>7. next(r) # "replace_dentry"
  BY AfterStores
<1>8. (\A n \in Mounts : OnCourse(n))'
  <2> HIDE DEF next
  <2> QED
    BY <1>1, <1>2, <1>6, <1>7, ResumeOnCourse DEF AnchorInv
<1> QED
  BY <1>5, <1>8 DEF Anchored

LEMMA RemoveDataAnchored ==
  ASSUME NEW m \in Mounts, Alone, AnchorInv, remove_data(m)
  PROVE  Anchored'
<1> SUFFICES ASSUME NEW q, q = req[m]
             PROVE  Anchored'
  OBVIOUS
<1> DEFINE p == q.path
           next(r) == After(q.op, "remove_data", r)
<1>1. /\ q \in RequestDocs /\ p \in Paths /\ Asked(q)
      /\ Stage(q, "remove_data")
  BY ServedOnCourse DEF remove_data, Rest
<1>2. PICK r :
        /\ Resume(m, q, next(r), r)
        /\ blocks' = IF Exists(blocks, p)
                     THEN [blocks EXCEPT ![p] = Absent] ELSE blocks
  BY Answered DEF remove_data, Exists
<1>3. /\ UNCHANGED <<stats, dentries>>
      /\ ~Exists(blocks, p)'
      /\ \A x \in Paths \ {p} : blocks'[x] = blocks[x]
  BY <1>1, <1>2 DEF remove_data, AnchorInv, TypeOK, Exists
<1>4. (StatAnchors /\ NoDuplicateChildren)'
  BY <1>1, <1>3, BlocksMayChange DEF AnchorInv
<1>5. CASE q.op = "unlink"
  <2>1. next(r) = "get_dentry"
    BY <1>5 DEF After, cbfuse_unlink
  <2>2. Stage(q, next(r))'
    BY <1>1, <1>3, <1>5, <2>1 DEF Stage, UnlinkStage, IsReg, Exists
  <2> HIDE DEF next
  <2>3. (\A n \in Mounts : OnCourse(n))'
    BY <1>1, <1>2, <2>1, <2>2, ResumeOnCourse DEF AnchorInv
  <2> QED
    BY <1>4, <2>3 DEF Anchored
<1>6. CASE q.op # "unlink"
  <2>1. q.op \in {"open", "read", "write", "truncate"}
    BY <1>1, <1>6 DEF Stage, MountStage, CreateStage, MkdirStage, RmdirStage,
       MetaStage
  <2>2. DataStage(p, "remove_data")'
    BY <1>1, <1>3, <2>1 DEF Stage, DataStage, IsReg, Exists
  <2>3. \A call \in {"get_stat", "store_block", "replace_stat"} : Stage(q, call)'
    BY <2>1, <2>2 DEF Stage, DataStage
  <2>4. next(r) \in {"get_stat", "store_block", "replace_stat", "idle"}
    BY <2>1, DataNext
  <2>5. next(r) \notin Rest => Stage(q, next(r))'
    BY <2>3, <2>4 DEF Rest
  <2>6. next(r) # "replace_dentry"
    BY <2>4
  <2> HIDE DEF next
  <2>7. (\A n \in Mounts : OnCourse(n))'
    BY <1>1, <1>2, <2>5, <2>6, ResumeOnCourse DEF AnchorInv
  <2> QED
    BY <1>4, <2>7 DEF Anchored
<1> QED
  BY <1>5, <1>6

-----------------------------------------------------------------------------
(***************************************************************************)
(* The beginning and the end of requests and processes.                    *)
(***************************************************************************)

\* A mount that has not begun a handler, or has left it, is on course.
LEMMA NotServing ==
  ASSUME NEW m \in Mounts, NEW q \in {MountRequest, NoRequest} \cup Requests,
         Alone, AnchorInv, UNCHANGED store,
         pc'[m] \in Rest \cup {"getattr"}, req'[m] = q, Asked(q)
  PROVE  Anchored'
<1>1. (StatAnchors /\ NoDuplicateChildren)'
  BY TypesKept DEF AnchorInv, store, Exists
<1>2. Asked(req[m])'
  BY DEF Asked
<1>3. pc'[m] # "replace_dentry"
  BY DEF Rest
<1>4. OnCourse(m)'
  BY <1>2, <1>3 DEF OnCourse, HoldsDentry
<1> QED
  BY <1>1, <1>4 DEF Anchored, Alone

LEMMA RequestsAsked ==
  ASSUME NEW q \in Requests, Issues(q)
  PROVE  Asked(q)
<1>1. CASE q \in PlainRequests
  BY <1>1 DEF PlainRequests, PlainOps, Request, Issues, Asked
<1>2. CASE q \in TransferRequests \cup TruncateRequests
  BY <1>2 DEF TransferRequests, TruncateRequests, Request, Asked
<1>3. CASE q \in ModeRequests
  BY <1>3, DataAssumption DEF ModeRequests, Request, Issues, Asked
<1> QED
  BY <1>1, <1>2, <1>3 DEF Requests

LEMMA EnvironmentAnchored ==
  ASSUME NEW m \in Mounts, Alone, AnchorInv,
         Mount(m) \/ Begin(m) \/ Unmount(m) \/ Die(m)
  PROVE  Anchored'
<1>1. CASE Mount(m)
  <2>1. Asked(MountRequest)
    BY DEF Asked, MountRequest, Request
  <2>2. /\ pc'[m] \in Rest \cup {"getattr"}
        /\ req'[m] = MountRequest
    BY <1>1 DEF Mount, AnchorInv, TypeOK
  <2> QED
    BY <1>1, <2>1, <2>2, NotServing DEF Mount
<1>2. CASE Begin(m)
  <2>1. PICK q \in Requests : Issues(q) /\ req' = [req EXCEPT ![m] = q]
    BY <1>2 DEF Begin
  <2>2. pc'[m] \in Rest \cup {"getattr"} /\ req'[m] = q
    BY <1>2, <2>1 DEF Begin, AnchorInv, TypeOK
  <2> QED
    BY <1>2, <2>1, <2>2, RequestsAsked, NotServing DEF Begin
<1>3. CASE Unmount(m)
  <2>1. pc'[m] \in Rest
    BY <1>3 DEF Unmount, AnchorInv, TypeOK, Rest
  <2>2. OnCourse(m)'
    BY <1>3, <2>1 DEF Unmount, AnchorInv, OnCourse, HoldsDentry, Asked, Rest
  <2>3. (StatAnchors /\ NoDuplicateChildren)'
    BY <1>3, TypesKept DEF Unmount, AnchorInv, store, Exists
  <2> QED
    BY <2>2, <2>3 DEF Anchored, Alone
<1>4. CASE Die(m)
  <2>1. Asked(NoRequest)
    BY DEF Asked, NoRequest, Request
  <2>2. pc'[m] \in Rest \cup {"getattr"} /\ req'[m] = NoRequest
    BY <1>4 DEF Die, AnchorInv, TypeOK, Rest
  <2> QED
    BY <1>4, <2>1, <2>2, NotServing DEF Die
<1> QED
  BY <1>1, <1>2, <1>3, <1>4

-----------------------------------------------------------------------------
LEMMA InitAnchored == Init => AnchorInv
<1> SUFFICES ASSUME Init
             PROVE  AnchorInv
  OBVIOUS
<1>1. TypeOK /\ CasHolds
  BY InitTyped DEF Init, CasHolds
<1>2. StatAnchors /\ NoDuplicateChildren
  BY DEF Init, StatAnchors, ListedHaveStat, DentriesHaveStat, BlocksHaveStat,
     NoDuplicateChildren, Lists, Exists
<1>3. \A m \in Mounts : OnCourse(m)
  BY DEF Init, OnCourse, Asked, NoRequest, Request, HoldsDentry, Rest
<1> QED
  BY <1>1, <1>2, <1>3 DEF AnchorInv

LEMMA NextAnchored == Alone /\ AnchorInv /\ [Next]_vars => AnchorInv'
<1> SUFFICES ASSUME Alone, AnchorInv, [Next]_vars
             PROVE  AnchorInv'
  OBVIOUS
<1>1. (TypeOK /\ CasHolds)'
  BY NextTyped, NextKeepsCas DEF AnchorInv
<1>2. Anchored'
  <2>1. CASE UNCHANGED vars
    BY <2>1 DEF vars, AnchorInv, Anchored, StatAnchors, ListedHaveStat,
       DentriesHaveStat, BlocksHaveStat, NoDuplicateChildren, OnCourse, Asked,
       HoldsDentry, DirOf, Stage, MountStage, CreateStage, MkdirStage,
       UnlinkStage, RmdirStage, DataStage, MetaStage, Unlisted, Lists, IsReg,
       IsDir, Exists
  <2>2. ASSUME NEW m \in Mounts, StatsCall(m)
        PROVE  Anchored'
    BY <2>2, GetattrAnchored, OpenAnchored, GetStatAnchored,
       ReplaceStatAnchored, InsertStatAnchored, RemoveStatAnchored
    DEF StatsCall
  <2>3. ASSUME NEW m \in Mounts, DentriesCall(m)
        PROVE  Anchored'
    BY <2>3, GetDentryAnchored, ReplaceDentryAnchored, AddNewDentryAnchored,
       RemoveDentryAnchored DEF DentriesCall
  <2>4. ASSUME NEW m \in Mounts, BlocksCall(m)
        PROVE  Anchored'
    BY <2>4, RefuseBlockAnchored, GetBlockAnchored, StoreBlockAnchored,
       RemoveDataAnchored DEF BlocksCall
  <2>5. ASSUME NEW m \in Mounts,
               Mount(m) \/ Begin(m) \/ Unmount(m)
                 \/ Crash(m) \/ update_block_overrun(m)
        PROVE  Anchored'
    BY <2>5, EnvironmentAnchored DEF Crash, update_block_overrun
  <2> QED
    BY <2>1, <2>2, <2>3, <2>4, <2>5 DEF Next, Serve
<1> QED
  BY <1>1, <1>2 DEF AnchorInv, Anchored

\* However large the tree and wherever the mount is stopped, whatever its
\* handlers leave in the bucket hangs on a stat document, cbfuse_create and
\* cbfuse_mkdir inserting it first and cbfuse_unlink and cbfuse_rmdir removing
\* it last: a single mount whose calls do not fail.
THEOREM StatAnchorsHold ==
  ASSUME Alone
  PROVE  Spec => []StatAnchors
<1>1. Init => AnchorInv
  BY InitAnchored
<1>2. AnchorInv /\ [Next]_vars => AnchorInv'
  BY NextAnchored
<1>3. AnchorInv => StatAnchors
  BY DEF AnchorInv
<1> QED
  BY <1>1, <1>2, <1>3, PTL DEF Spec

\* Under the same assumptions add_child_to_dentry, which does not look for the
\* name it appends, never makes a directory list a name twice.
THEOREM NamesListedOnce ==
  ASSUME Alone
  PROVE  Spec => []NoDuplicateChildren
<1>1. Init => AnchorInv
  BY InitAnchored
<1>2. AnchorInv /\ [Next]_vars => AnchorInv'
  BY NextAnchored
<1>3. AnchorInv => NoDuplicateChildren
  BY DEF AnchorInv
<1> QED
  BY <1>1, <1>2, <1>3, PTL DEF Spec

=============================================================================
